----------------------------- MODULE ByteStream -----------------------------
(* What a net.Conn (or a net.PacketConn read in pieces) promises its user: *)
(* what one end writes the other end reads, in order, once, nothing        *)
(* invented, whatever the layers in between do with it.  An item is one    *)
(* byte of payload together with the address it was sent to (one fixed     *)
(* address for a stream).  A broken connection delivers nothing any more.  *)
EXTENDS Naturals, Sequences

CONSTANT Items

VARIABLES sent, got, down

streamVars == <<sent, got, down>>

Prefix(s, t) == Len(s) <= Len(t) /\ SubSeq(t, 1, Len(s)) = s

StreamInit == sent = <<>> /\ got = <<>> /\ down = FALSE

Put ==
  /\ sent' \in Seq(Items)
  /\ Prefix(sent, sent')
  /\ UNCHANGED <<got, down>>

Get ==
  /\ ~down
  /\ got' \in Seq(Items)
  /\ Prefix(got, got') /\ Prefix(got', sent)
  /\ UNCHANGED <<sent, down>>

Break == down' = TRUE /\ UNCHANGED <<sent, got>>

StreamNext == Put \/ Get \/ Break

StreamSpec == StreamInit /\ [][StreamNext]_streamVars
=============================================================================
