------------------------------ MODULE MCUdpNat ------------------------------
(* Two packets of one client, so that sessions of one key overlap, with    *)
(* and without a TCP relay that uses the breaker too.                      *)
EXTENDS UdpNat

CONSTANTS p1, p2, r1, k1

MCPackets == {p1, p2}
MCKeys == {k1}
MCKeyOf == [p \in MCPackets |-> k1]
MCWithRelay == {p1, p2, r1}
MCRequested == {-1, 0, 1}
============================================================================
