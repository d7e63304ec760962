----------------------------- MODULE MCOutbound ------------------------------
(* The way out of a connection, for TLC: the group's pick, the proxy's     *)
(* health, the dial, the handshake with the proxy and the framing of what  *)
(* follows.  The five share no variable; part says which one a behaviour   *)
(* is about, the others staying in an initial state, so that one run       *)
(* checks the sum of their state spaces and not the product.               *)
EXTENDS Framing, Handshake, Dialer, Groups, ProxyHealth

VARIABLE part

vars == <<framingVars, handshakeVars, dialVars, groupVars, healthVars, part>>

MCTargets ==
  {[t |-> "host", h |-> "name.", ip |-> ""], [t |-> "v4", h |-> "", ip |-> "4"], [t |-> "v4", h |-> "name", ip |-> "4"],
   [t |-> "v4", h |-> "4", ip |-> "4"], [t |-> "v6", h |-> "", ip |-> "6"]}
MCLogins   == {<<"", "">>, <<"u", "p">>, <<"u", "q">>, <<"w", "">>}
MCUserSets == {{}, {<<"u", "p">>, <<"w", "">>}}

MCInner == <<"p", "q">>
MCNodeLists == [k \in {"fallback", "round-robin", "hash", "url-test", "select", "relay"} |->
  IF k = "relay" THEN {<<"inner", "DIRECT", "q">>, <<"DIRECT">>} ELSE {<<"p", "q">>, <<"q">>}]

(* Where the parts a behaviour is not about stay: nothing opened, no dial  *)
(* made, a group that keeps its node, a check that was closed and has      *)
(* ended.                                                                  *)
NoDial ==
  /\ race = {} /\ racer = [f \in Families |-> "end"] /\ result = [f \in Families |-> NoResult]
  /\ heard = {} /\ returned = <<"no">> /\ opened = {}
NoCheck ==
  /\ server = [p \in Members |-> "far"] /\ alive = [p \in Members |-> TRUE] /\ recent = [p \in Members |-> TRUE]
  /\ tokens = [p \in Members |-> 0] /\ history = [p \in Members |-> <<>>] /\ flow = [f \in Flows |-> Resting]
  /\ hc = [lazy |-> FALSE, touched |-> FALSE, checking |-> FALSE, closed |-> TRUE]
  /\ tester = [t \in Rounds \X Members |-> Untested] /\ changes = 0

Init ==
  /\ part \in {"framing", "handshake", "dial", "group", "health"}
  /\ FramingInit /\ HandshakeInit /\ GroupsInit
  /\ part # "group" => group = "select" /\ provided = <<"q">>
  /\ IF part = "dial" THEN DialInit ELSE NoDial
  /\ IF part = "health" THEN HealthInit ELSE NoCheck
Next ==
  \/ part = "framing"   /\ FramingNext   /\ UNCHANGED <<handshakeVars, dialVars, groupVars, healthVars, part>>
  \/ part = "handshake" /\ HandshakeNext /\ UNCHANGED <<framingVars, dialVars, groupVars, healthVars, part>>
  \/ part = "dial"      /\ DialNext      /\ UNCHANGED <<framingVars, handshakeVars, groupVars, healthVars, part>>
  \/ part = "group"     /\ GroupsNext    /\ UNCHANGED <<framingVars, handshakeVars, dialVars, healthVars, part>>
  \/ part = "health"    /\ HealthNext    /\ UNCHANGED <<framingVars, handshakeVars, dialVars, groupVars, part>>
Spec ==
  Init /\ [][Next]_vars /\ FramingFairness /\ HandshakeFairness /\ DialFairness /\ GroupsFairness /\ HealthFairness
=============================================================================
