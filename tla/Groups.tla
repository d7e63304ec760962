------------------------------- MODULE Groups --------------------------------
(* A proxy group over its provider: how every kind of group picks the      *)
(* proxy of a connection, from a member list that singledo shares between  *)
(* callers and keeps for five seconds.  Flags and delays of the members    *)
(* change as the probes and dials of ProxyHealth change them.              *)
EXTENDS Integers, SequencesExt

CONSTANTS
  Nodes,        \* proxies other than DIRECT
  Inner,        \* members of the fallback group "inner", itself a member of a relay
  NodeLists,    \* kind of group -> contents its provider may have
  Dialers,      \* connections dialled through the group
  Delays,       \* measured delays, 0 for a failed test
  MaxShifts     \* bound: changes of a flag, a delay or the provider

VARIABLES
  group,     \* kind of the group
  nodeAlive, nodeDelay, \* Proxy.alive and the last entry of Proxy.history
  provided,  \* the provider's proxies
  single,    \* singledo.Single: a call in flight, the result, still within its wait
  dialing,   \* connection (or the ticker of url-test) -> where it is, its list, its path
  fastNode,  \* URLTest.fastNode, Selector.sedProxy
  idx,       \* of strategyRoundRobin
  shifts

groupVars == <<group, nodeAlive, nodeDelay, provided, single, dialing, fastNode, idx, shifts>>

Askers == Dialers \cup {"ticker"}
Calm   == [at |-> "idle", list |-> <<>>, path |-> <<>>]

GroupsInit ==
  /\ group \in DOMAIN NodeLists /\ provided \in NodeLists[group]
  /\ nodeAlive = [p \in Nodes |-> TRUE] /\ nodeDelay = [p \in Nodes |-> 0]
  /\ single = [call |-> FALSE, result |-> <<>>, fresh |-> FALSE]
  /\ dialing = [f \in Askers |-> Calm]
  /\ fastNode = provided[1] /\ idx = 0 /\ shifts = 0

Alive(p) == IF p \in Nodes THEN nodeAlive[p] ELSE TRUE
LastDelay(p) == IF ~Alive(p) \/ nodeDelay[p] = 0 THEN 65535 ELSE nodeDelay[p]

-----------------------------------------------------------------------------
(* The picks. *)

findAliveProxy(list) ==
  LET Live == {i \in DOMAIN list : Alive(list[i])}
  IN  IF Live = {} THEN list[1] ELSE list[CHOOSE i \in Live : \A j \in Live : i <= j]
(* strategyRoundRobin: steps from idx, counted from 0, to the next live    *)
(* member, a whole turn without one.                                       *)
Turn(list) ==
  LET Live == {i \in DOMAIN list : Alive(list[((idx + i) % Len(list)) + 1])}
  IN  IF Live = {} THEN Len(list) ELSE CHOOSE i \in Live : \A j \in Live : i <= j
strategyRoundRobin(list) ==
  IF \E i \in DOMAIN list : Alive(list[i]) THEN list[((idx + Turn(list)) % Len(list)) + 1] ELSE list[1]
(* idx is not guarded: with another caller in the strategy, steps are      *)
(* skipped, a turn may end without the live member, and the index of a     *)
(* longer list be used.                                                    *)
Others(f) == {g \in Askers \ {f} : group = "round-robin" /\ dialing[g].at = "listed"}
RacedPicks(f) ==
  LET list == dialing[f].list
  IN  IF Others(f) = {} THEN {}
      ELSE {p \in ToSet(list) : Alive(p)} \cup {list[1]}
           \cup (IF \E g \in Others(f) : Len(dialing[g].list) > Len(list) THEN {"out of range"} ELSE {})
(* strategyConsistentHashing: the first live of the five places the hash   *)
(* gives, which may all be dead ones; the hash is arbitrary.               *)
strategyConsistentHashing(list) ==
  {p \in ToSet(list) : Alive(p)} \cup (IF \E i \in DOMAIN list : ~Alive(list[i]) THEN {list[1]} ELSE {})
(* The ticker of url-test: the least delay, the first for a tie; no tolerance. *)
Fastest(list) ==
  LET Better(p, q) == IF Alive(q) /\ LastDelay(q) < LastDelay(p) THEN q ELSE p
  IN  FoldLeft(Better, list[1], Tail(list))
(* Relay.proxies: every group replaced by its pick, in the list itself. *)
Unwrapped(list) == [i \in DOMAIN list |-> IF list[i] = "inner" THEN findAliveProxy(Inner) ELSE list[i]]
(* Relay.DialContext: DIRECT left out, DIRECT alone when nothing is left. *)
Relayed(list) ==
  LET hops == SelectSeq(list, LAMBDA p : p # "DIRECT")
  IN  IF hops = <<>> THEN <<"DIRECT">> ELSE hops

(* URLTest.fast, Selector.selectedProxy. *)
selectedProxy == fastNode

Paths(f) == LET list == dialing[f].list
            IN  CASE group = "fallback"    -> {<<findAliveProxy(list)>>}
                  [] group = "round-robin" -> {<<p>> : p \in {strategyRoundRobin(list)} \cup RacedPicks(f)}
                  [] group = "hash"        -> {<<p>> : p \in strategyConsistentHashing(list)}
                  [] group = "relay"       -> {Relayed(Unwrapped(list))}
                  [] OTHER                 -> {<<selectedProxy>>}

-----------------------------------------------------------------------------
(* singledo.Do: the kept result, the call in flight, or a call of one's    *)
(* own.  A connection of a url-test or select group needs no list.         *)
Do(f) ==
  /\ dialing[f].at = "idle"
  /\ IF f = "ticker" THEN group = "url-test" ELSE group \notin {"url-test", "select"}
  /\ IF single.fresh
     THEN dialing' = [dialing EXCEPT ![f].at = "listed", ![f].list = single.result] /\ UNCHANGED single
     ELSE /\ dialing' = [dialing EXCEPT ![f].at = IF single.call THEN "waits" ELSE "calls"]
          /\ single' = [single EXCEPT !.call = TRUE]
  /\ UNCHANGED <<group, nodeAlive, nodeDelay, provided, fastNode, idx, shifts>>
(* Fault: a result once there is never replaced. *)
DoReturnsFirst(f) ==
  /\ dialing[f].at = "calls"
  /\ LET list == IF single.result = <<>> THEN provided ELSE single.result
     IN  /\ single' = [call |-> FALSE, result |-> list, fresh |-> TRUE]
         /\ dialing' = [g \in Askers |-> IF g = f \/ dialing[g].at = "waits"
                                         THEN [dialing[g] EXCEPT !.at = "listed", !.list = list] ELSE dialing[g]]
  /\ UNCHANGED <<group, nodeAlive, nodeDelay, provided, fastNode, idx, shifts>>
(* getProvidersProxies, and its result given to everyone who waits for it. *)
DoReturns(f) ==
  /\ dialing[f].at = "calls"
  /\ single' = [call |-> FALSE, result |-> provided, fresh |-> TRUE]
  /\ dialing' = [g \in Askers |-> IF g = f \/ dialing[g].at = "waits"
                                  THEN [dialing[g] EXCEPT !.at = "listed", !.list = provided] ELSE dialing[g]]
  /\ UNCHANGED <<group, nodeAlive, nodeDelay, provided, fastNode, idx, shifts>>
WaitExpires ==
  /\ single.fresh /\ single' = [single EXCEPT !.fresh = FALSE]
  /\ UNCHANGED <<group, nodeAlive, nodeDelay, provided, dialing, fastNode, idx, shifts>>

(* DialContext, DialUDP, Unwrap of the group; a relay also writes its      *)
(* picks into the slice it shares with singledo and the other callers.     *)
PickNode(f) ==
  /\ f # "ticker"
  /\ dialing[f].at = IF group \in {"url-test", "select"} THEN "idle" ELSE "listed"
  /\ \E path \in Paths(f) :
       dialing' = [g \in Askers |->
         IF g = f THEN [at |-> "dials", list |-> <<>>, path |-> path]
         ELSE IF group = "relay" /\ dialing[g].list = dialing[f].list
              THEN [dialing[g] EXCEPT !.list = Unwrapped(@)] ELSE dialing[g]]
  /\ idx' \in IF Others(f) # {} THEN 0..(Len(dialing[f].list) - 1)
              ELSE {IF group = "round-robin" THEN (idx + Turn(dialing[f].list)) % Len(dialing[f].list) ELSE idx}
  /\ single' = [single EXCEPT !.result = IF group = "relay" /\ @ = dialing[f].list THEN Unwrapped(@) ELSE @]
  /\ UNCHANGED <<group, nodeAlive, nodeDelay, provided, fastNode, shifts>>
Dialled(f) ==
  /\ dialing[f].at = "dials"
  /\ dialing' = [dialing EXCEPT ![f] = Calm]
  /\ UNCHANGED <<group, nodeAlive, nodeDelay, provided, single, fastNode, idx, shifts>>
(* NewURLTest's goroutine at a tick. *)
FastNode ==
  /\ dialing["ticker"].at = "listed"
  /\ fastNode' = Fastest(dialing["ticker"].list)
  /\ dialing' = [dialing EXCEPT !["ticker"] = Calm]
  /\ UNCHANGED <<group, nodeAlive, nodeDelay, provided, single, idx, shifts>>
(* Selector.Set by the API. *)
Set(p) ==
  /\ group = "select" /\ p \in ToSet(provided)
  /\ fastNode' = p
  /\ UNCHANGED <<group, nodeAlive, nodeDelay, provided, single, dialing, idx, shifts>>

(* Probes, dials and updates of the provider. *)
NodeShifts(p, up, d) ==
  /\ shifts < MaxShifts /\ shifts' = shifts + 1
  /\ nodeAlive' = [nodeAlive EXCEPT ![p] = up] /\ nodeDelay' = [nodeDelay EXCEPT ![p] = d]
  /\ UNCHANGED <<group, provided, single, dialing, fastNode, idx>>
ProviderShifts(list) ==
  /\ shifts < MaxShifts /\ shifts' = shifts + 1
  /\ provided' = list
  /\ UNCHANGED <<group, nodeAlive, nodeDelay, single, dialing, fastNode, idx>>

Asks(f) == Do(f) \/ DoReturns(f) \/ PickNode(f) \/ Dialled(f)
GroupsNext ==
  \/ \E f \in Askers : Asks(f)
  \/ FastNode \/ WaitExpires
  \/ \E p \in Nodes : Set(p)
  \/ \E p \in Nodes, up \in BOOLEAN, d \in Delays : NodeShifts(p, up, d)
  \/ \E list \in NodeLists[group] : ProviderShifts(list)
(* A caller that got its list goes on, the ticker ticks, a kept list grows old. *)
GroupsFairness ==
  /\ \A f \in Dialers : WF_groupVars(DoReturns(f) \/ (PickNode(f) /\ dialing[f].at = "listed") \/ Dialled(f))
  /\ WF_groupVars(Do("ticker") \/ DoReturns("ticker") \/ FastNode)
  /\ WF_groupVars(WaitExpires)
GroupsSpec == GroupsInit /\ [][GroupsNext]_groupVars /\ GroupsFairness

-----------------------------------------------------------------------------
(* Where a connection should go, flags, delays and members being what they are. *)
Suits(path) ==
  LET Up == {p \in ToSet(provided) : Alive(p)}
  IN  CASE group = "fallback" ->
             \E i \in DOMAIN provided : /\ path = <<provided[i]>>
                                        /\ Alive(path[1]) \/ (Up = {} /\ i = 1)
                                        /\ \A j \in 1..(i - 1) : ~Alive(provided[j])
        [] group = "url-test" ->
             /\ path[1] \in ToSet(provided)
             /\ \A p \in Up : LastDelay(path[1]) <= LastDelay(p)
        [] group \in {"round-robin", "hash"} -> path[1] \in Up \/ path[1] = provided[1]
        [] group = "relay" ->
             LET Hop(p) == IF p = "inner" THEN findAliveProxy(Inner) ELSE p
                 hops == SelectSeq([i \in DOMAIN provided |-> Hop(provided[i])], LAMBDA p : p # "DIRECT")
             IN  path = IF hops = <<>> THEN <<"DIRECT">> ELSE hops
        [] OTHER -> TRUE

(* Once flags, delays and the provider's list stop changing, every         *)
(* connection of a group goes where these say: the first live member, the  *)
(* one of least delay, some live member (or the first, when the hash finds *)
(* none or callers race for the index), all hops in order; neither the     *)
(* list singledo keeps nor one shared with a caller that came earlier      *)
(* holds it to the past for ever.                                          *)
PicksSettle ==
  <>[][UNCHANGED <<nodeAlive, nodeDelay, provided>>]_groupVars
    => <>[][\A f \in Dialers : PickNode(f) => Suits(dialing'[f].path)]_groupVars
=============================================================================
