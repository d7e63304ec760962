--------------------------- MODULE Tracker_proofs ---------------------------
(* Proofs of the safety properties of Tracker, for any number of           *)
(* connections, sessions and API calls, and of IdleConn, for any number of *)
(* copiers and any timeout.                                                *)
EXTENDS Tracker, IdleConn, TLAPS

Step(c) ==
  \/ Handler(c)
  \/ \E s \in Sides : CopyEnds(c, s) \/ CopierCloses(c, s)

(* The steps of Next, by the variables they may change.                    *)
LEMMA NextSteps ==
  ASSUME [Next]_vars
  PROVE  \/ \E c \in Conns : Step(c)
         \/ \E a \in Actors : CloseCall(a)
         \/ \E a \in Apis, S \in SUBSET connections : Snapshot(a, S)
         \/ \E a \in Apis, c \in Conns : ApiClose(a, c)
         \/ SweepStart \/ SweepEnd
         \/ \E c \in Conns : SweepVisit(c)
         \/ UNCHANGED vars
  BY ZenonT(60) DEF Next, Step

(* Every step of a connection's goroutines, of a call and of a closer      *)
(* keeps the types.                                                        *)
LEMMA TypeInductive == TypeOK /\ [Next]_vars => TypeOK'
<1> SUFFICES ASSUME TypeOK, [Next]_vars PROVE TypeOK'
  BY Zenon
<1> USE DEF TypeOK, trackVars, callVars, sweepVars, connVars, Goto
<1>0. Conns \subseteq Actors /\ Apis \subseteq Actors /\ Sweeper \in Actors
  BY Zenon DEF Actors, Closers
<1>1. ASSUME NEW c \in Conns, Handler(c) PROVE TypeOK'
  <2>0. \A l \in HandlerState : Goto(c, l) => pc' \in [Conns -> HandlerState]
    BY Zenon
  <2> HIDE DEF Goto
  <2>1. CASE Register(c) \/ JoinAgain(c) \/ (c \in Tcp /\ handleTCPConn(c))
    BY <1>1, <2>0, <2>1 DEF Register, JoinAgain, handleTCPConn, HandlerState
  <2>2. CASE DialError(c) \/ DialOk(c) \/ ReadEnds(c)
    BY <1>1, <2>0, <2>2 DEF DialError, DialOk, ReadEnds, HandlerState
  <2>3. CASE RelayStarts(c) \/ RelayRejected(c) \/ RelayReturns(c)
    <3>1. [s \in Sides |-> "copy"] \in CopierState
      BY Zenon DEF CopierState
    <3>2. copier \in [Conns -> CopierState]
      BY Zenon
    <3>3. copier' \in [Conns -> CopierState]
      <4> HIDE DEF TypeOK
      <4> QED
        BY Zenon, <1>1, <2>3, <3>1, <3>2 DEF RelayStarts, RelayRejected, RelayReturns
    <3> QED
      BY Zenon, <1>1, <2>0, <2>3, <3>3 DEF RelayStarts, RelayRejected, RelayReturns,
                                    HandlerState
  <2>4. CASE Unwind(c) \/ HandlerReturns(c)
    BY <1>1, <2>0, <2>4 DEF Unwind, HandlerReturns, HandlerState
  <2>5. CASE DeferredClose(c)
    BY Zenon, <1>0, <1>1, <2>0, <2>5 DEF DeferredClose, Call, HandlerState
  <2> QED
    BY Zenon, <1>1, <2>1, <2>2, <2>3, <2>4, <2>5 DEF Handler
<1>2. ASSUME NEW c \in Conns, NEW s \in Sides, CopyEnds(c, s) \/ CopierCloses(c, s)
      PROVE  TypeOK'
  <2>1. copier' \in [Conns -> CopierState]
    <3>1. PICK l \in {"src", "dst", "done"} : copier' = [copier EXCEPT ![c][s] = l]
      BY ONLY Zenon, <1>2 DEF CopyEnds, CopierCloses
    <3>2. copier \in [Conns -> CopierState]
      BY Zenon
    <3>3. [copier[c] EXCEPT ![s] = l] \in CopierState
      BY ONLY Zenon, <1>2, <3>2, l \in {"src", "dst", "done"} DEF CopierState
    <3> QED
      BY ONLY Zenon, <1>2, <3>1, <3>2, <3>3
  <2>2. CASE CopyEnds(c, s)
    BY Zenon, <1>2, <2>1, <2>2 DEF CopyEnds
  <2>3. CASE CopierCloses(c, s)
    <3>1. CASE CloseClient(c)
      BY Zenon, <1>2, <2>1, <2>3, <3>1 DEF CopierCloses, CloseClient
    <3>2. CASE CloseRemote(c)
      BY Zenon, <1>2, <2>1, <2>3, <3>2 DEF CopierCloses, CloseRemote
    <3> QED
      BY Zenon, <2>3, <3>1, <3>2 DEF CopierCloses
  <2> QED
    BY Zenon, <1>2, <2>2, <2>3
<1>3. ASSUME NEW a \in Actors, CloseCall(a) PROVE TypeOK'
  <2>1. CASE CloseChecks(a)
    BY Zenon, <1>3, <2>1 DEF CloseChecks
  <2>2. CASE CloseMarks(a)
    BY Zenon, <1>3, <2>2 DEF CloseMarks
  <2>3. CASE CloseLeaves(a)
    <3>1. early' \in [Conns -> BOOLEAN]
      BY Zenon, <1>3, <2>3 DEF CloseLeaves
    <3> QED
      BY Zenon, <1>3, <2>3, <3>1 DEF CloseLeaves
  <2> QED
    BY Zenon, <1>3, <2>1, <2>2, <2>3 DEF CloseCall
<1>4. ASSUME NEW a \in Apis, NEW S \in SUBSET connections, Snapshot(a, S)
      PROVE  TypeOK'
  BY Zenon, <1>4 DEF Snapshot
<1>5. ASSUME NEW a \in Apis, NEW c \in Conns, ApiClose(a, c) PROVE TypeOK'
  BY Zenon, <1>0, <1>5 DEF ApiClose, Call
<1>6. CASE SweepStart \/ SweepEnd
  BY ZenonT(60), <1>6 DEF SweepStart, SweepEnd
<1>7. ASSUME NEW c \in Conns, SweepVisit(c) PROVE TypeOK'
  BY <1>0, <1>7 DEF SweepVisit, Call
<1>8. CASE UNCHANGED vars
  BY Zenon, <1>8 DEF vars
<1> HIDE DEF TypeOK, trackVars, callVars, sweepVars, connVars, Goto
<1> QED
  BY Zenon, NextSteps, <1>1, <1>2, <1>3, <1>4, <1>5, <1>6, <1>7, <1>8 DEF Step

(* The state of the program always has its type.                           *)
THEOREM TypeCorrect == Spec => []TypeOK
<1>1. ASSUME Init PROVE TypeOK
  <2>1. (CHOOSE c \in Conns : TRUE) \in Conns
    BY Zenon, TrackerAssumption
  <2>2. target \in [Actors -> Conns]
    BY Zenon, <1>1, <2>1 DEF Init
  <2> QED
    BY ZenonT(60), <1>1, <2>2 DEF Init, TypeOK, Sides, HandlerState, CopierState
<1> QED
  BY <1>1, TypeInductive, PTL DEF Spec

---------------------------------------------------------------------------
(* What holds of a connection where its goroutine is: before the dial ends *)
(* there is no Conn and no ERROR, a relayed connection is UP, the stage of *)
(* the deferred Close belongs to the end of the handler, and once that     *)
(* Close has returned the connection is not open, and listed only if it is *)
(* marked.                                                                 *)
Before == {"new", "join", "queued", "dial"}

Closed(c) == pc[c] = "done" \/ (pc[c] = "closing" /\ stage[c] = "idle")

ConnInv(c) ==
  /\ stage[c] # "idle" => pc[c] = "closing" /\ target[c] = c
  /\ pc[c] \in Before => remote[c] = "none" /\ chain[c] # "ERROR"
  /\ chain[c] = "ERROR" => remote[c] = "none"
  /\ pc[c] \in {"relay", "copy", "return"} => chain[c] = "UP"
  /\ \A s \in Sides : copier[c][s] # "off" => chain[c] = "UP" /\ pc[c] \notin Before
  /\ Closed(c) => /\ remote[c] # "open"
                  /\ c \in connections => chain[c] = "ERROR" /\ markGC[c]
  /\ pc[c] = "done" => client[c] = "closed"
  /\ pc[c] \in {"queued", "dial"} /\ ~early[c] => c \in connections
  /\ remote[c] = "open" /\ ~early[c] => c \in connections

CallInv == \A a \in Actors : stage[a] = "mark" => chain[target[a]] = "ERROR"

HandlerInv == CallInv /\ \A c \in Conns : ConnInv(c)

(* HandlerInv is kept by every step.  The goroutine of a connection        *)
(* changes the state of that connection only; the calls of Close change    *)
(* their target.                                                           *)
LEMMA HandlerInductive == TypeOK /\ HandlerInv /\ [Next]_vars => HandlerInv'
<1> SUFFICES ASSUME TypeOK, HandlerInv, [Next]_vars PROVE HandlerInv'
  BY Zenon
<1> USE DEF TypeOK, HandlerInv, CallInv, ConnInv, Closed, Before, trackVars,
            callVars, sweepVars, connVars, Goto
<1>0. Conns \subseteq Actors /\ Apis \subseteq Actors /\ Sweeper \in Actors
      /\ Apis \cap Conns = {} /\ Sweeper \notin Conns
  BY TrackerAssumption DEF Actors, Closers
<1>1. ASSUME NEW c \in Conns, Handler(c) PROVE HandlerInv'
  <2>1. CASE Register(c) \/ JoinAgain(c)
    BY <1>0, <1>1, <2>1 DEF Register, JoinAgain
  <2>2. CASE c \in Tcp /\ handleTCPConn(c)
    BY <1>0, <1>1, <2>2 DEF handleTCPConn
  <2>3. CASE DialError(c) \/ DialOk(c)
    BY <1>0, <1>1, <2>3 DEF DialError, DialOk
  <2>4. CASE ReadEnds(c) \/ RelayStarts(c) \/ RelayRejected(c) \/ RelayReturns(c)
    BY <1>0, <1>1, <2>4 DEF ReadEnds, RelayStarts, RelayRejected, RelayReturns
  <2>5. CASE Unwind(c)
    BY <1>0, <1>1, <2>5 DEF Unwind
  <2>6. CASE DeferredClose(c)
    BY <1>0, <1>1, <2>6 DEF DeferredClose, Call
  <2>7. CASE HandlerReturns(c)
    BY <1>0, <1>1, <2>7 DEF HandlerReturns
  <2> QED
    BY ZenonT(60), <1>1, <2>1, <2>2, <2>3, <2>4, <2>5, <2>6, <2>7 DEF Handler
<1>2. ASSUME NEW c \in Conns, NEW s \in Sides, CopyEnds(c, s) \/ CopierCloses(c, s)
      PROVE  HandlerInv'
  BY SMTT(40), <1>0, <1>2 DEF CopyEnds, CopierCloses, CloseClient, CloseRemote
<1>3. ASSUME NEW a \in Actors, CloseCall(a) PROVE HandlerInv'
  <2>1. CASE CloseChecks(a)
    BY <1>0, <1>3, <2>1 DEF CloseChecks
  <2>2. CASE CloseMarks(a)
    BY <1>0, <1>3, <2>2 DEF CloseMarks
  <2>3. CASE CloseLeaves(a)
    <3>1. CallInv'
      BY <1>0, <1>3, <2>3 DEF CloseLeaves
    <3>2. ASSUME NEW d \in Conns PROVE ConnInv(d)'
      <4>1. CASE d # target[a]
        BY <1>0, <1>3, <2>3, <4>1 DEF CloseLeaves
      <4>2. CASE d = target[a]
        <5>1. /\ d \notin connections'
              /\ remote'[d] = IF remote[d] = "none" THEN "none" ELSE "closed"
              /\ remote[d] = "none" => early'[d]
              /\ UNCHANGED <<pc, client, copier, chain, markGC, target>>
          BY ZenonT(60), <1>0, <1>3, <2>3, <4>2 DEF CloseLeaves
        <5>2. stage'[d] # "idle" => stage[d] # "idle"
          BY <1>0, <1>3, <2>3, <4>2 DEF CloseLeaves
        <5> QED
          BY <5>1, <5>2
      <4> QED
        BY ZenonT(60), <4>1, <4>2
    <3> QED
      BY Zenon, <3>1, <3>2
  <2> QED
    BY Zenon, <1>3, <2>1, <2>2, <2>3 DEF CloseCall
<1>4. ASSUME NEW a \in Apis, NEW S \in SUBSET connections, Snapshot(a, S)
      PROVE  HandlerInv'
  BY <1>0, <1>4 DEF Snapshot
<1>5. ASSUME NEW a \in Apis, NEW c \in Conns, ApiClose(a, c) PROVE HandlerInv'
  BY <1>0, <1>5 DEF ApiClose, Call
<1>6. CASE SweepStart \/ SweepEnd
  BY <1>0, <1>6 DEF SweepStart, SweepEnd
<1>7. ASSUME NEW c \in Conns, SweepVisit(c) PROVE HandlerInv'
  <2>1. CASE chain[c] = "ERROR"
    BY <1>0, <1>7, <2>1 DEF SweepVisit, Call
  <2>2. CASE chain[c] # "ERROR"
    BY <1>0, <1>7, <2>2 DEF SweepVisit
  <2> QED
    BY Zenon, <2>1, <2>2
<1>8. CASE UNCHANGED vars
  BY <1>8 DEF vars
<1> HIDE DEF TypeOK, HandlerInv, CallInv, ConnInv, Closed, Before, trackVars,
             callVars, sweepVars, connVars, Goto
<1> QED
  BY Zenon, NextSteps, <1>1, <1>2, <1>3, <1>4, <1>5, <1>6, <1>7, <1>8 DEF Step

---------------------------------------------------------------------------
(* Of the entries whose goroutine had returned when the tick began, one    *)
(* that is still listed has yet to be visited, or is the one the sweep is  *)
(* taking out.                                                             *)
SweepInv ==
  /\ \A c \in due : pc[c] = "done"
  /\ \A c \in due \cap connections :
       /\ sweep /\ c \in must
       /\ \/ c \notin visited
          \/ target[Sweeper] = c /\ stage[Sweeper] \in {"check", "leave"}

(* Every step keeps what the sweep has established.                        *)
LEMMA SweepInductive ==
  TypeOK /\ HandlerInv /\ SweepInv /\ [Next]_vars => SweepInv'
<1> SUFFICES ASSUME TypeOK, HandlerInv, SweepInv, [Next]_vars PROVE SweepInv'
  BY Zenon
<1> USE DEF TypeOK, SweepInv, trackVars, callVars, sweepVars, connVars, Goto
<1>0. Conns \subseteq Actors /\ Apis \subseteq Actors /\ Sweeper \in Actors
      /\ Sweeper \notin Apis /\ Sweeper \notin Conns
  BY Zenon, TrackerAssumption DEF Actors, Closers
<1>m. \A c \in due \cap connections : chain[c] = "ERROR" /\ markGC[c]
  BY Zenon DEF HandlerInv, ConnInv, Closed
<1>1. ASSUME NEW c \in Conns, Handler(c) PROVE SweepInv'
  <2>1. UNCHANGED sweepVars /\ target'[Sweeper] = target[Sweeper]
        /\ stage'[Sweeper] = stage[Sweeper]
    BY <1>0, <1>1 DEF Handler, Register, JoinAgain, handleTCPConn, DialError, DialOk,
       ReadEnds, RelayStarts, RelayRejected, RelayReturns, Unwind, DeferredClose,
       HandlerReturns, Call
  <2>2. pc[c] # "done" /\ (\A d \in Conns \ {c} : pc'[d] = pc[d])
    BY <1>1 DEF Handler, Register, JoinAgain, handleTCPConn, DialError, DialOk,
       ReadEnds, RelayStarts, RelayRejected, RelayReturns, Unwind, DeferredClose,
       HandlerReturns
  <2>3. connections' \subseteq connections \cup {c}
    BY Zenon, <1>1 DEF Handler, Register, JoinAgain, handleTCPConn, DialError, DialOk,
       ReadEnds, RelayStarts, RelayRejected, RelayReturns, Unwind, DeferredClose,
       HandlerReturns
  <2> QED
    BY <2>1, <2>2, <2>3
<1>2. ASSUME NEW c \in Conns, NEW s \in Sides, CopyEnds(c, s) \/ CopierCloses(c, s)
      PROVE  SweepInv'
  <2>1. UNCHANGED <<pc, stage, target, sweep, must, visited, due>>
        /\ connections' \subseteq connections
    BY <1>2 DEF CopyEnds, CopierCloses, CloseClient, CloseRemote
  <2> QED
    BY Zenon, <2>1
<1>3. ASSUME NEW a \in Actors, CloseCall(a) PROVE SweepInv'
  <2>1. CASE CloseChecks(a)
    BY <1>0, <1>m, <1>3, <2>1 DEF CloseChecks
  <2>2. CASE CloseMarks(a)
    BY Zenon, <1>0, <1>3, <2>2 DEF CloseMarks
  <2>3. CASE CloseLeaves(a)
    BY Zenon, <1>0, <1>3, <2>3 DEF CloseLeaves
  <2> QED
    BY Zenon, <1>3, <2>1, <2>2, <2>3 DEF CloseCall
<1>4. ASSUME NEW a \in Apis, NEW S \in SUBSET connections, Snapshot(a, S)
      PROVE  SweepInv'
  BY Zenon, <1>4 DEF Snapshot
<1>5. ASSUME NEW a \in Apis, NEW c \in Conns, ApiClose(a, c) PROVE SweepInv'
  BY Zenon, <1>0, <1>5 DEF ApiClose, Call
<1>6. CASE SweepStart
  BY Zenon, <1>6 DEF SweepStart
<1>7. CASE SweepEnd
  BY Zenon, <1>7 DEF SweepEnd
<1>8. ASSUME NEW c \in Conns, SweepVisit(c) PROVE SweepInv'
  <2>1. CASE chain[c] = "ERROR"
    BY <1>0, <1>8, <2>1 DEF SweepVisit, Call
  <2>2. CASE chain[c] # "ERROR"
    BY Zenon, <1>m, <1>8, <2>2 DEF SweepVisit
  <2> QED
    BY Zenon, <2>1, <2>2
<1>9. CASE UNCHANGED vars
  BY Zenon, <1>9 DEF vars
<1> HIDE DEF TypeOK, SweepInv, trackVars, callVars, sweepVars, connVars, Goto
<1> QED
  BY Zenon, NextSteps, <1>1, <1>2, <1>3, <1>4, <1>5, <1>6, <1>7, <1>8, <1>9 DEF Step

(* The three invariants hold in every state.                               *)
LEMMA Invariants == Spec => [](TypeOK /\ HandlerInv /\ SweepInv)
<1>1. Init => HandlerInv /\ SweepInv
  BY DEF Init, HandlerInv, CallInv, ConnInv, Closed, Before, SweepInv, Actors
<1> QED
  BY <1>1, TypeCorrect, HandlerInductive, SweepInductive, PTL DEF Spec

(* No socket stays open after the goroutine of its connection has returned.*)
THEOREM SocketsAreReleased == Spec => []SocketsReleased
<1>1. HandlerInv => SocketsReleased
  BY Zenon DEF HandlerInv, ConnInv, Closed, SocketsReleased
<1> QED
  BY <1>1, Invariants, PTL

(* After that a connection is listed only as a failed one that is marked.  *)
THEOREM ListedAreMarked == Spec => []ListedAfterwardsIsMarked
<1>1. TypeOK /\ HandlerInv => ListedAfterwardsIsMarked
  BY Zenon DEF TypeOK, HandlerInv, ConnInv, Closed, ListedAfterwardsIsMarked
<1> QED
  BY <1>1, Invariants, PTL

(* An open outbound connection is listed unless its tracker was closed     *)
(* before the dial was done.                                               *)
THEOREM OpenAreListed == Spec => []OpenIsListed
<1>1. HandlerInv => OpenIsListed
  BY Zenon DEF HandlerInv, ConnInv, OpenIsListed
<1> QED
  BY <1>1, Invariants, PTL

(* A tick of end_errors_conn takes out every entry whose goroutine had     *)
(* returned when it began.                                                 *)
THEOREM SweepIsComplete == Spec => []SweepCollects
<1>1. SweepInv => SweepCollects
  BY Zenon DEF SweepInv, SweepCollects
<1> QED
  BY <1>1, Invariants, PTL

(***************************************************************************)
(* IdleConn: the bounds on the idle deadline, for any timeout, any latency *)
(* up to a quarter of it and any number of goroutines.                     *)
(***************************************************************************)
Quarter == Timeout \div 4

(* The latency of a call is at most a quarter of the timeout.              *)
LEMMA QuarterNat == Quarter \in Nat /\ Delay <= Quarter
  BY IdleAssumption DEF Quarter

(* The state of the program always has its type.                           *)
LEMMA IdleTypeInductive == IdleTypeOK /\ [IdleNext]_idleVars => IdleTypeOK'
<1> SUFFICES ASSUME IdleTypeOK, [IdleNext]_idleVars PROVE IdleTypeOK'
  BY Zenon
<1> USE IdleAssumption DEF IdleTypeOK
<1>1. ASSUME NEW g \in Copiers, CopierStep(g) PROVE IdleTypeOK'
  <2>1. CASE Use(g) \/ Fail(g) \/ StartDeadline(g)
    BY Zenon, <1>1, <2>1 DEF Use, Fail, StartDeadline
  <2>2. CASE Load(g) \/ CompareAndSwap(g)
    BY <1>1, <2>2 DEF Load, CompareAndSwap
  <2>3. CASE Eval(g)
    <3>1. now + Timeout \in Nat
      OBVIOUS
    <3>2. until' \in [Copiers -> Nat]
      BY Zenon, <1>1, <2>3, <3>1 DEF Eval
    <3> QED
      BY Zenon, <1>1, <2>3, <3>2 DEF Eval
  <2>4. CASE SetDeadline(g)
    BY Zenon, <1>1, <2>4 DEF SetDeadline
  <2> QED
    BY Zenon, <1>1, <2>1, <2>2, <2>3, <2>4 DEF CopierStep
<1>2. CASE Tick
  BY <1>2 DEF Tick
<1>3. CASE UNCHANGED idleVars
  BY Zenon, <1>3 DEF idleVars
<1> QED
  BY Zenon, <1>1, <1>2, <1>3 DEF IdleNext

(* Every variable of the deadline keeps its type (NewIdleConn).            *)
THEOREM IdleTypeCorrect == IdleSpec => []IdleTypeOK
<1>1. ASSUME IdleInit PROVE IdleTypeOK
  <2>1. armed \in BOOLEAN
    BY ZenonT(60), <1>1 DEF IdleInit
  <2>2. begun \in Nat \cup {-1}
    BY Zenon, <1>1 DEF IdleInit
  <2> QED
    BY Zenon, <1>1, <2>1, <2>2 DEF IdleInit, IdleTypeOK
<1> QED
  BY <1>1, IdleTypeInductive, PTL DEF IdleSpec

(* What the bounds rest on.  A call that is under way began at most Delay  *)
(* ago, at a time of use or at the start of the relay; a copier about to   *)
(* swap either still sees the value it loaded or has been overtaken by a   *)
(* swap as recent as its own; a use that moved nothing was within a        *)
(* quarter of the last swap; and the deadline belongs to the last swap     *)
(* unless the one that swapped has yet to set it.                          *)
Setting(g) == place[g] \in {"eval", "set"}
Weighing(g) == place[g] \in {"load", "cas"}

CopierInv(g) ==
  /\ Calling(g) => nowNano[g] <= now /\ now <= nowNano[g] + Delay
  /\ Weighing(g) => nowNano[g] <= lastUse
  /\ Setting(g) => nowNano[g] <= lastUse \/ nowNano[g] <= begun
  /\ place[g] = "cas" => \/ /\ lastUpdated = lastNano[g]
                            /\ nowNano[g] > lastNano[g]
                         \/ nowNano[g] <= lastUpdated + Delay
  /\ place[g] = "set" => /\ until[g] >= nowNano[g] + Timeout
                         /\ until[g] <= nowNano[g] + Delay + Timeout

DeadlineInv ==
  /\ lastUse <= now /\ lastUpdated <= lastUse /\ begun <= now
  /\ \/ lastUse <= lastUpdated + Quarter
     \/ \E g \in Copiers : Weighing(g) /\ nowNano[g] = lastUse
  /\ armed => \/ deadline + Delay >= lastUpdated + Timeout
              \/ \E g \in Copiers : Setting(g)
  /\ IdleEnds

IdleInv == DeadlineInv /\ \A g \in Copiers : CopierInv(g)

(* Every step keeps the invariant of the deadline.                         *)
LEMMA IdleInvInductive == IdleTypeOK /\ IdleInv /\ [IdleNext]_idleVars => IdleInv'
<1> SUFFICES ASSUME IdleTypeOK, IdleInv, [IdleNext]_idleVars PROVE IdleInv'
  BY Zenon
<1> USE IdleAssumption, QuarterNat
    DEF IdleTypeOK, IdleInv, DeadlineInv, CopierInv, IdleEnds, Calling, Setting, Weighing
<1>1. ASSUME NEW g \in Copiers, Use(g) PROVE IdleInv'
  BY <1>1 DEF Use
<1>2. ASSUME NEW g \in Copiers, Fail(g) PROVE IdleInv'
  BY Zenon, <1>2 DEF Fail
<1>3. ASSUME NEW g \in Copiers, StartDeadline(g) PROVE IdleInv'
  BY <1>3 DEF StartDeadline
<1>4. ASSUME NEW g \in Copiers, Load(g) PROVE IdleInv'
  BY <1>4 DEF Load, Quarter
<1>5. ASSUME NEW g \in Copiers, CompareAndSwap(g) PROVE IdleInv'
  BY <1>5 DEF CompareAndSwap
<1>6. ASSUME NEW g \in Copiers, Eval(g) PROVE IdleInv'
  BY <1>6 DEF Eval
<1>7. ASSUME NEW g \in Copiers, SetDeadline(g) PROVE IdleInv'
  BY <1>7 DEF SetDeadline
<1>8. CASE Tick
  BY <1>8 DEF Tick
<1>9. CASE UNCHANGED idleVars
  BY Zenon, <1>9 DEF idleVars
<1> QED
  BY Zenon, <1>1, <1>2, <1>3, <1>4, <1>5, <1>6, <1>7, <1>8, <1>9 DEF IdleNext, CopierStep

(* The invariant of the deadline holds in every state.                     *)
LEMMA IdleInvariant == IdleSpec => [](IdleTypeOK /\ IdleInv)
<1>1. IdleInit => IdleInv
  BY QuarterNat, IdleAssumption
  DEF IdleInit, IdleInv, DeadlineInv, CopierInv, IdleEnds, Calling, Setting, Weighing
<1> QED
  BY <1>1, IdleTypeCorrect, IdleInvInductive, PTL DEF IdleSpec

(* A connection in use is not cut: the deadline stays three quarters of    *)
(* the timeout, less the latency of a call, ahead of the last use.         *)
THEOREM DeadlineNotEarly == IdleSpec => []NeverEarly
<1>1. IdleTypeOK /\ IdleInv => NeverEarly
  BY IdleAssumption, QuarterNat
  DEF IdleTypeOK, IdleInv, DeadlineInv, CopierInv, NeverEarly, Calling, Setting, Weighing, Quarter
<1> QED
  BY <1>1, IdleInvariant, PTL

(* An idle connection is cut within the timeout and that latency.          *)
THEOREM DeadlineNotLate == IdleSpec => []IdleEnds
<1>1. IdleInv => IdleEnds
  BY Zenon DEF IdleInv, DeadlineInv
<1> QED
  BY <1>1, IdleInvariant, PTL
===========================================================================
