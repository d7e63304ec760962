---------------------------- MODULE UdpNat_proofs ----------------------------
(***************************************************************************)
(* The counter of the breaker is exact and the breaker bounds the          *)
(* goroutines past it, for any number of goroutines and any limits; and    *)
(* the safety of UDP sessions for any number of packets and clients.  The  *)
(* latter follows the two halves of the state: the singleflight group      *)
(* (FlightInv) and the sessions with their sockets, readers and trackers   *)
(* (SessionInv).                                                           *)
(***************************************************************************)
EXTENDS UdpNat, FiniteSetTheorems, TLAPS

(***************************************************************************)
(* The breaker (module Breaker).                                           *)
(***************************************************************************)
(* Every step of the breaker keeps the types of BreakerTypeOK. *)
THEOREM BreakerTypeCorrect == BreakerSpec => []BreakerTypeOK
<1>1. BreakerInit => BreakerTypeOK
  BY LimitsAssumption DEF BreakerInit, BreakerTypeOK, BreakerState
<1>2. BreakerTypeOK /\ [BreakerNext]_breakerVars => BreakerTypeOK'
  <2> SUFFICES ASSUME BreakerTypeOK, [BreakerNext]_breakerVars PROVE BreakerTypeOK'
    BY Zenon
  <2>1. CASE \E c \in Conns : BreakerStep(c)
    BY <2>1 DEF BreakerTypeOK, BreakerState, BreakerStep, Enter, Admit, Reject, Return, Leave
  <2>2. CASE \E m \in Requested : updateGeneral(m)
    BY <2>2, LimitsAssumption DEF BreakerTypeOK, updateGeneral, SetMaxConns
  <2>3. CASE \E m \in Requested : patchConfigs(m)
    BY <2>3, LimitsAssumption DEF BreakerTypeOK, patchConfigs, SetMaxConns
  <2>4. CASE UNCHANGED breakerVars
    BY Zenon, <2>4 DEF BreakerTypeOK, breakerVars
  <2> QED
    BY Zenon, <2>1, <2>2, <2>3, <2>4 DEF BreakerNext
<1> QED
  BY <1>1, <1>2, PTL DEF BreakerSpec

(* The goroutines that hold the counter form a finite set. *)
LEMMA CountedFinite ==
  /\ IsFiniteSet(Counted)
  /\ Cardinality(Counted) \in Nat
BY Zenon, ConnsAssumption, FS_Subset, FS_CardinalityType DEF Counted

(* So do those whose local count is small. *)
LEMMA RankFinite ==
  ASSUME NEW n
  PROVE  /\ IsFiniteSet({c \in Counted : count[c] <= n})
         /\ Cardinality({c \in Counted : count[c] <= n}) \in Nat
         /\ Cardinality({c \in Counted : count[c] <= n})
              <= Cardinality(Counted)
BY Zenon, CountedFinite, FS_Subset, FS_CardinalityType

(* Of the steps, only Enter adds to Counted and only Leave takes from it. *)
LEMMA CountedStep ==
  ASSUME BreakerTypeOK, [BreakerNext]_breakerVars
  PROVE  \/ \E c \in Conns \ Counted : Enter(c) /\ Counted' = Counted \cup {c}
         \/ \E c \in Counted : Leave(c) /\ Counted' = Counted \ {c}
         \/ Counted' = Counted /\ UNCHANGED <<currentConns, count>>
<1>1. ASSUME NEW c \in Conns, Enter(c)
      PROVE  c \notin Counted /\ Counted' = Counted \cup {c}
  BY Zenon, <1>1 DEF BreakerTypeOK, Counted, Enter
<1>2. ASSUME NEW c \in Conns, Leave(c)
      PROVE  c \in Counted /\ Counted' = Counted \ {c}
  BY Zenon, <1>2 DEF BreakerTypeOK, Counted, Leave
<1>3. ASSUME NEW c \in Conns, Admit(c) \/ Reject(c) \/ Return(c)
      PROVE  Counted' = Counted /\ UNCHANGED <<currentConns, count>>
  BY Zenon, <1>3 DEF BreakerTypeOK, Counted, Admit, Reject, Return
<1>4. ASSUME NEW m \in Requested, updateGeneral(m) \/ patchConfigs(m)
      PROVE  Counted' = Counted /\ UNCHANGED <<currentConns, count>>
  BY Zenon, <1>4 DEF Counted, updateGeneral, patchConfigs, SetMaxConns
<1>5. CASE UNCHANGED breakerVars
  BY Zenon, <1>5 DEF Counted, breakerVars
<1> QED
  BY Zenon, <1>1, <1>2, <1>3, <1>4, <1>5 DEF BreakerNext, BreakerStep

(* The deferred subtraction keeps the counter equal to the number of       *)
(* goroutines inside, on the rejected path as on the others.               *)
THEOREM CounterIsExact == BreakerSpec => []CounterExact
<1>1. BreakerInit => CounterExact
  <2> SUFFICES ASSUME BreakerInit PROVE CounterExact
    BY Zenon
  <2>1. Counted = {}
    BY Zenon DEF BreakerInit, Counted
  <2> QED
    BY Zenon, <2>1, FS_EmptySet DEF BreakerInit, CounterExact
<1>2. BreakerTypeOK /\ CounterExact /\ [BreakerNext]_breakerVars => CounterExact'
  <2> SUFFICES ASSUME BreakerTypeOK, CounterExact, [BreakerNext]_breakerVars PROVE CounterExact'
    BY Zenon
  <2>1. ASSUME NEW c \in Conns \ Counted, Enter(c), Counted' = Counted \cup {c}
        PROVE  CounterExact'
    BY ZenonT(60), <2>1, CountedFinite, FS_AddElement DEF CounterExact, Enter
  <2>2. ASSUME NEW c \in Counted, Leave(c), Counted' = Counted \ {c}
        PROVE  CounterExact'
    BY Zenon, <2>2, CountedFinite, FS_RemoveElement DEF CounterExact, Leave
  <2>3. CASE Counted' = Counted /\ UNCHANGED <<currentConns, count>>
    BY Zenon, <2>3 DEF CounterExact
  <2> QED
    BY Zenon, <2>1, <2>2, <2>3, CountedStep
<1> QED
  BY <1>1, <1>2, BreakerTypeCorrect, PTL DEF BreakerSpec

(* The local counts rank the goroutines inside. *)
LEMMA RankInvariant == BreakerSpec => []CountRank
<1>1. BreakerInit => CountRank
  <2> SUFFICES ASSUME BreakerInit, NEW n \in 0..TopLimit PROVE RankAt(n)
    BY Zenon DEF CountRank
  <2>1. {c \in Counted : count[c] <= n} = {}
    BY Zenon DEF BreakerInit, Counted
  <2> QED
    BY <2>1, FS_EmptySet, LimitsAssumption DEF RankAt
<1>2. BreakerTypeOK /\ CounterExact /\ CountRank /\ [BreakerNext]_breakerVars => CountRank'
  <2> SUFFICES ASSUME BreakerTypeOK, CounterExact, CountRank, [BreakerNext]_breakerVars,
                      NEW n \in 0..TopLimit
               PROVE  Cardinality({c \in Counted' : count'[c] <= n}) <= n
    BY Zenon, LimitsAssumption DEF CountRank, RankAt
  <2> DEFINE Low == {c \in Counted : count[c] <= n}
             LowN == {c \in Counted' : count'[c] <= n}
  <2>0. n \in Nat /\ Cardinality(Low) <= n
    BY LimitsAssumption DEF CountRank, RankAt
  <2>1. ASSUME NEW c \in Conns \ Counted, Enter(c), Counted' = Counted \cup {c}
        PROVE  Cardinality(LowN) <= n
    <3>1. /\ count'[c] = Cardinality(Counted) + 1
          /\ \A d \in Counted : count'[d] = count[d]
      BY Zenon, <2>1 DEF Enter, BreakerTypeOK, CounterExact, Counted
    <3>2. CASE count'[c] <= n
      <4>1. LowN \subseteq Counted \cup {c}
        BY Zenon, <2>1
      <4>2. /\ IsFiniteSet(Counted \cup {c})
            /\ Cardinality(Counted \cup {c}) = Cardinality(Counted) + 1
        BY Zenon, <2>1, CountedFinite, FS_AddElement
      <4>3. Cardinality(LowN) <= Cardinality(Counted) + 1 
        BY Zenon, <4>1, <4>2, FS_Subset
      <4>4. IsFiniteSet(LowN)
        BY Zenon, <4>1, <4>2, FS_Subset
      <4>5. Cardinality(LowN) \in Nat
        BY Zenon, <4>4, FS_CardinalityType
      <4> HIDE DEF LowN
      <4> QED
        BY <3>1, <3>2, <4>3, <4>5, <2>0, CountedFinite
    <3>3. CASE ~ (count'[c] <= n)
      <4>1. LowN = Low
        BY Zenon, <2>1, <3>1, <3>3
      <4> QED
        BY Zenon, <4>1, <2>0
    <3> QED
      BY Zenon, <3>2, <3>3
  <2>2. ASSUME NEW c \in Counted, Leave(c), Counted' = Counted \ {c}
        PROVE  Cardinality(LowN) <= n
    <3>1. LowN \subseteq Low
      BY Zenon, <2>2 DEF Leave
    <3>2. IsFiniteSet(Low) /\ Cardinality(Low) \in Nat
      BY Zenon, RankFinite
    <3>3. /\ IsFiniteSet(LowN)
          /\ Cardinality(LowN) <= Cardinality(Low)
      BY Zenon, <3>1, <3>2, FS_Subset
    <3>4. Cardinality(LowN) \in Nat
      BY Zenon, <3>3, FS_CardinalityType
    <3> HIDE DEF Low, LowN
    <3> QED
      BY <3>2, <3>3, <3>4, <2>0
  <2>3. CASE Counted' = Counted /\ UNCHANGED <<currentConns, count>>
    <3>1. LowN = Low
      BY Zenon, <2>3
    <3> QED
      BY Zenon, <3>1, <2>0
  <2> QED
    BY Zenon, <2>1, <2>2, <2>3, CountedStep
<1> QED
  BY <1>1, <1>2, BreakerTypeCorrect, CounterIsExact, PTL DEF BreakerSpec

(* Only Admit opens, and it compares with the limit in force. *)
LEMMA AdmittedInvariant == BreakerSpec => []OpenAdmitted
<1>1. BreakerInit => OpenAdmitted
  BY Zenon DEF BreakerInit, OpenAdmitted
<1>2. BreakerTypeOK /\ OpenAdmitted /\ [BreakerNext]_breakerVars => OpenAdmitted'
  <2> SUFFICES ASSUME BreakerTypeOK, OpenAdmitted, [BreakerNext]_breakerVars PROVE OpenAdmitted'
    BY Zenon
  <2>1. CASE \E c \in Conns : BreakerStep(c)
    BY <2>1, LimitsAssumption
       DEF BreakerTypeOK, OpenAdmitted, BreakerStep, Enter, Admit, Reject, Return, Leave
  <2>2. CASE \E m \in Requested : updateGeneral(m) \/ patchConfigs(m)
    BY Zenon, <2>2 DEF OpenAdmitted, updateGeneral, patchConfigs, SetMaxConns
  <2>3. CASE UNCHANGED breakerVars
    BY Zenon, <2>3 DEF OpenAdmitted, breakerVars
  <2> QED
    BY Zenon, <2>1, <2>2, <2>3 DEF BreakerNext
<1> QED
  BY <1>1, <1>2, BreakerTypeCorrect, PTL DEF BreakerSpec

(* The number of readers and relays past the breaker never exceeds the     *)
(* largest limit ever in force, whatever the interleaving of additions,    *)
(* comparisons and changes of the limit.                                   *)
THEOREM BreakerBounds == BreakerSpec => []BreakerBound
<1>1. BreakerTypeOK /\ CountRank /\ OpenAdmitted => BreakerBound
  <2> SUFFICES ASSUME BreakerTypeOK, CountRank, OpenAdmitted PROVE BreakerBound
    BY Zenon
  <2> DEFINE Low == {c \in Counted : count[c] <= TopLimit}
  <2>1. Open \subseteq Low
    BY Zenon DEF Open, Counted, OpenAdmitted
  <2>2. IsFiniteSet(Low) /\ Cardinality(Low) \in Nat
    BY Zenon, RankFinite
  <2>3. Cardinality(Low) <= TopLimit
    BY LimitsAssumption DEF CountRank, RankAt
  <2>4. IsFiniteSet(Open) /\ Cardinality(Open) <= Cardinality(Low)
    BY Zenon, <2>1, <2>2, FS_Subset
  <2>5. Cardinality(Open) \in Nat
    BY Zenon, <2>4, FS_CardinalityType
  <2> HIDE DEF Low
  <2> QED
    BY <2>2, <2>3, <2>4, <2>5, LimitsAssumption DEF BreakerBound
<1> QED
  BY <1>1, BreakerTypeCorrect, RankInvariant, AdmittedInvariant, PTL

(***************************************************************************)
(* The sessions.                                                           *)
(***************************************************************************)
(* Each step keeps the types of UdpNat.TypeOK. *)
THEOREM TypeCorrect == Spec => []TypeOK
<1>1. Init => TypeOK
  BY PacketsAssumption DEF Init, TypeOK, PktState, ReaderState
<1>2. TypeOK /\ [Next]_vars => TypeOK'
  <2> SUFFICES ASSUME TypeOK, [Next]_vars PROVE TypeOK'
    BY Zenon
  <2> USE PacketsAssumption DEF TypeOK, Goto
  <2>1. ASSUME NEW p \in Packets, Receive(p) PROVE TypeOK'
    BY Zenon, <2>1 DEF PktState, Receive, Enqueue, DropFull
  <2>2. ASSUME NEW p \in Packets, Handler(p) PROVE TypeOK'
    <3>1. CASE HandleInvalid(p) \/ handleUDPConn(p) \/ GetAgain(p)
      BY <3>1 DEF PktState, HandleInvalid, handleUDPConn, GetAgain, Use
    <3>2. CASE Do(p) \/ DoubleCheck(p)
      BY <3>2 DEF PktState, Do, DoubleCheck
    <3>3. CASE DialFailed(p) \/ DialOk(p)
      BY <3>3 DEF PktState, ReaderState, DialFailed, DialOk, CloseSession
    <3>4. CASE Set(p)
      BY Zenon, <3>4 DEF PktState, Set
    <3>5. CASE Finish(p)
      BY Zenon, <3>5 DEF PktState, Finish
    <3>6. CASE ResolveFails(p) \/ WriteOk(p) \/ WriteFails(p)
      BY Zenon, <3>6 DEF PktState, ResolveFails, WriteOk, WriteFails
    <3>7. CASE WriteErrorDelete(p)
      BY Zenon, <3>7 DEF PktState, WriteErrorDelete
    <3>8. CASE WriteErrorClose(p)
      BY ZenonT(60), <3>8 DEF PktState, WriteErrorClose, CloseSession
    <3> QED
      BY Zenon, <2>2, <3>1, <3>2, <3>3, <3>4, <3>5, <3>6, <3>7, <3>8 DEF Handler
  <2>3. ASSUME NEW s \in Packets, Reader(s) PROVE TypeOK'
    BY <2>3 DEF ReaderState, Reader, ReaderEnter, ReaderCompare, ReaderStops,
       ReaderLeave, ReaderClose, ReaderDelete, CloseSession, natVars
  <2>4. ASSUME NEW s \in Packets, CloseTracked(s) PROVE TypeOK'
    BY Zenon, <2>4 DEF CloseTracked, CloseSession
  <2>5. ASSUME NEW r \in Relays, RelayStep(r) PROVE TypeOK'
    BY Zenon, <2>5 DEF RelayStep, natVars
  <2>6. ASSUME NEW m \in Requested, ChangeLimit(m) PROVE TypeOK'
    BY Zenon, <2>6 DEF ChangeLimit, natVars
  <2>7. CASE UNCHANGED vars
    BY Zenon, <2>7 DEF vars, natVars
  <2> QED
    BY Zenon, <2>1, <2>2, <2>3, <2>4, <2>5, <2>6, <2>7 DEF Next
<1> QED
  BY <1>1, <1>2, PTL DEF Spec

-----------------------------------------------------------------------------
(* The steps that leave the handlers and the singleflight group alone. *)
LEMMA FlightUntouched ==
  ASSUME [Next]_vars
  PROVE  \/ \E p \in Packets : Receive(p) \/ Handler(p)
         \/ UNCHANGED <<pkt, flight>>
<1>1. ASSUME NEW s \in Packets, Reader(s) PROVE UNCHANGED <<pkt, flight>>
  BY Zenon, <1>1 DEF Reader, ReaderEnter, ReaderCompare, ReaderStops, ReaderLeave,
     ReaderClose, ReaderDelete, natVars
<1>2. ASSUME NEW s \in Packets, CloseTracked(s) PROVE UNCHANGED <<pkt, flight>>
  BY Zenon, <1>2 DEF CloseTracked
<1>3. ASSUME NEW r \in Relays, RelayStep(r) PROVE UNCHANGED <<pkt, flight>>
  BY Zenon, <1>3 DEF RelayStep, natVars
<1>4. ASSUME NEW m \in Requested, ChangeLimit(m)
      PROVE  UNCHANGED <<pkt, flight>>
  BY Zenon, <1>4 DEF ChangeLimit, natVars
<1>5. CASE UNCHANGED vars
  BY Zenon, <1>5 DEF vars, natVars
<1> QED
  BY Zenon, <1>1, <1>2, <1>3, <1>4, <1>5 DEF Next

FlightInv == SingleDialer /\ WaitersHaveLeader /\ FlightLeads

(* The singleflight group and the handlers agree on who is leading, so one *)
(* handler per client address dials and no handler waits for a call that   *)
(* has been forgotten.                                                     *)
LEMMA FlightInvariant == Spec => []FlightInv
<1> USE PacketsAssumption
<1>1. Init => FlightInv
  BY Zenon DEF Init, FlightInv, SingleDialer, WaitersHaveLeader, FlightLeads, Leading
<1>2. TypeOK /\ FlightInv /\ [Next]_vars => FlightInv'
  <2> SUFFICES ASSUME TypeOK, FlightInv, [Next]_vars PROVE FlightInv'
    BY Zenon
  <2> USE DEF FlightInv, SingleDialer, WaitersHaveLeader, FlightLeads, Leading
  <2>1. ASSUME NEW p \in Packets,
               flight' = flight,
               \E l \in PktState :
                 /\ Goto(p, l)
                 /\ pkt[p] \in Leading <=> l \in Leading
                 /\ l # "wait" \/ flight[KeyOf[p]] # None
        PROVE  FlightInv'
    BY <2>1 DEF TypeOK, Goto
  <2>2. ASSUME NEW p \in Packets, Receive(p) PROVE FlightInv'
    BY Zenon, <2>2, <2>1 DEF Receive, Enqueue, DropFull, PktState
  <2>3. ASSUME NEW p \in Packets, Handler(p) PROVE FlightInv'
    <3>1. CASE HandleInvalid(p) \/ handleUDPConn(p) \/ GetAgain(p)
      BY Zenon, <3>1, <2>1 DEF PktState, HandleInvalid, handleUDPConn, GetAgain, Use
    <3>2. CASE Do(p)
      <4>1. CASE flight[KeyOf[p]] = None
        BY SMTT(40), <3>2, <4>1 DEF TypeOK, Do, Goto
      <4>2. CASE flight[KeyOf[p]] # None
        BY Zenon, <3>2, <4>2, <2>1 DEF Do, PktState
      <4> QED
        BY Zenon, <4>1, <4>2
    <3>3. CASE DoubleCheck(p) \/ DialFailed(p) \/ DialOk(p) \/ Set(p)
      BY Zenon, <3>3, <2>1 DEF PktState, DoubleCheck, DialFailed, DialOk, Set
    <3>4. CASE Finish(p)
      BY <3>4 DEF TypeOK, Finish, Callers
    <3>5. CASE \/ ResolveFails(p) \/ WriteOk(p) \/ WriteFails(p)
               \/ WriteErrorDelete(p) \/ WriteErrorClose(p)
      BY Zenon, <3>5, <2>1 DEF PktState, ResolveFails, WriteOk, WriteFails,
         WriteErrorDelete, WriteErrorClose
    <3> QED
      BY Zenon, <2>3, <3>1, <3>2, <3>3, <3>4, <3>5 DEF Handler
  <2>4. CASE UNCHANGED <<pkt, flight>>
    BY Zenon, <2>4
  <2> QED
    BY Zenon, <2>2, <2>3, <2>4, FlightUntouched
<1> QED
  BY <1>1, <1>2, TypeCorrect, PTL DEF Spec

(* At most one handler per client address is inside udpSF.Do's function:   *)
(* two sessions of a client are never dialled at the same time.            *)
THEOREM OneDialerPerClient == Spec => []SingleDialer
BY FlightInvariant, PTL DEF FlightInv

(* Every waiting handler waits for a leader that is still running. *)
THEOREM NoStrandedWaiter == Spec => []WaitersHaveLeader
BY FlightInvariant, PTL DEF FlightInv

-----------------------------------------------------------------------------
SessionInv ==
  /\ Lifecycle
  /\ TableSound
  /\ NoLeakedSocket
  /\ NoPhantomTracker
  /\ DialTracked
  /\ TrackedUnlessDetached

(* Sockets, readers, trackers and table entries stay in step. *)
LEMMA SessionInvariant == Spec => []SessionInv
<1> USE PacketsAssumption
<1>1. Init => SessionInv
  BY Zenon DEF Init, SessionInv, Lifecycle, TableSound, NoLeakedSocket,
     NoPhantomTracker, DialTracked, TrackedUnlessDetached
<1>2. TypeOK /\ SessionInv /\ [Next]_vars => SessionInv'
  <2> SUFFICES ASSUME TypeOK, SessionInv, [Next]_vars PROVE SessionInv'
    BY Zenon
  <2> USE DEF TypeOK, SessionInv, Lifecycle, TableSound, NoLeakedSocket,
          NoPhantomTracker, DialTracked, TrackedUnlessDetached
  <2>1. ASSUME NEW p \in Packets, Receive(p) PROVE SessionInv'
    BY <2>1 DEF Receive, Enqueue, DropFull, Goto
  <2>2. ASSUME NEW p \in Packets, Handler(p) PROVE SessionInv'
    <3>1. CASE HandleInvalid(p)
      BY <3>1 DEF HandleInvalid, Goto
    <3>2. CASE handleUDPConn(p)
      BY <3>2 DEF handleUDPConn, Use, Goto
    <3>3. CASE Do(p)
      BY <3>3 DEF Do, Goto
    <3>4. CASE DoubleCheck(p)
      BY <3>4 DEF DoubleCheck, Goto
    <3>5. CASE DialFailed(p)
      BY <3>5 DEF DialFailed, CloseSession, Goto
    <3>6. CASE DialOk(p)
      BY <3>6 DEF DialOk, Goto
    <3>7. CASE Set(p)
      BY <3>7 DEF Set, Goto
    <3>8. CASE Finish(p)
      BY Zenon, <3>8 DEF Finish, Callers
    <3>9. CASE GetAgain(p)
      BY <3>9 DEF GetAgain, Use, Goto
    <3>10. CASE ResolveFails(p) \/ WriteOk(p) \/ WriteFails(p)
      BY <3>10 DEF ResolveFails, WriteOk, WriteFails, Goto
    <3>11. CASE WriteErrorDelete(p)
      BY <3>11 DEF WriteErrorDelete, Goto
    <3>12. CASE WriteErrorClose(p)
      BY <3>12 DEF WriteErrorClose, CloseSession, Goto
    <3> QED
      BY ZenonT(60), <2>2, <3>1, <3>2, <3>3, <3>4, <3>5, <3>6, <3>7, <3>8, <3>9, <3>10,
         <3>11, <3>12 DEF Handler
  <2>3. ASSUME NEW s \in Packets, Reader(s) PROVE SessionInv'
    <3>1. CASE ReaderEnter(s) \/ ReaderLeave(s)
      BY <3>1 DEF ReaderEnter, ReaderLeave
    <3>2. CASE ReaderCompare(s) \/ ReaderStops(s)
      BY <3>2 DEF ReaderCompare, ReaderStops, natVars
    <3>3. CASE ReaderClose(s)
      BY <3>3 DEF ReaderClose, CloseSession
    <3>4. CASE ReaderDelete(s)
      BY <3>4 DEF ReaderDelete
    <3> QED
      BY ZenonT(60), <2>3, <3>1, <3>2, <3>3, <3>4 DEF Reader
  <2>4. ASSUME NEW s \in Packets, CloseTracked(s) PROVE SessionInv'
    BY <2>4 DEF CloseTracked, CloseSession
  <2>5. ASSUME NEW r \in Relays, RelayStep(r) PROVE SessionInv'
    BY Zenon, <2>5 DEF RelayStep, natVars
  <2>6. ASSUME NEW m \in Requested, ChangeLimit(m) PROVE SessionInv'
    BY Zenon, <2>6 DEF ChangeLimit, natVars
  <2>7. CASE UNCHANGED vars
    BY Zenon, <2>7 DEF vars, natVars
  <2> HIDE DEF TypeOK, SessionInv, Lifecycle, TableSound, NoLeakedSocket,
          NoPhantomTracker, DialTracked, TrackedUnlessDetached
  <2> QED
    BY ZenonT(60), <2>1, <2>2, <2>3, <2>4, <2>5, <2>6, <2>7 DEF Next
<1> QED
  BY <1>1, <1>2, TypeCorrect, PTL DEF Spec

(* No outbound socket is left open without a reader that will close it. *)
THEOREM SocketsHaveReaders == Spec => []NoLeakedSocket
BY SessionInvariant, PTL DEF SessionInv

(* The manager never lists a session that is over. *)
THEOREM TrackersAreLive == Spec => []NoPhantomTracker
BY SessionInvariant, PTL DEF SessionInv

(* An open session is tracked unless its tracker was closed mid-dial. *)
THEOREM SessionsAreTracked == Spec => []TrackedUnlessDetached
BY SessionInvariant, PTL DEF SessionInv

(* Table entries and write targets are dialled sessions of the right client. *)
THEOREM TableIsSound == Spec => []TableSound
BY SessionInvariant, PTL DEF SessionInv

-----------------------------------------------------------------------------
(* Readers and relays together implement the breaker: every step of the    *)
(* sessions is a step of Breaker or leaves its variables alone, so the     *)
(* exact count and the bound proved for Breaker hold here.                 *)
THEOREM ImplementsBreaker == Spec => BreakerSpec
<1>1. Init => BreakerInit
  BY Zenon DEF Init
<1>2. [Next]_vars => [BreakerNext]_breakerVars
  <2> SUFFICES ASSUME [Next]_vars PROVE BreakerNext \/ UNCHANGED breakerVars
    BY Zenon DEF breakerVars
  <2>1. ASSUME NEW p \in Packets, Receive(p)
        PROVE  UNCHANGED breakerVars
    BY Zenon, <2>1 DEF Receive, Enqueue, DropFull
  <2>2. ASSUME NEW p \in Packets, Handler(p)
        PROVE  UNCHANGED breakerVars
    BY Zenon, <2>2 DEF Handler, HandleInvalid, handleUDPConn, Do, DoubleCheck,
       DialFailed, DialOk, Set, Finish, GetAgain, ResolveFails, WriteOk,
       WriteFails, WriteErrorDelete, WriteErrorClose
  <2>3. ASSUME NEW s \in Packets, Reader(s)
        PROVE  (\E c \in Conns : BreakerStep(c)) \/ UNCHANGED breakerVars
    BY Zenon, <2>3, PacketsAssumption DEF Reader, ReaderEnter, ReaderCompare, ReaderStops, ReaderLeave,
       ReaderClose, ReaderDelete, BreakerStep
  <2>4. ASSUME NEW s \in Packets, CloseTracked(s)
        PROVE  UNCHANGED breakerVars
    BY Zenon, <2>4 DEF CloseTracked
  <2>5. ASSUME NEW r \in Relays, RelayStep(r)
        PROVE  \E c \in Conns : BreakerStep(c)
    BY Zenon, <2>5 DEF RelayStep, Relays
  <2>6. ASSUME NEW m \in Requested, ChangeLimit(m)
        PROVE  \E n \in Requested : updateGeneral(n) \/ patchConfigs(n)
    BY Zenon, <2>6 DEF ChangeLimit
  <2>7. CASE UNCHANGED vars
    BY Zenon, <2>7 DEF vars
  <2> QED
    BY Zenon, <2>1, <2>2, <2>3, <2>4, <2>5, <2>6, <2>7 DEF Next, BreakerNext
<1> QED
  BY <1>1, <1>2, PTL DEF Spec, BreakerSpec

(* However packets, readers and relays interleave with changes of the      *)
(* limit, the counter is exact and the breaker bounds those past it.       *)
THEOREM SessionsCounted == Spec => []CounterExact
BY ImplementsBreaker, CounterIsExact, PTL

(* No more readers and relays are past the breaker than its largest limit. *)
THEOREM SessionsBounded == Spec => []BreakerBound
BY ImplementsBreaker, BreakerBounds, PTL
============================================================================
