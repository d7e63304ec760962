------------------------------ MODULE Breaker ------------------------------
(***************************************************************************)
(* The connection breaker of tunnel/connection.go: the process-wide        *)
(* counter currentConns and the limit maxConns.  Every UDP reader          *)
(* (handleUDPToLocal) and every TCP relay (relay) runs the same steps on   *)
(* it: atomically add one and keep the result, compare the kept result     *)
(* with maxConns, then either work or return at once, and subtract one in  *)
(* a deferred call on the way out.  The addition and the comparison are    *)
(* two steps of the code, so other goroutines, and a change of the limit,  *)
(* fall between them.                                                      *)
(***************************************************************************)
EXTENDS Integers, FiniteSets

CONSTANTS
  Conns,           \* the goroutines that pass the breaker, one use each
  Requested,       \* the max-conns values a configuration or the API asks for
  DefaultMaxConns, \* the built-in limit (5000 in the code)
  TopLimit         \* an upper bound of every limit that can be in force

ASSUME ConnsAssumption == IsFiniteSet(Conns)
ASSUME LimitsAssumption ==
  /\ TopLimit \in Nat
  /\ Requested \subseteq Int
  /\ DefaultMaxConns \in Nat \ {0}
  /\ DefaultMaxConns <= TopLimit
  /\ \A m \in Requested : m <= TopLimit

VARIABLES
  currentConns,  \* the shared counter
  maxConns,      \* the limit in force
  st,            \* where each goroutine is
  count          \* the result of its own atomic addition

breakerVars == <<currentConns, maxConns, st, count>>

(* idle: not started.  counted: added one, comparison pending.  open: past *)
(* the breaker, reading or relaying.  leaving: the body has returned, the  *)
(* deferred subtraction is pending.  done: subtracted.                     *)
BreakerState == {"idle", "counted", "open", "leaving", "done"}

BreakerInit ==
  /\ currentConns = 0
  /\ maxConns = DefaultMaxConns
  /\ st = [c \in Conns |-> "idle"]
  /\ count = [c \in Conns |-> 0]

-----------------------------------------------------------------------------
(* Fault: the kept result is the value before the addition. *)
EnterStaleCount(c) ==
  /\ st[c] = "idle"
  /\ currentConns' = currentConns + 1
  /\ count' = [count EXCEPT ![c] = currentConns]
  /\ st' = [st EXCEPT ![c] = "counted"]
  /\ UNCHANGED maxConns

(* count := atomic.AddInt64(&currentConns, 1) *)
Enter(c) ==
  /\ st[c] = "idle"
  /\ currentConns' = currentConns + 1
  /\ count' = [count EXCEPT ![c] = currentConns + 1]
  /\ st' = [st EXCEPT ![c] = "counted"]
  /\ UNCHANGED maxConns

(* if count > maxConns is false: go on *)
Admit(c) ==
  /\ st[c] = "counted"
  /\ count[c] <= maxConns
  /\ st' = [st EXCEPT ![c] = "open"]
  /\ UNCHANGED <<currentConns, maxConns, count>>

(* Fault: the subtraction is not deferred and the rejected path skips it. *)
RejectWithoutLeave(c) ==
  /\ st[c] = "counted"
  /\ count[c] > maxConns
  /\ st' = [st EXCEPT ![c] = "done"]
  /\ UNCHANGED <<currentConns, maxConns, count>>

(* if count > maxConns { return } *)
Reject(c) ==
  /\ st[c] = "counted"
  /\ count[c] > maxConns
  /\ st' = [st EXCEPT ![c] = "leaving"]
  /\ UNCHANGED <<currentConns, maxConns, count>>

(* The body of an admitted goroutine returns. *)
Return(c) ==
  /\ st[c] = "open"
  /\ st' = [st EXCEPT ![c] = "leaving"]
  /\ UNCHANGED <<currentConns, maxConns, count>>

(* defer atomic.AddInt64(&currentConns, -1) *)
Leave(c) ==
  /\ st[c] = "leaving"
  /\ currentConns' = currentConns - 1
  /\ st' = [st EXCEPT ![c] = "done"]
  /\ UNCHANGED <<maxConns, count>>

SetMaxConns(m) ==
  /\ maxConns' = m
  /\ UNCHANGED <<currentConns, st, count>>

(* ApplyConfig: a configuration without max-conns (zero) gets the default. *)
updateGeneral(m) == SetMaxConns(IF m = 0 THEN DefaultMaxConns ELSE m)

(* PATCH /configs: zero and negative requests get the default. *)
patchConfigs(m) == SetMaxConns(IF m <= 0 THEN DefaultMaxConns ELSE m)

BreakerStep(c) == Enter(c) \/ Admit(c) \/ Reject(c) \/ Return(c) \/ Leave(c)

BreakerNext ==
  \/ \E c \in Conns : BreakerStep(c)
  \/ \E m \in Requested : updateGeneral(m)
  \/ \E m \in Requested : patchConfigs(m)

(* What a user of the breaker may do to it: readers and relays together    *)
(* take only these steps on the counter and the limit.                     *)
BreakerSpec == BreakerInit /\ [][BreakerNext]_breakerVars

-----------------------------------------------------------------------------
Counted == {c \in Conns : st[c] \in {"counted", "open", "leaving"}}
Open == {c \in Conns : st[c] = "open"}

(* Each variable has a value of its declaration; the limit is never zero,  *)
(* the value that both setters replace by the default.                     *)
BreakerTypeOK ==
  /\ currentConns \in Int
  /\ maxConns \in Int \ {0} /\ maxConns <= TopLimit
  /\ st \in [Conns -> BreakerState]
  /\ count \in [Conns -> Int]

(* The counter is the number of goroutines between their addition and      *)
(* their subtraction: the deferred call "makes sure every path out reduces *)
(* the count", the rejected path included, so the count never drifts and   *)
(* the breaker neither jams shut nor stays open.                           *)
CounterExact == currentConns = Cardinality(Counted)

(* However additions, comparisons and changes of the limit interleave, no  *)
(* more goroutines are past the breaker at once than the largest limit     *)
(* that is ever in force.                                                  *)
BreakerBound == Cardinality(Open) <= TopLimit

(* At most n of the counted goroutines hold a local count of n or less: a  *)
(* later addition sees every earlier one that is still counted.  With the  *)
(* comparison against maxConns this is what bounds the admitted ones.      *)
RankAt(n) == Cardinality({c \in Counted : count[c] <= n}) <= n
CountRank == \A n \in 0..TopLimit : RankAt(n)

(* A goroutine past the breaker was admitted under some limit. *)
OpenAdmitted == \A c \in Conns : st[c] = "open" => count[c] <= TopLimit
============================================================================
