------------------------------ MODULE IdleConn ------------------------------
(* The idle deadline of a relayed TCP connection (tunnel/idleconn.go): the *)
(* copier that reads from it and the one that writes to it both move the   *)
(* deadline, but only when a quarter of the timeout has passed since the   *)
(* last move, and only the one whose compare-and-swap succeeds.            *)
(*                                                                         *)
(* Time is discrete.  A goroutine that has begun a call finishes it within *)
(* Delay: the scheduler's latency, far below the timeout of five minutes.  *)
EXTENDS Integers

CONSTANTS
  Copiers,   \* the goroutines that use the connection
  zeroCopy,  \* the option of that name; without it relay sets no first deadline
  Timeout,   \* idleTimeout of relay
  Delay,     \* how long a call of updateDeadline or StartDeadline may take
  MaxTime    \* bound of the clock

ASSUME IdleAssumption ==
  /\ zeroCopy \in BOOLEAN
  /\ Timeout \in Nat /\ Delay \in Nat /\ MaxTime \in Nat
  /\ Delay <= Timeout \div 4

VARIABLES
  now,          \* the clock
  lastUpdated,  \* IdleConn.lastUpdated
  armed,        \* a deadline has been set
  deadline,     \* that deadline
  place,        \* where each copier is in updateDeadline
  nowNano,      \* its nowNano, or when its StartDeadline began
  lastNano,     \* its lastNano
  until,        \* the time it is about to set
  begun,        \* when StartDeadline was called, -1 before
  lastUse       \* history: the last successful Read or Write

idleVars == <<now, lastUpdated, armed, deadline, place, nowNano, lastNano, until,
              begun, lastUse>>

(* NewIdleConn.                                                            *)
IdleInit ==
  /\ now = 0 /\ lastUpdated = 0 /\ lastUse = 0
  /\ armed = FALSE /\ deadline = 0 /\ begun = -1
  /\ place = [g \in Copiers |-> "out"]
  /\ nowNano = [g \in Copiers |-> 0]
  /\ lastNano = [g \in Copiers |-> 0]
  /\ until = [g \in Copiers |-> 0]

Expired == armed /\ deadline <= now

(* A Read or Write that succeeds, and the clock updateDeadline reads.      *)
Use(g) ==
  /\ place[g] = "out" /\ ~Expired
  /\ nowNano' = [nowNano EXCEPT ![g] = now]
  /\ lastUse' = now
  /\ place' = [place EXCEPT ![g] = "load"]
  /\ UNCHANGED <<now, lastUpdated, armed, deadline, lastNano, until, begun>>

(* A Read or Write that fails by the deadline ends the copier.             *)
Fail(g) ==
  /\ place[g] = "out" /\ Expired
  /\ place' = [place EXCEPT ![g] = "end"]
  /\ UNCHANGED <<now, lastUpdated, armed, deadline, nowNano, lastNano, until, begun,
                 lastUse>>

(* The copier whose destination this is calls StartDeadline, once; the     *)
(* copiers of noZeroCopyRelay do not.                                      *)
StartDeadline(g) ==
  /\ zeroCopy
  /\ place[g] = "out" /\ begun = -1
  /\ begun' = now
  /\ nowNano' = [nowNano EXCEPT ![g] = now]
  /\ place' = [place EXCEPT ![g] = "eval"]
  /\ UNCHANGED <<now, lastUpdated, armed, deadline, lastNano, until, lastUse>>

(* Fault: the deadline is moved only when all of the timeout has passed. *)
LoadLazy(g) ==
  /\ place[g] = "load"
  /\ lastNano' = [lastNano EXCEPT ![g] = lastUpdated]
  /\ place' = [place EXCEPT ![g] = IF nowNano[g] - lastUpdated > Timeout THEN "cas" ELSE "out"]
  /\ UNCHANGED <<now, lastUpdated, armed, deadline, nowNano, until, begun, lastUse>>

Load(g) ==
  /\ place[g] = "load"
  /\ lastNano' = [lastNano EXCEPT ![g] = lastUpdated]
  /\ place' = [place EXCEPT ![g] =
              IF nowNano[g] - lastUpdated > Timeout \div 4 THEN "cas" ELSE "out"]
  /\ UNCHANGED <<now, lastUpdated, armed, deadline, nowNano, until, begun, lastUse>>

CompareAndSwap(g) ==
  /\ place[g] = "cas"
  /\ \/ /\ lastUpdated = lastNano[g]
        /\ lastUpdated' = nowNano[g]
        /\ place' = [place EXCEPT ![g] = "eval"]
     \/ /\ lastUpdated # lastNano[g]
        /\ place' = [place EXCEPT ![g] = "out"]
        /\ UNCHANGED lastUpdated
  /\ UNCHANGED <<now, armed, deadline, nowNano, lastNano, until, begun, lastUse>>

(* Fault: the deadline is moved on from where it was. *)
EvalFromDeadline(g) ==
  /\ place[g] = "eval"
  /\ until' = [until EXCEPT ![g] = deadline + Timeout]
  /\ place' = [place EXCEPT ![g] = "set"]
  /\ UNCHANGED <<now, lastUpdated, armed, deadline, nowNano, lastNano, begun, lastUse>>

(* time.Now().Add(c.timeout), then SetDeadline.                            *)
Eval(g) ==
  /\ place[g] = "eval"
  /\ until' = [until EXCEPT ![g] = now + Timeout]
  /\ place' = [place EXCEPT ![g] = "set"]
  /\ UNCHANGED <<now, lastUpdated, armed, deadline, nowNano, lastNano, begun, lastUse>>

SetDeadline(g) ==
  /\ place[g] = "set"
  /\ deadline' = until[g]
  /\ armed' = TRUE
  /\ place' = [place EXCEPT ![g] = "out"]
  /\ UNCHANGED <<now, lastUpdated, nowNano, lastNano, until, begun, lastUse>>

Calling(g) == place[g] \in {"load", "cas", "eval", "set"}

(* Time passes, but no call lasts longer than Delay.                       *)
Tick ==
  /\ now < MaxTime
  /\ \A g \in Copiers : Calling(g) => now < nowNano[g] + Delay
  /\ now' = now + 1
  /\ UNCHANGED <<lastUpdated, armed, deadline, place, nowNano, lastNano, until, begun,
                 lastUse>>

CopierStep(g) ==
  \/ Use(g) \/ Fail(g) \/ StartDeadline(g) \/ Load(g) \/ CompareAndSwap(g)
  \/ Eval(g) \/ SetDeadline(g)

IdleNext == Tick \/ \E g \in Copiers : CopierStep(g)

IdleSpec == IdleInit /\ [][IdleNext]_idleVars

---------------------------------------------------------------------------
(* Every variable has its type; time is never negative.                    *)
IdleTypeOK ==
  /\ now \in Nat /\ lastUpdated \in Nat /\ lastUse \in Nat
  /\ armed \in BOOLEAN /\ deadline \in Nat /\ begun \in Nat \cup {-1}
  /\ place \in [Copiers -> {"out", "load", "cas", "eval", "set", "end"}]
  /\ nowNano \in [Copiers -> Nat]
  /\ lastNano \in [Copiers -> Nat]
  /\ until \in [Copiers -> Nat]

(* A connection in use is not cut: when no call is under way, the deadline *)
(* is at least three quarters of the timeout after the last Read or Write, *)
(* less the latency of a call, although most uses do not move it and the   *)
(* copiers race to do so.                                                  *)
NeverEarly ==
  armed /\ (\A g \in Copiers : ~Calling(g))
    => deadline + Timeout \div 4 + Delay >= lastUse + Timeout

(* An idle connection is cut: the deadline is never later than the timeout *)
(* after the last use or the start of the relay, but for that latency.     *)
IdleEnds ==
  armed => \/ deadline <= lastUse + Timeout + Delay
           \/ deadline <= begun + Timeout + Delay
===========================================================================
