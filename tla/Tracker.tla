------------------------------ MODULE Tracker ------------------------------
(* The life of a connection and of its tracker: the listener's goroutine   *)
(* that registers it, handleTCPConn with relay and its two copiers, the    *)
(* dialling part of a UDP session, the API calls that close connections,   *)
(* and the manager's end_errors_conn, which sweeps failed connections out  *)
(* of the list every five seconds.                                         *)
EXTENDS FiniteSets

CONSTANTS
  Tcp,       \* TCP connections
  Udp,       \* UDP sessions
  Apis,      \* goroutines of the REST API that close connections
  Sweeper    \* the goroutine of end_errors_conn

Conns == Tcp \cup Udp
Closers == Apis \cup {Sweeper}
Actors == Conns \cup Closers
Sides == {"up", "down"}

(* new: not accepted.  join: tracker made.  queued: in tcpQueue.  dial: in *)
(* proxy.Dial.  read: in handleUDPToLocal.  relay, copy, return: in relay, *)
(* before, during and after its copiers.  close, closing: at the deferred  *)
(* Close of the tracker.  done: returned.                                  *)
HandlerState == {"new", "join", "queued", "dial", "read", "relay", "copy",
                 "return", "close", "closing", "done"}

(* A copier: not started, copying, closing its source, then its            *)
(* destination, done.                                                      *)
CopierState == [Sides -> {"off", "copy", "src", "dst", "done"}]

ASSUME TrackerAssumption ==
  /\ Tcp \cap Udp = {}
  /\ Conns \cap Closers = {}
  /\ Sweeper \notin Apis
  /\ Conns # {}

VARIABLES
  pc,           \* where the goroutines that serve a connection are
  chain,        \* the last element of the tracker's Chain
  markGC,       \* the tracker's MarkGC
  connections,  \* the manager's connections
  remote,       \* the tracker's Conn: none, open, closed
  client,       \* the inbound connection
  copier,       \* relay's copier of each direction
  early,        \* history: the tracker left before it had a Conn
  stage,        \* of the tracker.Close call an actor is in
  target,       \* the connection that call is for
  snap,         \* what an API call has yet to close of its snapshot
  sweep,        \* whether a Range of end_errors_conn is under way
  must,         \* the entries it found when it began
  visited,      \* the entries it has visited
  due           \* history: entries whose goroutine had ended when it began

connVars == <<pc, client, copier>>
trackVars == <<chain, markGC, connections, remote, early>>
callVars == <<stage, target>>
sweepVars == <<sweep, must, visited, due>>
vars == <<pc, client, copier, chain, markGC, connections, remote, early, stage,
          target, snap, sweep, must, visited, due>>

Init ==
  /\ pc = [c \in Conns |-> "new"]
  /\ chain = [c \in Conns |-> "INIT"]
  /\ markGC = [c \in Conns |-> FALSE]
  /\ connections = {}
  /\ remote = [c \in Conns |-> "none"]
  /\ client = [c \in Conns |-> IF c \in Tcp THEN "open" ELSE "closed"]
  /\ copier = [c \in Conns |-> [s \in Sides |-> "off"]]
  /\ early = [c \in Conns |-> FALSE]
  /\ stage = [a \in Actors |-> "idle"]
  /\ target = [a \in Actors |-> CHOOSE c \in Conns : TRUE]
  /\ snap = [a \in Apis |-> {}]
  /\ sweep = FALSE /\ must = {} /\ visited = {} /\ due = {}

Goto(c, l) == pc' = [pc EXCEPT ![c] = l]

(***************************************************************************)
(* The goroutine that serves a connection.                                 *)
(***************************************************************************)
(* Both constructors of a tracker join it, and both callers join it again. *)
Register(c) ==
  /\ pc[c] = "new"
  /\ connections' = connections \cup {c}
  /\ Goto(c, "join")
  /\ UNCHANGED <<client, copier, chain, markGC, remote, early, callVars, snap,
                 sweepVars>>

JoinAgain(c) ==
  /\ pc[c] = "join"
  /\ connections' = connections \cup {c}
  /\ Goto(c, IF c \in Tcp THEN "queued" ELSE "dial")
  /\ UNCHANGED <<client, copier, chain, markGC, remote, early, callVars, snap,
                 sweepVars>>

(* handleTCPConn until it dials; it returns when the metadata is not valid *)
(* or cannot be completed, or when no proxy is found.                      *)
handleTCPConn(c) ==
  /\ pc[c] = "queued"
  /\ chain' = [chain EXCEPT ![c] = "TRACE"]
  /\ Goto(c, "dial") \/ Goto(c, "close")
  /\ UNCHANGED <<client, copier, markGC, connections, remote, early, callVars,
                 snap, sweepVars>>

(* The UDP handler puts ERROR in the middle of the chain: the last element *)
(* is the name of the proxy.                                               *)
DialError(c) ==
  /\ pc[c] = "dial"
  /\ chain' = [chain EXCEPT ![c] = IF c \in Tcp THEN "ERROR" ELSE "NAME"]
  /\ Goto(c, "close")
  /\ UNCHANGED <<client, copier, markGC, connections, remote, early, callVars,
                 snap, sweepVars>>

DialOk(c) ==
  /\ pc[c] = "dial"
  /\ remote' = [remote EXCEPT ![c] = "open"]
  /\ chain' = [chain EXCEPT ![c] = "UP"]
  /\ Goto(c, IF c \in Tcp THEN "relay" ELSE "read")
  /\ UNCHANGED <<client, copier, markGC, connections, early, callVars, snap,
                 sweepVars>>

(* handleUDPToLocal ends: a deadline, a closed socket, a full breaker.     *)
ReadEnds(c) ==
  /\ pc[c] = "read"
  /\ Goto(c, "close")
  /\ UNCHANGED <<client, copier, trackVars, callVars, snap, sweepVars>>

(* relay passes the breaker, or is rejected and returns.                   *)
RelayStarts(c) ==
  /\ pc[c] = "relay"
  /\ copier' = [copier EXCEPT ![c] = [s \in Sides |-> "copy"]]
  /\ Goto(c, "copy")
  /\ UNCHANGED <<client, trackVars, callVars, snap, sweepVars>>

RelayRejected(c) ==
  /\ pc[c] = "relay"
  /\ Goto(c, "return")
  /\ UNCHANGED <<client, copier, trackVars, callVars, snap, sweepVars>>

(* Closing the remote side is tracker.Close: the chain of a relayed        *)
(* connection is not ERROR, so it leaves the manager and closes its Conn.  *)
CloseRemote(c) ==
  /\ connections' = connections \ {c}
  /\ remote' = [remote EXCEPT ![c] = "closed"]
  /\ UNCHANGED <<client, chain, markGC, early>>

CloseClient(c) ==
  /\ client' = [client EXCEPT ![c] = "closed"]
  /\ UNCHANGED trackVars

(* A copy ends with its source's end, or by any error on either side.      *)
CopyEnds(c, s) ==
  /\ copier[c][s] = "copy"
  /\ copier' = [copier EXCEPT ![c][s] = "src"]
  /\ UNCHANGED <<pc, client, trackVars, callVars, snap, sweepVars>>

(* Fault: the copier closes only what it read from. *)
CopierClosesSrcOnly(c, s) ==
  /\ copier[c][s] \in {"src", "dst"}
  /\ copier' = [copier EXCEPT ![c][s] = IF @ = "src" THEN "dst" ELSE "done"]
  /\ IF copier[c][s] = "src"
     THEN IF s = "up" THEN CloseClient(c) ELSE CloseRemote(c)
     ELSE UNCHANGED <<client, trackVars>>
  /\ UNCHANGED <<pc, callVars, snap, sweepVars>>

(* The deferred closes of a copier: its source, then its destination.      *)
CopierCloses(c, s) ==
  /\ copier[c][s] \in {"src", "dst"}
  /\ copier' = [copier EXCEPT ![c][s] = IF @ = "src" THEN "dst" ELSE "done"]
  /\ IF (s = "up") = (copier[c][s] = "src") THEN CloseClient(c) ELSE CloseRemote(c)
  /\ UNCHANGED <<pc, callVars, snap, sweepVars>>

(* wg.Wait.                                                                *)
RelayReturns(c) ==
  /\ pc[c] = "copy"
  /\ \A s \in Sides : copier[c][s] = "done"
  /\ Goto(c, "return")
  /\ UNCHANGED <<client, copier, trackVars, callVars, snap, sweepVars>>

(* The deferred closes of relay, then the one of remoteConn.               *)
Unwind(c) ==
  /\ pc[c] = "return"
  /\ client' = [client EXCEPT ![c] = "closed"]
  /\ connections' = connections \ {c}
  /\ remote' = [remote EXCEPT ![c] = "closed"]
  /\ Goto(c, "close")
  /\ UNCHANGED <<copier, chain, markGC, early, callVars, snap, sweepVars>>

(***************************************************************************)
(* tracker.Close, of which an actor makes one call at a time: the test of  *)
(* Chain and MarkGC, then either MarkGC is set or the tracker leaves the   *)
(* manager and closes its Conn if it has one.                              *)
(***************************************************************************)
Call(a, c) ==
  /\ stage[a] = "idle"
  /\ stage' = [stage EXCEPT ![a] = "check"]
  /\ target' = [target EXCEPT ![a] = c]

(* Fault: MarkGC is not looked at. *)
CloseChecksChain(a) ==
  /\ stage[a] = "check"
  /\ stage' = [stage EXCEPT ![a] = IF chain[target[a]] = "ERROR" THEN "mark" ELSE "leave"]
  /\ UNCHANGED <<connVars, trackVars, target, snap, sweepVars>>

CloseChecks(a) ==
  /\ stage[a] = "check"
  /\ stage' = [stage EXCEPT ![a] =
                 IF chain[target[a]] = "ERROR" /\ ~markGC[target[a]]
                 THEN "mark" ELSE "leave"]
  /\ UNCHANGED <<connVars, trackVars, target, snap, sweepVars>>

CloseMarks(a) ==
  /\ stage[a] = "mark"
  /\ markGC' = [markGC EXCEPT ![target[a]] = TRUE]
  /\ stage' = [stage EXCEPT ![a] = "idle"]
  /\ UNCHANGED <<connVars, chain, connections, remote, early, target, snap,
                 sweepVars>>

(* Fault: the socket of a tracker is left open. *)
CloseLeavesOnly(a) ==
  /\ stage[a] = "leave"
  /\ connections' = connections \ {target[a]}
  /\ early' = [early EXCEPT ![target[a]] = @ \/ remote[target[a]] = "none"]
  /\ stage' = [stage EXCEPT ![a] = "idle"]
  /\ UNCHANGED <<connVars, chain, markGC, remote, target, snap, sweepVars>>

CloseLeaves(a) ==
  /\ stage[a] = "leave"
  /\ connections' = connections \ {target[a]}
  /\ remote' = [remote EXCEPT ![target[a]] = IF @ = "none" THEN @ ELSE "closed"]
  /\ early' = [early EXCEPT ![target[a]] = @ \/ remote[target[a]] = "none"]
  /\ stage' = [stage EXCEPT ![a] = "idle"]
  /\ UNCHANGED <<connVars, chain, markGC, target, snap, sweepVars>>

(* Fault: the deferred Close of a connection without a Conn is left out. *)
DeferredCloseConnOnly(c) ==
  /\ pc[c] = "close"
  /\ IF remote[c] = "none" THEN UNCHANGED callVars ELSE Call(c, c)
  /\ Goto(c, "closing")
  /\ UNCHANGED <<client, copier, trackVars, snap, sweepVars>>

(* The deferred Close of the tracker, then of the inbound connection.      *)
DeferredClose(c) ==
  /\ pc[c] = "close"
  /\ Call(c, c)
  /\ Goto(c, "closing")
  /\ UNCHANGED <<client, copier, trackVars, snap, sweepVars>>

HandlerReturns(c) ==
  /\ pc[c] = "closing" /\ stage[c] = "idle"
  /\ client' = [client EXCEPT ![c] = "closed"]
  /\ Goto(c, "done")
  /\ UNCHANGED <<copier, trackVars, callVars, snap, sweepVars>>

(***************************************************************************)
(* The closers.                                                            *)
(***************************************************************************)
(* closeConnection, closeAllConnections, updateProxy and CloseRuleMatchCon *)
(* take a snapshot and close some of it.                                   *)
Snapshot(a, S) ==
  /\ stage[a] = "idle" /\ snap[a] = {}
  /\ S \subseteq connections /\ S # {}
  /\ snap' = [snap EXCEPT ![a] = S]
  /\ UNCHANGED <<connVars, trackVars, callVars, sweepVars>>

ApiClose(a, c) ==
  /\ c \in snap[a]
  /\ Call(a, c)
  /\ snap' = [snap EXCEPT ![a] = @ \ {c}]
  /\ UNCHANGED <<connVars, trackVars, sweepVars>>

(* A tick of end_errors_conn.  Range visits every entry that stays in the  *)
(* map, none twice, and may or may not visit one that comes or goes.       *)
SweepStart ==
  /\ ~sweep
  /\ sweep' = TRUE
  /\ must' = connections
  /\ visited' = {}
  /\ due' = {c \in connections : pc[c] = "done"}
  /\ UNCHANGED <<connVars, trackVars, callVars, snap>>

SweepVisit(c) ==
  /\ sweep /\ stage[Sweeper] = "idle"
  /\ c \in (must \cup connections) \ visited
  /\ visited' = visited \cup {c}
  /\ IF chain[c] = "ERROR" THEN Call(Sweeper, c) ELSE UNCHANGED callVars
  /\ UNCHANGED <<connVars, trackVars, snap, sweep, must, due>>

SweepEnd ==
  /\ sweep /\ stage[Sweeper] = "idle"
  /\ must \cap connections \subseteq visited
  /\ sweep' = FALSE
  /\ UNCHANGED <<connVars, trackVars, callVars, snap, must, visited, due>>

---------------------------------------------------------------------------
Handler(c) ==
  \/ Register(c) \/ JoinAgain(c) \/ DialError(c) \/ DialOk(c)
  \/ c \in Tcp /\ handleTCPConn(c)
  \/ ReadEnds(c) \/ RelayStarts(c) \/ RelayRejected(c) \/ RelayReturns(c)
  \/ Unwind(c) \/ DeferredClose(c) \/ HandlerReturns(c)

CloseCall(a) == CloseChecks(a) \/ CloseMarks(a) \/ CloseLeaves(a)

Next ==
  \/ \E c \in Conns : Handler(c)
  \/ \E c \in Conns, s \in Sides : CopyEnds(c, s) \/ CopierCloses(c, s)
  \/ \E a \in Actors : CloseCall(a)
  \/ \E a \in Apis, S \in SUBSET connections : Snapshot(a, S)
  \/ \E a \in Apis, c \in Conns : ApiClose(a, c)
  \/ SweepStart \/ SweepEnd
  \/ \E c \in Conns : SweepVisit(c)

Spec == Init /\ [][Next]_vars

(* A copy that waits for data fails when its source is closed; that its    *)
(* destination is closed shows only when there is something to write.      *)
CopyFails(c, s) ==
  /\ (IF s = "up" THEN client[c] ELSE remote[c]) = "closed"
  /\ CopyEnds(c, s)

(* Every goroutine that can run does; a dial ends, at the latest by its    *)
(* timeout; the sweep ticks.  A copy on open connections may last forever. *)
FairSpec ==
  /\ Spec
  /\ \A c \in Conns :
       /\ WF_vars(Handler(c) /\ pc[c] \notin {"new", "read"})
       /\ WF_vars(SweepVisit(c))
       /\ \A s \in Sides : WF_vars(CopyFails(c, s)) /\ WF_vars(CopierCloses(c, s))
  /\ \A a \in Actors : WF_vars(CloseCall(a))
  /\ WF_vars(SweepStart) /\ WF_vars(SweepEnd)

---------------------------------------------------------------------------
(* Every variable has its type.                                            *)
TypeOK ==
  /\ pc \in [Conns -> HandlerState]
  /\ chain \in [Conns -> {"INIT", "TRACE", "ERROR", "NAME", "UP"}]
  /\ markGC \in [Conns -> BOOLEAN]
  /\ connections \subseteq Conns
  /\ remote \in [Conns -> {"none", "open", "closed"}]
  /\ client \in [Conns -> {"open", "closed"}]
  /\ copier \in [Conns -> CopierState]
  /\ early \in [Conns -> BOOLEAN]
  /\ stage \in [Actors -> {"idle", "check", "mark", "leave"}]
  /\ target \in [Actors -> Conns]
  /\ snap \in [Apis -> SUBSET Conns]
  /\ sweep \in BOOLEAN
  /\ must \subseteq Conns /\ visited \subseteq Conns /\ due \subseteq Conns

(* When handleTCPConn or the UDP reader has returned, neither side of the  *)
(* connection is open, whichever of dial error, breaker, copier, API call  *)
(* and sweep came first.                                                   *)
SocketsReleased ==
  \A c \in Conns : pc[c] = "done" => client[c] = "closed" /\ remote[c] # "open"

(* A connection whose goroutine has returned is still in the manager only  *)
(* as a failed one that is marked for the sweep (tracker.go 108-113).      *)
ListedAfterwardsIsMarked ==
  \A c \in connections : pc[c] = "done" => chain[c] = "ERROR" /\ markGC[c]

(* An open outbound connection is in the manager, unless a Close reached   *)
(* its tracker while there was nothing to close (handleTCPConn joins the   *)
(* tracker long before it dials).                                          *)
OpenIsListed ==
  \A c \in Conns : remote[c] = "open" /\ ~early[c] => c \in connections

(* A tick of end_errors_conn leaves no entry behind that was there with    *)
(* its goroutine returned when the tick began: a failed connection is gone *)
(* after two ticks (the comment in end_errors_conn).                       *)
SweepCollects == ~sweep => due \cap connections = {}

(* When one copier of a relayed connection ends, or one side of it is      *)
(* closed, the other copier ends too and handleTCPConn returns.            *)
TeardownPropagates ==
  \A c \in Conns :
    (/\ pc[c] = "copy"
     /\ \/ \E s \in Sides : copier[c][s] # "copy"
        \/ client[c] = "closed" \/ remote[c] = "closed")
      ~> pc[c] = "done"

(* Every connection whose goroutine has returned leaves the manager.       *)
FailuresCollected == \A c \in Conns : pc[c] = "done" ~> c \notin connections
===========================================================================
