------------------------------- MODULE UdpNat -------------------------------
(***************************************************************************)
(* UDP sessions of the tunnel: the packet queue, handleUDPConn with its    *)
(* singleflight dial, the NAT table, handleUDPToRemote, the per-session    *)
(* reader handleUDPToLocal, the session tracker in the statistics manager  *)
(* and the breaker that readers share with TCP relays.                     *)
(*                                                                         *)
(* A packet is one datagram from a client address, its key.  The session   *)
(* that the handler of packet p dials is named p too: a handler dials at   *)
(* most once.  Every handler and every reader is a goroutine of its own.   *)
(***************************************************************************)
EXTENDS Breaker

CONSTANTS
  Packets,      \* datagrams, and the sessions their handlers may dial
  Keys,         \* client addresses (packet.LocalAddr().String())
  KeyOf,        \* the client address of each packet
  None,         \* no session, no leader
  QueueCap      \* capacity of udpQueue (200 in the code)

ASSUME PacketsAssumption ==
  /\ Packets \subseteq Conns
  /\ KeyOf \in [Packets -> Keys]
  /\ None \notin Packets
  /\ QueueCap \in Nat \ {0}

VARIABLES
  pkt,       \* where the handler of each packet is
  target,    \* the session a handler is writing to
  natTable,  \* client address -> session
  flight,    \* client address -> leader of the udpSF call in progress
  conn,      \* the outbound socket of each session
  reader,    \* where the handleUDPToLocal of each session is
  manager,   \* sessions in DefaultManager.connections
  detached   \* history: sessions whose tracker was closed during the dial

natVars == <<pkt, target, natTable, flight, conn, reader, manager, detached>>
vars == <<natVars, breakerVars>>

(* TCP relays, the other users of the breaker. *)
Relays == Conns \ Packets

(* new: not received.  queued: in udpQueue.  sf: goroutine started, before *)
(* udpSF.Do.  lead: running the function of Do.  wait: waiting for the     *)
(* leader.  dial: tracker joined, in DialUDP.  set: reader started,        *)
(* natTable.Set next.  fin, finerr: the function of Do has returned.  get: *)
(* Do has returned without error.  write: in handleUDPToRemote.  wdel,     *)
(* wclose: its WriteTo failed.  done: handler finished.                    *)
PktState == {"new", "queued", "sf", "lead", "wait", "dial", "set", "fin",
             "finerr", "get", "write", "wdel", "wclose", "done"}

(* none: no reader.  spawned: go handleUDPToLocal.  body: its steps on the *)
(* breaker and the read loop between them.  close, del: deferred pc.Close  *)
(* and natTable.Delete.  done: returned.                                   *)
ReaderState == {"none", "spawned", "body", "close", "del", "done"}

Leading == {"lead", "dial", "set", "fin", "finerr"}

Init ==
  /\ pkt = [p \in Packets |-> "new"]
  /\ target = [p \in Packets |-> None]
  /\ natTable = [k \in Keys |-> None]
  /\ flight = [k \in Keys |-> None]
  /\ conn = [p \in Packets |-> "none"]
  /\ reader = [p \in Packets |-> "none"]
  /\ manager = {}
  /\ detached = {}
  /\ BreakerInit

-----------------------------------------------------------------------------
(* Receiving: the listener's select with a default branch. *)

Queued == {p \in Packets : pkt[p] = "queued"}

Goto(p, l) == pkt' = [pkt EXCEPT ![p] = l]

Enqueue(p) ==
  /\ pkt[p] = "new"
  /\ Cardinality(Queued) < QueueCap
  /\ Goto(p, "queued")
  /\ UNCHANGED <<target, natTable, flight, conn, reader, manager, detached,
                 breakerVars>>

DropFull(p) ==
  /\ pkt[p] = "new"
  /\ Cardinality(Queued) >= QueueCap
  /\ Goto(p, "done")
  /\ UNCHANGED <<target, natTable, flight, conn, reader, manager, detached,
                 breakerVars>>

-----------------------------------------------------------------------------
(* handleUDPConn, run by a worker of processUDP.                           *)

(* Invalid metadata, or a fake address without its record. *)
HandleInvalid(p) ==
  /\ pkt[p] = "queued"
  /\ Goto(p, "done")
  /\ UNCHANGED <<target, natTable, flight, conn, reader, manager, detached,
                 breakerVars>>

(* The handler has found session s for its key: handleUDPToRemote starts. *)
Use(p, s) ==
  /\ target' = [target EXCEPT ![p] = s]
  /\ Goto(p, "write")

handleUDPConn(p) ==
  /\ pkt[p] = "queued"
  /\ IF natTable[KeyOf[p]] # None
     THEN Use(p, natTable[KeyOf[p]])
     ELSE Goto(p, "sf") /\ UNCHANGED target
  /\ UNCHANGED <<natTable, flight, conn, reader, manager, detached,
                 breakerVars>>

(* Fault: every caller of Do runs the function. *)
DoUnshared(p) ==
  /\ pkt[p] = "sf"
  /\ flight' = [flight EXCEPT ![KeyOf[p]] = p]
  /\ Goto(p, "lead")
  /\ UNCHANGED <<target, natTable, conn, reader, manager, detached,
                 breakerVars>>

(* udpSF.Do: the first caller of a key leads, the others wait for it. *)
Do(p) ==
  /\ pkt[p] = "sf"
  /\ IF flight[KeyOf[p]] = None
     THEN /\ flight' = [flight EXCEPT ![KeyOf[p]] = p]
          /\ Goto(p, "lead")
     ELSE /\ Goto(p, "wait")
          /\ UNCHANGED flight
  /\ UNCHANGED <<target, natTable, conn, reader, manager, detached,
                 breakerVars>>

(* The double check of natTable inside Do; without an entry the metadata   *)
(* is resolved (which never fails: match returns no error), the tracker    *)
(* joins the manager and the dial starts.                                  *)
DoubleCheck(p) ==
  /\ pkt[p] = "lead"
  /\ IF natTable[KeyOf[p]] # None
     THEN Goto(p, "fin") /\ UNCHANGED manager
     ELSE Goto(p, "dial") /\ manager' = manager \cup {p}
  /\ UNCHANGED <<target, natTable, flight, conn, reader, detached,
                 breakerVars>>

(* tracker.Close of a session: leave the manager, close the socket if the  *)
(* tracker has one.  The chain of a UDP session never ends in "ERROR": on  *)
(* a failed dial it ends in the proxy's name.                              *)
CloseSession(s) ==
  /\ manager' = manager \ {s}
  /\ conn' = IF conn[s] = "open" THEN [conn EXCEPT ![s] = "closed"] ELSE conn

DialFailed(p) ==
  /\ pkt[p] = "dial"
  /\ CloseSession(p)
  /\ Goto(p, "finerr")
  /\ UNCHANGED <<target, natTable, flight, reader, detached, breakerVars>>

(* pc.PacketConn = rawPc; go handleUDPToLocal(...) *)
DialOk(p) ==
  /\ pkt[p] = "dial"
  /\ conn' = [conn EXCEPT ![p] = "open"]
  /\ reader' = [reader EXCEPT ![p] = "spawned"]
  /\ Goto(p, "set")
  /\ UNCHANGED <<target, natTable, flight, manager, detached, breakerVars>>

(* natTable.Set(key, pc), after the reader has been started. *)
Set(p) ==
  /\ pkt[p] = "set"
  /\ natTable' = [natTable EXCEPT ![KeyOf[p]] = p]
  /\ Goto(p, "fin")
  /\ UNCHANGED <<target, flight, conn, reader, manager, detached,
                 breakerVars>>

(* Do returns: the call is forgotten and all its callers go on, to the     *)
(* second natTable.Get or, after an error, nowhere.                        *)
Callers(p) == {p} \cup {q \in Packets : pkt[q] = "wait" /\ KeyOf[q] = KeyOf[p]}

(* Fault: the callers that wait are not woken. *)
FinishLeaderOnly(p) ==
  /\ pkt[p] \in {"fin", "finerr"}
  /\ flight' = [flight EXCEPT ![KeyOf[p]] = None]
  /\ Goto(p, IF pkt[p] = "fin" THEN "get" ELSE "done")
  /\ UNCHANGED <<target, natTable, conn, reader, manager, detached,
                 breakerVars>>

Finish(p) ==
  /\ pkt[p] \in {"fin", "finerr"}
  /\ flight' = [flight EXCEPT ![KeyOf[p]] = None]
  /\ pkt' = [q \in Packets |->
               IF q \notin Callers(p) THEN pkt[q]
               ELSE IF pkt[p] = "fin" THEN "get" ELSE "done"]
  /\ UNCHANGED <<target, natTable, conn, reader, manager, detached,
                 breakerVars>>

(* The entry may already be gone: then the packet is dropped silently. *)
GetAgain(p) ==
  /\ pkt[p] = "get"
  /\ IF natTable[KeyOf[p]] # None
     THEN Use(p, natTable[KeyOf[p]])
     ELSE Goto(p, "done") /\ UNCHANGED target
  /\ UNCHANGED <<natTable, flight, conn, reader, manager, detached,
                 breakerVars>>

-----------------------------------------------------------------------------
(* handleUDPToRemote.                                                      *)

(* The destination has only a host name and it cannot be resolved. *)
ResolveFails(p) ==
  /\ pkt[p] = "write"
  /\ Goto(p, "done")
  /\ UNCHANGED <<target, natTable, flight, conn, reader, manager, detached,
                 breakerVars>>

WriteOk(p) ==
  /\ pkt[p] = "write"
  /\ conn[target[p]] = "open"
  /\ Goto(p, "done")
  /\ UNCHANGED <<target, natTable, flight, conn, reader, manager, detached,
                 breakerVars>>

(* WriteTo fails: always on a closed socket, sometimes on an open one. *)
WriteFails(p) ==
  /\ pkt[p] = "write"
  /\ Goto(p, "wdel")
  /\ UNCHANGED <<target, natTable, flight, conn, reader, manager, detached,
                 breakerVars>>

(* natTable.Delete(key): whatever session the entry names by now. *)
WriteErrorDelete(p) ==
  /\ pkt[p] = "wdel"
  /\ natTable' = [natTable EXCEPT ![KeyOf[p]] = None]
  /\ Goto(p, "wclose")
  /\ UNCHANGED <<target, flight, conn, reader, manager, detached,
                 breakerVars>>

WriteErrorClose(p) ==
  /\ pkt[p] = "wclose"
  /\ CloseSession(target[p])
  /\ Goto(p, "done")
  /\ UNCHANGED <<target, natTable, flight, reader, detached, breakerVars>>

-----------------------------------------------------------------------------
(* handleUDPToLocal.                                                       *)

ReaderEnter(s) ==
  /\ reader[s] = "spawned"
  /\ Enter(s)
  /\ reader' = [reader EXCEPT ![s] = "body"]
  /\ UNCHANGED <<pkt, target, natTable, flight, conn, manager, detached>>

ReaderCompare(s) ==
  /\ reader[s] = "body"
  /\ Admit(s) \/ Reject(s)
  /\ UNCHANGED natVars

(* ReadFrom or WriteBack fails: always on a closed socket, on an open one  *)
(* by the read deadline, a network error or a failed write to the client.  *)
(* A successful round of the loop changes nothing here.                    *)
ReaderStops(s) ==
  /\ reader[s] = "body"
  /\ Return(s)
  /\ UNCHANGED natVars

ReaderLeave(s) ==
  /\ reader[s] = "body"
  /\ Leave(s)
  /\ reader' = [reader EXCEPT ![s] = "close"]
  /\ UNCHANGED <<pkt, target, natTable, flight, conn, manager, detached>>

(* Fault: the reader does not close its session. *)
ReaderSkipClose(s) ==
  /\ reader[s] = "close"
  /\ reader' = [reader EXCEPT ![s] = "del"]
  /\ UNCHANGED <<pkt, target, natTable, flight, conn, manager, detached,
                 breakerVars>>

ReaderClose(s) ==
  /\ reader[s] = "close"
  /\ CloseSession(s)
  /\ reader' = [reader EXCEPT ![s] = "del"]
  /\ UNCHANGED <<pkt, target, natTable, flight, detached, breakerVars>>

(* defer natTable.Delete(key): again whatever the entry names by now. *)
ReaderDelete(s) ==
  /\ reader[s] = "del"
  /\ natTable' = [natTable EXCEPT ![KeyOf[s]] = None]
  /\ reader' = [reader EXCEPT ![s] = "done"]
  /\ UNCHANGED <<pkt, target, flight, conn, manager, detached, breakerVars>>

-----------------------------------------------------------------------------
(* The rest of the process.                                                *)

(* DELETE /connections, a rule update or a selector change closes a        *)
(* tracked session; during the dial the tracker has no socket to close.    *)
CloseTracked(s) ==
  /\ s \in manager
  /\ CloseSession(s)
  /\ detached' = IF pkt[s] = "dial" THEN detached \cup {s} ELSE detached
  /\ UNCHANGED <<pkt, target, natTable, flight, reader, breakerVars>>

RelayStep(r) == BreakerStep(r) /\ UNCHANGED natVars

ChangeLimit(m) ==
  /\ updateGeneral(m) \/ patchConfigs(m)
  /\ UNCHANGED natVars

Receive(p) == Enqueue(p) \/ DropFull(p)

Handler(p) ==
  \/ HandleInvalid(p) \/ handleUDPConn(p)
  \/ Do(p) \/ DoubleCheck(p) \/ DialFailed(p) \/ DialOk(p) \/ Set(p)
  \/ Finish(p) \/ GetAgain(p)
  \/ ResolveFails(p) \/ WriteOk(p) \/ WriteFails(p)
  \/ WriteErrorDelete(p) \/ WriteErrorClose(p)

Reader(s) ==
  \/ ReaderEnter(s) \/ ReaderCompare(s) \/ ReaderStops(s)
  \/ ReaderLeave(s) \/ ReaderClose(s) \/ ReaderDelete(s)

Next ==
  \/ \E p \in Packets : Receive(p) \/ Handler(p) \/ Reader(p) \/ CloseTracked(p)
  \/ \E r \in Relays : RelayStep(r)
  \/ \E m \in Requested : ChangeLimit(m)

Spec == Init /\ [][Next]_vars

(* The goroutines run: handlers always finish a step (DialUDP and the DNS  *)
(* lookup have timeouts), readers too, except that ReadFrom on an open     *)
(* socket may block for as long as the remote keeps sending.               *)
ReaderStopsClosed(s) == conn[s] # "open" /\ ReaderStops(s)

ReaderRuns(s) ==
  \/ ReaderEnter(s) \/ ReaderCompare(s) \/ ReaderStopsClosed(s)
  \/ ReaderLeave(s) \/ ReaderClose(s) \/ ReaderDelete(s)

FairSpec ==
  /\ Spec
  /\ \A p \in Packets : WF_vars(Handler(p)) /\ WF_vars(ReaderRuns(p))

(* In addition every remote falls silent, so the read deadline (60 s after *)
(* the last packet) expires.                                               *)
QuietSpec == FairSpec /\ \A s \in Packets : WF_vars(ReaderStops(s))

-----------------------------------------------------------------------------
(* Every variable has a value of its declaration. *)
TypeOK ==
  /\ pkt \in [Packets -> PktState]
  /\ target \in [Packets -> Packets \cup {None}]
  /\ natTable \in [Keys -> Packets \cup {None}]
  /\ flight \in [Keys -> Packets \cup {None}]
  /\ conn \in [Packets -> {"none", "open", "closed"}]
  /\ reader \in [Packets -> ReaderState]
  /\ manager \subseteq Packets
  /\ detached \subseteq Packets

(* "Use singleflight so that only one goroutine is dialling": of the       *)
(* handlers of one client address at most one is inside udpSF.Do's         *)
(* function, and it is the one the group knows.                            *)
SingleDialer ==
  \A p \in Packets : pkt[p] \in Leading => flight[KeyOf[p]] = p

(* A handler waiting in udpSF.Do has a leader that is still running: no    *)
(* packet waits for a call that was forgotten.                             *)
WaitersHaveLeader ==
  \A q \in Packets : pkt[q] = "wait" =>
    \E p \in Packets : flight[KeyOf[q]] = p /\ pkt[p] \in Leading

(* An open outbound socket always has a reader that has yet to run its     *)
(* deferred pc.Close: whatever the order of the reader's exit, Set, failed *)
(* writes and API closes, no socket is forgotten.                          *)
NoLeakedSocket ==
  \A s \in Packets : conn[s] = "open" => reader[s] \in {"spawned", "body", "close"}

(* The manager lists a session only while it is being dialled or its       *)
(* socket is open, so the connection list shows no session that is over.   *)
NoPhantomTracker ==
  \A s \in manager : pkt[s] = "dial" \/ conn[s] = "open"

(* "Join the tracker before dialling": an open session is in the manager,  *)
(* except when its tracker was closed while the dial was in progress.      *)
TrackedUnlessDetached ==
  \A s \in Packets : conn[s] = "open" => s \in manager \cup detached

(* The NAT table and the handlers that write name sessions of their own    *)
(* client address whose dial succeeded.                                    *)
TableSound ==
  /\ \A k \in Keys : natTable[k] # None =>
       KeyOf[natTable[k]] = k /\ conn[natTable[k]] # "none"
  /\ \A p \in Packets : pkt[p] \in {"write", "wdel", "wclose"} =>
       /\ target[p] # None
       /\ KeyOf[target[p]] = KeyOf[p]
       /\ conn[target[p]] # "none"

(* The leader that singleflight knows for a client address is a handler of *)
(* that address inside the function of Do.                                 *)
FlightLeads ==
  \A k \in Keys : flight[k] # None =>
    KeyOf[flight[k]] = k /\ pkt[flight[k]] \in Leading

(* A session has a socket and a reader from the successful dial on, and    *)
(* neither before it.                                                      *)
Lifecycle ==
  \A p \in Packets :
    /\ conn[p] = "none" <=> reader[p] = "none"
    /\ pkt[p] = "set" => conn[p] # "none"
    /\ pkt[p] \in {"new", "queued", "sf", "lead", "wait", "dial"} =>
         conn[p] = "none"

(* The tracker of a dial in progress is in the manager, unless closed. *)
DialTracked ==
  \A p \in Packets : pkt[p] = "dial" => p \in manager \cup detached

(* Every packet taken from the queue is eventually finished with: dialled  *)
(* for, waited for and written, or dropped.                                *)
HandlersEnd == \A p \in Packets : pkt[p] = "queued" ~> pkt[p] = "done"

(* When the remotes fall silent every session ends, the ones that lost     *)
(* their table entry to another session's deferred Delete included; once   *)
(* its socket is closed, by whomever, its reader ends and gives back its   *)
(* place in the breaker; and the manager's list drains, of failed dials    *)
(* too.                                                                    *)
SessionsEnd ==
  \A s \in Packets :
    /\ conn[s] = "open" ~> conn[s] = "closed"
    /\ conn[s] = "closed" ~> reader[s] = "done"
    /\ s \in manager ~> s \notin manager
============================================================================
