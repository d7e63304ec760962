------------------------------- MODULE Reload --------------------------------
(* Applying a configuration while the program runs.  PUT /configs parses   *)
(* and calls ApplyConfig, which holds executor.mux from the first part to  *)
(* the last; PATCH /configs changes listeners and mode without it.  Every  *)
(* ReCreateX holds the mutex of its listener.  Sockets are those of the    *)
(* kernel: one listener per protocol and port.                             *)
EXTENDS Naturals, Sequences, FiniteSets

CONSTANTS
  Plans,     \* configurations: id, port of every listener, allow-lan, DNS enabled and its port, force
  PatchPlans, \* what PATCH asks for: ports, 0 for one left alone, and allow-lan
  Puts,      \* goroutines of PUT /configs
  Patches,   \* goroutines of PATCH /configs
  MaxCalls,  \* bound: calls of the API
  MaxFails   \* bound: system calls that fail for another reason than a used port

ASSUME ReloadAssumption == Puts \cap Patches = {} /\ "free" \notin Puts

VARIABLES
  actor,     \* goroutine -> where it is, its plan, the ports PATCH has read
  mux,       \* holder of executor.mux, or "free"
  gen,       \* part of the program -> id of the configuration it runs
  lan,       \* listener.allowLan
  tcp, udp,  \* the listener variables: NoSocket, or an address and whether its socket is open
  asked,     \* history: address of the last ReCreate that reported no error, else "failed"
  lost,      \* sockets left open that no variable refers to: <<protocol, port>>
  dnsServer, \* dns.server and dns.address: address, id of the handler, activated
  waking,    \* goroutines of ReCreateServer that have yet to call server.ActivateAndServe
  calls, fails

reloadVars == <<actor, mux, gen, lan, tcp, udp, asked, lost, dnsServer, waking, calls, fails>>

Kind     == {"http", "socks", "redir", "tproxy", "mixed"}
Parts    == {"users", "proxies", "rules", "hosts", "profile", "general", "resolver"}
NoSocket == [port |-> 0, lan |-> FALSE, open |-> FALSE]
Idling   == [at |-> 0, plan |-> <<>>, ports |-> <<>>]
NoDns    == [port |-> 0, handler |-> "none", sock |-> FALSE, active |-> FALSE]
(* The steps of ApplyConfig and of patchConfigs, in their order. *)
PutSteps   == <<"users", "proxies", "rules", "hosts", "profile", "general",
                "http", "socks", "redir", "tproxy", "mixed", "resolver", "dns">>
PatchSteps == <<"lan", "ports", "http", "socks", "redir", "tproxy", "mixed">>

ReloadInit ==
  /\ actor = [a \in Puts \cup Patches |-> Idling]
  /\ mux = "free"
  /\ gen = [p \in Parts |-> "none"]
  /\ lan = FALSE
  /\ tcp = [k \in Kind |-> NoSocket] /\ udp = [k \in Kind |-> NoSocket]
  /\ asked = [k \in Kind |-> NoSocket]
  /\ lost = {} /\ dnsServer = NoDns /\ waking = 0 /\ calls = 0 /\ fails = 0

-----------------------------------------------------------------------------
(* The listeners. *)

genAddr(port) == [port |-> port, lan |-> lan, open |-> TRUE]

(* A port is taken by another listener's socket, by the DNS server or by a lost one. *)
Taken(proto, port, k) ==
  \/ <<proto, port>> \in lost
  \/ \E j \in Kind \ {k} : LET s == IF proto = "tcp" THEN tcp[j] ELSE udp[j] IN s.open /\ s.port = port
  \/ proto = "udp" /\ dnsServer.sock /\ dnsServer.port = port

(* New and NewUDP of the listeners, when a system call fails: refused, or  *)
(* (those of tproxy) opened and then given up unclosed, its options not    *)
(* being set.                                                              *)
New(k)    == IF k = "tproxy" THEN {"refused", "lost"} ELSE {"refused"}
NewUDP(k) == IF k \in {"tproxy", "redir"} THEN {"refused", "lost"} ELSE {"refused"}
OpenOutcomes(proto, port, k) ==
  IF Taken(proto, port, k) THEN {"refused"}
  ELSE {"opened"} \cup (IF fails >= MaxFails THEN {} ELSE IF proto = "tcp" THEN New(k) ELSE NewUDP(k))
Socket(o, a) == IF o = "opened" THEN a ELSE NoSocket

(* Fault: a change of allow-lan alone keeps the listener. *)
KeptAtPort(s, a) == IF s.port = a.port THEN s ELSE NoSocket
(* What is left of a listener variable when address a is asked for: kept   *)
(* at the same address, otherwise closed.                                  *)
Kept(s, a) == IF s.port = a.port /\ s.lan = a.lan THEN s ELSE NoSocket

(* What a ReCreate leaves: its sockets, and the address if it reported no error. *)
Leaves(k, a, t, u, ok) ==
  /\ tcp' = [tcp EXCEPT ![k] = t] /\ udp' = [udp EXCEPT ![k] = u]
  /\ asked' = [asked EXCEPT ![k] = IF ok THEN a ELSE [a EXCEPT !.open = FALSE]]

ReCreateHTTP(k, a, o, u) == Leaves(k, a, Socket(o, a), NoSocket, o = "opened")
(* A UDP socket that cannot be had is only logged. *)
ReCreateRedir(k, a, o, u) ==
  Leaves(k, a, Socket(o, a), IF o = "opened" THEN Socket(u, a) ELSE NoSocket, o = "opened")
ReCreateTProxy(k, a, o, u) ==
  Leaves(k, a, Socket(o, a), IF o = "opened" THEN Socket(u, a) ELSE NoSocket, o = "opened")
(* ReCreateSocks: both sockets or neither. *)
ReCreateSocks(k, a, o, u) ==
  LET both == o = "opened" /\ u = "opened"
  IN  Leaves(k, a, IF both THEN a ELSE NoSocket, IF both THEN a ELSE NoSocket, both)
(* ReCreateMixed: without UDP the TCP listener is closed, but the variable stays. *)
ReCreateMixed(k, a, o, u) ==
  LET both == o = "opened" /\ u = "opened"
  IN  Leaves(k, a, IF o = "opened" THEN [a EXCEPT !.open = both] ELSE NoSocket, IF both THEN a ELSE NoSocket, both)

ReCreate(k, port) ==
  LET a    == genAddr(port)
      t    == Kept(tcp[k], a)
      u    == Kept(udp[k], a)
      done == IF k \in {"socks", "mixed"} THEN t # NoSocket /\ u # NoSocket ELSE t # NoSocket
  IN  IF done \/ port = 0
      THEN /\ tcp' = [tcp EXCEPT ![k] = t]
           /\ udp' = [udp EXCEPT ![k] = IF done THEN @ ELSE u]
           /\ asked' = [asked EXCEPT ![k] = IF done THEN a ELSE NoSocket]
           /\ UNCHANGED <<lost, fails>>
      ELSE \E o \in OpenOutcomes("tcp", port, k), v \in OpenOutcomes("udp", port, k) :
             /\ CASE k = "http"   -> ReCreateHTTP(k, a, o, v)
                  [] k = "socks"  -> ReCreateSocks(k, a, o, v)
                  [] k = "redir"  -> ReCreateRedir(k, a, o, v)
                  [] k = "tproxy" -> ReCreateTProxy(k, a, o, v)
                  [] k = "mixed"  -> ReCreateMixed(k, a, o, v)
             /\ lost' = lost \cup (IF o = "lost" THEN {<<"tcp", port>>} ELSE {})
                             \cup (IF o = "opened" /\ v = "lost" THEN {<<"udp", port>>} ELSE {})
             /\ fails' = IF \/ o # "opened" /\ ~Taken("tcp", port, k)
                            \/ o = "opened" /\ v # "opened" /\ ~Taken("udp", port, k) THEN fails + 1 ELSE fails

-----------------------------------------------------------------------------
(* Fault: only the first server gets its goroutine. *)
GoServeFirst == waking' = IF dnsServer.sock THEN waking ELSE waking + 1
(* The goroutine that is to activate the server. *)
GoServe == waking' = waking + 1
(* dns.ReCreateServer: the same address takes the new handler; otherwise   *)
(* the server is shut down, which fails if its goroutine has not activated *)
(* it yet, its socket then staying open, and a new one is made.            *)
ReCreateServer(port, id) ==
  LET stopped == IF dnsServer.sock THEN NoDns ELSE dnsServer
  IN  IF port = dnsServer.port /\ id # "none"
      THEN dnsServer' = [dnsServer EXCEPT !.handler = id] /\ UNCHANGED <<lost, waking, fails>>
      ELSE /\ lost' = lost \cup (IF dnsServer.sock /\ ~dnsServer.active THEN {<<"udp", dnsServer.port>>} ELSE {})
           /\ IF port = 0 THEN dnsServer' = stopped /\ UNCHANGED <<waking, fails>>
              ELSE \/ /\ \A k \in Kind : ~(udp[k].open /\ udp[k].port = port)
                      /\ <<"udp", port>> \notin lost'
                      /\ dnsServer' = [port |-> port, handler |-> id, sock |-> TRUE, active |-> FALSE]
                      /\ GoServe
                      /\ UNCHANGED fails
                   \/ /\ dnsServer' = stopped
                      /\ IF <<"udp", port>> \in lost' \/ \E k \in Kind : udp[k].open /\ udp[k].port = port
                         THEN UNCHANGED fails ELSE fails < MaxFails /\ fails' = fails + 1
                      /\ UNCHANGED waking
(* server.ActivateAndServe, on whatever server is in force by now. *)
ActivateAndServe ==
  /\ waking > 0
  /\ waking' = waking - 1
  /\ dnsServer' = [dnsServer EXCEPT !.active = @ \/ dnsServer.sock]
  /\ UNCHANGED <<actor, mux, gen, lan, tcp, udp, asked, lost, calls, fails>>

-----------------------------------------------------------------------------
(* The goroutines of the API. *)

(* Fault: the mutex of ApplyConfig is not taken. *)
LockNot(a) == mux' = a
(* mux.Lock of ApplyConfig. *)
Lock(a) == mux = "free" /\ mux' = a
Begin(a, p) ==
  /\ actor[a].at = 0 /\ calls < MaxCalls
  /\ calls' = calls + 1
  /\ actor' = [actor EXCEPT ![a] = [at |-> 1, plan |-> p, ports |-> <<>>]]
  /\ IF a \in Puts THEN Lock(a) ELSE UNCHANGED mux
  /\ UNCHANGED <<gen, lan, tcp, udp, asked, lost, dnsServer, waking, fails>>

(* One part of ApplyConfig; updateGeneral sets allow-lan and the listeners *)
(* only when the call says force.                                          *)
PutStep(a) ==
  /\ actor[a].at > 0
  /\ LET me   == actor[a]
         step == PutSteps[me.at]
         p    == me.plan
         next == IF step = "general" /\ ~p.force THEN 12 ELSE me.at + 1
     IN  /\ actor' = [actor EXCEPT ![a] = IF step = "dns" THEN Idling ELSE [me EXCEPT !.at = next]]
         /\ mux' = IF step = "dns" THEN "free" ELSE mux
         /\ gen' = IF step \in Parts THEN [gen EXCEPT ![step] = IF step = "resolver" /\ ~p.dns THEN "nil" ELSE p.id] ELSE gen
         /\ lan' = IF step = "general" /\ p.force THEN p.lan ELSE lan
         /\ IF step \in Kind THEN ReCreate(step, p.port[step]) ELSE
            IF step = "dns" THEN UNCHANGED <<tcp, udp, asked>> ELSE UNCHANGED <<tcp, udp, asked, lost, fails>>
         /\ IF step = "dns" THEN ReCreateServer(IF p.dns THEN p.listen ELSE 0, IF p.dns THEN p.id ELSE "none")
                            ELSE UNCHANGED <<dnsServer, waking>>
  /\ UNCHANGED calls

(* patchConfigs: allow-lan, then the ports in force for what is not asked  *)
(* for (GetPorts, a port of 0 in the plan), then the listeners.            *)
GetPorts(p) == [k \in Kind |-> IF p.port[k] # 0 THEN p.port[k] ELSE tcp[k].port]
PatchStep(a) ==
  /\ actor[a].at > 0
  /\ LET me   == actor[a]
         step == PatchSteps[me.at]
         p    == me.plan
         read == IF step = "ports" THEN GetPorts(p) ELSE me.ports
     IN  /\ actor' = [actor EXCEPT ![a] = IF me.at = Len(PatchSteps) THEN Idling ELSE [at |-> me.at + 1, plan |-> p, ports |-> read]]
         /\ lan' = IF step = "lan" THEN p.lan ELSE lan
         /\ IF step \in Kind THEN ReCreate(step, me.ports[step])
                             ELSE UNCHANGED <<tcp, udp, asked, lost, fails>>
  /\ UNCHANGED <<mux, gen, dnsServer, waking, calls>>

ReloadStep == (\E a \in Puts : PutStep(a)) \/ (\E a \in Patches : PatchStep(a)) \/ ActivateAndServe
ReloadNext == ReloadStep \/ (\E a \in Puts, p \in Plans : Begin(a, p)) \/ (\E a \in Patches, p \in PatchPlans : Begin(a, p))

-----------------------------------------------------------------------------
(* Whatever PUTs and PATCHes are under way and whichever system calls      *)
(* fail, the sockets of a listener serve one address, no socket is open    *)
(* twice, and a listener whose last ReCreate reported no error listens     *)
(* where it was asked to (SOCKS and mixed on UDP too), or nowhere if asked *)
(* for port 0.                                                             *)
ListensWhereAsked ==
  \A k \in Kind :
    /\ udp[k].open => udp[k] = tcp[k]
    /\ asked[k].open => tcp[k] = asked[k] /\ (k \in {"socks", "mixed"} => udp[k] = asked[k])
    /\ asked[k] = NoSocket => ~tcp[k].open /\ ~udp[k].open
    /\ tcp[k].open => ~Taken("tcp", tcp[k].port, k)
    /\ udp[k].open => ~Taken("udp", udp[k].port, k)

(* Configurations applied at the same time do not mix: when none is being  *)
(* applied, every part runs the one applied last, and so does the DNS      *)
(* server.                                                                 *)
OneConfiguration ==
  mux = "free" => /\ \A p, q \in Parts \ {"resolver"} : gen[p] = gen[q]
                  /\ gen["resolver"] \in {gen["rules"], "nil"}
                  /\ dnsServer.sock => dnsServer.handler = gen["resolver"]

(* A DNS server that stays in force is served, although the goroutine      *)
(* started for it reads the global server only when it runs.               *)
DnsServed == []<>(dnsServer.sock => dnsServer.active)

ReloadFairness == WF_reloadVars(ActivateAndServe)
ReloadSpec == ReloadInit /\ [][ReloadNext]_reloadVars /\ ReloadFairness
=============================================================================
