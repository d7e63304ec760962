----------------------------- MODULE ProxyHealth -----------------------------
(* adapter.Proxy and the health check of its provider: dials through a     *)
(* proxy, rate limited while it is failing, the alive flag and the delays  *)
(* they and the probes of the check write, and the batch that runs the     *)
(* probes.  Elapsed time is a flag that expires by an action of its own.   *)
EXTENDS Naturals, FiniteSets, Sequences

CONSTANTS
  Members,     \* the proxies of the provider
  Flows,       \* connections dialled through them
  Lazy,        \* values of the health check's lazy option
  SemSize,     \* dials at once through a proxy that is failing
  Concurrency, \* probes of a batch at once
  Probes,      \* requests of one URLTest
  HistoryMax,  \* delays kept
  MaxChanges   \* bound: changes of a server, closing of the check

VARIABLES
  server,   \* member -> "down", "near" (answers within a millisecond) or "far"
  alive,    \* Proxy.alive
  recent,   \* member -> a dial succeeded within DefaultTCPTimeout
  tokens,   \* member -> tokens of Proxy.sem in use
  history,  \* Proxy.history: delays, 0 for a failed test
  flow,     \* connection -> the proxy it is dialling, and whether it holds a token
  tester,   \* <<round, member>> -> the goroutine of one probe
  hc,       \* health check: lazy, touched within the interval, a check running, closed
  changes

healthVars == <<server, alive, recent, tokens, history, flow, tester, hc, changes>>

(* process starts one check at once and one at every tick. *)
Rounds   == {"first", "tick"}
Resting  == [p |-> "none", token |-> FALSE]
Untested == [at |-> "no", i |-> 0, conn |-> FALSE, valid |-> FALSE, token |-> FALSE]
Queued   == [Untested EXCEPT !.at = "queued"]

(* NewProxy, NewHealthCheck. *)
HealthInit ==
  /\ server \in [Members -> {"down", "far"}]
  /\ alive = [p \in Members |-> TRUE] /\ recent = [p \in Members |-> TRUE]
  /\ tokens = [p \in Members |-> 0] /\ history = [p \in Members |-> <<>>]
  /\ flow = [f \in Flows |-> Resting]
  /\ hc \in [lazy : Lazy, touched : {FALSE}, checking : {FALSE}, closed : {FALSE}]
  /\ tester = [t \in Rounds \X Members |-> IF t[1] = "first" THEN Queued ELSE Untested]
  /\ changes = 0

-----------------------------------------------------------------------------
Limited(p) == ~recent[p] /\ tokens[p] >= SemSize
(* DialContext up to the dial: a token while failing. *)
DialBegin(p) == tokens' = [tokens EXCEPT ![p] = IF recent[p] THEN @ ELSE @ + 1]
(* Fault: only a dial that succeeds gives its token back. *)
DialEndLeaks(p, token) ==
  /\ alive' = [alive EXCEPT ![p] = server[p] # "down"]
  /\ recent' = [recent EXCEPT ![p] = @ \/ server[p] # "down"]
  /\ tokens' = [tokens EXCEPT ![p] = IF token /\ server[p] # "down" THEN @ - 1 ELSE @]
(* DialContext after it. *)
DialEnd(p, token) ==
  /\ alive' = [alive EXCEPT ![p] = server[p] # "down"]
  /\ recent' = [recent EXCEPT ![p] = @ \/ server[p] # "down"]
  /\ tokens' = [tokens EXCEPT ![p] = IF token THEN @ - 1 ELSE @]

(* A connection through p, by way of ProxiesWithTouch: ErrRateLimit, or a dial. *)
FlowDials(f, p) ==
  /\ flow[f] = Resting
  /\ hc' = [hc EXCEPT !.touched = TRUE]
  /\ IF Limited(p) THEN UNCHANGED <<flow, tokens>>
     ELSE DialBegin(p) /\ flow' = [flow EXCEPT ![f] = [p |-> p, token |-> ~recent[p]]]
  /\ UNCHANGED <<server, alive, recent, history, tester, changes>>
FlowDialled(f) ==
  /\ flow[f] # Resting
  /\ DialEnd(flow[f].p, flow[f].token)
  /\ flow' = [flow EXCEPT ![f] = Resting]
  /\ UNCHANGED <<server, history, tester, hc, changes>>

-----------------------------------------------------------------------------
(* URLTest after its requests: the flag, and a delay unless no request counted. *)
Tested(p, ok) ==
  /\ alive' = [alive EXCEPT ![p] = ok]
  /\ history' = [history EXCEPT ![p] = LET h == Append(@, IF ok THEN 1 ELSE 0)
                                       IN  IF Len(h) > HistoryMax THEN Tail(h) ELSE h]
(* Batch.Go: a probe starts when one of the batch's tokens is free. *)
Go(t) ==
  /\ tester[t].at = "queued"
  /\ Cardinality({u \in {t[1]} \X Members : tester[u].at \in {"try", "dials"}}) < Concurrency
  /\ tester' = [tester EXCEPT ![t].at = "try"]
  /\ UNCHANGED <<server, alive, recent, tokens, history, flow, hc, changes>>
(* One step of URLTest: Probes requests over one connection, dialled again *)
(* after a failure; the first, and one answered within a millisecond,      *)
(* count for nothing.                                                      *)
URLTest(t) ==
  LET me == tester[t]
      p  == t[2]
      Goes(r)  == tester' = [tester EXCEPT ![t] = r]
      Asked(c, v) == Goes([me EXCEPT !.at = "try", !.i = @ + 1, !.conn = c, !.valid = v, !.token = FALSE])
  IN  /\ \/ /\ me.at = "try" /\ me.i = Probes
            /\ Tested(p, me.valid) /\ Goes(Untested)
            /\ UNCHANGED <<recent, tokens>>
         \/ /\ me.at = "try" /\ me.i < Probes /\ me.conn
            /\ Asked(server[p] # "down", me.valid \/ (server[p] = "far" /\ me.i > 0))
            /\ UNCHANGED <<alive, recent, tokens, history>>
         \/ /\ me.at = "try" /\ me.i < Probes /\ ~me.conn
            /\ IF Limited(p) THEN Asked(FALSE, me.valid) /\ UNCHANGED tokens
               ELSE DialBegin(p) /\ Goes([me EXCEPT !.at = "dials", !.token = ~recent[p]])
            /\ UNCHANGED <<alive, recent, history>>
         \/ /\ me.at = "dials"
            /\ DialEnd(p, me.token)
            /\ IF server[p] # "down" THEN Goes([me EXCEPT !.at = "try", !.conn = TRUE, !.token = FALSE])
               ELSE Asked(FALSE, me.valid)
            /\ UNCHANGED history
      /\ UNCHANGED <<server, flow, hc, changes>>

Probe(t) == Go(t) \/ URLTest(t)

(* HealthCheck.process: a tick starts a check unless lazy and untouched;   *)
(* b.Wait lasts until no probe of it is left; done ends the loop between   *)
(* checks.                                                                 *)
Tick ==
  /\ ~hc.closed /\ ~hc.checking /\ (hc.lazy => hc.touched)
  /\ hc' = [hc EXCEPT !.checking = TRUE]
  /\ tester' = [t \in DOMAIN tester |-> IF t[1] = "tick" THEN Queued ELSE tester[t]]
  /\ UNCHANGED <<server, alive, recent, tokens, history, flow, changes>>
CheckEnds ==
  /\ hc.checking /\ \A p \in Members : tester[<<"tick", p>>].at = "no"
  /\ hc' = [hc EXCEPT !.checking = FALSE]
  /\ UNCHANGED <<server, alive, recent, tokens, history, flow, tester, changes>>

-----------------------------------------------------------------------------
Elapse ==
  /\ \/ hc.touched /\ hc' = [hc EXCEPT !.touched = FALSE] /\ UNCHANGED recent
     \/ (\E p \in Members : recent[p] /\ recent' = [recent EXCEPT ![p] = FALSE]) /\ UNCHANGED hc
  /\ UNCHANGED <<server, alive, tokens, history, flow, tester, changes>>
ServerChanges(p, s) ==
  /\ changes < MaxChanges /\ changes' = changes + 1
  /\ s # server[p] /\ server' = [server EXCEPT ![p] = s]
  /\ UNCHANGED <<alive, recent, tokens, history, flow, tester, hc>>
(* HealthCheck.close, by the finalizer of the provider. *)
CloseCheck ==
  /\ changes < MaxChanges /\ changes' = changes + 1
  /\ ~hc.closed /\ hc' = [hc EXCEPT !.closed = TRUE]
  /\ UNCHANGED <<server, alive, recent, tokens, history, flow, tester>>

HealthNext ==
  \/ \E f \in Flows : (\E p \in Members : FlowDials(f, p)) \/ FlowDialled(f)
  \/ \E t \in Rounds \X Members : Probe(t)
  \/ Tick \/ CheckEnds \/ Elapse \/ CloseCheck
  \/ \E p \in Members, s \in {"down", "near", "far"} : ServerChanges(p, s)
(* Dials and requests end by their timeouts, and the ticker keeps ticking. *)
HealthFairness ==
  /\ \A f \in Flows : WF_healthVars(FlowDialled(f))
  /\ \A t \in Rounds \X Members : WF_healthVars(Probe(t))
  /\ WF_healthVars(Tick \/ CheckEnds)
HealthSpec == HealthInit /\ [][HealthNext]_healthVars /\ HealthFairness

-----------------------------------------------------------------------------
(* A proxy whose server stays reachable is again and again taken for       *)
(* alive, however often it was rate limited or a late dial marked it dead, *)
(* as long as its health check is neither lazy nor closed.                 *)
UpIsNoticed ==
  \A p \in Members : <>[](server[p] = "far" /\ ~hc.lazy /\ ~hc.closed) => []<>alive[p]
=============================================================================
