--------------------------- MODULE Control_proofs ---------------------------
(* What configurations control, for every value of their constants: the      *)
(* cache of the rule decision (RuleMatch), configurations applied while the  *)
(* program runs, with the sockets of its listeners (Reload), and the names   *)
(* connections are given (DnsNames).                                         *)
EXTENDS RuleMatch, Reload, DnsNames, TLAPS

(***************************************************************************)
(* RuleMatch: the cache of matchHashMap agrees with match.                 *)
(***************************************************************************)
(* Two connections alike in all a rule other than by source port or process  *)
(* looks at.                                                                 *)
Alike(a, b) ==
  /\ a.host = b.host /\ a.atyp = b.atyp /\ a.src = b.src /\ a.dst = b.dst
  /\ a.dport = b.dport /\ a.net = b.net

RuleTypes == {"DOMAIN", "DOMAIN-SUFFIX", "DOMAIN-KEYWORD", "DOMAIN-DST-PORT", "IP-CIDR", "SRC-IP-CIDR",
              "DST-IP-PORT", "DST-PORT", "GEOIP", "ALLIP", "MATCH"}

(* Such a rule tells alike connections not apart (the Match of every type).  *)
LEMMA AlikeMatch ==
  ASSUME NEW r, NEW a, NEW b, Alike(a, b), r.tp \in RuleTypes
  PROVE  RuleMatches(r, a) = RuleMatches(r, b)
<1> USE DEF Alike, RuleTypes
<1>1. CASE r.tp = "DOMAIN"
  BY Zenon, <1>1 DEF RuleMatches, DomainMatch
<1>2. CASE r.tp = "DOMAIN-SUFFIX"
  BY Zenon, <1>2 DEF RuleMatches, DomainSuffixMatch
<1>3. CASE r.tp = "DOMAIN-KEYWORD"
  BY Zenon, <1>3 DEF RuleMatches, DomainKeywordMatch
<1>4. CASE r.tp = "DOMAIN-DST-PORT"
  BY Zenon, <1>4 DEF RuleMatches, DomainAndPortMatch, DomainSuffixMatch, PortMatch, IsSource
<1>5. CASE r.tp \in {"IP-CIDR", "SRC-IP-CIDR", "DST-IP-PORT"}
  BY Zenon, <1>5 DEF RuleMatches, IPCIDRMatch, IsSource
<1>6. CASE r.tp = "DST-PORT"
  BY Zenon, <1>6 DEF RuleMatches, PortMatch, IsSource
<1>7. CASE r.tp = "GEOIP"
  BY Zenon, <1>7 DEF RuleMatches, GEOIPMatch
<1>8. CASE r.tp = "ALLIP"
  BY Zenon, <1>8 DEF RuleMatches, AllIPMatch
<1>9. CASE r.tp = "MATCH"
  BY Zenon, <1>9 DEF RuleMatches
<1>10. QED
  BY Zenon, <1>1, <1>2, <1>3, <1>4, <1>5, <1>6, <1>7, <1>8, <1>9

(* What a rule sees of alike connections, resolved or not, is alike.         *)
LEMMA AlikeSeen ==
  ASSUME NEW a \in Metas, NEW b \in Metas, Alike(a, b), NEW rs, NEW i
  PROVE  Alike(Seen(rs, a, i), Seen(rs, b, i))
<1>1. /\ a = [host |-> a.host, atyp |-> a.atyp, src |-> a.src, dst |-> a.dst, sport |-> a.sport,
              dport |-> a.dport, net |-> a.net, process |-> a.process]
      /\ b = [host |-> b.host, atyp |-> b.atyp, src |-> b.src, dst |-> b.dst, sport |-> b.sport,
              dport |-> b.dport, net |-> b.net, process |-> b.process]
  BY Zenon, MatchAssumption
<1>2. ASSUME NEW x
      PROVE  Alike([a EXCEPT !.dst = x], [b EXCEPT !.dst = x])
  BY Zenon, <1>1 DEF Alike
<1> DEFINE ip(m) == IF m.host # <<>> /\ HostsIp[m.host] # "nil" THEN HostsIp[m.host]
                    ELSE IF \E j \in 1..i : ShouldResolveIP(rs[j]) THEN DnsIp[m.host] ELSE "nil"
           wanted(m) == m.host # <<>> /\ m.dst = "nil"
<1>3. ip(a) = ip(b) /\ (wanted(a) <=> wanted(b))
  BY Zenon DEF Alike
<1>4. \A m : Seen(rs, m, i) = IF wanted(m) THEN [m EXCEPT !.dst = ip(m)] ELSE m
  BY Zenon DEF Seen
<1> HIDE DEF ip, wanted
<1>5. QED
  BY <1>2, <1>3, <1>4

(* Connections with one key get one answer from match, where no rule looks   *)
(* at what the key leaves out (InfoKey).                                     *)
LEMMA SameKeySameMatch ==
  ASSUME NEW rs \in RuleLists, KeyBlind(rs), NEW a \in Metas, NEW b \in Metas, InfoKey(a) = InfoKey(b)
  PROVE  match(rs, a) = match(rs, b)
<1>1. Alike(a, b)
  BY Zenon DEF InfoKey, Alike
<1>2. ASSUME NEW i \in DOMAIN rs
      PROVE  /\ RuleMatches(rs[i], Seen(rs, a, i)) = RuleMatches(rs[i], Seen(rs, b, i))
             /\ Serves(rs[i], a) = Serves(rs[i], b)
  <2>1. rs[i].tp \in RuleTypes
    BY Zenon, MatchAssumption DEF KeyBlind, RuleTypes
  <2>2. Serves(rs[i], a) = Serves(rs[i], b)
    BY Zenon, <1>1 DEF Alike, Serves
  <2>3. QED
    BY Zenon, <1>1, <2>1, <2>2, AlikeSeen, AlikeMatch
<1>3. Hits(rs, a) = Hits(rs, b)
  BY <1>2, Zenon DEF Hits
<1>4. QED
  BY <1>3, SMT DEF match

(* What holds of every entry, beside the property: its rule is the one match *)
(* finds for all connections with its key, its DIRECT that match finds none. *)
IsEntry(e) == e = [rule |-> e.rule, direct |-> e.direct] /\ e.direct \in BOOLEAN
CacheAgrees ==
  /\ ruleList \in RuleLists
  /\ \A k \in DOMAIN cm : IsEntry(cm[k])
  /\ KeyBlind(ruleList) =>
       \A m \in Metas : InfoKey(m) \in DOMAIN cm =>
         LET e == cm[InfoKey(m)]
         IN  /\ e.rule # 0 => match(ruleList, m) = e.rule
             /\ e.direct => match(ruleList, m) = 0
MatchInvariant == CacheAgrees /\ CachedAsMatched

(* A decision agrees with match, and leaves the cache in agreement           *)
(* (matchHashMap).                                                           *)
LEMMA DecisionAgrees ==
  ASSUME MatchInvariant, NEW m \in Metas, matchHashMap(m)
  PROVE  MatchInvariant'
<1> DEFINE k == InfoKey(m)
           e == IF k \in DOMAIN cm THEN cm[k] ELSE [rule |-> 0, direct |-> FALSE]
           ByRule == e.rule # 0 /\ RuleMatches(ruleList[e.rule], m) /\ Serves(ruleList[e.rule], m)
           d == IF ByRule THEN e.rule ELSE IF e.direct THEN 0 ELSE match(ruleList, m)
           n == IF d # 0 THEN [e EXCEPT !.rule = d] ELSE [e EXCEPT !.direct = TRUE]
<1>1. /\ decided' = [meta |-> m, rule |-> d]
      /\ cm' = [x \in DOMAIN cm \cup {k} |-> IF x = k THEN n ELSE cm[x]]
      /\ ruleList' = ruleList
  BY Zenon DEF matchHashMap
<1>2. e = [rule |-> e.rule, direct |-> e.direct] /\ e.direct \in BOOLEAN
  BY Zenon DEF MatchInvariant, CacheAgrees, IsEntry
<1>3. KeyBlind(ruleList) => /\ e.rule # 0 => match(ruleList, m) = e.rule
                            /\ e.direct => match(ruleList, m) = 0
  BY Zenon DEF MatchInvariant, CacheAgrees
<1> HIDE DEF e
<1>4. KeyBlind(ruleList) => d = match(ruleList, m)
  BY Zenon, <1>3
<1>5. CachedAsMatched'
  <2>1. decided'.meta = m /\ decided'.rule = d
    BY Zenon, <1>1
  <2>2. QED
    BY <1>1, <1>4, <2>1, Zenon DEF CachedAsMatched
<1> HIDE DEF d
<1>6. /\ IsEntry(n)
      /\ n.rule # 0 => n.rule = d \/ n.rule = e.rule
      /\ n.direct => d = 0 \/ e.direct
  BY Zenon, <1>2 DEF IsEntry
<1> HIDE DEF n
<1>7. DOMAIN cm' = DOMAIN cm \cup {k} /\ \A x \in DOMAIN cm' : cm'[x] = IF x = k THEN n ELSE cm[x]
  BY Zenon, <1>1
<1>8. \A x \in DOMAIN cm' : IsEntry(cm'[x])
  BY Zenon, <1>6, <1>7 DEF MatchInvariant, CacheAgrees
<1>9. ASSUME KeyBlind(ruleList), NEW o \in Metas, InfoKey(o) \in DOMAIN cm'
      PROVE  /\ cm'[InfoKey(o)].rule # 0 => match(ruleList, o) = cm'[InfoKey(o)].rule
             /\ cm'[InfoKey(o)].direct => match(ruleList, o) = 0
  <2>1. CASE InfoKey(o) = k
    <3>1. match(ruleList, o) = match(ruleList, m)
      BY Zenon, <1>9, <2>1, SameKeySameMatch DEF MatchInvariant, CacheAgrees
    <3>2. cm'[InfoKey(o)] = n
      BY Zenon, <1>7, <1>9, <2>1
    <3>3. QED
      BY Zenon, <1>3, <1>4, <1>6, <1>9, <3>1, <3>2
  <2>2. CASE InfoKey(o) # k
    BY Zenon, <1>7, <1>9, <2>2 DEF MatchInvariant, CacheAgrees
  <2>3. QED
    BY Zenon, <2>1, <2>2
<1>10. CacheAgrees'
  BY Zenon, <1>1, <1>8, <1>9 DEF MatchInvariant, CacheAgrees
<1>11. QED
  BY Zenon, <1>5, <1>10 DEF MatchInvariant

(* Where no rule looks at the source port or the process, a connection       *)
(* served from the cache goes where match would send it, for every list of   *)
(* rules, replaced at any time (matchHashMap, UpdateRules).                  *)
THEOREM CacheServesMatches == MatchSpec => []CachedAsMatched
<1>1. MatchInit => MatchInvariant
  BY DEF MatchInit, MatchInvariant, CacheAgrees, CachedAsMatched
<1>2. MatchInvariant /\ [MatchNext]_matchVars => MatchInvariant'
  <2> SUFFICES ASSUME MatchInvariant, [MatchNext]_matchVars
               PROVE  MatchInvariant'
    BY Zenon
  <2>1. CASE \E m \in Metas : matchHashMap(m)
    BY Zenon, <2>1, DecisionAgrees
  <2>2. ASSUME NEW rs \in RuleLists, UpdateRuleList(rs)
        PROVE  MatchInvariant'
    BY <2>2 DEF UpdateRuleList, MatchInvariant, CacheAgrees, CachedAsMatched
  <2>3. CASE UNCHANGED matchVars
    BY Zenon, <2>3 DEF matchVars, MatchInvariant, CacheAgrees, CachedAsMatched
  <2>4. QED
    BY Zenon, <2>1, <2>2, <2>3 DEF MatchNext
<1>3. MatchInvariant => CachedAsMatched
  BY Zenon DEF MatchInvariant
<1>4. QED
  BY <1>1, <1>2, <1>3, PTL DEF MatchSpec

(***************************************************************************)
(* Reload: configurations are applied one at a time.                       *)
(***************************************************************************)
(* What a part runs once its step of ApplyConfig is done.                    *)
Wanted(part, p) == IF part = "resolver" /\ ~p.dns THEN "nil" ELSE p.id
(* The parts done when the next step is the i-th.                            *)
DoneBefore(i) == {part \in Parts : \E j \in 1..13 : j < i /\ PutSteps[j] = part}

IsActor(x)  == x = [at |-> x.at, plan |-> x.plan, ports |-> x.ports] /\ x.at \in Nat
IsServer(d) == d = [port |-> d.port, handler |-> d.handler, sock |-> d.sock, active |-> d.active] /\ d.sock \in BOOLEAN

ReloadShapes ==
  /\ actor = [a \in Puts \cup Patches |-> actor[a]]
  /\ \A a \in Puts \cup Patches : IsActor(actor[a])
  /\ gen = [q \in Parts |-> gen[q]]
  /\ IsServer(dnsServer)
(* The mutex is held by the PUT that is under way, and by nobody else.       *)
Exclusive ==
  /\ mux \in Puts \cup {"free"}
  /\ \A a \in Puts : IF mux = a THEN actor[a].at \in 1..13 ELSE actor[a].at = 0
(* What it has done so far is its own plan's.                                *)
OwnPlan ==
  \A a \in Puts : mux = a =>
    \A part \in DoneBefore(actor[a].at) : gen[part] = Wanted(part, actor[a].plan)
ConfigurationInvariant == ReloadShapes /\ Exclusive /\ OwnPlan /\ OneConfiguration

(* An actor that goes on to step n keeps its plan.                         *)
LEMMA ActorMoves ==
  ASSUME NEW y, IsActor(y), NEW n \in Nat
  PROVE  IsActor([y EXCEPT !.at = n]) /\ [y EXCEPT !.at = n].at = n /\ [y EXCEPT !.at = n].plan = y.plan
BY DEF IsActor

(* A server that is given a handler keeps its socket.                      *)
LEMMA ServerTakes ==
  ASSUME NEW d, IsServer(d), NEW id
  PROVE  LET z == [d EXCEPT !.handler = id] IN IsServer(z) /\ z.sock = d.sock /\ z.handler = id
BY DEF IsServer

(* Before the first step of PUT no part is done, before the last all are.  *)
LEMMA AllDone ==
  /\ DoneBefore(1) = {}
  /\ DoneBefore(13) = Parts
  /\ DoneBefore(12) \subseteq Parts \ {"resolver"}
BY DEF DoneBefore, Parts, PutSteps

(* Each step of PUT does at most the part it is named for.                 *)
LEMMA OneMoreDone ==
  ASSUME NEW i \in 1..12
  PROVE  DoneBefore(i + 1) \subseteq DoneBefore(i) \cup {PutSteps[i]}
<1>1. \A j \in 1..13 : j < i + 1 => j < i \/ j = i
  OBVIOUS
<1>2. QED
  BY Zenon, <1>1 DEF DoneBefore

(* The steps skipped without force are those of the listeners.               *)
LEMMA SkippedDone == DoneBefore(12) \subseteq DoneBefore(6) \cup {"general"}
BY DEF DoneBefore, Parts, PutSteps

(* An actor changes in a way that keeps the shapes.                          *)
LEMMA ActorSet ==
  ASSUME ReloadShapes, NEW a \in Puts \cup Patches, NEW x, IsActor(x), actor' = [actor EXCEPT ![a] = x]
  PROVE  /\ actor' = [b \in Puts \cup Patches |-> actor'[b]]
         /\ \A b \in Puts \cup Patches : IsActor(actor'[b])
         /\ actor'[a] = x
         /\ \A b \in Puts \cup Patches : b # a => actor'[b] = actor[b]
<1>1. /\ actor' = [b \in Puts \cup Patches |-> actor'[b]] /\ actor'[a] = x
      /\ \A b \in Puts \cup Patches : b # a => actor'[b] = actor[b]
  BY Zenon DEF ReloadShapes
<1>2. QED
  BY Zenon, <1>1 DEF ReloadShapes

(* Steps of PATCH, and what else leaves ApplyConfig's state alone.           *)
LEMMA OthersKeep ==
  ASSUME ConfigurationInvariant, NEW a \in Patches, NEW x, IsActor(x),
         actor' = [actor EXCEPT ![a] = x], UNCHANGED <<mux, gen, dnsServer>>
  PROVE  ConfigurationInvariant'
<1> USE DEF ConfigurationInvariant
<1>1. ReloadShapes' /\ \A b \in Puts : actor'[b] = actor[b]
  BY Zenon, ReloadAssumption, ActorSet DEF ReloadShapes
<1>2. Exclusive'
  BY Zenon, <1>1 DEF Exclusive
<1>3. OwnPlan'
  BY <1>1 DEF OwnPlan
<1>4. OneConfiguration'
  BY Zenon DEF OneConfiguration
<1>5. QED
  BY Zenon, <1>1, <1>2, <1>3, <1>4

(* The step of PUT that a takes to the place x, the mutex staying with it.   *)
LEMMA HolderSteps ==
  ASSUME ConfigurationInvariant, NEW a \in Puts, NEW x, IsActor(x), x.at \in 1..13,
         mux = a \/ mux = "free", mux' = a,
         actor' = [actor EXCEPT ![a] = x], gen' = [q \in Parts |-> gen'[q]],
         \A part \in DoneBefore(x.at) : gen'[part] = Wanted(part, x.plan),
         UNCHANGED dnsServer
  PROVE  ConfigurationInvariant'
<1> USE DEF ConfigurationInvariant
<1>1. /\ ReloadShapes' /\ actor'[a] = x
      /\ \A b \in Puts : b # a => actor'[b] = actor[b]
  BY Zenon, ActorSet DEF ReloadShapes
<1>2. \A b \in Puts : b # a => actor'[b].at = 0
  BY Zenon, <1>1, ReloadAssumption DEF Exclusive
<1>3. Exclusive'
  BY Zenon, <1>1, <1>2 DEF Exclusive
<1>4. OwnPlan'
  BY Zenon, <1>1 DEF OwnPlan
<1>5. OneConfiguration'
  BY Zenon, ReloadAssumption DEF OneConfiguration
<1>6. QED
  BY Zenon, <1>1, <1>3, <1>4, <1>5

(* A step of PUT keeps the invariant of configurations.                    *)
LEMMA PutStepKeeps ==
  ASSUME ConfigurationInvariant, NEW a \in Puts, PutStep(a)
  PROVE  ConfigurationInvariant'
<1> DEFINE me   == actor[a]
           i    == me.at
           step == PutSteps[i]
           p    == me.plan
           next == IF step = "general" /\ ~p.force THEN 12 ELSE i + 1
           x    == [me EXCEPT !.at = next]
<1>1. /\ i > 0
      /\ actor' = [actor EXCEPT ![a] = IF step = "dns" THEN Idling ELSE x]
      /\ mux' = IF step = "dns" THEN "free" ELSE mux
      /\ gen' = IF step \in Parts THEN [gen EXCEPT ![step] = Wanted(step, p)] ELSE gen
      /\ IF step = "dns" THEN ReCreateServer(IF p.dns THEN p.listen ELSE 0, IF p.dns THEN p.id ELSE "none")
                         ELSE UNCHANGED <<dnsServer, waking>>
  BY Zenon DEF PutStep, Wanted
<1>2. mux = a /\ i \in 1..13 /\ a # "free"
  BY <1>1, ReloadAssumption DEF ConfigurationInvariant, Exclusive
<1>3. IsActor(me)
  BY Zenon DEF ConfigurationInvariant, ReloadShapes
<1>4. \A part \in DoneBefore(i) : gen[part] = Wanted(part, p)
  BY Zenon, <1>2 DEF ConfigurationInvariant, OwnPlan
<1>5. gen' = [q \in Parts |-> gen'[q]] /\ \A q \in Parts : gen'[q] = IF q = step THEN Wanted(step, p) ELSE gen[q]
  BY Zenon, <1>1 DEF ConfigurationInvariant, ReloadShapes
<1> HIDE DEF me, i, p
<1>6. CASE i # 13
  <2>1. step # "dns" /\ i \in 1..12 /\ (step = "general" => i = 6)
    BY <1>2, <1>6 DEF PutSteps
  <2>2. next \in 1..13
    BY <2>1
  <2>3. DoneBefore(next) \subseteq DoneBefore(i) \cup {step}
    BY Zenon, <2>1, OneMoreDone, SkippedDone
  <2> HIDE DEF next
  <2>4. IsActor(x) /\ x.at = next /\ x.plan = p
    <3>1. next \in Nat
      BY <2>2
    <3>2. QED
      BY Zenon, <1>3, <3>1, ActorMoves DEF p
  <2> HIDE DEF x, step
  <2>5. actor' = [actor EXCEPT ![a] = x] /\ mux' = a /\ UNCHANGED dnsServer
    BY Zenon, <1>1, <1>2, <2>1
  <2>6. \A part \in DoneBefore(next) : part \in Parts
    BY Zenon DEF DoneBefore
  <2>7. \A part \in DoneBefore(x.at) : gen'[part] = Wanted(part, x.plan)
    BY Zenon, <1>4, <1>5, <2>3, <2>4, <2>6
  <2>8. QED
    BY Zenon, <1>2, <1>5, <2>2, <2>4, <2>5, <2>7, HolderSteps
<1>7. CASE i = 13
  <2>1. step = "dns" /\ step \notin Parts
    BY Zenon, <1>7 DEF PutSteps, Parts
  <2> HIDE DEF step, x, next
  <2>2. actor' = [actor EXCEPT ![a] = Idling] /\ mux' = "free" /\ gen' = gen
    BY Zenon, <1>1, <2>1
  <2>3. \A part \in Parts : gen'[part] = Wanted(part, p)
    BY Zenon, <1>4, <1>7, <2>2, AllDone
  <2> DEFINE port == IF p.dns THEN p.listen ELSE 0
             id   == IF p.dns THEN p.id ELSE "none"
  <2>4. \/ id # "none" /\ dnsServer' = [dnsServer EXCEPT !.handler = id]
        \/ dnsServer' = IF dnsServer.sock THEN NoDns ELSE dnsServer
        \/ port # 0 /\ dnsServer' = [port |-> port, handler |-> id, sock |-> TRUE, active |-> FALSE]
    BY <1>1, <2>1, ZenonT(30) DEF ReCreateServer
  <2>5. (id # "none" \/ port # 0) => id = Wanted("resolver", p)
    <3>1. CASE p.dns
      BY Zenon, <3>1 DEF Wanted
    <3>2. CASE ~p.dns
      BY Zenon, <3>2 DEF Wanted
    <3>3. QED
      BY Zenon, <3>1, <3>2
  <2> HIDE DEF id, port
  <2>6. IsServer(dnsServer') /\ (dnsServer'.sock => dnsServer'.handler = Wanted("resolver", p))
    <3>1. IsServer(dnsServer)
      BY Zenon DEF ConfigurationInvariant, ReloadShapes
    <3>2. CASE id # "none" /\ dnsServer' = [dnsServer EXCEPT !.handler = id]
      BY Zenon, <2>5, <3>1, <3>2, ServerTakes
    <3>3. CASE dnsServer' = IF dnsServer.sock THEN NoDns ELSE dnsServer
      BY Zenon, <3>1, <3>3 DEF NoDns, IsServer
    <3>4. CASE port # 0 /\ dnsServer' = [port |-> port, handler |-> id, sock |-> TRUE, active |-> FALSE]
      BY Zenon, <2>5, <3>4 DEF IsServer
    <3>5. QED
      BY Zenon, <2>4, <3>2, <3>3, <3>4
  <2>7. OneConfiguration'
    <3>1. \A q \in Parts \ {"resolver"} : Wanted(q, p) = p.id
      BY Zenon DEF Wanted
    <3>2. Wanted("resolver", p) \in {p.id, "nil"}
      BY Zenon DEF Wanted
    <3>3. "resolver" \in Parts /\ "rules" \in Parts \ {"resolver"}
      BY Zenon DEF Parts
    <3>4. QED
      BY Zenon, <2>3, <2>6, <3>1, <3>2, <3>3 DEF OneConfiguration
  <2>8. ReloadShapes' /\ \A b \in Puts : actor'[b].at = 0
    <3>1. IsActor(Idling) /\ Idling.at = 0
      BY Zenon DEF Idling, IsActor
    <3>2. /\ actor' = [b \in Puts \cup Patches |-> actor'[b]]
          /\ \A b \in Puts \cup Patches : IsActor(actor'[b])
          /\ actor'[a] = Idling
          /\ \A b \in Puts : b # a => actor'[b] = actor[b]
      BY Zenon, <2>2, <3>1, ActorSet DEF ConfigurationInvariant
    <3>3. \A b \in Puts : b # a => actor[b].at = 0
      BY Zenon, <1>2 DEF ConfigurationInvariant, Exclusive
    <3>4. QED
      BY Zenon, <1>5, <2>6, <3>1, <3>2, <3>3 DEF ReloadShapes
  <2>9. Exclusive' /\ OwnPlan'
    BY Zenon, <2>2, <2>8, ReloadAssumption DEF Exclusive, OwnPlan
  <2>10. QED
    BY Zenon, <2>7, <2>8, <2>9 DEF ConfigurationInvariant
<1>8. QED
  BY Zenon, <1>6, <1>7

(* Whatever steps interleave, the mutex, the plan under way and the parts    *)
(* done agree.                                                               *)
LEMMA ReloadInvariant == ReloadSpec => []ConfigurationInvariant
<1>1. ReloadInit => ConfigurationInvariant
  <2> SUFFICES ASSUME ReloadInit PROVE ConfigurationInvariant
    BY Zenon
  <2>1. OneConfiguration
    BY Zenon DEF ReloadInit, OneConfiguration, Parts, NoDns
  <2>2. ReloadShapes
    BY Zenon DEF ReloadInit, ReloadShapes, IsActor, IsServer, Idling, NoDns
  <2>3. Exclusive /\ OwnPlan
    BY Zenon, ReloadAssumption DEF ReloadInit, Exclusive, OwnPlan, Idling
  <2>4. QED
    BY Zenon, <2>1, <2>2, <2>3 DEF ConfigurationInvariant
<1>2. ConfigurationInvariant /\ [ReloadNext]_reloadVars => ConfigurationInvariant'
  <2> SUFFICES ASSUME ConfigurationInvariant, [ReloadNext]_reloadVars
               PROVE  ConfigurationInvariant'
    BY Zenon
  <2>1. ASSUME NEW a \in Puts, PutStep(a)
        PROVE  ConfigurationInvariant'
    BY Zenon, <2>1, PutStepKeeps
  <2>2. ASSUME NEW a \in Patches, PatchStep(a)
        PROVE  ConfigurationInvariant'
    <3> DEFINE me   == actor[a]
               read == IF PatchSteps[me.at] = "ports" THEN GetPorts(me.plan) ELSE me.ports
               x    == IF me.at = Len(PatchSteps) THEN Idling ELSE [at |-> me.at + 1, plan |-> me.plan, ports |-> read]
    <3>1. actor' = [actor EXCEPT ![a] = x] /\ UNCHANGED <<mux, gen, dnsServer>>
      BY <2>2, Zenon DEF PatchStep
    <3>2. IsActor(me) /\ IsActor(Idling)
      BY Zenon DEF ConfigurationInvariant, ReloadShapes, IsActor, Idling
    <3> HIDE DEF me, read
    <3>3. IsActor(x)
      <4>1. me.at + 1 \in Nat
        BY <3>2 DEF IsActor
      <4>2. QED
        BY Zenon, <3>2, <4>1 DEF IsActor
    <3> HIDE DEF x
    <3>4. QED
      BY Zenon, <3>1, <3>3, OthersKeep
  <2>3. CASE ActivateAndServe
    <3>1. dnsServer' = [dnsServer EXCEPT !.active = @ \/ dnsServer.sock] /\ UNCHANGED <<actor, mux, gen>>
      BY Zenon, <2>3 DEF ActivateAndServe
    <3>2. IsServer(dnsServer') /\ dnsServer'.sock = dnsServer.sock /\ dnsServer'.handler = dnsServer.handler
      BY Zenon, <3>1 DEF ConfigurationInvariant, ReloadShapes, IsServer
    <3>3. QED
      BY Zenon, <3>1, <3>2 DEF ConfigurationInvariant, ReloadShapes, Exclusive, OwnPlan, OneConfiguration
  <2>4. ASSUME NEW a \in Puts, NEW p \in Plans, Begin(a, p)
        PROVE  ConfigurationInvariant'
    <3> DEFINE x == [at |-> 1, plan |-> p, ports |-> <<>>]
    <3>1. actor' = [actor EXCEPT ![a] = x] /\ mux = "free" /\ mux' = a /\ UNCHANGED <<gen, dnsServer>>
      BY Zenon, <2>4 DEF Begin, Lock
    <3>2. IsActor(x) /\ x.at = 1 /\ x.at \in 1..13
      BY DEF IsActor
    <3> HIDE DEF x
    <3>3. gen' = [q \in Parts |-> gen'[q]]
      BY Zenon, <3>1 DEF ConfigurationInvariant, ReloadShapes
    <3>4. \A part \in DoneBefore(x.at) : gen'[part] = Wanted(part, x.plan)
      BY Zenon, <3>2, AllDone
    <3>5. QED
      BY Zenon, <3>1, <3>2, <3>3, <3>4, HolderSteps
  <2>5. ASSUME NEW a \in Patches, NEW p \in PatchPlans, Begin(a, p)
        PROVE  ConfigurationInvariant'
    <3> DEFINE x == [at |-> 1, plan |-> p, ports |-> <<>>]
    <3>1. actor' = [actor EXCEPT ![a] = x] /\ UNCHANGED <<mux, gen, dnsServer>>
      BY Zenon, <2>5, ReloadAssumption DEF Begin
    <3>2. IsActor(x)
      BY Zenon DEF IsActor
    <3> HIDE DEF x
    <3>3. QED
      BY Zenon, <3>1, <3>2, OthersKeep
  <2>6. CASE UNCHANGED reloadVars
    BY Zenon, <2>6 DEF reloadVars, ConfigurationInvariant, ReloadShapes, Exclusive, OwnPlan, OneConfiguration
  <2>7. QED
    BY Zenon, <2>1, <2>2, <2>3, <2>4, <2>5, <2>6 DEF ReloadNext, ReloadStep
<1>3. QED
  BY <1>1, <1>2, PTL DEF ReloadSpec

(* Configurations applied at the same time do not mix, for any number of     *)
(* PUTs and PATCHes and any configurations: when none is being applied every *)
(* part runs the one applied last (ApplyConfig under executor.mux).          *)
THEOREM ConfigurationsDoNotMix == ReloadSpec => []OneConfiguration
<1>1. ConfigurationInvariant => OneConfiguration
  BY Zenon DEF ConfigurationInvariant
<1>2. QED
  BY <1>1, ReloadInvariant, PTL

(***************************************************************************)
(* Reload: the sockets of the listeners.                                   *)
(***************************************************************************)
IsSocket(s) == s = [port |-> s.port, lan |-> s.lan, open |-> s.open] /\ s.open \in BOOLEAN

SocketShapes ==
  /\ tcp = [k \in Kind |-> tcp[k]] /\ udp = [k \in Kind |-> udp[k]]
  /\ asked = [k \in Kind |-> asked[k]]
  /\ \A k \in Kind : IsSocket(tcp[k]) /\ IsSocket(udp[k])

(* A listener variable is nil or refers to an open socket, but for the TCP   *)
(* listener that ReCreateMixed closes and keeps; no socket is at port 0.     *)
SocketKept(k, t, u) ==
  /\ u = NoSocket \/ u.open
  /\ k # "mixed" => t = NoSocket \/ t.open
  /\ t.open => t.port # 0

(* What ListensWhereAsked says of one listener, but for others' sockets.     *)
AsAsked(k, t, u, w) ==
  /\ u.open => u = t
  /\ w.open => t = w /\ (k \in {"socks", "mixed"} => u = w)
  /\ w = NoSocket => ~t.open /\ ~u.open

(* Port is lost, or taken by another listener's socket or the DNS server.    *)
TcpTaken(l, t, port, k) ==
  <<"tcp", port>> \in l \/ \E j \in Kind \ {k} : t[j].open /\ t[j].port = port
UdpTaken(l, u, d, port, k) ==
  \/ <<"udp", port>> \in l
  \/ \E j \in Kind \ {k} : u[j].open /\ u[j].port = port
  \/ d.sock /\ d.port = port

SocketInvariant ==
  /\ SocketShapes
  /\ \A k \in Kind : SocketKept(k, tcp[k], udp[k])
  /\ \A k \in Kind : AsAsked(k, tcp[k], udp[k], asked[k])
  /\ \A k \in Kind : tcp[k].open => ~TcpTaken(lost, tcp, tcp[k].port, k)
  /\ \A k \in Kind : udp[k].open => ~UdpTaken(lost, udp, dnsServer, udp[k].port, k)

(* Taken, for each of the two protocols.                                   *)
LEMMA TakenByProtocol ==
  ASSUME NEW port, NEW k
  PROVE  /\ Taken("tcp", port, k) <=> TcpTaken(lost, tcp, port, k)
         /\ Taken("udp", port, k) <=> UdpTaken(lost, udp, dnsServer, port, k)
<1>1. "tcp" # "udp"
  BY Zenon
<1>2. QED
  BY <1>1, Zenon DEF Taken, TcpTaken, UdpTaken

(* A listener gets sockets t and u, and some sockets more are lost: all is   *)
(* well if these are nobody else's.                                          *)
LEMMA ListenerChanges ==
  ASSUME SocketInvariant, NEW k \in Kind, NEW t, NEW u, NEW w, NEW more,
         tcp' = [tcp EXCEPT ![k] = t], udp' = [udp EXCEPT ![k] = u],
         asked' = [asked EXCEPT ![k] = w], lost' = lost \cup more, dnsServer' = dnsServer,
         IsSocket(t), IsSocket(u), SocketKept(k, t, u), AsAsked(k, t, u, w),
         t.open => ~TcpTaken(lost, tcp, t.port, k) /\ <<"tcp", t.port>> \notin more,
         u.open => ~UdpTaken(lost, udp, dnsServer, u.port, k) /\ <<"udp", u.port>> \notin more,
         \A j \in Kind \ {k} : tcp[j].open => <<"tcp", tcp[j].port>> \notin more,
         \A j \in Kind \ {k} : udp[j].open => <<"udp", udp[j].port>> \notin more
  PROVE  SocketInvariant'
<1>1. /\ tcp'[k] = t /\ udp'[k] = u /\ asked'[k] = w
      /\ \A j \in Kind \ {k} : tcp'[j] = tcp[j] /\ udp'[j] = udp[j] /\ asked'[j] = asked[j]
  BY Zenon DEF SocketInvariant, SocketShapes
<1>2. SocketShapes'
  <2>1. /\ tcp' = [j \in Kind |-> tcp'[j]] /\ udp' = [j \in Kind |-> udp'[j]]
        /\ asked' = [j \in Kind |-> asked'[j]]
    BY Zenon DEF SocketInvariant, SocketShapes
  <2>2. \A j \in Kind : IsSocket(tcp'[j]) /\ IsSocket(udp'[j])
    BY Zenon, <1>1 DEF SocketInvariant, SocketShapes
  <2>3. QED
    BY Zenon, <2>1, <2>2 DEF SocketShapes
<1>3. \A j \in Kind : SocketKept(j, tcp'[j], udp'[j]) /\ AsAsked(j, tcp'[j], udp'[j], asked'[j])
  BY Zenon, <1>1 DEF SocketInvariant
<1>4. ASSUME NEW j \in Kind, tcp'[j].open
      PROVE  ~TcpTaken(lost', tcp', tcp'[j].port, j)
  <2> DEFINE port == tcp'[j].port
  <2>0. ASSUME j # k
        PROVE  /\ tcp'[j] = tcp[j] /\ tcp[j].open /\ port = tcp[j].port
               /\ ~TcpTaken(lost, tcp, tcp[j].port, j) /\ <<"tcp", tcp[j].port>> \notin more
    <3>1. tcp'[j] = tcp[j]
      BY Zenon, <1>1, <2>0
    <3>2. tcp[j].open /\ port = tcp[j].port
      BY <1>4, <3>1, Zenon
    <3>3. ~TcpTaken(lost, tcp, tcp[j].port, j) /\ <<"tcp", tcp[j].port>> \notin more
      BY Zenon, <2>0, <3>2 DEF SocketInvariant
    <3>4. QED
      BY Zenon, <3>1, <3>2, <3>3
  <2>1. <<"tcp", port>> \notin lost'
    <3>1. CASE j = k
      BY <1>1, <1>4, <3>1 DEF TcpTaken
    <3>2. CASE j # k
      BY <2>0, <3>2 DEF TcpTaken
    <3>3. QED
      BY Zenon, <3>1, <3>2
  <2>2. ASSUME NEW i \in Kind \ {j}, tcp'[i].open
        PROVE  tcp'[i].port # port
    <3>1. CASE j = k
      BY Zenon, <1>1, <1>4, <2>2, <3>1 DEF TcpTaken
    <3>2. CASE i = k
      BY <1>1, <1>4, <2>0, <2>2, <3>2 DEF TcpTaken
    <3>3. CASE i # k /\ j # k
      <4>1. tcp'[i] = tcp[i]
        BY Zenon, <1>1, <3>3
      <4>2. tcp[i].open
        BY <2>2, <4>1, Zenon
      <4>3. tcp[i].port # port
        BY Zenon, <2>0, <3>3, <4>2 DEF TcpTaken
      <4>4. QED
        BY <4>1, <4>3, Zenon
    <3>4. QED
      BY Zenon, <3>1, <3>2, <3>3
  <2>3. QED
    BY Zenon, <2>1, <2>2 DEF TcpTaken
<1>5. ASSUME NEW j \in Kind, udp'[j].open
      PROVE  ~UdpTaken(lost', udp', dnsServer', udp'[j].port, j)
  <2> DEFINE port == udp'[j].port
  <2>0. ASSUME j # k
        PROVE  /\ udp'[j] = udp[j] /\ udp[j].open /\ port = udp[j].port
               /\ ~UdpTaken(lost, udp, dnsServer, udp[j].port, j) /\ <<"udp", udp[j].port>> \notin more
    <3>1. udp'[j] = udp[j]
      BY Zenon, <1>1, <2>0
    <3>2. udp[j].open /\ port = udp[j].port
      BY <1>5, <3>1, Zenon
    <3>3. ~UdpTaken(lost, udp, dnsServer, udp[j].port, j) /\ <<"udp", udp[j].port>> \notin more
      BY Zenon, <2>0, <3>2 DEF SocketInvariant
    <3>4. QED
      BY Zenon, <3>1, <3>2, <3>3
  <2>1. <<"udp", port>> \notin lost' /\ ~(dnsServer'.sock /\ dnsServer'.port = port)
    <3>1. CASE j = k
      BY <1>1, <1>5, <3>1 DEF UdpTaken
    <3>2. CASE j # k
      BY SMTT(40), <2>0, <3>2 DEF UdpTaken
    <3>3. QED
      BY Zenon, <3>1, <3>2
  <2>2. ASSUME NEW i \in Kind \ {j}, udp'[i].open
        PROVE  udp'[i].port # port
    <3>1. CASE j = k
      BY Zenon, <1>1, <1>5, <2>2, <3>1 DEF UdpTaken
    <3>2. CASE i = k
      BY SMTT(40), <1>1, <1>5, <2>0, <2>2, <3>2 DEF UdpTaken
    <3>3. CASE i # k /\ j # k
      <4>1. udp'[i] = udp[i]
        BY Zenon, <1>1, <3>3
      <4>2. udp[i].open
        BY <2>2, <4>1, Zenon
      <4>3. udp[i].port # port
        BY Zenon, <2>0, <3>3, <4>2 DEF UdpTaken
      <4>4. QED
        BY <4>1, <4>3, Zenon
    <3>4. QED
      BY Zenon, <3>1, <3>2, <3>3
  <2>3. QED
    BY Zenon, <2>1, <2>2 DEF UdpTaken
<1>6. QED
  BY Zenon, <1>2, <1>3, <1>4, <1>5 DEF SocketInvariant

Unopened(a) == [a EXCEPT !.open = FALSE]

(* Opening or closing a socket keeps its address.                          *)
LEMMA SocketSet ==
  ASSUME NEW a, IsSocket(a), NEW b \in BOOLEAN
  PROVE  /\ IsSocket([a EXCEPT !.open = b]) /\ [a EXCEPT !.open = b].open = b
         /\ [a EXCEPT !.open = b].port = a.port /\ [a EXCEPT !.open = b].lan = a.lan
  BY DEF IsSocket

(* What genAddr makes of a port, and the nil listener.                     *)
LEMMA Addresses ==
  ASSUME NEW port
  PROVE  /\ IsSocket(genAddr(port)) /\ genAddr(port).open /\ genAddr(port).port = port
         /\ genAddr(port).lan = lan
         /\ IsSocket(Unopened(genAddr(port))) /\ ~Unopened(genAddr(port)).open
         /\ Unopened(genAddr(port)).port = port
         /\ IsSocket(NoSocket) /\ ~NoSocket.open /\ NoSocket.port = 0
         /\ [genAddr(port) EXCEPT !.open = TRUE] = genAddr(port)
<1>1. /\ IsSocket(genAddr(port)) /\ genAddr(port).open /\ genAddr(port).port = port
      /\ genAddr(port).lan = lan
  BY Zenon DEF IsSocket, genAddr
<1>2. IsSocket(Unopened(genAddr(port))) /\ ~Unopened(genAddr(port)).open
      /\ Unopened(genAddr(port)).port = port
  BY Zenon, <1>1, SocketSet DEF Unopened
<1>4. IsSocket(NoSocket) /\ ~NoSocket.open /\ NoSocket.port = 0
  BY Zenon DEF IsSocket, NoSocket
<1>3. [genAddr(port) EXCEPT !.open = TRUE] = genAddr(port)
  <2>1. genAddr(port).open = TRUE
    BY Zenon DEF genAddr
  <2>2. QED
    BY Zenon, <1>1, <2>1, SocketSet DEF IsSocket
<1>5. QED
  BY Zenon, <1>1, <1>2, <1>3, <1>4

(* An outcome other than a refusal is that of a port nobody else has.        *)
LEMMA FreePort ==
  ASSUME NEW port, NEW k, NEW proto, NEW o \in OpenOutcomes(proto, port, k), o # "refused"
  PROVE  ~Taken(proto, port, k)
  BY Zenon DEF OpenOutcomes

(* What the five ReCreate functions have in common, when sockets are opened. *)
LEMMA Created ==
  ASSUME SocketInvariant, NEW k \in Kind, NEW port, port # 0, NEW t, NEW u, NEW w,
         NEW o \in OpenOutcomes("tcp", port, k), NEW v \in OpenOutcomes("udp", port, k),
         \/ t = genAddr(port) /\ o = "opened"
         \/ t = NoSocket
         \/ t = Unopened(genAddr(port)) /\ k = "mixed",
         u = NoSocket \/ (u = genAddr(port) /\ t = u /\ v = "opened"),
         \/ w = Unopened(genAddr(port))
         \/ w = genAddr(port) /\ t = w /\ (k \in {"socks", "mixed"} => u = w),
         tcp' = [tcp EXCEPT ![k] = t], udp' = [udp EXCEPT ![k] = u],
         asked' = [asked EXCEPT ![k] = w], dnsServer' = dnsServer,
         lost' = lost \cup (IF o = "lost" THEN {<<"tcp", port>>} ELSE {})
                      \cup (IF o = "opened" /\ v = "lost" THEN {<<"udp", port>>} ELSE {})
  PROVE  SocketInvariant'
<1> DEFINE more == (IF o = "lost" THEN {<<"tcp", port>>} ELSE {})
                     \cup (IF o = "opened" /\ v = "lost" THEN {<<"udp", port>>} ELSE {})
           a == genAddr(port)
           b == Unopened(a)
<1>1. /\ IsSocket(a) /\ a.open /\ a.port = port
      /\ IsSocket(b) /\ ~b.open /\ b.port = port
      /\ IsSocket(NoSocket) /\ ~NoSocket.open /\ NoSocket.port = 0
  BY Zenon, Addresses
<1> HIDE DEF a, b
<1>2. b # NoSocket /\ a # NoSocket
  BY Zenon, <1>1
<1>3. IsSocket(t) /\ (t.open => t = a /\ o = "opened" /\ t.port = port)
  BY Zenon, <1>1 DEF a, b
<1>4. IsSocket(u) /\ (u.open => u = a /\ u = t /\ v = "opened" /\ u.port = port)
  BY Zenon, <1>1 DEF a, b
<1>5. SocketKept(k, t, u)
  BY Zenon, <1>1, <1>3, <1>4 DEF SocketKept, a, b
<1>6. AsAsked(k, t, u, w)
  BY Zenon, <1>1, <1>2, <1>3, <1>4 DEF AsAsked, a, b
<1>7. /\ o # "refused" => ~TcpTaken(lost, tcp, port, k)
      /\ v # "refused" => ~UdpTaken(lost, udp, dnsServer, port, k)
  BY Zenon, FreePort, TakenByProtocol
<1>8. /\ <<"tcp", port>> \in more => o = "lost"
      /\ <<"udp", port>> \in more => v = "lost"
      /\ \A q : <<"tcp", q>> \in more => q = port /\ o = "lost"
      /\ \A q : <<"udp", q>> \in more => q = port /\ v = "lost"
  BY Zenon
<1>9. lost' = lost \cup more
  BY Zenon
<1> HIDE DEF more
<1>10. t.open => ~TcpTaken(lost, tcp, t.port, k) /\ <<"tcp", t.port>> \notin more
  BY Zenon, <1>3, <1>7, <1>8
<1>11. u.open => ~UdpTaken(lost, udp, dnsServer, u.port, k) /\ <<"udp", u.port>> \notin more
  BY Zenon, <1>4, <1>7, <1>8
<1>12. \A j \in Kind \ {k} : tcp[j].open => <<"tcp", tcp[j].port>> \notin more
  BY Zenon, <1>7, <1>8 DEF TcpTaken
<1>13. \A j \in Kind \ {k} : udp[j].open => <<"udp", udp[j].port>> \notin more
  BY Zenon, <1>7, <1>8 DEF UdpTaken
<1>14. QED
  BY Zenon, <1>3, <1>4, <1>5, <1>6, <1>9, <1>10, <1>11, <1>12, <1>13, ListenerChanges

(* A listener variable is kept as it is at the same address, else closed.    *)
LEMMA KeptSocket ==
  ASSUME NEW s, NEW a
  PROVE  Kept(s, a) = NoSocket \/ (Kept(s, a) = s /\ s.port = a.port /\ s.lan = a.lan)
  BY Zenon DEF Kept

(* The sockets of a listener are right after each of its ReCreates: kept,    *)
(* closed or opened.                                                         *)
LEMMA ReCreateKeeps ==
  ASSUME SocketInvariant, NEW k \in Kind, NEW port, ReCreate(k, port), dnsServer' = dnsServer
  PROVE  SocketInvariant'
<1> DEFINE a    == genAddr(port)
           t    == Kept(tcp[k], a)
           u    == Kept(udp[k], a)
           done == IF k \in {"socks", "mixed"} THEN t # NoSocket /\ u # NoSocket ELSE t # NoSocket
<1>0. /\ IsSocket(tcp[k]) /\ IsSocket(udp[k]) /\ SocketKept(k, tcp[k], udp[k])
      /\ AsAsked(k, tcp[k], udp[k], asked[k])
  BY Zenon DEF SocketInvariant, SocketShapes
<1>1. /\ IsSocket(a) /\ a.open /\ a.port = port /\ a.lan = lan
      /\ IsSocket(NoSocket) /\ ~NoSocket.open /\ NoSocket.port = 0
  BY Zenon, Addresses
<1>2. /\ t = NoSocket \/ (t = tcp[k] /\ tcp[k].port = port /\ tcp[k].lan = lan)
      /\ u = NoSocket \/ (u = udp[k] /\ udp[k].port = port /\ udp[k].lan = lan)
  BY Zenon, <1>1, KeptSocket
<1>3. CASE done
  <2>1. /\ tcp' = [tcp EXCEPT ![k] = t] /\ udp' = [udp EXCEPT ![k] = udp[k]]
        /\ asked' = [asked EXCEPT ![k] = a] /\ lost' = lost
    BY <1>3, Zenon DEF ReCreate
  <2>2. t = tcp[k] /\ tcp[k].port = port /\ tcp[k].lan = lan /\ tcp[k] # NoSocket
    BY Zenon, <1>2, <1>3
  <2>3. k \in {"socks", "mixed"} => udp[k] # NoSocket
    BY Zenon, <1>2, <1>3
  <2>4. tcp[k].open
    BY Zenon, <1>0, <2>2, <2>3 DEF SocketKept, AsAsked
  <2>5. tcp[k] = a
    BY Zenon, <1>0, <2>2, <2>4 DEF IsSocket, genAddr
  <2>6. AsAsked(k, tcp[k], udp[k], a)
    BY Zenon, <1>0, <1>1, <2>3, <2>5 DEF AsAsked, SocketKept
  <2>7. /\ tcp[k].open => ~TcpTaken(lost, tcp, tcp[k].port, k)
        /\ udp[k].open => ~UdpTaken(lost, udp, dnsServer, udp[k].port, k)
    BY Zenon DEF SocketInvariant
  <2> HIDE DEF a, t, u, done
  <2>8. lost' = lost \cup {}
    BY Zenon, <2>1
  <2>9. QED
    BY Zenon, <1>0, <2>1, <2>2, <2>6, <2>7, <2>8, ListenerChanges
<1>4. CASE ~done /\ port = 0
  <2>1. /\ tcp' = [tcp EXCEPT ![k] = t] /\ udp' = [udp EXCEPT ![k] = u]
        /\ asked' = [asked EXCEPT ![k] = NoSocket] /\ lost' = lost
    BY <1>4, Zenon DEF ReCreate
  <2>2. IsSocket(t) /\ ~t.open
    BY Zenon, <1>0, <1>1, <1>2, <1>4 DEF SocketKept
  <2>3. u = NoSocket
    BY Zenon, <1>0, <1>1, <1>2, <1>4 DEF SocketKept, AsAsked
  <2>4. SocketKept(k, t, u)
    BY Zenon, <1>0, <1>1, <1>2, <2>2, <2>3 DEF SocketKept
  <2>5. AsAsked(k, t, u, NoSocket)
    BY Zenon, <1>1, <2>2, <2>3 DEF AsAsked
  <2> HIDE DEF a, t, u, done
  <2>6. lost' = lost \cup {} /\ IsSocket(u) /\ ~u.open
    BY Zenon, <1>1, <2>1, <2>3
  <2>7. QED
    BY Zenon, <2>1, <2>2, <2>4, <2>5, <2>6, ListenerChanges
<1>5. CASE ~done /\ port # 0
  <2>1. PICK o \in OpenOutcomes("tcp", port, k), v \in OpenOutcomes("udp", port, k) :
             /\ CASE k = "http"   -> ReCreateHTTP(k, a, o, v)
                  [] k = "socks"  -> ReCreateSocks(k, a, o, v)
                  [] k = "redir"  -> ReCreateRedir(k, a, o, v)
                  [] k = "tproxy" -> ReCreateTProxy(k, a, o, v)
                  [] k = "mixed"  -> ReCreateMixed(k, a, o, v)
             /\ lost' = lost \cup (IF o = "lost" THEN {<<"tcp", port>>} ELSE {})
                             \cup (IF o = "opened" /\ v = "lost" THEN {<<"udp", port>>} ELSE {})
    BY <1>5, Zenon DEF ReCreate
  <2> HIDE DEF a, t, u, done
  <2> SUFFICES \E x, y, w :
                 /\ tcp' = [tcp EXCEPT ![k] = x] /\ udp' = [udp EXCEPT ![k] = y]
                 /\ asked' = [asked EXCEPT ![k] = w]
                 /\ \/ x = a /\ o = "opened"
                    \/ x = NoSocket
                    \/ x = Unopened(a) /\ k = "mixed"
                 /\ y = NoSocket \/ (y = a /\ x = y /\ v = "opened")
                 /\ \/ w = Unopened(a)
                    \/ w = a /\ x = w /\ (k \in {"socks", "mixed"} => y = w)
    <3>1. PICK x, y, w :
            /\ tcp' = [tcp EXCEPT ![k] = x] /\ udp' = [udp EXCEPT ![k] = y]
            /\ asked' = [asked EXCEPT ![k] = w]
            /\ \/ x = a /\ o = "opened"
               \/ x = NoSocket
               \/ x = Unopened(a) /\ k = "mixed"
            /\ y = NoSocket \/ (y = a /\ x = y /\ v = "opened")
            /\ \/ w = Unopened(a)
               \/ w = a /\ x = w /\ (k \in {"socks", "mixed"} => y = w)
      BY Zenon
    <3>2. lost' = lost \cup (IF o = "lost" THEN {<<"tcp", port>>} ELSE {})
                       \cup (IF o = "opened" /\ v = "lost" THEN {<<"udp", port>>} ELSE {})
      BY Zenon, <2>1
    <3>3. QED
      BY <1>5, <3>1, <3>2, Created, Zenon DEF a
  <2>2. CASE k = "http"
    <3>1. Leaves(k, a, Socket(o, a), NoSocket, o = "opened")
      BY Zenon, <2>1, <2>2 DEF ReCreateHTTP
    <3>2. CASE o = "opened"
      BY Zenon, <2>2, <3>1, <3>2 DEF Leaves, Socket
    <3>3. CASE o # "opened"
      BY Zenon, <3>1, <3>3 DEF Leaves, Socket, Unopened
    <3>4. QED
      BY Zenon, <3>2, <3>3
  <2>3. CASE k = "redir"
    BY Zenon, <2>1, <2>3 DEF ReCreateRedir, Leaves, Socket, Unopened
  <2>4. CASE k = "tproxy"
    BY Zenon, <2>1, <2>4 DEF ReCreateTProxy, Leaves, Socket, Unopened
  <2>5. CASE k = "socks"
    BY Zenon, <2>1, <2>5 DEF ReCreateSocks, Leaves, Socket, Unopened
  <2>6. CASE k = "mixed"
    <3>0. [a EXCEPT !.open = TRUE] = a
      BY Zenon, Addresses DEF a
    <3>1. ReCreateMixed(k, a, o, v)
      BY Zenon, <2>1, <2>6
    <3>2. CASE o = "opened" /\ v = "opened"
      BY Zenon, <3>0, <3>1, <3>2 DEF ReCreateMixed, Leaves
    <3>3. CASE o = "opened" /\ v # "opened"
      BY Zenon, <2>6, <3>1, <3>3 DEF ReCreateMixed, Leaves, Unopened
    <3>4. CASE o # "opened"
      BY Zenon, <3>1, <3>4 DEF ReCreateMixed, Leaves, Unopened
    <3>5. QED
      BY Zenon, <3>2, <3>3, <3>4
  <2>7. QED
    BY Zenon, <2>2, <2>3, <2>4, <2>5, <2>6 DEF Kind
<1>6. QED
  BY Zenon, <1>3, <1>4, <1>5

(* The DNS server that is given up loses a port nobody else has, and the new *)
(* one takes such a port.                                                    *)
LEMMA ReCreateServerKeeps ==
  ASSUME SocketInvariant, NEW port, NEW id, ReCreateServer(port, id), IsServer(dnsServer),
         UNCHANGED <<tcp, udp, asked>>
  PROVE  SocketInvariant'
<1>1. /\ SocketShapes'
      /\ \A k \in Kind : SocketKept(k, tcp[k], udp[k])' /\ AsAsked(k, tcp[k], udp[k], asked[k])'
  BY Zenon DEF SocketInvariant, SocketShapes, SocketKept, AsAsked
<1>2. /\ \A k \in Kind : udp[k].open => ~UdpTaken(lost, udp, dnsServer, udp[k].port, k)
      /\ \A k \in Kind : tcp[k].open => ~TcpTaken(lost, tcp, tcp[k].port, k)
  BY Zenon DEF SocketInvariant
<1>3. \/ lost' = lost
      \/ dnsServer.sock /\ lost' = lost \cup {<<"udp", dnsServer.port>>}
  BY ZenonT(30) DEF ReCreateServer
<1>4. \/ dnsServer' = [dnsServer EXCEPT !.handler = id]
      \/ dnsServer' = NoDns
      \/ dnsServer' = dnsServer
      \/ /\ \A k \in Kind : ~(udp[k].open /\ udp[k].port = port)
         /\ dnsServer' = [port |-> port, handler |-> id, sock |-> TRUE, active |-> FALSE]
  BY ZenonT(30) DEF ReCreateServer
<1>5. \/ dnsServer'.sock = dnsServer.sock /\ dnsServer'.port = dnsServer.port
      \/ ~dnsServer'.sock
      \/ dnsServer'.port = port /\ \A k \in Kind : ~(udp[k].open /\ udp[k].port = port)
  <2>1. CASE dnsServer' = [dnsServer EXCEPT !.handler = id]
    BY Zenon, <2>1 DEF IsServer
  <2>2. CASE dnsServer' = NoDns
    BY Zenon, <2>2 DEF NoDns
  <2>3. CASE dnsServer' = [port |-> port, handler |-> id, sock |-> TRUE, active |-> FALSE]
             /\ \A k \in Kind : ~(udp[k].open /\ udp[k].port = port)
    BY Zenon, <2>3
  <2>4. QED
    BY Zenon, <1>4, <2>1, <2>2, <2>3
<1>6. ASSUME NEW k \in Kind, tcp[k].open PROVE ~TcpTaken(lost', tcp, tcp[k].port, k)
  BY <1>2, <1>3, <1>6 DEF TcpTaken
<1>7. ASSUME NEW k \in Kind, udp[k].open PROVE ~UdpTaken(lost', udp, dnsServer', udp[k].port, k)
  <2>1. <<"udp", udp[k].port>> \notin lost'
    BY <1>2, <1>3, <1>7 DEF UdpTaken
  <2>2. ~(dnsServer'.sock /\ dnsServer'.port = udp[k].port)
    BY Zenon, <1>2, <1>5, <1>7 DEF UdpTaken
  <2>3. QED
    BY Zenon, <1>2, <1>7, <2>1, <2>2 DEF UdpTaken
<1>8. QED
  BY Zenon, <1>1, <1>6, <1>7 DEF SocketInvariant

(* Nothing of the listeners, of the lost sockets or of the DNS server's      *)
(* socket changes.                                                           *)
LEMMA SocketsStay ==
  ASSUME SocketInvariant, UNCHANGED <<tcp, udp, asked, lost>>,
         dnsServer'.sock = dnsServer.sock, dnsServer'.port = dnsServer.port
  PROVE  SocketInvariant'
  BY DEF SocketInvariant, SocketShapes, SocketKept, AsAsked, TcpTaken, UdpTaken

(* With any plans and any number of PUTs and PATCHes, whichever system calls *)
(* fail, a listener listens where the last ReCreate that reported no error   *)
(* asked it to, and no port is listened on twice (ReCreateHTTP and others).  *)
THEOREM ListenersListen == ReloadSpec => []ListensWhereAsked
<1>1. ReloadInit => SocketInvariant
  <2> SUFFICES ASSUME ReloadInit PROVE SocketInvariant
    BY Zenon
  <2>1. /\ tcp = [k \in Kind |-> NoSocket] /\ udp = [k \in Kind |-> NoSocket]
        /\ asked = [k \in Kind |-> NoSocket]
    BY Zenon DEF ReloadInit
  <2>2. IsSocket(NoSocket) /\ ~NoSocket.open
    BY Zenon, Addresses
  <2>3. QED
    BY Zenon, <2>1, <2>2 DEF SocketInvariant, SocketShapes, SocketKept, AsAsked
<1>2. SocketInvariant /\ ConfigurationInvariant /\ [ReloadNext]_reloadVars => SocketInvariant'
  <2> SUFFICES ASSUME SocketInvariant, ConfigurationInvariant, [ReloadNext]_reloadVars
               PROVE  SocketInvariant'
    BY Zenon
  <2>0. IsServer(dnsServer)
    BY Zenon DEF ConfigurationInvariant, ReloadShapes
  <2>1. ASSUME NEW a \in Puts, PutStep(a) PROVE SocketInvariant'
    <3> DEFINE me   == actor[a]
               step == PutSteps[me.at]
               p    == me.plan
    <3>1. /\ IF step \in Kind THEN ReCreate(step, p.port[step]) ELSE
             IF step = "dns" THEN UNCHANGED <<tcp, udp, asked>>
             ELSE UNCHANGED <<tcp, udp, asked, lost, fails>>
          /\ IF step = "dns" THEN ReCreateServer(IF p.dns THEN p.listen ELSE 0, IF p.dns THEN p.id ELSE "none")
                             ELSE UNCHANGED <<dnsServer, waking>>
      BY <2>1, Zenon DEF PutStep
    <3> HIDE DEF step, p
    <3>2. CASE step \in Kind
      <4>1. step # "dns"
        BY Zenon, <3>2 DEF Kind
      <4>2. QED
        BY Zenon, <3>1, <3>2, <4>1, ReCreateKeeps
    <3>3. CASE step = "dns"
      <4>1. step \notin Kind
        BY Zenon, <3>3 DEF Kind
      <4>2. QED
        BY Zenon, <2>0, <3>1, <3>3, <4>1, ReCreateServerKeeps
    <3>4. CASE step \notin Kind \cup {"dns"}
      BY Zenon, <3>1, <3>4, SocketsStay
    <3>5. QED
      BY Zenon, <3>2, <3>3, <3>4
  <2>2. ASSUME NEW a \in Patches, PatchStep(a) PROVE SocketInvariant'
    <3> DEFINE me   == actor[a]
               step == PatchSteps[me.at]
    <3>1. /\ IF step \in Kind THEN ReCreate(step, me.ports[step])
                              ELSE UNCHANGED <<tcp, udp, asked, lost, fails>>
          /\ dnsServer' = dnsServer
      BY <2>2, Zenon DEF PatchStep
    <3> HIDE DEF step, me
    <3>2. QED
      BY Zenon, <3>1, ReCreateKeeps, SocketsStay
  <2>3. CASE ActivateAndServe
    <3>1. /\ dnsServer' = [dnsServer EXCEPT !.active = @ \/ dnsServer.sock]
          /\ UNCHANGED <<tcp, udp, asked, lost>>
      BY Zenon, <2>3 DEF ActivateAndServe
    <3>2. dnsServer'.sock = dnsServer.sock /\ dnsServer'.port = dnsServer.port
      BY Zenon, <2>0, <3>1 DEF IsServer
    <3>3. QED
      BY Zenon, <3>1, <3>2, SocketsStay
  <2>4. ASSUME NEW a, NEW p, Begin(a, p) PROVE SocketInvariant'
    BY Zenon, <2>4, SocketsStay DEF Begin
  <2>5. CASE UNCHANGED reloadVars
    BY Zenon, <2>5, SocketsStay DEF reloadVars
  <2>6. QED
    BY Zenon, <2>1, <2>2, <2>3, <2>4, <2>5 DEF ReloadNext, ReloadStep
<1>3. SocketInvariant => ListensWhereAsked
  BY Zenon, TakenByProtocol DEF SocketInvariant, ListensWhereAsked, AsAsked
<1>4. QED
  BY <1>1, <1>2, <1>3, ReloadInvariant, PTL DEF ReloadSpec

(***************************************************************************)
(* DnsNames: the names connections are given.                              *)
(***************************************************************************)
(* A table of names has only what the resolver answered.                     *)
Answers(f, A) == \A ip \in DOMAIN f : <<ip, f[ip]>> \in A
Saves(A) == {s \in [ip : V4 \cup V6, host : Hosts, put : BOOLEAN] : <<s.ip, s.host>> \in A}

(* A handler holds only answers, of an enhancer that is not newer than the   *)
(* one in use; what it has mapped there is still mapped, or evicted since.   *)
IsQuery(q) == q = [at |-> q.at, q |-> q.q, host |-> q.host, epoch |-> q.epoch, todo |-> q.todo, ips |-> q.ips]
QueryHolds(q, A, e) ==
  /\ q.epoch \in 0..e /\ (q.at = "map" => q.epoch # 0)
  /\ q.at = "replied" => q.todo = {}
  /\ \A ip \in q.todo : <<ip, q.host>> \in A
QueryMapped(q, e, M, out) ==
  q.host # "hosts" /\ q.epoch = e => \A ip \in q.ips \ q.todo : ip \in DOMAIN M[e] \cup out

TablesAnswer ==
  /\ answered \subseteq (V4 \cup V6) \X Hosts
  /\ epoch \in 1..MaxEpochs /\ DOMAIN mapping = 1..MaxEpochs
  /\ \A e \in 1..MaxEpochs : Answers(mapping[e], answered)
  /\ Answers(dm, answered) /\ Answers(db, answered)
  /\ mapQueue \in Seq(answered) /\ saving \in Seq(Saves(answered))
HandlersHold ==
  /\ DOMAIN query = Queries
  /\ \A x \in Queries : IsQuery(query[x]) /\ QueryHolds(query[x], answered, epoch)
RepliesMapped == \A x \in Queries : QueryMapped(query[x], epoch, mapping, evicted)
NamesInvariant == TablesAnswer /\ HandlersHold /\ RepliesMapped

(* A table has only answers when more are given, when one is stored and    *)
(* when one is taken out.                                                  *)
LEMMA TableGrows ==
  ASSUME NEW f, NEW A, Answers(f, A)
  PROVE  /\ \A B : A \subseteq B => Answers(f, B)
         /\ \A ip, h : <<ip, h>> \in A => Answers(With(f, ip, h), A)
         /\ \A ip : Answers(Without(f, ip), A)
BY Zenon DEF Answers, With, Without

(* Storing a name adds its address to those that have one.                 *)
LEMMA WithDomain ==
  ASSUME NEW f, NEW ip, NEW h
  PROVE  DOMAIN With(f, ip, h) = DOMAIN f \cup {ip}
BY Zenon DEF With

(* Taking a name out takes its address.                                    *)
LEMMA WithoutDomain ==
  ASSUME NEW f, NEW ip
  PROVE  DOMAIN Without(f, ip) = DOMAIN f \ {ip}
BY Zenon DEF Without

(* What waits in the queues stays an answer when more are given.           *)
LEMMA SavesGrow ==
  ASSUME NEW A, NEW B, A \subseteq B
  PROVE  Seq(A) \subseteq Seq(B) /\ Seq(Saves(A)) \subseteq Seq(Saves(B))
<1>1. Saves(A) \subseteq Saves(B)
  BY Zenon DEF Saves
<1>2. QED
  BY <1>1

(* What the chain of handlers answers.                                       *)
LEMMA Answered ==
  ASSUME NEW h, NEW q, NEW m \in withResolver(h, q)
  PROVE  m.ips \subseteq V4 \cup V6
<1> DEFINE Shape(r) == r = [err |-> r.err, ok |-> r.ok, ips |-> r.ips] /\ r.ips \subseteq V4 \cup V6
<1>1. ASSUME NEW p, NEW r \in Exchange(h, p) PROVE Shape(r)
  BY <1>1 DEF Exchange, Failed
<1>2. ASSUME NEW a, Shape(a), NEW b, Shape(b) PROVE dualQuery(a, b).ips \subseteq V4 \cup V6
  <2>1. Shape(NoAnswer)
    BY Zenon DEF NoAnswer
  <2>2. [a EXCEPT !.ips = @ \cup b.ips].ips = a.ips \cup b.ips
    BY Zenon, <1>2
  <2>3. QED
    BY Zenon, <1>2, <2>1, <2>2 DEF dualQuery
<1>3. CASE m \in Exchange(h, q)
  BY Zenon, <1>1, <1>3
<1>4. CASE m \in {dualQuery(a, b) : a \in Exchange(h, "A"), b \in Exchange(h, "AAAA")}
  BY <1>1, <1>2, <1>4
<1>5. CASE m = NoAnswer
  BY Zenon, <1>5 DEF NoAnswer
<1>6. QED
  BY <1>3, <1>4, <1>5 DEF withResolver

(* The chain of handlers maps only the addresses of its reply, to the name *)
(* that was asked for.                                                     *)
LEMMA ChainAnswers ==
  ASSUME NEW h, NEW q, NEW r \in newHandler(h, q)
  PROVE  /\ r.todo \subseteq V4 \cup V6 /\ (r.todo # {} => r.host = h)
         /\ r.host # "hosts" => r.ips \subseteq r.todo
<1>1. CASE HostsTable[h] # {}
  BY <1>1 DEF newHandler
<1>2. CASE HostsTable[h] = {} /\ ADGurdMatch(h)
  BY <1>2 DEF newHandler
<1>3. CASE HostsTable[h] = {} /\ ~ADGurdMatch(h)
  <2>1. PICK m \in withResolver(h, q) : r = [host |-> h, ips |-> m.ips, todo |-> m.ips]
    BY Zenon, <1>3 DEF newHandler
  <2>2. m.ips \subseteq V4 \cup V6
    BY Zenon, Answered
  <2>3. QED
    BY Zenon, <2>1, <2>2
<1>4. QED
  BY Zenon, <1>1, <1>2, <1>3

(* A question is answered: its answers are known before any is mapped.       *)
LEMMA ServeKeeps ==
  ASSUME NamesInvariant, NEW x \in Queries, NEW h \in Hosts, NEW q, ServeDNS(x, h, q)
  PROVE  NamesInvariant'
<1>1. PICK r \in newHandler(h, q) :
        /\ query' = [query EXCEPT ![x] = [at |-> IF r.todo = {} THEN "replied" ELSE "map", q |-> q, host |-> r.host,
                                          epoch |-> epoch, todo |-> r.todo, ips |-> r.ips]]
        /\ answered' = answered \cup (r.todo \X {h})
  BY Zenon DEF ServeDNS
<1>2. UNCHANGED <<epoch, mapping, dm, db, mapQueue, saving, evicted>>
  BY Zenon DEF ServeDNS
<1>3. /\ r.todo \subseteq V4 \cup V6 /\ (r.todo # {} => r.host = h)
      /\ r.host # "hosts" => r.ips \subseteq r.todo
  BY Zenon, ChainAnswers
<1>4. answered \subseteq answered' /\ answered' \subseteq (V4 \cup V6) \X Hosts
  BY Zenon, <1>1, <1>3 DEF NamesInvariant, TablesAnswer
<1>5. TablesAnswer'
  BY Zenon, <1>2, <1>4, TableGrows, SavesGrow DEF NamesInvariant, TablesAnswer
<1> DEFINE new == [at |-> IF r.todo = {} THEN "replied" ELSE "map", q |-> q, host |-> r.host,
                   epoch |-> epoch, todo |-> r.todo, ips |-> r.ips]
<1>6. IsQuery(new) /\ QueryHolds(new, answered', epoch') /\ QueryMapped(new, epoch', mapping', evicted')
  <2>1. epoch' \in 1..MaxEpochs /\ epoch' = epoch /\ MaxEpochs \in Nat
    BY Zenon, <1>2, NamesAssumption DEF NamesInvariant, TablesAnswer
  <2>2. \A ip \in r.todo : <<ip, r.host>> \in answered'
    BY Zenon, <1>1, <1>3
  <2>3. QED
    BY SMTT(40), <1>3, <2>1, <2>2 DEF IsQuery, QueryHolds, QueryMapped
<1>7. DOMAIN query' = Queries /\ \A y \in Queries : query'[y] = IF y = x THEN new ELSE query[y]
  BY Zenon, <1>1 DEF NamesInvariant, HandlersHold
<1> HIDE DEF new
<1>8. ASSUME NEW y \in Queries
      PROVE  IsQuery(query'[y]) /\ QueryHolds(query'[y], answered', epoch') /\ QueryMapped(query'[y], epoch', mapping', evicted')
  <2>1. CASE y = x
    BY <1>6, <1>7, <2>1, Zenon
  <2>2. CASE y # x
    <3>1. query'[y] = query[y]
      BY Zenon, <1>7, <2>2
    <3>2. IsQuery(query[y]) /\ QueryHolds(query[y], answered, epoch) /\ QueryMapped(query[y], epoch, mapping, evicted)
      BY Zenon DEF NamesInvariant, HandlersHold, RepliesMapped
    <3>3. QueryHolds(query[y], answered', epoch)
      BY Zenon, <1>4, <3>2 DEF QueryHolds
    <3>4. QED
      BY <1>2, <3>1, <3>2, <3>3, Zenon
  <2>3. QED
    BY Zenon, <2>1, <2>2
<1>9. QED
  BY Zenon, <1>5, <1>7, <1>8 DEF NamesInvariant, HandlersHold, RepliesMapped

(* One answer is mapped: an entry comes, one may go, entries shared with a   *)
(* neighbouring enhancer change their name there too.                        *)
LEMMA MappingSteps ==
  ASSUME NamesInvariant, NEW x \in Queries, NEW ip, withMapping(x, ip)
  PROVE  /\ DOMAIN mapping' = 1..MaxEpochs /\ \A f \in 1..MaxEpochs : Answers(mapping'[f], answered)
         /\ Answers(db', answered)
         /\ <<ip, query[x].host>> \in answered
         /\ DOMAIN mapping[epoch] \cup evicted \subseteq DOMAIN mapping'[epoch] \cup evicted'
         /\ query[x].epoch = epoch => ip \in DOMAIN mapping'[epoch]
<1> DEFINE me == query[x]
           e  == me.epoch
           h  == me.host
           full == ip \notin DOMAIN mapping[e] /\ Cardinality(DOMAIN mapping[e]) >= MapSize
<1>1. me.at = "map" /\ ip \in me.todo
  BY Zenon DEF withMapping
<1>2. PICK v \in IF full THEN DOMAIN mapping[e] ELSE {"none"} :
        /\ mapping' = [Mapped(e, ip, h) EXCEPT ![e] = IF v = "none" THEN @ ELSE Without(@, v)]
        /\ db' = IPDomainMapOnEvict(e, v)
        /\ evicted' = IF e = epoch THEN (evicted \ {ip}) \cup ({v} \ {"none"}) ELSE evicted
  BY Zenon DEF withMapping
<1>3. e \in 1..epoch /\ epoch \in 1..MaxEpochs /\ <<ip, h>> \in answered /\ MaxEpochs \in Nat
  BY SMTT(40), <1>1, NamesAssumption DEF NamesInvariant, TablesAnswer, HandlersHold, QueryHolds
<1>4. v # ip
  <2>1. CASE full
    BY Zenon, <1>2, <2>1
  <2>2. CASE ~full
    BY Zenon, <1>2, <1>3, <2>2, NamesAssumption DEF NamesInvariant, TablesAnswer
  <2>3. QED
    BY Zenon, <2>1, <2>2
<1> HIDE DEF me, e, h, full
<1>5. /\ DOMAIN Mapped(e, ip, h) = 1..MaxEpochs
      /\ Mapped(e, ip, h)[e] = With(mapping[e], ip, h)
      /\ \A f \in 1..MaxEpochs : f # e => \/ Mapped(e, ip, h)[f] = mapping[f]
                                          \/ ip \in DOMAIN mapping[f] /\ Mapped(e, ip, h)[f] = With(mapping[f], ip, h)
  BY SMTT(40), <1>3 DEF NamesInvariant, TablesAnswer, Mapped
<1>6. /\ DOMAIN mapping' = 1..MaxEpochs
      /\ mapping'[e] = IF v = "none" THEN With(mapping[e], ip, h) ELSE Without(With(mapping[e], ip, h), v)
      /\ \A f \in 1..MaxEpochs : f # e => mapping'[f] = Mapped(e, ip, h)[f]
  BY <1>2, <1>3, <1>5
<1>7. \A f \in 1..MaxEpochs : Answers(mapping'[f], answered)
  <2>1. ASSUME NEW f \in 1..MaxEpochs PROVE Answers(mapping'[f], answered)
    <3>1. Answers(mapping[f], answered) /\ Answers(With(mapping[f], ip, h), answered)
      BY Zenon, <1>3, TableGrows DEF NamesInvariant, TablesAnswer
    <3>2. Answers(Without(With(mapping[f], ip, h), v), answered)
      BY Zenon, <3>1, TableGrows
    <3>3. QED
      BY Zenon, <1>5, <1>6, <3>1, <3>2
  <2>2. QED
    BY Zenon, <2>1
<1>8. Answers(db', answered)
  BY Zenon, <1>2, TableGrows DEF NamesInvariant, TablesAnswer, IPDomainMapOnEvict
<1>9. CASE e = epoch
  <2>1. DOMAIN mapping'[epoch] = (DOMAIN mapping[epoch] \cup {ip}) \ (IF v = "none" THEN {} ELSE {v})
    <3>1. DOMAIN With(mapping[e], ip, h) = DOMAIN mapping[e] \cup {ip}
      BY Zenon, WithDomain
    <3>2. DOMAIN Without(With(mapping[e], ip, h), v) = (DOMAIN mapping[e] \cup {ip}) \ {v}
      BY Zenon, <3>1, WithoutDomain
    <3>3. QED
      BY Zenon, <1>6, <1>9, <3>1, <3>2
  <2>2. DOMAIN mapping[epoch] \cup evicted \subseteq DOMAIN mapping'[epoch] \cup evicted' /\ ip \in DOMAIN mapping'[epoch]
    BY Zenon, <1>2, <1>4, <1>9, <2>1
  <2>3. QED
    BY <1>3, <1>6, <1>7, <1>8, <2>2, Zenon DEF me, e, h
<1>10. CASE e # epoch
  <2>1. DOMAIN mapping'[epoch] = DOMAIN mapping[epoch]
    <3>1. DOMAIN With(mapping[epoch], ip, h) = DOMAIN mapping[epoch] \cup {ip}
      BY Zenon, WithDomain
    <3>2. \/ mapping'[epoch] = mapping[epoch]
          \/ ip \in DOMAIN mapping[epoch] /\ mapping'[epoch] = With(mapping[epoch], ip, h)
      BY Zenon, <1>3, <1>5, <1>6, <1>10
    <3>3. QED
      BY Zenon, <3>1, <3>2
  <2>2. DOMAIN mapping[epoch] \cup evicted \subseteq DOMAIN mapping'[epoch] \cup evicted'
    BY Zenon, <1>2, <1>10, <2>1
  <2>3. QED
    BY <1>3, <1>6, <1>7, <1>8, <1>10, <2>2, Zenon DEF me, e, h
<1>11. QED
  BY Zenon, <1>9, <1>10

(* A step of withMapping keeps the invariant of names.                     *)
LEMMA MappingKeeps ==
  ASSUME NamesInvariant, NEW x \in Queries, NEW ip, withMapping(x, ip)
  PROVE  NamesInvariant'
<1> DEFINE me == query[x]
           at == IF me.todo = {ip} THEN "replied" ELSE "map"
<1>1. /\ query' = [query EXCEPT ![x].todo = @ \ {ip}, ![x].at = at]
      /\ UNCHANGED <<epoch, dm, saving, answered>>
      /\ me.at = "map" /\ ip \in me.todo
  BY Zenon DEF withMapping
<1>2. mapQueue' = mapQueue \/ mapQueue' = Append(mapQueue, <<ip, me.host>>)
  <2>1. mapQueue' = mapQueue \/ mapQueue' = DnsMapAdd(ip, me.host)
    BY Zenon DEF withMapping
  <2>2. QED
    BY Zenon, <2>1 DEF DnsMapAdd
<1>3. TablesAnswer'
  <2>1. /\ DOMAIN mapping' = 1..MaxEpochs /\ \A f \in 1..MaxEpochs : Answers(mapping'[f], answered)
        /\ Answers(db', answered) /\ <<ip, me.host>> \in answered
    BY Zenon, MappingSteps
  <2> HIDE DEF me
  <2>2. mapQueue' \in Seq(answered)
    <3>1. \A A : \A s \in Seq(A), p \in A : Append(s, p) \in Seq(A)
      OBVIOUS
    <3>2. mapQueue \in Seq(answered)
      BY Zenon DEF NamesInvariant, TablesAnswer
    <3>3. QED
      BY <1>2, <2>1, <3>1, <3>2, Zenon
  <2>3. saving' \in Seq(Saves(answered')) /\ Answers(dm', answered')
    BY <1>1, Zenon DEF NamesInvariant, TablesAnswer
  <2>4. QED
    BY Zenon, <1>1, <2>1, <2>2, <2>3 DEF NamesInvariant, TablesAnswer
<1>4. DOMAIN query' = Queries /\ \A y \in Queries : y # x => query'[y] = query[y]
  BY Zenon, <1>1 DEF NamesInvariant, HandlersHold
<1>5. query'[x] = [at |-> at, q |-> me.q, host |-> me.host, epoch |-> me.epoch, todo |-> me.todo \ {ip}, ips |-> me.ips]
  <2> HIDE DEF at
  <2>1. query'[x] = [me EXCEPT !.todo = @ \ {ip}, !.at = at]
    BY Zenon, <1>1 DEF NamesInvariant, HandlersHold
  <2>2. IsQuery(me)
    BY Zenon DEF NamesInvariant, HandlersHold
  <2> HIDE DEF me
  <2>3. QED
    BY Zenon, <2>1, <2>2 DEF IsQuery
<1>6. QueryHolds(me, answered, epoch) /\ QueryMapped(me, epoch, mapping, evicted)
  BY Zenon DEF NamesInvariant, HandlersHold, RepliesMapped
<1> DEFINE new == query'[x]
<1>7. /\ IsQuery(new) /\ new.at = at /\ new.host = me.host /\ new.epoch = me.epoch
      /\ new.todo = me.todo \ {ip} /\ new.ips = me.ips
  <2> HIDE DEF me, at
  <2> QED
  BY SMTT(40), <1>5 DEF IsQuery
<1> HIDE DEF me, new
<1>8. QueryHolds(new, answered', epoch')
  BY Zenon, <1>1, <1>6, <1>7 DEF QueryHolds
<1> HIDE DEF at
<1>9. QueryMapped(new, epoch', mapping', evicted')
  <2>1. /\ DOMAIN mapping[epoch] \cup evicted \subseteq DOMAIN mapping'[epoch] \cup evicted'
        /\ me.epoch = epoch => ip \in DOMAIN mapping'[epoch]
    BY Zenon, MappingSteps DEF me
  <2>2. QED
    BY Zenon, <1>1, <1>6, <1>7, <2>1 DEF QueryMapped
<1>10. ASSUME NEW y \in Queries, y # x
      PROVE  IsQuery(query'[y]) /\ QueryHolds(query'[y], answered', epoch') /\ QueryMapped(query'[y], epoch', mapping', evicted')
  <2>1. query'[y] = query[y]
    BY Zenon, <1>4, <1>10
  <2>2. IsQuery(query[y]) /\ QueryHolds(query[y], answered, epoch) /\ QueryMapped(query[y], epoch, mapping, evicted)
    BY Zenon DEF NamesInvariant, HandlersHold, RepliesMapped
  <2>3. DOMAIN mapping[epoch] \cup evicted \subseteq DOMAIN mapping'[epoch] \cup evicted'
    BY Zenon, MappingSteps
  <2>4. QueryMapped(query[y], epoch, mapping', evicted')
    BY Zenon, <2>2, <2>3 DEF QueryMapped
  <2>5. QED
    BY <1>1, <2>1, <2>2, <2>4, Zenon
<1>11. QED
  BY Zenon, <1>3, <1>4, <1>7, <1>8, <1>9, <1>10 DEF NamesInvariant, HandlersHold, RepliesMapped, new

(* A message leaves the queue and is saved: first in Dm, then in the         *)
(* database.                                                                 *)
LEMMA SavingKeeps ==
  ASSUME NamesInvariant, UNCHANGED <<epoch, mapping, query, answered, evicted>>,
         Answers(dm', answered), Answers(db', answered),
         mapQueue' \in Seq(answered), saving' \in Seq(Saves(answered))
  PROVE  NamesInvariant'
<1>1. TablesAnswer'
  BY Zenon DEF NamesInvariant, TablesAnswer
<1>2. HandlersHold' /\ RepliesMapped'
  BY Zenon DEF NamesInvariant, HandlersHold, RepliesMapped
<1>3. QED
  BY Zenon, <1>1, <1>2 DEF NamesInvariant

(* processDnsMap keeps the invariant of names.                             *)
LEMMA QueueKeeps ==
  ASSUME NamesInvariant, processDnsMap
  PROVE  NamesInvariant'
<1> DEFINE p == Head(mapQueue)
           s == [ip |-> p[1], host |-> p[2], put |-> FALSE]
<1>1. /\ mapQueue # <<>> /\ mapQueue' = Tail(mapQueue)
      /\ saving' = saving \/ saving' = Append(saving, s)
      /\ UNCHANGED <<epoch, mapping, dm, db, query, answered, evicted>>
  BY Zenon DEF processDnsMap
<1>2. /\ mapQueue \in Seq(answered) /\ saving \in Seq(Saves(answered))
      /\ answered \subseteq (V4 \cup V6) \X Hosts /\ Answers(dm, answered) /\ Answers(db, answered)
  BY Zenon DEF NamesInvariant, TablesAnswer
<1>3. p \in answered /\ Tail(mapQueue) \in Seq(answered)
  BY <1>1, <1>2
<1> HIDE DEF p
<1>4. p = <<p[1], p[2]>> /\ p[1] \in V4 \cup V6 /\ p[2] \in Hosts
  BY <1>2, <1>3
<1>5. s \in Saves(answered)
  BY Zenon, <1>3, <1>4 DEF Saves
<1> HIDE DEF s
<1>6. Append(saving, s) \in Seq(Saves(answered))
  BY <1>2, <1>5
<1>7. QED
  BY Zenon, <1>1, <1>2, <1>3, <1>6, SavingKeeps

(* handleDnsMap keeps the invariant of names, whichever save it takes.     *)
LEMMA HandleKeeps ==
  ASSUME NamesInvariant, NEW i \in DOMAIN saving, handleDnsMap(i)
  PROVE  NamesInvariant'
<1> DEFINE s == saving[i]
           t == [s EXCEPT !.put = TRUE]
<1>1. UNCHANGED <<epoch, mapping, mapQueue, query, answered, evicted>>
  BY Zenon DEF handleDnsMap
<1>2. \/ /\ db' = With(db, s.ip, s.host) /\ UNCHANGED dm
         /\ saving' = SubSeq(saving, 1, i - 1) \o SubSeq(saving, i + 1, Len(saving))
      \/ dm' = With(dm, s.ip, s.host) /\ saving' = [saving EXCEPT ![i].put = TRUE] /\ UNCHANGED db
  BY Zenon DEF handleDnsMap, DnsPreCache
<1>3. /\ mapQueue \in Seq(answered) /\ saving \in Seq(Saves(answered))
      /\ Answers(dm, answered) /\ Answers(db, answered)
  BY Zenon DEF NamesInvariant, TablesAnswer
<1>4. i \in 1..Len(saving) /\ s \in Saves(answered)
  BY <1>3
<1> HIDE DEF s
<1>5. <<s.ip, s.host>> \in answered /\ t \in Saves(answered)
  BY Zenon, <1>4 DEF Saves
<1>6. Answers(With(db, s.ip, s.host), answered) /\ Answers(With(dm, s.ip, s.host), answered)
  BY Zenon, <1>3, <1>5, TableGrows
<1>7. SubSeq(saving, 1, i - 1) \o SubSeq(saving, i + 1, Len(saving)) \in Seq(Saves(answered))
  BY <1>3, <1>4
<1> HIDE DEF t
<1>8. [saving EXCEPT ![i] = t] \in Seq(Saves(answered))
  BY <1>3, <1>4, <1>5
<1>9. [saving EXCEPT ![i].put = TRUE] = [saving EXCEPT ![i] = t]
  BY Zenon DEF t, s
<1>10. QED
  BY Zenon, <1>1, <1>2, <1>3, <1>6, <1>7, <1>8, <1>9, SavingKeeps

(* A reload: the next enhancer starts with the entries of the one in use,    *)
(* and so with the names of every reply given.                               *)
LEMMA ReloadKeeps ==
  ASSUME NamesInvariant, updateDNS
  PROVE  NamesInvariant'
<1>1. /\ epoch < MaxEpochs /\ epoch' = epoch + 1 /\ query' = Covered
      /\ mapping' = [mapping EXCEPT ![epoch + 1] = mapping[epoch]]
      /\ UNCHANGED <<dm, db, mapQueue, saving, answered, evicted>>
  BY Zenon DEF updateDNS, PatchFrom
<1>2. epoch \in 1..MaxEpochs /\ DOMAIN mapping = 1..MaxEpochs /\ MaxEpochs \in Nat
  BY Zenon, NamesAssumption DEF NamesInvariant, TablesAnswer
<1>3. /\ DOMAIN mapping' = 1..MaxEpochs /\ epoch' \in 1..MaxEpochs
      /\ mapping'[epoch + 1] = mapping[epoch]
      /\ \A e \in 1..MaxEpochs : mapping'[e] = mapping[e] \/ mapping'[e] = mapping[epoch]
  BY <1>1, <1>2
<1>4. TablesAnswer'
  <2>1. \A e \in 1..MaxEpochs : Answers(mapping'[e], answered)
    BY Zenon, <1>2, <1>3 DEF NamesInvariant, TablesAnswer
  <2>2. QED
    BY Zenon, <1>1, <1>3, <2>1 DEF NamesInvariant, TablesAnswer
<1>5. ASSUME NEW x \in Queries
      PROVE  IsQuery(query'[x]) /\ QueryHolds(query'[x], answered', epoch') /\ QueryMapped(query'[x], epoch', mapping', evicted')
  <2> DEFINE q == query[x]
  <2>1. IsQuery(q) /\ QueryHolds(q, answered, epoch) /\ QueryMapped(q, epoch, mapping, evicted)
    BY Zenon DEF NamesInvariant, HandlersHold, RepliesMapped
  <2>2. query'[x] = IF q.at = "replied" /\ q.epoch = epoch THEN [q EXCEPT !.epoch = epoch + 1] ELSE q
    BY Zenon, <1>1 DEF Covered
  <2> DEFINE new == query'[x]
  <2> HIDE DEF q, new
  <2>3. CASE q.at = "replied" /\ q.epoch = epoch
    <3>1. new = [q EXCEPT !.epoch = epoch + 1]
      BY Zenon, <2>2, <2>3 DEF new
    <3>2. IsQuery(new) /\ new.at = q.at /\ new.host = q.host /\ new.epoch = epoch + 1 /\ new.todo = q.todo /\ new.ips = q.ips
      BY Zenon, <2>1, <3>1 DEF IsQuery
    <3>3. QueryHolds(new, answered, epoch + 1)
      BY SMTT(40), <1>2, <2>1, <2>3, <3>2 DEF QueryHolds
    <3>4. QueryMapped(new, epoch + 1, mapping', evicted)
      BY Zenon, <1>3, <2>1, <2>3, <3>2 DEF QueryMapped
    <3>5. QED
      BY <1>1, <3>2, <3>3, <3>4, Zenon DEF new
  <2>4. CASE ~(q.at = "replied" /\ q.epoch = epoch)
    <3>1. new = q
      BY Zenon, <2>2, <2>4 DEF new
    <3>2. q.epoch \in 0..epoch
      BY Zenon, <2>1 DEF QueryHolds
    <3>3. QueryHolds(q, answered, epoch + 1)
      BY <1>2, <2>1, <3>2 DEF QueryHolds
    <3>4. QueryMapped(q, epoch + 1, mapping', evicted)
      BY <1>2, <3>2 DEF QueryMapped
    <3>5. QED
      BY <1>1, <2>1, <3>1, <3>3, <3>4, Zenon DEF new
  <2>5. QED
    BY Zenon, <2>3, <2>4
<1>6. DOMAIN query' = Queries
  BY Zenon, <1>1 DEF Covered
<1>7. QED
  BY Zenon, <1>4, <1>5, <1>6 DEF NamesInvariant, HandlersHold, RepliesMapped

(* A handler that serves no query holds nothing.                           *)
LEMMA IdleQuery ==
  ASSUME NEW A, NEW e \in Nat, e # 0, NEW M, NEW out
  PROVE  IsQuery(NoAsk) /\ QueryHolds(NoAsk, A, e) /\ QueryMapped(NoAsk, e, M, out)
BY SMTT(40) DEF NoAsk, IsQuery, QueryHolds, QueryMapped

(* A restart, which loads the mapping from the database, keeps the         *)
(* invariant of names.                                                     *)
LEMMA RestartKeeps ==
  ASSUME NamesInvariant, RestartDns
  PROVE  NamesInvariant'
<1> DEFINE loaded == IF unsaved THEN Empty ELSE db
<1>1. /\ epoch' = 1 /\ mapQueue' = <<>> /\ saving' = <<>> /\ query' = [x \in Queries |-> NoAsk]
      /\ UNCHANGED <<db, answered>> /\ loadToIPDomainMap(loaded)
  BY Zenon DEF RestartDns
<1>2. Answers(Empty, answered) /\ Answers(db, answered)
  BY Zenon DEF Answers, Empty, NamesInvariant, TablesAnswer
<1>3. Answers(loaded, answered)
  BY Zenon, <1>2
<1> HIDE DEF loaded
<1>4. PICK kept \in SUBSET DOMAIN loaded :
        /\ mapping' = [e \in DOMAIN mapping |-> IF e = 1 THEN [ip \in kept |-> loaded[ip]] ELSE Empty]
        /\ dm' = loaded
  BY <1>1, Zenon DEF loadToIPDomainMap
<1>5. Answers([ip \in kept |-> loaded[ip]], answered)
  BY Zenon, <1>3 DEF Answers
<1>6. DOMAIN mapping' = 1..MaxEpochs /\ \A e \in 1..MaxEpochs : Answers(mapping'[e], answered)
  BY Zenon, <1>2, <1>4, <1>5 DEF NamesInvariant, TablesAnswer
<1>7. TablesAnswer'
  <2>1. mapQueue' \in Seq(answered) /\ saving' \in Seq(Saves(answered)) /\ epoch' \in 1..MaxEpochs
    BY <1>1, NamesAssumption
  <2>2. Answers(dm', answered) /\ Answers(db', answered) /\ answered' = answered
    BY <1>1, <1>2, <1>3, <1>4, Zenon
  <2>3. answered \subseteq (V4 \cup V6) \X Hosts
    BY Zenon DEF NamesInvariant, TablesAnswer
  <2>4. QED
    BY <1>6, <2>1, <2>2, <2>3, Zenon DEF TablesAnswer
<1>8. DOMAIN query' = Queries /\ \A x \in Queries : query'[x] = NoAsk
  BY Zenon, <1>1
<1>9. IsQuery(NoAsk) /\ QueryHolds(NoAsk, answered', epoch') /\ QueryMapped(NoAsk, epoch', mapping', evicted')
  BY <1>1, IdleQuery
<1>10. HandlersHold' /\ RepliesMapped'
  BY <1>8, <1>9, Zenon DEF HandlersHold, RepliesMapped
<1>11. QED
  BY Zenon, <1>7, <1>10 DEF NamesInvariant

(* The program starts with no names.                                       *)
LEMMA NamesStart ==
  ASSUME DnsInit
  PROVE  NamesInvariant
<1>1. /\ epoch = 1 /\ mapping = [e \in 1..MaxEpochs |-> Empty] /\ dm = Empty /\ db = Empty
      /\ mapQueue = <<>> /\ saving = <<>> /\ answered = {} /\ query = [x \in Queries |-> NoAsk]
  BY Zenon DEF DnsInit
<1>2. Answers(Empty, {})
  BY Zenon DEF Answers, Empty
<1>3. TablesAnswer
  <2>1. epoch \in 1..MaxEpochs /\ mapQueue \in Seq(answered) /\ saving \in Seq(Saves(answered))
    BY <1>1, NamesAssumption
  <2>2. DOMAIN mapping = 1..MaxEpochs /\ \A e \in 1..MaxEpochs : mapping[e] = Empty
    BY Zenon, <1>1
  <2>3. answered \subseteq (V4 \cup V6) \X Hosts
    BY Zenon, <1>1
  <2>4. QED
    BY <1>1, <1>2, <2>1, <2>2, <2>3, Zenon DEF TablesAnswer
<1>4. DOMAIN query = Queries /\ \A x \in Queries : query[x] = NoAsk
  BY Zenon, <1>1
<1>5. IsQuery(NoAsk) /\ QueryHolds(NoAsk, answered, epoch) /\ QueryMapped(NoAsk, epoch, mapping, evicted)
  BY <1>1, IdleQuery
<1>6. HandlersHold /\ RepliesMapped
  BY <1>4, <1>5, Zenon DEF HandlersHold, RepliesMapped
<1>7. QED
  BY Zenon, <1>3, <1>6 DEF NamesInvariant

(* The names given are those the tables have.                                *)
LEMMA NamesGiven ==
  ASSUME NamesInvariant
  PROVE  NamesFollowAnswers
<1>1. /\ answered \subseteq (V4 \cup V6) \X Hosts /\ "none" \notin Hosts
      /\ Answers(mapping[epoch], answered) /\ Answers(dm, answered)
  BY Zenon, NamesAssumption DEF NamesInvariant, TablesAnswer
<1>2. ASSUME NEW f, Answers(f, answered), NEW ip \in DOMAIN f
      PROVE  <<ip, f[ip]>> \in answered /\ f[ip] # "none"
  BY Zenon, <1>1, <1>2 DEF Answers
<1>3. ASSUME NEW ip
      PROVE  /\ FindHost(ip) = "none" \/ <<ip, FindHost(ip)>> \in answered
             /\ ip \in DOMAIN mapping[epoch] => FindHost(ip) # "none"
  BY Zenon, <1>1, <1>2 DEF FindHost, FindHostByIP
<1>4. ASSUME NEW ip, NEW proxied PROVE preHandleMetadata(ip, proxied).Host = FindHost(ip)
  BY Zenon DEF preHandleMetadata
<1>5. ASSUME NEW x \in Queries, query[x].at = "replied", query[x].host # "hosts", query[x].epoch = epoch,
             NEW ip \in query[x].ips
      PROVE  FindHost(ip) # "none" \/ ip \in evicted
  <2>1. QueryHolds(query[x], answered, epoch) /\ QueryMapped(query[x], epoch, mapping, evicted)
    BY Zenon DEF NamesInvariant, HandlersHold, RepliesMapped
  <2>2. ip \in DOMAIN mapping[epoch] \cup evicted
    BY Zenon, <1>5, <2>1 DEF QueryHolds, QueryMapped
  <2>3. QED
    BY Zenon, <1>3, <2>2
<1>6. QED
  BY Zenon, <1>3, <1>4, <1>5 DEF NamesFollowAnswers

(* Every name a connection is given by preHandleMetadata is one the resolver *)
(* answered with that very address, and every address of a finished reply    *)
(* has a name while its mapping is in use, or was evicted from it.  The      *)
(* tables are three, written in different goroutines (withMapping into the   *)
(* enhancer, handleDnsMap into Dm and then the database), copied by          *)
(* PatchFrom and refilled by loadToIPDomainMap: the invariant is that each   *)
(* of them, and everything on its way to one, is an answer, and that a       *)
(* handler's addresses are mapped as soon as they leave its list.            *)
THEOREM NamesAreAnswers == DnsSpec => []NamesFollowAnswers
<1>1. NamesInvariant /\ [DnsNext]_dnsVars => NamesInvariant'
  <2> SUFFICES ASSUME NamesInvariant, [DnsNext]_dnsVars PROVE NamesInvariant'
    BY Zenon
  <2>1. ASSUME NEW x \in Queries, NEW h \in Hosts, NEW q \in {"A", "AAAA"}, ServeDNS(x, h, q) PROVE NamesInvariant'
    BY Zenon, <2>1, ServeKeeps
  <2>2. ASSUME NEW x \in Queries, NEW ip \in V4 \cup V6, withMapping(x, ip) PROVE NamesInvariant'
    BY Zenon, <2>2, MappingKeeps
  <2>3. CASE processDnsMap
    BY Zenon, <2>3, QueueKeeps
  <2>4. ASSUME NEW i \in DOMAIN saving, handleDnsMap(i) PROVE NamesInvariant'
    BY Zenon, <2>4, HandleKeeps
  <2>5. CASE updateDNS
    BY Zenon, <2>5, ReloadKeeps
  <2>6. CASE RestartDns
    BY Zenon, <2>6, RestartKeeps
  <2>7. CASE UNCHANGED dnsVars
    BY <2>7, Zenon DEF dnsVars, NamesInvariant, TablesAnswer, HandlersHold, RepliesMapped
  <2>8. QED
    BY Zenon, <2>1, <2>2, <2>3, <2>4, <2>5, <2>6, <2>7 DEF DnsNext
<1>2. QED
  BY <1>1, NamesStart, NamesGiven, PTL DEF DnsSpec
=============================================================================
