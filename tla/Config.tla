------------------------------- MODULE Config --------------------------------
(* ParseRawConfig: a configuration is accepted or refused, part by part,   *)
(* in the order of the code.  The proxy groups go through                  *)
(* proxyGroupsDagSort, whose queues start in the order of a Go map, that   *)
(* is in any order.                                                        *)
EXTENDS Naturals, Sequences, FiniteSets, Functions

CONSTANT RawConfigs  \* the configurations that are submitted

IsList(s) == s \in Seq(Range(s))
ASSUME ConfigAssumption ==
  \A r \in RawConfigs : /\ IsList(r.proxies) /\ IsList(r.groups)
                        /\ \A i \in DOMAIN r.groups : IsList(r.groups[i].proxies)

VARIABLES
  raw,      \* the configuration being parsed
  parse,    \* where ParseRawConfig is; "ok", "error", "loop", "nil" and "panic" end it
  graph,    \* names left in the dependency graph
  degree,   \* indegree, then outdegree, of the names
  queue,    \* the queue of either loop
  sorted,   \* groups taken from the queue so far, the last in front
  proxies   \* names of the proxies map

configVars == <<raw, parse, graph, degree, queue, sorted, proxies>>

GroupTypes == {"url-test", "select", "fallback", "load-balance", "relay"}
RuleTypes  == {"DOMAIN", "DOMAIN-SUFFIX", "DOMAIN-KEYWORD", "GEOIP", "IP-CIDR", "IP-CIDR6", "SRC-IP-CIDR", "DST-IP-PORT",
               "SRC-PORT", "DST-PORT", "PROCESS-NAME", "MATCH", "ALLIP", "DOMAIN-SRC-PORT", "DOMAIN-DST-PORT"}
Schemes    == {"udp", "tcp", "tls", "https", "dhcp"}

GroupNamesOf(gs)  == {gs[i].name : i \in DOMAIN gs}
GroupCalled(n)    == raw.groups[CHOOSE i \in DOMAIN raw.groups : raw.groups[i].name = n]
MembersOf(n)      == IF n \in GroupNamesOf(raw.groups) THEN GroupCalled(n).proxies ELSE <<>>
Occurrences(n, s) == Cardinality({i \in DOMAIN s : s[i] = n})
(* The orders in which a Go map with the keys S may be ranged over. *)
Orders(S)         == Bijection(1..Cardinality(S), S)

ConfigInit ==
  /\ raw = <<>> /\ parse = "idle"
  /\ graph = {} /\ degree = <<>> /\ queue = <<>> /\ sorted = <<>> /\ proxies = {}

Submit(r) ==
  /\ parse = "idle"
  /\ raw' = r /\ parse' = "general"
  /\ UNCHANGED <<graph, degree, queue, sorted, proxies>>

(* One part is parsed: on to the next, or the error is returned. *)
Then(part, ok, next) ==
  /\ parse = part
  /\ parse' = IF ok THEN next ELSE "error"
  /\ UNCHANGED raw

parseGeneral ==
  Then("general", raw.ui, "proxies") /\ UNCHANGED <<graph, degree, queue, sorted, proxies>>

(* parseProxies up to the groups: a type ParseProxy does not know, options *)
(* that do not decode or are refused, a name given twice, a group without  *)
(* name.                                                                   *)
ParseProxy(p) == p.type \in {"socks5", "http", "vmess", "trojan", "redirect"} /\ p.decodes
parseProxies ==
  LET names == <<"DIRECT", "REJECT">> \o [i \in DOMAIN raw.proxies |-> raw.proxies[i].name]
  IN  /\ Then("proxies", /\ \A i \in DOMAIN raw.proxies : ParseProxy(raw.proxies[i])
                         /\ IsInjective(names)
                         /\ \A i \in DOMAIN raw.groups : raw.groups[i].named, "graph")
      /\ proxies' = Range(names)
      /\ UNCHANGED <<graph, degree, queue, sorted>>

-----------------------------------------------------------------------------
(* proxyGroupsDagSort *)

(* The edges into n of the groups of G: the places where they list it. *)
Edges(n, G) == {e \in UNION {{i} \X DOMAIN raw.groups[i].proxies : i \in DOMAIN raw.groups} :
                  raw.groups[e[1]].name \in G /\ raw.groups[e[1]].proxies[e[2]] = n}

(* Step 1.1: the graph of the groups and what they list, with indegrees,   *)
(* and the first queue.                                                    *)
BuildGraph ==
  LET names == [i \in DOMAIN raw.groups |-> raw.groups[i].name]
      nodes == Range(names) \cup UNION {Range(raw.groups[i].proxies) : i \in DOMAIN raw.groups}
      into  == [n \in nodes |-> Cardinality(Edges(n, nodes))]
  IN  /\ Then("graph", IsInjective(names), "topo")
      /\ graph' = nodes /\ degree' = into
      /\ queue' \in Orders({n \in nodes : into[n] = 0})
      /\ UNCHANGED <<sorted, proxies>>

(* Fault: a name listed twice is taken for one edge. *)
FreedOnce(s) == {i \in DOMAIN s : degree[s[i]] = 1 /\ \A j \in DOMAIN s : s[j] = s[i] => j <= i}
(* Where in s, which has an edge per place, a degree is brought to 0. *)
Freed(s) == {i \in DOMAIN s : degree[s[i]] = Occurrences(s[i], s) /\ \A j \in DOMAIN s : s[j] = s[i] => j <= i}
InOrder(f) == \A a, b \in DOMAIN f : a < b => f[a] < f[b]

(* Step 1.2: a group taken from the queue is placed before those placed    *)
(* earlier, and what it lists queued as its last edge goes.                *)
TopoStep ==
  /\ parse = "topo" /\ queue # <<>>
  /\ LET n == Head(queue)
         s == MembersOf(n)
     IN  /\ \E f \in Orders(Freed(s)) : InOrder(f) /\ queue' = Tail(queue) \o [k \in DOMAIN f |-> s[f[k]]]
         /\ degree' = [m \in DOMAIN degree |-> degree[m] - Occurrences(m, s)]
         /\ graph' = graph \ {n}
         /\ sorted' = IF n \in GroupNamesOf(raw.groups) THEN <<GroupCalled(n)>> \o sorted ELSE sorted
  /\ UNCHANGED <<raw, parse, proxies>>

(* Nothing left: sorted.  Otherwise steps 2.1, which looks every member up *)
(* in what is left, and 2.2, on the outdegrees.                            *)
TopoEnd ==
  /\ parse = "topo" /\ queue = <<>>
  /\ IF graph = {} THEN parse' = "providers" /\ UNCHANGED <<degree, queue>>
     ELSE LET out == [n \in graph |-> Len(MembersOf(n))]
          IN  /\ parse' = IF \A n \in graph : Range(MembersOf(n)) \subseteq graph THEN "locate" ELSE "nil"
              /\ degree' = out
              /\ queue' \in Orders({n \in graph : out[n] = 0})
  /\ UNCHANGED <<raw, graph, sorted, proxies>>
(* from: the groups of step 2.1 that list n, in the order of a Go map. *)
LocateStep ==
  /\ parse = "locate" /\ queue # <<>>
  /\ LET n    == Head(queue)
         from == {f \in DOMAIN degree : n \in Range(MembersOf(f))}
     IN  /\ parse' = IF from \subseteq graph THEN "locate" ELSE "nil"
         /\ \E freed \in Orders({f \in from : degree[f] = Occurrences(n, MembersOf(f))}) : queue' = Tail(queue) \o freed
         /\ degree' = [f \in DOMAIN degree |-> degree[f] - Occurrences(n, MembersOf(f))]
         /\ graph' = graph \ {n}
  /\ UNCHANGED <<raw, sorted, proxies>>
LocateEnd ==
  /\ parse = "locate" /\ queue = <<>>
  /\ parse' = "loop"
  /\ UNCHANGED <<raw, graph, degree, queue, sorted, proxies>>

-----------------------------------------------------------------------------
(* ParseProxyProvider and Initial of each provider; "default" is reserved. *)
ParseProxyProvider(p) == p.decodes /\ p.type \in {"file", "http"}
parseProviders ==
  /\ Then("providers", \A p \in raw.providers : p.name # "default" /\ ParseProxyProvider(p) /\ p.initial, "groups")
  /\ UNCHANGED <<graph, degree, queue, sorted, proxies>>

Declared == {p.name : p \in raw.providers}
(* Fault: what a group lists is not looked up. *)
getProxiesLoose(g) == TRUE
getProxies(g)   == Range(g.proxies) \subseteq proxies
getProviders(g) == g.use \subseteq Declared
(* ParseProxyGroup: what it lists must be there already; with `proxies`    *)
(* alone the group becomes a provider of its name and, unless select or    *)
(* relay, needs a health check; what it uses must be a provider that is    *)
(* not a group.                                                            *)
ParseProxyGroup(g) ==
  /\ g.type \in GroupTypes
  /\ g.proxies # <<>> \/ g.use # {}
  /\ getProxies(g)
  /\ g.use = {} => g.name \notin Declared /\ (g.type \in {"select", "relay"} \/ g.check)
  /\ getProviders(g)
parseGroups ==
  LET g == Head(sorted)
  IN  /\ sorted # <<>>
      /\ Then("groups", ParseProxyGroup(g) /\ g.name \notin proxies, "groups")
      /\ proxies' = proxies \cup {g.name}
      /\ sorted' = Tail(sorted)
      /\ UNCHANGED <<graph, degree, queue>>
(* The group of everything, GLOBAL, whatever else had that name. *)
groupsEnd ==
  /\ sorted = <<>>
  /\ Then("groups", TRUE, "rules")
  /\ proxies' = proxies \cup {"GLOBAL"}
  /\ UNCHANGED <<graph, degree, queue, sorted>>

(* parseRules and ParseRule; params[0] is taken unchecked for three types. *)
ParseRule(r)  == r.type \in RuleTypes /\ (r.type \in {"IP-CIDR", "IP-CIDR6", "SRC-IP-CIDR", "DST-IP-PORT", "SRC-PORT", "DST-PORT"} => r.payload)
RulePanics(r) == r.type \in {"DST-IP-PORT", "DOMAIN-SRC-PORT", "DOMAIN-DST-PORT"} /\ r.fields < 4
RuleRefused(r) == r.fields < 2 \/ r.target \notin proxies \/ (~RulePanics(r) /\ ~ParseRule(r))
parseRules ==
  /\ parse = "rules"
  /\ LET bad == {i \in DOMAIN raw.rules : RuleRefused(raw.rules[i]) \/ RulePanics(raw.rules[i])}
     IN  parse' = IF bad = {} THEN "hosts"
                  ELSE IF RuleRefused(raw.rules[CHOOSE i \in bad : \A j \in bad : i <= j]) THEN "error" ELSE "panic"
  /\ UNCHANGED <<raw, graph, degree, queue, sorted, proxies>>

(* parseHosts: only a lone address is checked. *)
parseHosts ==
  /\ Then("hosts", \A h \in raw.hosts : h.list \/ h.ip, "dns")
  /\ UNCHANGED <<graph, degree, queue, sorted, proxies>>

parseNameServer(s) == s.scheme \in Schemes /\ (s.scheme \in {"udp", "tcp", "tls"} => s.addr)
parseNameServerPolicy(ps) == \A p \in ps : parseNameServer(p) /\ p.domain
parseDNS ==
  LET d == raw.dns
  IN  /\ Then("dns", /\ d.enable => d.nameserver # {}
                     /\ \A s \in d.nameserver \cup d.fallback \cup d.default : parseNameServer(s)
                     /\ parseNameServerPolicy(d.policy)
                     /\ d.default # {}
                     /\ \A s \in d.default : s.scheme \notin {"https", "dhcp"} /\ s.ip
                     /\ d.mode = "fake-ip" => d.range, "ok")
      /\ UNCHANGED <<graph, degree, queue, sorted, proxies>>

ConfigStep ==
  \/ parseGeneral \/ parseProxies \/ BuildGraph \/ TopoStep \/ TopoEnd \/ LocateStep \/ LocateEnd
  \/ parseProviders \/ parseGroups \/ groupsEnd \/ parseRules \/ parseHosts \/ parseDNS
ConfigNext == ConfigStep \/ \E r \in RawConfigs : Submit(r)
ConfigSpec == ConfigInit /\ [][ConfigNext]_configVars

-----------------------------------------------------------------------------
ConfigNodes == GroupNamesOf(raw.groups) \cup UNION {Range(raw.groups[i].proxies) : i \in DOMAIN raw.groups}
(* What n leads to: the least set with its members and theirs. *)
Closed(S)   == \A m \in S : Range(MembersOf(m)) \subseteq S
Reach(n)    == {m \in ConfigNodes : \A S \in SUBSET ConfigNodes : Range(MembersOf(n)) \subseteq S /\ Closed(S) => m \in S}
OnLoop(n)   == n \in Reach(n)

(* proxyGroupsDagSort, whatever the order of its queues: groups that are   *)
(* passed on are all the groups, each behind the groups it lists; a loop   *)
(* is reported exactly for the names that lie on a loop or between two,    *)
(* and a name is never looked up after its removal from the graph.         *)
DagSortSound ==
  /\ parse # "nil"
  /\ parse = "providers" =>
       /\ Len(sorted) = Len(raw.groups) /\ Range(sorted) = Range(raw.groups)
       /\ \A i, j \in DOMAIN sorted : sorted[j].name \in Range(sorted[i].proxies) => j < i
  /\ parse = "loop" =>
       /\ graph # {}
       /\ graph = {n \in ConfigNodes : /\ \E c \in ConfigNodes : OnLoop(c) /\ n \in {c} \cup Reach(c)
                                       /\ \E c \in ConfigNodes : OnLoop(c) /\ c \in {n} \cup Reach(n)}

(* Once a configuration is accepted, the target of a rule, followed        *)
(* through the groups, ends: no group is met twice, and each is made of    *)
(* proxies and groups of the configuration, of declared providers, or of   *)
(* both; with the resolver enabled there is a server to ask, found without *)
(* asking.                                                                 *)
AcceptedIsUsable ==
  parse = "ok" =>
    /\ \A i \in DOMAIN raw.rules : raw.rules[i].target \in proxies
    /\ \A n \in proxies \cap ConfigNodes : ~OnLoop(n)
    /\ \A n \in proxies \cap GroupNamesOf(raw.groups) :
         LET g == GroupCalled(n)
         IN  /\ g.proxies # <<>> \/ g.use # {}
             /\ \A i \in DOMAIN g.proxies : \/ g.proxies[i] \in {"DIRECT", "REJECT"}
                                            \/ \E p \in Range(raw.proxies) \cup Range(raw.groups) : p.name = g.proxies[i]
             /\ \A u \in g.use : \E p \in raw.providers : p.name = u /\ p.initial
    /\ raw.dns.enable => raw.dns.nameserver # {} /\ \E s \in raw.dns.default : s.ip
=============================================================================
