------------------------------ MODULE MCControl ------------------------------
(* The control side, for TLC: parsing a configuration, applying it, the    *)
(* rules and the domain trie that decide, the DNS server and the names it  *)
(* remembers.  The five share no variable; part says which one a behaviour *)
(* is about, the others staying in an initial state.                       *)
EXTENDS Config, Reload, DomainTrie, RuleMatch, DnsNames

VARIABLE part

vars == <<configVars, reloadVars, trieVars, matchVars, dnsVars, part>>

(* Config. *)
Server(sch, addr, ip) == [scheme |-> sch, addr |-> addr, ip |-> ip, domain |-> TRUE]
Proxy(n, t, d) == [name |-> n, type |-> t, decodes |-> d]
Group(n, t, ms, use, chk) == [name |-> n, type |-> t, proxies |-> ms, use |-> use, check |-> chk, named |-> TRUE]
Rule(t, n, target, pay) == [type |-> t, fields |-> n, target |-> target, payload |-> pay]
PlainDns == [enable |-> TRUE, nameserver |-> {Server("udp", TRUE, TRUE)}, fallback |-> {}, default |-> {Server("udp", TRUE, TRUE)},
             policy |-> {}, mode |-> "normal", range |-> TRUE]
Base == [ui |-> TRUE, proxies |-> <<Proxy("p", "trojan", TRUE)>>, providers |-> {[name |-> "q", type |-> "file", decodes |-> TRUE, initial |-> TRUE]},
         groups |-> <<Group("a", "select", <<"p">>, {}, FALSE)>>, rules |-> <<Rule("MATCH", 2, "a", TRUE)>>, hosts |-> {}, dns |-> PlainDns]
MemberLists == {<<"p">>, <<"a">>, <<"b">>, <<"c">>, <<"b", "c">>, <<"c", "p", "c">>, <<"a", "b">>}
Sel(n, ms) == Group(n, "select", ms, {}, FALSE)
MCRawConfigs ==
  {[Base EXCEPT !.groups = <<Sel("a", x), Sel("b", y), Sel("c", z)>>] : x, y, z \in MemberLists}
  \cup {[Base EXCEPT !.groups = <<Group("a", t, m, u, k)>>, !.rules = <<Rule("MATCH", 2, "a", TRUE)>>] :
         t \in {"select", "fallback", "bogus"}, m \in {<<>>, <<"DIRECT", "p">>, <<"x">>}, u \in {{}, {"q"}, {"x"}}, k \in BOOLEAN}
  \cup {[Base EXCEPT !.groups = <<Sel("q", <<"p">>)>>], [Base EXCEPT !.groups = <<Sel("p", <<"p">>)>>], [Base EXCEPT !.groups = <<Sel("GLOBAL", <<"p">>), Sel("a", <<"GLOBAL">>)>>],
        [Base EXCEPT !.groups = <<Sel("a", <<"p">>), Sel("a", <<"p">>)>>], [Base EXCEPT !.groups = <<>>], [Base EXCEPT !.ui = FALSE],
        [Base EXCEPT !.groups = <<[Sel("a", <<"p">>) EXCEPT !.named = FALSE]>>]}
  \cup {[Base EXCEPT !.proxies = <<Proxy(n, t, d), Proxy("p", "http", TRUE)>>] : n \in {"p", "r", "DIRECT"}, t \in {"socks5", "ss"}, d \in BOOLEAN}
  \cup {[Base EXCEPT !.providers = {[name |-> n, type |-> t, decodes |-> d, initial |-> i]}] : n \in {"default", "q"}, t \in {"http", "x"}, d, i \in BOOLEAN}
  \cup {[Base EXCEPT !.rules = <<Rule(t, n, g, pay), Rule("MATCH", 2, "DIRECT", TRUE)>>] : t \in {"DOMAIN", "IP-CIDR", "DST-IP-PORT", "x"}, n \in {1, 3, 4}, g \in {"p", "GLOBAL", "x"}, pay \in BOOLEAN}
  \cup {[Base EXCEPT !.hosts = {[list |-> l, ip |-> i]}] : l, i \in BOOLEAN}
  \cup {[Base EXCEPT !.dns = [PlainDns EXCEPT !.nameserver = ns, !.default = df, !.mode = m, !.range = r, !.enable = e]] :
         ns \in {{}, {Server("https", TRUE, FALSE)}, {Server("x", TRUE, FALSE)}},
         df \in {{}, {Server("udp", TRUE, TRUE)}, {Server("tls", TRUE, FALSE)}}, m \in {"fake-ip", "normal"}, r, e \in BOOLEAN}

(* Reload. *)
Ports(h, s, r, t, m) == [k \in Kind |-> CASE k = "http" -> h [] k = "socks" -> s [] k = "redir" -> r [] k = "tproxy" -> t [] k = "mixed" -> m]
MCPlans == {[id |-> "one", port |-> Ports(0, 1, 0, 0, 2), lan |-> TRUE, dns |-> TRUE, listen |-> 5, force |-> TRUE],
            [id |-> "two", port |-> Ports(1, 2, 0, 0, 0), lan |-> TRUE, dns |-> TRUE, listen |-> 6, force |-> FALSE],
            [id |-> "three", port |-> Ports(1, 0, 2, 3, 0), lan |-> FALSE, dns |-> FALSE, listen |-> 5, force |-> TRUE]}
MCPatchPlans == {[port |-> Ports(0, 0, 0, 0, 1), lan |-> FALSE]}

(* DomainTrie. *)
MCPatterns == {<<"com">>, <<"a", "com">>, <<"b", "a", "com">>, <<"*", "com">>, <<"b", "*", "com">>, <<"*", "a", "com">>,
               <<"", "com">>, <<"", "a", "com">>, <<"+", "a", "com">>, <<"+", "com">>, <<"+", "*">>, <<"">>, <<"a", "", "com">>}
MCDomainNames == {<<"com">>, <<"a", "com">>, <<"b", "com">>, <<"b", "a", "com">>, <<"a", "b", "com">>, <<"b", "b", "com">>, <<"a", "a", "com">>, <<"b", "b", "a", "com">>, <<"", "com">>}

(* RuleMatch. *)
RuleOf(tp, name, payload, port, adapter) == [tp |-> tp, name |-> name, payload |-> payload, port |-> port, adapter |-> adapter, noResolve |-> FALSE]
NameA == <<"a", "com">>
NameB == <<"b", "a", "com">>
MCRules == {RuleOf("DOMAIN", NameA, {}, "-", "p"), RuleOf("DOMAIN-KEYWORD", <<"b">>, {}, "-", "q"), RuleOf("DOMAIN-DST-PORT", NameA, {}, "80", "gone"),
            RuleOf("IP-CIDR", <<>>, {"1"}, "-", "p"), RuleOf("SRC-IP-CIDR", <<>>, {"9"}, "-", "q"), RuleOf("DST-IP-PORT", <<>>, {"1", "2"}, "80", "q"),
            [RuleOf("IP-CIDR", <<>>, {"2"}, "-", "p") EXCEPT !.noResolve = TRUE],
            RuleOf("DST-PORT", <<>>, {}, "80", "q"), RuleOf("GEOIP", <<>>, {"2"}, "-", "q"), RuleOf("ALLIP", <<>>, {}, "-", "p"), RuleOf("MATCH", <<>>, {}, "-", "p"),
            RuleOf("SRC-PORT", <<>>, {}, "7", "q"), RuleOf("DOMAIN-SRC-PORT", NameB, {}, "7", "p"), RuleOf("PROCESS-NAME", <<>>, {"x"}, "-", "q")}
MCRuleLists == {<<r, RuleOf("DOMAIN-SUFFIX", NameA, {}, "-", "q"), RuleOf("IP-CIDR", <<>>, {"1"}, "-", "p")>> : r \in MCRules}
Meta(host, atyp, dst, sport, net) == [host |-> host, atyp |-> atyp, src |-> "9", dst |-> dst, sport |-> sport, dport |-> "80", net |-> net, process |-> "x"]
MCMetas == {Meta(NameA, "name", "nil", "7", "tcp"), Meta(NameA, "name", "nil", "8", "tcp"), Meta(NameB, "name", "nil", "7", "tcp"), Meta(<<>>, "ip", "1", "7", "tcp"), Meta(<<>>, "ip", "2", "7", "udp"),
            Meta(NameB, "ip", "2", "7", "tcp"), Meta(NameB, "name", "1", "7", "udp")}
MCHostsIp == NameA :> "nil" @@ NameB :> "2"
MCDnsIp == NameA :> "1" @@ NameB :> "1"

(* DnsNames. *)
MCHostsTable == "a" :> {} @@ "b" :> {} @@ "h" :> {"1", "6"} @@ "g" :> {}
MCUpstream == "a" :> {{"1"}, {"1", "6"}} @@ "b" :> {{"1"}, {"2"}} @@ "h" :> {{}} @@ "g" :> {{}}

-----------------------------------------------------------------------------
Init ==
  /\ part \in {"config", "reload", "trie", "match", "dns"}
  /\ ConfigInit /\ ReloadInit /\ TrieInit /\ MatchInit /\ DnsInit
  /\ part # "match" => ruleList = CHOOSE l \in RuleLists : TRUE
  /\ part # "dns"   => ~ipv6 /\ ~unsaved
Next ==
  \/ part = "config" /\ ConfigNext /\ UNCHANGED <<reloadVars, trieVars, matchVars, dnsVars, part>>
  \/ part = "reload" /\ ReloadNext /\ UNCHANGED <<configVars, trieVars, matchVars, dnsVars, part>>
  \/ part = "trie"   /\ TrieNext   /\ UNCHANGED <<configVars, reloadVars, matchVars, dnsVars, part>>
  \/ part = "match"  /\ MatchNext  /\ UNCHANGED <<configVars, reloadVars, trieVars, dnsVars, part>>
  \/ part = "dns"    /\ DnsNext    /\ UNCHANGED <<configVars, reloadVars, trieVars, matchVars, part>>
Spec == Init /\ [][Next]_vars /\ ReloadFairness
=============================================================================
