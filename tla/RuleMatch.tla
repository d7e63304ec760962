------------------------------ MODULE RuleMatch ------------------------------
(* What every type of rule matches, the decision tunnel.match takes over   *)
(* the rule list, and the answer matchHashMap gives from its cache for a   *)
(* connection with the same key.  The metadata keep the fields rules and   *)
(* keys look at (the inbound type is one and the same); a name is the      *)
(* sequence of its labels, a network or country the set of its addresses,  *)
(* a process what the lookup finds.                                        *)
EXTENDS Naturals, Sequences

CONSTANTS
  RuleLists,  \* lists of rules: [tp, name, payload, port, adapter, noResolve]
  Metas,      \* connections: [host, atyp, src, dst, sport, dport, net, process]
  HostsIp,    \* name -> address in the hosts table, "nil" if absent
  DnsIp,      \* name -> address ResolveIP finds, "nil" on error
  ProxyNames, \* names tunnel.proxies knows
  UdpProxies  \* those that carry UDP

ASSUME MatchAssumption ==
  /\ \A rs \in RuleLists : \A i \in DOMAIN rs :
       rs[i].tp \in {"DOMAIN", "DOMAIN-SUFFIX", "DOMAIN-KEYWORD", "DOMAIN-SRC-PORT", "DOMAIN-DST-PORT", "IP-CIDR", "SRC-IP-CIDR",
                    "DST-IP-PORT", "SRC-PORT", "DST-PORT", "GEOIP", "ALLIP", "PROCESS-NAME", "MATCH"}
  /\ \A m \in Metas : m = [host |-> m.host, atyp |-> m.atyp, src |-> m.src, dst |-> m.dst, sport |-> m.sport,
                           dport |-> m.dport, net |-> m.net, process |-> m.process]

VARIABLES
  ruleList,   \* tunnel.rules
  cm,         \* Cm: key -> index of the cached rule or 0, and whether DIRECT is cached
  decided     \* the last decision: the connection and the index of its rule, 0 for DIRECT

matchVars == <<ruleList, cm, decided>>

(* NewIPCIDR, NewDomainAndPort...: the options a type brings along. *)
IsSource(r)      == r.tp \in {"SRC-IP-CIDR", "SRC-PORT", "DOMAIN-SRC-PORT"}
ShouldResolveIP(r) == r.tp \in {"IP-CIDR", "GEOIP"} /\ ~r.noResolve

(* The Match of every type.  Names count only when the address is a name. *)
DomainMatch(r, m)        == m.atyp = "name" /\ m.host = r.name
DomainSuffixMatch(r, m)  == m.atyp = "name" /\ \E i \in 1..Len(m.host) : SubSeq(m.host, i, Len(m.host)) = r.name
DomainKeywordMatch(r, m) == m.atyp = "name" /\ \E i, j \in DOMAIN m.host : SubSeq(m.host, i, j) = r.name
PortMatch(r, m)   == r.port = IF IsSource(r) THEN m.sport ELSE m.dport
IPCIDRMatch(r, m) ==
  LET ip == IF IsSource(r) THEN m.src ELSE m.dst
  IN  ip # "nil" /\ ip \in r.payload /\ (r.tp = "DST-IP-PORT" => m.dport = r.port)
DomainAndPortMatch(r, m) == PortMatch(r, m) /\ DomainSuffixMatch(r, m)
GEOIPMatch(r, m)   == m.dst # "nil" /\ m.dst \in r.payload
AllIPMatch(m)      == m.host = <<>> /\ (m.dst # "nil" \/ m.src # "nil")
ProcessMatch(r, m) == m.process \in r.payload

RuleMatches(r, m) ==
  CASE r.tp = "DOMAIN"         -> DomainMatch(r, m)
    [] r.tp = "DOMAIN-SUFFIX"  -> DomainSuffixMatch(r, m)
    [] r.tp = "DOMAIN-KEYWORD" -> DomainKeywordMatch(r, m)
    [] r.tp \in {"DOMAIN-SRC-PORT", "DOMAIN-DST-PORT"}    -> DomainAndPortMatch(r, m)
    [] r.tp \in {"IP-CIDR", "SRC-IP-CIDR", "DST-IP-PORT"} -> IPCIDRMatch(r, m)
    [] r.tp \in {"SRC-PORT", "DST-PORT"}                  -> PortMatch(r, m)
    [] r.tp = "GEOIP"        -> GEOIPMatch(r, m)
    [] r.tp = "ALLIP"        -> AllIPMatch(m)
    [] r.tp = "PROCESS-NAME" -> ProcessMatch(r, m)
    [] r.tp = "MATCH"        -> TRUE

(* Fault: the key leaves the name out. *)
InfoKeyNoHost(m) == [src |-> m.src, dst |-> m.dst, dport |-> m.dport, atyp |-> m.atyp, net |-> m.net]
(* Metadata.InfoKey: source port and process are not part of it. *)
InfoKey(m) == [src |-> m.src, dst |-> m.dst, dport |-> m.dport, host |-> m.host, atyp |-> m.atyp, net |-> m.net]

Serves(r, m) == r.adapter \in ProxyNames /\ (m.net = "udp" => r.adapter \in UdpProxies)
(* match: the metadata rule i sees.  The hosts table resolves at once,     *)
(* else the first rule that wants the address does.                        *)
Seen(rs, m, i) ==
  LET wanted == m.host # <<>> /\ m.dst = "nil"
      ip == IF m.host # <<>> /\ HostsIp[m.host] # "nil" THEN HostsIp[m.host]
            ELSE IF \E j \in 1..i : ShouldResolveIP(rs[j]) THEN DnsIp[m.host] ELSE "nil"
  IN  IF wanted THEN [m EXCEPT !.dst = ip] ELSE m
Hits(rs, m) == {i \in DOMAIN rs : RuleMatches(rs[i], Seen(rs, m, i)) /\ Serves(rs[i], m)}
match(rs, m) == IF Hits(rs, m) = {} THEN 0 ELSE CHOOSE i \in Hits(rs, m) : \A j \in Hits(rs, m) : i <= j

MatchInit == ruleList \in RuleLists /\ cm = <<>> /\ decided = <<>>

(* matchHashMap: the cached rule if it still matches the connection as it  *)
(* came (unresolved) and its proxy serves, the cached DIRECT, or match and *)
(* a new entry.                                                            *)
matchHashMap(m) ==
  LET k == InfoKey(m)
      e == IF k \in DOMAIN cm THEN cm[k] ELSE [rule |-> 0, direct |-> FALSE]
      ByRule == e.rule # 0 /\ RuleMatches(ruleList[e.rule], m) /\ Serves(ruleList[e.rule], m)
      d == IF ByRule THEN e.rule ELSE IF e.direct THEN 0 ELSE match(ruleList, m)
      n == IF d # 0 THEN [e EXCEPT !.rule = d] ELSE [e EXCEPT !.direct = TRUE]
  IN  /\ decided' = [meta |-> m, rule |-> d]
      /\ cm' = [x \in DOMAIN cm \cup {k} |-> IF x = k THEN n ELSE cm[x]]
      /\ UNCHANGED ruleList
(* UpdateRules, with its purge. *)
UpdateRuleList(rs) == ruleList' = rs /\ cm' = <<>> /\ decided' = <<>>

MatchNext == (\E m \in Metas : matchHashMap(m)) \/ (\E rs \in RuleLists : UpdateRuleList(rs))
MatchSpec == MatchInit /\ [][MatchNext]_matchVars

-----------------------------------------------------------------------------
(* Where no rule looks at what the key leaves out (source port, process),  *)
(* a connection served from the cache goes where match would send it.      *)
KeyBlind(rs) == \A i \in DOMAIN rs : rs[i].tp \notin {"SRC-PORT", "DOMAIN-SRC-PORT", "PROCESS-NAME"}
CachedAsMatched ==
  decided # <<>> /\ KeyBlind(ruleList) => decided.rule = match(ruleList, decided.meta)
=============================================================================
