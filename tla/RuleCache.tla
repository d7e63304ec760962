----------------------------- MODULE RuleCache -----------------------------
(***************************************************************************)
(* Routing one connection: resolveMetadata, matchHashMap and match of      *)
(* package tunnel, with the cache Cm in front of the rule list, while the  *)
(* writers of RuleStore replace that list, ApplyConfig replaces the        *)
(* proxies and the API changes a selector or the mode.                     *)
(*                                                                         *)
(* match runs under configMux.RLock, UpdateRules and UpdateProxies under   *)
(* its write lock, so each is one step.  The lookups before match and the  *)
(* insertion after it hold no lock and are steps of their own.  A proxy is *)
(* the pair of a name and the configuration (generation) that built it.    *)
(***************************************************************************)
EXTENDS RuleStore

CONSTANTS
  Handlers,       \* goroutines routing a connection
  Flows,          \* connections, as their metadata tells them apart
  InfoKeys,       \* cache keys
  InfoKey,        \* flow -> key; two source ports share one
  IpFrom,         \* flow -> "packet", "hosts" or "dns": who knows its address
  Udp,            \* flows over UDP
  HostMatches,    \* rule -> flows it matches by host, port or process
  IpMatches,      \* rule -> flows it matches once their address is known
  ShouldResolve,  \* rules that ask for the address
  Names,          \* proxy names
  Adapter,        \* rule -> name of its proxy
  UdpNames,       \* names of proxies that carry UDP
  NamesIn,        \* generation -> names of that configuration
  MaxGen,         \* bound: configurations applied
  Modes,          \* the modes in use, of Rule, Direct and Global
  None

DIRECT == "DIRECT"
GLOBAL == "GLOBAL"

ASSUME CacheAssumption ==
  /\ InfoKey \in [Flows -> InfoKeys]
  /\ IpFrom \in [Flows -> {"packet", "hosts", "dns"}]
  /\ HostMatches \in [Rules -> SUBSET Flows]
  /\ IpMatches \in [Rules -> SUBSET Flows]
  /\ Adapter \in [Rules -> Names]
  /\ Modes \subseteq {"Rule", "Direct", "Global"} /\ "Rule" \in Modes
  /\ MaxGen \in Nat \ {0}
  /\ None \notin Rules /\ None \notin Flows

VARIABLES
  gen,       \* the configuration whose proxies are in tunnel.proxies
  applying,  \* ApplyConfig is between UpdateProxies and UpdateRules
  mode,      \* tunnel.mode
  cmRule,    \* Cm[infoKey + "_rule"]: a rule or None
  cmProxy,   \* Cm[infoKey + "_proxy"]: generation of a DIRECT, 0 for none
  pc, flow,  \* per handler: where it is, the connection it routes
  found,     \* per handler: the rule it looked up or matched, or None
  name, via, \* per handler: name and generation of the proxy it uses
  late,      \* history: the handler matched before the last UpdateRules
  overlap    \* history: keys a late handler has filled since the last purge

handlerVars == <<pc, flow, found, name, via>>
cacheVars == <<cmRule, cmProxy>>
routeVars == <<gen, applying, mode, cacheVars, handlerVars, late, overlap>>
allVars == <<storeVars, routeVars>>

RInit ==
  /\ Init
  /\ gen = 0
  /\ applying = FALSE
  /\ mode = "Rule"
  /\ cmRule = [k \in InfoKeys |-> None]
  /\ cmProxy = [k \in InfoKeys |-> 0]
  /\ pc = [h \in Handlers |-> "idle"]
  /\ flow = [h \in Handlers |-> None]
  /\ found = [h \in Handlers |-> None]
  /\ name = [h \in Handlers |-> DIRECT]
  /\ via = [h \in Handlers |-> 0]
  /\ late = [h \in Handlers |-> FALSE]
  /\ overlap = {}

-----------------------------------------------------------------------------
(* rule.Match(metadata), with or without an address in the metadata *)
Match(r, f, ip) == f \in HostMatches[r] \/ (ip /\ f \in IpMatches[r])

(* The address is in the metadata when the loop of match is at rule i of   *)
(* rs: it came with the packet or from the hosts, or a rule up to i asked  *)
(* for it and the resolver answered.                                       *)
Resolved(rs, f, i, ok) ==
  \/ IpFrom[f] # "dns"
  \/ ok /\ \E j \in 1..i : rs[j] \in ShouldResolve

(* The name is among the proxies of generation g, whose proxy carries f. *)
Usable(g, n, f) == n \in NamesIn[g] /\ (f \in Udp => n \in UdpNames)

(* Rule i is accepted by the loop of match. *)
Accepts(rs, g, i, f, ok) ==
  Match(rs[i], f, Resolved(rs, f, i, ok)) /\ Usable(g, Adapter[rs[i]], f)

(* What the loop of match returns: the first rule it accepts, or none. *)
Selected(rs, g, f, ok, r) ==
  \/ \E i \in 1..Len(rs) :
       /\ r = rs[i] /\ Accepts(rs, g, i, f, ok)
       /\ \A j \in 1..(i - 1) : ~Accepts(rs, g, j, f, ok)
  \/ r = None /\ \A i \in 1..Len(rs) : ~Accepts(rs, g, i, f, ok)

(* Listeners are opened by updateGeneral, after the first updateRules. *)
Listening == gen > 1 \/ (gen = 1 /\ ~applying)

(* resolveMetadata in mode Direct or Global *)
RouteByMode(h, f) ==
  /\ pc[h] = "idle" /\ Listening /\ mode # "Rule"
  /\ pc' = [pc EXCEPT ![h] = "done"]
  /\ flow' = [flow EXCEPT ![h] = f]
  /\ found' = [found EXCEPT ![h] = None]
  /\ name' = [name EXCEPT ![h] = IF mode = "Direct" THEN DIRECT ELSE GLOBAL]
  /\ via' = [via EXCEPT ![h] = gen]
  /\ UNCHANGED <<storeVars, gen, applying, mode, cacheVars, late, overlap>>

(* matchHashMap: Cm.Get(infoKey + "_rule") *)
GetRule(h, f) ==
  /\ pc[h] = "idle" /\ Listening /\ mode = "Rule"
  /\ pc' = [pc EXCEPT ![h] = IF cmRule[InfoKey[f]] = None
                             THEN "getproxy" ELSE "check"]
  /\ flow' = [flow EXCEPT ![h] = f]
  /\ found' = [found EXCEPT ![h] = cmRule[InfoKey[f]]]
  /\ UNCHANGED <<storeVars, gen, applying, mode, cacheVars, name, via, late,
                 overlap>>

(* Fault: a cached rule is used for every connection of its key. *)
CheckRuleTrusting(h) ==
  /\ pc[h] = "check"
  /\ IF Usable(gen, Adapter[found[h]], flow[h])
     THEN /\ pc' = [pc EXCEPT ![h] = "done"]
          /\ name' = [name EXCEPT ![h] = Adapter[found[h]]]
          /\ via' = [via EXCEPT ![h] = gen]
          /\ UNCHANGED found
     ELSE /\ pc' = [pc EXCEPT ![h] = "getproxy"]
          /\ found' = [found EXCEPT ![h] = None]
          /\ UNCHANGED <<name, via>>
  /\ UNCHANGED <<storeVars, gen, applying, mode, cacheVars, flow, late, overlap>>

(* matchHashMap: the cached rule must match this connection, its proxy     *)
(* must still exist and carry UDP if needed; the address is not looked up. *)
CheckRule(h) ==
  /\ pc[h] = "check"
  /\ IF /\ Usable(gen, Adapter[found[h]], flow[h])
        /\ Match(found[h], flow[h], IpFrom[flow[h]] = "packet")
     THEN /\ pc' = [pc EXCEPT ![h] = "done"]
          /\ name' = [name EXCEPT ![h] = Adapter[found[h]]]
          /\ via' = [via EXCEPT ![h] = gen]
          /\ UNCHANGED found
     ELSE /\ pc' = [pc EXCEPT ![h] = "getproxy"]
          /\ found' = [found EXCEPT ![h] = None]
          /\ UNCHANGED <<name, via>>
  /\ UNCHANGED <<storeVars, gen, applying, mode, cacheVars, flow, late, overlap>>

(* matchHashMap: Cm.Get(infoKey + "_proxy"), used as it is *)
GetProxy(h) ==
  /\ pc[h] = "getproxy"
  /\ IF cmProxy[InfoKey[flow[h]]] # 0
     THEN /\ pc' = [pc EXCEPT ![h] = "done"]
          /\ name' = [name EXCEPT ![h] = DIRECT]
          /\ via' = [via EXCEPT ![h] = cmProxy[InfoKey[flow[h]]]]
     ELSE /\ pc' = [pc EXCEPT ![h] = "match"]
          /\ UNCHANGED <<name, via>>
  /\ UNCHANGED <<storeVars, gen, applying, mode, cacheVars, flow, found, late,
                 overlap>>

(* match, under the read lock; ok is the resolver's answer *)
MatchRules(h, ok) ==
  /\ pc[h] = "match"
  /\ \E r \in Rules \cup {None} :
       /\ Selected(rules, gen, flow[h], ok, r)
       /\ found' = [found EXCEPT ![h] = r]
       /\ name' = [name EXCEPT ![h] = IF r = None THEN DIRECT ELSE Adapter[r]]
  /\ via' = [via EXCEPT ![h] = gen]
  /\ pc' = [pc EXCEPT ![h] = "insert"]
  /\ late' = [late EXCEPT ![h] = FALSE]
  /\ UNCHANGED <<storeVars, gen, applying, mode, cacheVars, flow, overlap>>

(* setMatchHashMap, after the lock is released *)
Insert(h) ==
  /\ pc[h] = "insert"
  /\ LET k == InfoKey[flow[h]]
     IN  /\ IF found[h] # None
            THEN cmRule' = [cmRule EXCEPT ![k] = found[h]] /\ UNCHANGED cmProxy
            ELSE cmProxy' = [cmProxy EXCEPT ![k] = via[h]] /\ UNCHANGED cmRule
         /\ overlap' = IF late[h] THEN overlap \cup {k} ELSE overlap
  /\ pc' = [pc EXCEPT ![h] = "done"]
  /\ UNCHANGED <<storeVars, gen, applying, mode, flow, found, name, via, late>>

(* The connection is over and the goroutine routes another one. *)
Done(h) ==
  /\ pc[h] = "done"
  /\ pc' = [pc EXCEPT ![h] = "idle"]
  /\ flow' = [flow EXCEPT ![h] = None]
  /\ found' = [found EXCEPT ![h] = None]
  /\ name' = [name EXCEPT ![h] = DIRECT]
  /\ via' = [via EXCEPT ![h] = 0]
  /\ late' = [late EXCEPT ![h] = FALSE]
  /\ UNCHANGED <<storeVars, gen, applying, mode, cacheVars, overlap>>

-----------------------------------------------------------------------------
(* Cm.Purge() *)
Purge ==
  /\ cmRule' = [k \in InfoKeys |-> None]
  /\ cmProxy' = [k \in InfoKeys |-> 0]

(* Cm.Add of another key may evict an entry when the cache is full. *)
Evict(k) ==
  /\ \/ cmRule' = [cmRule EXCEPT ![k] = None] /\ UNCHANGED cmProxy
     \/ cmProxy' = [cmProxy EXCEPT ![k] = 0] /\ UNCHANGED cmRule
  /\ UNCHANGED <<storeVars, gen, applying, mode, handlerVars, late, overlap>>

(* updateProxy: a selector takes another member and the cache is purged. *)
SelectorChanged ==
  /\ Purge
  /\ overlap' = {}
  /\ UNCHANGED <<storeVars, gen, applying, mode, handlerVars, late>>

SetMode(m) ==
  /\ mode # m
  /\ mode' = m
  /\ UNCHANGED <<storeVars, gen, applying, cacheVars, handlerVars, late, overlap>>

(* ApplyConfig: updateProxies *)
UpdateProxies ==
  /\ ~applying /\ gen < MaxGen
  /\ gen' = gen + 1
  /\ applying' = TRUE
  /\ UNCHANGED <<storeVars, mode, cacheVars, handlerVars, late, overlap>>

(* Fault: the list is replaced and the cache keeps its entries. *)
ReplaceRulesNoPurge ==
  /\ Replaces
  /\ applying' = IF load = "update" /\ load' = "idle" THEN FALSE ELSE applying
  /\ late' = [h \in Handlers |-> late[h] \/ pc[h] = "insert"]
  /\ UNCHANGED <<gen, mode, cacheVars, handlerVars, overlap>>

(* A call of UpdateRules: the list is replaced and the cache purged. *)
ReplaceRules ==
  /\ Replaces
  /\ Purge
  /\ applying' = IF load = "update" /\ load' = "idle" THEN FALSE ELSE applying
  /\ late' = [h \in Handlers |-> late[h] \/ pc[h] = "insert"]
  /\ overlap' = {}
  /\ UNCHANGED <<gen, mode, handlerVars>>

(* The other steps of the writers; a reload follows UpdateProxies. *)
WriterStep ==
  /\ Keeps
  /\ load = "idle" /\ load' = "open" => applying
  /\ UNCHANGED routeVars

Route(h) ==
  \/ \E f \in Flows : RouteByMode(h, f) \/ GetRule(h, f)
  \/ CheckRule(h) \/ GetProxy(h) \/ Insert(h) \/ Done(h)
  \/ \E ok \in BOOLEAN : MatchRules(h, ok)

RNext ==
  \/ \E h \in Handlers : Route(h)
  \/ \E k \in InfoKeys : Evict(k)
  \/ \E m \in Modes : SetMode(m)
  \/ SelectorChanged \/ UpdateProxies \/ ReplaceRules \/ WriterStep

RSpec == RInit /\ [][RNext]_allVars
-----------------------------------------------------------------------------
(* Every variable of the readers has a value of its declaration. *)
RTypeOK ==
  /\ gen \in 0..MaxGen
  /\ applying \in BOOLEAN
  /\ mode \in Modes
  /\ cmRule \in [InfoKeys -> Rules \cup {None}]
  /\ cmProxy \in [InfoKeys -> 0..MaxGen]
  /\ pc \in [Handlers -> {"idle", "check", "getproxy", "match", "insert", "done"}]
  /\ flow \in [Handlers -> Flows \cup {None}]
  /\ \A h \in Handlers : pc[h] # "idle" => flow[h] \in Flows
  /\ found \in [Handlers -> Rules \cup {None}]
  /\ \A h \in Handlers : pc[h] = "check" => found[h] \in Rules
  /\ \A h \in Handlers : pc[h] \in {"getproxy", "match"} => found[h] = None
  /\ name \in [Handlers -> Names \cup {DIRECT, GLOBAL}]
  /\ via \in [Handlers -> 0..MaxGen]
  /\ late \in [Handlers -> BOOLEAN]
  /\ overlap \in SUBSET InfoKeys

(* A connection sent out under a rule is one that the rule matches, by the *)
(* proxy the rule names, taken from the proxies of one configuration that  *)
(* had it, and over a proxy that carries UDP if it is UDP: even though the *)
(* cache key leaves out the source port and the process, the entry may be  *)
(* older than the rule list and the proxies may be replaced under it.      *)
RoutedByMatchingRule ==
  \A h \in Handlers :
    pc[h] \in {"insert", "done"} /\ found[h] # None =>
      /\ Match(found[h], flow[h], TRUE)
      /\ name[h] = Adapter[found[h]]
      /\ name[h] \in NamesIn[via[h]]
      /\ flow[h] \in Udp => name[h] \in UdpNames

(* Outside a reload, a cache entry is what match returns now for some      *)
(* connection of its key, with the proxies of the present configuration:   *)
(* the purge of UpdateRules leaves nothing of an older list behind, except *)
(* under the keys where a lookup that overlapped it inserted afterwards.   *)
CacheFollowsRules ==
  ~applying =>
    \A k \in InfoKeys \ overlap :
      /\ cmRule[k] # None =>
           \E f \in Flows, ok \in BOOLEAN :
             InfoKey[f] = k /\ Selected(rules, gen, f, ok, cmRule[k])
      /\ cmProxy[k] # 0 =>
           /\ cmProxy[k] = gen
           /\ \E f \in Flows, ok \in BOOLEAN :
                InfoKey[f] = k /\ Selected(rules, gen, f, ok, None)

(* What a handler is about to insert is current unless UpdateRules ran     *)
(* since its match; between reloads nothing but UpdateRules changes rules. *)
PendingFollowsRules ==
  /\ load # "idle" => applying
  /\ ~applying =>
       \A h \in Handlers :
         pc[h] = "insert" /\ ~late[h] =>
           /\ via[h] = gen
           /\ \E ok \in BOOLEAN : Selected(rules, gen, flow[h], ok, found[h])
============================================================================
