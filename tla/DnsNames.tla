------------------------------ MODULE DnsNames -------------------------------
(* The DNS server's chain of handlers (hosts, ADGuard, mapping, resolver), *)
(* the tables that remember which name an address was handed out for (the  *)
(* enhancer's mapping, Dm, and the database behind both), and              *)
(* preHandleMetadata, which gives a connection to an address its name      *)
(* back.  Fake-IP has a module of its own: NewEnhancer turns it into       *)
(* mapping, so its handler is never in the chain.                          *)
EXTENDS Naturals, Sequences, FiniteSets

CONSTANTS
  Hosts,      \* names asked for
  V4, V6,     \* addresses
  HostsTable, \* name -> addresses in the hosts file, {} if not in it
  ADGurdRules, \* names ADGuard blocks
  Upstream,   \* name -> sets of addresses the resolver may find
  MapSize,    \* capacity of the mapping
  QueueSize,  \* capacity of saveMapQueue
  Queries,    \* handlers of the server
  MaxAsks, MaxEpochs, MaxRestarts \* bounds: queries, reloads, restarts

ASSUME NamesAssumption ==
  /\ V4 \cap V6 = {} /\ \A h \in Hosts : HostsTable[h] \subseteq V4 \cup V6
  /\ "none" \notin Hosts \cup V4 \cup V6
  /\ MaxEpochs \in Nat \ {0}

VARIABLES
  ipv6, unsaved, \* configuration: dns.ipv6, C.UNSaveDNSDB
  epoch,    \* the enhancer in use; a reload makes the next
  mapping,  \* enhancer -> address -> name
  shared,   \* addresses whose entry the last two enhancers share, CloneTo copying pointers
  dm,       \* tunnel.Dm: address -> name
  db,       \* bucket MapIPDomain: address -> name
  mapQueue, \* saveMapQueue
  saving,   \* goroutines of handleDnsMap: what they save and how far they are
  query,    \* handler -> where it is, its question, what is left to map, its reply
  answered, \* history: <<address, name>> of every answer of the resolver
  evicted,  \* history: addresses evicted from the mapping in use
  asks, restarts

dnsVars == <<ipv6, unsaved, epoch, mapping, shared, dm, db, mapQueue, saving, query, answered, evicted, asks, restarts>>

Empty  == [ip \in {} |-> "none"]
NoAsk  == [at |-> "idle", q |-> "none", host |-> "none", epoch |-> 0, todo |-> {}, ips |-> {}]
With(f, ip, h)  == [x \in DOMAIN f \cup {ip} |-> IF x = ip THEN h ELSE f[x]]
Without(f, ip)  == [x \in DOMAIN f \ {ip} |-> f[x]]

DnsInit ==
  /\ ipv6 \in BOOLEAN /\ unsaved \in BOOLEAN
  /\ epoch = 1 /\ mapping = [e \in 1..MaxEpochs |-> Empty] /\ shared = {}
  /\ dm = Empty /\ db = Empty /\ mapQueue = <<>> /\ saving = <<>>
  /\ query = [x \in Queries |-> NoAsk]
  /\ answered = {} /\ evicted = {} /\ asks = 0 /\ restarts = 0

-----------------------------------------------------------------------------
(* The chain. *)

(* withHosts: the addresses of the asked family, none of v6 when it is off. *)
withHosts(h, q) == HostsTable[h] \cap (IF q = "A" THEN V4 ELSE IF ipv6 THEN V6 ELSE {})

(* Resolver.Exchange: an error, a refusal, or addresses of the asked family. *)
Failed == [err |-> TRUE, ok |-> FALSE, ips |-> {}]
Exchange(h, q) ==
  {Failed, [err |-> FALSE, ok |-> FALSE, ips |-> {}]}
  \cup {[err |-> FALSE, ok |-> TRUE, ips |-> s \cap (IF q = "A" THEN V4 ELSE V6)] : s \in Upstream[h]}
NoAnswer == [err |-> FALSE, ok |-> TRUE, ips |-> {}]

(* dualQuery, when both results are in: the A answer with the AAAA         *)
(* addresses, the AAAA answer alone, or the A refusal; two errors make an  *)
(* empty answer.                                                           *)
dualQuery(a, b) ==
  IF a.ok THEN [a EXCEPT !.ips = @ \cup b.ips]
  ELSE IF b.ok THEN b ELSE IF a.err THEN NoAnswer ELSE a
(* withResolver. *)
withResolver(h, q) ==
  IF q = "AAAA" /\ ~ipv6 THEN {NoAnswer}
  ELSE IF q = "A" /\ ipv6 THEN {dualQuery(a, b) : a \in Exchange(h, "A"), b \in Exchange(h, "AAAA")}
  ELSE Exchange(h, q)

ADGurdMatch(h) == h \in ADGurdRules
(* newHandler's chain: hosts and ADGuard answer without the resolver; an   *)
(* error (SERVFAIL), a refusal or an empty answer leaves nothing to map.   *)
newHandler(h, q) ==
  IF HostsTable[h] # {} THEN {[host |-> "hosts", ips |-> withHosts(h, q), todo |-> {}]}
  ELSE IF ADGurdMatch(h) THEN {[host |-> h, ips |-> {}, todo |-> {}]}
  ELSE {[host |-> h, ips |-> m.ips, todo |-> m.ips] : m \in withResolver(h, q)}
ServeDNS(x, h, q) ==
  /\ query[x].at # "map" /\ asks < MaxAsks /\ asks' = asks + 1
  /\ \E r \in newHandler(h, q) :
       /\ query' = [query EXCEPT ![x] = [at |-> IF r.todo = {} THEN "replied" ELSE "map", q |-> q, host |-> r.host,
                                         epoch |-> epoch, todo |-> r.todo, ips |-> r.ips]]
       /\ answered' = answered \cup (r.todo \X {h})
  /\ UNCHANGED <<ipv6, unsaved, epoch, mapping, shared, dm, db, mapQueue, saving, evicted, restarts>>

(* The mapping of an enhancer with one more name: an entry shared with the *)
(* other enhancer changes in both.                                         *)
Mapped(e, ip, h) ==
  [f \in DOMAIN mapping |-> IF f = e \/ (ip \in shared /\ f \in {e - 1, e + 1} /\ ip \in DOMAIN mapping[f])
                            THEN With(mapping[f], ip, h) ELSE mapping[f]]
(* DnsMapAdd: a full queue drops the message. *)
DnsMapAdd(ip, h) == IF Len(mapQueue) >= QueueSize THEN mapQueue ELSE Append(mapQueue, <<ip, h>>)
(* IPDomainMapOnEvict, a callback of the first enhancer only. *)
IPDomainMapOnEvict(e, v) == IF v # "none" /\ e = 1 /\ ~unsaved THEN Without(db, v) ELSE db
(* withMapping, one answer: SetWithExpire, and DnsMapAdd unless the name   *)
(* is known.  At its capacity the mapping evicts an entry, any of them     *)
(* here.                                                                   *)
withMapping(x, ip) ==
  LET me == query[x]
      e  == me.epoch
      known == ip \in DOMAIN mapping[e] /\ mapping[e][ip] = me.host
      full  == ip \notin DOMAIN mapping[e] /\ Cardinality(DOMAIN mapping[e]) >= MapSize
  IN  /\ me.at = "map" /\ ip \in me.todo
      /\ query' = [query EXCEPT ![x].todo = @ \ {ip}, ![x].at = IF me.todo = {ip} THEN "replied" ELSE "map"]
      /\ \E v \in IF full THEN DOMAIN mapping[e] ELSE {"none"} :
           /\ mapping' = [Mapped(e, ip, me.host) EXCEPT ![e] = IF v = "none" THEN @ ELSE Without(@, v)]
           /\ shared' = (IF ip \in DOMAIN mapping[e] THEN shared ELSE shared \ {ip}) \ {v}
           /\ db' = IPDomainMapOnEvict(e, v)
           /\ evicted' = IF e = epoch THEN (evicted \ {ip}) \cup ({v} \ {"none"}) ELSE evicted
      /\ mapQueue' = IF known THEN mapQueue ELSE DnsMapAdd(ip, me.host)
      /\ UNCHANGED <<ipv6, unsaved, epoch, dm, saving, answered, asks, restarts>>

-----------------------------------------------------------------------------
(* processDnsMap: a goroutine for every message. *)
processDnsMap ==
  /\ mapQueue # <<>>
  /\ mapQueue' = Tail(mapQueue)
  /\ saving' = IF unsaved THEN saving ELSE Append(saving, [ip |-> Head(mapQueue)[1], host |-> Head(mapQueue)[2], put |-> FALSE])
  /\ UNCHANGED <<ipv6, unsaved, epoch, mapping, shared, dm, db, query, answered, evicted, asks, restarts>>
DnsPreCache(ip, h) == dm' = With(dm, ip, h)
(* handleDnsMap: DnsPreCache, then the database. *)
handleDnsMap(i) ==
  LET s == saving[i]
  IN  /\ IF s.put THEN /\ db' = With(db, s.ip, s.host) /\ UNCHANGED dm
                       /\ saving' = SubSeq(saving, 1, i - 1) \o SubSeq(saving, i + 1, Len(saving))
         ELSE DnsPreCache(s.ip, s.host) /\ saving' = [saving EXCEPT ![i].put = TRUE] /\ UNCHANGED db
      /\ UNCHANGED <<ipv6, unsaved, epoch, mapping, shared, mapQueue, query, answered, evicted, asks, restarts>>

Covered == [x \in Queries |-> IF query[x].at = "replied" /\ query[x].epoch = epoch THEN [query[x] EXCEPT !.epoch = epoch + 1] ELSE query[x]]
(* Fault: the new enhancer starts empty. *)
PatchFromNothing == mapping' = mapping /\ shared' = {}
(* PatchFrom of the new enhancer: CloneTo copies the old mapping, by pointers. *)
PatchFrom ==
  /\ mapping' = [mapping EXCEPT ![epoch + 1] = mapping[epoch]]
  /\ shared' = DOMAIN mapping[epoch]
(* updateDNS: NewEnhancer and PatchFrom.  Running handlers keep the old    *)
(* mapping; the names of replies already given are in the copy.            *)
updateDNS ==
  /\ epoch < MaxEpochs /\ epoch' = epoch + 1
  /\ PatchFrom /\ query' = Covered
  /\ UNCHANGED <<ipv6, unsaved, dm, db, mapQueue, saving, answered, evicted, asks, restarts>>
(* loadToIPDomainMap: as much of the bucket as the mapping holds, all of it in Dm. *)
loadToIPDomainMap(loaded) ==
  \E kept \in SUBSET DOMAIN loaded :
    /\ Cardinality(kept) = IF Cardinality(DOMAIN loaded) < MapSize THEN Cardinality(DOMAIN loaded) ELSE MapSize
    /\ mapping' = [e \in DOMAIN mapping |-> IF e = 1 THEN [ip \in kept |-> loaded[ip]] ELSE Empty]
    /\ dm' = loaded
(* The program ends at any moment; loadNDSCache at the next start. *)
RestartDns ==
  /\ restarts < MaxRestarts /\ restarts' = restarts + 1
  /\ epoch' = 1 /\ shared' = {}
  /\ loadToIPDomainMap(IF unsaved THEN Empty ELSE db)
  /\ mapQueue' = <<>> /\ saving' = <<>>
  /\ query' = [x \in Queries |-> NoAsk] /\ evicted' = {}
  /\ UNCHANGED <<ipv6, unsaved, db, answered, asks>>

-----------------------------------------------------------------------------
FindHostByIP(ip) == IF ip \in DOMAIN mapping[epoch] THEN mapping[epoch][ip] ELSE "none"
(* resolver.FindHostByIP, then Dm. *)
FindHost(ip) == IF FindHostByIP(ip) = "none" /\ ip \in DOMAIN dm THEN dm[ip] ELSE FindHostByIP(ip)
(* preHandleMetadata for a connection to an address: through HTTP or SOCKS *)
(* the address stays an address for the rules, else it becomes a name.     *)
preHandleMetadata(ip, proxied) ==
  LET host == FindHost(ip)
  IN  [Host |-> host, AddrType |-> IF host = "none" \/ proxied THEN "ip" ELSE "name"]

DnsNext ==
  \/ \E x \in Queries, h \in Hosts, q \in {"A", "AAAA"} : ServeDNS(x, h, q)
  \/ \E x \in Queries, ip \in V4 \cup V6 : withMapping(x, ip)
  \/ processDnsMap \/ (\E i \in DOMAIN saving : handleDnsMap(i))
  \/ updateDNS \/ RestartDns
DnsSpec == DnsInit /\ [][DnsNext]_dnsVars

-----------------------------------------------------------------------------
(* A connection is only ever given a name that the resolver answered with  *)
(* that very address, whatever order the answers are saved in and across   *)
(* reloads and restarts; and when a handler has replied, every address of  *)
(* its reply has a name, unless the mapping was reloaded before the reply  *)
(* or has evicted it.                                                      *)
NamesFollowAnswers ==
  /\ \A ip \in V4 \cup V6, proxied \in BOOLEAN :
       LET m == preHandleMetadata(ip, proxied)
       IN  m.Host = "none" \/ <<ip, m.Host>> \in answered
  /\ \A x \in Queries : query[x].at = "replied" /\ query[x].host # "hosts" /\ query[x].epoch = epoch =>
       \A ip \in query[x].ips : FindHost(ip) # "none" \/ ip \in evicted
=============================================================================
