----------------------------- MODULE DnsResolver -----------------------------
(* dns/resolver.go: questions answered from the cache, a background fetch  *)
(* behind every expired hit, the singleflight group in front of the name   *)
(* servers, the pickers that ask the servers of a group at once, the       *)
(* choice between the main and the fallback group, and dns/dnsSaveDB.go,   *)
(* which saves answers to a database that fills the cache at a restart.    *)
EXTENDS Naturals, FiniteSets, Sequences

CONSTANTS
  Keys,        \* questions
  IPKeys,      \* those of isIPRequest
  Callers,     \* goroutines that call ExchangeContext
  Main,        \* r.main
  Fallback,    \* r.fallback when there is one
  PolicyServers,
  queueSize,   \* of saveDnsQueue
  MaxAnswers,  \* bound: the answers all questions get
  Configs,     \* what a configuration may say
  Nil

ASSUME DnsAssumption ==
  /\ IPKeys \subseteq Keys /\ IsFiniteSet(Keys)
  /\ Configs \subseteq [fallback : BOOLEAN, policy : SUBSET Keys, domains : SUBSET Keys]
  /\ queueSize \in Nat \ {0} /\ MaxAnswers \in Nat
  /\ Nil \notin Callers \X {"call", "refresh"}

(* The caller itself and the goroutine that refreshes behind its hit.      *)
Procs == Callers \X {"call", "refresh"}
Refresher(p) == <<p[1], "refresh">>

(* clean: the answer has an IP, and fallbackIPFilters do not match the     *)
(* first.  filtered: they do, or it has none.  blank: no record at all.    *)
Kinds == {"clean", "filtered", "blank"}
Groups == {"main", "fallback", "policy"}
Stamps == 1..MaxAnswers
Replies == [from : Groups, kind : Kinds]
Msgs == [from : Groups, kind : Kinds, stamp : Stamps]

(* obj tells pointers apart: Nil for a copy that nobody else has, else the *)
(* process whose fetch allocated the message.                              *)
Owners == Procs \cup {Nil}
Refs == [msg : Msgs, obj : Owners]

VARIABLES
  config,   \* whether there is a fallback, the questions of a policy, and
            \* those of fallbackDomainFilters
  pc, ask, got,  \* of each process: where it is, its question, its answer
  leader,   \* singleflight: the process that runs the fetch of a question
  joined,   \* and those that wait for it
  stage,    \* of the fetch: none, run, add, release
  running,  \* the servers that the pickers of a fetch wait for
  reply,    \* the first answer of each picker
  answers,  \* the number of answers so far
  made,     \* the message a fetch has returned
  cache,    \* lruCache
  fresh,    \* the questions whose entry has not expired
  queue,    \* saveDnsQueue
  db        \* the MapDomainDnsMsg bucket

procVars == <<pc, ask, got>>
flightVars == <<leader, joined, stage, running, reply, answers, made>>
cacheVars == <<cache, fresh>>
saveVars == <<queue, db>>
vars == <<config, pc, ask, got, leader, joined, stage, running, reply, answers,
          made, cache, fresh, queue, db>>

Init ==
  /\ config \in Configs
  /\ pc = [p \in Procs |-> "idle"]
  /\ \E k \in Keys : ask = [p \in Procs |-> k]
  /\ got = [p \in Procs |-> Nil]
  /\ leader = [k \in Keys |-> Nil]
  /\ joined = [k \in Keys |-> {}]
  /\ stage = [k \in Keys |-> "none"]
  /\ running = {} /\ reply = [f \in Keys \X Groups |-> Nil]
  /\ answers = 0
  /\ made = [k \in Keys |-> Nil]
  /\ cache = [k \in Keys |-> Nil] /\ fresh = {}
  /\ queue = <<>>
  /\ db = [k \in Keys |-> Nil]

Goto(p, l) == pc' = [pc EXCEPT ![p] = l]
Copy(m) == [msg |-> m, obj |-> Nil]

(***************************************************************************)
(* ExchangeContext.                                                        *)
(***************************************************************************)
(* A call of c for k, up to GetWithExpire.  Bound: the last refresh that a *)
(* call of c began has ended.                                              *)
ExchangeContext(c, k) ==
  LET p == <<c, "call">>
  IN /\ pc[p] = "idle" /\ pc[Refresher(p)] = "idle"
     /\ ask' = [ask EXCEPT ![p] = k]
     /\ got' = [got EXCEPT ![p] = cache[k]]
     /\ Goto(p, IF cache[k] = Nil THEN "do" ELSE "hit")
     /\ UNCHANGED <<config, flightVars, cacheVars, saveVars>>

(* GetWithExpire reads the expiry after get has unlocked the cache: of the *)
(* entry as it is by then, or of an entry evicted in between.              *)
Hit(p) ==
  /\ pc[p] = "hit"
  /\ got' = [got EXCEPT ![p] = Copy(got[p].msg)]
  /\ \/ /\ ask[p] \in fresh
        /\ Goto(p, "done")
        /\ UNCHANGED ask
     \/ /\ ask[p] \notin fresh
        /\ pc' = [pc EXCEPT ![p] = "done", ![Refresher(p)] = "do"]
        /\ ask' = [ask EXCEPT ![Refresher(p)] = ask[p]]
  /\ UNCHANGED <<config, flightVars, cacheVars, saveVars>>

(* The servers asked first, and those asked at the same time for the case  *)
(* that the answer of the main group will not do.                          *)
UsesPolicy(k) == k \in config.policy
OnlyFallback(k) ==
  k \in IPKeys /\ ~UsesPolicy(k) /\ config.fallback /\ k \in config.domains
Both(k) ==
  k \in IPKeys /\ ~UsesPolicy(k) /\ config.fallback /\ k \notin config.domains
First(k) == IF UsesPolicy(k) THEN "policy"
            ELSE IF OnlyFallback(k) THEN "fallback"
            ELSE "main"
Servers(g) == CASE g = "main" -> Main
                [] g = "fallback" -> Fallback
                [] g = "policy" -> PolicyServers
Asked(k) == {First(k)} \cup (IF Both(k) THEN {"fallback"} ELSE {})
Calls(k) == UNION {{<<k, g, s>> : s \in Servers(g)} : g \in Asked(k)}

(* Fault: a refresh does not go through the group. *)
exchangeWithoutGroup(p) ==
  LET k == ask[p]
  IN /\ pc[p] = "do"
     /\ Goto(p, "wait")
     /\ \/ /\ leader[k] = Nil \/ p[2] = "refresh"
           /\ leader' = [leader EXCEPT ![k] = p]
           /\ stage' = [stage EXCEPT ![k] = "run"]
           /\ running' = running \cup Calls(k)
           /\ UNCHANGED joined
        \/ /\ leader[k] # Nil /\ p[2] = "call"
           /\ joined' = [joined EXCEPT ![k] = @ \cup {p}]
           /\ UNCHANGED <<leader, stage, running>>
     /\ UNCHANGED <<config, ask, got, reply, answers, made, cacheVars, saveVars>>

(* exchangeWithoutCache: group.Do runs the fetch, or joins the one that    *)
(* runs.                                                                   *)
exchangeWithoutCache(p) ==
  LET k == ask[p]
  IN /\ pc[p] = "do"
     /\ Goto(p, "wait")
     /\ \/ /\ leader[k] = Nil
           /\ leader' = [leader EXCEPT ![k] = p]
           /\ stage' = [stage EXCEPT ![k] = "run"]
           /\ running' = running \cup Calls(k)
           /\ UNCHANGED joined
        \/ /\ leader[k] # Nil
           /\ joined' = [joined EXCEPT ![k] = @ \cup {p}]
           /\ UNCHANGED <<leader, stage, running>>
     /\ UNCHANGED <<config, ask, got, reply, answers, made, cacheVars, saveVars>>

(***************************************************************************)
(* The fetch: batchExchange with its pickers, ipExchange, the deferred     *)
(* saving, and the return of group.Do.                                     *)
(***************************************************************************)
HasReply(k) == \E g \in Groups : reply[<<k, g>>] # Nil

(* A server answers.  The first answer of a group is its result and        *)
(* cancels the others, whose answers no longer count.  Bound: MaxAnswers.  *)
Answer(k, g, s, kind) ==
  /\ <<k, g, s>> \in running
  /\ answers + Cardinality({j \in Keys \ {k} : HasReply(j)}) < MaxAnswers
  /\ running' = running \ {<<k, g, s>>}
  /\ reply' = IF reply[<<k, g>>] = Nil
              THEN [reply EXCEPT ![<<k, g>>] = [from |-> g, kind |-> kind]]
              ELSE reply
  /\ UNCHANGED <<config, procVars, leader, joined, stage, answers, made, cacheVars,
                 saveVars>>

(* A server fails: an error, a failure code, or the end of the context,    *)
(* which is the leader's, after DefaultDNSTimeout or another's answer.     *)
Fail(k, g, s) ==
  /\ <<k, g, s>> \in running
  /\ running' = running \ {<<k, g, s>>}
  /\ UNCHANGED <<config, procVars, leader, joined, stage, reply, answers, made, cacheVars,
                 saveVars>>

Over(k, g) == \A s \in Servers(g) : <<k, g, s>> \notin running

(* Fault: an answer without a record is taken too. *)
AcceptsBlank(k, r) == r # Nil /\ (Both(k) => r.kind # "filtered")

(* ipExchange takes an answer of the main group that has an IP which no    *)
(* filter matches, and otherwise what the fallback group says.             *)
Accepts(k, r) == r # Nil /\ (Both(k) => r.kind = "clean")

ipExchange(k, r) ==
  LET f == reply[<<k, First(k)>>]
  IN /\ Over(k, First(k))
     /\ \/ Accepts(k, f) /\ r = f
        \/ ~Accepts(k, f) /\ ~Both(k) /\ r = Nil
        \/ ~Accepts(k, f) /\ Both(k) /\ Over(k, "fallback")
             /\ r = reply[<<k, "fallback">>]

(* The fetch returns r.  putMsgToCache keeps a copy, with the TTL of the   *)
(* first record as expiry, unless the message has no record.               *)
putMsgToCache(k, r) ==
  LET m == [from |-> r.from, kind |-> r.kind, stamp |-> answers + 1]
  IN /\ answers' = answers + 1
     /\ made' = [made EXCEPT ![k] = m]
     /\ stage' = [stage EXCEPT ![k] = "add"]
     /\ IF r.kind = "blank"
        THEN UNCHANGED cacheVars
        ELSE /\ cache' = [cache EXCEPT ![k] = Copy(m)]
             /\ fresh' = fresh \cup {k}

(* ipExchange returns, and the deferred function begins.  A picker that is *)
(* left behind ends unnoticed: asyncExchange's channel has room for it.    *)
Put(k) ==
  /\ stage[k] = "run"
  /\ \E r \in Replies \cup {Nil} :
       /\ ipExchange(k, r)
       /\ \/ /\ r # Nil
             /\ putMsgToCache(k, r)
          \/ /\ r = Nil
             /\ stage' = [stage EXCEPT ![k] = "release"]
             /\ UNCHANGED <<answers, made, cacheVars>>
  /\ running' = {f \in running : f[1] # k}
  /\ reply' = [f \in Keys \X Groups |-> IF f[1] = k THEN Nil ELSE reply[f]]
  /\ UNCHANGED <<config, procVars, leader, joined, saveVars>>

(* A full queue takes nothing.                                             *)
DnsMsgAdd(k) ==
  /\ stage[k] = "add"
  /\ stage' = [stage EXCEPT ![k] = "release"]
  /\ queue' = IF Len(queue) < queueSize
              THEN Append(queue, [key |-> k, msg |-> made[k]])
              ELSE queue
  /\ UNCHANGED <<config, procVars, leader, joined, running, reply, answers, made, cacheVars, db>>

(* Fault: all who wait get the same message. *)
ResultShared(k, p) ==
  IF made[k] = Nil THEN Nil ELSE [msg |-> made[k], obj |-> leader[k]]

(* What process p gets from the fetch of k: the message itself if nobody   *)
(* else does, else a copy.                                                 *)
Result(k, p) ==
  IF made[k] = Nil THEN Nil
  ELSE IF joined[k] # {} THEN Copy(made[k])
  ELSE [msg |-> made[k], obj |-> p]

(* group.Do returns to all who wait; a refresher ends.                     *)
Do(k) ==
  LET all == joined[k] \cup {leader[k]}
  IN /\ stage[k] = "release"
     /\ pc' = [p \in Procs |-> IF p \notin all THEN pc[p]
                              ELSE IF p[2] = "call" THEN "done" ELSE "idle"]
     /\ got' = [p \in Procs |-> IF p \in all /\ p[2] = "call" THEN Result(k, p) ELSE got[p]]
     /\ leader' = [leader EXCEPT ![k] = Nil]
     /\ joined' = [joined EXCEPT ![k] = {}]
     /\ stage' = [stage EXCEPT ![k] = "none"]
     /\ made' = [made EXCEPT ![k] = Nil]
     /\ UNCHANGED <<config, ask, running, reply, answers, cacheVars, saveVars>>

(* The caller is through with its message.                                 *)
Return(p) ==
  /\ pc[p] = "done"
  /\ Goto(p, "idle")
  /\ got' = [got EXCEPT ![p] = Nil]
  /\ UNCHANGED <<config, ask, flightVars, cacheVars, saveVars>>

(***************************************************************************)
(* Time, and the database.                                                 *)
(***************************************************************************)
Expire(k) ==
  /\ k \in fresh
  /\ fresh' = fresh \ {k}
  /\ UNCHANGED <<config, procVars, flightVars, cache, saveVars>>

(* The cache is full and the answer of some other question takes the place *)
(* of that of k, the least recently used; DnsMapOnEvict deletes what the   *)
(* database has.                                                           *)
Evict(k) ==
  /\ cache[k] # Nil
  /\ cache' = [cache EXCEPT ![k] = Nil]
  /\ db' = [db EXCEPT ![k] = Nil]
  /\ UNCHANGED <<config, procVars, flightVars, fresh, queue>>

(* Fault: each message is saved by a goroutine of its own. *)
handleDnsMsgApart ==
  \E i \in DOMAIN queue :
    /\ queue' = [j \in 1..(Len(queue) - 1) |-> queue[IF j < i THEN j ELSE j + 1]]
    /\ db' = [db EXCEPT ![queue[i].key] = queue[i].msg]
    /\ UNCHANGED <<config, procVars, flightVars, cacheVars>>

(* One turn of the loop of handleDnsMsg; gob cannot encode a record of a   *)
(* type that is not registered.                                            *)
handleDnsMsg ==
  /\ queue # <<>>
  /\ queue' = Tail(queue)
  /\ \/ db' = [db EXCEPT ![Head(queue).key] = Head(queue).msg]
     \/ UNCHANGED db
  /\ UNCHANGED <<config, procVars, flightVars, cacheVars>>

(* The process ends at any point and starts again, with the cache that     *)
(* loadToDnsMap fills from the database; OnEvict is not set until then.    *)
Restart ==
  LET saved == {k \in Keys : db[k] # Nil}
  IN /\ cache' = [k \in Keys |-> IF k \in saved THEN Copy(db[k]) ELSE Nil]
     /\ fresh' = saved
     /\ pc' = [p \in Procs |-> "idle"]
     /\ got' = [p \in Procs |-> Nil]
     /\ leader' = [k \in Keys |-> Nil]
     /\ joined' = [k \in Keys |-> {}]
     /\ stage' = [k \in Keys |-> "none"]
     /\ running' = {} /\ reply' = [f \in Keys \X Groups |-> Nil]
     /\ made' = [k \in Keys |-> Nil]
     /\ queue' = <<>>
     /\ UNCHANGED <<config, ask, answers, db>>

ServerReturns(k, g, s) == Fail(k, g, s) \/ \E kind \in Kinds : Answer(k, g, s, kind)

ProcStep(p) == Hit(p) \/ exchangeWithoutCache(p) \/ Return(p)
FetchStep(k) == Put(k) \/ DnsMsgAdd(k) \/ Do(k)

Next ==
  \/ \E c \in Callers, k \in Keys : ExchangeContext(c, k)
  \/ \E p \in Procs : ProcStep(p)
  \/ \E k \in Keys : FetchStep(k) \/ Expire(k) \/ Evict(k)
  \/ \E f \in running : ServerReturns(f[1], f[2], f[3])
  \/ handleDnsMsg
  \/ Restart

Spec == Init /\ [][Next]_vars

(***************************************************************************)
(* Properties.                                                             *)
(***************************************************************************)
(* Every variable has its type, and a question has a leader exactly while  *)
(* its fetch is on.                                                        *)
TypeOK ==
  /\ config \in Configs
  /\ pc \in [Procs -> {"idle", "hit", "do", "wait", "done"}]
  /\ ask \in [Procs -> Keys]
  /\ got \in [Procs -> Refs \cup {Nil}]
  /\ leader \in [Keys -> Procs \cup {Nil}]
  /\ joined \in [Keys -> SUBSET Procs]
  /\ stage \in [Keys -> {"none", "run", "add", "release"}]
  /\ running \subseteq UNION {Calls(k) : k \in Keys}
  /\ reply \in [Keys \X Groups -> Replies \cup {Nil}]
  /\ answers \in 0..MaxAnswers
  /\ made \in [Keys -> Msgs \cup {Nil}]
  /\ cache \in [Keys -> Refs \cup {Nil}]
  /\ fresh \subseteq Keys
  /\ queue \in Seq([key : Keys, msg : Msgs]) /\ Len(queue) <= queueSize
  /\ db \in [Keys -> Msgs \cup {Nil}]
  /\ \A k \in Keys : leader[k] = Nil <=> stage[k] = "none"

(* Those who wait for a question are exactly its leader and those who      *)
(* joined it, so that the return of one fetch wakes them all and nobody is *)
(* left waiting (group.Do).                                                *)
NoneForgotten ==
  \A k \in Keys :
    {p \in Procs : pc[p] = "wait" /\ ask[p] = k} = (joined[k] \cup {leader[k]}) \ {Nil}

(* The messages that the resolver has for k, wherever they are.            *)
Known(k) ==
  ({db[k], made[k]}
     \cup {queue[i].msg : i \in {j \in DOMAIN queue : queue[j].key = k}}
     \cup {r.msg : r \in ({cache[k]} \cup {got[p] : p \in {p \in Procs : ask[p] = k}}) \ {Nil}})
  \ {Nil}

Trusted(k, m) ==
  /\ UsesPolicy(k) <=> m.from = "policy"
  /\ OnlyFallback(k) => m.from = "fallback"
  /\ Both(k) /\ m.from = "main" => m.kind = "clean"

(* Where there is a fallback, no answer of the main group that a filter    *)
(* matches, or that has no address, is ever handed out, cached or saved,   *)
(* and a question of a domain filter or of a policy is only answered by    *)
(* its own servers: whichever server is first, whoever shares the fetch,   *)
(* and across a restart (ipExchange).                                      *)
AnswersTrusted == \A k \in Keys : \A m \in Known(k) : Trusted(k, m)

Holders == {p \in Procs : pc[p] = "done" /\ got[p] # Nil}

(* Whoever gets a message is alone in having it, and may change it as      *)
(* withResolver and dualQuery do: no other caller and no cache entry is    *)
(* the same message (exchangeWithoutCache copies what is shared).  The     *)
(* save queue has a copy of the message but its records; no handler        *)
(* changes a record.                                                       *)
SoleOwner ==
  /\ \A p, q \in Holders : p # q /\ got[p].obj # Nil => got[p].obj # got[q].obj
  /\ \A p \in Holders, k \in Keys :
       cache[k] # Nil /\ cache[k].obj # Nil => cache[k].obj # got[p].obj

Older(a, b) == a # Nil /\ b # Nil /\ a.stamp < b.stamp

(* The database never goes back to an older answer, nor does the cache     *)
(* until a restart: fetches of one question follow one another, and one    *)
(* goroutine saves them in order (handleDnsMsg).                           *)
AnswersMoveForward ==
  [][\A k \in Keys :
       /\ ~Older(db'[k], db[k])
       /\ cache[k] # Nil /\ cache'[k] # Nil /\ Older(cache'[k].msg, cache[k].msg) => Restart]_vars
=============================================================================
