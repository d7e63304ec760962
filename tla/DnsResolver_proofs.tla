------------------------- MODULE DnsResolver_proofs -------------------------
(* Proofs of the safety properties of DnsResolver, for any questions,      *)
(* callers, servers, configurations and bounds.                            *)
EXTENDS DnsResolver, TLAPS

AnyMsg == [from : Groups, kind : Kinds, stamp : Nat]
TrustedEntries == {e \in [key : Keys, msg : AnyMsg] : Trusted(e.key, e.msg)}

(* Where processes are: a call that has hit has no refresh yet, and those  *)
(* who wait are the leader and those who joined.                           *)
Waiting ==
  /\ pc \in [Procs -> {"idle", "hit", "do", "wait", "done"}]
  /\ ask \in [Procs -> Keys]
  /\ leader \in [Keys -> Procs \cup {Nil}]
  /\ joined \in [Keys -> SUBSET Procs]
  /\ \A p \in Procs : pc[p] = "hit" => p[2] = "call" /\ pc[Refresher(p)] = "idle"
  /\ NoneForgotten

(* What a picker has came from its own group.                              *)
Picked ==
  /\ answers \in Nat
  /\ reply \in [Keys \X Groups -> Replies \cup {Nil}]
  /\ \A k \in Keys, g \in Groups : reply[<<k, g>>] # Nil => reply[<<k, g>>].from = g

(* What the fetches, the cache, the queue and the database have is to be   *)
(* trusted, and no process shares the entry of the cache.                  *)
Kept ==
  /\ made \in [Keys -> AnyMsg \cup {Nil}]
  /\ db \in [Keys -> AnyMsg \cup {Nil}]
  /\ queue \in Seq(TrustedEntries)
  /\ cache \in [Keys -> [msg : AnyMsg, obj : {Nil}] \cup {Nil}]
  /\ stage \in [Keys -> {"none", "run", "add", "release"}]
  /\ \A k \in Keys : made[k] # Nil => Trusted(k, made[k])
  /\ \A k \in Keys : stage[k] = "add" => made[k] \in AnyMsg /\ Trusted(k, made[k])
  /\ \A k \in Keys : db[k] # Nil => Trusted(k, db[k])
  /\ \A k \in Keys : cache[k] # Nil => Trusted(k, cache[k].msg)

(* r is an answer to p's question that p may have: p's own, or a copy.     *)
Fits(p, r) ==
  r \in [msg : AnyMsg, obj : {Nil, p}] /\ Trusted(ask[p], r.msg)

(* What a process has; a refresh has nothing.                              *)
Held ==
  /\ got \in [Procs -> [msg : AnyMsg, obj : Owners] \cup {Nil}]
  /\ \A p \in Procs : got[p] # Nil => Fits(p, got[p])
  /\ \A p \in Procs : pc[p] = "hit" => Fits(p, got[p])
  /\ \A p \in Procs : p[2] = "refresh" => got[p] = Nil

IInv == Waiting /\ Picked /\ Kept /\ Held

(***************************************************************************)
(* Steps.                                                                  *)
(***************************************************************************)
(* The steps of Next, one disjunct for each action.                        *)
LEMMA NextSteps ==
  ASSUME [Next]_vars
  PROVE  \/ \E c \in Callers, k \in Keys : ExchangeContext(c, k)
         \/ \E p \in Procs : Hit(p) \/ exchangeWithoutCache(p) \/ Return(p)
         \/ \E k \in Keys : Put(k) \/ DnsMsgAdd(k) \/ Do(k) \/ Expire(k) \/ Evict(k)
         \/ \E f \in running : \/ Fail(f[1], f[2], f[3])
                               \/ \E kind \in Kinds : Answer(f[1], f[2], f[3], kind)
         \/ handleDnsMsg
         \/ Restart
         \/ UNCHANGED vars
  BY ZenonT(60) DEF Next, ProcStep, FetchStep, ServerReturns

(* Nil is no process, and a caller has two processes that differ.          *)
LEMMA ProcFacts ==
  /\ Nil \notin Procs
  /\ \A c \in Callers : <<c, "call">> \in Procs
  /\ \A p \in Procs : /\ Refresher(p) \in Procs
                      /\ p[2] = "call" => Refresher(p) # p
                      /\ Refresher(p)[2] = "refresh"
                      /\ p[2] \in {"call", "refresh"}
  BY DnsAssumption DEF Procs, Refresher

(* No step changes the configuration, so that what may be trusted stays.   *)
LEMMA ConfigFixed == [Next]_vars => config' = config
<1> SUFFICES ASSUME [Next]_vars PROVE config' = config
  BY Zenon
<1> QED
  BY NextSteps, ZenonT(60)
  DEF ExchangeContext, Hit, exchangeWithoutCache, Return, Put, DnsMsgAdd, Do, Expire,
      Evict, Fail, Answer, handleDnsMsg, Restart, vars

(* Which answers are trusted depends on the configuration alone.           *)
LEMMA TrustFixed ==
  ASSUME config' = config
  PROVE  /\ \A k, m : Trusted(k, m)' <=> Trusted(k, m)
         /\ TrustedEntries' = TrustedEntries
<1>1. ASSUME NEW k, NEW m PROVE Trusted(k, m)' <=> Trusted(k, m)
  BY Zenon DEF Trusted, UsesPolicy, OnlyFallback, Both
<1> QED
  BY Zenon, <1>1 DEF TrustedEntries

(***************************************************************************)
(* The parts of the invariant.                                             *)
(***************************************************************************)
(* What ipExchange returns may be trusted, when every picker has what its  *)
(* own group said.                                                         *)
LEMMA ExchangeTrusted ==
  ASSUME Picked, NEW k \in Keys, NEW r \in Replies, ipExchange(k, r), r # Nil,
         NEW m, m.from = r.from, m.kind = r.kind
  PROVE  Trusted(k, m)
<1>0. First(k) \in Groups /\ "fallback" \in Groups
  BY Zenon DEF First, Groups
<1>1. CASE Accepts(k, reply[<<k, First(k)>>]) /\ r = reply[<<k, First(k)>>]
  <2>1. r.from = First(k) /\ (Both(k) => r.kind = "clean")
    BY Zenon, <1>0, <1>1 DEF Picked, Accepts
  <2> QED
    BY Zenon, <2>1 DEF Trusted, First, Both, OnlyFallback
<1>2. CASE Both(k) /\ r = reply[<<k, "fallback">>]
  <2>1. r.from = "fallback"
    BY Zenon, <1>0, <1>2 DEF Picked
  <2> QED
    BY Zenon, <1>2, <2>1 DEF Trusted, Both, OnlyFallback
<1> QED
  BY Zenon, <1>1, <1>2 DEF ipExchange

(* A picker only takes answers of the servers it asked.                    *)
LEMMA PickedInductive == Picked /\ [Next]_vars => Picked'
<1> SUFFICES ASSUME Picked, [Next]_vars PROVE Picked'
  BY Zenon
<1> USE DEF Picked
<1>1. ASSUME NEW k \in Keys, Put(k) PROVE Picked'
  <2>1. answers' \in Nat
    BY <1>1 DEF Put, putMsgToCache
  <2>2. reply' = [f \in Keys \X Groups |-> IF f[1] = k THEN Nil ELSE reply[f]]
    BY Zenon, <1>1 DEF Put
  <2>3. ASSUME NEW j \in Keys, NEW g \in Groups
        PROVE  reply'[<<j, g>>] = IF j = k THEN Nil ELSE reply[<<j, g>>]
    BY Zenon, <2>2
  <2> QED
    BY Zenon, <2>1, <2>2, <2>3
<1>2. ASSUME NEW k, NEW g, NEW s, NEW kind \in Kinds, Answer(k, g, s, kind) PROVE Picked'
  <2>1. answers' = answers
    BY Zenon, <1>2 DEF Answer
  <2>2. CASE reply' = reply
    BY Zenon, <2>1, <2>2
  <2>3. CASE reply' = [reply EXCEPT ![<<k, g>>] = [from |-> g, kind |-> kind]]
    <3>1. ASSUME NEW j \in Keys, NEW h \in Groups
          PROVE  \/ reply'[<<j, h>>] = reply[<<j, h>>]
                 \/ reply'[<<j, h>>] = [from |-> h, kind |-> kind]
      BY Zenon, <2>3
    <3>2. ASSUME NEW f \in Keys \X Groups PROVE reply'[f] \in Replies \cup {Nil}
      BY <2>3 DEF Replies
    <3>3. reply' \in [Keys \X Groups -> Replies \cup {Nil}]
      BY Zenon, <2>3, <3>2
    <3>4. ASSUME NEW j \in Keys, NEW h \in Groups, reply'[<<j, h>>] # Nil
          PROVE  reply'[<<j, h>>].from = h
      <4>1. CASE reply'[<<j, h>>] = reply[<<j, h>>]
        BY Zenon, <3>4, <4>1
      <4>2. CASE reply'[<<j, h>>] = [from |-> h, kind |-> kind]
        <5>1. [from |-> h, kind |-> kind].from = h
          BY Zenon
        <5> QED
          BY ONLY Zenon, <4>2, <5>1
      <4> QED
        BY Zenon, <3>1, <4>1, <4>2
    <3> QED
      BY Zenon, <2>1, <3>3, <3>4
  <2> QED
    BY Zenon, <1>2, <2>2, <2>3 DEF Answer
<1>3. CASE Restart
  BY Zenon, <1>3 DEF Restart
<1>4. CASE UNCHANGED <<answers, reply>>
  BY Zenon, <1>4
<1> QED
  BY NextSteps, <1>1, <1>2, <1>3, <1>4, ZenonT(60)
  DEF ExchangeContext, Hit, exchangeWithoutCache, Return, DnsMsgAdd, Do, Expire,
      Evict, Fail, handleDnsMsg, flightVars, vars

(* Those who wait for a question are its leader and those who joined,      *)
(* whatever a call, a hit, the start or the end of a fetch does.           *)
LEMMA WaitingInductive == Waiting /\ [Next]_vars => Waiting'
<1> SUFFICES ASSUME Waiting, [Next]_vars PROVE Waiting'
  BY Zenon
<1> USE ProcFacts DEF Waiting, NoneForgotten
<1>1. ASSUME NEW c \in Callers, NEW k \in Keys, ExchangeContext(c, k) PROVE Waiting'
  <2> DEFINE p == <<c, "call">>
  <2>0. p \in Procs /\ p[2] = "call" /\ Refresher(p) \in Procs /\ Refresher(p) # p
    BY Zenon
  <2>1. /\ pc[p] = "idle" /\ pc[Refresher(p)] = "idle"
        /\ ask' = [ask EXCEPT ![p] = k]
        /\ UNCHANGED <<leader, joined>>
    BY Zenon, <1>1 DEF ExchangeContext, flightVars
  <2>2. PICK l \in {"do", "hit"} : pc' = [pc EXCEPT ![p] = l]
    BY Zenon, <1>1 DEF ExchangeContext, Goto
  <2> HIDE DEF p
  <2>3. \A q \in Procs : pc[q] = "wait" /\ ask[q] \in Keys
                         => q # p /\ pc'[q] = "wait" /\ ask'[q] = ask[q]
    BY Zenon, <2>0, <2>1, <2>2
  <2>4. \A q \in Procs : pc'[q] = "wait" => pc[q] = "wait" /\ ask'[q] = ask[q]
    BY Zenon, <2>0, <2>1, <2>2
  <2>5. ASSUME NEW q \in Procs, pc'[q] = "hit"
        PROVE  q[2] = "call" /\ pc'[Refresher(q)] = "idle"
    <3>1. Refresher(q) # p
      BY Zenon, <2>0
    <3> QED
      BY Zenon, <2>0, <2>1, <2>2, <2>5, <3>1
  <2>6. NoneForgotten'
    BY Zenon, <2>1, <2>3, <2>4
  <2> QED
    BY Zenon, <2>0, <2>1, <2>2, <2>5, <2>6
<1>2. ASSUME NEW p \in Procs, Hit(p) PROVE Waiting'
  <2>0. p[2] = "call" /\ pc[p] = "hit" /\ pc[Refresher(p)] = "idle" /\ Refresher(p) # p
    BY Zenon, <1>2 DEF Hit
  <2>1. UNCHANGED <<leader, joined>>
    BY Zenon, <1>2 DEF Hit, flightVars
  <2>2. \/ pc' = [pc EXCEPT ![p] = "done"] /\ ask' = ask
        \/ /\ pc' = [pc EXCEPT ![p] = "done", ![Refresher(p)] = "do"]
           /\ ask' = [ask EXCEPT ![Refresher(p)] = ask[p]]
    BY Zenon, <1>2 DEF Hit, Goto
  <2>3. \A q \in Procs : pc[q] = "wait" <=> pc'[q] = "wait"
    BY <2>0, <2>2
  <2>4. \A q \in Procs : pc[q] = "wait" => ask'[q] = ask[q]
    BY Zenon, <2>0, <2>2
  <2>5. ASSUME NEW q \in Procs, pc'[q] = "hit"
        PROVE  q[2] = "call" /\ pc'[Refresher(q)] = "idle"
    <3>1. q # p /\ pc[q] = "hit" /\ q[2] = "call" /\ pc[Refresher(q)] = "idle"
      BY Zenon, <2>0, <2>2, <2>5
    <3>2. Refresher(q) # p /\ Refresher(q) # Refresher(p)
      BY <2>0, <3>1 DEF Refresher, Procs
    <3> QED
      BY Zenon, <2>2, <3>1, <3>2
  <2>6. NoneForgotten'
    BY <2>1, <2>3, <2>4
  <2>7. pc' \in [Procs -> {"idle", "hit", "do", "wait", "done"}] /\ ask' \in [Procs -> Keys]
    BY <2>2
  <2> QED
    BY Zenon, <2>1, <2>5, <2>6, <2>7
<1>3. ASSUME NEW p \in Procs, exchangeWithoutCache(p) PROVE Waiting'
  <2>1. /\ pc[p] = "do" /\ pc' = [pc EXCEPT ![p] = "wait"] /\ ask' = ask
    BY Zenon, <1>3 DEF exchangeWithoutCache, Goto
  <2>2. ask[p] \in Keys
    BY Zenon
  <2>3. \/ /\ leader[ask[p]] = Nil /\ leader' = [leader EXCEPT ![ask[p]] = p]
           /\ joined' = joined
        \/ /\ joined' = [joined EXCEPT ![ask[p]] = @ \cup {p}] /\ leader' = leader
    BY Zenon, <1>3 DEF exchangeWithoutCache
  <2>4. ASSUME NEW q \in Procs, pc'[q] = "hit"
        PROVE  q[2] = "call" /\ pc'[Refresher(q)] = "idle"
    BY Zenon, <2>1, <2>4
  <2>5. ASSUME NEW k \in Keys
        PROVE  {q \in Procs : pc'[q] = "wait" /\ ask'[q] = k}
                 = (joined'[k] \cup {leader'[k]}) \ {Nil}
    <3>1. CASE k # ask[p]
      BY <2>1, <2>2, <2>3, <3>1
    <3>2. CASE k = ask[p]
      <4>1. {q \in Procs : pc'[q] = "wait" /\ ask'[q] = k}
              = {q \in Procs : pc[q] = "wait" /\ ask[q] = k} \cup {p}
        BY <2>1, <3>2
      <4>2. (joined'[k] \cup {leader'[k]}) \ {Nil}
              = ((joined[k] \cup {leader[k]}) \ {Nil}) \cup {p}
        BY <2>2, <2>3, <3>2
      <4> QED
        BY Zenon, <4>1, <4>2
    <3> QED
      BY Zenon, <3>1, <3>2
  <2>6. leader' \in [Keys -> Procs \cup {Nil}] /\ joined' \in [Keys -> SUBSET Procs]
    BY <2>2, <2>3
  <2> QED
    BY Zenon, <2>1, <2>4, <2>5, <2>6
<1>4. ASSUME NEW p \in Procs, Return(p) PROVE Waiting'
  <2>1. /\ pc[p] = "done" /\ pc' = [pc EXCEPT ![p] = "idle"]
        /\ UNCHANGED <<ask, leader, joined>>
    BY Zenon, <1>4 DEF Return, Goto, flightVars
  <2>2. \A q \in Procs : pc[q] = "wait" <=> pc'[q] = "wait"
    BY Zenon, <2>1
  <2>3. NoneForgotten'
    BY Zenon, <2>1, <2>2
  <2> QED
    BY Zenon, <2>1, <2>3
<1>5. ASSUME NEW k \in Keys, Do(k) PROVE Waiting'
  <2> DEFINE all == joined[k] \cup {leader[k]}
  <2>1. /\ pc' = [p \in Procs |-> IF p \notin all THEN pc[p]
                                 ELSE IF p[2] = "call" THEN "done" ELSE "idle"]
        /\ leader' = [leader EXCEPT ![k] = Nil] /\ joined' = [joined EXCEPT ![k] = {}]
        /\ ask' = ask
    BY Zenon, <1>5 DEF Do
  <2>2. \A p \in Procs : p \in all <=> pc[p] = "wait" /\ ask[p] = k
    OBVIOUS
  <2> HIDE DEF all
  <2>3. \A p \in Procs : pc'[p] = "wait" <=> pc[p] = "wait" /\ ask[p] # k
    BY Zenon, <2>1, <2>2
  <2>4. NoneForgotten'
    BY <2>1, <2>3
  <2>5. \A p \in Procs : pc'[p] = "hit" => pc[p] = "hit" /\ p \notin all
    BY Zenon, <2>1
  <2>6. ASSUME NEW p \in Procs, pc'[p] = "hit"
        PROVE  p[2] = "call" /\ pc'[Refresher(p)] = "idle"
    <3>1. pc[p] = "hit" /\ p[2] = "call" /\ pc[Refresher(p)] = "idle"
      BY Zenon, <2>5, <2>6
    <3>2. Refresher(p) \in Procs /\ Refresher(p) \notin all
      BY Zenon, <2>2, <3>1
    <3> QED
      BY Zenon, <2>1, <3>1, <3>2
  <2>7. pc' \in [Procs -> {"idle", "hit", "do", "wait", "done"}]
    BY Zenon, <2>1
  <2> QED
    BY Zenon, <2>1, <2>4, <2>6, <2>7
<1>6. CASE Restart
  BY Zenon, <1>6 DEF Restart
<1>7. CASE UNCHANGED <<pc, ask, leader, joined>>
  BY Zenon, <1>7
<1>8. ASSUME NEW k \in Keys, Put(k) \/ DnsMsgAdd(k) \/ Expire(k) \/ Evict(k) PROVE Waiting'
  BY Zenon, <1>7, <1>8 DEF Put, DnsMsgAdd, Expire, Evict, procVars, flightVars
<1>9. ASSUME NEW k, NEW g, NEW s, NEW kind, Fail(k, g, s) \/ Answer(k, g, s, kind)
      PROVE  Waiting'
  BY Zenon, <1>7, <1>9 DEF Fail, Answer, procVars
<1>10. CASE handleDnsMsg \/ UNCHANGED vars
  BY Zenon, <1>7, <1>10 DEF handleDnsMsg, procVars, flightVars, vars
<1> HIDE DEF Waiting, NoneForgotten
<1> QED
  BY NextSteps, <1>1, <1>2, <1>3, <1>4, <1>5, <1>6, <1>8, <1>9, <1>10, ZenonT(60)

(* Only trusted answers are put into the cache, queued, saved and loaded.  *)
LEMMA KeptInductive == Picked /\ Kept /\ [Next]_vars => Kept'
<1> SUFFICES ASSUME Picked, Kept, [Next]_vars PROVE Kept'
  BY Zenon
<1>0. /\ \A k, m : Trusted(k, m)' <=> Trusted(k, m)
      /\ TrustedEntries' = TrustedEntries
  BY Zenon, ConfigFixed, TrustFixed
<1> USE DEF Kept
<1>1. ASSUME NEW k \in Keys, Put(k) PROVE Kept'
  <2>1. UNCHANGED <<queue, db>>
    BY Zenon, <1>1 DEF Put, saveVars
  <2>2. PICK r \in Replies \cup {Nil} :
          /\ ipExchange(k, r)
          /\ \/ r # Nil /\ putMsgToCache(k, r)
             \/ /\ r = Nil /\ stage' = [stage EXCEPT ![k] = "release"]
                /\ UNCHANGED <<answers, made, cacheVars>>
    BY Zenon, <1>1 DEF Put
  <2>3. CASE r # Nil /\ putMsgToCache(k, r)
    <3> DEFINE m == [from |-> r.from, kind |-> r.kind, stamp |-> answers + 1]
    <3>1. m \in AnyMsg
      BY <2>2, <2>3 DEF AnyMsg, Replies, Picked
    <3>2. m.from = r.from /\ m.kind = r.kind
      BY Zenon
    <3>3. /\ made' = [made EXCEPT ![k] = m] /\ stage' = [stage EXCEPT ![k] = "add"]
          /\ cache' = cache \/ cache' = [cache EXCEPT ![k] = Copy(m)]
      BY Zenon, <2>3 DEF putMsgToCache, cacheVars
    <3> HIDE DEF m
    <3>4. Trusted(k, m)
      BY Zenon, <2>2, <2>3, <3>2, ExchangeTrusted
    <3>5. Copy(m) \in [msg : AnyMsg, obj : {Nil}] /\ Copy(m).msg = m
      BY Zenon, <3>1 DEF Copy
    <3>6. /\ made' \in [Keys -> AnyMsg \cup {Nil}]
          /\ stage' \in [Keys -> {"none", "run", "add", "release"}]
          /\ \A j \in Keys : made'[j] # Nil => Trusted(j, made'[j])
          /\ \A j \in Keys : stage'[j] = "add" => made'[j] \in AnyMsg /\ Trusted(j, made'[j])
      BY Zenon, <3>1, <3>3, <3>4
    <3>7. /\ cache' \in [Keys -> [msg : AnyMsg, obj : {Nil}] \cup {Nil}]
          /\ \A j \in Keys : cache'[j] # Nil => Trusted(j, cache'[j].msg)
      BY <3>3, <3>4, <3>5
    <3> QED
      BY Zenon, <1>0, <2>1, <3>6, <3>7
  <2>4. CASE r = Nil /\ stage' = [stage EXCEPT ![k] = "release"]
             /\ UNCHANGED <<answers, made, cacheVars>>
    BY Zenon, <1>0, <2>1, <2>4 DEF cacheVars
  <2> QED
    BY Zenon, <2>2, <2>3, <2>4
<1>2. ASSUME NEW k \in Keys, DnsMsgAdd(k) PROVE Kept'
  <2>1. /\ stage[k] = "add" /\ stage' = [stage EXCEPT ![k] = "release"]
        /\ UNCHANGED <<made, db, cache>>
    BY Zenon, <1>2 DEF DnsMsgAdd, cacheVars
  <2>2. [key |-> k, msg |-> made[k]] \in TrustedEntries
    BY Zenon, <2>1 DEF TrustedEntries
  <2>3. queue' \in Seq(TrustedEntries)
    BY <1>2, <2>2 DEF DnsMsgAdd
  <2> QED
    BY Zenon, <1>0, <2>1, <2>3
<1>3. ASSUME NEW k \in Keys, Do(k) PROVE Kept'
  <2>1. /\ stage' = [stage EXCEPT ![k] = "none"] /\ made' = [made EXCEPT ![k] = Nil]
        /\ UNCHANGED <<queue, db, cache>>
    BY Zenon, <1>3 DEF Do, cacheVars, saveVars
  <2> QED
    BY Zenon, <1>0, <2>1
<1>4. ASSUME NEW k \in Keys, Evict(k) PROVE Kept'
  <2>1. /\ cache' = [cache EXCEPT ![k] = Nil] /\ db' = [db EXCEPT ![k] = Nil]
        /\ UNCHANGED <<queue, stage, made>>
    BY Zenon, <1>4 DEF Evict, flightVars
  <2> QED
    BY Zenon, <1>0, <2>1
<1>5. CASE handleDnsMsg
  <2>1. /\ queue # <<>> /\ queue' = Tail(queue) /\ UNCHANGED <<stage, made, cache>>
        /\ \/ db' = [db EXCEPT ![Head(queue).key] = Head(queue).msg]
           \/ db' = db
    BY Zenon, <1>5 DEF handleDnsMsg, flightVars, cacheVars
  <2>2. Head(queue) \in TrustedEntries /\ Tail(queue) \in Seq(TrustedEntries)
    BY <2>1
  <2>3. PICK e \in TrustedEntries : e = Head(queue)
    BY Zenon, <2>2
  <2>4. e.key \in Keys /\ e.msg \in AnyMsg /\ Trusted(e.key, e.msg)
    BY Zenon DEF TrustedEntries
  <2>5. /\ db' \in [Keys -> AnyMsg \cup {Nil}]
        /\ \A k \in Keys : db'[k] # Nil => Trusted(k, db'[k])
    BY Zenon, <2>1, <2>3, <2>4
  <2> QED
    BY Zenon, <1>0, <2>1, <2>2, <2>5
<1>6. CASE Restart
  <2>1. /\ cache' = [k \in Keys |-> IF db[k] # Nil THEN Copy(db[k]) ELSE Nil]
        /\ stage' = [k \in Keys |-> "none"] /\ made' = [k \in Keys |-> Nil]
        /\ queue' = <<>> /\ db' = db
    BY Zenon, <1>6 DEF Restart
  <2>2. ASSUME NEW k \in Keys
        PROVE  /\ cache'[k] \in [msg : AnyMsg, obj : {Nil}] \cup {Nil}
               /\ cache'[k] # Nil => Trusted(k, cache'[k].msg)
    BY Zenon, <2>1 DEF Copy
  <2>3. cache' \in [Keys -> [msg : AnyMsg, obj : {Nil}] \cup {Nil}]
    BY Zenon, <2>1, <2>2
  <2>4. queue' \in Seq(TrustedEntries)
    BY <2>1
  <2> QED
    BY Zenon, <1>0, <2>1, <2>2, <2>3, <2>4
<1>7. CASE UNCHANGED <<made, db, queue, cache, stage>>
  BY Zenon, <1>0, <1>7
<1>8. ASSUME NEW c, NEW k, ExchangeContext(c, k) \/ Expire(k) PROVE Kept'
  BY Zenon, <1>7, <1>8 DEF ExchangeContext, Expire, flightVars, cacheVars, saveVars
<1>9. ASSUME NEW p, Hit(p) \/ exchangeWithoutCache(p) \/ Return(p) PROVE Kept'
  <2>1. stage' = stage \/ \E k : stage' = [stage EXCEPT ![k] = "run"]
    BY Zenon, <1>9 DEF Hit, exchangeWithoutCache, Return, flightVars
  <2>2. UNCHANGED <<made, db, queue, cache>>
    BY Zenon, <1>9 DEF Hit, exchangeWithoutCache, Return, flightVars, cacheVars, saveVars
  <2> QED
    BY Zenon, <1>0, <2>1, <2>2
<1>10. ASSUME NEW k, NEW g, NEW s, NEW kind, Fail(k, g, s) \/ Answer(k, g, s, kind)
       PROVE  Kept'
  BY Zenon, <1>7, <1>10 DEF Fail, Answer, cacheVars, saveVars
<1>11. CASE UNCHANGED vars
  BY Zenon, <1>7, <1>11 DEF vars
<1> HIDE DEF Kept
<1> QED
  BY NextSteps, <1>1, <1>2, <1>3, <1>4, <1>5, <1>6, <1>8, <1>9, <1>10, <1>11, ZenonT(60)

(* A process gets answers to its own question: from the cache, or from the *)
(* fetch of the question it waits for.                                     *)
LEMMA HeldInductive == Waiting /\ Kept /\ Held /\ [Next]_vars => Held'
<1> SUFFICES ASSUME Waiting, Kept, Held, [Next]_vars PROVE Held'
  BY Zenon
<1>0. \A k, m : Trusted(k, m)' <=> Trusted(k, m)
  BY Zenon, ConfigFixed, TrustFixed
<1>a. \A p \in Procs : \A r : ask'[p] = ask[p] => (Fits(p, r)' <=> Fits(p, r))
  <2> SUFFICES ASSUME NEW p \in Procs, NEW r, ask'[p] = ask[p]
               PROVE  r \in [msg : AnyMsg, obj : {Nil, p}] /\ Trusted(ask[p], r.msg)'
                        <=> Fits(p, r)
    BY Zenon DEF Fits
  <2> QED
    BY Zenon, <1>0 DEF Fits
<1>b. \A p \in Procs : \A r : Fits(p, r) => r \in [msg : AnyMsg, obj : Owners]
  BY Zenon DEF Fits, Owners
<1>1. ASSUME NEW c \in Callers, NEW k \in Keys, ExchangeContext(c, k) PROVE Held'
  <2> DEFINE p == <<c, "call">>
  <2>0. p \in Procs /\ p[2] = "call"
    BY Zenon, ProcFacts
  <2>1. /\ ask' = [ask EXCEPT ![p] = k] /\ got' = [got EXCEPT ![p] = cache[k]]
        /\ pc' = [pc EXCEPT ![p] = IF cache[k] = Nil THEN "do" ELSE "hit"]
    BY Zenon, <1>1 DEF ExchangeContext, Goto
  <2> HIDE DEF p
  <2>2. ask'[p] = k /\ got'[p] = cache[k] /\ (pc'[p] = "hit" => cache[k] # Nil)
    BY Zenon, <2>0, <2>1 DEF Waiting, Held
  <2>3. cache[k] # Nil => Fits(p, got[p])'
    BY <1>0, <2>0, <2>2 DEF Kept, Fits
  <2>4. cache[k] \in [msg : AnyMsg, obj : Owners] \cup {Nil}
    BY Zenon DEF Kept, Owners
  <2>5. \A q \in Procs \ {p} : ask'[q] = ask[q] /\ got'[q] = got[q] /\ pc'[q] = pc[q]
    BY Zenon, <2>1 DEF Waiting, Held
  <2> QED
    BY <1>a, <2>0, <2>1, <2>2, <2>3, <2>4, <2>5 DEF Held
<1>2. ASSUME NEW p \in Procs, Hit(p) PROVE Held'
  <2>0. /\ p[2] = "call" /\ Refresher(p) \in Procs /\ Refresher(p) # p
        /\ Refresher(p)[2] = "refresh" /\ Fits(p, got[p])
    BY Zenon, <1>2, ProcFacts DEF Hit, Waiting, Held
  <2>1. got' = [got EXCEPT ![p] = Copy(got[p].msg)]
    BY Zenon, <1>2 DEF Hit
  <2>2. \/ pc' = [pc EXCEPT ![p] = "done"] /\ ask' = ask
        \/ /\ pc' = [pc EXCEPT ![p] = "done", ![Refresher(p)] = "do"]
           /\ ask' = [ask EXCEPT ![Refresher(p)] = ask[p]]
    BY Zenon, <1>2 DEF Hit, Goto
  <2>3. Fits(p, Copy(got[p].msg))
    BY Zenon, <2>0 DEF Fits, Copy
  <2>4. ask'[p] = ask[p] /\ got'[p] = Copy(got[p].msg) /\ pc'[p] = "done"
    BY Zenon, <2>0, <2>1, <2>2 DEF Waiting, Held
  <2>5. \A q \in Procs \ {p} : got'[q] = got[q] /\ (pc'[q] = "hit" => pc[q] = "hit")
    BY Zenon, <2>0, <2>1, <2>2 DEF Waiting, Held
  <2>6. \A q \in Procs \ {p} : q # Refresher(p) => ask'[q] = ask[q]
    BY Zenon, <2>2 DEF Waiting
  <2>7. got[Refresher(p)] = Nil /\ pc'[Refresher(p)] # "hit"
    BY Zenon, <1>2, <2>0, <2>2 DEF Held, Waiting, Hit
  <2>8. got' \in [Procs -> [msg : AnyMsg, obj : Owners] \cup {Nil}]
    BY Zenon, <1>b, <2>1, <2>3 DEF Held
  <2>9. ASSUME NEW q \in Procs
        PROVE  /\ got'[q] # Nil => Fits(q, got[q])'
               /\ pc'[q] = "hit" => Fits(q, got[q])'
               /\ q[2] = "refresh" => got'[q] = Nil
    <3>1. CASE q = p
      BY Zenon, <1>a, <2>0, <2>3, <2>4, <3>1
    <3>2. CASE q = Refresher(p)
      BY Zenon, <2>0, <2>5, <2>7, <3>2
    <3>3. CASE q # p /\ q # Refresher(p)
      BY Zenon, <1>a, <2>5, <2>6, <3>3 DEF Held
    <3> QED
      BY Zenon, <3>1, <3>2, <3>3
  <2> QED
    BY Zenon, <2>8, <2>9 DEF Held
<1>3. ASSUME NEW k \in Keys, Do(k) PROVE Held'
  <2> DEFINE all == joined[k] \cup {leader[k]}
  <2>1. /\ pc' = [p \in Procs |-> IF p \notin all THEN pc[p]
                                 ELSE IF p[2] = "call" THEN "done" ELSE "idle"]
        /\ got' = [p \in Procs |-> IF p \in all /\ p[2] = "call" THEN Result(k, p)
                                  ELSE got[p]]
        /\ ask' = ask
    BY Zenon, <1>3 DEF Do
  <2>2. \A p \in Procs : p \in all => ask[p] = k
    BY ProcFacts DEF Waiting, NoneForgotten
  <2> HIDE DEF all
  <2>3. ASSUME NEW p \in Procs, p \in all, Result(k, p) # Nil PROVE Fits(p, Result(k, p))
    <3>1. made[k] # Nil /\ made[k] \in AnyMsg /\ Trusted(k, made[k])
      BY Zenon, <2>3 DEF Result, Kept
    <3>2. \/ Result(k, p) = [msg |-> made[k], obj |-> Nil]
          \/ Result(k, p) = [msg |-> made[k], obj |-> p]
      BY Zenon, <3>1 DEF Result, Copy
    <3> QED
      BY <2>2, <2>3, <3>1, <3>2 DEF Fits
  <2>4. ASSUME NEW p \in Procs
        PROVE  /\ got'[p] \in [msg : AnyMsg, obj : Owners] \cup {Nil}
               /\ got'[p] # Nil => Fits(p, got'[p])
               /\ pc'[p] = "hit" => Fits(p, got'[p])
               /\ p[2] = "refresh" => got'[p] = Nil
    <3>1. CASE p \in all /\ p[2] = "call"
      BY Zenon, <1>b, <2>1, <2>3, <3>1
    <3>2. CASE ~(p \in all /\ p[2] = "call")
      <4>1. got'[p] = got[p] /\ (pc'[p] = "hit" => pc[p] = "hit")
        BY Zenon, <2>1, <3>2
      <4> QED
        BY Zenon, <4>1 DEF Held
    <3> QED
      BY Zenon, <3>1, <3>2
  <2>5. got' \in [Procs -> [msg : AnyMsg, obj : Owners] \cup {Nil}]
    BY Zenon, <2>1, <2>4
  <2> QED
    BY Zenon, <1>a, <2>1, <2>4, <2>5 DEF Held
<1>4. ASSUME NEW p \in Procs, exchangeWithoutCache(p) \/ Return(p) PROVE Held'
  <2>1. PICK l \in {"wait", "idle"} : pc' = [pc EXCEPT ![p] = l]
    BY Zenon, <1>4 DEF exchangeWithoutCache, Return, Goto
  <2>2. ask' = ask /\ (got' = got \/ got' = [got EXCEPT ![p] = Nil])
    BY Zenon, <1>4 DEF exchangeWithoutCache, Return
  <2>3. ASSUME NEW q \in Procs
        PROVE  /\ got'[q] = got[q] \/ (q = p /\ got'[q] = Nil)
               /\ pc'[q] = "hit" => pc[q] = "hit" /\ q # p
    BY Zenon, <2>1, <2>2 DEF Waiting, Held
  <2>4. got' \in [Procs -> [msg : AnyMsg, obj : Owners] \cup {Nil}]
    BY Zenon, <2>2 DEF Held
  <2> QED
    BY Zenon, <1>a, <2>2, <2>3, <2>4 DEF Held
<1>5. CASE Restart
  BY Zenon, <1>5 DEF Restart, Held
<1>6. CASE UNCHANGED <<pc, ask, got>>
  BY Zenon, <1>a, <1>6 DEF Held
<1>7. ASSUME NEW k \in Keys, Put(k) \/ DnsMsgAdd(k) \/ Expire(k) \/ Evict(k) PROVE Held'
  BY Zenon, <1>6, <1>7 DEF Put, DnsMsgAdd, Expire, Evict, procVars
<1>8. ASSUME NEW k, NEW g, NEW s, NEW kind, Fail(k, g, s) \/ Answer(k, g, s, kind)
      PROVE  Held'
  BY Zenon, <1>6, <1>8 DEF Fail, Answer, procVars
<1>9. CASE handleDnsMsg \/ UNCHANGED vars
  BY Zenon, <1>6, <1>9 DEF handleDnsMsg, procVars, vars
<1> QED
  BY NextSteps, <1>1, <1>2, <1>3, <1>4, <1>5, <1>7, <1>8, <1>9, ZenonT(60)

(***************************************************************************)
(* Theorems.                                                               *)
(***************************************************************************)
(* The parts of the invariant hold together in every state of the resolver *)
(* and its database.                                                       *)
THEOREM ResolverInvariant == Spec => []IInv
<1>1. Init => IInv
  <2> SUFFICES ASSUME Init PROVE IInv
    BY Zenon
  <2>1. Waiting
    BY Zenon, ProcFacts DEF Init, Waiting, NoneForgotten
  <2>2. Picked
    BY Zenon DEF Init, Picked
  <2>3. Kept /\ Held
    BY DEF Init, Kept, Held
  <2> QED
    BY Zenon, <2>1, <2>2, <2>3 DEF IInv
<1>2. IInv /\ [Next]_vars => IInv'
  BY Zenon, WaitingInductive, PickedInductive, KeptInductive, HeldInductive DEF IInv
<1> QED
  BY <1>1, <1>2, PTL DEF Spec

(* However calls, refreshes and fetches interleave, those who wait for a   *)
(* question are those whom the return of its fetch wakes (group.Do).       *)
THEOREM NobodyIsForgotten == Spec => []NoneForgotten
<1>1. IInv => NoneForgotten
  BY Zenon DEF IInv, Waiting
<1> QED
  BY <1>1, ResolverInvariant, PTL

(* With any servers, filters and policies, no answer is handed out, cached *)
(* or saved that ipExchange should have left to the fallback or to others. *)
THEOREM AnswersAreTrusted == Spec => []AnswersTrusted
<1>1. IInv => AnswersTrusted
  <2> SUFFICES ASSUME IInv, NEW k \in Keys, NEW m \in Known(k) PROVE Trusted(k, m)
    BY Zenon DEF AnswersTrusted
  <2>1. CASE m \in {db[k], made[k]} /\ m # Nil
    BY <2>1 DEF IInv, Kept
  <2>2. CASE \E i \in DOMAIN queue : queue[i].key = k /\ m = queue[i].msg
    <3>1. PICK i \in DOMAIN queue : queue[i].key = k /\ m = queue[i].msg
      BY Zenon, <2>2
    <3>2. queue[i] \in TrustedEntries
      BY DEF IInv, Kept
    <3> QED
      BY Zenon, <3>1, <3>2 DEF TrustedEntries
  <2>3. CASE cache[k] # Nil /\ m = cache[k].msg
    BY Zenon, <2>3 DEF IInv, Kept
  <2>4. CASE \E p \in Procs : ask[p] = k /\ got[p] # Nil /\ m = got[p].msg
    BY Zenon, <2>4 DEF IInv, Held, Fits
  <2> QED
    BY <2>1, <2>2, <2>3, <2>4, ZenonT(60) DEF Known
<1> QED
  BY <1>1, ResolverInvariant, PTL

(* For any number of callers, a message that a caller has without a copy   *)
(* is nobody else's and not the cache's (exchangeWithoutCache).            *)
THEOREM EachHasItsOwn == Spec => []SoleOwner
<1>1. IInv => SoleOwner
  <2> SUFFICES ASSUME IInv PROVE SoleOwner
    BY Zenon
  <2>1. \A p \in Holders : p \in Procs /\ got[p].obj \in {Nil, p}
    BY Zenon DEF IInv, Held, Fits, Holders
  <2>2. \A k \in Keys : cache[k] # Nil => cache[k].obj = Nil
    BY Zenon DEF IInv, Kept
  <2> QED
    BY Zenon, <2>1, <2>2, ProcFacts DEF SoleOwner
<1> QED
  BY <1>1, ResolverInvariant, PTL

(***************************************************************************)
(* The order of answers.                                                   *)
(***************************************************************************)
(* The number of a message, that of an entry of the cache or of the queue, *)
(* and the question of an entry of the queue.                              *)
Stamp(m) == m.stamp
EntryStamp(e) == e.msg.stamp
EntryKey(e) == e.key

(* Answers are numbered in the order they are given, none above the last.  *)
Numbers ==
  /\ \A k \in Keys : stage[k] = "add" => Stamp(made[k]) <= answers
  /\ \A k \in Keys : cache[k] # Nil => EntryStamp(cache[k]) <= answers
  /\ \A k \in Keys : db[k] # Nil => Stamp(db[k]) <= answers
  /\ \A i \in DOMAIN queue : EntryStamp(queue[i]) <= answers

(* What waits in the queue for one question is in order,                   *)
QueueInOrder ==
  \A i, j \in DOMAIN queue :
    i < j /\ EntryKey(queue[i]) = EntryKey(queue[j])
    => EntryStamp(queue[i]) <= EntryStamp(queue[j])

(* not older than what the database has,                                   *)
SavedFirst ==
  \A k \in Keys : db[k] # Nil =>
    /\ \A i \in DOMAIN queue :
         EntryKey(queue[i]) = k => Stamp(db[k]) <= EntryStamp(queue[i])
    /\ stage[k] = "add" => Stamp(db[k]) <= Stamp(made[k])

(* and not newer than what a fetch is about to queue.                      *)
AddedLast ==
  \A k \in Keys : stage[k] = "add" =>
    \A i \in DOMAIN queue : EntryKey(queue[i]) = k => EntryStamp(queue[i]) <= Stamp(made[k])

Ordered == Numbers /\ QueueInOrder /\ SavedFirst /\ AddedLast

(* No question's saved answer gets older, and neither does the cached one. *)
SavedForward == \A k \in Keys : db[k] # Nil /\ db'[k] # Nil => Stamp(db[k]) <= Stamp(db'[k])
CachedForward ==
  \A k \in Keys :
    cache[k] # Nil /\ cache'[k] # Nil => EntryStamp(cache[k]) <= EntryStamp(cache'[k])

(* The types that the order needs.                                         *)
LEMMA Numbered ==
  ASSUME Picked, Kept
  PROVE  /\ answers \in Nat
         /\ \A k \in Keys : stage[k] = "add" => Stamp(made[k]) \in Nat
         /\ \A k \in Keys : cache[k] # Nil => EntryStamp(cache[k]) \in Nat
         /\ \A k \in Keys : db[k] # Nil => Stamp(db[k]) \in Nat
         /\ \A i \in DOMAIN queue : EntryKey(queue[i]) \in Keys /\ EntryStamp(queue[i]) \in Nat
<1>1. \A i \in DOMAIN queue : queue[i] \in TrustedEntries
  BY DEF Kept
<1>2. \A e \in TrustedEntries : EntryKey(e) \in Keys /\ EntryStamp(e) \in Nat
  BY Zenon DEF TrustedEntries, AnyMsg, EntryKey, EntryStamp
<1>3. \A m \in AnyMsg : Stamp(m) \in Nat
  BY Zenon DEF AnyMsg, Stamp
<1>4. \A r \in [msg : AnyMsg, obj : {Nil}] : EntryStamp(r) \in Nat
  BY Zenon DEF AnyMsg, EntryStamp
<1> QED
  BY Zenon, <1>1, <1>2, <1>3, <1>4 DEF Picked, Kept

(* A step that brings no answer any further keeps the order: it may only   *)
(* take answers away.                                                      *)
LEMMA QuietStep ==
  ASSUME Ordered, Picked, Kept, answers' = answers, queue' = queue,
         \A k \in Keys : cache'[k] = cache[k] \/ cache'[k] = Nil,
         \A k \in Keys : db'[k] = db[k] \/ db'[k] = Nil,
         \A k \in Keys : stage'[k] = "add" => stage[k] = "add" /\ made'[k] = made[k]
  PROVE  Ordered' /\ SavedForward /\ CachedForward
<1>1. Numbers'
  BY Zenon DEF Ordered, Numbers
<1>2. QueueInOrder'
  BY Zenon DEF Ordered, QueueInOrder
<1>3. SavedFirst'
  BY Zenon DEF Ordered, SavedFirst
<1>4. AddedLast'
  BY Zenon DEF Ordered, AddedLast
<1>5. SavedForward /\ CachedForward
  BY Numbered DEF SavedForward, CachedForward
<1> QED
  BY Zenon, <1>1, <1>2, <1>3, <1>4, <1>5 DEF Ordered

(* An answer that is put into the cache is newer than all others.          *)
LEMMA PutStep ==
  ASSUME Ordered, Picked, Kept, NEW k \in Keys, Put(k)
  PROVE  Ordered' /\ SavedForward /\ CachedForward
<1>0. queue' = queue /\ db' = db
  BY Zenon DEF Put, saveVars
<1>1. PICK r \in Replies \cup {Nil} :
        \/ r # Nil /\ putMsgToCache(k, r)
        \/ /\ r = Nil /\ stage' = [stage EXCEPT ![k] = "release"]
           /\ UNCHANGED <<answers, made, cacheVars>>
  BY Zenon DEF Put
<1>2. CASE r # Nil /\ putMsgToCache(k, r)
  <2> DEFINE m == [from |-> r.from, kind |-> r.kind, stamp |-> answers + 1]
  <2>1. /\ answers' = answers + 1
        /\ made' = [made EXCEPT ![k] = m] /\ stage' = [stage EXCEPT ![k] = "add"]
        /\ cache' = cache \/ cache' = [cache EXCEPT ![k] = Copy(m)]
    BY Zenon, <1>2 DEF putMsgToCache, cacheVars
  <2>2. Stamp(m) = answers + 1 /\ EntryStamp(Copy(m)) = answers + 1
    <3>1. m.stamp = answers + 1 /\ Copy(m).msg = m
      BY Zenon DEF Copy
    <3> HIDE DEF m
    <3> QED
      BY <3>1, Zenon DEF Stamp, EntryStamp
  <2> HIDE DEF m
  <2>3. /\ \A j \in Keys :
             stage'[j] = "add" => \/ j = k /\ made'[j] = m
                                  \/ j # k /\ stage[j] = "add" /\ made'[j] = made[j]
        /\ \A j \in Keys : cache'[j] = cache[j] \/ cache'[j] = Copy(m)
    BY Zenon, <2>1 DEF Kept
  <2>4. Numbers'
    BY <1>0, <2>1, <2>2, <2>3, Numbered DEF Ordered, Numbers
  <2>5. QueueInOrder'
    BY Zenon, <1>0 DEF Ordered, QueueInOrder
  <2>6. SavedFirst'
    BY <1>0, <2>2, <2>3, Numbered DEF Ordered, SavedFirst, Numbers
  <2>7. AddedLast'
    BY <1>0, <2>2, <2>3, Numbered DEF Ordered, AddedLast, Numbers
  <2>8. SavedForward
    BY <1>0, Numbered DEF SavedForward
  <2>9. CachedForward
    BY <2>2, <2>3, Numbered DEF CachedForward, Ordered, Numbers
  <2> QED
    BY Zenon, <2>4, <2>5, <2>6, <2>7, <2>8, <2>9 DEF Ordered
<1>3. CASE stage' = [stage EXCEPT ![k] = "release"] /\ UNCHANGED <<answers, made, cacheVars>>
  <2>1. \A j \in Keys : stage'[j] = "add" => stage[j] = "add"
    BY Zenon, <1>3 DEF Kept
  <2> QED
    BY Zenon, <1>0, <1>3, <2>1, QuietStep DEF cacheVars
<1> QED
  BY Zenon, <1>1, <1>2, <1>3

(* What DnsMsgAdd queues is the newest of its question.                    *)
LEMMA AddStep ==
  ASSUME Ordered, Picked, Kept, NEW k \in Keys, DnsMsgAdd(k)
  PROVE  Ordered' /\ SavedForward /\ CachedForward
<1> DEFINE e == [key |-> k, msg |-> made[k]]
<1>0. /\ stage[k] = "add" /\ stage' = [stage EXCEPT ![k] = "release"]
      /\ made' = made /\ answers' = answers /\ cache' = cache /\ db' = db
  BY Zenon DEF DnsMsgAdd, cacheVars
<1>1. \A j \in Keys : stage'[j] = "add" => stage[j] = "add" /\ j # k
  BY Zenon, <1>0 DEF Kept
<1>2. CASE queue' = queue
  BY Zenon, <1>0, <1>1, <1>2, QuietStep
<1>3. CASE queue' = Append(queue, e)
  <2>1. EntryKey(e) = k /\ EntryStamp(e) = Stamp(made[k])
    <3>1. e.key = k /\ e.msg = made[k]
      BY Zenon
    <3> HIDE DEF e
    <3> QED
      BY <3>1, Zenon DEF EntryKey, EntryStamp, Stamp
  <2> HIDE DEF e
  <2>2. /\ Len(queue) \in Nat /\ DOMAIN queue = 1..Len(queue)
        /\ DOMAIN queue' = 1..(Len(queue) + 1)
        /\ \A i \in DOMAIN queue : queue'[i] = queue[i]
        /\ queue'[Len(queue) + 1] = e
    BY <1>3 DEF Kept
  <2>3. \A i \in DOMAIN queue' :
          \/ i \in DOMAIN queue /\ queue'[i] = queue[i]
          \/ i \notin DOMAIN queue /\ queue'[i] = e
    BY <2>2
  <2>4. Numbers'
    BY Zenon, <1>0, <1>1, <2>1, <2>3 DEF Ordered, Numbers
  <2>5. QueueInOrder'
    <3> SUFFICES ASSUME NEW i \in DOMAIN queue', NEW j \in DOMAIN queue', i < j,
                        EntryKey(queue'[i]) = EntryKey(queue'[j])
                 PROVE  EntryStamp(queue'[i]) <= EntryStamp(queue'[j])
      BY Zenon DEF QueueInOrder
    <3>1. i \in DOMAIN queue /\ queue'[i] = queue[i]
      BY <2>2
    <3>2. CASE j \in DOMAIN queue
      BY Zenon, <2>2, <3>1, <3>2 DEF Ordered, QueueInOrder
    <3>3. CASE queue'[j] = e
      BY Zenon, <1>0, <2>1, <3>1, <3>3 DEF Ordered, AddedLast
    <3> QED
      BY Zenon, <2>3, <3>2, <3>3
  <2>6. SavedFirst'
    BY Zenon, <1>0, <1>1, <2>1, <2>3 DEF Ordered, SavedFirst
  <2>7. AddedLast'
    BY Zenon, <1>0, <1>1, <2>1, <2>3 DEF Ordered, AddedLast
  <2>8. SavedForward /\ CachedForward
    BY <1>0, Numbered DEF SavedForward, CachedForward
  <2> QED
    BY Zenon, <2>4, <2>5, <2>6, <2>7, <2>8 DEF Ordered
<1> QED
  BY Zenon, <1>2, <1>3 DEF DnsMsgAdd

(* The head of the queue is not older than what it replaces, and not newer *)
(* than what waits behind it.                                              *)
LEMMA SaveStep ==
  ASSUME Ordered, Picked, Kept, handleDnsMsg
  PROVE  Ordered' /\ SavedForward /\ CachedForward
<1> DEFINE e == Head(queue)
<1>0. /\ queue # <<>> /\ queue' = Tail(queue)
      /\ db' = [db EXCEPT ![e.key] = e.msg] \/ db' = db
      /\ stage' = stage /\ made' = made /\ answers' = answers /\ cache' = cache
  BY Zenon DEF handleDnsMsg, flightVars, cacheVars
<1>1. /\ 1 \in DOMAIN queue /\ e = queue[1]
      /\ \A i \in DOMAIN queue' : /\ i + 1 \in DOMAIN queue /\ queue'[i] = queue[i + 1]
                                  /\ i \in Nat \ {0}
  BY <1>0 DEF Kept
<1>2. EntryKey(e) \in Keys /\ EntryStamp(e) \in Nat
  BY Zenon, <1>1, Numbered
<1>3. EntryKey(e) = e.key /\ EntryStamp(e) = Stamp(e.msg)
  BY Zenon DEF EntryKey, EntryStamp, Stamp
<1> HIDE DEF e
<1>4. \A k \in Keys : \/ db'[k] = db[k]
                      \/ k = EntryKey(e) /\ db'[k] = e.msg
  BY Zenon, <1>0, <1>2, <1>3 DEF Kept
<1>5. Numbers'
  BY <1>0, <1>1, <1>3, <1>4 DEF Ordered, Numbers
<1>6. QueueInOrder'
  <2> SUFFICES ASSUME NEW i \in DOMAIN queue', NEW j \in DOMAIN queue', i < j,
                      EntryKey(queue'[i]) = EntryKey(queue'[j])
               PROVE  EntryStamp(queue'[i]) <= EntryStamp(queue'[j])
    BY Zenon DEF QueueInOrder
  <2>1. i + 1 < j + 1
    BY <1>1
  <2> QED
    BY Zenon, <1>1, <2>1 DEF Ordered, QueueInOrder
<1>7. \A i \in DOMAIN queue' : EntryKey(queue'[i]) = EntryKey(e)
                               => EntryStamp(e) <= EntryStamp(queue'[i])
  <2> SUFFICES ASSUME NEW i \in DOMAIN queue', EntryKey(queue'[i]) = EntryKey(e)
               PROVE  EntryStamp(e) <= EntryStamp(queue'[i])
    BY Zenon
  <2>1. 1 < i + 1
    BY <1>1
  <2> QED
    BY Zenon, <1>1, <2>1 DEF Ordered, QueueInOrder
<1>8. SavedFirst'
  <2> SUFFICES ASSUME NEW k \in Keys, db'[k] # Nil
               PROVE  /\ \A i \in DOMAIN queue' : EntryKey(queue'[i]) = k
                                                  => Stamp(db'[k]) <= EntryStamp(queue'[i])
                      /\ stage'[k] = "add" => Stamp(db'[k]) <= Stamp(made'[k])
    BY Zenon DEF SavedFirst
  <2>1. CASE db'[k] = db[k]
    BY Zenon, <1>0, <1>1, <2>1 DEF Ordered, SavedFirst
  <2>2. CASE k = EntryKey(e) /\ db'[k] = e.msg
    BY Zenon, <1>0, <1>1, <1>3, <1>7, <2>2 DEF Ordered, AddedLast
  <2> QED
    BY Zenon, <1>4, <2>1, <2>2
<1>9. AddedLast'
  BY Zenon, <1>0, <1>1 DEF Ordered, AddedLast
<1>10. SavedForward
  BY <1>1, <1>3, <1>4, Numbered DEF SavedForward, Ordered, SavedFirst
<1>11. CachedForward
  BY <1>0, Numbered DEF CachedForward
<1> QED
  BY Zenon, <1>5, <1>6, <1>8, <1>9, <1>10, <1>11 DEF Ordered

(* A restart fills the cache with what was saved.                          *)
LEMMA RestartStep ==
  ASSUME Ordered, Picked, Kept, Restart
  PROVE  Ordered' /\ SavedForward
<1>1. /\ cache' = [k \in Keys |-> IF db[k] # Nil THEN Copy(db[k]) ELSE Nil]
      /\ stage' = [k \in Keys |-> "none"]
      /\ queue' = <<>> /\ db' = db /\ answers' = answers
  BY Zenon DEF Restart
<1>2. \A m : EntryStamp(Copy(m)) = Stamp(m)
  <2> SUFFICES ASSUME NEW m PROVE EntryStamp(Copy(m)) = Stamp(m)
    BY Zenon
  <2>1. Copy(m).msg = m
    BY Zenon DEF Copy
  <2> QED
    BY <2>1, Zenon DEF EntryStamp, Stamp
<1>3. DOMAIN queue' = {} /\ \A k \in Keys : stage'[k] # "add"
  BY <1>1
<1>4. \A k \in Keys : cache'[k] # Nil => db[k] # Nil /\ cache'[k] = Copy(db[k])
  BY Zenon, <1>1
<1>5. Numbers'
  BY Zenon, <1>1, <1>2, <1>3, <1>4 DEF Ordered, Numbers
<1>6. QueueInOrder' /\ SavedFirst' /\ AddedLast'
  BY Zenon, <1>3 DEF QueueInOrder, SavedFirst, AddedLast
<1>7. SavedForward
  BY <1>1, Numbered DEF SavedForward
<1> QED
  BY Zenon, <1>5, <1>6, <1>7 DEF Ordered

(* Every step keeps the order, and only a restart takes the cache back.    *)
LEMMA OrderedInductive ==
  Ordered /\ Picked /\ Kept /\ [Next]_vars
    => Ordered' /\ SavedForward /\ (CachedForward \/ Restart)
<1> SUFFICES ASSUME Ordered, Picked, Kept, [Next]_vars
             PROVE  Ordered' /\ SavedForward /\ (CachedForward \/ Restart)
  BY Zenon
<1>1. ASSUME UNCHANGED <<answers, queue, made, cache, db, stage>>
      PROVE  Ordered' /\ SavedForward /\ CachedForward
  BY Zenon, <1>1, QuietStep
<1>2. ASSUME NEW c, NEW k, ExchangeContext(c, k) \/ Expire(k)
      PROVE  Ordered' /\ SavedForward /\ CachedForward
  BY Zenon, <1>1, <1>2 DEF ExchangeContext, Expire, flightVars, cacheVars, saveVars
<1>3. ASSUME NEW p \in Procs, Hit(p) \/ exchangeWithoutCache(p) \/ Return(p)
      PROVE  Ordered' /\ SavedForward /\ CachedForward
  <2>1. stage' = stage \/ \E k : stage' = [stage EXCEPT ![k] = "run"]
    BY Zenon, <1>3 DEF Hit, exchangeWithoutCache, Return, flightVars
  <2>2. UNCHANGED <<answers, made, db, queue, cache>>
    BY Zenon, <1>3 DEF Hit, exchangeWithoutCache, Return, flightVars, cacheVars, saveVars
  <2>3. \A k \in Keys : stage'[k] = "add" => stage[k] = "add"
    BY Zenon, <2>1 DEF Kept
  <2> QED
    BY Zenon, <2>2, <2>3, QuietStep
<1>4. ASSUME NEW k \in Keys, Do(k) \/ Evict(k)
      PROVE  Ordered' /\ SavedForward /\ CachedForward
  <2>1. CASE Do(k)
    <3>1. /\ stage' = [stage EXCEPT ![k] = "none"] /\ made' = [made EXCEPT ![k] = Nil]
          /\ UNCHANGED <<answers, queue, db, cache>>
      BY Zenon, <2>1 DEF Do, cacheVars, saveVars
    <3>2. \A j \in Keys : stage'[j] = "add" => stage[j] = "add" /\ made'[j] = made[j]
      BY Zenon, <3>1 DEF Kept
    <3> QED
      BY Zenon, <3>1, <3>2, QuietStep
  <2>2. CASE Evict(k)
    <3>1. /\ cache' = [cache EXCEPT ![k] = Nil] /\ db' = [db EXCEPT ![k] = Nil]
          /\ UNCHANGED <<answers, queue, stage, made>>
      BY Zenon, <2>2 DEF Evict, flightVars
    <3>2. \A j \in Keys : /\ cache'[j] = cache[j] \/ cache'[j] = Nil
                          /\ db'[j] = db[j] \/ db'[j] = Nil
      BY Zenon, <3>1 DEF Kept
    <3> QED
      BY Zenon, <3>1, <3>2, QuietStep
  <2> QED
    BY Zenon, <1>4, <2>1, <2>2
<1>5. ASSUME NEW k, NEW g, NEW s, NEW kind, Fail(k, g, s) \/ Answer(k, g, s, kind)
      PROVE  Ordered' /\ SavedForward /\ CachedForward
  BY Zenon, <1>1, <1>5 DEF Fail, Answer, cacheVars, saveVars
<1>6. CASE UNCHANGED vars
  BY Zenon, <1>1, <1>6 DEF vars
<1> QED
  BY NextSteps, <1>2, <1>3, <1>4, <1>5, <1>6, PutStep, AddStep, SaveStep, RestartStep,
     ZenonT(60)

(* For any number of questions and any capacity of the queue, the database *)
(* never goes back to an older answer, and the cache only at a restart     *)
(* (putMsgToCache, DnsMsgAdd, handleDnsMsg).                               *)
THEOREM AnswersNeverGoBack == Spec => AnswersMoveForward
<1>1. Init => Ordered
  BY DEF Init, Ordered, Numbers, QueueInOrder, SavedFirst, AddedLast
<1>2. ASSUME SavedForward, CachedForward \/ Restart, Picked, Kept, Kept', Picked'
      PROVE  \A k \in Keys :
               /\ ~Older(db'[k], db[k])
               /\ cache[k] # Nil /\ cache'[k] # Nil /\ Older(cache'[k].msg, cache[k].msg)
                  => Restart
  <2> TAKE k \in Keys
  <2>1. ~Older(db'[k], db[k])
    <3> SUFFICES ASSUME db[k] # Nil, db'[k] # Nil, db'[k].stamp < db[k].stamp PROVE FALSE
      BY Zenon DEF Older
    <3>1. Stamp(db[k]) \in Nat /\ Stamp(db'[k]) \in Nat /\ Stamp(db[k]) <= Stamp(db'[k])
      BY Zenon, <1>2, Numbered DEF SavedForward, Kept, AnyMsg, Stamp
    <3> QED
      BY <3>1 DEF Stamp
  <2>2. ASSUME cache[k] # Nil, cache'[k] # Nil, Older(cache'[k].msg, cache[k].msg)
        PROVE  Restart
    <3>1. cache'[k].msg.stamp < cache[k].msg.stamp
      BY Zenon, <2>2 DEF Older
    <3>2. /\ EntryStamp(cache[k]) \in Nat /\ EntryStamp(cache'[k]) \in Nat
          /\ CachedForward => EntryStamp(cache[k]) <= EntryStamp(cache'[k])
      BY Zenon, <1>2, <2>2, Numbered DEF CachedForward, Kept, AnyMsg, EntryStamp
    <3> QED
      BY <1>2, <3>1, <3>2 DEF EntryStamp
  <2> QED
    BY Zenon, <2>1, <2>2
<1>3. IInv /\ IInv' /\ Ordered /\ [Next]_vars =>
        /\ Ordered'
        /\ \A k \in Keys :
             /\ ~Older(db'[k], db[k])
             /\ cache[k] # Nil /\ cache'[k] # Nil /\ Older(cache'[k].msg, cache[k].msg)
                => Restart
  BY Zenon, <1>2, OrderedInductive DEF IInv
<1> QED
  BY <1>1, <1>3, ResolverInvariant, PTL DEF Spec, AnswersMoveForward
====
