-------------------------- MODULE RuleCache_proofs --------------------------
(* Proofs about RuleCache and the RuleStore it extends: what a connection   *)
(* is routed by, that the cache follows the rule list, and the repair of    *)
(* the rule database.                                                       *)
EXTENDS RuleCache, TLAPS

(* What match returns is a rule of the list that matches the connection    *)
(* and names a proxy that is there and carries it.                         *)
LEMMA SelectedMatches ==
  ASSUME NEW rs \in Seq(Rules), NEW g, NEW f, NEW ok, NEW r,
         Selected(rs, g, f, ok, r), r # None
  PROVE  r \in Rules /\ Match(r, f, TRUE) /\ Usable(g, Adapter[r], f)
  BY DEF Selected, Accepts, Match

(* Only UpdateRules replaces the list outside a reload. *)
LEMMA WritersKeepRules ==
  ASSUME Keeps, load = "idle", ~(load = "idle" /\ load' = "open")
  PROVE  rules' = rules /\ load' = "idle"
  BY ZenonT(60) DEF Keeps, AddRead, DelRead, DelScan, ApiSave, ApiDone, LoadTruncate,
         LoadView, ScanEntry, ScanEnd, RepairAdd, RepairAddEnd, RepairDelete,
         LoadReturn, loadVars

CacheInv == PendingFollowsRules /\ CacheFollowsRules

(* PendingFollowsRules and CacheFollowsRules together are inductive: an    *)
(* insertion brings in what the handler holds, and that is current unless  *)
(* the handler is late, in which case its key is in overlap.               *)
LEMMA CacheInductive ==
  TypeOK /\ RTypeOK /\ CacheInv /\ [RNext]_allVars => CacheInv'
<1> SUFFICES ASSUME TypeOK, RTypeOK, CacheInv, [RNext]_allVars
             PROVE  CacheInv'
  BY Zenon
<1> USE CacheAssumption
    DEF CacheInv, RTypeOK, handlerVars, cacheVars, loadVars, storeVars
<1>1. ASSUME NEW h \in Handlers, NEW f \in Flows, RouteByMode(h, f)
      PROVE  CacheInv'
  BY <1>1 DEF RouteByMode, PendingFollowsRules, CacheFollowsRules
<1>2. ASSUME NEW h \in Handlers, NEW f \in Flows, GetRule(h, f)
      PROVE  CacheInv'
  BY <1>2 DEF GetRule, PendingFollowsRules, CacheFollowsRules
<1>3. ASSUME NEW h \in Handlers, CheckRule(h)
      PROVE  CacheInv'
  BY <1>3 DEF CheckRule, PendingFollowsRules, CacheFollowsRules
<1>4. ASSUME NEW h \in Handlers, GetProxy(h)
      PROVE  CacheInv'
  BY <1>4 DEF GetProxy, PendingFollowsRules, CacheFollowsRules
<1>5. ASSUME NEW h \in Handlers, NEW ok \in BOOLEAN, MatchRules(h, ok)
      PROVE  CacheInv'
  BY <1>5 DEF MatchRules, PendingFollowsRules, CacheFollowsRules
<1>6. ASSUME NEW h \in Handlers, Insert(h)
      PROVE  CacheInv'
  <2> DEFINE k == InfoKey[flow[h]]
  <2>1. /\ flow[h] \in Flows /\ k \in InfoKeys
        /\ UNCHANGED <<rules, load, gen, applying>>
    BY Zenon, <1>6 DEF Insert
  <2>2. PendingFollowsRules'
    BY <1>6 DEF Insert, PendingFollowsRules
  <2>3. ASSUME ~applying, NEW j \in InfoKeys \ overlap', cmRule'[j] # None
        PROVE  \E f \in Flows, ok \in BOOLEAN :
                 InfoKey[f] = j /\ Selected(rules, gen, f, ok, cmRule'[j])
    <3>1. CASE cmRule'[j] = cmRule[j]
      BY <1>6, <2>3, <3>1 DEF Insert, CacheFollowsRules
    <3>2. CASE cmRule'[j] # cmRule[j]
      <4>1. j = k /\ cmRule'[j] = found[h] /\ ~late[h]
        BY Zenon, <1>6, <2>1, <2>3, <3>2 DEF Insert
      <4> QED
        BY <1>6, <2>1, <2>3, <4>1 DEF Insert, PendingFollowsRules
    <3> QED
      BY ZenonT(60), <3>1, <3>2
  <2>4. ASSUME ~applying, NEW j \in InfoKeys \ overlap', cmProxy'[j] # 0
        PROVE  /\ cmProxy'[j] = gen
               /\ \E f \in Flows, ok \in BOOLEAN :
                    InfoKey[f] = j /\ Selected(rules, gen, f, ok, None)
    <3>1. CASE found[h] # None \/ j # k
      <4>1. cmProxy'[j] = cmProxy[j] /\ j \notin overlap
        BY Zenon, <1>6, <2>1, <2>4, <3>1 DEF Insert
      <4> QED
        BY <2>4, <4>1 DEF CacheFollowsRules
    <3>2. CASE found[h] = None /\ j = k
      <4>1. cmProxy'[j] = via[h] /\ ~late[h]
        BY Zenon, <1>6, <2>1, <2>4, <3>2 DEF Insert
      <4> QED
        BY <1>6, <2>1, <2>4, <3>2, <4>1 DEF Insert, PendingFollowsRules
    <3> QED
      BY Zenon, <3>1, <3>2
  <2> HIDE CacheAssumption
      DEF CacheInv, RTypeOK, handlerVars, cacheVars, loadVars, storeVars, k
  <2>5. CacheFollowsRules'
    BY <2>1, <2>3, <2>4 DEF CacheFollowsRules
  <2> QED
    BY Zenon, <2>2, <2>5 DEF CacheInv
<1>7. ASSUME NEW h \in Handlers, Done(h)
      PROVE  CacheInv'
  BY <1>7 DEF Done, PendingFollowsRules, CacheFollowsRules
<1>8. ASSUME NEW k \in InfoKeys, Evict(k)
      PROVE  CacheInv'
  BY SMTT(40), <1>8 DEF Evict, PendingFollowsRules, CacheFollowsRules
<1>9. ASSUME NEW m \in Modes, SetMode(m)
      PROVE  CacheInv'
  BY <1>9 DEF SetMode, PendingFollowsRules, CacheFollowsRules
<1>10. CASE SelectorChanged
  BY <1>10 DEF SelectorChanged, Purge, PendingFollowsRules, CacheFollowsRules
<1>11. CASE UpdateProxies
  BY Zenon, <1>11 DEF UpdateProxies, PendingFollowsRules, CacheFollowsRules
<1>12. CASE ReplaceRules
  <2>1. load' # "idle" => applying'
    BY ZenonT(60), <1>12 DEF ReplaceRules, Replaces, ApiUpdate, LoadUpdate,
                 PendingFollowsRules
  <2>2. \A h \in Handlers : pc'[h] = "insert" => late'[h]
    BY ZenonT(60), <1>12 DEF ReplaceRules
  <2>3. CacheFollowsRules'
    BY Zenon, <1>12 DEF ReplaceRules, Purge, CacheFollowsRules
  <2> QED
    BY Zenon, <2>1, <2>2, <2>3 DEF PendingFollowsRules
<1>13. CASE WriterStep
  <2>1. CASE applying
    BY Zenon, <1>13, <2>1
       DEF WriterStep, routeVars, PendingFollowsRules, CacheFollowsRules
  <2>2. CASE ~applying
    <3>1. rules' = rules /\ load' = "idle"
      BY Zenon, <1>13, <2>2, WritersKeepRules DEF WriterStep, PendingFollowsRules
    <3> QED
      BY <1>13, <2>2, <3>1
         DEF WriterStep, routeVars, PendingFollowsRules, CacheFollowsRules
  <2> QED
    BY Zenon, <2>1, <2>2
<1>14. CASE UNCHANGED allVars
  BY SMTT(40), <1>14 DEF allVars, routeVars, PendingFollowsRules, CacheFollowsRules
<1> QED
  BY <1>1, <1>2, <1>3, <1>4, <1>5, <1>6, <1>7, <1>8, <1>9, <1>10, <1>11, <1>12,
     <1>13, <1>14 DEF RNext, Route

-----------------------------------------------------------------------------
(* The composition keeps the readers' variables in their types. *)
LEMMA RTypeInductive == RTypeOK /\ [RNext]_allVars => RTypeOK'
<1> SUFFICES ASSUME RTypeOK, [RNext]_allVars PROVE RTypeOK'
  BY Zenon
<1> USE CacheAssumption
    DEF RTypeOK, handlerVars, cacheVars, routeVars
<1>1. ASSUME NEW h \in Handlers, NEW f \in Flows, RouteByMode(h, f)
      PROVE  RTypeOK'
  BY Zenon, <1>1 DEF RouteByMode
<1>2. ASSUME NEW h \in Handlers, NEW f \in Flows, GetRule(h, f)
      PROVE  RTypeOK'
  BY Zenon, <1>2 DEF GetRule
<1>3. ASSUME NEW h \in Handlers, CheckRule(h)
      PROVE  RTypeOK'
  BY <1>3 DEF CheckRule
<1>4. ASSUME NEW h \in Handlers, GetProxy(h)
      PROVE  RTypeOK'
  BY <1>4 DEF GetProxy
<1>5. ASSUME NEW h \in Handlers, NEW ok \in BOOLEAN, MatchRules(h, ok)
      PROVE  RTypeOK'
  BY <1>5 DEF MatchRules
<1>6. ASSUME NEW h \in Handlers, Insert(h)
      PROVE  RTypeOK'
  BY <1>6 DEF Insert
<1>7. ASSUME NEW h \in Handlers, Done(h)
      PROVE  RTypeOK'
  BY <1>7 DEF Done
<1>8. ASSUME NEW k \in InfoKeys, Evict(k)
      PROVE  RTypeOK'
  BY <1>8 DEF Evict
<1>9. ASSUME NEW m \in Modes, SetMode(m)
      PROVE  RTypeOK'
  BY Zenon, <1>9 DEF SetMode
<1>10. CASE SelectorChanged
  BY <1>10 DEF SelectorChanged, Purge
<1>11. CASE UpdateProxies
  BY <1>11 DEF UpdateProxies
<1>12. CASE ReplaceRules
  <2>1. late' \in [Handlers -> BOOLEAN]
    BY Zenon, <1>12 DEF ReplaceRules
  <2>2. applying' \in BOOLEAN
    BY ZenonT(60), <1>12 DEF ReplaceRules
  <2>3. /\ cmRule' \in [InfoKeys -> Rules \cup {None}]
        /\ cmProxy' \in [InfoKeys -> 0..MaxGen]
    BY <1>12 DEF ReplaceRules, Purge
  <2>4. UNCHANGED <<gen, mode, handlerVars>> /\ overlap' = {}
    BY Zenon, <1>12 DEF ReplaceRules
  <2> QED
    BY Zenon, <2>1, <2>2, <2>3, <2>4
<1>13. CASE WriterStep
  BY Zenon, <1>13 DEF WriterStep
<1>14. CASE UNCHANGED allVars
  BY Zenon, <1>14 DEF allVars
<1> QED
  BY ZenonT(60), <1>1, <1>2, <1>3, <1>4, <1>5, <1>6, <1>7, <1>8, <1>9, <1>10, <1>11, <1>12,
     <1>13, <1>14 DEF RNext, Route

(* What a handler is to be routed by stays so until it is done, whatever   *)
(* the others, the writers and a reload do meanwhile.                      *)
LEMMA RoutingInductive ==
  TypeOK /\ RTypeOK /\ RoutedByMatchingRule /\ [RNext]_allVars
    => RoutedByMatchingRule'
<1> SUFFICES ASSUME TypeOK, RTypeOK, RoutedByMatchingRule, [RNext]_allVars
             PROVE  RoutedByMatchingRule'
  BY Zenon
<1> USE CacheAssumption DEF RTypeOK, RoutedByMatchingRule, handlerVars
<1>1. ASSUME NEW h \in Handlers, NEW f \in Flows, RouteByMode(h, f)
      PROVE  RoutedByMatchingRule'
  BY ZenonT(60), <1>1 DEF RouteByMode
<1>2. ASSUME NEW h \in Handlers, NEW f \in Flows, GetRule(h, f)
      PROVE  RoutedByMatchingRule'
  BY ZenonT(60), <1>2 DEF GetRule
<1>3. ASSUME NEW h \in Handlers, CheckRule(h)
      PROVE  RoutedByMatchingRule'
  BY <1>3 DEF CheckRule, Usable, Match
<1>4. ASSUME NEW h \in Handlers, GetProxy(h)
      PROVE  RoutedByMatchingRule'
  <2>1. found' = found /\ found[h] = None
    BY Zenon, <1>4 DEF GetProxy
  <2> SUFFICES ASSUME NEW g \in Handlers, g # h,
                      pc'[g] \in {"insert", "done"}, found'[g] # None
               PROVE  /\ Match(found'[g], flow'[g], TRUE)
                      /\ name'[g] = Adapter[found'[g]]
                      /\ name'[g] \in NamesIn[via'[g]]
                      /\ flow'[g] \in Udp => name'[g] \in UdpNames
    BY ZenonT(60), <2>1
  <2>2. UNCHANGED <<flow[g], found[g], name[g], via[g], pc[g]>>
    BY <1>4 DEF GetProxy
  <2> QED
    BY ZenonT(60), <2>2
<1>5. ASSUME NEW h \in Handlers, NEW ok \in BOOLEAN, MatchRules(h, ok)
      PROVE  RoutedByMatchingRule'
  <2>1. PICK r \in Rules \cup {None} :
          /\ Selected(rules, gen, flow[h], ok, r)
          /\ found' = [found EXCEPT ![h] = r]
          /\ name' = [name EXCEPT ![h] = IF r = None THEN DIRECT ELSE Adapter[r]]
    BY ZenonT(60), <1>5 DEF MatchRules
  <2>2. r # None => Match(r, flow[h], TRUE) /\ Usable(gen, Adapter[r], flow[h])
    BY ZenonT(60), <2>1, SelectedMatches DEF TypeOK
  <2>3. /\ flow' = flow
        /\ via' = [via EXCEPT ![h] = gen]
        /\ pc' = [pc EXCEPT ![h] = "insert"]
    BY ZenonT(60), <1>5 DEF MatchRules
  <2>4. ASSUME NEW g \in Handlers, g # h
        PROVE  UNCHANGED <<flow[g], found[g], name[g], via[g], pc[g]>>
    BY Zenon, <2>1, <2>3, <2>4
  <2>5. /\ flow'[h] = flow[h] /\ found'[h] = r /\ via'[h] = gen
        /\ r # None => name'[h] = Adapter[r]
    BY Zenon, <2>1, <2>3
  <2>6. SUFFICES ASSUME NEW g \in Handlers,
                        pc'[g] \in {"insert", "done"}, found'[g] # None
                 PROVE  /\ Match(found'[g], flow'[g], TRUE)
                        /\ name'[g] = Adapter[found'[g]]
                        /\ name'[g] \in NamesIn[via'[g]]
                        /\ flow'[g] \in Udp => name'[g] \in UdpNames
    BY ZenonT(60)
  <2>7. CASE g = h
    BY ZenonT(60), <2>2, <2>5, <2>6, <2>7 DEF Usable
  <2>8. CASE g # h
    <3>1. UNCHANGED <<flow[g], found[g], name[g], via[g], pc[g]>>
      BY Zenon, <2>4, <2>8
    <3> QED
      BY ZenonT(60), <2>6, <3>1
  <2> QED
    BY ZenonT(60), <2>7, <2>8
<1>6. ASSUME NEW h \in Handlers, Insert(h)
      PROVE  RoutedByMatchingRule'
  BY ZenonT(60), <1>6 DEF Insert
<1>7. ASSUME NEW h \in Handlers, Done(h)
      PROVE  RoutedByMatchingRule'
  BY ZenonT(60), <1>7 DEF Done
<1>8. ASSUME UNCHANGED handlerVars
      PROVE  RoutedByMatchingRule'
  BY ZenonT(60), <1>8
<1>9. ASSUME \/ \E k \in InfoKeys : Evict(k)
             \/ \E m \in Modes : SetMode(m)
             \/ SelectorChanged \/ UpdateProxies \/ ReplaceRules
             \/ WriterStep \/ UNCHANGED allVars
      PROVE  UNCHANGED handlerVars
  BY ZenonT(60), <1>9 DEF Evict, SetMode, SelectorChanged, UpdateProxies, ReplaceRules,
              WriterStep, routeVars, allVars
<1> HIDE DEF RoutedByMatchingRule, RTypeOK, handlerVars
<1> QED
  BY Zenon, <1>1, <1>2, <1>3, <1>4, <1>5, <1>6, <1>7, <1>8, <1>9 DEF RNext, Route

(* The readers and ApplyConfig's other steps leave the writers' state to   *)
(* the writers: the composition implements RuleStore.                      *)
LEMMA StepImplementsStore == [RNext]_allVars => [Next]_storeVars
<1> SUFFICES ASSUME [RNext]_allVars PROVE [Next]_storeVars
  BY Zenon
<1>1. CASE RNext
  <2>1. ASSUME NEW h \in Handlers, Route(h) PROVE UNCHANGED storeVars
    BY Zenon, <2>1 DEF Route, RouteByMode, GetRule, CheckRule, GetProxy, Insert, Done,
                MatchRules
  <2>2. ASSUME \/ \E k \in InfoKeys : Evict(k)
               \/ \E m \in Modes : SetMode(m)
               \/ SelectorChanged \/ UpdateProxies
        PROVE  UNCHANGED storeVars
    BY Zenon, <2>2 DEF Evict, SetMode, SelectorChanged, UpdateProxies
  <2>3. ASSUME ReplaceRules \/ WriterStep PROVE Next
    BY ZenonT(60), <2>3 DEF ReplaceRules, WriterStep, Next
  <2> QED
    BY Zenon, <1>1, <2>1, <2>2, <2>3 DEF RNext
<1>2. CASE UNCHANGED allVars
  BY Zenon, <1>2 DEF allVars
<1> QED
  BY Zenon, <1>1, <1>2

-----------------------------------------------------------------------------
(* Every step of the writers keeps the types. *)
LEMMA TypeInductive == TypeOK /\ [Next]_storeVars => TypeOK'
<1> SUFFICES ASSUME TypeOK, [Next]_storeVars PROVE TypeOK'
  BY Zenon
<1> USE StoreAssumption DEF TypeOK, Values, apiVars, loadVars
<1>1. ASSUME NEW a \in Clients, NEW r \in Rules, AddRead(a, r)
      PROVE  TypeOK'
  <2>1. <<r>> \o rules \in Seq(Rules)
    BY <<r>> \in Seq(Rules)
  <2> QED
    BY Zenon, <1>1, <2>1 DEF AddRead
<1>2. ASSUME NEW a \in Clients, NEW r \in Rules, DelRead(a, r)
      PROVE  TypeOK'
  BY <1>2 DEF DelRead
<1>3. ASSUME NEW a \in Clients, DelScan(a)
      PROVE  TypeOK'
  <2>1. Head(scan[a]) \in Rules /\ Tail(scan[a]) \in Seq(Rules)
    BY <1>3 DEF DelScan
  <2>2. Append(kept[a], Head(scan[a])) \in Seq(Rules)
    BY <2>1
  <2> QED
    BY ZenonT(60), <1>3, <2>1, <2>2 DEF DelScan
<1>4. ASSUME NEW a \in Clients, ApiUpdate(a)
      PROVE  TypeOK'
  BY Zenon, <1>4 DEF ApiUpdate, UpdateRules
<1>5. ASSUME NEW a \in Clients, ApiSave(a)
      PROVE  TypeOK'
  <2>1. asked[a] \in Rules /\ StoredAs[asked[a]] \in Values
    BY Zenon, <1>5 DEF ApiSave
  <2>2. db' \in [DbKeys -> Values]
    BY ZenonT(60), <1>5, <2>1 DEF ApiSave, AddStrRule, DeleteStrRule
  <2>3. kept' \in [Clients -> Seq(Rules)]
    BY <1>5 DEF ApiSave, ApiDone
  <2> QED
    BY Zenon, <1>5, <2>2, <2>3 DEF ApiSave, ApiDone
<1>6. ASSUME NEW c \in Configs, LoadTruncate(c)
      PROVE  TypeOK'
  BY <1>6 DEF LoadTruncate
<1>7. CASE LoadView
  BY Zenon, <1>7 DEF LoadView
<1>8. CASE ScanEntry
  <2>1. Head(todo) \in DbKeys /\ Tail(todo) \in Seq(DbKeys)
    BY <1>8 DEF ScanEntry
  <2>2. rules' \in Seq(Rules) /\ deleteKey' \in Seq(DbKeys)
    BY <1>8, <2>1 DEF ScanEntry
  <2>3. needReSetKey' \in [DbKeys -> Rules \cup {Absent}]
    BY Zenon, <1>8, <2>1 DEF ScanEntry
  <2> QED
    BY ZenonT(60), <1>8, <2>1, <2>2, <2>3 DEF ScanEntry
<1>9. CASE ScanEnd
  BY Zenon, <1>9 DEF ScanEnd
<1>10. ASSUME NEW k \in DbKeys, RepairAdd(k)
      PROVE  TypeOK'
  BY Zenon, <1>10 DEF RepairAdd, AddStrRule
<1>11. CASE RepairAddEnd
  BY Zenon, <1>11 DEF RepairAddEnd
<1>12. CASE RepairDelete
  BY <1>12 DEF RepairDelete, DeleteStrRule
<1>13. CASE LoadReturn
  <2>1. rules \o cfg \in Seq(Rules)
    OBVIOUS
  <2> QED
    BY Zenon, <1>13, <2>1 DEF LoadReturn
<1>14. CASE LoadUpdate
  BY <1>14 DEF LoadUpdate, UpdateRules
<1>15. CASE UNCHANGED storeVars
  BY Zenon, <1>15 DEF storeVars
<1> QED
  BY ZenonT(60), <1>1, <1>2, <1>3, <1>4, <1>5, <1>6, <1>7, <1>8, <1>9, <1>10, <1>11,
     <1>12, <1>13, <1>14, <1>15 DEF Next, Replaces, Keeps

(* The elements of a sequence are its head and those of its tail. *)
LEMMA HeadOrTail ==
  ASSUME NEW S, NEW s \in Seq(S), s # <<>>
  PROVE  \A k : Listed(k, s) => k = Head(s) \/ Listed(k, Tail(s))
<1> SUFFICES ASSUME NEW i \in DOMAIN s
             PROVE  s[i] = Head(s) \/ Listed(s[i], Tail(s))
  BY Zenon DEF Listed
<1>1. CASE i = 1
  BY <1>1
<1>2. CASE i # 1
  <2>1. i \in 2..Len(s)
    BY <1>2
  <2>2. /\ i - 1 \in DOMAIN Tail(s)
        /\ Tail(s)[i - 1] = s[i]
    BY <2>1
  <2> QED
    BY Zenon, <2>2 DEF Listed
<1> QED
  BY Zenon, <1>1, <1>2

(* Appending an element keeps the others and adds that one. *)
LEMMA Appended ==
  ASSUME NEW S, NEW s \in Seq(S), NEW x \in S
  PROVE  /\ \A k : Listed(k, s) => Listed(k, Append(s, x))
         /\ Listed(x, Append(s, x))
<1>1. ASSUME NEW i \in DOMAIN s
      PROVE  i \in DOMAIN Append(s, x) /\ Append(s, x)[i] = s[i]
  OBVIOUS
<1>2. /\ Len(s) + 1 \in DOMAIN Append(s, x)
      /\ Append(s, x)[Len(s) + 1] = x
  OBVIOUS
<1> QED
  BY Zenon, <1>1, <1>2 DEF Listed

RepairInv == RepairPending /\ RepairedCanonical

(* An API save writes the entry that WrittenByApi describes, or none. *)
LEMMA SaveCanonical ==
  ASSUME TypeOK, NEW a \in Clients, ApiSave(a), NEW k \in DbKeys, Canonical(k)
  PROVE  Canonical(k)'
<1>1. asked[a] \in Rules /\ KeyOf[asked[a]] \in DbKeys
  BY Zenon, StoreAssumption DEF TypeOK, ApiSave
<1>2. CASE api[a] = "addsave"
  BY Zenon, <1>1, <1>2, StoreAssumption
     DEF TypeOK, ApiSave, AddStrRule, Canonical, WrittenByApi
<1>3. CASE api[a] = "delsave"
  BY Zenon, <1>1, <1>3, StoreAssumption
     DEF TypeOK, ApiSave, DeleteStrRule, Canonical, WrittenByApi
<1> QED
  BY Zenon, <1>2, <1>3 DEF ApiSave

(* The keys of KeyOrder are all the keys. *)
LEMMA AllKeysOrdered == \A k \in DbKeys : Listed(k, KeyOrder)
  BY Zenon, StoreAssumption DEF Listed

(* RepairPending and RepairedCanonical together are inductive: a wrong key *)
(* that the loop has passed is in deleteKey, so when deleteKey is empty    *)
(* none is left, and no later step writes one.                             *)
LEMMA RepairInductive == TypeOK /\ RepairInv /\ [Next]_storeVars => RepairInv'
<1> SUFFICES ASSUME TypeOK, RepairInv, [Next]_storeVars PROVE RepairInv'
  BY Zenon
<1> USE DEF RepairInv, apiVars, loadVars
<1>1. ASSUME UNCHANGED <<db, load, todo, needReSetKey, deleteKey, repaired>>
      PROVE  RepairInv'
  BY Zenon, <1>1 DEF RepairPending, RepairedCanonical, Canonical, WrittenByApi
<1>2. ASSUME NEW a \in Clients, ApiSave(a)
      PROVE  RepairInv'
  <2>1. UNCHANGED <<load, todo, needReSetKey, deleteKey, repaired>>
    BY Zenon, <1>2 DEF ApiSave, ApiDone
  <2>2. \A k \in DbKeys : Canonical(k) => Canonical(k)'
    BY Zenon, <1>2, SaveCanonical
  <2> QED
    BY Zenon, <2>1, <2>2 DEF RepairPending, RepairedCanonical
<1>3. ASSUME NEW c \in Configs, LoadTruncate(c)
      PROVE  RepairInv'
  BY Zenon, <1>3 DEF LoadTruncate, RepairPending, RepairedCanonical, Canonical,
              WrittenByApi
<1>4. CASE LoadView
  BY Zenon, <1>4, AllKeysOrdered
     DEF LoadView, RepairPending, RepairedCanonical, Canonical, WrittenByApi
<1>5. CASE ScanEntry
  <2> DEFINE h == Head(todo)
  <2>1. /\ h \in DbKeys
        /\ UNCHANGED <<db, load, repaired>>
        /\ load = "scan"
        /\ todo' = Tail(todo)
    BY <1>5 DEF ScanEntry, TypeOK
  <2>2. \A k \in DbKeys : Canonical(k)' <=> Canonical(k)
    BY Zenon, <2>1 DEF Canonical, WrittenByApi
  <2>3. \A k \in DbKeys : Listed(k, deleteKey) => Listed(k, deleteKey')
    BY Zenon, <1>5, <2>1, Appended DEF ScanEntry, TypeOK
  <2>4. Canonical(h) \/ Listed(h, deleteKey')
    <3>1. CASE db[h] \in Rules /\ KeyOf[db[h]] # h
      BY Zenon, <1>5, <2>1, <3>1, Appended DEF ScanEntry, TypeOK
    <3>2. CASE ~(db[h] \in Rules /\ KeyOf[db[h]] # h)
      BY Zenon, <3>2 DEF Canonical
    <3> QED
      BY Zenon, <3>1, <3>2
  <2>5. ASSUME NEW k \in DbKeys
        PROVE  Canonical(k)' \/ Listed(k, todo') \/ Listed(k, deleteKey')
    <3>1. Canonical(k) \/ Listed(k, todo) \/ Listed(k, deleteKey)
      BY Zenon, <2>1 DEF RepairPending
    <3>2. Listed(k, todo) => k = h \/ Listed(k, todo')
      BY Zenon, <1>5, <2>1, HeadOrTail DEF ScanEntry, TypeOK
    <3> QED
      BY Zenon, <2>2, <2>3, <2>4, <3>1, <3>2
  <2>6. \A k \in DbKeys : needReSetKey'[k] # Absent => KeyOf[needReSetKey'[k]] = k
    BY Zenon, <1>5, <2>1, StoreAssumption DEF ScanEntry, TypeOK, RepairPending
  <2> QED
    BY Zenon, <2>1, <2>2, <2>5, <2>6 DEF RepairPending, RepairedCanonical
<1>6. CASE ScanEnd
  BY Zenon, <1>6 DEF ScanEnd, RepairPending, RepairedCanonical, Canonical, WrittenByApi
<1>7. ASSUME NEW k \in DbKeys, RepairAdd(k)
      PROVE  RepairInv'
  <2>1. /\ db' = [db EXCEPT ![k] = needReSetKey[k]]
        /\ needReSetKey[k] # Absent /\ KeyOf[needReSetKey[k]] = k
        /\ UNCHANGED <<load, todo, deleteKey, repaired>>
        /\ needReSetKey' = [needReSetKey EXCEPT ![k] = Absent]
    BY Zenon, <1>7 DEF RepairAdd, AddStrRule, RepairPending
  <2>2. \A j \in DbKeys : db'[j] = IF j = k THEN needReSetKey[k] ELSE db[j]
    BY Zenon, <2>1 DEF TypeOK
  <2>3. \A j \in DbKeys : Canonical(j) => Canonical(j)'
    BY Zenon, <2>1, <2>2 DEF Canonical, WrittenByApi
  <2>4. \A j \in DbKeys : needReSetKey'[j] # Absent => KeyOf[needReSetKey'[j]] = j
    BY Zenon, <2>1 DEF RepairPending, TypeOK
  <2> QED
    BY Zenon, <2>1, <2>3, <2>4 DEF RepairPending, RepairedCanonical
<1>8. CASE RepairAddEnd
  BY Zenon, <1>8 DEF RepairAddEnd, RepairPending, RepairedCanonical, Canonical,
              WrittenByApi
<1>9. CASE RepairDelete
  <2>0. PICK h \in DbKeys : h = Head(deleteKey)
    BY <1>9 DEF RepairDelete, TypeOK
  <2>1. /\ db' = [db EXCEPT ![h] = Absent]
        /\ deleteKey' = Tail(deleteKey)
        /\ UNCHANGED <<load, todo, needReSetKey, repaired>>
    BY Zenon, <1>9, <2>0 DEF RepairDelete, DeleteStrRule
  <2>2. \A k \in DbKeys : (Canonical(k) => Canonical(k)') /\ Canonical(h)'
    <3>1. \A k \in DbKeys : db'[k] = IF k = h THEN Absent ELSE db[k]
      BY Zenon, <2>1 DEF TypeOK
    <3>2. Absent \notin Rules
      BY Zenon, StoreAssumption
    <3> QED
      BY Zenon, <3>1, <3>2 DEF Canonical, WrittenByApi
  <2>3. \A k \in DbKeys : Listed(k, deleteKey) => k = h \/ Listed(k, deleteKey')
    BY Zenon, <1>9, <2>0, <2>1, HeadOrTail DEF RepairDelete, TypeOK
  <2> QED
    BY Zenon, <2>1, <2>2, <2>3 DEF RepairPending, RepairedCanonical
<1>10. CASE LoadReturn
  <2>1. \A k \in DbKeys : ~Listed(k, todo) /\ ~Listed(k, deleteKey)
    BY <1>10 DEF LoadReturn, RepairPending, Listed
  <2>2. \A k \in DbKeys : Canonical(k)
    BY Zenon, <1>10, <2>1 DEF LoadReturn, RepairPending
  <2> QED
    BY Zenon, <1>10, <2>2
       DEF LoadReturn, RepairPending, RepairedCanonical, Canonical, WrittenByApi
<1>11. CASE LoadUpdate
  BY Zenon, <1>11
     DEF LoadUpdate, RepairPending, RepairedCanonical, Canonical, WrittenByApi
<1> QED
  BY ZenonT(60), <1>1, <1>2, <1>3, <1>4, <1>5, <1>6, <1>7, <1>8, <1>9, <1>10, <1>11
     DEF Next, Replaces, Keeps, AddRead, DelRead, DelScan, ApiUpdate, storeVars

-----------------------------------------------------------------------------
(* The writers keep every variable in its type. *)
THEOREM TypeCorrect == Spec => []TypeOK
<1>1. Init => TypeOK
  <2> SUFFICES ASSUME Init PROVE TypeOK
    BY Zenon
  <2>1. rules \in Seq(Rules) /\ cfg \in Seq(Rules) /\ list \in Seq(Rules)
    BY DEF Init
  <2>2. todo \in Seq(DbKeys) /\ deleteKey \in Seq(DbKeys)
    BY DEF Init
  <2>3. /\ db \in [DbKeys -> Values]
        /\ needReSetKey \in [DbKeys -> Rules \cup {Absent}]
    BY Zenon, StoreAssumption DEF Init
  <2>4. /\ scan \in [Clients -> Seq(Rules)]
        /\ kept \in [Clients -> Seq(Rules)]
    BY DEF Init
  <2> QED
    BY ZenonT(60), <2>1, <2>2, <2>3, <2>4 DEF Init, TypeOK
<1> QED
  BY <1>1, TypeInductive, PTL DEF Spec

(* While LoadStrRule repairs the database, every wrong key is one it has   *)
(* yet to look at or to delete, for any number of API goroutines.          *)
THEOREM RepairProgress == Spec => []RepairPending
<1>1. Init => RepairInv
  BY Zenon DEF Init, RepairInv, RepairPending, RepairedCanonical
<1>2. TypeOK /\ RepairInv /\ [Next]_storeVars => RepairInv'
  BY Zenon, RepairInductive
<1>3. RepairInv => RepairPending
  BY Zenon DEF RepairInv
<1> QED
  BY <1>1, <1>2, <1>3, TypeCorrect, PTL DEF Spec

(* Once LoadStrRule has repaired the database no rule is stored under a    *)
(* wrong key, whatever the database held and the API does.                 *)
THEOREM RepairIsComplete == Spec => []RepairedCanonical
<1>1. Init => RepairInv
  BY Zenon DEF Init, RepairInv, RepairPending, RepairedCanonical
<1>2. TypeOK /\ RepairInv /\ [Next]_storeVars => RepairInv'
  BY Zenon, RepairInductive
<1>3. RepairInv => RepairedCanonical
  BY Zenon DEF RepairInv
<1> QED
  BY <1>1, <1>2, <1>3, TypeCorrect, PTL DEF Spec

(* The composition of the readers with the writers is one of the           *)
(* behaviours RuleStore allows.                                            *)
THEOREM ImplementsStore == RSpec => Spec
<1>1. RInit => Init
  BY Zenon DEF RInit
<1> QED
  BY <1>1, StepImplementsStore, PTL DEF RSpec, Spec

(* Every variable of the readers keeps its type. *)
THEOREM RTypeCorrect == RSpec => []RTypeOK
<1>1. RInit => RTypeOK
  <2> SUFFICES ASSUME RInit PROVE RTypeOK
    BY Zenon
  <2>1. gen \in 0..MaxGen /\ mode \in Modes
    BY CacheAssumption DEF RInit
  <2>5. applying \in BOOLEAN
    BY ZenonT(60) DEF RInit
  <2>2. /\ cmRule \in [InfoKeys -> Rules \cup {None}]
        /\ cmProxy \in [InfoKeys -> 0..MaxGen]
    BY CacheAssumption DEF RInit
  <2>3. /\ flow \in [Handlers -> Flows \cup {None}]
        /\ found \in [Handlers -> Rules \cup {None}]
        /\ name \in [Handlers -> Names \cup {DIRECT, GLOBAL}]
        /\ via \in [Handlers -> 0..MaxGen]
        /\ late \in [Handlers -> BOOLEAN]
    BY CacheAssumption DEF RInit
  <2>4. \A h \in Handlers : pc[h] = "idle"
    BY Zenon DEF RInit
  <2> QED
    BY Zenon, <2>1, <2>2, <2>3, <2>4, <2>5 DEF RInit, RTypeOK
<1> QED
  BY <1>1, RTypeInductive, PTL DEF RSpec

(* A connection is sent out only under a rule that matches it, by a proxy  *)
(* of one configuration, for any number of goroutines, rules and reloads.  *)
THEOREM RoutingIsSound == RSpec => []RoutedByMatchingRule
<1>1. RInit => RoutedByMatchingRule
  BY Zenon DEF RInit, RoutedByMatchingRule
<1> QED
  BY <1>1, RoutingInductive, TypeCorrect, ImplementsStore, RTypeCorrect, PTL DEF RSpec

(* Outside a reload a cache entry agrees with the rules and the proxies in *)
(* force, unless a lookup that overlapped UpdateRules wrote its key.       *)
THEOREM CacheIsCurrent == RSpec => []CacheFollowsRules
<1>1. RInit => CacheInv
  BY DEF RInit, Init, CacheInv, PendingFollowsRules, CacheFollowsRules
<1>2. CacheInv => CacheFollowsRules
  BY Zenon DEF CacheInv
<1> QED
  BY <1>1, <1>2, CacheInductive, TypeCorrect, ImplementsStore, RTypeCorrect, PTL
     DEF RSpec
=============================================================================
