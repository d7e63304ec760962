---------------------------- MODULE FakeIP_proofs ----------------------------
(* The fake-IP pool keeps its two maps inverse to each other, for any      *)
(* number of hosts, size and range with Size < Span.                      *)
EXTENDS FakeIP, TLAPS, FiniteSetTheorems

(* The other entry of the pair of k.                                       *)
Mate(k) == IF k \in Hosts THEN OffsetOf(value[k]) ELSE value[k]

(* The entries of s are pairs.                                             *)
Pairs(s) ==
  \A k \in s : /\ Mate(k) \in s /\ Mate(Mate(k)) = k
               /\ k \in Hosts <=> Mate(k) \in Offsets

(* No entry of s was used between k and its mate.                          *)
Adjacent(k, s) ==
  \A j \in s : j # k /\ j # Mate(k) /\ used[k] < used[j] => used[Mate(k)] < used[j]

Ordered ==
  /\ \A k \in Cached : used[k] <= clock
  /\ \A j, k \in Cached : used[j] = used[k] => j = k

Counted == IsFiniteSet(Cached) /\ Cardinality(Cached) <= 2 * Size

Settled == Pairs(Cached) /\ \A k \in Cached : Adjacent(k, Cached)

(* Between the two uses of a pair one of its entries is the last used.     *)
HalfUsed(m) ==
  /\ Pairs(Cached) /\ host \in Cached
  /\ m \in {host, Mate(host)} /\ used[m] = clock
  /\ \A k \in Cached \ {host, Mate(host)} : Adjacent(k, Cached)

(* Between the two insertions of a pair there is a new offset, and either  *)
(* room for the host or a widow, the next to be evicted.                   *)
HalfSet ==
  /\ value[host] = Nil /\ value[offset] = host /\ used[offset] = clock
  /\ \/ /\ Pairs(Cached \ {offset})
        /\ \A k \in Cached \ {offset} : Adjacent(k, Cached \ {offset})
        /\ Cardinality(Cached) < 2 * Size
     \/ \E w \in Cached \ {offset} :
          /\ Pairs(Cached \ {offset, w})
          /\ \A k \in Cached \ {offset, w} : Adjacent(k, Cached \ {offset, w})
          /\ \A j \in Cached : used[w] <= used[j]
          /\ Cardinality(Cached) = 2 * Size

Good ==
  /\ Ordered /\ Counted
  /\ pc = "idle" => Settled
  /\ pc = "get" => Settled /\ value[host] = Nil
  /\ pc = "touch" => HalfUsed(host)
  /\ pc = "back" => HalfUsed(Mate(host))
  /\ pc = "set" => HalfSet

Inv == ~torn /\ Size < Span => Good

---------------------------------------------------------------------------
(* What the cache's methods come to where there are no ages.               *)
SetNew(k, v, f) ==
  /\ clock' = clock + 1
  /\ used' = [used EXCEPT ![k] = clock + 1]
  /\ f \in Cached \cup {k} /\ \A j \in Cached \cup {k} : used'[f] <= used'[j]
  /\ LET full == k \notin Cached /\ Cardinality(Cached \cup {k}) > 2 * Size
     IN value' = [j \in Keys |->
                    IF j \notin Cached \cup {k} \/ (full /\ j = f) THEN Nil
                    ELSE IF j = k THEN v ELSE value[j]]

(* Set, where the cache has no age: the key moves to the back and the      *)
(* front is evicted if there are too many.                                 *)
LEMMA SetEffect ==
  ASSUME TypeOK, NEW k \in Keys, NEW v, Set(k, v)
  PROVE  /\ \E f \in Cached \cup {k} : SetNew(k, v, f)
         /\ now' = now /\ expires' \in [Keys -> Int]
<1> USE PoolAssumption, LruAssumption
<1>1. maxSize = 2 * Size /\ maxSize > 0
  OBVIOUS
<1>2. \A ks, u, x : Oldest(ks, u, x) = {}
  BY DEF Oldest, Ages
<1>3. SetWithExpire(k, v, 0)
  BY DEF Set
<1>4. expires' = [expires EXCEPT ![k] = 0] /\ now' = now /\ MoveToBack(k)
  BY Zenon, <1>3 DEF SetWithExpire
<1>5. expires' \in [Keys -> Int]
  BY <1>4 DEF TypeOK
<1> DEFINE more == Cached \cup {k}
           over == k \notin Cached /\ maxSize > 0 /\ Cardinality(more) > maxSize
           kept(f) == IF over THEN more \ {f} ELSE more
<1>6. PICK f \in more : Front(f, more, used') /\
         Keep(kept(f) \ Oldest(kept(f), used', expires'), [value EXCEPT ![k] = v])
  BY ZenonT(60), <1>3 DEF SetWithExpire
<1>7. Keep(kept(f), [value EXCEPT ![k] = v])
  <2>1. kept(f) \ Oldest(kept(f), used', expires') = kept(f)
    BY Zenon, <1>2
  <2> QED BY ZenonT(60), <1>6, <2>1
<1>8. value' = [j \in Keys |-> IF j \notin Cached \cup {k}
                    \/ (k \notin Cached /\ Cardinality(Cached \cup {k}) > 2 * Size /\ j = f)
                    THEN Nil ELSE IF j = k THEN v ELSE value[j]]
  BY Zenon, <1>1, <1>7 DEF Keep, TypeOK
<1>9. SetNew(k, v, f)
  BY Zenon, <1>4, <1>6, <1>8 DEF SetNew, MoveToBack, Front
<1> QED BY Zenon, <1>4, <1>5, <1>9

(* get of an entry that is there moves it to the back.                     *)
LEMMA GetEffect ==
  ASSUME TypeOK, NEW k \in Keys, value[k] # Nil, get(k)
  PROVE  /\ clock' = clock + 1
         /\ used' = [used EXCEPT ![k] = clock + 1]
         /\ value' = value /\ now' = now /\ expires' = expires
BY PoolAssumption, LruAssumption DEF get, MoveToBack, Ages

---------------------------------------------------------------------------
(* Every step keeps the types.                                             *)
LEMMA TypeInductive == TypeOK /\ [Next]_vars => TypeOK'
<1> SUFFICES ASSUME TypeOK, [Next]_vars PROVE TypeOK'
  BY Zenon
<1> USE PoolAssumption
<1>1. ASSUME NEW k \in Keys, get(k) PROVE
        /\ clock' \in Nat /\ now' \in Nat /\ value' = value
        /\ expires' \in [Keys -> Int] /\ used' \in [Keys -> Nat]
  <2>1. CASE value[k] = Nil
    BY Zenon, <1>1, <2>1 DEF get, lruVars, TypeOK
  <2>2. CASE value[k] # Nil
    BY <1>1, <2>2, GetEffect DEF TypeOK
  <2> QED BY Zenon, <2>1, <2>2
<1>2. ASSUME NEW k \in Keys, NEW v, Set(k, v),
             k \in Hosts => v \in Int, k \in Offsets => v \in Hosts
      PROVE  /\ clock' \in Nat /\ now' \in Nat
             /\ value' \in [Keys -> Hosts \cup Int \cup {Nil}]
             /\ \A h \in Hosts : value'[h] \in Int \cup {Nil}
             /\ \A o \in Offsets : value'[o] \in Hosts \cup {Nil}
             /\ expires' \in [Keys -> Int] /\ used' \in [Keys -> Nat]
  <2>1. PICK f \in Cached \cup {k} : SetNew(k, v, f)
    BY Zenon, <1>2, SetEffect
  <2>2. now' \in Nat /\ expires' \in [Keys -> Int]
    BY Zenon, <1>2, SetEffect DEF TypeOK
  <2>3. clock' \in Nat /\ used' \in [Keys -> Nat]
    BY <2>1 DEF SetNew, TypeOK
  <2>4. Hosts \cap Offsets = {}
    BY DEF Offsets
  <2>5. \A j \in Keys : value'[j] \in {Nil, v, value[j]} /\ (j # k => value'[j] # v \/ value'[j] \in {Nil, value[j]})
    BY Zenon, <2>1 DEF SetNew
  <2>6. \A h \in Hosts : value'[h] \in Int \cup {Nil}
    BY Zenon, <1>2, <2>1, <2>4 DEF SetNew, TypeOK
  <2>7. \A o \in Offsets : value'[o] \in Hosts \cup {Nil}
    BY Zenon, <1>2, <2>1, <2>4 DEF SetNew, TypeOK
  <2>8. value' \in [Keys -> Hosts \cup Int \cup {Nil}]
    BY ZenonT(60), <2>1, <2>6, <2>7 DEF SetNew
  <2> QED BY Zenon, <2>2, <2>3, <2>6, <2>7, <2>8
<1>3. CASE UNCHANGED vars
  BY Zenon, <1>3 DEF vars, lruVars, poolVars, TypeOK
<1>4. ASSUME NEW h \in Hosts, Lookup(h) PROVE TypeOK'
  <2>1. CASE get(h) /\ pc' = "touch"
    BY Zenon, <1>1, <1>4, <2>1 DEF Lookup, TypeOK
  <2>2. CASE UNCHANGED lruVars /\ pc' = "get"
    BY Zenon, <1>4, <2>2 DEF Lookup, lruVars, TypeOK
  <2> QED BY Zenon, <1>4, <2>1, <2>2 DEF Lookup
<1>5. CASE Touch
  <2>1. CASE OffsetOf(value[host]) \in Offsets
    BY Zenon, <1>1, <1>5, <2>1 DEF Touch, TypeOK
  <2>2. CASE OffsetOf(value[host]) \notin Offsets
    BY Zenon, <1>5, <2>2 DEF Touch, lruVars, TypeOK
  <2> QED BY Zenon, <2>1, <2>2
<1>6. CASE Get
  <2>1. offset' \in Offsets
    BY <1>6 DEF Get, Ahead, Offsets, TypeOK
  <2>2. offset' \in Keys /\ offset' \notin Hosts /\ Set(offset', host) /\ host \in Hosts
    BY <1>6, <2>1 DEF Get, TypeOK, Offsets
  <2> QED BY Zenon, <1>2, <1>6, <2>1, <2>2 DEF Get, TypeOK
<1>7. CASE SetHost
  <2>1. host \in Keys /\ host \notin Offsets /\ Set(host, Address(offset)) /\ Address(offset) \in Int
    BY <1>7 DEF SetHost, TypeOK, Offsets, Address
  <2> QED BY Zenon, <1>2, <1>7, <2>1 DEF SetHost, TypeOK
<1>8. ASSUME NEW o \in Offsets, LookBack(o) PROVE TypeOK'
  BY Zenon, <1>1, <1>8 DEF LookBack, TypeOK
<1>9. CASE TouchHost
  BY Zenon, <1>1, <1>9 DEF TouchHost, TypeOK
<1>10. ASSUME NEW b \in Bases, PatchFrom(b) PROVE TypeOK'
  BY <1>10 DEF PatchFrom, lruVars, TypeOK, Offsets
<1> QED BY Zenon, <1>3, <1>4, <1>5, <1>6, <1>7, <1>8, <1>9, <1>10 DEF Next

(* The pool starts with the types.                                         *)
LEMMA TypeInit == Init => TypeOK
<1>1. ASSUME Init PROVE TypeOK
  <2>1. value = [k \in Keys |-> Nil] /\ expires = [k \in Keys |-> 0]
        /\ used = [k \in Keys |-> 0] /\ now = 0 /\ clock = 0
    BY Zenon, <1>1 DEF Init, InitLru
  <2>2. \A h \in Hosts : value[h] \in Int \cup {Nil}
    BY Zenon, <2>1, PoolAssumption
  <2>3. \A o \in Offsets : value[o] \in Hosts \cup {Nil}
    BY Zenon, <2>1, PoolAssumption
  <2>4. min \in Bases /\ offset \in Offsets /\ host \in Hosts
    BY <1>1, PoolAssumption DEF Init, Offsets
  <2>5. pc \in {"idle", "touch", "get", "set", "back"} /\ torn \in BOOLEAN
    BY ZenonT(60), <1>1 DEF Init
  <2> QED BY <2>1, <2>2, <2>3, <2>4, <2>5 DEF TypeOK
<1> QED BY Zenon, <1>1

(* In every state hosts have addresses and offsets have hosts.             *)
THEOREM TypeCorrect == Spec => []TypeOK
BY TypeInit, TypeInductive, PTL DEF Spec

---------------------------------------------------------------------------
(* Hosts, offsets and nil are told apart.                                  *)
LEMMA Disjoint == Hosts \cap Offsets = {} /\ Nil \notin Hosts /\ Nil \notin Int
BY PoolAssumption DEF Offsets

(* A settled cache holds an even number of entries, half of them offsets.  *)
LEMMA Even ==
  ASSUME TypeOK, Pairs(Cached), IsFiniteSet(Cached)
  PROVE  /\ IsFiniteSet(Cached \cap Offsets) /\ IsFiniteSet(Cached \cap Hosts)
         /\ Cardinality(Cached \cap Hosts) = Cardinality(Cached \cap Offsets)
         /\ Cardinality(Cached \cap Offsets) \in Nat
         /\ Cardinality(Cached) = 2 * Cardinality(Cached \cap Offsets)
<1> DEFINE O == Cached \cap Offsets
           H == Cached \cap Hosts
           f == [o \in O |-> value[o]]
<1>1. IsFiniteSet(O) /\ IsFiniteSet(H)
  BY Zenon, FS_Intersection
<1>2. \A o \in O : Mate(o) = value[o] /\ value[o] \in H /\ Mate(value[o]) = o
  BY Zenon, Disjoint, PoolAssumption DEF Pairs, Mate, Cached, TypeOK
<1>3. f \in [O -> H]
  BY Zenon, <1>2
<1>4. \A x, y \in O : f[x] = f[y] => x = y
  BY Zenon, <1>2
<1>5. \A h \in H : \E o \in O : f[o] = h
  <2> TAKE h \in H
  <2>1. Mate(h) \in O /\ Mate(Mate(h)) = h
    BY Zenon DEF Pairs
  <2> QED BY Zenon, <1>2, <2>1
<1>6. f \in Bijection(O, H)
  BY Zenon, <1>3, <1>4, <1>5 DEF Bijection, Injection, Surjection, IsInjective
<1>7. Cardinality(H) = Cardinality(O)
  BY Zenon, <1>1, <1>6, FS_Bijection DEF ExistsBijection
<1>8. Cached = O \cup H /\ O \cap H = {}
  BY Zenon, Disjoint, PoolAssumption DEF Cached
<1>9. Cardinality(O) \in Nat
  BY Zenon, <1>1, FS_CardinalityType
<1>10. Cardinality(O \cup H) = Cardinality(O) + Cardinality(H) - Cardinality(O \cap H)
  BY Zenon, <1>1, FS_Union
<1>11. Cardinality(O \cap H) = 0
  BY Zenon, <1>8, FS_EmptySet
<1>12. Cardinality(Cached) = 2 * Cardinality(O)
  <2>1. Cardinality(Cached) = Cardinality(O \cup H)
    BY Zenon, <1>8
  <2> HIDE DEF O, H
  <2> QED BY <1>7, <1>9, <1>10, <1>11, <2>1
<1> QED BY Zenon, <1>1, <1>7, <1>9, <1>12

(* With fewer hosts than the range has offsets, one is free.               *)
LEMMA FreeOffset ==
  ASSUME TypeOK, Pairs(Cached), Counted, Size < Span
  PROVE  \E o \in Offsets : value[o] = Nil
<1> USE PoolAssumption
<1>1. Cardinality(Cached \cap Offsets) \in Nat /\ Cardinality(Cached \cap Offsets) <= Size
  BY Even DEF Counted
<1>2. Cardinality(Offsets) = Span
  BY FS_Interval DEF Offsets
<1>3. Cached \cap Offsets # Offsets
  <2>1. SUFFICES ASSUME Cached \cap Offsets = Offsets PROVE FALSE
    BY Zenon
  <2>2. Cardinality(Offsets) <= Size
    BY ZenonT(60), <1>1, <2>1
  <2> QED BY <1>2, <2>2
<1> QED BY Zenon, <1>3 DEF Cached

---------------------------------------------------------------------------
(* Moving an entry to the back keeps the pairs, and the order of others.   *)
LEMMA Moved ==
  ASSUME TypeOK, Ordered, Pairs(Cached), NEW m, m \in Cached,
         clock' = clock + 1, used' = [used EXCEPT ![m] = clock + 1],
         value' = value, min' = min
  PROVE  /\ Cached' = Cached /\ Ordered' /\ Pairs(Cached)'
         /\ \A k : Mate(k)' = Mate(k)
         /\ used'[m] = clock'
         /\ \A k \in Cached : k \notin {m, Mate(m)} /\ Adjacent(k, Cached)
              => Adjacent(k, Cached)'
<1>1. Cached' = Cached /\ Cached \subseteq Keys
  BY Zenon DEF Cached
<1>2. \A k : Mate(k)' = Mate(k)
  BY Zenon DEF Mate, OffsetOf
<1>3. Pairs(Cached)'
  BY Zenon, <1>1, <1>2 DEF Pairs
<1>4. \A k \in Cached : used'[k] = IF k = m THEN clock + 1 ELSE used[k]
  BY Zenon, <1>1 DEF TypeOK
<1>5. \A k \in Cached : used[k] \in Nat /\ used[k] <= clock
  BY Zenon, <1>1 DEF Ordered, TypeOK
<1>6. clock \in Nat
  BY Zenon DEF TypeOK
<1>7. Ordered'
  BY <1>1, <1>4, <1>5, <1>6 DEF Ordered
<1>8. ASSUME NEW k \in Cached, k \notin {m, Mate(m)}, Adjacent(k, Cached)
      PROVE  Adjacent(k, Cached)'
  <2>1. Mate(k) \in Cached /\ Mate(k) # m
    BY Zenon, <1>8 DEF Pairs
  <2>2. SUFFICES ASSUME NEW j \in Cached, j # k, j # Mate(k), used'[k] < used'[j]
                 PROVE  used'[Mate(k)] < used'[j]
    BY Zenon, <1>1, <1>2 DEF Adjacent
  <2>3. CASE j = m
    BY <1>4, <1>5, <1>6, <1>8, <2>1, <2>2, <2>3
  <2>4. CASE j # m
    <3>1. used[k] < used[j]
      BY Zenon, <1>4, <1>8, <2>2, <2>4
    <3>2. used[Mate(k)] < used[j]
      BY Zenon, <1>8, <2>2, <3>1 DEF Adjacent
    <3> QED BY Zenon, <1>4, <2>1, <2>4, <3>2
  <2> QED BY Zenon, <2>3, <2>4
<1> QED BY Zenon, <1>1, <1>2, <1>3, <1>4, <1>7, <1>8

(* The second use of a pair leaves the cache settled.                      *)
LEMMA Rejoined ==
  ASSUME TypeOK, Ordered, NEW m, NEW n, HalfUsed(m), n = Mate(m),
         clock' = clock + 1, used' = [used EXCEPT ![n] = clock + 1],
         value' = value, min' = min
  PROVE  Cached' = Cached /\ Ordered' /\ Settled'
<1>1. /\ Pairs(Cached) /\ m \in Cached /\ n \in Cached /\ Mate(n) = m /\ used[m] = clock
      /\ {m, n} = {host, Mate(host)}
  BY Zenon DEF HalfUsed, Pairs
<1>2. /\ Cached' = Cached /\ Ordered' /\ Pairs(Cached)'
      /\ \A k : Mate(k)' = Mate(k)
      /\ used'[n] = clock'
      /\ \A k \in Cached : k \notin {n, Mate(n)} /\ Adjacent(k, Cached)
           => Adjacent(k, Cached)'
  BY ZenonT(60), <1>1, Moved
<1>3. \A k \in Cached : used'[k] = IF k = n THEN clock + 1 ELSE used[k]
  BY Zenon DEF TypeOK, Cached
<1>4. \A k \in Cached : used[k] \in Nat /\ used[k] <= clock /\ (used[k] = clock => k = m)
  BY Zenon, <1>1 DEF Ordered, TypeOK, Cached
<1>5. ASSUME NEW k \in Cached PROVE Adjacent(k, Cached)'
  <2>1. CASE k \notin {m, n}
    BY Zenon, <1>1, <1>2, <2>1 DEF HalfUsed
  <2>2. CASE k \in {m, n}
    <3>1. Mate(k) \in {m, n}
      BY Zenon, <1>1, <2>2
    <3>2. SUFFICES ASSUME NEW j \in Cached, j # k, j # Mate(k), used'[k] < used'[j]
                   PROVE  FALSE
      BY Zenon, <1>2 DEF Adjacent
    <3>3. j \notin {m, n}
      BY Zenon, <1>1, <2>2, <3>2
    <3>4. clock \in Nat /\ used'[k] >= clock /\ used'[j] < clock
      BY <1>1, <1>3, <1>4, <2>2, <3>3 DEF TypeOK
    <3>5. used'[j] \in Nat /\ used'[k] \in Nat
      BY <1>3, <1>4, <2>2, <3>3, <3>4
    <3> QED BY <3>2, <3>4, <3>5
  <2> QED BY Zenon, <2>1, <2>2
<1> QED BY Zenon, <1>2, <1>5 DEF Settled

---------------------------------------------------------------------------
(* The steps that use entries that are there.                              *)
LEMMA UsesKeepGood ==
  ASSUME TypeOK, Good,
         (\E h \in Hosts : Lookup(h)) \/ Touch \/ (\E o \in Offsets : LookBack(o)) \/ TouchHost
  PROVE  Good'
<1> USE PoolAssumption
<1>1. Ordered /\ Counted
  BY Zenon DEF Good
<1>2. ASSUME NEW h \in Hosts, Lookup(h), value[h] # Nil PROVE Good'
  <2>1. Settled /\ get(h) /\ pc' = "touch" /\ host' = h /\ min' = min
    BY Zenon, <1>2 DEF Lookup, Good
  <2>2. h \in Keys /\ h \in Cached
    BY Zenon, <1>2 DEF Cached
  <2>3. clock' = clock + 1 /\ used' = [used EXCEPT ![h] = clock + 1] /\ value' = value
    BY Zenon, <1>2, <2>1, <2>2, GetEffect
  <2>4. /\ Cached' = Cached /\ Ordered' /\ Pairs(Cached)'
        /\ \A k : Mate(k)' = Mate(k)
        /\ used'[h] = clock'
        /\ \A k \in Cached : k \notin {h, Mate(h)} /\ Adjacent(k, Cached)
             => Adjacent(k, Cached)'
    BY ZenonT(60), <1>1, <2>1, <2>2, <2>3, Moved DEF Settled
  <2>5. HalfUsed(host)'
    BY Zenon, <2>1, <2>2, <2>4 DEF HalfUsed, Settled
  <2> QED BY Zenon, <1>1, <2>1, <2>4, <2>5 DEF Good, Counted
<1>3. ASSUME NEW h \in Hosts, Lookup(h), value[h] = Nil PROVE Good'
  <2>1. Settled /\ pc' = "get" /\ host' = h /\ min' = min
        /\ value' = value /\ used' = used /\ clock' = clock
    BY Zenon, <1>3 DEF Lookup, Good, lruVars
  <2>2. Cached' = Cached /\ \A k : Mate(k)' = Mate(k)
    BY Zenon, <2>1 DEF Cached, Mate, OffsetOf
  <2>3. Settled' /\ Ordered' /\ Counted'
    BY Zenon, <1>1, <2>1, <2>2 DEF Settled, Pairs, Adjacent, Ordered, Counted
  <2> QED BY Zenon, <1>3, <2>1, <2>3 DEF Good
<1>4. ASSUME Touch PROVE Good'
  <2>1. HalfUsed(host) /\ pc' = "idle" /\ min' = min
    BY Zenon, <1>4 DEF Touch, Good
  <2>2. Mate(host) = OffsetOf(value[host]) /\ Mate(host) \in Cached /\ Mate(host) \in Offsets
    BY Zenon, <2>1 DEF HalfUsed, Pairs, Mate, TypeOK
  <2>3. get(Mate(host)) /\ Mate(host) \in Keys /\ value[Mate(host)] # Nil
    BY Zenon, <1>4, <2>2 DEF Touch, Cached
  <2>4. clock' = clock + 1 /\ used' = [used EXCEPT ![Mate(host)] = clock + 1] /\ value' = value
    BY Zenon, <2>3, GetEffect
  <2>5. Cached' = Cached /\ Ordered' /\ Settled'
    BY ZenonT(60), <1>1, <2>1, <2>4, Rejoined
  <2> QED BY Zenon, <1>1, <2>1, <2>5 DEF Good, Counted
<1>5. ASSUME NEW o \in Offsets, LookBack(o) PROVE Good'
  <2>1. Settled /\ get(o) /\ pc' = "back" /\ host' = value[o] /\ min' = min
    BY Zenon, <1>5 DEF LookBack, Good
  <2>2. o \in Keys /\ o \in Cached /\ value[o] # Nil /\ o \notin Hosts
    BY Zenon, <1>5, Disjoint DEF Cached, LookBack
  <2>3. clock' = clock + 1 /\ used' = [used EXCEPT ![o] = clock + 1] /\ value' = value
    BY Zenon, <2>1, <2>2, GetEffect
  <2>4. /\ Cached' = Cached /\ Ordered' /\ Pairs(Cached)'
        /\ \A k : Mate(k)' = Mate(k)
        /\ used'[o] = clock'
        /\ \A k \in Cached : k \notin {o, Mate(o)} /\ Adjacent(k, Cached)
             => Adjacent(k, Cached)'
    BY ZenonT(60), <1>1, <2>1, <2>2, <2>3, Moved DEF Settled
  <2>5. host' = Mate(o) /\ host' \in Cached /\ Mate(Mate(o)) = o
    BY Zenon, <2>1, <2>2 DEF Mate, Settled, Pairs
  <2>6. Mate(host)' = o
    BY Zenon, <2>4, <2>5 DEF Mate
  <2>7. HalfUsed(Mate(host))'
    BY Zenon, <2>1, <2>4, <2>5, <2>6 DEF HalfUsed, Settled
  <2> QED BY Zenon, <1>1, <2>1, <2>4, <2>7 DEF Good, Counted
<1>6. ASSUME TouchHost PROVE Good'
  <2>1. HalfUsed(Mate(host)) /\ pc' = "idle" /\ min' = min /\ get(host)
    BY Zenon, <1>6 DEF TouchHost, Good
  <2>2. host \in Keys /\ value[host] # Nil /\ host = Mate(Mate(host))
    BY Zenon, <2>1 DEF HalfUsed, Pairs, Cached
  <2>3. clock' = clock + 1 /\ used' = [used EXCEPT ![host] = clock + 1] /\ value' = value
    BY Zenon, <2>1, <2>2, GetEffect
  <2>4. Cached' = Cached /\ Ordered' /\ Settled'
    BY ZenonT(60), <1>1, <2>1, <2>2, <2>3, Rejoined
  <2> QED BY Zenon, <1>1, <2>1, <2>4 DEF Good, Counted
<1> QED BY Zenon, <1>2, <1>3, <1>4, <1>5, <1>6

---------------------------------------------------------------------------
(* The offset get gives is free.                                           *)
LEMMA GetFree ==
  ASSUME TypeOK, Good, Size < Span, Get
  PROVE  offset' \in Offsets /\ value[offset'] = Nil
<1> USE PoolAssumption
<1>1. Pairs(Cached) /\ Counted
  BY Zenon DEF Good, Get, Settled
<1>2. PICK free \in Offsets : value[free] = Nil
  BY Zenon, <1>1, FreeOffset
<1>3. PICK d \in 1..Span :
        /\ d = Span \/ value[Ahead(d)] = Nil
        /\ \A e \in 1..(d - 1) : value[Ahead(e)] # Nil
        /\ offset' = Ahead(d)
  BY Zenon DEF Get
<1>4. offset \in Offsets
  BY Zenon DEF TypeOK
<1>5. offset' \in Offsets
  BY <1>3, <1>4 DEF Ahead, Offsets
<1>6. CASE d # Span
  BY Zenon, <1>3, <1>5, <1>6
<1>7. CASE d = Span
  <2>1. offset' = offset
    BY <1>3, <1>4, <1>7 DEF Ahead, Offsets
  <2>2. ASSUME free # offset PROVE FALSE
    <3> DEFINE e == IF free > offset THEN free - offset ELSE free - offset + Span
    <3>1. e \in 1..(d - 1) /\ Ahead(e) = free
      BY <1>2, <1>4, <1>7, <2>2 DEF Ahead, Offsets
    <3> QED BY Zenon, <1>2, <1>3, <3>1
  <2> QED BY Zenon, <1>2, <1>5, <2>1, <2>2
<1> QED BY Zenon, <1>6, <1>7

(* The first insertion of a pair.                                          *)
LEMMA GetKeepsGood ==
  ASSUME TypeOK, Good, Size < Span, Get
  PROVE  Good'
<1> USE PoolAssumption
<1>1. /\ Ordered /\ Counted /\ Pairs(Cached) /\ (\A k \in Cached : Adjacent(k, Cached))
      /\ value[host] = Nil /\ pc' = "set" /\ min' = min /\ host' = host
  BY Zenon DEF Good, Settled, Get
<1> DEFINE o == offset'
<1>2. o \in Offsets /\ o \in Keys /\ o \notin Cached /\ o \notin Hosts
  BY Zenon, GetFree, Disjoint DEF Cached
<1>3. PICK f \in Cached \cup {o} : SetNew(o, host, f)
  BY Zenon, <1>2, SetEffect DEF Get
<1> HIDE DEF o
<1> DEFINE full == Cardinality(Cached \cup {o}) > 2 * Size
<1>4. Cached \subseteq Keys /\ host \notin Cached /\ host \in Hosts /\ host # Nil
  BY Zenon, <1>1, Disjoint DEF Cached, TypeOK
<1>5. /\ clock \in Nat /\ clock' = clock + 1
      /\ \A k \in Cached : used'[k] = used[k] /\ used[k] \in Nat /\ used[k] <= clock
      /\ used'[o] = clock + 1
  BY Zenon, <1>1, <1>2, <1>3, <1>4 DEF SetNew, TypeOK, Ordered
<1>6. Cached' = IF full THEN (Cached \cup {o}) \ {f} ELSE Cached \cup {o}
  BY Zenon, <1>2, <1>3, <1>4 DEF SetNew, Cached
<1>7. \A k \in Cached' : value'[k] = IF k = o THEN host ELSE value[k]
  BY Zenon, <1>2, <1>3, <1>4, <1>6 DEF SetNew
<1>8. \A k \in Cached' : k # o => Mate(k)' = Mate(k)
  BY Zenon, <1>1, <1>7 DEF Mate, OffsetOf
<1>9. /\ IsFiniteSet(Cached \cup {o})
      /\ Cardinality(Cached \cup {o}) = Cardinality(Cached) + 1
  BY ZenonT(60), <1>1, <1>2, FS_AddElement DEF Counted
<1>10. PICK n \in Nat : Cardinality(Cached) = 2 * n
  BY Zenon, <1>1, Even DEF Counted
<1>11. Ordered'
  BY <1>1, <1>2, <1>5, <1>6 DEF Ordered
<1>12. CASE ~full
  <2>1. Cached' = Cached \cup {o} /\ Cached' \ {o} = Cached
    BY Zenon, <1>2, <1>6, <1>12
  <2>2. /\ IsFiniteSet(Cached')
        /\ Cardinality(Cached') < 2 * Size /\ Cardinality(Cached') <= 2 * Size
    BY <1>9, <1>10, <1>12, <2>1
  <2>3. (Pairs(Cached \ {offset}))'
    BY <1>1, <1>8, <1>2, <2>1 DEF Pairs, o
  <2>4. (\A k \in Cached \ {offset} : Adjacent(k, Cached \ {offset}))'
    BY <1>1, <1>2, <1>5, <1>8, <2>1 DEF Pairs, Adjacent, o
  <2>5. value'[host] = Nil /\ value'[o] = host
    BY ZenonT(60), <1>2, <1>3, <1>4, <1>7, <2>1 DEF SetNew
  <2>6. HalfSet'
    BY Zenon, <1>1, <1>5, <2>2, <2>3, <2>4, <2>5 DEF HalfSet, o
  <2> QED BY Zenon, <1>1, <1>11, <2>2, <2>6 DEF Good, Counted
<1>13. CASE full
  <2>1. Cardinality(Cached) = 2 * Size /\ Cached # {}
    BY <1>1, <1>9, <1>10, <1>13, FS_EmptySet DEF Counted
  <2>2. PICK c \in Cached : TRUE
    BY Zenon, <2>1
  <2>3. f # o
    BY <1>2, <1>3, <1>5, <2>2 DEF SetNew
  <2>4. f \in Cached /\ Cached' = (Cached \cup {o}) \ {f}
    BY Zenon, <1>3, <1>6, <1>13, <2>3
  <2>0. PICK w : w = Mate(f)
    BY Zenon
  <2>5. w \in Cached /\ w # f /\ Mate(w) = f
    <3>1. f \in Hosts <=> w \in Offsets
      BY Zenon, <1>1, <2>0, <2>4 DEF Pairs
    <3>2. w \in Hosts \/ w \in Offsets
      BY Zenon, <1>1, <1>4, <2>0, <2>4 DEF Pairs, Cached
    <3> QED BY Zenon, <1>1, <2>0, <2>4, <3>1, <3>2, Disjoint DEF Pairs
  <2>6. w \in Cached' /\ w # o
    BY Zenon, <1>2, <2>4, <2>5
  <2>7. ASSUME NEW j \in Cached' PROVE used'[w] <= used'[j]
    <3>1. CASE j = o
      BY <1>5, <2>5, <3>1
    <3>2. CASE j = w
      BY <1>5, <2>5, <3>2
    <3>3. CASE j # o /\ j # w
      <4>1. j \in Cached /\ j # f
        BY Zenon, <2>4, <2>7, <3>3
      <4>2. used[f] < used[j]
        <5>1. used[f] <= used[j]
          BY Zenon, <1>3, <1>5, <2>4, <4>1 DEF SetNew
        <5>2. used[f] # used[j]
          BY Zenon, <1>1, <2>4, <4>1 DEF Ordered
        <5> QED BY <1>5, <2>4, <4>1, <5>1, <5>2
      <4>3. used[w] < used[j]
        BY Zenon, <1>1, <2>0, <2>4, <3>3, <4>1, <4>2 DEF Adjacent
      <4> QED BY <1>5, <2>5, <4>1, <4>3
    <3> QED BY Zenon, <3>1, <3>2, <3>3
  <2>8. Cached' \ {o, w} = Cached \ {f, w}
    BY Zenon, <1>2, <2>4
  <2>9. \A k \in Cached \ {f, w} : Mate(k) \in Cached \ {f, w} /\ Mate(k)' = Mate(k)
                                   /\ Mate(Mate(k)) = k
    BY Zenon, <1>1, <1>8, <2>0, <2>5, <2>8 DEF Pairs
  <2>10. \A k \in Cached \ {f, w} : (Mate(Mate(k)))' = k
    <3> TAKE k \in Cached \ {f, w}
    <3>1. Mate(Mate(k))' = Mate(Mate(k))
      BY Zenon, <1>2, <1>7, <1>8, <2>8, <2>9 DEF Mate, OffsetOf
    <3> QED BY Zenon, <2>9, <3>1
  <2>11. (Pairs(Cached \ {offset, w}))'
    BY <1>1, <2>8, <2>9, <2>10 DEF Pairs, o
  <2>12. (\A k \in Cached \ {offset, w} : Adjacent(k, Cached \ {offset, w}))'
    BY <1>1, <1>5, <2>8, <2>9 DEF Adjacent, o
  <2>13. IsFiniteSet(Cached') /\ Cardinality(Cached') = 2 * Size
    <3>1. f \in Cached \cup {o}
      BY Zenon, <2>4
    <3> QED BY <1>9, <2>1, <2>4, <3>1, FS_RemoveElement
  <2>14. value'[host] = Nil /\ value'[o] = host /\ o \in Cached'
    BY Zenon, <1>2, <1>3, <1>4, <1>7, <2>3, <2>4 DEF SetNew
  <2>15. HalfSet'
    BY ZenonT(60), <1>1, <1>5, <2>6, <2>7, <2>11, <2>12, <2>13, <2>14 DEF HalfSet, o
  <2> QED BY <1>1, <1>11, <2>13, <2>15 DEF Good, Counted
<1> QED BY Zenon, <1>12, <1>13

(* The second insertion of a pair: whom it evicts is the widow.            *)
LEMMA SetHostKeepsGood ==
  ASSUME TypeOK, Good, Size < Span, SetHost
  PROVE  Good'
<1> USE PoolAssumption
<1>1. /\ Ordered /\ Counted /\ HalfSet
      /\ pc' = "idle" /\ min' = min /\ host' = host /\ offset' = offset
  BY Zenon DEF Good, SetHost
<1>2. /\ host \in Hosts /\ host \in Keys /\ host \notin Cached
      /\ offset \in Offsets /\ offset \in Keys /\ offset \in Cached /\ offset \notin Hosts
      /\ value[offset] = host /\ used[offset] = clock
  BY Zenon, <1>1, Disjoint DEF HalfSet, Cached, TypeOK
<1>3. PICK f \in Cached \cup {host} : SetNew(host, Address(offset), f)
  BY Zenon, <1>2, SetEffect DEF SetHost
<1> DEFINE full == Cardinality(Cached \cup {host}) > 2 * Size
<1>4. Cached \subseteq Keys /\ Address(offset) # Nil /\ OffsetOf(Address(offset)) = offset
  BY <1>2, Disjoint DEF Cached, TypeOK, Address, OffsetOf, Offsets
<1>5. /\ clock \in Nat /\ clock' = clock + 1
      /\ \A k \in Cached : used'[k] = used[k] /\ used[k] \in Nat /\ used[k] <= clock
      /\ used'[host] = clock + 1
  BY Zenon, <1>1, <1>2, <1>3, <1>4 DEF SetNew, TypeOK, Ordered
<1>6. Cached' = IF full THEN (Cached \cup {host}) \ {f} ELSE Cached \cup {host}
  BY Zenon, <1>2, <1>3, <1>4 DEF SetNew, Cached
<1>7. \A k \in Cached' : value'[k] = IF k = host THEN Address(offset) ELSE value[k]
  BY Zenon, <1>2, <1>3, <1>4, <1>6 DEF SetNew
<1>8. \A k \in Cached' : k # host => Mate(k)' = Mate(k)
  BY Zenon, <1>1, <1>7 DEF Mate, OffsetOf
<1>9. /\ IsFiniteSet(Cached \cup {host})
      /\ Cardinality(Cached \cup {host}) = Cardinality(Cached) + 1
      /\ Cardinality(Cached) \in Nat
  BY Zenon, <1>1, <1>2, FS_AddElement, FS_CardinalityType DEF Counted
<1>10. Ordered'
  BY <1>1, <1>2, <1>5, <1>6 DEF Ordered
<1>11. SUFFICES \E s \in SUBSET Cached :
         /\ Pairs(s) /\ (\A k \in s : Adjacent(k, s)) /\ offset \notin s
         /\ Cached' = s \cup {offset, host}
         /\ IsFiniteSet(Cached') /\ Cardinality(Cached') <= 2 * Size
  <2>1. PICK s \in SUBSET Cached :
         /\ Pairs(s) /\ (\A k \in s : Adjacent(k, s)) /\ offset \notin s
         /\ Cached' = s \cup {offset, host}
         /\ IsFiniteSet(Cached') /\ Cardinality(Cached') <= 2 * Size
    BY Zenon, <1>11
  <2>2. \A k \in s : k # host /\ k # offset /\ Mate(k) \in s /\ Mate(k)' = Mate(k)
    BY Zenon, <1>2, <1>8, <2>1 DEF Pairs
  <2>3. Mate(host)' = offset /\ Mate(offset)' = host
    BY Zenon, <1>1, <1>2, <1>4, <1>7, <2>1 DEF Mate, OffsetOf
  <2>4. \A k \in s : (Mate(Mate(k)))' = k
    <3> TAKE k \in s
    <3>1. Mate(Mate(k))' = Mate(Mate(k))
      BY Zenon, <1>1, <1>7, <2>1, <2>2 DEF Mate, OffsetOf
    <3> QED BY Zenon, <2>1, <3>1 DEF Pairs
  <2>5. (Mate(Mate(host)))' = host /\ (Mate(Mate(offset)))' = offset
    BY Zenon, <1>1, <1>2, <1>4, <1>7, <2>1 DEF Mate, OffsetOf
  <2>6. ASSUME NEW k \in Cached' PROVE
          /\ Mate(k)' \in Cached' /\ (Mate(Mate(k)))' = k /\ (k \in Hosts <=> Mate(k)' \in Offsets)
    <3>1. CASE k \in s
      BY <2>1, <2>2, <2>4, <3>1 DEF Pairs
    <3>2. CASE k = host
      BY Zenon, <1>1, <1>2, <2>1, <2>3, <2>5, <3>2
    <3>3. CASE k = offset
      BY Zenon, <1>1, <1>2, <2>1, <2>3, <2>5, <3>3, Disjoint
    <3> QED BY Zenon, <2>1, <3>1, <3>2, <3>3
  <2>7. Pairs(Cached)'
    BY Zenon, <2>6 DEF Pairs
  <2>8. ASSUME NEW k \in Cached', NEW j \in Cached', j # k, j # Mate(k)', used'[k] < used'[j]
        PROVE  used'[Mate(k)'] < used'[j]
    <3>1. CASE k \in s
      <4>1. CASE j \in s
        <5>1. used[Mate(k)] < used[j]
          BY Zenon, <1>5, <2>1, <2>2, <2>8, <3>1, <4>1 DEF Adjacent
        <5> QED BY Zenon, <1>5, <2>1, <2>2, <3>1, <4>1, <5>1
      <4>2. CASE j = host
        BY <1>5, <2>1, <2>2, <3>1, <4>2
      <4>3. CASE j = offset
        <5>1. used[Mate(k)] # used[offset]
          BY Zenon, <1>1, <1>2, <2>1, <2>2, <3>1 DEF Ordered
        <5> QED BY <1>2, <1>5, <2>1, <2>2, <3>1, <4>3, <5>1
      <4> QED BY Zenon, <2>1, <4>1, <4>2, <4>3
    <3>2. CASE k \in {host, offset}
      <4>1. j \in s /\ j # offset
        BY Zenon, <1>1, <2>1, <2>3, <2>8, <3>2
      <4>2. used[j] # used[offset]
        BY Zenon, <1>1, <1>2, <2>1, <4>1 DEF Ordered
      <4>3. FALSE
        BY <1>2, <1>5, <2>1, <2>8, <3>2, <4>1, <4>2
      <4> QED BY Zenon, <4>3
    <3> QED BY Zenon, <2>1, <3>1, <3>2
  <2>9. Settled'
    BY Zenon, <2>7, <2>8 DEF Settled, Adjacent
  <2> QED BY Zenon, <1>1, <1>10, <2>1, <2>9 DEF Good, Counted
<1>12. CASE /\ Pairs(Cached \ {offset})
            /\ \A k \in Cached \ {offset} : Adjacent(k, Cached \ {offset})
            /\ Cardinality(Cached) < 2 * Size
  <2>0. Cardinality(Cached) < 2 * Size
    BY Zenon, <1>12
  <2>1. ~full /\ Cached' = Cached \cup {host}
    <3>1. ~full
      BY <1>9, <2>0
    <3> QED BY Zenon, <1>6, <3>1
  <2>2. Cached' = (Cached \ {offset}) \cup {offset, host}
    BY Zenon, <1>2, <2>1
  <2>3. IsFiniteSet(Cached') /\ Cardinality(Cached') <= 2 * Size
    BY <1>9, <2>0, <2>1
  <2> QED BY Zenon, <1>12, <2>2, <2>3
<1>13. ASSUME NEW w \in Cached \ {offset},
              Pairs(Cached \ {offset, w}),
              \A k \in Cached \ {offset, w} : Adjacent(k, Cached \ {offset, w}),
              \A j \in Cached : used[w] <= used[j],
              Cardinality(Cached) = 2 * Size
       PROVE  \E s \in SUBSET Cached :
         /\ Pairs(s) /\ (\A k \in s : Adjacent(k, s)) /\ offset \notin s
         /\ Cached' = s \cup {offset, host}
         /\ IsFiniteSet(Cached') /\ Cardinality(Cached') <= 2 * Size
  <2>0. Cardinality(Cached) = 2 * Size
    BY Zenon, <1>13
  <2>1. full /\ Cached' = (Cached \cup {host}) \ {f}
    <3>1. full
      BY <1>9, <2>0
    <3> QED BY Zenon, <1>6, <3>1
  <2>2. f = w
    <3>1. f # host
      BY <1>2, <1>3, <1>5 DEF SetNew
    <3>2. f \in Cached /\ used[f] <= used[w]
      BY Zenon, <1>3, <1>5, <1>13, <3>1 DEF SetNew
    <3>3. used[f] = used[w]
      BY SMTT(40), <1>5, <1>13, <3>2
    <3> QED BY Zenon, <1>1, <1>13, <3>2, <3>3 DEF Ordered
  <2>3. Cached' = (Cached \ {offset, w}) \cup {offset, host}
    BY Zenon, <1>2, <1>13, <2>1, <2>2
  <2>4. IsFiniteSet(Cached') /\ Cardinality(Cached') <= 2 * Size
    <3>1. /\ IsFiniteSet((Cached \cup {host}) \ {f})
          /\ Cardinality((Cached \cup {host}) \ {f}) = Cardinality(Cached \cup {host}) - 1
      BY ZenonT(60), <1>3, <1>9, FS_RemoveElement
    <3> QED BY <1>9, <2>0, <2>1, <3>1
  <2> QED BY ZenonT(60), <1>13, <2>3, <2>4
<1> QED BY ZenonT(60), <1>1, <1>12, <1>13 DEF HalfSet

(* The pairs of the cache stay pairs, in every step of every call.         *)
LEMMA InvInductive == TypeOK /\ Inv /\ [Next]_vars => Inv'
<1> SUFFICES ASSUME TypeOK, Inv, [Next]_vars, ~torn', Size < Span PROVE Good'
  BY Zenon DEF Inv
<1>1. CASE UNCHANGED vars
  <2>1. /\ torn' = torn /\ min' = min /\ pc' = pc /\ host' = host /\ offset' = offset
        /\ value' = value /\ used' = used /\ clock' = clock
    BY Zenon, <1>1 DEF vars, lruVars, poolVars
  <2>2. Good
    BY Zenon, <2>1 DEF Inv
  <2>3. Cached' = Cached /\ \A k : Mate(k)' = Mate(k)
    BY Zenon, <2>1 DEF Cached, Mate, OffsetOf
  <2>4. \A k, t : (Adjacent(k, t))' <=> Adjacent(k, t)
    BY Zenon, <2>1, <2>3 DEF Adjacent
  <2>5. \A t : (Pairs(t))' <=> Pairs(t)
    BY Zenon, <2>1, <2>3 DEF Pairs
  <2>6. Ordered' /\ Counted'
    BY Zenon, <2>1, <2>2, <2>3 DEF Good, Ordered, Counted
  <2>7. Mate(host)' = Mate(host)
    BY Zenon, <2>1 DEF Mate, OffsetOf
  <2>8. (HalfUsed(host) => HalfUsed(host)') /\ (HalfUsed(Mate(host)) => HalfUsed(Mate(host))')
    BY Zenon, <2>1, <2>3, <2>4, <2>5, <2>7 DEF HalfUsed
  <2>9. HalfSet => HalfSet'
    BY ZenonT(60), <2>1, <2>3, <2>4, <2>5 DEF HalfSet
  <2>10. Settled => Settled'
    BY Zenon, <2>1, <2>3, <2>4, <2>5 DEF Settled
  <2> QED BY Zenon, <2>1, <2>2, <2>6, <2>8, <2>9, <2>10 DEF Good
<1>2. ASSUME NEW b \in Bases, PatchFrom(b) PROVE Good'
  <2>1. /\ ~torn /\ min' = min /\ pc \in {"idle", "get"} /\ pc' = "idle"
        /\ value' = value /\ used' = used /\ clock' = clock
    BY ZenonT(60), <1>2 DEF PatchFrom, lruVars, TypeOK
  <2>2. Ordered /\ Counted /\ Settled
    BY Zenon, <2>1 DEF Inv, Good
  <2>3. Cached' = Cached /\ \A k : Mate(k)' = Mate(k)
    BY Zenon, <2>1 DEF Cached, Mate, OffsetOf
  <2>4. Settled' /\ Ordered' /\ Counted'
    BY Zenon, <2>1, <2>2, <2>3 DEF Settled, Pairs, Adjacent, Ordered, Counted
  <2> QED BY Zenon, <2>1, <2>4 DEF Good
<1>3. CASE (\E h \in Hosts : Lookup(h)) \/ Touch \/ (\E o \in Offsets : LookBack(o)) \/ TouchHost
  <2>1. torn' = torn
    BY Zenon, <1>3 DEF Lookup, Touch, LookBack, TouchHost
  <2> QED BY Zenon, <1>3, <2>1, UsesKeepGood DEF Inv
<1>4. CASE Get
  BY Zenon, <1>4, GetKeepsGood DEF Inv, Get
<1>5. CASE SetHost
  BY Zenon, <1>5, SetHostKeepsGood DEF Inv, SetHost
<1> QED BY Zenon, <1>1, <1>2, <1>3, <1>4, <1>5 DEF Next

(* The invariant of pairs holds in every state.                            *)
LEMMA Invariant == Spec => [](TypeOK /\ Inv)
<1>1. Init => Inv
  <2> SUFFICES ASSUME Init PROVE Good
    BY Zenon DEF Inv
  <2>1. Cached = {} /\ pc = "idle"
    BY Zenon, PoolAssumption DEF Init, InitLru, Cached
  <2>2. IsFiniteSet(Cached) /\ Cardinality(Cached) <= 2 * Size
    BY <2>1, FS_EmptySet, PoolAssumption
  <2> QED BY Zenon, <2>1, <2>2 DEF Good, Ordered, Counted, Settled, Pairs
<1>2. Init => TypeOK
  BY Zenon, TypeInit
<1> QED BY <1>1, <1>2, TypeInductive, InvInductive, PTL DEF Spec

(* The address Lookup gives to a host leads LookBack back to it, whatever  *)
(* was looked up and evicted in between, unless a reload changed the range *)
(* or hit the middle of a call (component/fakeip/pool.go).                 *)
THEOREM InverseMaps == Spec => []MutuallyInverse
<1>1. TypeOK /\ Inv => MutuallyInverse
  <2> SUFFICES ASSUME TypeOK, Good, pc = "idle" PROVE
         /\ \A h \in Hosts : value[h] # Nil =>
              OffsetOf(value[h]) \in Offsets /\ value[OffsetOf(value[h])] = h
         /\ \A o \in Offsets : value[o] # Nil => value[value[o]] = Address(o)
    BY Zenon DEF Inv, MutuallyInverse
  <2>1. Pairs(Cached)
    BY Zenon DEF Good, Settled
  <2>2. ASSUME NEW h \in Hosts, value[h] # Nil
        PROVE  OffsetOf(value[h]) \in Offsets /\ value[OffsetOf(value[h])] = h
    <3>1. h \in Cached /\ Mate(h) = OffsetOf(value[h])
      BY Zenon, <2>2, PoolAssumption DEF Cached, Mate
    <3>2. Mate(h) \in Offsets /\ Mate(Mate(h)) = h
      BY Zenon, <2>1, <3>1 DEF Pairs
    <3>3. Mate(h) \notin Hosts
      BY Zenon, <3>2, Disjoint
    <3>4. Mate(Mate(h)) = value[Mate(h)]
      BY Zenon, <3>3 DEF Mate
    <3> QED BY Zenon, <3>1, <3>2, <3>4
  <2>3. ASSUME NEW o \in Offsets, value[o] # Nil PROVE value[value[o]] = Address(o)
    <3>1. o \in Cached /\ o \notin Hosts /\ Mate(o) = value[o]
      BY Zenon, <2>3, PoolAssumption, Disjoint DEF Cached, Mate
    <3>2. value[o] \in Hosts /\ value[o] \in Cached /\ Mate(value[o]) = o
      BY Zenon, <2>1, <2>3, <3>1 DEF Pairs, TypeOK
    <3>3. OffsetOf(value[value[o]]) = o /\ value[value[o]] \in Int
      BY Zenon, <3>2 DEF Mate, Cached, TypeOK
    <3> QED BY <3>3, PoolAssumption DEF OffsetOf, Address, TypeOK, Offsets
  <2> QED BY Zenon, <2>2, <2>3
<1> QED BY <1>1, Invariant, PTL

(* The pool never keeps more hosts than its size (New).                    *)
THEOREM PoolBounded == Spec => []Full
<1>1. TypeOK /\ Inv => Full
  BY Even, PoolAssumption DEF Inv, Good, Settled, Counted, Full
<1> QED BY <1>1, Invariant, PTL
===========================================================================
