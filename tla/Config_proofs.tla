---------------------------- MODULE Config_proofs ----------------------------
(* Proofs about Config, for every configuration: proxyGroupsDagSort sorts    *)
(* the groups or reports their loops, and what is accepted can be used.      *)
EXTENDS Config, FiniteSetTheorems, TLAPS

(* A list of all the members of a set, each once.                            *)
Enumerates(s, S) == s \in Seq(S) /\ IsInjective(s) /\ Range(s) = S

(* A function on 1..n is a list of length n.                               *)
LEMMA IsListOf ==
  ASSUME NEW T, NEW n \in Nat, NEW f \in [1..n -> T]
  PROVE  f \in Seq(T) /\ Len(f) = n /\ DOMAIN f = 1..n
OBVIOUS

(* A list is a function on the numbers up to its length.                   *)
LEMMA ListParts ==
  ASSUME NEW S, NEW s \in Seq(S)
  PROVE  Len(s) \in Nat /\ s \in [1..Len(s) -> S] /\ DOMAIN s = 1..Len(s)
OBVIOUS

(* The members of two lists joined. *)
LEMMA ListsJoined ==
  ASSUME NEW S, NEW s \in Seq(S), NEW t \in Seq(S)
  PROVE  /\ s \o t \in Seq(S) /\ Len(s \o t) = Len(s) + Len(t)
         /\ \A i \in 1..(Len(s) + Len(t)) : (s \o t)[i] = IF i <= Len(s) THEN s[i] ELSE t[i - Len(s)]
OBVIOUS

(* A list is a list over any set that has its members.                     *)
LEMMA Narrowed ==
  ASSUME NEW S, NEW T, NEW q \in Seq(S), Range(q) \subseteq T
  PROVE  q \in Seq(T)
<1>1. q \in [1..Len(q) -> S] /\ Len(q) \in Nat /\ DOMAIN q = 1..Len(q)
  BY Zenon, ListParts
<1>2. \A i \in 1..Len(q) : q[i] \in T
  BY Zenon, <1>1 DEF Range
<1>3. q \in [1..Len(q) -> T]
  BY Zenon, <1>1, <1>2
<1>4. QED
  BY Zenon, <1>1, <1>3, IsListOf

(* Taking the head of a queue takes one member of what it enumerates.      *)
LEMMA EnumeratesTail ==
  ASSUME NEW S, NEW s, Enumerates(s, S), s # <<>>
  PROVE  Head(s) \in S /\ Enumerates(Tail(s), S \ {Head(s)})
<1>1. s \in Seq(S) /\ Len(s) \in Nat /\ Len(s) > 0 /\ DOMAIN s = 1..Len(s) /\ Head(s) = s[1]
  BY DEF Enumerates
<1>2. /\ Tail(s) \in Seq(S) /\ Len(Tail(s)) = Len(s) - 1 /\ DOMAIN Tail(s) = 1..Len(s) - 1
      /\ \A i \in 1..Len(s) - 1 : Tail(s)[i] = s[i + 1]
  BY <1>1
<1>3. \A i, j \in 1..Len(s) : s[i] = s[j] => i = j
  BY Zenon, <1>1 DEF Enumerates, IsInjective
<1>4. IsInjective(Tail(s))
  BY <1>1, <1>2, <1>3 DEF IsInjective
<1>5. ASSUME NEW x PROVE x \in Range(Tail(s)) <=> x \in S \ {Head(s)}
  <2>1. x \in S <=> \E i \in 1..Len(s) : s[i] = x
    BY Zenon, <1>1 DEF Enumerates, Range
  <2>2. x \in Range(Tail(s)) <=> \E i \in 1..Len(s) - 1 : s[i + 1] = x
    BY Zenon, <1>2 DEF Range
  <2>3. ASSUME NEW i \in 1..Len(s) - 1, s[i + 1] = x PROVE x \in S /\ x # s[1]
    BY <1>1, <1>3, <2>1, <2>3
  <2>4. ASSUME NEW i \in 1..Len(s), s[i] = x, x # s[1] PROVE \E k \in 1..Len(s) - 1 : s[k + 1] = x
    <3>1. i # 1 /\ i - 1 \in 1..Len(s) - 1 /\ i = (i - 1) + 1
      BY <1>1, <2>4
    <3>2. QED
      BY Zenon, <2>4, <3>1
  <2>5. QED
    BY Zenon, <1>1, <2>1, <2>2, <2>3, <2>4
<1>6. Range(Tail(s)) = S \ {Head(s)}
  BY Zenon, <1>5
<1>7. Tail(s) \in Seq(S \ {Head(s)})
  BY Zenon, <1>2, <1>6, Narrowed
<1>8. s[1] \in S
  BY <1>1
<1>9. QED
  BY Zenon, <1>1, <1>4, <1>6, <1>7, <1>8 DEF Enumerates

(* Appending to a queue what is not in it adds that.                       *)
LEMMA EnumeratesConcat ==
  ASSUME NEW S, NEW s, Enumerates(s, S), NEW T, NEW t, Enumerates(t, T), S \cap T = {}
  PROVE  Enumerates(s \o t, S \cup T)
<1>1. /\ s \in Seq(S) /\ Len(s) \in Nat /\ DOMAIN s = 1..Len(s)
      /\ t \in Seq(T) /\ Len(t) \in Nat /\ DOMAIN t = 1..Len(t)
  BY DEF Enumerates
<1>2. s \in Seq(S \cup T) /\ t \in Seq(S \cup T)
  BY <1>1
<1>3. /\ s \o t \in Seq(S \cup T) /\ Len(s \o t) = Len(s) + Len(t) /\ DOMAIN (s \o t) = 1..Len(s) + Len(t)
      /\ \A i \in 1..Len(s) + Len(t) : (s \o t)[i] = IF i <= Len(s) THEN s[i] ELSE t[i - Len(s)]
  BY <1>2
<1> DEFINE c == s \o t
<1>4. \A i \in 1..Len(s) : c[i] = s[i] /\ s[i] \in S
  BY <1>1, <1>3
<1>5. \A i \in 1..Len(t) : c[Len(s) + i] = t[i] /\ t[i] \in T
  BY <1>1, <1>3
<1>6. \A i \in DOMAIN c : i \in 1..Len(s) \/ \E k \in 1..Len(t) : i = Len(s) + k
  <2> TAKE i \in DOMAIN c
  <2>1. i \in 1..Len(s) \/ (i - Len(s) \in 1..Len(t) /\ i = Len(s) + (i - Len(s)))
    BY <1>1, <1>3
  <2>2. QED
    BY Zenon, <2>1
<1>7. /\ \A i, j \in 1..Len(s) : s[i] = s[j] => i = j
      /\ \A i, j \in 1..Len(t) : t[i] = t[j] => i = j
  BY Zenon, <1>1 DEF Enumerates, IsInjective
<1>8. c \in Seq(S \cup T) /\ DOMAIN c = 1..Len(s) + Len(t)
  BY Zenon, <1>3
<1>9. \A x \in S : \E i \in 1..Len(s) : s[i] = x
  BY Zenon, <1>1 DEF Enumerates, Range
<1>10. \A x \in T : \E i \in 1..Len(t) : t[i] = x
  BY Zenon, <1>1 DEF Enumerates, Range
<1> HIDE DEF c
<1>11. IsInjective(c)
  <2> SUFFICES ASSUME NEW i \in DOMAIN c, NEW j \in DOMAIN c, c[i] = c[j] PROVE i = j
    BY Zenon DEF IsInjective
  <2>1. CASE i \in 1..Len(s) /\ j \in 1..Len(s)
    BY Zenon, <1>4, <1>7, <2>1
  <2>2. ASSUME NEW k \in 1..Len(t), i = Len(s) + k, j \in 1..Len(s) PROVE FALSE
    BY Zenon, <1>4, <1>5, <2>2
  <2>3. ASSUME NEW k \in 1..Len(t), j = Len(s) + k, i \in 1..Len(s) PROVE FALSE
    BY Zenon, <1>4, <1>5, <2>3
  <2>4. ASSUME NEW k \in 1..Len(t), i = Len(s) + k, NEW l \in 1..Len(t), j = Len(s) + l PROVE i = j
    <3>1. c[Len(s) + k] = t[k] /\ c[Len(s) + l] = t[l]
      BY Zenon, <1>5
    <3>2. t[k] = t[l]
      BY Zenon, <2>4, <3>1
    <3>3. k = l
      BY Zenon, <1>7, <3>2
    <3>4. QED
      BY Zenon, <2>4, <3>3
  <2>5. QED
    BY Zenon, <1>6, <2>1, <2>2, <2>3, <2>4
<1>12. ASSUME NEW x PROVE x \in Range(c) <=> x \in S \cup T
  <2>1. ASSUME x \in S PROVE x \in Range(c)
    <3>1. PICK i \in 1..Len(s) : s[i] = x
      BY Zenon, <1>9, <2>1
    <3>2. i \in DOMAIN c /\ c[i] = x
      BY <1>1, <1>4, <1>8, <3>1
    <3>3. QED
      BY Zenon, <3>2 DEF Range
  <2>2. ASSUME x \in T PROVE x \in Range(c)
    <3>1. PICK i \in 1..Len(t) : t[i] = x
      BY Zenon, <1>10, <2>2
    <3>2. Len(s) + i \in DOMAIN c /\ c[Len(s) + i] = x
      BY <1>1, <1>5, <1>8, <3>1
    <3>3. QED
      BY Zenon, <3>2 DEF Range
  <2>3. ASSUME x \in Range(c) PROVE x \in S \cup T
    BY <1>8, <2>3 DEF Range
  <2>4. QED
    BY Zenon, <2>1, <2>2, <2>3
<1>13. Range(c) = S \cup T
  BY Zenon, <1>12
<1>14. QED
  BY Zenon, <1>8, <1>11, <1>13 DEF Enumerates, c

(* The list of one member.                                                 *)
LEMMA EnumeratesOne ==
  ASSUME NEW x
  PROVE  Enumerates(<<x>>, {x})
BY DEF Enumerates, IsInjective, Range

(* The empty list enumerates the empty set, and no other.                  *)
LEMMA EnumeratesNone ==
  ASSUME NEW s
  PROVE  Enumerates(<<>>, {}) /\ \A S : Enumerates(s, S) /\ s = <<>> => S = {}
<1>1. Range(<<>>) = {}
  BY DEF Range
<1>2. Enumerates(<<>>, {})
  BY <1>1 DEF Enumerates, IsInjective
<1>3. QED
  BY Zenon, <1>1, <1>2 DEF Enumerates

(* What Orders makes of a finite set.                                     *)
LEMMA EnumeratesOrders ==
  ASSUME NEW S, IsFiniteSet(S), NEW f \in Orders(S)
  PROVE  Enumerates(f, S)
<1> DEFINE D == 1..Cardinality(S)
<1>1. Cardinality(S) \in Nat
  BY Zenon, FS_CardinalityType
<1>2. f \in [D -> S] /\ \A a, b \in D : f[a] = f[b] => a = b
  BY Zenon DEF Orders, Bijection, Injection, IsInjective
<1>5. f \in Surjection(D, S)
  BY Zenon DEF Orders, Bijection
<1>6. \A x \in S : \E i \in D : f[i] = x
  BY Zenon, <1>5 DEF Surjection
<1>7. f \in Seq(S) /\ DOMAIN f = D
  BY Zenon, <1>1, <1>2, IsListOf
<1>8. Range(f) = S
  BY <1>2, <1>6, <1>7 DEF Range
<1>9. QED
  BY Zenon, <1>2, <1>7, <1>8 DEF Enumerates, IsInjective

(* In a finite set, a transitive relation that leads on from every member of *)
(* A to a member of A has a member of A related to itself: one with the      *)
(* fewest elements after it.                                                 *)
LEMMA SomeLoop ==
  ASSUME NEW D, IsFiniteSet(D), NEW R,
         \A x, y, z \in D : <<x, y>> \in R /\ <<y, z>> \in R => <<x, z>> \in R,
         NEW A, A \subseteq D, A # {}, \A x \in A : \E y \in A : <<x, y>> \in R
  PROVE  \E y \in A : <<y, y>> \in R
<1> DEFINE After(x) == {z \in D : <<x, z>> \in R}
           All == {After(x) : x \in A}
           O   == StrictSubsetOrdering(D)
<1>1. IsWellFoundedOn(O, FiniteSubsetsOf(D)) /\ FiniteSubsetsOf(D) = SUBSET D
  BY Zenon, FS_StrictSubsetOrderingWellFounded, FS_FiniteSubsetsOfFinite
<1>2. All \subseteq SUBSET D /\ All # {}
  <2>1. \A x \in A : After(x) \in SUBSET D
    BY Zenon
  <2> HIDE DEF After
  <2>2. QED
    BY Zenon, <2>1
<1> HIDE DEF O
<1>3. PICK m \in All : \A y \in All : ~(<<y, m>> \in O)
  <2> HIDE DEF All
  <2>1. QED
    BY <1>1, <1>2, WFMin
<1>4. PICK x \in A : m = After(x)
  BY Zenon
<1>5. PICK y \in A : <<x, y>> \in R
  BY Zenon
<1>6. After(y) \subseteq After(x) /\ y \in After(x) /\ After(y) \in All
  BY Zenon, <1>5
<1>7. After(y) = After(x)
  <2>1. ~(<<After(y), After(x)>> \in O)
    BY Zenon, <1>3, <1>4, <1>6
  <2>2. After(y) \in SUBSET D /\ After(x) \in SUBSET D
    BY Zenon
  <2> HIDE DEF After, All
  <2>3. QED
    BY Zenon, <1>6, <2>1, <2>2 DEF O, StrictSubsetOrdering
<1>8. QED
  BY Zenon, <1>6, <1>7

(* The graph of a configuration.                                             *)
Listed(n) == Range(MembersOf(n))
LoopAbove(n) == \E c \in ConfigNodes : OnLoop(c) /\ n \in {c} \cup Reach(c)
LoopBelow(n) == \E c \in ConfigNodes : OnLoop(c) /\ c \in {n} \cup Reach(n)

(* What is listed is in the graph, and only groups list.                   *)
LEMMA ListedAreNodes ==
  ASSUME NEW n
  PROVE  Listed(n) \subseteq ConfigNodes /\ (n \notin GroupNamesOf(raw.groups) => Listed(n) = {})
<1>1. CASE n \in GroupNamesOf(raw.groups)
  <2>1. PICK i \in DOMAIN raw.groups : raw.groups[i].name = n
    BY Zenon, <1>1 DEF GroupNamesOf
  <2> DEFINE k == CHOOSE j \in DOMAIN raw.groups : raw.groups[j].name = n
  <2>2. k \in DOMAIN raw.groups
    BY Zenon, <2>1
  <2>3. MembersOf(n) = raw.groups[k].proxies
    BY Zenon, <1>1 DEF MembersOf, GroupCalled
  <2> HIDE DEF k
  <2>4. QED
    BY <1>1, <2>2, <2>3, Zenon DEF Listed, ConfigNodes
<1>2. CASE n \notin GroupNamesOf(raw.groups)
  <2>1. MembersOf(n) = <<>>
    BY Zenon, <1>2 DEF MembersOf
  <2>2. QED
    BY <1>2, <2>1 DEF Listed, Range
<1>3. QED
  BY Zenon, <1>1, <1>2

(* Reach(n) is within every set that has what n lists and is closed,       *)
LEMMA ReachLeast ==
  ASSUME NEW n, NEW S, S \subseteq ConfigNodes, Listed(n) \subseteq S, \A m \in S : Listed(m) \subseteq S
  PROVE  Reach(n) \subseteq S
BY Zenon DEF Reach, Closed, Listed

(* and is such a set itself.                                               *)
LEMMA ReachClosed ==
  ASSUME NEW n
  PROVE  /\ Reach(n) \subseteq ConfigNodes /\ Listed(n) \subseteq Reach(n)
         /\ \A m \in Reach(n) : Listed(m) \subseteq Reach(n)
<1>1. Reach(n) \subseteq ConfigNodes
  BY Zenon DEF Reach
<1>2. Listed(n) \subseteq Reach(n)
  BY Zenon, ListedAreNodes DEF Reach, Listed
<1>3. ASSUME NEW m \in Reach(n), NEW x \in Listed(m) PROVE x \in Reach(n)
  <2>1. x \in ConfigNodes
    BY Zenon, ListedAreNodes
  <2>2. ASSUME NEW S \in SUBSET ConfigNodes, Range(MembersOf(n)) \subseteq S, Closed(S) PROVE x \in S
    <3>1. m \in S
      BY Zenon, <2>2 DEF Reach
    <3>2. QED
      BY Zenon, <2>2, <3>1 DEF Closed, Listed
  <2>3. QED
    BY Zenon, <2>1, <2>2 DEF Reach
<1>4. QED
  BY Zenon, <1>1, <1>2, <1>3

(* What is reached from a name that is reached is reached.                 *)
LEMMA ReachTransitive ==
  ASSUME NEW n, NEW m \in Reach(n)
  PROVE  Reach(m) \subseteq Reach(n)
BY Zenon, ReachClosed, ReachLeast

(* The last and the first step on the way.                                   *)
LEMMA ReachLast ==
  ASSUME NEW n, NEW m \in Reach(n)
  PROVE  \E p \in {n} \cup Reach(n) : m \in Listed(p)
<1> DEFINE S == {x \in Reach(n) : \E p \in {n} \cup Reach(n) : x \in Listed(p)}
<1>1. S \subseteq ConfigNodes /\ Listed(n) \subseteq S
  BY Zenon, ReachClosed
<1>2. \A x \in S : Listed(x) \subseteq S
  BY Zenon, ReachClosed
<1>3. Reach(n) \subseteq S
  <2> HIDE DEF S
  <2>1. QED
    BY Zenon, <1>1, <1>2, ReachLeast
<1>4. QED
  BY Zenon, <1>3

(* What is reached is listed, or reached from a name that is listed.       *)
LEMMA ReachFirst ==
  ASSUME NEW n, NEW m \in Reach(n)
  PROVE  \E p \in Listed(n) : m \in {p} \cup Reach(p)
<1> DEFINE S == {x \in Reach(n) : \E p \in Listed(n) : x \in {p} \cup Reach(p)}
<1>1. S \subseteq ConfigNodes /\ Listed(n) \subseteq S
  BY Zenon, ReachClosed
<1>2. ASSUME NEW x \in S, NEW y \in Listed(x) PROVE y \in S
  <2>1. PICK p \in Listed(n) : x \in {p} \cup Reach(p)
    BY Zenon
  <2>2. y \in Reach(p) /\ y \in Reach(n)
    BY Zenon, <2>1, ReachClosed
  <2>3. QED
    BY Zenon, <2>1, <2>2
<1>3. Reach(n) \subseteq S
  <2> HIDE DEF S
  <2>1. QED
    BY Zenon, <1>1, <1>2, ReachLeast
<1>4. QED
  BY Zenon, <1>3

(* A finite set in which every name is listed, or lists, a name of the set   *)
(* has a loop above, or below, each of its names.                            *)
LEMMA LoopsAbove ==
  ASSUME NEW D, IsFiniteSet(D), D \subseteq ConfigNodes, \A x \in D : \E p \in D : x \in Listed(p), NEW n \in D
  PROVE  LoopAbove(n)
<1> DEFINE R == {r \in D \X D : r[1] \in Reach(r[2])}
           A == {x \in D : n \in {x} \cup Reach(x)}
<1>1. \A x, y \in D : <<x, y>> \in R <=> x \in Reach(y)
  BY Zenon
<1>2. ASSUME NEW x \in D, NEW y \in D, NEW z \in D, <<x, y>> \in R, <<y, z>> \in R PROVE <<x, z>> \in R
  BY Zenon, <1>1, <1>2, ReachTransitive
<1>3. ASSUME NEW x \in A PROVE \E y \in A : <<x, y>> \in R
  <2>1. PICK p \in D : x \in Listed(p)
    BY Zenon
  <2>2. x \in Reach(p) /\ Reach(x) \subseteq Reach(p)
    BY Zenon, <2>1, ReachClosed, ReachTransitive
  <2>3. p \in A /\ <<x, p>> \in R
    BY Zenon, <1>1, <2>2
  <2>4. QED
    BY Zenon, <2>3
<1>4. A \subseteq D /\ A # {} /\ \A y \in A : y \in D /\ n \in {y} \cup Reach(y)
  BY Zenon
<1> HIDE DEF R, A
<1>5. \E y \in A : <<y, y>> \in R
  BY Zenon, <1>2, <1>3, <1>4, SomeLoop
<1>6. QED
  BY Zenon, <1>1, <1>4, <1>5 DEF LoopAbove, OnLoop

(* The same with the edges turned round.                                   *)
LEMMA LoopsBelow ==
  ASSUME NEW D, IsFiniteSet(D), D \subseteq ConfigNodes, \A x \in D : \E p \in D : p \in Listed(x), NEW n \in D
  PROVE  LoopBelow(n)
<1> DEFINE R == {r \in D \X D : r[2] \in Reach(r[1])}
           A == {x \in D : x \in {n} \cup Reach(n)}
<1>1. \A x, y \in D : <<x, y>> \in R <=> y \in Reach(x)
  BY Zenon
<1>2. ASSUME NEW x \in D, NEW y \in D, NEW z \in D, <<x, y>> \in R, <<y, z>> \in R PROVE <<x, z>> \in R
  BY Zenon, <1>1, <1>2, ReachTransitive
<1>3. ASSUME NEW x \in A PROVE \E y \in A : <<x, y>> \in R
  <2>1. PICK p \in D : p \in Listed(x)
    BY Zenon
  <2>2. p \in Reach(x) /\ p \in Reach(n)
    BY Zenon, <2>1, ReachClosed
  <2>3. p \in A /\ <<x, p>> \in R
    BY Zenon, <1>1, <2>2
  <2>4. QED
    BY Zenon, <2>3
<1>4. A \subseteq D /\ A # {} /\ \A y \in A : y \in D /\ y \in {n} \cup Reach(n)
  BY Zenon
<1> HIDE DEF R, A
<1>5. \E y \in A : <<y, y>> \in R
  BY Zenon, <1>2, <1>3, <1>4, SomeLoop
<1>6. QED
  BY Zenon, <1>1, <1>4, <1>5 DEF LoopBelow, OnLoop

(* The edges into a name, and what the removal of a group takes from them.   *)
LEMMA ConfigIsFinite ==
  ASSUME raw \in RawConfigs
  PROVE  /\ DOMAIN raw.groups = 1..Len(raw.groups) /\ Len(raw.groups) \in Nat /\ IsFiniteSet(DOMAIN raw.groups)
         /\ raw.groups \in Seq(Range(raw.groups))
         /\ \A i \in DOMAIN raw.groups : LET s == raw.groups[i].proxies IN DOMAIN s = 1..Len(s) /\ Len(s) \in Nat /\ s \in Seq(Range(s))
         /\ \A n : LET s == MembersOf(n) IN DOMAIN s = 1..Len(s) /\ Len(s) \in Nat /\ s \in Seq(Range(s))
         /\ IsFiniteSet(ConfigNodes)
         /\ \A n, G : IsFiniteSet(Edges(n, G))
<1>1. IsList(raw.groups) /\ \A i \in DOMAIN raw.groups : IsList(raw.groups[i].proxies)
  BY Zenon, ConfigAssumption
<1>2. \A s : IsList(s) => DOMAIN s = 1..Len(s) /\ Len(s) \in Nat /\ s \in Seq(Range(s))
  BY DEF IsList
<1>3. ASSUME NEW s, IsList(s) PROVE IsFiniteSet(DOMAIN s) /\ IsFiniteSet(Range(s))
  <2>1. DOMAIN s = 1..Len(s) /\ Len(s) \in Nat
    BY Zenon, <1>2, <1>3
  <2>2. IsFiniteSet(DOMAIN s)
    BY <2>1, FS_Interval
  <2>3. s \in Surjection(DOMAIN s, Range(s))
    <3>1. s \in [DOMAIN s -> Range(s)]
      BY Zenon, <1>2, <1>3, ListParts
    <3>2. \A t \in Range(s) : \E i \in DOMAIN s : s[i] = t
      BY Zenon DEF Range
    <3>3. QED
      BY Zenon, <3>1, <3>2 DEF Surjection
  <2>4. QED
    BY Zenon, <2>2, <2>3, FS_Surjection
<1>4. ASSUME NEW n PROVE IsList(MembersOf(n))
  <2>1. IsList(<<>>)
    BY DEF IsList
  <2>2. ASSUME n \in GroupNamesOf(raw.groups) PROVE \E k \in DOMAIN raw.groups : MembersOf(n) = raw.groups[k].proxies
    <3>1. \E i \in DOMAIN raw.groups : raw.groups[i].name = n
      BY Zenon, <2>2 DEF GroupNamesOf
    <3> DEFINE k == CHOOSE i \in DOMAIN raw.groups : raw.groups[i].name = n
    <3>2. k \in DOMAIN raw.groups
      BY Zenon, <3>1
    <3>3. MembersOf(n) = raw.groups[k].proxies
      BY Zenon, <2>2 DEF MembersOf, GroupCalled
    <3> HIDE DEF k
    <3>4. QED
      BY <3>2, <3>3, Zenon
  <2>3. CASE n \in GroupNamesOf(raw.groups)
    BY <1>1, <2>2, <2>3, Zenon
  <2>4. CASE n \notin GroupNamesOf(raw.groups)
    BY Zenon, <2>1, <2>4 DEF MembersOf
  <2>5. QED
    BY Zenon, <2>3, <2>4
<1>5. ASSUME NEW f, IsFiniteSet(DOMAIN f), \A i \in DOMAIN f : IsFiniteSet(f[i]) PROVE IsFiniteSet(UNION {f[i] : i \in DOMAIN f})
  <2> DEFINE T == {f[i] : i \in DOMAIN f}
             g == [i \in DOMAIN f |-> f[i]]
  <2>1. g \in Surjection(DOMAIN f, T)
    BY Zenon DEF Surjection
  <2>2. \A t \in T : IsFiniteSet(t)
    BY Zenon, <1>5
  <2> HIDE DEF g, T
  <2>3. IsFiniteSet(T)
    BY Zenon, <1>5, <2>1, FS_Surjection
  <2>4. IsFiniteSet(UNION T)
    BY Zenon, <2>2, <2>3, FS_UNION
  <2>5. QED
    BY Zenon, <2>4 DEF T
<1>6. IsFiniteSet(GroupNamesOf(raw.groups))
  <2> DEFINE g == [i \in DOMAIN raw.groups |-> raw.groups[i].name]
  <2>1. g \in Surjection(DOMAIN raw.groups, GroupNamesOf(raw.groups))
    BY Zenon DEF Surjection, GroupNamesOf
  <2> HIDE DEF g
  <2>2. QED
    BY Zenon, <1>1, <1>3, <2>1, FS_Surjection
<1>7. IsFiniteSet(ConfigNodes)
  <2> DEFINE f == [i \in DOMAIN raw.groups |-> Range(raw.groups[i].proxies)]
  <2>1. DOMAIN f = DOMAIN raw.groups /\ \A i \in DOMAIN f : IsFiniteSet(f[i])
    BY Zenon, <1>1, <1>3
  <2>2. UNION {f[i] : i \in DOMAIN f} = UNION {Range(raw.groups[i].proxies) : i \in DOMAIN raw.groups}
    BY Zenon, <2>1
  <2> HIDE DEF f
  <2>3. IsFiniteSet(UNION {f[i] : i \in DOMAIN f})
    BY Zenon, <1>1, <1>3, <1>5, <2>1
  <2>4. QED
    BY Zenon, <1>6, <2>2, <2>3, FS_Union DEF ConfigNodes
<1>8. ASSUME NEW n, NEW G PROVE IsFiniteSet(Edges(n, G))
  <2> DEFINE f == [i \in DOMAIN raw.groups |-> {i} \X DOMAIN raw.groups[i].proxies]
             U == UNION {f[i] : i \in DOMAIN f}
  <2>1. ASSUME NEW i \in DOMAIN raw.groups PROVE IsFiniteSet({i} \X DOMAIN raw.groups[i].proxies)
    <3>1. IsFiniteSet({i}) /\ IsFiniteSet(DOMAIN raw.groups[i].proxies)
      BY Zenon, <1>1, <1>3, FS_Singleton
    <3>2. QED
      BY Zenon, <3>1, FS_Product
  <2>2. DOMAIN f = DOMAIN raw.groups /\ \A i \in DOMAIN f : IsFiniteSet(f[i])
    BY Zenon, <2>1
  <2>3. Edges(n, G) \subseteq U
    BY Zenon, <2>2 DEF Edges
  <2> HIDE DEF f
  <2>4. IsFiniteSet(U)
    BY Zenon, <1>1, <1>3, <1>5, <2>2
  <2> HIDE DEF U
  <2>5. QED
    BY Zenon, <2>3, <2>4, FS_Subset
<1>9. QED
  BY Zenon, <1>1, <1>2, <1>3, <1>4, <1>7, <1>8

NamedOnce == \A i, j \in DOMAIN raw.groups : raw.groups[i].name = raw.groups[j].name => i = j

(* A group is found by its name.                                           *)
LEMMA GroupFound ==
  ASSUME NamedOnce, NEW i \in DOMAIN raw.groups
  PROVE  /\ GroupCalled(raw.groups[i].name) = raw.groups[i]
         /\ MembersOf(raw.groups[i].name) = raw.groups[i].proxies
<1> DEFINE n == raw.groups[i].name
           k == CHOOSE j \in DOMAIN raw.groups : raw.groups[j].name = n
<1>1. k \in DOMAIN raw.groups /\ raw.groups[k].name = n
  BY Zenon
<1>2. GroupCalled(n) = raw.groups[k]
  BY Zenon DEF GroupCalled
<1>3. n \in GroupNamesOf(raw.groups)
  BY Zenon DEF GroupNamesOf
<1>4. MembersOf(n) = GroupCalled(n).proxies
  BY Zenon, <1>3 DEF MembersOf
<1> HIDE DEF k
<1>5. k = i
  BY <1>1, Zenon DEF NamedOnce
<1>6. QED
  BY <1>2, <1>4, <1>5, Zenon

(* Removing n from the graph takes from m an edge for each place where n   *)
(* lists it.                                                               *)
LEMMA EdgesShrink ==
  ASSUME raw \in RawConfigs, NamedOnce, NEW m, NEW n, NEW G, n \in G
  PROVE  /\ Cardinality(Edges(m, G)) \in Nat /\ Edges(m, G \ {n}) \subseteq Edges(m, G)
         /\ Occurrences(m, MembersOf(n)) \in Nat
         /\ Cardinality(Edges(m, G \ {n})) = Cardinality(Edges(m, G)) - Occurrences(m, MembersOf(n))
         /\ Occurrences(m, MembersOf(n)) = 0 <=> m \notin Listed(n)
<1> DEFINE s == MembersOf(n)
           P == {j \in DOMAIN s : s[j] = m}
           X == Edges(m, G) \ Edges(m, G \ {n})
<1>1. IsFiniteSet(Edges(m, G)) /\ IsFiniteSet(Edges(m, G \ {n})) /\ IsFiniteSet(DOMAIN s)
  <2>1. DOMAIN s = 1..Len(s) /\ Len(s) \in Nat
    BY Zenon, ConfigIsFinite
  <2>2. IsFiniteSet(1..Len(s))
    BY <2>1, FS_Interval
  <2>3. QED
    BY Zenon, <2>1, <2>2, ConfigIsFinite
<1>2. IsFiniteSet(P) /\ Cardinality(P) \in Nat /\ Occurrences(m, s) = Cardinality(P)
  BY Zenon, <1>1, FS_Subset, FS_CardinalityType DEF Occurrences
<1>3. (Cardinality(P) = 0 <=> P = {}) /\ (P = {} <=> m \notin Listed(n))
  BY Zenon, <1>2, FS_EmptySet DEF Listed, Range
<1>4. Edges(m, G \ {n}) \subseteq Edges(m, G)
  BY Zenon DEF Edges
<1>5. IsFiniteSet(X) /\ Cardinality(Edges(m, G \ {n})) = Cardinality(Edges(m, G)) - Cardinality(X)
  <2>1. Edges(m, G \ {n}) = Edges(m, G) \ X /\ Edges(m, G) \cap X = X
    BY Zenon, <1>4
  <2>2. IsFiniteSet(X)
    BY Zenon, <1>1, FS_Difference
  <2> HIDE DEF X
  <2>3. QED
    BY Zenon, <1>1, <2>1, <2>2, FS_Difference
<1>6. Cardinality(X) = Cardinality(P)
  <2>1. CASE n \notin GroupNamesOf(raw.groups)
    <3>1. X = {}
      BY <2>1 DEF Edges, GroupNamesOf
    <3>2. P = {}
      BY Zenon, <1>3, <2>1, ListedAreNodes
    <3>3. QED
      BY Zenon, <3>1, <3>2
  <2>2. ASSUME NEW i \in DOMAIN raw.groups, raw.groups[i].name = n PROVE Cardinality(X) = Cardinality(P)
    <3>1. s = raw.groups[i].proxies
      BY Zenon, <2>2, GroupFound
    <3>2. \A j \in DOMAIN raw.groups : raw.groups[j].name = n <=> j = i
      BY Zenon, <2>2 DEF NamedOnce
    <3>3. X = {i} \X P
      BY <2>2, <3>1, <3>2 DEF Edges
    <3> HIDE DEF P, X
    <3>4. IsFiniteSet({i}) /\ Cardinality({i}) = 1
      BY Zenon, FS_Singleton
    <3>5. Cardinality({i} \X P) = 1 * Cardinality(P)
      BY Zenon, <1>2, <3>4, FS_Product
    <3>6. QED
      BY <1>2, <3>3, <3>5
  <2>3. QED
    BY Zenon, <2>1, <2>2 DEF GroupNamesOf
<1>7. Cardinality(Edges(m, G)) \in Nat
  BY Zenon, <1>1, FS_CardinalityType
<1>8. QED
  BY Zenon, <1>2, <1>3, <1>4, <1>5, <1>6, <1>7

(* Edges into m there are exactly when a group of G lists it.                *)
LEMMA EdgesAre ==
  ASSUME raw \in RawConfigs, NamedOnce, NEW m, NEW G
  PROVE  /\ Edges(m, G) = {} <=> \A n \in G : m \notin Listed(n)
         /\ Cardinality(Edges(m, G)) = 0 <=> Edges(m, G) = {}
<1>1. ASSUME NEW i \in DOMAIN raw.groups, NEW j \in DOMAIN raw.groups[i].proxies, raw.groups[i].name \in G, raw.groups[i].proxies[j] = m
      PROVE  <<i, j>> \in Edges(m, G) /\ m \in Listed(raw.groups[i].name)
  <2>1. MembersOf(raw.groups[i].name) = raw.groups[i].proxies
    BY Zenon, GroupFound
  <2>2. m \in Listed(raw.groups[i].name)
    BY Zenon, <1>1, <2>1 DEF Listed, Range
  <2>3. QED
    BY <1>1, <2>2 DEF Edges
<1>2. ASSUME NEW n \in G, m \in Listed(n) PROVE Edges(m, G) # {}
  <2>1. n \in GroupNamesOf(raw.groups)
    BY Zenon, <1>2, ListedAreNodes
  <2>2. PICK i \in DOMAIN raw.groups : raw.groups[i].name = n
    BY Zenon, <2>1 DEF GroupNamesOf
  <2>3. MembersOf(n) = raw.groups[i].proxies
    BY Zenon, <2>2, GroupFound
  <2>4. PICK j \in DOMAIN raw.groups[i].proxies : raw.groups[i].proxies[j] = m
    BY Zenon, <1>2, <2>3 DEF Listed, Range
  <2>5. QED
    BY Zenon, <1>1, <2>2, <2>4
<1>3. ASSUME NEW e \in Edges(m, G) PROVE \E n \in G : m \in Listed(n)
  <2>1. PICK i \in DOMAIN raw.groups : \E j \in DOMAIN raw.groups[i].proxies : raw.groups[i].name \in G /\ raw.groups[i].proxies[j] = m
    BY DEF Edges
  <2>2. QED
    BY Zenon, <1>1, <2>1
<1>4. IsFiniteSet(Edges(m, G))
  BY Zenon, ConfigIsFinite
<1>5. QED
  BY Zenon, <1>2, <1>3, <1>4, FS_EmptySet

(* proxyGroupsDagSort, first loop: with G left in the graph, the degrees     *)
(* count the edges from G, no edge leads out of G, the queue has what is     *)
(* free of edges, and what has left G is sorted; what a loop leads to never  *)
(* leaves.                                                                   *)
GroupsOutside(G) == {raw.groups[i] : i \in {j \in DOMAIN raw.groups : raw.groups[j].name \notin G}}
ListersLast(so)  == \A i, j \in DOMAIN so : so[j].name \in Range(so[i].proxies) => j < i
Free(G)          == {m \in G : Edges(m, G) = {}}
Sorting(G, d, q, so) ==
  /\ G \subseteq ConfigNodes /\ DOMAIN d = ConfigNodes
  /\ \A m \in ConfigNodes : d[m] = Cardinality(Edges(m, G))
  /\ \A m \in ConfigNodes \ G : Edges(m, G) = {}
  /\ Enumerates(q, Free(G))
  /\ Enumerates(so, GroupsOutside(G)) /\ ListersLast(so)
  /\ \A n \in ConfigNodes : LoopAbove(n) => n \in G

(* A name that is in a list has a last place there.                        *)
LEMMA LastPlace ==
  ASSUME NEW s, IsFiniteSet(DOMAIN s), DOMAIN s \subseteq Nat, NEW m \in Range(s)
  PROVE  \E i \in DOMAIN s : s[i] = m /\ \A j \in DOMAIN s : s[j] = m => j <= i
<1> DEFINE A == {i \in DOMAIN s : s[i] = m}
           R == {r \in Nat \X Nat : r[1] < r[2]}
<1>1. \A x, y \in Nat : <<x, y>> \in R <=> x < y
  BY Zenon
<1>2. A # {} /\ A \subseteq DOMAIN s
  BY Zenon DEF Range
<1>3. \A x, y, z \in DOMAIN s : <<x, y>> \in R /\ <<y, z>> \in R => <<x, z>> \in R
  BY <1>1
<1>4. SUFFICES ASSUME \A i \in A : \E j \in A : ~(j <= i) PROVE FALSE
  BY Zenon
<1>5. \A i \in A : \E j \in A : <<i, j>> \in R
  BY <1>1, <1>4
<1> HIDE DEF A, R
<1>6. \E j \in A : <<j, j>> \in R
  BY Zenon, <1>2, <1>3, <1>5, SomeLoop
<1>7. QED
  BY <1>1, <1>2, <1>6

(* The last edge into m goes with n exactly when the indegree of m is the  *)
(* number of places where n lists it.                                      *)
LEMMA EdgesGone ==
  ASSUME raw \in RawConfigs, NamedOnce, NEW m, NEW n, NEW G, n \in G
  PROVE  /\ Edges(m, G \ {n}) = {} <=> Cardinality(Edges(m, G)) = Occurrences(m, MembersOf(n))
         /\ Edges(m, G \ {n}) \subseteq Edges(m, G)
         /\ Edges(m, G \ {n}) # Edges(m, G) => m \in Listed(n)
<1> DEFINE c == Cardinality(Edges(m, G))
           b == Cardinality(Edges(m, G \ {n}))
           o == Occurrences(m, MembersOf(n))
<1>1. /\ c \in Nat /\ o \in Nat /\ b = c - o /\ (o = 0 <=> m \notin Listed(n))
      /\ Edges(m, G \ {n}) \subseteq Edges(m, G)
  BY Zenon, EdgesShrink
<1>2. b = 0 <=> Edges(m, G \ {n}) = {}
  BY Zenon, EdgesAre
<1>3. ASSUME c = b PROVE Edges(m, G \ {n}) = Edges(m, G)
  <2>1. IsFiniteSet(Edges(m, G))
    BY Zenon, ConfigIsFinite
  <2>2. QED
    BY Zenon, <1>1, <1>3, <2>1, FS_Subset
<1> HIDE DEF b, c, o
<1>4. (b = 0 <=> c = o) /\ (o = 0 => c = b)
  BY <1>1
<1>5. Edges(m, G \ {n}) = {} <=> c = o
  BY Zenon, <1>2, <1>4
<1>6. QED
  BY <1>1, <1>3, <1>4, <1>5, Zenon DEF c, o

(* What a step of the loop computes from a group's members s.                *)
LastEdges(s, d) == {i \in DOMAIN s : d[s[i]] = Occurrences(s[i], s) /\ \A j \in DOMAIN s : s[j] = s[i] => j <= i}
Lowered(d, s)   == [m \in DOMAIN d |-> d[m] - Occurrences(m, s)]
Named(f, s)     == [k \in DOMAIN f |-> s[f[k]]]
Placed(n, so)   == IF n \in GroupNamesOf(raw.groups) THEN <<GroupCalled(n)>> \o so ELSE so

(* A turn of the first loop leaves in the queue the names nothing in the   *)
(* graph lists.                                                            *)
LEMMA SortQueue ==
  ASSUME raw \in RawConfigs, NamedOnce, NEW G, NEW d, NEW q, NEW so, Sorting(G, d, q, so), q # <<>>,
         NEW n, n = Head(q), NEW s, s = MembersOf(n),
         NEW f \in Orders(LastEdges(s, d))
  PROVE  Enumerates(Tail(q) \o Named(f, s), Free(G \ {n}))
<1> USE DEF Named, LastEdges
<1> DEFINE t == Named(f, s)
           F == LastEdges(s, d)
           T == {s[i] : i \in F}
<1>1. DOMAIN s = 1..Len(s) /\ Len(s) \in Nat
  BY Zenon, ConfigIsFinite
<1>2. IsFiniteSet(DOMAIN s)
  BY <1>1, FS_Interval
<1>3. IsFiniteSet(F) /\ F \subseteq DOMAIN s
  BY Zenon, <1>2, FS_Subset
<1>4. Enumerates(f, F)
  BY Zenon, <1>3, EnumeratesOrders
<1>5. Enumerates(t, T)
  <2>1. f \in Seq(F) /\ DOMAIN f = 1..Len(f) /\ Len(f) \in Nat /\ \A k \in DOMAIN f : f[k] \in F
    BY <1>4 DEF Enumerates
  <2>2. \A i, j \in F : s[i] = s[j] => i = j
    <3> SUFFICES ASSUME NEW i \in F, NEW j \in F, s[i] = s[j] PROVE i = j
      BY Zenon
    <3>1. i \in Nat /\ j \in Nat /\ i <= j /\ j <= i
      BY <1>1
    <3>2. QED
      BY <3>1
  <2>3. \A k \in DOMAIN f : t[k] = s[f[k]] /\ t[k] \in T
    BY Zenon, <2>1
  <2>4. DOMAIN t = 1..Len(f) /\ t \in [1..Len(f) -> T]
    BY Zenon, <2>1, <2>3
  <2>5. t \in Seq(T) /\ DOMAIN t = DOMAIN f
    BY Zenon, <2>1, <2>4, IsListOf
  <2>6. \A k, l \in DOMAIN f : f[k] = f[l] => k = l
    BY Zenon, <1>4 DEF Enumerates, IsInjective
  <2>7. IsInjective(t)
    BY <2>1, <2>2, <2>3, <2>5, <2>6 DEF IsInjective
  <2>8. \A i \in F : \E k \in DOMAIN f : f[k] = i
    BY Zenon, <1>4 DEF Enumerates, Range
  <2>9. Range(t) = T
    BY <2>1, <2>3, <2>5, <2>8 DEF Range
  <2>10. QED
    BY Zenon, <2>5, <2>7, <2>9 DEF Enumerates
<1>6. n \in Free(G) /\ Enumerates(Tail(q), Free(G) \ {n})
  BY Zenon, EnumeratesTail DEF Sorting
<1>7. n \in G /\ Edges(n, G) = {} /\ G \subseteq ConfigNodes
  BY Zenon, <1>6 DEF Free, Sorting
<1>8. ASSUME NEW m
      PROVE  /\ Edges(m, G \ {n}) = {} <=> Cardinality(Edges(m, G)) = Occurrences(m, s)
             /\ Edges(m, G \ {n}) \subseteq Edges(m, G) /\ (Edges(m, G \ {n}) # Edges(m, G) => m \in Range(s))
  BY SMTT(40), <1>7, EdgesGone DEF Listed
<1>9. ASSUME NEW i \in F PROVE s[i] \in G /\ s[i] # n /\ Edges(s[i], G) # {} /\ Edges(s[i], G \ {n}) = {}
  <2>1. s[i] \in Listed(n) /\ s[i] \in ConfigNodes
    BY Zenon, ListedAreNodes DEF Listed, Range
  <2>2. Edges(s[i], G) # {}
    BY Zenon, <1>7, <2>1, EdgesAre
  <2>3. d[s[i]] = Cardinality(Edges(s[i], G)) /\ d[s[i]] = Occurrences(s[i], s)
    BY Zenon, <2>1 DEF Sorting
  <2>4. Edges(s[i], G \ {n}) = {}
    BY <1>8, <2>3, Zenon
  <2>5. s[i] \in G
    BY Zenon, <2>1, <2>2 DEF Sorting
  <2>6. QED
    BY Zenon, <1>7, <2>2, <2>4, <2>5
<1>10. ASSUME NEW m \in G, m # n, Edges(m, G \ {n}) = {}, Edges(m, G) # {} PROVE m \in T
  <2>1. Occurrences(m, s) = Cardinality(Edges(m, G)) /\ m \in Range(s)
    BY <1>8, <1>10, Zenon
  <2>2. d[m] = Cardinality(Edges(m, G))
    BY Zenon, <1>7 DEF Sorting
  <2>3. PICK i \in DOMAIN s : s[i] = m /\ \A j \in DOMAIN s : s[j] = m => j <= i
    BY <1>1, <1>2, <2>1, LastPlace
  <2>4. i \in F
    BY Zenon, <2>1, <2>2, <2>3
  <2>5. QED
    BY Zenon, <2>3, <2>4
<1>11. ASSUME NEW m \in Free(G), m # n PROVE m \in Free(G \ {n}) /\ m \notin T
  BY <1>8, <1>9, <1>11 DEF Free
<1>12. Free(G \ {n}) = (Free(G) \ {n}) \cup T /\ (Free(G) \ {n}) \cap T = {}
  <2>1. \A m \in T : m \in Free(G \ {n})
    BY Zenon, <1>9 DEF Free
  <2>2. \A m \in Free(G \ {n}) : m \in (Free(G) \ {n}) \cup T
    BY Zenon, <1>10 DEF Free
  <2> HIDE DEF T
  <2>3. QED
    BY Zenon, <1>11, <2>1, <2>2
<1> HIDE DEF t, T
<1>13. Enumerates(Tail(q) \o t, (Free(G) \ {n}) \cup T)
  BY <1>5, <1>6, <1>12, EnumeratesConcat, Zenon
<1>14. QED
  BY Zenon, <1>12, <1>13 DEF t

(* A group that nothing left in the graph lists may be placed in front of  *)
(* those placed earlier.                                                   *)
LEMMA SortList ==
  ASSUME raw \in RawConfigs, NamedOnce, NEW G, NEW d, NEW q, NEW so, Sorting(G, d, q, so), NEW n \in Free(G),
         NEW new, new = IF n \in GroupNamesOf(raw.groups) THEN <<GroupCalled(n)>> \o so ELSE so
  PROVE  Enumerates(new, GroupsOutside(G \ {n})) /\ ListersLast(new)
<1>1. n \in G /\ Edges(n, G) = {} /\ Enumerates(so, GroupsOutside(G)) /\ ListersLast(so)
  BY Zenon DEF Free, Sorting
<1>2. CASE n \notin GroupNamesOf(raw.groups)
  <2>1. GroupsOutside(G \ {n}) = GroupsOutside(G)
    BY Zenon, <1>2 DEF GroupsOutside, GroupNamesOf
  <2>2. QED
    BY Zenon, <1>1, <1>2, <2>1
<1>3. ASSUME NEW i \in DOMAIN raw.groups, raw.groups[i].name = n PROVE Enumerates(new, GroupsOutside(G \ {n})) /\ ListersLast(new)
  <2> DEFINE g == raw.groups[i]
  <2>1. GroupCalled(n) = g /\ Listed(n) = Range(g.proxies) /\ n \in GroupNamesOf(raw.groups)
    BY Zenon, <1>3, GroupFound DEF Listed, GroupNamesOf
  <2>2. \A j \in DOMAIN raw.groups : raw.groups[j].name = n <=> j = i
    BY Zenon, <1>3 DEF NamedOnce
  <2>3. GroupsOutside(G \ {n}) = {g} \cup GroupsOutside(G)
    BY Zenon, <1>1, <2>2 DEF GroupsOutside
  <2>4. {g} \cap GroupsOutside(G) = {}
    <3>1. ASSUME g \in GroupsOutside(G) PROVE FALSE
      <4>1. PICK j \in DOMAIN raw.groups : raw.groups[j].name \notin G /\ g = raw.groups[j]
        BY <3>1, Zenon DEF GroupsOutside
      <4>2. raw.groups[j].name = n
        BY <1>3, <4>1, Zenon
      <4>3. QED
        BY Zenon, <1>1, <4>1, <4>2
    <3>2. QED
      BY Zenon, <3>1
  <2>5. new = <<g>> \o so
    BY Zenon, <2>1
  <2> HIDE DEF g
  <2>6. Enumerates(new, GroupsOutside(G \ {n}))
    <3>1. Enumerates(<<g>>, {g})
      BY Zenon, EnumeratesOne
    <3>2. Enumerates(<<g>> \o so, {g} \cup GroupsOutside(G))
      BY <1>1, <2>4, <3>1, EnumeratesConcat, Zenon
    <3>3. QED
      BY Zenon, <2>3, <2>5, <3>2
  <2>7. /\ DOMAIN so = 1..Len(so) /\ Len(so) \in Nat /\ DOMAIN new = 1..Len(so) + 1
        /\ new[1] = g /\ \A k \in 2..Len(so) + 1 : new[k] = so[k - 1]
    BY <1>1, <2>5 DEF Enumerates
  <2>8. ASSUME NEW k \in DOMAIN new, NEW l \in DOMAIN new, new[l].name \in Range(new[k].proxies) PROVE l < k
    <3>1. CASE k = 1 /\ l = 1
      <4>1. n \in Listed(n)
        BY <1>3, <2>1, <2>7, <2>8, <3>1, Zenon DEF g
      <4>2. QED
        BY Zenon, <1>1, <4>1, EdgesAre
    <3>2. CASE k = 1 /\ l # 1
      <4>1. l - 1 \in DOMAIN so /\ new[l] = so[l - 1]
        BY <2>7, <3>2
      <4>2. so[l - 1] \in GroupsOutside(G)
        BY Zenon, <1>1, <4>1 DEF Enumerates, Range
      <4>3. PICK j \in DOMAIN raw.groups : raw.groups[j].name \notin G /\ so[l - 1] = raw.groups[j]
        BY <4>2, Zenon DEF GroupsOutside
      <4>4. raw.groups[j].name \in Listed(n)
        BY <2>1, <2>7, <2>8, <3>2, <4>1, <4>3, Zenon
      <4>5. raw.groups[j].name \in ConfigNodes \ G
        BY Zenon, <4>3, <4>4, ListedAreNodes
      <4>6. QED
        BY Zenon, <1>1, <4>4, <4>5, EdgesAre DEF Sorting
    <3>3. CASE k # 1 /\ l = 1
      BY <2>7, <3>3
    <3>4. CASE k # 1 /\ l # 1
      <4>1. k - 1 \in DOMAIN so /\ l - 1 \in DOMAIN so /\ new[k] = so[k - 1] /\ new[l] = so[l - 1]
        BY <2>7, <3>4
      <4>2. so[l - 1].name \in Range(so[k - 1].proxies)
        BY <2>8, <4>1, Zenon
      <4>3. l - 1 < k - 1
        BY Zenon, <1>1, <4>1, <4>2 DEF ListersLast
      <4>4. QED
        BY <2>7, <4>3
    <3>5. QED
      BY Zenon, <3>1, <3>2, <3>3, <3>4
  <2>9. QED
    BY Zenon, <2>6, <2>8 DEF ListersLast
<1>4. QED
  BY Zenon, <1>2, <1>3 DEF GroupNamesOf

(* Step 1.1 establishes what the first loop keeps.                         *)
LEMMA SortStarts ==
  ASSUME raw \in RawConfigs, NamedOnce, NEW d, d = [n \in ConfigNodes |-> Cardinality(Edges(n, ConfigNodes))],
         NEW q \in Orders({n \in ConfigNodes : d[n] = 0})
  PROVE  Sorting(ConfigNodes, d, q, <<>>)
<1>1. \A n \in ConfigNodes : d[n] = Cardinality(Edges(n, ConfigNodes)) /\ (d[n] = 0 <=> Edges(n, ConfigNodes) = {})
  BY Zenon, EdgesAre
<1>2. {n \in ConfigNodes : d[n] = 0} = Free(ConfigNodes)
  BY Zenon, <1>1 DEF Free
<1>3. IsFiniteSet(Free(ConfigNodes))
  <2>1. IsFiniteSet(ConfigNodes)
    BY Zenon, ConfigIsFinite
  <2>2. QED
    BY Zenon, <2>1, FS_Subset DEF Free
<1>4. Enumerates(q, Free(ConfigNodes))
  BY Zenon, <1>2, <1>3, EnumeratesOrders
<1>5. GroupsOutside(ConfigNodes) = {}
  BY Zenon DEF GroupsOutside, ConfigNodes, GroupNamesOf
<1>6. Enumerates(<<>>, GroupsOutside(ConfigNodes)) /\ ListersLast(<<>>)
  BY <1>5, EnumeratesNone DEF ListersLast
<1>7. QED
  BY Zenon, <1>1, <1>4, <1>6 DEF Sorting

(* A turn of the first loop keeps it.                                      *)
LEMMA SortGoesOn ==
  ASSUME raw \in RawConfigs, NamedOnce, NEW G, NEW d, NEW q, NEW so, Sorting(G, d, q, so), q # <<>>,
         NEW n, n = Head(q), NEW s, s = MembersOf(n),
         NEW f \in Orders(LastEdges(s, d))
  PROVE  Sorting(G \ {n}, Lowered(d, s), Tail(q) \o Named(f, s), Placed(n, so))
<1> DEFINE e   == Lowered(d, s)
           new == Placed(n, so)
           r   == Tail(q) \o Named(f, s)
<1>1. n \in Free(G) /\ n \in G /\ Edges(n, G) = {} /\ G \subseteq ConfigNodes
  <2>1. n \in Free(G)
    BY Zenon, EnumeratesTail DEF Sorting
  <2>2. QED
    BY Zenon, <2>1 DEF Sorting, Free
<1>2. Enumerates(r, Free(G \ {n}))
  BY Zenon, SortQueue
<1>3. Enumerates(new, GroupsOutside(G \ {n})) /\ ListersLast(new)
  BY Zenon, <1>1, SortList DEF Placed
<1>4. DOMAIN e = ConfigNodes /\ \A m \in ConfigNodes : e[m] = Cardinality(Edges(m, G \ {n}))
  <2>1. DOMAIN d = ConfigNodes /\ \A m \in ConfigNodes : d[m] = Cardinality(Edges(m, G))
    BY Zenon DEF Sorting
  <2>2. \A m : Cardinality(Edges(m, G \ {n})) = Cardinality(Edges(m, G)) - Occurrences(m, s)
    BY <1>1, EdgesShrink
  <2>3. QED
    BY Zenon, <2>1, <2>2 DEF Lowered
<1>5. \A m \in ConfigNodes \ (G \ {n}) : Edges(m, G \ {n}) = {}
  <2>1. \A m : Edges(m, G \ {n}) \subseteq Edges(m, G)
    BY Zenon, <1>1, EdgesGone
  <2>2. \A m \in ConfigNodes \ G : Edges(m, G) = {}
    BY Zenon DEF Sorting
  <2>3. QED
    BY Zenon, <1>1, <2>1, <2>2
<1>6. ~LoopAbove(n)
  <2> SUFFICES ASSUME NEW c \in ConfigNodes, OnLoop(c), n \in {c} \cup Reach(c) PROVE FALSE
    BY Zenon DEF LoopAbove
  <2>1. n \in Reach(c)
    BY Zenon DEF OnLoop
  <2>2. PICK p \in {c} \cup Reach(c) : n \in Listed(p)
    BY Zenon, <2>1, ReachLast
  <2>3. p \in ConfigNodes /\ LoopAbove(p)
    BY Zenon, <2>2, ReachClosed DEF LoopAbove
  <2>4. p \in G
    BY Zenon, <2>3 DEF Sorting
  <2>5. QED
    BY Zenon, <1>1, <2>2, <2>4, EdgesAre
<1>7. \A m \in ConfigNodes : LoopAbove(m) => m \in G \ {n}
  BY Zenon, <1>6 DEF Sorting
<1> HIDE DEF e, r, new
<1>8. Sorting(G \ {n}, e, r, new)
  BY Zenon, <1>1, <1>2, <1>3, <1>4, <1>5, <1>7 DEF Sorting
<1>9. QED
  BY Zenon, <1>8 DEF e, r, new

(* Its end: everything is sorted, or what is left is closed, without a name  *)
(* that nothing lists.                                                       *)
LEMMA SortEnds ==
  ASSUME raw \in RawConfigs, NamedOnce, NEW G, NEW d, NEW so, Sorting(G, d, <<>>, so)
  PROVE  /\ G = {} => Enumerates(so, Range(raw.groups)) /\ ListersLast(so)
         /\ \A n \in G : Listed(n) \subseteq G /\ \E p \in G : n \in Listed(p)
<1>1. Free(G) = {}
  BY Zenon, EnumeratesNone DEF Sorting
<1>2. ASSUME G = {} PROVE Enumerates(so, Range(raw.groups)) /\ ListersLast(so)
  <2>1. GroupsOutside(G) = Range(raw.groups)
    BY Zenon, <1>2 DEF GroupsOutside, Range
  <2>2. QED
    BY Zenon, <2>1 DEF Sorting
<1>3. ASSUME NEW n \in G PROVE \E p \in G : n \in Listed(p)
  <2>1. Edges(n, G) # {}
    BY Zenon, <1>1 DEF Free
  <2>2. QED
    BY Zenon, <2>1, EdgesAre
<1>4. ASSUME NEW n \in G, NEW m \in Listed(n) PROVE m \in G
  <2>1. m \in ConfigNodes /\ Edges(m, G) # {}
    BY Zenon, ListedAreNodes, EdgesAre
  <2>2. QED
    BY Zenon, <2>1 DEF Sorting
<1>5. QED
  BY Zenon, <1>2, <1>3, <1>4

(* The second loop, over the names D left by the first: the degrees count    *)
(* the places where a name lists one of G, and what lies between two loops   *)
(* never leaves.                                                             *)
Left(f, G) == {j \in DOMAIN MembersOf(f) : MembersOf(f)[j] \in G}
Ends(G)    == {f \in G : Left(f, G) = {}}
Between    == {n \in ConfigNodes : LoopAbove(n) /\ LoopBelow(n)}
Locating(G, d, q) ==
  /\ G \subseteq DOMAIN d /\ DOMAIN d \subseteq ConfigNodes /\ DOMAIN d # {}
  /\ \A n \in DOMAIN d : Listed(n) \subseteq DOMAIN d /\ \E p \in DOMAIN d : n \in Listed(p)
  /\ \A f \in DOMAIN d : d[f] = Cardinality(Left(f, G))
  /\ \A f \in DOMAIN d \ G : Left(f, G) = {}
  /\ Enumerates(q, Ends(G))
  /\ Between \subseteq G

(* The outdegree of f within G is 0 exactly when f lists nothing of G.     *)
LEMMA LeftIs ==
  ASSUME raw \in RawConfigs, NEW f, NEW G
  PROVE  /\ IsFiniteSet(Left(f, G)) /\ Cardinality(Left(f, G)) \in Nat
         /\ Cardinality(Left(f, G)) = 0 <=> Left(f, G) = {}
         /\ Left(f, G) = {} <=> \A m \in Listed(f) : m \notin G
<1>1. DOMAIN MembersOf(f) = 1..Len(MembersOf(f)) /\ Len(MembersOf(f)) \in Nat
  BY Zenon, ConfigIsFinite
<1>2. IsFiniteSet(DOMAIN MembersOf(f))
  BY <1>1, FS_Interval
<1>3. IsFiniteSet(Left(f, G))
  BY Zenon, <1>2, FS_Subset DEF Left
<1>4. Cardinality(Left(f, G)) \in Nat /\ (Cardinality(Left(f, G)) = 0 <=> Left(f, G) = {})
  BY Zenon, <1>3, FS_CardinalityType, FS_EmptySet
<1>5. Left(f, G) = {} <=> \A m \in Listed(f) : m \notin G
  BY Zenon DEF Left, Listed, Range
<1>6. QED
  BY Zenon, <1>3, <1>4, <1>5

(* Removing n from G takes from f a place for each place where f lists n.  *)
LEMMA LeftGone ==
  ASSUME raw \in RawConfigs, NEW f, NEW G, NEW n \in G
  PROVE  /\ Cardinality(Left(f, G \ {n})) = Cardinality(Left(f, G)) - Occurrences(n, MembersOf(f))
         /\ Left(f, G \ {n}) \subseteq Left(f, G)
         /\ Left(f, G \ {n}) = {} <=> Cardinality(Left(f, G)) = Occurrences(n, MembersOf(f))
         /\ n \notin Listed(f) => Left(f, G \ {n}) = Left(f, G)
<1> DEFINE P == {j \in DOMAIN MembersOf(f) : MembersOf(f)[j] = n}
           c == Cardinality(Left(f, G))
           b == Cardinality(Left(f, G \ {n}))
           o == Cardinality(P)
<1>1. IsFiniteSet(Left(f, G)) /\ c \in Nat /\ b \in Nat /\ (b = 0 <=> Left(f, G \ {n}) = {})
  BY Zenon, LeftIs
<1>2. Left(f, G \ {n}) = Left(f, G) \ P /\ P \subseteq Left(f, G) /\ Left(f, G) \cap P = P
  BY Zenon DEF Left
<1>3. IsFiniteSet(P) /\ o \in Nat
  <2> HIDE DEF P
  <2>1. QED
    BY Zenon, <1>1, <1>2, FS_Subset, FS_CardinalityType DEF o
<1>4. b = c - o
  <2> HIDE DEF P
  <2>1. QED
    BY Zenon, <1>1, <1>2, FS_Difference
<1>5. Occurrences(n, MembersOf(f)) = o
  BY Zenon DEF Occurrences
<1>6. n \notin Listed(f) => P = {}
  BY Zenon DEF Listed, Range
<1> HIDE DEF P, c, b, o
<1>7. b = 0 <=> c = o
  BY <1>1, <1>3, <1>4
<1>8. Left(f, G \ {n}) = {} <=> c = o
  BY Zenon, <1>1, <1>7
<1>9. b = c - Occurrences(n, MembersOf(f)) /\ (Left(f, G \ {n}) = {} <=> c = Occurrences(n, MembersOf(f)))
  BY Zenon, <1>4, <1>5, <1>8
<1>10. QED
  BY Zenon, <1>2, <1>6, <1>9 DEF b, c

(* Steps 2.1 and 2.2 establish what the second loop keeps.                 *)
LEMMA LocateStarts ==
  ASSUME raw \in RawConfigs, NamedOnce, NEW G, NEW d, NEW so, Sorting(G, d, <<>>, so), G # {},
         NEW e, e = [n \in G |-> Len(MembersOf(n))], NEW q \in Orders({n \in G : e[n] = 0})
  PROVE  Locating(G, e, q)
<1>1. G \subseteq ConfigNodes /\ DOMAIN e = G /\ \A n \in ConfigNodes : LoopAbove(n) => n \in G
  BY Zenon DEF Sorting
<1>2. \A n \in G : Listed(n) \subseteq G /\ \E p \in G : n \in Listed(p)
  BY Zenon, SortEnds
<1>3. ASSUME NEW f \in G PROVE e[f] = Cardinality(Left(f, G)) /\ (e[f] = 0 <=> Left(f, G) = {})
  <2>1. Left(f, G) = 1..Len(MembersOf(f)) /\ Len(MembersOf(f)) \in Nat
    <3>1. DOMAIN MembersOf(f) = 1..Len(MembersOf(f)) /\ Len(MembersOf(f)) \in Nat
      BY Zenon, ConfigIsFinite
    <3>2. \A j \in DOMAIN MembersOf(f) : MembersOf(f)[j] \in G
      BY Zenon, <1>2 DEF Listed, Range
    <3>3. QED
      BY Zenon, <3>1, <3>2 DEF Left
  <2>2. Cardinality(1..Len(MembersOf(f))) = Len(MembersOf(f))
    <3>1. \A k \in Nat : Cardinality(1..k) = k
      BY FS_Interval
    <3>2. QED
      BY Zenon, <2>1, <3>1
  <2>3. e[f] = Cardinality(Left(f, G))
    BY Zenon, <2>1, <2>2
  <2>4. QED
    BY Zenon, <2>3, LeftIs
<1>4. {n \in G : e[n] = 0} = Ends(G)
  BY Zenon, <1>3 DEF Ends
<1>5. IsFiniteSet(Ends(G))
  <2>1. IsFiniteSet(ConfigNodes)
    BY Zenon, ConfigIsFinite
  <2>2. Ends(G) \in SUBSET ConfigNodes
    BY Zenon, <1>1 DEF Ends
  <2>3. QED
    BY Zenon, <2>1, <2>2, FS_Subset
<1>6. Enumerates(q, Ends(G))
  BY Zenon, <1>4, <1>5, EnumeratesOrders
<1>7. QED
  BY Zenon, <1>1, <1>2, <1>3, <1>6 DEF Locating, Between

(* What a step of the second loop computes for the name n.                   *)
Listing(n, d)  == {f \in DOMAIN d : n \in Listed(f)}
Emptied(n, d)  == {f \in Listing(n, d) : d[f] = Occurrences(n, MembersOf(f))}
Unlisted(n, d) == [f \in DOMAIN d |-> d[f] - Occurrences(n, MembersOf(f))]

(* A turn of the second loop keeps it, and every group that lists the name *)
(* it takes is still in the graph.                                         *)
LEMMA LocateGoesOn ==
  ASSUME raw \in RawConfigs, NEW G, NEW d, NEW q, Locating(G, d, q), q # <<>>,
         NEW n, n = Head(q), NEW t \in Orders(Emptied(n, d))
  PROVE  /\ Listing(n, d) \subseteq G
         /\ Locating(G \ {n}, Unlisted(n, d), Tail(q) \o t)
<1> USE DEF Listing, Emptied, Unlisted
<1> DEFINE e == Unlisted(n, d)
           F == Listing(n, d)
           T == Emptied(n, d)
<1>1. /\ G \subseteq DOMAIN d /\ DOMAIN d \subseteq ConfigNodes /\ DOMAIN d # {} /\ Between \subseteq G
      /\ \A m \in DOMAIN d : Listed(m) \subseteq DOMAIN d /\ \E p \in DOMAIN d : m \in Listed(p)
      /\ \A f \in DOMAIN d : d[f] = Cardinality(Left(f, G))
      /\ \A f \in DOMAIN d \ G : Left(f, G) = {}
      /\ Enumerates(q, Ends(G))
  BY Zenon DEF Locating
<1>2. n \in Ends(G) /\ Enumerates(Tail(q), Ends(G) \ {n})
  BY Zenon, <1>1, EnumeratesTail
<1>3. n \in G /\ Left(n, G) = {}
  BY Zenon, <1>2 DEF Ends
<1>4. ASSUME NEW f \in F PROVE f \in G /\ f # n /\ Left(f, G) # {}
  BY Zenon, <1>1, <1>3, LeftIs
<1>5. DOMAIN e = DOMAIN d /\ \A f \in DOMAIN d : e[f] = Cardinality(Left(f, G \ {n}))
  <2>1. \A f : Cardinality(Left(f, G \ {n})) = Cardinality(Left(f, G)) - Occurrences(n, MembersOf(f))
    BY Zenon, <1>3, LeftGone
  <2>2. QED
    BY Zenon, <1>1, <2>1
<1>6. \A f : Left(f, G \ {n}) \subseteq Left(f, G)
  BY Zenon, <1>3, LeftGone
<1>7. \A f \in DOMAIN d \ (G \ {n}) : Left(f, G \ {n}) = {}
  BY Zenon, <1>1, <1>3, <1>6
<1>8. \A f \in F : f \in T <=> Left(f, G \ {n}) = {}
  <2>1. \A f \in F : f \in T <=> Cardinality(Left(f, G)) = Occurrences(n, MembersOf(f))
    BY Zenon, <1>1
  <2>2. \A f : Left(f, G \ {n}) = {} <=> Cardinality(Left(f, G)) = Occurrences(n, MembersOf(f))
    BY Zenon, <1>3, LeftGone
  <2> HIDE DEF T
  <2>3. QED
    BY <2>1, <2>2, Zenon
<1>9. \A f : f \notin F /\ f \in G => Left(f, G \ {n}) = Left(f, G)
  BY Zenon, <1>1, <1>3, LeftGone
<1>10. T \subseteq F
  BY Zenon
<1> HIDE DEF T
<1>11. Ends(G \ {n}) = (Ends(G) \ {n}) \cup T /\ (Ends(G) \ {n}) \cap T = {}
  BY Zenon, <1>4, <1>6, <1>8, <1>9, <1>10 DEF Ends
<1>12. Enumerates(Tail(q) \o t, Ends(G \ {n}))
  <2>1. IsFiniteSet(T)
    <3>1. IsFiniteSet(ConfigNodes) /\ T \in SUBSET ConfigNodes
      BY Zenon, <1>1, <1>10, ConfigIsFinite
    <3>2. QED
      BY Zenon, <3>1, FS_Subset
  <2>2. Enumerates(t, T)
    BY Zenon, <2>1, EnumeratesOrders DEF T
  <2>3. Enumerates(Tail(q) \o t, (Ends(G) \ {n}) \cup T)
    BY <1>2, <1>11, <2>2, EnumeratesConcat, Zenon
  <2>4. QED
    BY Zenon, <1>11, <2>3
<1>13. n \notin Between
  <2> SUFFICES ASSUME LoopAbove(n), LoopBelow(n) PROVE FALSE
    BY Zenon DEF Between
  <2>1. PICK c \in ConfigNodes : OnLoop(c) /\ n \in {c} \cup Reach(c)
    BY Zenon DEF LoopAbove
  <2>2. PICK b \in ConfigNodes : OnLoop(b) /\ b \in {n} \cup Reach(n)
    BY Zenon DEF LoopBelow
  <2>3. b \in Reach(n)
    BY Zenon, <2>2 DEF OnLoop
  <2>4. PICK p \in Listed(n) : b \in {p} \cup Reach(p)
    BY Zenon, <2>3, ReachFirst
  <2>5. LoopBelow(p) /\ p \in ConfigNodes
    BY Zenon, <2>2, <2>4, ListedAreNodes DEF LoopBelow
  <2>6. LoopAbove(p)
    BY Zenon, <2>1, <2>4, ReachClosed DEF LoopAbove
  <2>7. p \in G
    BY Zenon, <1>1, <2>5, <2>6 DEF Between
  <2>8. QED
    BY Zenon, <1>3, <2>4, <2>7, LeftIs
<1> HIDE DEF e
<1>14. Locating(G \ {n}, e, Tail(q) \o t)
  BY Zenon, <1>1, <1>5, <1>7, <1>12, <1>13 DEF Locating
<1>15. QED
  BY Zenon, <1>4, <1>14 DEF e

(* When its queue is empty, what is left is what lies between two loops.   *)
LEMMA LocateEnds ==
  ASSUME raw \in RawConfigs, NEW G, NEW d, Locating(G, d, <<>>)
  PROVE  G # {} /\ G = Between
<1>1. /\ G \subseteq DOMAIN d /\ DOMAIN d \subseteq ConfigNodes /\ DOMAIN d # {} /\ Between \subseteq G
      /\ \A n \in DOMAIN d : \E p \in DOMAIN d : n \in Listed(p)
  BY Zenon DEF Locating
<1>2. IsFiniteSet(DOMAIN d) /\ IsFiniteSet(G)
  <2>1. IsFiniteSet(ConfigNodes)
    BY Zenon, ConfigIsFinite
  <2>2. QED
    BY Zenon, <1>1, <2>1, FS_Subset
<1>3. \A n \in DOMAIN d : LoopAbove(n)
  BY Zenon, <1>1, <1>2, LoopsAbove
<1>4. Ends(G) = {}
  BY Zenon, EnumeratesNone DEF Locating
<1>5. \A n \in G : \E p \in G : p \in Listed(n)
  BY Zenon, <1>4, LeftIs DEF Ends
<1>6. \A n \in G : LoopBelow(n)
  BY Zenon, <1>1, <1>2, <1>5, LoopsBelow
<1>7. G = Between
  BY Zenon, <1>1, <1>3, <1>6 DEF Between
<1>8. PICK c \in ConfigNodes : OnLoop(c)
  BY Zenon, <1>1, <1>3 DEF LoopAbove
<1>9. c \in Between
  BY Zenon, <1>8 DEF Between, LoopAbove, LoopBelow
<1>10. QED
  BY Zenon, <1>7, <1>9

(* A list of the members of a set is as long as the set is large.          *)
LEMMA SameLength ==
  ASSUME NEW S, NEW s, Enumerates(s, S)
  PROVE  Len(s) \in Nat /\ Cardinality(S) = Len(s)
<1>1. s \in [1..Len(s) -> S] /\ Len(s) \in Nat /\ DOMAIN s = 1..Len(s)
  BY Zenon, ListParts DEF Enumerates
<1>2. /\ \A i, j \in 1..Len(s) : s[i] = s[j] => i = j
      /\ \A x \in S : \E i \in 1..Len(s) : s[i] = x
  BY Zenon, <1>1 DEF Enumerates, IsInjective, Range
<1>3. s \in Bijection(1..Len(s), S)
  BY Zenon, <1>1, <1>2 DEF Bijection, Injection, Surjection, IsInjective
<1>4. ExistsBijection(1..Len(s), S)
  BY Zenon, <1>3 DEF ExistsBijection
<1>5. QED
  BY Zenon, <1>1, <1>4, FS_CountingElements

(* parseProxies, the groups: what is already parsed is made of names known   *)
(* before it, so that a set of such names is closed and does not have it.    *)
Plain == {"DIRECT", "REJECT"} \cup {raw.proxies[i].name : i \in DOMAIN raw.proxies}
GroupFits(g) ==
  /\ g.proxies # <<>> \/ g.use # {}
  /\ Range(g.proxies) \subseteq Plain \cup GroupNamesOf(raw.groups)
  /\ g.use \subseteq Declared
Parsed(so) == {raw.groups[i].name : i \in {j \in DOMAIN raw.groups : raw.groups[j] \notin Range(so)}}
Before(n, S, so) == n \notin S /\ Listed(n) \subseteq S /\ \A m \in S \cap Parsed(so) : Listed(m) \subseteq S
Parsing(so, ps) ==
  /\ Enumerates(so, Range(so)) /\ Range(so) \subseteq Range(raw.groups)
  /\ ps = Plain \cup Parsed(so)
  /\ \A n \in Parsed(so) : GroupFits(GroupCalled(n)) /\ \E S \in SUBSET ps : Before(n, S, so)
Fit ==
  /\ \A n \in ConfigNodes : ~OnLoop(n)
  /\ \A n \in GroupNamesOf(raw.groups) : GroupFits(GroupCalled(n))
ProvidersReady == \A p \in raw.providers : p.initial

(* Before the first group is parsed the proxies are the plain ones.        *)
LEMMA GroupsStart ==
  ASSUME NEW so, Enumerates(so, Range(raw.groups))
  PROVE  Parsing(so, Plain)
<1>1. Range(so) = Range(raw.groups)
  BY Zenon DEF Enumerates
<1>2. Parsed(so) = {}
  BY Zenon, <1>1 DEF Parsed, Range
<1>3. QED
  BY Zenon, <1>1, <1>2 DEF Parsing

(* A group that lists only proxies that are there is added to them.        *)
LEMMA GroupsGoOn ==
  ASSUME NamedOnce, NEW so, NEW ps, Parsing(so, ps), so # <<>>, NEW g, g = Head(so),
         g.proxies # <<>> \/ g.use # {}, Range(g.proxies) \subseteq ps, g.use \subseteq Declared, g.name \notin ps
  PROVE  Parsing(Tail(so), ps \cup {g.name})
<1>1. /\ Enumerates(so, Range(so)) /\ Range(so) \subseteq Range(raw.groups) /\ ps = Plain \cup Parsed(so)
      /\ \A n \in Parsed(so) : GroupFits(GroupCalled(n)) /\ \E S \in SUBSET ps : Before(n, S, so)
  BY Zenon DEF Parsing
<1>2. g \in Range(so) /\ Enumerates(Tail(so), Range(so) \ {g})
  BY Zenon, <1>1, EnumeratesTail
<1>3. Range(Tail(so)) = Range(so) \ {g}
  BY Zenon, <1>2 DEF Enumerates
<1>4. PICK i \in DOMAIN raw.groups : raw.groups[i] = g
  BY Zenon, <1>1, <1>2 DEF Range
<1> DEFINE n == raw.groups[i].name
<1>5. n = g.name
  BY <1>4, Zenon
<1>6. GroupCalled(n) = g /\ Listed(n) = Range(g.proxies) /\ n \in GroupNamesOf(raw.groups)
  BY Zenon, <1>4, GroupFound DEF Listed, GroupNamesOf
<1>7. Parsed(Tail(so)) = Parsed(so) \cup {n}
  <2>1. \A j \in DOMAIN raw.groups : raw.groups[j] \notin Range(Tail(so)) <=> raw.groups[j] \notin Range(so) \/ j = i
    <3>1. \A j \in DOMAIN raw.groups : raw.groups[j] = g => j = i
      BY <1>4, Zenon DEF NamedOnce
    <3>2. QED
      BY Zenon, <1>3, <1>4, <3>1
  <2>2. QED
    BY Zenon, <2>1 DEF Parsed
<1>8. n \notin ps
  BY Zenon, <1>5
<1> HIDE DEF n
<1>9. GroupFits(g)
  <2>1. ps \subseteq Plain \cup GroupNamesOf(raw.groups)
    BY Zenon, <1>1 DEF Parsed, GroupNamesOf
  <2>2. QED
    BY Zenon, <2>1 DEF GroupFits
<1>10. Before(n, ps, Tail(so))
  <2>1. Listed(n) \subseteq ps
    BY Zenon, <1>6
  <2>2. ASSUME NEW m \in ps, m \in Parsed(so) PROVE Listed(m) \subseteq ps
    BY Zenon, <1>1, <2>2 DEF Before
  <2>3. QED
    BY Zenon, <1>7, <1>8, <2>1, <2>2 DEF Before
<1>11. ASSUME NEW m \in Parsed(so) PROVE \E S \in SUBSET (ps \cup {n}) : Before(m, S, Tail(so))
  <2>1. PICK S \in SUBSET ps : Before(m, S, so)
    BY Zenon, <1>1
  <2>2. Before(m, S, Tail(so))
    BY Zenon, <1>7, <1>8, <2>1 DEF Before
  <2>3. QED
    BY Zenon, <2>1, <2>2
<1>12. Range(Tail(so)) \subseteq Range(raw.groups) /\ Enumerates(Tail(so), Range(Tail(so)))
  BY Zenon, <1>1, <1>2, <1>3
<1>13. ps \cup {n} = Plain \cup Parsed(Tail(so))
  BY Zenon, <1>1, <1>7
<1>14. ASSUME NEW m \in Parsed(Tail(so)) PROVE GroupFits(GroupCalled(m)) /\ \E S \in SUBSET (ps \cup {n}) : Before(m, S, Tail(so))
  <2>1. CASE m = n
    BY Zenon, <1>6, <1>9, <1>10, <2>1
  <2>2. CASE m \in Parsed(so)
    BY Zenon, <1>1, <1>11, <2>2
  <2>3. QED
    BY Zenon, <1>7, <2>1, <2>2
<1>15. Parsing(Tail(so), ps \cup {n})
  BY Zenon, <1>12, <1>13, <1>14 DEF Parsing
<1>16. QED
  BY Zenon, <1>5, <1>15

(* When all groups are parsed each fits, and none reaches itself.          *)
LEMMA GroupsEnd ==
  ASSUME NEW ps, Parsing(<<>>, ps)
  PROVE  Fit
<1>1. Parsed(<<>>) = GroupNamesOf(raw.groups)
  BY DEF Parsed, GroupNamesOf, Range
<1>2. \A n \in GroupNamesOf(raw.groups) : GroupFits(GroupCalled(n)) /\ \E S \in SUBSET ps : Before(n, S, <<>>)
  BY Zenon, <1>1 DEF Parsing
<1>3. ASSUME NEW n \in GroupNamesOf(raw.groups) PROVE n \notin Reach(n)
  <2>1. PICK S : n \notin S /\ Listed(n) \subseteq S /\ \A m \in S \cap GroupNamesOf(raw.groups) : Listed(m) \subseteq S
    BY Zenon, <1>1, <1>2 DEF Before
  <2> DEFINE T == S \cap ConfigNodes
  <2>2. T \subseteq ConfigNodes /\ n \notin T
    BY Zenon, <2>1
  <2>3. Listed(n) \subseteq T
    BY Zenon, <2>1, ListedAreNodes
  <2>4. \A m \in T : Listed(m) \subseteq T
    BY Zenon, <2>1, ListedAreNodes
  <2> HIDE DEF T
  <2>5. Reach(n) \subseteq T
    BY Zenon, <2>2, <2>3, <2>4, ReachLeast
  <2>6. QED
    BY Zenon, <2>2, <2>5
<1>4. ASSUME NEW n, n \notin GroupNamesOf(raw.groups) PROVE n \notin Reach(n)
  <2>1. Listed(n) = {}
    BY Zenon, <1>4, ListedAreNodes
  <2>2. QED
    BY Zenon, <2>1, ReachFirst
<1>5. QED
  BY Zenon, <1>2, <1>3, <1>4 DEF Fit, OnLoop

(* ParseRawConfig: what holds of the configuration at each part.             *)
ConfigInvariant ==
  /\ parse # "nil"
  /\ parse # "idle" => raw \in RawConfigs
  /\ parse \in {"idle", "general", "proxies", "graph"} => sorted = <<>>
  /\ parse \in {"graph", "topo", "providers"} => proxies = Plain
  /\ parse \in {"topo", "locate", "providers", "groups"} => NamedOnce
  /\ parse = "topo" => Sorting(graph, degree, queue, sorted)
  /\ parse = "locate" => Locating(graph, degree, queue)
  /\ parse = "loop" => graph # {} /\ graph = Between
  /\ parse = "providers" => Enumerates(sorted, Range(raw.groups)) /\ ListersLast(sorted)
  /\ parse = "groups" => Parsing(sorted, proxies)
  /\ parse \in {"groups", "rules", "hosts", "dns", "ok"} => ProvidersReady
  /\ parse \in {"rules", "hosts", "dns", "ok"} => Fit
  /\ parse \in {"hosts", "dns", "ok"} => \A i \in DOMAIN raw.rules : raw.rules[i].target \in proxies
  /\ parse = "ok" => (raw.dns.enable => raw.dns.nameserver # {} /\ \E s \in raw.dns.default : s.ip)

(* What is defined from the configuration alone does not change while it   *)
(* is parsed.                                                              *)
LEMMA RawKept ==
  ASSUME raw' = raw
  PROVE  /\ NamedOnce' = NamedOnce /\ Plain' = Plain /\ Between' = Between /\ Fit' = Fit /\ ProvidersReady' = ProvidersReady
         /\ \A G, d, q, so : Sorting(G, d, q, so)' = Sorting(G, d, q, so)
         /\ \A G, d, q : Locating(G, d, q)' = Locating(G, d, q)
         /\ \A so, ps : Parsing(so, ps)' = Parsing(so, ps)
<1>1. /\ NamedOnce' = NamedOnce /\ Plain' = Plain /\ ProvidersReady' = ProvidersReady /\ Declared' = Declared
      /\ GroupNamesOf(raw.groups)' = GroupNamesOf(raw.groups) /\ ConfigNodes' = ConfigNodes
      /\ \A n, G : Edges(n, G)' = Edges(n, G)
      /\ \A G : GroupsOutside(G)' = GroupsOutside(G)
      /\ \A so : Parsed(so)' = Parsed(so)
      /\ \A n : GroupCalled(n)' = GroupCalled(n)
  BY ZenonT(60) DEF NamedOnce, Plain, ProvidersReady, Declared, GroupNamesOf, ConfigNodes, Edges, GroupsOutside, Parsed, GroupCalled
<1>2. \A n : MembersOf(n)' = MembersOf(n)
  BY <1>1, ZenonT(60) DEF MembersOf
<1>3. /\ \A n : Listed(n)' = Listed(n)
      /\ \A S : Closed(S)' = Closed(S)
      /\ \A f, G : Left(f, G)' = Left(f, G)
  BY <1>2, ZenonT(60) DEF Listed, Closed, Left
<1>4. \A n : Reach(n)' = Reach(n)
  BY <1>1, <1>2, <1>3, ZenonT(60) DEF Reach
<1>5. \A n : OnLoop(n)' = OnLoop(n)
  BY <1>4, ZenonT(60) DEF OnLoop
<1>6. \A n : LoopAbove(n)' = LoopAbove(n) /\ LoopBelow(n)' = LoopBelow(n)
  BY <1>1, <1>4, <1>5, ZenonT(60) DEF LoopAbove, LoopBelow
<1>7. \A G : Free(G)' = Free(G) /\ Ends(G)' = Ends(G)
  BY <1>1, <1>3, ZenonT(60) DEF Free, Ends
<1>8. Between' = Between
  BY <1>1, <1>6, ZenonT(60) DEF Between
<1>9. \A g : GroupFits(g)' = GroupFits(g)
  BY <1>1, ZenonT(60) DEF GroupFits
<1>10. \A n, S, so : Before(n, S, so)' = Before(n, S, so)
  BY <1>1, <1>3, ZenonT(60) DEF Before
<1>11. Fit' = Fit
  BY <1>1, <1>5, <1>9, ZenonT(60) DEF Fit
<1>12. \A G, d, q, so : Sorting(G, d, q, so)' = Sorting(G, d, q, so)
  BY <1>1, <1>6, <1>7, ZenonT(60) DEF Sorting
<1>13. \A G, d, q : Locating(G, d, q)' = Locating(G, d, q)
  BY <1>1, <1>3, <1>7, <1>8, ZenonT(60) DEF Locating
<1>14. \A so, ps : Parsing(so, ps)' = Parsing(so, ps)
  BY <1>1, <1>9, <1>10, ZenonT(60) DEF Parsing
<1>15. QED
  BY <1>1, <1>8, <1>11, <1>12, <1>13, <1>14, ZenonT(60)

(* A configuration that is refused need only be one that was submitted.    *)
LEMMA Refused ==
  ASSUME raw \in RawConfigs, raw' = raw, parse' \in {"error", "panic"}
  PROVE  ConfigInvariant'
  BY Zenon DEF ConfigInvariant

(* parseGeneral and the proxies of parseProxies keep the invariant.        *)
LEMMA ProxiesParsed ==
  ASSUME ConfigInvariant, parseGeneral \/ parseProxies
  PROVE  ConfigInvariant'
<1>1. parse \in {"general", "proxies"} /\ raw' = raw /\ raw \in RawConfigs /\ sorted' = <<>>
  BY Zenon DEF ConfigInvariant, parseGeneral, parseProxies, Then
<1>2. CASE parseGeneral
  BY Zenon, <1>1, <1>2 DEF ConfigInvariant, parseGeneral, Then
<1>3. CASE parseProxies
  <2> DEFINE names == <<"DIRECT", "REJECT">> \o [i \in DOMAIN raw.proxies |-> raw.proxies[i].name]
  <2>1. proxies' = Range(names) /\ parse' \in {"graph", "error"}
    BY Zenon, <1>3 DEF parseProxies, Then
  <2>2. Range(names) = Plain
    <3>1. raw.proxies \in Seq(Range(raw.proxies))
      BY Zenon, <1>1, ConfigAssumption DEF IsList
    <3> DEFINE l == Len(raw.proxies)
               p == [i \in DOMAIN raw.proxies |-> raw.proxies[i].name]
               z == <<"DIRECT", "REJECT">>
               A == Range(p) \cup {"DIRECT", "REJECT"}
    <3>2. l \in Nat /\ DOMAIN raw.proxies = 1..l /\ DOMAIN p = 1..l
      BY Zenon, <3>1, ListParts
    <3>3. p \in Seq(A) /\ z \in Seq(A) /\ Len(z) = 2 /\ z[1] = "DIRECT" /\ z[2] = "REJECT"
      <4>1. p \in [1..l -> A]
        BY Zenon, <3>2 DEF Range
      <4>2. p \in Seq(A)
        BY Zenon, <3>2, <4>1, IsListOf
      <4>3. QED
        BY <4>2
    <3>4. Len(p) = l
      <4>1. DOMAIN p = 1..Len(p) /\ Len(p) \in Nat
        BY Zenon, <3>3, ListParts
      <4> HIDE DEF l, p
      <4>2. \A a, b \in Nat : 1..a = 1..b => a = b
        <5>1. \A a, b \in Nat : a < b => b \in 1..b /\ b \notin 1..a
          OBVIOUS
        <5>2. QED
          BY <5>1
      <4>3. QED
        BY Zenon, <3>2, <4>1, <4>2
    <3> HIDE DEF l, p, z, A
    <3>5. names = z \o p
      BY Zenon DEF p, z
    <3>6. /\ Len(z \o p) = 2 + l /\ DOMAIN (z \o p) = 1..(2 + l)
          /\ \A i \in 1..(2 + l) : (z \o p)[i] = IF i <= 2 THEN z[i] ELSE p[i - 2]
      <4>1. /\ z \o p \in Seq(A) /\ Len(z \o p) = Len(z) + Len(p)
            /\ \A i \in 1..(Len(z) + Len(p)) : (z \o p)[i] = IF i <= Len(z) THEN z[i] ELSE p[i - Len(z)]
        BY Zenon, <3>3, ListsJoined
      <4>2. DOMAIN (z \o p) = 1..Len(z \o p)
        BY Zenon, <4>1, ListParts
      <4>3. QED
        BY <3>3, <3>4, <4>1, <4>2, Zenon
    <3>7. Range(z \o p) = {"DIRECT", "REJECT"} \cup Range(p)
      <4>1. ASSUME NEW x \in Range(z \o p) PROVE x \in {"DIRECT", "REJECT"} \cup Range(p)
        <5>1. PICK i \in 1..(2 + l) : x = (z \o p)[i]
          BY Zenon, <3>6 DEF Range
        <5>2. CASE i <= 2
          BY <3>2, <3>3, <3>6, <5>1, <5>2
        <5>3. CASE i > 2
          <6>1. i - 2 \in 1..l /\ x = p[i - 2]
            BY <3>2, <3>6, <5>1, <5>3
          <6>2. QED
            BY Zenon, <3>2, <6>1 DEF Range
        <5>4. QED
          BY <3>2, <5>2, <5>3
      <4>2. ASSUME NEW k \in 1..l PROVE p[k] \in Range(z \o p)
        <5>1. k + 2 \in 1..(2 + l) /\ (z \o p)[k + 2] = p[k]
          BY <3>2, <3>6
        <5>2. QED
          BY Zenon, <3>6, <5>1 DEF Range
      <4>3. "DIRECT" \in Range(z \o p) /\ "REJECT" \in Range(z \o p)
        <5>1. 1 \in 1..(2 + l) /\ 2 \in 1..(2 + l) /\ (z \o p)[1] = "DIRECT" /\ (z \o p)[2] = "REJECT"
          BY <3>2, <3>3, <3>6
        <5>2. QED
          BY Zenon, <3>6, <5>1 DEF Range
      <4>4. QED
        BY Zenon, <3>2, <4>1, <4>2, <4>3 DEF Range
    <3>8. Range(p) = {raw.proxies[i].name : i \in DOMAIN raw.proxies}
      BY Zenon DEF Range, p
    <3>9. QED
      BY Zenon, <3>5, <3>7, <3>8 DEF Plain
  <2> HIDE DEF names
  <2>3. Plain' = Plain
    BY Zenon, <1>1, RawKept
  <2>4. QED
    BY Zenon, <1>1, <2>1, <2>2, <2>3 DEF ConfigInvariant
<1>4. QED
  BY Zenon, <1>2, <1>3

(* Step 1.1 of proxyGroupsDagSort keeps the invariant.                     *)
LEMMA GraphBuilt ==
  ASSUME ConfigInvariant, BuildGraph
  PROVE  ConfigInvariant'
<1> DEFINE names == [i \in DOMAIN raw.groups |-> raw.groups[i].name]
           nodes == Range(names) \cup UNION {Range(raw.groups[i].proxies) : i \in DOMAIN raw.groups}
           into  == [n \in nodes |-> Cardinality(Edges(n, nodes))]
<1>1. /\ parse = "graph" /\ raw' = raw /\ raw \in RawConfigs /\ proxies = Plain /\ sorted = <<>>
      /\ parse' = IF IsInjective(names) THEN "topo" ELSE "error"
      /\ graph' = nodes /\ degree' = into /\ queue' \in Orders({n \in nodes : into[n] = 0})
      /\ sorted' = sorted /\ proxies' = proxies
  BY Zenon DEF ConfigInvariant, BuildGraph, Then
<1>2. nodes = ConfigNodes
  BY Zenon DEF ConfigNodes, GroupNamesOf, Range
<1>3. IsInjective(names) => NamedOnce
  BY Zenon DEF IsInjective, NamedOnce
<1>4. CASE parse' = "error"
  BY Zenon, <1>1, <1>4, Refused
<1>5. CASE parse' = "topo"
  <2>1. NamedOnce
    BY Zenon, <1>1, <1>3, <1>5
  <2> HIDE DEF names, nodes
  <2>2. Sorting(ConfigNodes, degree', queue', <<>>)
    BY Zenon, <1>1, <1>2, <2>1, SortStarts
  <2>3. Sorting(graph, degree, queue, sorted)'
    BY Zenon, <1>1, <1>2, <2>2, RawKept
  <2>4. NamedOnce' /\ proxies' = Plain'
    BY Zenon, <1>1, <2>1, RawKept
  <2>5. QED
    BY Zenon, <1>1, <1>5, <2>3, <2>4 DEF ConfigInvariant
<1>6. QED
  BY Zenon, <1>1, <1>4, <1>5

(* A turn of its first loop keeps the invariant.                           *)
LEMMA TopoKeeps ==
  ASSUME ConfigInvariant, TopoStep
  PROVE  ConfigInvariant'
<1> DEFINE n == Head(queue)
           s == MembersOf(n)
<1>1. /\ parse = "topo" /\ parse' = "topo" /\ raw' = raw /\ raw \in RawConfigs /\ proxies = Plain /\ proxies' = proxies
      /\ NamedOnce /\ queue # <<>> /\ Sorting(graph, degree, queue, sorted)
      /\ degree' = [m \in DOMAIN degree |-> degree[m] - Occurrences(m, s)]
      /\ graph' = graph \ {n}
      /\ sorted' = IF n \in GroupNamesOf(raw.groups) THEN <<GroupCalled(n)>> \o sorted ELSE sorted
  BY Zenon DEF ConfigInvariant, TopoStep
<1>2. PICK f \in Orders(Freed(s)) : queue' = Tail(queue) \o [k \in DOMAIN f |-> s[f[k]]]
  BY Zenon DEF TopoStep
<1>3. /\ f \in Orders(LastEdges(s, degree)) /\ queue' = Tail(queue) \o Named(f, s)
      /\ degree' = Lowered(degree, s) /\ sorted' = Placed(n, sorted)
  BY <1>1, <1>2, Zenon DEF Freed, LastEdges, Named, Lowered, Placed
<1> HIDE DEF n, s
<1>4. n = Head(queue) /\ s = MembersOf(n)
  BY Zenon DEF n, s
<1>5. Sorting(graph', degree', queue', sorted')
  <2>1. Sorting(graph \ {n}, Lowered(degree, s), Tail(queue) \o Named(f, s), Placed(n, sorted))
    BY Zenon, <1>1, <1>3, <1>4, SortGoesOn
  <2>2. QED
    BY <1>1, <1>3, <2>1, Zenon
<1>6. Sorting(graph, degree, queue, sorted)'
  BY <1>1, <1>5, RawKept
<1>7. NamedOnce' /\ proxies' = Plain'
  BY Zenon, <1>1, RawKept
<1>8. QED
  BY Zenon, <1>1, <1>6, <1>7 DEF ConfigInvariant

(* The end of its first loop, with and without names left, keeps the       *)
(* invariant.                                                              *)
LEMMA TopoEnds ==
  ASSUME ConfigInvariant, TopoEnd
  PROVE  ConfigInvariant'
<1>1. /\ parse = "topo" /\ raw' = raw /\ raw \in RawConfigs /\ proxies = Plain /\ proxies' = proxies
      /\ NamedOnce /\ queue = <<>> /\ Sorting(graph, degree, queue, sorted) /\ graph' = graph /\ sorted' = sorted
  BY Zenon DEF ConfigInvariant, TopoEnd
<1>2. Sorting(graph, degree, <<>>, sorted)
  BY Zenon, <1>1
<1>3. NamedOnce' /\ Plain' = Plain
  BY Zenon, <1>1, RawKept
<1>4. CASE graph = {}
  <2>1. parse' = "providers"
    BY Zenon, <1>4 DEF TopoEnd
  <2>2. Enumerates(sorted, Range(raw.groups)) /\ ListersLast(sorted)
    BY Zenon, <1>1, <1>2, <1>4, SortEnds
  <2>3. Enumerates(sorted', Range(raw'.groups)) /\ ListersLast(sorted')
    BY <1>1, <2>2, Zenon
  <2>4. QED
    BY Zenon, <1>1, <1>3, <2>1, <2>3 DEF ConfigInvariant
<1>5. CASE graph # {}
  <2> DEFINE out == [n \in graph |-> Len(MembersOf(n))]
  <2>1. /\ parse' = IF \A n \in graph : Range(MembersOf(n)) \subseteq graph THEN "locate" ELSE "nil"
        /\ degree' = out /\ queue' \in Orders({n \in graph : out[n] = 0})
    BY Zenon, <1>5 DEF TopoEnd
  <2>2. \A n \in graph : Listed(n) \subseteq graph
    BY Zenon, <1>1, <1>2, SortEnds
  <2>3. parse' = "locate"
    BY Zenon, <2>1, <2>2 DEF Listed
  <2> HIDE DEF out
  <2>4. out = [n \in graph |-> Len(MembersOf(n))]
    BY Zenon DEF out
  <2>5. Locating(graph, out, queue')
    BY Zenon, <1>1, <1>2, <1>5, <2>1, <2>4, LocateStarts
  <2>6. Locating(graph', degree', queue')
    BY <1>1, <2>1, <2>5, Zenon
  <2>7. Locating(graph, degree, queue)'
    BY Zenon, <1>1, <2>6, RawKept
  <2>8. QED
    BY Zenon, <1>1, <1>3, <2>3, <2>7 DEF ConfigInvariant
<1>6. QED
  BY Zenon, <1>4, <1>5

(* A turn of its second loop keeps the invariant.                          *)
LEMMA LocateKeeps ==
  ASSUME ConfigInvariant, LocateStep
  PROVE  ConfigInvariant'
<1> DEFINE n == Head(queue)
<1>1. /\ parse = "locate" /\ raw' = raw /\ raw \in RawConfigs /\ NamedOnce
      /\ queue # <<>> /\ Locating(graph, degree, queue)
  BY Zenon DEF ConfigInvariant, LocateStep
<1>2. /\ parse' = IF Listing(n, degree) \subseteq graph THEN "locate" ELSE "nil"
      /\ degree' = Unlisted(n, degree) /\ graph' = graph \ {n}
  BY Zenon DEF LocateStep, Listing, Unlisted, Listed
<1>3. PICK t \in Orders(Emptied(n, degree)) : queue' = Tail(queue) \o t
  BY Zenon DEF LocateStep, Emptied, Listing, Listed
<1> HIDE DEF n
<1>4. n = Head(queue)
  BY Zenon DEF n
<1>5. Listing(n, degree) \subseteq graph /\ Locating(graph \ {n}, Unlisted(n, degree), Tail(queue) \o t)
  BY Zenon, <1>1, <1>3, <1>4, LocateGoesOn
<1>6. parse' = "locate" /\ Locating(graph', degree', queue')
  BY Zenon, <1>2, <1>3, <1>5
<1>7. Locating(graph, degree, queue)' /\ NamedOnce'
  BY Zenon, <1>1, <1>6, RawKept
<1>8. QED
  BY Zenon, <1>1, <1>6, <1>7 DEF ConfigInvariant

(* The report of a loop keeps the invariant.                               *)
LEMMA LoopReported ==
  ASSUME ConfigInvariant, LocateEnd
  PROVE  ConfigInvariant'
<1>1. /\ parse' = "loop" /\ raw' = raw /\ raw \in RawConfigs /\ graph' = graph
      /\ queue = <<>> /\ Locating(graph, degree, queue)
  BY Zenon DEF ConfigInvariant, LocateEnd
<1>2. graph # {} /\ graph = Between
  BY Zenon, <1>1, LocateEnds
<1>3. Between' = Between
  BY Zenon, <1>1, RawKept
<1>4. QED
  BY Zenon, <1>1, <1>2, <1>3 DEF ConfigInvariant

(* The providers of parseProxies keep the invariant.                       *)
LEMMA ProvidersParsed ==
  ASSUME ConfigInvariant, parseProviders
  PROVE  ConfigInvariant'
<1>1. /\ parse = "providers" /\ raw' = raw /\ raw \in RawConfigs /\ proxies = Plain /\ proxies' = proxies /\ sorted' = sorted
      /\ NamedOnce /\ Enumerates(sorted, Range(raw.groups))
      /\ parse' \in {"groups", "error"}
      /\ parse' = "groups" => ProvidersReady
  BY Zenon DEF ConfigInvariant, parseProviders, Then, ProvidersReady
<1>2. Parsing(sorted, Plain)
  BY Zenon, <1>1, GroupsStart
<1>3. CASE parse' = "groups"
  <2>1. Parsing(sorted, proxies)' /\ NamedOnce' /\ ProvidersReady'
    BY Zenon, <1>1, <1>2, <1>3, RawKept
  <2>2. QED
    BY Zenon, <1>1, <1>3, <2>1 DEF ConfigInvariant
<1>4. QED
  BY Zenon, <1>1, <1>3, Refused

(* Parsing one group keeps the invariant.                                  *)
LEMMA GroupsParsed ==
  ASSUME ConfigInvariant, parseGroups
  PROVE  ConfigInvariant'
<1> DEFINE g == Head(sorted)
<1>1. /\ parse = "groups" /\ raw' = raw /\ raw \in RawConfigs /\ NamedOnce /\ ProvidersReady /\ Parsing(sorted, proxies)
      /\ sorted # <<>> /\ sorted' = Tail(sorted) /\ proxies' = proxies \cup {g.name}
      /\ parse' = IF ParseProxyGroup(g) /\ g.name \notin proxies THEN "groups" ELSE "error"
  BY Zenon DEF ConfigInvariant, parseGroups, Then
<1> HIDE DEF g
<1>2. CASE parse' = "error"
  BY Zenon, <1>1, <1>2, Refused
<1>3. CASE parse' = "groups"
  <2>1. g = Head(sorted) /\ ParseProxyGroup(g) /\ g.name \notin proxies
    BY Zenon, <1>1, <1>3 DEF g
  <2>2. (g.proxies # <<>> \/ g.use # {}) /\ Range(g.proxies) \subseteq proxies /\ g.use \subseteq Declared
    BY Zenon, <2>1 DEF ParseProxyGroup, getProxies, getProviders
  <2>3. Parsing(Tail(sorted), proxies \cup {g.name})
    BY Zenon, <1>1, <2>1, <2>2, GroupsGoOn
  <2>4. Parsing(sorted', proxies')
    BY <1>1, <2>3, Zenon
  <2>5. Parsing(sorted, proxies)' /\ NamedOnce' /\ ProvidersReady'
    BY Zenon, <1>1, <2>4, RawKept
  <2>6. QED
    BY Zenon, <1>1, <1>3, <2>5 DEF ConfigInvariant
<1>4. QED
  BY Zenon, <1>1, <1>2, <1>3

(* The end of the groups, with the group GLOBAL, keeps the invariant.      *)
LEMMA GroupsDone ==
  ASSUME ConfigInvariant, groupsEnd
  PROVE  ConfigInvariant'
<1>1. /\ parse' = "rules" /\ raw' = raw /\ raw \in RawConfigs /\ ProvidersReady /\ Parsing(sorted, proxies) /\ sorted = <<>>
  BY Zenon DEF ConfigInvariant, groupsEnd, Then
<1>2. Fit
  BY Zenon, <1>1, GroupsEnd
<1>3. Fit' /\ ProvidersReady'
  BY Zenon, <1>1, <1>2, RawKept
<1>4. QED
  BY Zenon, <1>1, <1>3 DEF ConfigInvariant

(* parseRules, parseHosts and parseDNS keep the invariant.                 *)
LEMMA RestParsed ==
  ASSUME ConfigInvariant, parseRules \/ parseHosts \/ parseDNS
  PROVE  ConfigInvariant'
<1>1. /\ parse \in {"rules", "hosts", "dns"} /\ raw' = raw /\ raw \in RawConfigs /\ proxies' = proxies /\ Fit /\ ProvidersReady
  BY Zenon DEF ConfigInvariant, parseRules, parseHosts, parseDNS, Then
<1>2. Fit' /\ ProvidersReady'
  BY Zenon, <1>1, RawKept
<1>3. CASE parseRules
  <2> DEFINE bad == {i \in DOMAIN raw.rules : RuleRefused(raw.rules[i]) \/ RulePanics(raw.rules[i])}
  <2>1. CASE bad = {}
    <3>1. parse' = "hosts"
      BY Zenon, <1>3, <2>1 DEF parseRules
    <3>2. \A i \in DOMAIN raw.rules : raw.rules[i].target \in proxies
      BY Zenon, <2>1 DEF RuleRefused
    <3>3. \A i \in DOMAIN raw'.rules : raw'.rules[i].target \in proxies'
      BY <1>1, <3>2, Zenon
    <3>4. QED
      BY Zenon, <1>1, <1>2, <3>1, <3>3 DEF ConfigInvariant
  <2>2. CASE bad # {}
    <3>1. parse' \in {"error", "panic"}
      BY Zenon, <1>3, <2>2 DEF parseRules
    <3>2. QED
      BY Zenon, <1>1, <3>1, Refused
  <2>3. QED
    BY Zenon, <2>1, <2>2
<1>4. CASE parseHosts \/ parseDNS
  <2>1. \A i \in DOMAIN raw.rules : raw.rules[i].target \in proxies
    BY Zenon, <1>4 DEF ConfigInvariant, parseHosts, parseDNS, Then
  <2>2. \A i \in DOMAIN raw'.rules : raw'.rules[i].target \in proxies'
    BY <1>1, <2>1, Zenon
  <2>3. CASE parse' = "error"
    BY Zenon, <1>1, <2>3, Refused
  <2>4. CASE parseHosts /\ parse' = "dns"
    BY Zenon, <1>1, <1>2, <2>2, <2>4 DEF ConfigInvariant
  <2>5. CASE parseDNS /\ parse' = "ok"
    <3>1. raw.dns.enable => raw.dns.nameserver # {} /\ \E s \in raw.dns.default : s.ip
      <4>1. /\ raw.dns.enable => raw.dns.nameserver # {}
            /\ raw.dns.default # {} /\ \A s \in raw.dns.default : s.ip
        BY Zenon, <2>5 DEF parseDNS, Then
      <4>2. QED
        BY Zenon, <4>1
    <3>2. raw'.dns.enable => raw'.dns.nameserver # {} /\ \E s \in raw'.dns.default : s.ip
      BY <1>1, <3>1, Zenon
    <3>3. QED
      BY Zenon, <1>1, <1>2, <2>2, <2>5, <3>2 DEF ConfigInvariant
  <2>6. QED
    BY Zenon, <1>4, <2>3, <2>4, <2>5 DEF parseHosts, parseDNS, Then
<1>5. QED
  BY Zenon, <1>3, <1>4

(* So does a step of another component.                                    *)
LEMMA ConfigUnchanged ==
  ASSUME ConfigInvariant, UNCHANGED configVars
  PROVE  ConfigInvariant'
<1>1. /\ raw' = raw /\ parse' = parse /\ graph' = graph /\ degree' = degree /\ queue' = queue
      /\ sorted' = sorted /\ proxies' = proxies
  BY Zenon DEF configVars
<1>2. /\ NamedOnce' = NamedOnce /\ Plain' = Plain /\ Between' = Between /\ Fit' = Fit /\ ProvidersReady' = ProvidersReady
      /\ Sorting(graph, degree, queue, sorted)' = Sorting(graph, degree, queue, sorted)
      /\ Locating(graph, degree, queue)' = Locating(graph, degree, queue)
      /\ Parsing(sorted, proxies)' = Parsing(sorted, proxies)
  BY Zenon, <1>1, RawKept
<1>3. QED
  BY <1>1, <1>2, Zenon DEF ConfigInvariant

(* ParseRawConfig and proxyGroupsDagSort keep ConfigInvariant at every step. *)
THEOREM ConfigInvariance == ConfigSpec => []ConfigInvariant
<1>1. ConfigInit => ConfigInvariant
  BY Zenon DEF ConfigInit, ConfigInvariant
<1>2. ASSUME ConfigInvariant, [ConfigNext]_configVars PROVE ConfigInvariant'
  <2>1. CASE \E r \in RawConfigs : Submit(r)
    BY Zenon, <1>2, <2>1 DEF ConfigInvariant, Submit
  <2>2. CASE parseGeneral \/ parseProxies
    BY Zenon, <1>2, <2>2, ProxiesParsed
  <2>3. CASE BuildGraph
    BY Zenon, <1>2, <2>3, GraphBuilt
  <2>4. CASE TopoStep
    BY Zenon, <1>2, <2>4, TopoKeeps
  <2>5. CASE TopoEnd
    BY Zenon, <1>2, <2>5, TopoEnds
  <2>6. CASE LocateStep
    BY Zenon, <1>2, <2>6, LocateKeeps
  <2>7. CASE LocateEnd
    BY Zenon, <1>2, <2>7, LoopReported
  <2>8. CASE parseProviders
    BY Zenon, <1>2, <2>8, ProvidersParsed
  <2>9. CASE parseGroups
    BY Zenon, <1>2, <2>9, GroupsParsed
  <2>10. CASE groupsEnd
    BY Zenon, <1>2, <2>10, GroupsDone
  <2>11. CASE parseRules \/ parseHosts \/ parseDNS
    BY Zenon, <1>2, <2>11, RestParsed
  <2>12. CASE UNCHANGED configVars
    BY Zenon, <1>2, <2>12, ConfigUnchanged
  <2>13. QED
    BY Zenon, <1>2, <2>1, <2>2, <2>3, <2>4, <2>5, <2>6, <2>7, <2>8, <2>9, <2>10, <2>11, <2>12 DEF ConfigNext, ConfigStep
<1>3. QED
  BY <1>1, <1>2, PTL DEF ConfigSpec

(* proxyGroupsDagSort, whatever the order of its queues and whatever the     *)
(* groups: those passed on are all the groups, each behind the groups it     *)
(* lists; a loop is reported for exactly the names on a loop or between two; *)
(* and no name is looked up after its removal from the graph.                *)
THEOREM GroupsAreSorted == ConfigSpec => []DagSortSound
<1>1. ConfigInvariant => DagSortSound
  <2> SUFFICES ASSUME ConfigInvariant PROVE DagSortSound
    BY Zenon
  <2>1. ASSUME parse = "providers"
        PROVE  /\ Len(sorted) = Len(raw.groups) /\ Range(sorted) = Range(raw.groups)
               /\ \A i, j \in DOMAIN sorted : sorted[j].name \in Range(sorted[i].proxies) => j < i
    <3>1. raw \in RawConfigs /\ NamedOnce /\ Enumerates(sorted, Range(raw.groups)) /\ ListersLast(sorted)
      BY Zenon, <2>1 DEF ConfigInvariant
    <3>2. raw.groups \in Seq(Range(raw.groups))
      BY Zenon, <3>1, ConfigAssumption DEF IsList
    <3>3. IsInjective(raw.groups)
      BY <3>1, Zenon DEF IsInjective, NamedOnce
    <3>4. Enumerates(raw.groups, Range(raw.groups))
      BY Zenon, <3>2, <3>3 DEF Enumerates
    <3>5. Len(sorted) = Len(raw.groups)
      BY Zenon, <3>1, <3>4, SameLength
    <3>6. QED
      BY Zenon, <3>1, <3>5 DEF Enumerates, ListersLast
  <2>2. ASSUME parse = "loop"
        PROVE  /\ graph # {}
               /\ graph = {n \in ConfigNodes : /\ \E c \in ConfigNodes : OnLoop(c) /\ n \in {c} \cup Reach(c)
                                               /\ \E c \in ConfigNodes : OnLoop(c) /\ c \in {n} \cup Reach(n)}
    BY <2>2, Zenon DEF ConfigInvariant, Between, LoopAbove, LoopBelow
  <2>3. parse # "nil"
    BY Zenon DEF ConfigInvariant
  <2>4. QED
    BY <2>1, <2>2, <2>3, Zenon DEF DagSortSound
<1>2. QED
  BY <1>1, ConfigInvariance, PTL

(* ParseRawConfig: in a configuration it accepts, the target of a rule ends, *)
(* followed through the groups; every group is made of proxies and groups of *)
(* the configuration, of providers that were initialised, or of both; and an *)
(* enabled resolver has a server to ask, found without asking.               *)
THEOREM AcceptedConfigsAreUsable == ConfigSpec => []AcceptedIsUsable
<1>1. ConfigInvariant => AcceptedIsUsable
  <2> SUFFICES ASSUME ConfigInvariant, parse = "ok" PROVE AcceptedIsUsable
    BY Zenon DEF AcceptedIsUsable
  <2>1. /\ Fit /\ ProvidersReady
        /\ \A i \in DOMAIN raw.rules : raw.rules[i].target \in proxies
        /\ raw.dns.enable => raw.dns.nameserver # {} /\ \E s \in raw.dns.default : s.ip
    BY Zenon DEF ConfigInvariant
  <2>2. \A n \in proxies \cap ConfigNodes : ~OnLoop(n)
    BY Zenon, <2>1 DEF Fit
  <2>3. ASSUME NEW n \in proxies \cap GroupNamesOf(raw.groups), NEW g, g = GroupCalled(n)
        PROVE  /\ g.proxies # <<>> \/ g.use # {}
               /\ \A i \in DOMAIN g.proxies : \/ g.proxies[i] \in {"DIRECT", "REJECT"}
                                              \/ \E p \in Range(raw.proxies) \cup Range(raw.groups) : p.name = g.proxies[i]
               /\ \A u \in g.use : \E p \in raw.providers : p.name = u /\ p.initial
    <3>1. GroupFits(g)
      BY Zenon, <2>1, <2>3 DEF Fit
    <3>2. g.proxies # <<>> \/ g.use # {}
      BY Zenon, <3>1 DEF GroupFits
    <3>3. \A u \in g.use : \E p \in raw.providers : p.name = u /\ p.initial
      BY Zenon, <2>1, <3>1 DEF GroupFits, Declared, ProvidersReady
    <3>4. ASSUME NEW i \in DOMAIN g.proxies
          PROVE  \/ g.proxies[i] \in {"DIRECT", "REJECT"}
                 \/ \E p \in Range(raw.proxies) \cup Range(raw.groups) : p.name = g.proxies[i]
      <4>1. g.proxies[i] \in Plain \cup GroupNamesOf(raw.groups)
        BY Zenon, <3>1 DEF GroupFits, Range
      <4>2. CASE g.proxies[i] \in Plain
        BY Zenon, <4>2 DEF Plain, Range
      <4>3. CASE g.proxies[i] \in GroupNamesOf(raw.groups)
        BY Zenon, <4>3 DEF GroupNamesOf, Range
      <4>4. QED
        BY Zenon, <4>1, <4>2, <4>3
    <3>5. QED
      BY Zenon, <3>2, <3>3, <3>4
  <2>4. QED
    BY Zenon, <2>1, <2>2, <2>3 DEF AcceptedIsUsable
<1>2. QED
  BY <1>1, ConfigInvariance, PTL
=============================================================================
