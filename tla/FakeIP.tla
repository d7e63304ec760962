------------------------------- MODULE FakeIP -------------------------------
(* The pool of fake addresses (component/fakeip/pool.go): it keeps host    *)
(* --> address and offset --> host in one LRU cache of twice its size, and *)
(* relies on the two entries of a pair being used, and hence evicted,      *)
(* together.  A call holds the pool's lock but locks the cache anew for    *)
(* each access; a reload of the configuration (PatchFrom) copies the cache *)
(* under the cache's lock only.                                            *)
EXTENDS LruCache

CONSTANTS
  Hosts,
  Span,    \* max - min of the pool
  Size,    \* how many hosts it is to keep
  Bases    \* the values of min that configurations give

Offsets == 0..(Span - 1)

ASSUME PoolAssumption ==
  /\ Span \in Nat \ {0} /\ Size \in Nat \ {0}
  /\ Bases \subseteq Nat
  /\ Keys = Hosts \cup Offsets
  /\ Hosts \cap Int = {} /\ Nil \notin Hosts /\ Nil \notin Int
  /\ maxSize = Size * 2 /\ maxAge = 0

VARIABLES
  min,     \* the pool's lowest address
  offset,  \* the offset given last
  pc,      \* where the call that holds the lock is
  host,    \* its host
  torn     \* history: a reload copied a pair in the middle of a call, or changed min

poolVars == <<min, offset, pc, host, torn>>
vars == <<lruVars, poolVars>>

(* New.                                                                    *)
Init ==
  /\ InitLru
  /\ min \in Bases /\ offset = 0
  /\ pc = "idle" /\ host \in Hosts
  /\ torn = FALSE

(* The address at an offset, and the offset of an address.                 *)
Address(o) == min + o - 1
OffsetOf(ip) == ip - min + 1

(* Lookup, up to the first access of the cache.                            *)
Lookup(h) ==
  /\ pc = "idle"
  /\ host' = h
  /\ \/ value[h] # Nil /\ get(h) /\ pc' = "touch"
     \/ value[h] = Nil /\ UNCHANGED lruVars /\ pc' = "get"
  /\ UNCHANGED <<min, offset, torn>>

(* Lookup of a known host goes on to touch the offset.                     *)
Touch ==
  /\ pc = "touch"
  /\ IF OffsetOf(value[host]) \in Offsets
     THEN get(OffsetOf(value[host]))
     ELSE UNCHANGED lruVars
  /\ pc' = "idle"
  /\ UNCHANGED <<min, offset, host, torn>>

(* The offset d steps on from the current one, (offset + d) % Span.       *)
Ahead(d) == IF offset + d < Span THEN offset + d ELSE offset + d - Span

(* get: the next offset that is free, or the current one when the search   *)
(* comes round to it.                                                      *)
Get ==
  /\ pc = "get"
  /\ \E d \in 1..Span :
       /\ d = Span \/ value[Ahead(d)] = Nil
       /\ \A e \in 1..(d - 1) : value[Ahead(e)] # Nil
       /\ offset' = Ahead(d)
  /\ Set(offset', host)
  /\ pc' = "set"
  /\ UNCHANGED <<min, host, torn>>

SetHost ==
  /\ pc = "set"
  /\ Set(host, Address(offset))
  /\ pc' = "idle"
  /\ UNCHANGED <<min, offset, host, torn>>

(* LookBack of the address at offset o; of any other it changes nothing.   *)
LookBack(o) ==
  /\ pc = "idle" /\ value[o] # Nil
  /\ get(o)
  /\ host' = value[o]
  /\ pc' = "back"
  /\ UNCHANGED <<min, offset, torn>>

(* Fault: only the offset is touched. *)
TouchHostNot ==
  /\ pc = "back"
  /\ pc' = "idle"
  /\ UNCHANGED <<lruVars, min, offset, host, torn>>

TouchHost ==
  /\ pc = "back"
  /\ get(host)
  /\ pc' = "idle"
  /\ UNCHANGED <<min, offset, host, torn>>

(* A reload: New, then PatchFrom, then the new pool takes the place of the *)
(* old one, on which a call that is under way goes on unseen.              *)
PatchFrom(b) ==
  /\ min' = b /\ offset' = 0 /\ pc' = "idle"
  /\ torn' = (torn \/ b # min \/ pc \in {"touch", "set", "back"})
  /\ UNCHANGED <<lruVars, host>>

Next ==
  \/ \E h \in Hosts : Lookup(h)
  \/ Touch \/ Get \/ SetHost
  \/ \E o \in Offsets : LookBack(o)
  \/ TouchHost
  \/ \E b \in Bases : PatchFrom(b)

Spec == Init /\ [][Next]_vars

---------------------------------------------------------------------------
(* Every variable has its type: hosts have addresses, offsets have hosts.  *)
TypeOK ==
  /\ now \in Nat /\ clock \in Nat
  /\ value \in [Keys -> Hosts \cup Int \cup {Nil}]
  /\ \A h \in Hosts : value[h] \in Int \cup {Nil}
  /\ \A o \in Offsets : value[o] \in Hosts \cup {Nil}
  /\ expires \in [Keys -> Int] /\ used \in [Keys -> Nat]
  /\ min \in Bases /\ offset \in Offsets
  /\ pc \in {"idle", "touch", "get", "set", "back"}
  /\ host \in Hosts /\ torn \in BOOLEAN

(* A pool smaller than its range keeps the two maps inverse to each other: *)
(* the address Lookup gives to a host leads LookBack to that host, no two  *)
(* hosts share an address, and eviction takes both entries of a pair       *)
(* although the cache knows nothing of pairs.                              *)
MutuallyInverse ==
  pc = "idle" /\ ~torn /\ Size < Span =>
    /\ \A h \in Hosts : value[h] # Nil =>
         OffsetOf(value[h]) \in Offsets /\ value[OffsetOf(value[h])] = h
    /\ \A o \in Offsets : value[o] # Nil => value[value[o]] = Address(o)

(* The pool holds at most Size hosts (TestPool_MaxCacheSize): the cache    *)
(* counts entries, two of a host, and could hold twice as many half pairs. *)
Full ==
  pc = "idle" /\ ~torn /\ Size < Span => Cardinality(Cached \cap Hosts) <= Size
===========================================================================
