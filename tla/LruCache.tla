------------------------------ MODULE LruCache ------------------------------
(* common/cache/lrucache.go: a map with a list in order of use, a bound on *)
(* its length and an age.  Every method holds the lock throughout, so each *)
(* is one step.  The list is the order of the time stamps in used.         *)
EXTENDS Integers, FiniteSets

CONSTANTS
  Keys,
  maxSize,         \* no bound if 0
  maxAge,          \* no age if 0
  updateAgeOnGet,
  staleReturn,
  Nil              \* no value

ASSUME LruAssumption ==
  /\ maxSize \in Nat /\ maxAge \in Nat
  /\ updateAgeOnGet \in BOOLEAN /\ staleReturn \in BOOLEAN

VARIABLES
  now,      \* time.Now().Unix()
  value,    \* the value of each entry, Nil where there is none
  expires,  \* its time of expiry
  used,     \* when it was last moved to the back
  clock     \* the number of moves so far

lruVars == <<now, value, expires, used, clock>>

InitLru ==
  /\ now = 0 /\ clock = 0
  /\ value = [k \in Keys |-> Nil]
  /\ expires = [k \in Keys |-> 0]
  /\ used = [k \in Keys |-> 0]

Cached == {k \in Keys : value[k] # Nil}

Ages == ~staleReturn /\ maxAge > 0

(* k is at the front of the list of keys ks, u being their times of use.   *)
Front(k, ks, u) == k \in ks /\ \A j \in ks : u[k] <= u[j]

(* What maybeDeleteOldest removes: expired entries, until the first that   *)
(* is not.                                                                 *)
Oldest(ks, u, x) ==
  {k \in ks : Ages /\ \A j \in ks : u[j] <= u[k] => x[j] <= now}

(* The entries that remain are ks, with values v.                          *)
Keep(ks, v) == value' = [j \in Keys |-> IF j \in ks THEN v[j] ELSE Nil]

MoveToBack(k) ==
  /\ clock' = clock + 1
  /\ used' = [used EXCEPT ![k] = clock + 1]

SetWithExpire(k, v, x) ==
  LET more == Cached \cup {k}
      over == k \notin Cached /\ maxSize > 0 /\ Cardinality(more) > maxSize
  IN /\ MoveToBack(k)
     /\ expires' = [expires EXCEPT ![k] = x]
     /\ \E f \in more :
          LET kept == IF over THEN more \ {f} ELSE more
          IN /\ Front(f, more, used')
             /\ Keep(kept \ Oldest(kept, used', expires'), [value EXCEPT ![k] = v])
     /\ UNCHANGED now

Set(k, v) == SetWithExpire(k, v, IF maxAge > 0 THEN now + maxAge ELSE 0)

get(k) ==
  \/ /\ value[k] = Nil
     /\ UNCHANGED lruVars
  \/ /\ value[k] # Nil /\ Ages /\ expires[k] <= now
     /\ LET kept == Cached \ {k} IN Keep(kept \ Oldest(kept, used, expires), value)
     /\ UNCHANGED <<now, expires, used, clock>>
  \/ /\ value[k] # Nil /\ ~(Ages /\ expires[k] <= now)
     /\ MoveToBack(k)
     /\ expires' = IF maxAge > 0 /\ updateAgeOnGet
                   THEN [expires EXCEPT ![k] = now + maxAge]
                   ELSE expires
     /\ UNCHANGED <<now, value>>

Delete(k) ==
  /\ value' = [value EXCEPT ![k] = Nil]
  /\ UNCHANGED <<now, expires, used, clock>>
===========================================================================
