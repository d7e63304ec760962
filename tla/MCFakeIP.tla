------------------------------ MODULE MCFakeIP ------------------------------
(* An instance of FakeIP for TLC.  The view keeps the order of the times   *)
(* of use and not the times, on which no step depends.                     *)
EXTENDS FakeIP

CONSTANTS a, b, c

ThreeHosts == {a, b, c}
SmallBases == {2, 3}
HostsAndOffsets == ThreeHosts \cup 0..2

Rank(k) == IF value[k] = Nil THEN 0 ELSE Cardinality({j \in Cached : used[j] <= used[k]})
View == <<value, [k \in Keys |-> Rank(k)], poolVars>>
===========================================================================
