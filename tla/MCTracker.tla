----------------------------- MODULE MCTracker -----------------------------
(* Instances of Tracker for TLC.                                           *)
EXTENDS Tracker, TLC

CONSTANTS c1, u1, a1, sw

ApiSet == {a1}
OneTcp == {c1}
OneUdp == {u1}
NoUdp == {}
===========================================================================
