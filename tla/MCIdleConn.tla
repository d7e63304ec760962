----------------------------- MODULE MCIdleConn -----------------------------
(* An instance of IdleConn for TLC.                                        *)
EXTENDS IdleConn, TLC

CONSTANTS g1, g2

TwoCopiers == {g1, g2}
Symmetry == Permutations(TwoCopiers)
===========================================================================
