----------------------------- MODULE MCProvider -----------------------------
(* An instance of Provider for TLC.                                        *)
EXTENDS Provider

CONSTANTS c1, c2, bad, api1
=============================================================================
