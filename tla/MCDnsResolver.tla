--------------------------- MODULE MCDnsResolver ---------------------------
(* An instance of DnsResolver for TLC: one configuration for each way that *)
(* a question can take.                                                    *)
EXTENDS DnsResolver

CONSTANTS a, c1, c2, m1, m2, f1, p1

MCConfigs ==
  {[fallback |-> TRUE, policy |-> {}, domains |-> {}],
   [fallback |-> TRUE, policy |-> {}, domains |-> {a}],
   [fallback |-> FALSE, policy |-> {a}, domains |-> {}]}
=============================================================================
