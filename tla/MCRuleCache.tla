---------------------------- MODULE MCRuleCache ----------------------------
(* Two rules: r1 matches by address and asks for it, r2 by source port.    *)
(* Flows f1 and f2 differ in the source port alone and share a cache key;  *)
(* f3 is UDP and has a host only.  The text of r2 has a field too many.    *)
(* The database starts with every content over the two keys.               *)
EXTENDS RuleCache

CONSTANTS r1, r2, k1, k2, pa, pb, a1, h1, f1, f2, f3, ka, kb, p, q

MCRules == {r1, r2}
MCKeys == {k1, k2}
MCKeyOrder == <<k1, k2>>
MCKeyOf == [r \in MCRules |-> IF r = r1 THEN k1 ELSE k2]
MCPayloadOf == [r \in MCRules |-> IF r = r1 THEN pa ELSE pb]
MCStoredAs == [r \in MCRules |-> IF r = r1 THEN r1 ELSE BadLength]
MCConfigs == {<<r1>>}
MCAnyDb == [MCKeys -> MCRules \cup {BadLength, BadParse, Absent}]
MCAllModes == {"Rule", "Direct", "Global"}
MCClients == {a1}
MCHandlers == {h1}
MCFlows == {f1, f2, f3}
MCInfoKeys == {ka, kb}
MCInfoKey == [f \in MCFlows |-> IF f = f3 THEN kb ELSE ka]
MCIpFrom == [f \in MCFlows |-> IF f = f3 THEN "dns" ELSE "packet"]
MCUdp == {f3}
MCHostMatches == [r \in MCRules |-> IF r = r2 THEN {f2} ELSE {}]
MCIpMatches == [r \in MCRules |-> IF r = r1 THEN MCFlows ELSE {}]
MCShouldResolve == {r1}
MCNames == {p, q}
MCAdapter == [r \in MCRules |-> IF r = r1 THEN p ELSE q]
MCUdpNames == {p}
MCNamesIn == [g \in 0..1 |-> IF g = 0 THEN {} ELSE {p, q}]
============================================================================
