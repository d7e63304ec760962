---------------------------- MODULE MCRuleStore ----------------------------
(* Three rules under three keys, two of them with the same payload: r2 is  *)
(* stored as a text with too many fields, r3 as the text of r1.  The       *)
(* database starts with every content over those keys.                     *)
EXTENDS RuleStore

CONSTANTS r1, r2, r3, k1, k2, k3, pa, pb, a1

MCRules == {r1, r2, r3}
MCKeys == {k1, k2, k3}
MCKeyOrder == <<k1, k2, k3>>
MCKeyOf == [r \in MCRules |-> CASE r = r1 -> k1 [] r = r2 -> k2 [] r = r3 -> k3]
MCPayloadOf == [r \in MCRules |-> IF r = r3 THEN pb ELSE pa]
MCStoredAs ==
  [r \in MCRules |-> CASE r = r1 -> r1 [] r = r2 -> BadLength [] r = r3 -> r1]
MCStoredAsIs == [r \in MCRules |-> r]
MCConfigs == {<<>>, <<r2>>}
MCEmptyConfig == {<<>>}
MCAnyDb == [MCKeys -> MCRules \cup {BadLength, BadParse, Absent}]
MCOneClient == {a1}
MCNoClient == {}
============================================================================
