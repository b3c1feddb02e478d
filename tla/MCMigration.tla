---------------------------- MODULE MCMigration ----------------------------
(* Files with a hotel, a policy, both settings and one rule for a hotel.   *)
EXTENDS Migration

CONSTANTS h1, h2, p1, p2, r1, r2

MCHotels == {h1, h2}
MCPolicies == {p1, p2}
MCRuleIds == {r1, r2}
MCFileRows == {h1, p1} \cup Settings
MCFileRules == [r \in {r1} |-> {h1}]
=============================================================================
