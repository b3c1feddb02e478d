------------------------ MODULE MCThresholdRuleStore ------------------------
(* Instances of ThresholdRuleStore small enough for TLC.                   *)
EXTENDS ThresholdRuleStore

\* The states between the two steps of a look-up are not explored: a look-up
\* writes nothing that a write or a reload reads.
WritersOnly == \A t \in Threads : pc[t] # "lookup"
=============================================================================
