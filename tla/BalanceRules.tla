---------------------------- MODULE BalanceRules ----------------------------
(***************************************************************************)
(* What ThresholdRuleStore (src/threshold_rules_store.py) promises its     *)
(* callers: one default threshold, a set of named rules, every hotel in at *)
(* most one of them, and a look-up that answers with the hotel's rule or   *)
(* with the default.  There is no database and no cache here; every        *)
(* operation is one step.  ThresholdRuleStore.tla implements this module.  *)
(***************************************************************************)

CONSTANTS
  Threads,     \* the callers of get_threshold
  Hotels,      \* property codes
  RuleIds,     \* ids of named rules; a rule's label is its id here
  Thresholds,  \* threshold values
  Fallback,    \* the default_threshold ThresholdRuleStore is built with
  None         \* Python's None

VARIABLES
  default,     \* the threshold of every hotel without a rule
  threshold,   \* RuleIds -> the rule's threshold, None: there is no such rule
  owner,       \* Hotels -> the rule the hotel belongs to, or None
  answer       \* Threads -> what the thread's last look-up returned

vars == <<default, threshold, owner, answer>>

Answer == [hotel : Hotels, threshold : Thresholds, rule : RuleIds \cup {None}]

TypeOK ==
  /\ default \in Thresholds
  /\ threshold \in [RuleIds -> Thresholds \cup {None}]
  /\ owner \in [Hotels -> RuleIds \cup {None}]
  /\ answer \in [Threads -> Answer \cup {None}]

Init ==
  /\ default = Fallback
  /\ threshold = [r \in RuleIds |-> None]
  /\ owner = [h \in Hotels |-> None]
  /\ answer = [t \in Threads |-> None]

Effective(h) ==
  [hotel |-> h,
   threshold |-> IF owner[h] = None THEN default ELSE threshold[owner[h]],
   rule |-> owner[h]]

SetDefault(x) ==
  /\ default' = x
  /\ UNCHANGED <<threshold, owner, answer>>

\* A hotel named by the save leaves its rule for r; a hotel r had and the save
\* does not name goes back to the default; every other hotel stays put.
SaveRule(r, x, hs) ==
  /\ threshold' = [threshold EXCEPT ![r] = x]
  /\ owner' = [h \in Hotels |-> IF h \in hs THEN r
                                ELSE IF owner[h] = r THEN None ELSE owner[h]]
  /\ UNCHANGED <<default, answer>>

AddRule(r, x) ==
  /\ threshold[r] = None
  /\ threshold' = [threshold EXCEPT ![r] = x]
  /\ UNCHANGED <<default, owner, answer>>

DeleteRule(r) ==
  /\ threshold' = [threshold EXCEPT ![r] = None]
  /\ owner' = [h \in Hotels |-> IF owner[h] = r THEN None ELSE owner[h]]
  /\ UNCHANGED <<default, answer>>

Lookup(t, h) ==
  /\ answer' = [answer EXCEPT ![t] = Effective(h)]
  /\ UNCHANGED <<default, threshold, owner>>

Next ==
  \/ \E x \in Thresholds : SetDefault(x)
  \/ \E r \in RuleIds, x \in Thresholds, hs \in SUBSET Hotels : SaveRule(r, x, hs)
  \/ \E r \in RuleIds, x \in Thresholds : AddRule(r, x)
  \/ \E r \in RuleIds : DeleteRule(r)
  \/ \E t \in Threads, h \in Hotels : Lookup(t, h)

Spec == Init /\ [][Next]_vars

\* Every rule a hotel belongs to exists, so Effective always has a threshold.
OwnersExist == \A h \in Hotels : owner[h] # None => threshold[owner[h]] # None
=============================================================================
