--------------------------- MODULE MigrationProofs ---------------------------
(***************************************************************************)
(* What holds of Migration for every set of hotels, policies, rules and    *)
(* whatever the files have.                                                *)
(***************************************************************************)
EXTENDS Migration, TLAPS

(***************************************************************************)
(* The inductive invariant.                                                *)
(***************************************************************************)

\* The keys the script has looked at when it is about to do a step.
SeenKeys(step) ==
  CASE step = "properties" -> {}
    [] step = "policies" -> Hotels
    [] step = "balance" -> Discovered
    [] step = "rooms" -> Discovered \cup {"balance_default_threshold"}
    [] step = "commit" -> Rows
    [] OTHER -> {}

\* Whatever the script has looked at is there, or planned, or has been deleted since.
PlanOK ==
  /\ \A k \in SeenKeys(pc) \cap FileRows : row[k] = None => k \in plan.rows
  /\ pc \in {"rooms", "commit"} =>
       \A r \in DOMAIN FileRules : rule[r] = None => r \in plan.rules \cup deleted

\* What comes from the files came with a commit, which left no gap.
ImportedOK ==
  /\ (\E k \in Rows : row[k] = "file") \/ (\E r \in RuleIds : rule[r] = "file") => imported
  /\ imported => /\ \A k \in FileRows : row[k] # None
                 /\ \A r \in DOMAIN FileRules : rule[r] = None => r \in deleted

MigrationInv == TypeOK /\ PlanOK /\ ImportedOK /\ UnknownIsImported

\* Empty tables, no service, no script.
LEMMA InitMigrationInv == Init => MigrationInv
<1> SUFFICES ASSUME Init PROVE MigrationInv
  OBVIOUS
<1>1. TypeOK
  BY DEF Init, TypeOK, Plan, NoPlan
<1>2. PlanOK /\ ImportedOK /\ UnknownIsImported
  BY FileAssumptions DEF Init, PlanOK, SeenKeys, ImportedOK, UnknownIsImported, Sources
<1> QED BY <1>1, <1>2 DEF MigrationInv

\* No step of the service empties a row, and a rule it empties is one somebody deletes.
LEMMA ServiceKeepsPlan ==
  ASSUME PlanOK, ImportedOK, UNCHANGED script,
         \A k \in Rows : row[k] # None => row'[k] # None,
         \A k \in Rows : row'[k] = "file" => row[k] = "file",
         \A r \in RuleIds : rule'[r] = "file" => rule[r] = "file",
         \A r \in RuleIds : rule'[r] = None => (rule[r] = None /\ (r \in deleted => r \in deleted'))
                                               \/ r \in deleted'
  PROVE  PlanOK' /\ ImportedOK'
<1>1. SeenKeys(pc) \cap FileRows \subseteq Rows /\ DOMAIN FileRules \subseteq RuleIds /\ FileRows \subseteq Rows
  BY FileAssumptions
<1>2. PlanOK'
  BY <1>1 DEF PlanOK, script, SeenKeys
<1>3. ImportedOK'
  BY <1>1 DEF ImportedOK, script
<1> QED BY <1>2, <1>3

(***************************************************************************)
(* The steps of the service.                                               *)
(***************************************************************************)

\* A page load inserts rows and copies them.
LEMMA DiscoverKeeps ==
  ASSUME MigrationInv, NEW ks \in (SUBSET Hotels) \cup (SUBSET Policies), Discover(ks)
  PROVE  MigrationInv'
<1> USE DEF MigrationInv
<1>1. /\ UNCHANGED <<rule, owner, up, script, deleted>> /\ known' = known \cup ks /\ up
      /\ \A k \in ks : row[k] = None
      /\ row' = [k \in Rows |-> IF k \in ks THEN "detected" ELSE row[k]]
  BY DEF Discover
<1>2. ks \subseteq Discovered
  <2>1. ks \subseteq Hotels \/ ks \subseteq Policies
    OBVIOUS
  <2> QED BY <2>1 DEF Discovered
<1>3. "detected" # None /\ "detected" \in Sources
  BY FileAssumptions DEF Sources
<1>4. row' \in [Rows -> Sources \cup {None}]
  BY <1>1, <1>3 DEF TypeOK
<1>5. \A k \in Rows : row[k] # None => row'[k] = row[k]
  BY <1>1
<1>6. \A k \in Discovered : k \in Rows
  BY DEF Rows
<1>7. known' \subseteq {k \in Discovered : row'[k] # None}
  BY <1>1, <1>2, <1>3, <1>5, <1>6 DEF TypeOK
<1>8. TypeOK'
  BY <1>1, <1>4, <1>7 DEF TypeOK, script
<1>9. PlanOK' /\ ImportedOK'
  BY <1>1, <1>5, ServiceKeepsPlan
<1>10. UnknownIsImported'
  BY <1>1, <1>6 DEF UnknownIsImported
<1> QED BY <1>8, <1>9, <1>10

\* The Settings page writes a row it shows.
LEMMA TypeRowKeeps ==
  ASSUME MigrationInv, NEW k \in Rows, TypeRow(k)
  PROVE  MigrationInv'
<1> USE DEF MigrationInv
<1>1. /\ UNCHANGED <<rule, owner, up, known, script, deleted>>
      /\ k \in known \cup Settings /\ row' = [row EXCEPT ![k] = "typed"]
  BY DEF TypeRow
<1>2. "typed" # None /\ "typed" \in Sources
  BY FileAssumptions DEF Sources
<1>3. row' \in [Rows -> Sources \cup {None}]
  BY <1>1, <1>2 DEF TypeOK
<1>4. \A l \in Rows : row'[l] = IF l = k THEN "typed" ELSE row[l]
  BY <1>1 DEF TypeOK
<1>5. \A l \in Discovered : l \in Rows
  BY DEF Rows
<1>6. known' \subseteq {l \in Discovered : row'[l] # None}
  BY <1>1, <1>2, <1>4, <1>5 DEF TypeOK
<1>7. TypeOK'
  BY <1>1, <1>3, <1>6 DEF TypeOK, script
<1>8. PlanOK' /\ ImportedOK'
  BY <1>1, <1>2, <1>4, ServiceKeepsPlan
<1>9. UnknownIsImported'
  BY <1>1, <1>4, <1>5, FileAssumptions DEF UnknownIsImported
<1> QED BY <1>7, <1>8, <1>9

\* A rule is saved with its hotels.
LEMMA SaveRuleKeeps ==
  ASSUME MigrationInv, NEW r \in RuleIds, NEW hs \in SUBSET Hotels, SaveRule(r, hs)
  PROVE  MigrationInv'
<1> USE DEF MigrationInv
<1>1. /\ UNCHANGED <<row, up, known, script>>
      /\ rule' = [rule EXCEPT ![r] = "typed"] /\ deleted' = deleted \ {r}
      /\ owner' = [h \in Hotels |-> IF h \in hs THEN r
                                    ELSE IF owner[h] = r THEN None ELSE owner[h]]
  BY DEF SaveRule
<1>2. "typed" # None
  BY FileAssumptions DEF Sources
<1>3. rule' \in [RuleIds -> {"file", "typed", None}]
  BY <1>1 DEF TypeOK
<1>4. \A q \in RuleIds : rule'[q] = IF q = r THEN "typed" ELSE rule[q]
  BY <1>1 DEF TypeOK
<1>5. owner' \in [Hotels -> {q \in RuleIds : rule'[q] # None} \cup {None}]
  BY <1>1, <1>2, <1>4 DEF TypeOK
<1>6. TypeOK'
  BY <1>1, <1>3, <1>5 DEF TypeOK, script
<1>7. PlanOK' /\ ImportedOK'
  BY <1>1, <1>2, <1>4, ServiceKeepsPlan
<1>8. UnknownIsImported'
  BY <1>1 DEF UnknownIsImported
<1> QED BY <1>6, <1>7, <1>8

\* A rule goes with its links.
LEMMA DeleteRuleKeeps ==
  ASSUME MigrationInv, NEW r \in RuleIds, DeleteRule(r)
  PROVE  MigrationInv'
<1> USE DEF MigrationInv
<1>1. /\ UNCHANGED <<row, up, known, script>>
      /\ rule' = [rule EXCEPT ![r] = None] /\ deleted' = deleted \cup {r}
      /\ owner' = [h \in Hotels |-> IF owner[h] = r THEN None ELSE owner[h]]
  BY DEF DeleteRule
<1>2. rule' \in [RuleIds -> {"file", "typed", None}]
  BY <1>1 DEF TypeOK
<1>3. \A q \in RuleIds : rule'[q] = IF q = r THEN None ELSE rule[q]
  BY <1>1 DEF TypeOK
<1>4. owner' \in [Hotels -> {q \in RuleIds : rule'[q] # None} \cup {None}]
  BY <1>1, <1>3 DEF TypeOK
<1>5. TypeOK'
  BY <1>1, <1>2, <1>4 DEF TypeOK, script
<1>6. "file" # None
  BY FileAssumptions DEF Sources
<1>7. PlanOK' /\ ImportedOK'
  BY <1>1, <1>3, <1>6, ServiceKeepsPlan
<1>8. UnknownIsImported'
  BY <1>1 DEF UnknownIsImported
<1> QED BY <1>5, <1>7, <1>8

(***************************************************************************)
(* The steps of the script.                                                *)
(***************************************************************************)

\* A section without a rule of its own: settings, hotels or policies.
LEMMA SectionKeeps ==
  ASSUME MigrationInv, NEW step, NEW keys, NEW next,
         Section(step, keys, next),
         next \in {"policies", "balance", "commit"},
         step = "rooms" <=> next = "commit",
         SeenKeys(next) \cap FileRows \subseteq SeenKeys(step) \cup keys
  PROVE  MigrationInv'
<1> USE DEF MigrationInv
<1>1. /\ pc = step /\ pc' = next
      /\ plan' = [plan EXCEPT !.rows = plan.rows \cup Missing(keys)]
      /\ UNCHANGED <<tables, up, known, imported, deleted>>
  BY DEF Section
<1>2. Missing(keys) \subseteq FileRows
  BY DEF Missing
<1>3. /\ plan' \in Plan /\ plan'.rows = plan.rows \cup Missing(keys) /\ plan'.rules = plan.rules
  BY <1>1, <1>2 DEF TypeOK, Plan
<1>4. TypeOK'
  BY <1>1, <1>3 DEF TypeOK, tables
<1>5. ASSUME NEW k \in SeenKeys(pc') \cap FileRows, row'[k] = None PROVE k \in plan'.rows
  BY <1>1, <1>3, <1>5 DEF PlanOK, Missing, tables
<1>6. ASSUME pc' \in {"rooms", "commit"}, NEW r \in DOMAIN FileRules, rule'[r] = None
      PROVE  r \in plan'.rules \cup deleted'
  BY <1>1, <1>3, <1>6 DEF PlanOK, tables
<1>7. PlanOK'
  BY <1>5, <1>6 DEF PlanOK
<1>8. ImportedOK' /\ UnknownIsImported'
  BY <1>1 DEF ImportedOK, UnknownIsImported, tables
<1> QED BY <1>4, <1>7, <1>8

\* The section of the default threshold and the balance rules.
LEMMA BalanceKeeps ==
  ASSUME MigrationInv, MigrateBalanceRules
  PROVE  MigrationInv'
<1> USE DEF MigrationInv
<1> DEFINE default == {"balance_default_threshold"}
<1>1. /\ pc = "balance" /\ pc' = "rooms"
      /\ plan' = [rows |-> plan.rows \cup Missing(default),
                  rules |-> {r \in DOMAIN FileRules : rule[r] = None}]
      /\ UNCHANGED <<tables, up, known, imported, deleted>>
  BY DEF MigrateBalanceRules
<1>2. Missing(default) \subseteq FileRows
  BY DEF Missing
<1>3. plan' \in Plan
  BY <1>1, <1>2 DEF TypeOK, Plan
<1>4. TypeOK'
  BY <1>1, <1>3 DEF TypeOK, tables
<1>5. ASSUME NEW k \in SeenKeys(pc') \cap FileRows, row'[k] = None PROVE k \in plan'.rows
  BY <1>1, <1>5 DEF PlanOK, SeenKeys, Missing, tables
<1>6. PlanOK'
  BY <1>1, <1>5 DEF PlanOK, tables
<1>7. ImportedOK' /\ UnknownIsImported'
  BY <1>1 DEF ImportedOK, UnknownIsImported, tables
<1> QED BY <1>4, <1>6, <1>7

\* What a refused or killed run leaves behind.
LEMMA AbandonKeeps ==
  ASSUME MigrationInv, Abandon
  PROVE  MigrationInv'
<1> USE DEF MigrationInv
<1>1. /\ pc' = "off" /\ plan' = NoPlan
      /\ UNCHANGED <<tables, up, known, imported, deleted>>
  BY DEF Abandon
<1>2. TypeOK'
  BY <1>1 DEF TypeOK, tables, Plan, NoPlan
<1>3. PlanOK' /\ ImportedOK' /\ UnknownIsImported'
  BY <1>1 DEF PlanOK, SeenKeys, ImportedOK, UnknownIsImported, tables
<1> QED BY <1>2, <1>3

\* The one transaction of a run.
LEMMA CommitKeeps ==
  ASSUME MigrationInv, Commit
  PROVE  MigrationInv'
<1> USE DEF MigrationInv
<1>1. /\ pc = "commit" /\ pc' = "off" /\ plan' = NoPlan
      /\ imported' = TRUE /\ deleted' = deleted \ plan.rules
      /\ UNCHANGED <<up, known>>
      /\ row' = [k \in Rows |-> IF k \in plan.rows THEN "file" ELSE row[k]]
      /\ rule' = [r \in RuleIds |-> IF r \in plan.rules THEN "file" ELSE rule[r]]
      /\ owner' = [h \in Hotels |-> IF PlannedOwner(h) = {} THEN owner[h]
                                    ELSE CHOOSE r \in PlannedOwner(h) : TRUE]
  BY DEF Commit, Insert
<1>2. "file" # None /\ "file" \in Sources
  BY FileAssumptions DEF Sources
<1>3. /\ FileRows \subseteq Rows /\ DOMAIN FileRules \subseteq RuleIds
      /\ plan.rules \subseteq DOMAIN FileRules
  BY FileAssumptions DEF TypeOK, Plan
<1>4. row' \in [Rows -> Sources \cup {None}] /\ rule' \in [RuleIds -> {"file", "typed", None}]
  BY <1>1, <1>2 DEF TypeOK
<1>5. ASSUME NEW h \in Hotels
      PROVE  owner'[h] \in {r \in RuleIds : rule'[r] # None} \cup {None}
  <2>1. CASE PlannedOwner(h) = {}
    BY <1>1, <1>2, <2>1 DEF TypeOK
  <2>2. CASE PlannedOwner(h) # {}
    <3>1. owner'[h] \in PlannedOwner(h)
      BY <1>1, <2>2
    <3>2. owner'[h] \in plan.rules
      BY <3>1 DEF PlannedOwner
    <3> QED BY <1>1, <1>2, <1>3, <3>2
  <2> QED BY <2>1, <2>2
<1>6. owner' \in [Hotels -> {r \in RuleIds : rule'[r] # None} \cup {None}]
  BY <1>1, <1>5
<1>7. known' \subseteq {k \in Discovered : row'[k] # None}
  BY <1>1, <1>2 DEF TypeOK, Rows
<1>8. TypeOK'
  BY <1>1, <1>4, <1>6, <1>7 DEF TypeOK, Plan, NoPlan
<1>9. PlanOK'
  BY <1>1 DEF PlanOK, SeenKeys
<1>10. ASSUME NEW k \in FileRows PROVE row'[k] # None
  BY <1>1, <1>2, <1>3 DEF PlanOK, SeenKeys
<1>11. ASSUME NEW r \in DOMAIN FileRules, rule'[r] = None PROVE r \in deleted'
  BY <1>1, <1>2, <1>3, <1>11 DEF PlanOK
<1>12. ImportedOK'
  BY <1>1, <1>10, <1>11 DEF ImportedOK
<1>13. UnknownIsImported'
  BY <1>1 DEF UnknownIsImported, Rows
<1> QED BY <1>8, <1>9, <1>12, <1>13

(***************************************************************************)
(* The invariant and what follows from it.                                 *)
(***************************************************************************)

\* Every step keeps the invariant.
LEMMA NextMigrationInv == MigrationInv /\ [Next]_vars => MigrationInv'
<1> SUFFICES ASSUME MigrationInv, [Next]_vars PROVE MigrationInv'
  OBVIOUS
<1> USE DEF MigrationInv
<1>1. CASE UNCHANGED vars
  BY <1>1 DEF vars, tables, script, TypeOK, PlanOK, SeenKeys, ImportedOK, UnknownIsImported
<1>2. CASE StartService
  <2>1. /\ up' = TRUE /\ known' = {k \in Discovered : row[k] # None}
        /\ UNCHANGED <<tables, script, deleted>>
    BY <1>2 DEF StartService
  <2>2. TypeOK' /\ UnknownIsImported'
    BY <2>1 DEF TypeOK, UnknownIsImported, tables, script
  <2>3. PlanOK' /\ ImportedOK'
    BY <2>1 DEF PlanOK, SeenKeys, ImportedOK, tables, script
  <2> QED BY <2>2, <2>3
<1>3. CASE StopService
  <2>1. up' = FALSE /\ known' = {} /\ UNCHANGED <<tables, script, deleted>>
    BY <1>3 DEF StopService
  <2>2. TypeOK' /\ UnknownIsImported'
    BY <2>1 DEF TypeOK, UnknownIsImported, tables, script
  <2>3. PlanOK' /\ ImportedOK'
    BY <2>1 DEF PlanOK, SeenKeys, ImportedOK, tables, script
  <2> QED BY <2>2, <2>3
<1>4. CASE \E ks \in (SUBSET Hotels) \cup (SUBSET Policies) : Discover(ks)
  BY <1>4, DiscoverKeeps
<1>5. CASE \E k \in Rows : TypeRow(k)
  BY <1>5, TypeRowKeeps
<1>6. CASE \E r \in RuleIds : DeleteRule(r)
  BY <1>6, DeleteRuleKeeps
<1>7. CASE \E r \in RuleIds : \E hs \in SUBSET Hotels : SaveRule(r, hs)
  BY <1>7, SaveRuleKeeps
<1>8. CASE StartScript
  <2>1. pc' = "properties" /\ UNCHANGED <<tables, up, known, plan, imported, deleted>>
    BY <1>8 DEF StartScript
  <2> QED BY <2>1 DEF TypeOK, PlanOK, SeenKeys, ImportedOK, UnknownIsImported, tables
<1>9. CASE MigrateProperties
  <2>1. SeenKeys("policies") \cap FileRows \subseteq SeenKeys("properties") \cup Hotels
    BY DEF SeenKeys
  <2> QED BY <1>9, <2>1, SectionKeeps DEF MigrateProperties
<1>10. CASE MigrateCancellationRules
  <2>1. SeenKeys("balance") \cap FileRows \subseteq SeenKeys("policies") \cup Policies
    BY DEF SeenKeys, Discovered
  <2> QED BY <1>10, <2>1, SectionKeeps DEF MigrateCancellationRules
<1>11. CASE MigrateBalanceRules
  BY <1>11, BalanceKeeps
<1>12. CASE MigrateRoomsThreshold
  <2>1. SeenKeys("commit") \cap FileRows \subseteq SeenKeys("rooms") \cup {"rooms_threshold"}
    BY DEF SeenKeys, Rows, Settings
  <2> QED BY <1>12, <2>1, SectionKeeps DEF MigrateRoomsThreshold
<1>13. CASE Commit
  BY <1>13, CommitKeeps
<1>14. CASE Abandon
  BY <1>14, AbandonKeeps
<1> QED
  BY <1>1, <1>2, <1>3, <1>4, <1>5, <1>6, <1>7, <1>8, <1>9, <1>10, <1>11, <1>12, <1>13,
     <1>14 DEF Next

\* The invariant holds of every behaviour.
LEMMA MigrationInvariant == Spec => []MigrationInv
BY InitMigrationInv, NextMigrationInv, PTL DEF Spec

\* Every variable keeps its type; in particular no hotel is linked to a rule that is
\* not there, and the copies never have what the tables have not.
THEOREM TypeCorrect == Spec => []TypeOK
<1>1. MigrationInv => TypeOK
  BY DEF MigrationInv
<1> QED BY <1>1, MigrationInvariant, PTL

\* However runs are refused, killed and repeated, and whatever the service does
\* meanwhile: what the files have is all there, or nothing has come from them
\* (migrate_config_data.py:14-15, 131).
THEOREM SecondRunNeedsNothing == Spec => []SecondRunIsNoop
<1>1. MigrationInv => SecondRunIsNoop
  BY DEF MigrationInv, ImportedOK, SecondRunIsNoop
<1> QED BY <1>1, MigrationInvariant, PTL

\* A row the copies of the running service lack has come from the files
\* (property_store.py:107-110, rules_store.py:148).
THEOREM OnlyImportsAreUnknown == Spec => []UnknownIsImported
<1>1. MigrationInv => UnknownIsImported
  BY DEF MigrationInv
<1> QED BY <1>1, MigrationInvariant, PTL

\* A commit of the script changes nothing that is there, and the service takes back
\* nothing it did not type itself (migrate_config_data.py:14, property_store.py:99-101).
THEOREM GapsAreFilledOnly == Spec => FillsGapsOnly
<1> DEFINE Fills ==
      /\ \A k \in Rows : row[k] # None /\ row'[k] # row[k] => row'[k] = "typed"
      /\ pc = "commit" /\ pc' = "off" =>
           /\ \A r \in RuleIds : rule[r] # None => rule'[r] = rule[r]
           /\ \A h \in Hotels : owner[h] # None => owner'[h] = owner[h]
<1>1. MigrationInv /\ [Next]_vars => [Fills]_vars
  <2> SUFFICES ASSUME MigrationInv, Next PROVE Fills
    OBVIOUS
  <2> USE DEF MigrationInv
  <2>1. CASE StartService \/ StopService
    BY <2>1 DEF StartService, StopService, tables, script
  <2>2. CASE \E ks \in (SUBSET Hotels) \cup (SUBSET Policies) : Discover(ks)
    BY <2>2 DEF Discover, script
  <2>3. CASE \E k \in Rows : TypeRow(k)
    BY <2>3 DEF TypeRow, TypeOK, script
  <2>4. CASE \E r \in RuleIds : DeleteRule(r)
    BY <2>4 DEF DeleteRule, script
  <2>5. CASE \E r \in RuleIds : \E hs \in SUBSET Hotels : SaveRule(r, hs)
    BY <2>5 DEF SaveRule, script
  <2>6. CASE StartScript \/ Abandon
    BY <2>6 DEF StartScript, Abandon, tables
  <2>7. CASE MigrateProperties \/ MigrateCancellationRules \/ MigrateRoomsThreshold
    BY <2>7 DEF MigrateProperties, MigrateCancellationRules, MigrateRoomsThreshold,
                Section, tables
  <2>8. CASE MigrateBalanceRules
    BY <2>8 DEF MigrateBalanceRules, tables
  <2>9. CASE Commit
    <3>1. ~Conflict /\ Insert
      BY <2>9 DEF Commit
    <3>2. plan.rows \subseteq Rows /\ plan.rules \subseteq RuleIds
      BY FileAssumptions DEF TypeOK, Plan
    <3>3. \A k \in Rows : row[k] # None => row'[k] = row[k]
      BY <3>1 DEF Conflict, Insert
    <3>4. \A r \in RuleIds : rule[r] # None => rule'[r] = rule[r]
      BY <3>1 DEF Conflict, Insert
    <3>5. \A h \in Hotels : owner[h] # None => owner'[h] = owner[h]
      BY <3>1 DEF Conflict, Insert
    <3> QED BY <3>3, <3>4, <3>5
  <2> QED
    BY <2>1, <2>2, <2>3, <2>4, <2>5, <2>6, <2>7, <2>8, <2>9 DEF Next
<1>2. FillsGapsOnly <=> [][Fills]_vars
  BY PTL DEF FillsGapsOnly
<1> QED BY <1>1, <1>2, MigrationInvariant, PTL DEF Spec
=============================================================================
