------------------------------ MODULE Migration ------------------------------
(***************************************************************************)
(* Migration (src/migrate_config_data.py): the script that brings the old  *)
(* configuration files into the database, run before, beside or after the  *)
(* service, once or again.  It looks section by section for what has no    *)
(* row yet and commits all of it in one transaction.                       *)
(*                                                                         *)
(* Of a row only where its content comes from matters: the files, the      *)
(* detection of a page load, or somebody who typed it on the Settings page.*)
(* A stand-in, which PropertyStore replaces by what a later report has, is *)
(* no content: that replacement is left out.                               *)
(***************************************************************************)
EXTENDS FiniteSets

CONSTANTS
  Hotels,     \* property codes, keys of the properties table
  Policies,   \* rule keys of the cancellation_rules table
  RuleIds,    \* ids of balance rules
  FileRows,   \* the hotels, policies and settings the files have
  FileRules,  \* the balance rules the files have: ids -> their hotels
  None

Settings == {"balance_default_threshold", "rooms_threshold"}
Discovered == Hotels \cup Policies
Rows == Discovered \cup Settings
Sources == {"file", "detected", "typed"}

ASSUME FileAssumptions ==
  /\ Hotels \cap Policies = {} /\ Discovered \cap Settings = {}
  /\ FileRows \subseteq Rows
  /\ DOMAIN FileRules \subseteq RuleIds
  /\ \A r \in DOMAIN FileRules : FileRules[r] \subseteq Hotels
  /\ \A r, s \in DOMAIN FileRules : r # s => FileRules[r] \cap FileRules[s] = {}
  /\ None \notin Sources \cup RuleIds

VARIABLES
  row,      \* properties, cancellation_rules, app_settings: Rows -> source, or None
  rule,     \* balance_rules: RuleIds -> source, or None
  owner,    \* balance_rule_properties: Hotels -> the rule it is linked to, or None
  up,       \* whether the service runs
  known,    \* the hotels and policies the copies of the running service have
  pc,       \* what the script does next: a section, "commit", or "off"
  plan,     \* what it has added to its session so far: rows and rules
  imported, \* whether a run of it has committed
  deleted   \* the rules somebody deleted that have not come back

tables == <<row, rule, owner>>
script == <<pc, plan, imported>>
vars == <<tables, up, known, script, deleted>>

Plan == [rows : SUBSET FileRows, rules : SUBSET DOMAIN FileRules]
NoPlan == [rows |-> {}, rules |-> {}]

TypeOK ==
  /\ row \in [Rows -> Sources \cup {None}]
  /\ rule \in [RuleIds -> {"file", "typed", None}]
  /\ owner \in [Hotels -> {r \in RuleIds : rule[r] # None} \cup {None}]
  /\ up \in BOOLEAN
  /\ known \subseteq {k \in Discovered : row[k] # None}
  /\ pc \in {"off", "properties", "policies", "balance", "rooms", "commit"}
  /\ plan \in Plan
  /\ imported \in BOOLEAN
  /\ deleted \subseteq RuleIds

Init ==
  /\ row = [k \in Rows |-> None]
  /\ rule = [r \in RuleIds |-> None]
  /\ owner = [h \in Hotels |-> None]
  /\ up = FALSE /\ known = {}
  /\ pc = "off" /\ plan = NoPlan
  /\ imported = FALSE /\ deleted = {}
-----------------------------------------------------------------------------
(* The service.                                                            *)

\* Its constructors read the tables.
StartService ==
  /\ up' = TRUE
  /\ known' = {k \in Discovered : row[k] # None}
  /\ UNCHANGED <<tables, script, deleted>>

StopService ==
  /\ up
  /\ up' = FALSE
  /\ known' = {}
  /\ UNCHANGED <<tables, script, deleted>>

\* Seeded fault: the copy does not get what the table got.
DiscoverForgotten(ks) ==
  /\ up
  /\ ks # {} /\ ks \cap known = {}
  /\ \A k \in ks : row[k] = None
  /\ row' = [k \in Rows |-> IF k \in ks THEN "detected" ELSE row[k]]
  /\ UNCHANGED <<rule, owner, up, known, script, deleted>>

\* Seeded fault: a row that is there by now is written over.
DiscoverOverwriting(ks) ==
  /\ up
  /\ ks # {} /\ ks \cap known = {}
  /\ row' = [k \in Rows |-> IF k \in ks THEN "detected" ELSE row[k]]
  /\ known' = known \cup ks
  /\ UNCHANGED <<rule, owner, up, script, deleted>>

\* A page load inserts what its copy does not have.  The primary key refuses that,
\* and the page, when one of them has a row.
Discover(ks) ==
  /\ up
  /\ ks # {} /\ ks \cap known = {}
  /\ \A k \in ks : row[k] = None
  /\ row' = [k \in Rows |-> IF k \in ks THEN "detected" ELSE row[k]]
  /\ known' = known \cup ks
  /\ UNCHANGED <<rule, owner, up, script, deleted>>

\* The Settings page shows what the copies have, and the two settings.
TypeRow(k) ==
  /\ up
  /\ k \in known \cup Settings
  /\ row' = [row EXCEPT ![k] = "typed"]
  /\ UNCHANGED <<rule, owner, up, known, script, deleted>>

\* Also of a rule deleted since, from a page that still shows it; the blank rule
\* that add_blank_rule makes is one saved without hotels.
SaveRule(r, hs) ==
  /\ up
  /\ rule' = [rule EXCEPT ![r] = "typed"]
  /\ owner' = [h \in Hotels |-> IF h \in hs THEN r
                                ELSE IF owner[h] = r THEN None ELSE owner[h]]
  /\ deleted' = deleted \ {r}
  /\ UNCHANGED <<row, up, known, script>>

\* Seeded fault: the links of a deleted rule stay.
DeleteRuleOnly(r) ==
  /\ up
  /\ rule[r] # None
  /\ rule' = [rule EXCEPT ![r] = None]
  /\ deleted' = deleted \cup {r}
  /\ UNCHANGED <<row, owner, up, known, script>>

\* A request that names its rule.  One that names none, as the Settings page sends
\* (settings.html:166), changes nothing.
DeleteRule(r) ==
  /\ up
  /\ rule[r] # None
  /\ rule' = [rule EXCEPT ![r] = None]
  /\ owner' = [h \in Hotels |-> IF owner[h] = r THEN None ELSE owner[h]]
  /\ deleted' = deleted \cup {r}
  /\ UNCHANGED <<row, up, known, script>>
-----------------------------------------------------------------------------
(* The script.                                                             *)

StartScript ==
  /\ pc = "off"
  /\ pc' = "properties"
  /\ UNCHANGED <<tables, up, known, plan, imported, deleted>>

\* "Skip if the row already exists".
Missing(keys) == {k \in keys \cap FileRows : row[k] = None}

Section(step, keys, next) ==
  /\ pc = step
  /\ pc' = next
  /\ plan' = [plan EXCEPT !.rows = @ \cup Missing(keys)]
  /\ UNCHANGED <<tables, up, known, imported, deleted>>

MigrateProperties == Section("properties", Hotels, "policies")
MigrateCancellationRules == Section("policies", Policies, "balance")
MigrateRoomsThreshold == Section("rooms", {"rooms_threshold"}, "commit")

\* Seeded fault: the rules are of no interest once there is a default.
MigrateBalanceRulesOnce ==
  /\ pc = "balance"
  /\ pc' = "rooms"
  /\ plan' = IF row["balance_default_threshold"] # None THEN plan
             ELSE [rows |-> plan.rows \cup Missing({"balance_default_threshold"}),
                   rules |-> {r \in DOMAIN FileRules : rule[r] = None}]
  /\ UNCHANGED <<tables, up, known, imported, deleted>>

MigrateBalanceRules ==
  /\ pc = "balance"
  /\ pc' = "rooms"
  /\ plan' = [rows |-> plan.rows \cup Missing({"balance_default_threshold"}),
              rules |-> {r \in DOMAIN FileRules : rule[r] = None}]
  /\ UNCHANGED <<tables, up, known, imported, deleted>>

\* A hotel of a rule the plan adds.
PlannedOwner(h) == {r \in plan.rules : h \in FileRules[r]}

\* An INSERT meets a row, a rule or a link of the hotel that is there by now.
Conflict ==
  \/ \E k \in plan.rows : row[k] # None
  \/ \E r \in plan.rules : rule[r] # None
  \/ \E h \in Hotels : PlannedOwner(h) # {} /\ owner[h] # None

Insert ==
  /\ row' = [k \in Rows |-> IF k \in plan.rows THEN "file" ELSE row[k]]
  /\ rule' = [r \in RuleIds |-> IF r \in plan.rules THEN "file" ELSE rule[r]]
  /\ owner' = [h \in Hotels |-> IF PlannedOwner(h) = {} THEN owner[h]
                                ELSE CHOOSE r \in PlannedOwner(h) : TRUE]

\* Seeded fault: session.merge in place of session.add.
CommitMerged ==
  /\ pc = "commit"
  /\ Insert
  /\ pc' = "off" /\ plan' = NoPlan
  /\ imported' = TRUE /\ deleted' = deleted \ plan.rules
  /\ UNCHANGED <<up, known>>

Commit ==
  /\ pc = "commit"
  /\ ~Conflict
  /\ Insert
  /\ pc' = "off" /\ plan' = NoPlan
  /\ imported' = TRUE /\ deleted' = deleted \ plan.rules
  /\ UNCHANGED <<up, known>>

\* The commit is refused, a lock held by the service included, or the script killed.
Abandon ==
  /\ pc # "off"
  /\ pc' = "off" /\ plan' = NoPlan
  /\ UNCHANGED <<tables, up, known, imported, deleted>>

Next ==
  \/ StartService \/ StopService
  \/ \E ks \in (SUBSET Hotels) \cup (SUBSET Policies) : Discover(ks)
  \/ \E k \in Rows : TypeRow(k)
  \/ \E r \in RuleIds : DeleteRule(r) \/ \E hs \in SUBSET Hotels : SaveRule(r, hs)
  \/ StartScript
  \/ MigrateProperties \/ MigrateCancellationRules
  \/ MigrateBalanceRules \/ MigrateRoomsThreshold
  \/ Commit \/ Abandon

Spec == Init /\ [][Next]_vars
-----------------------------------------------------------------------------
\* "Every insert is a plain skip if the row already exists"
\* (migrate_config_data.py:14), whatever the service did since the script looked: its
\* commit takes no hotel from its rule and changes no rule.  What the files said is in
\* turn safe from the service, whose copies may not have it (property_store.py:99-101,
\* rules_store.py:144-147): only somebody who types replaces a row.
FillsGapsOnly ==
  [][/\ \A k \in Rows : row[k] # None /\ row'[k] # row[k] => row'[k] = "typed"
     /\ pc = "commit" /\ pc' = "off" =>
          /\ \A r \in RuleIds : rule[r] # None => rule'[r] = rule[r]
          /\ \A h \in Hotels : owner[h] # None => owner'[h] = owner[h]]_vars

\* "Running this twice is a no-op the second time" (migrate_config_data.py:15): as
\* soon as one thing has come from the files, nothing of them is missing, whatever
\* runs were refused or killed.  Only a rule deleted since would be brought back.
SecondRunIsNoop ==
  imported \/ (\E k \in Rows : row[k] = "file") \/ (\E r \in RuleIds : rule[r] = "file") =>
    /\ \A k \in FileRows : row[k] # None
    /\ \A r \in DOMAIN FileRules : rule[r] = None => r \in deleted

\* A page fails on a row the copies do not have.  Every such row came from the
\* files while the service ran: a restart, not a later page, makes it known.
UnknownIsImported ==
  up => \A k \in Discovered \ known : row[k] \in {None, "file"}
=============================================================================
