---------------------- MODULE ThresholdRuleStoreProofs ----------------------
(***************************************************************************)
(* What holds of ThresholdRuleStore for every set of threads, hotels, rule *)
(* ids and thresholds, with or without database failures.                  *)
(***************************************************************************)
EXTENDS ThresholdRuleStore, TLAPS

(***************************************************************************)
(* Lemmas about the operators on links.                                    *)
(***************************************************************************)

\* What IndexOf returns when the UNIQUE constraint holds.
LEMMA IndexOfLinks ==
  ASSUME NEW ls \in SUBSET (RuleIds \X Hotels), Unique(ls), NEW h \in Hotels
  PROVE  /\ IndexOf(ls)[h] \in RuleIds \cup {None}
         /\ \A r \in RuleIds : IndexOf(ls)[h] = r <=> <<r, h>> \in ls
<1>1. CASE \E r \in RuleIds : <<r, h>> \in ls
  <2> DEFINE q == CHOOSE r \in RuleIds : <<r, h>> \in ls
  <2>1. q \in RuleIds /\ <<q, h>> \in ls
    BY <1>1
  <2>2. IndexOf(ls)[h] = q
    BY <1>1 DEF IndexOf
  <2> HIDE DEF q
  <2>3. ASSUME NEW r \in RuleIds, <<r, h>> \in ls PROVE r = q
    <3>1. <<r, h>> = <<q, h>>
      BY <2>1, <2>3 DEF Unique
    <3> QED BY <3>1
  <2> QED BY <2>1, <2>2, <2>3
<1>2. CASE ~\E r \in RuleIds : <<r, h>> \in ls
  BY <1>2, NoneAssumption DEF IndexOf
<1> QED BY <1>1, <1>2

\* IndexOf always returns a function of its type.
LEMMA IndexOfType ==
  ASSUME NEW ls PROVE IndexOf(ls) \in [Hotels -> RuleIds \cup {None}]
BY DEF IndexOf

\* RulesOf makes a copy of its type from any rows.
LEMMA RulesOfType ==
  ASSUME NEW rs \in RuleTable, NEW ls
  PROVE  RulesOf(rs, ls) \in [RuleIds -> CachedRule \cup {None}]
BY DEF RulesOf, RuleTable, CachedRule

\* save_rule's deletes leave no row in the way of its inserts.
LEMMA SavedUnique ==
  ASSUME NEW ls \in SUBSET (RuleIds \X Hotels), Unique(ls),
         NEW r \in RuleIds, NEW hs \in SUBSET Hotels
  PROVE  Unique(Saved(ls, r, hs)) /\ Saved(ls, r, hs) \subseteq RuleIds \X Hotels
<1>1. Saved(ls, r, hs) \subseteq RuleIds \X Hotels
  BY DEF Saved, Taken
<1>2. ASSUME NEW k \in Saved(ls, r, hs), NEW l \in Saved(ls, r, hs), k[2] = l[2]
      PROVE  k = l
  <2>1. CASE k \in {r} \X hs /\ l \in {r} \X hs
    BY <1>2, <2>1
  <2>2. CASE k \notin {r} \X hs /\ l \notin {r} \X hs
    BY <1>2, <2>2 DEF Saved, Taken, Unique
  <2>3. CASE k \in {r} \X hs /\ l \notin {r} \X hs
    BY <1>2, <2>3 DEF Saved, Taken
  <2>4. CASE k \notin {r} \X hs /\ l \in {r} \X hs
    BY <1>2, <2>4 DEF Saved, Taken
  <2> QED BY <2>1, <2>2, <2>3, <2>4
<1> QED BY <1>1, <1>2 DEF Unique

(***************************************************************************)
(* The inductive invariant.                                                *)
(***************************************************************************)

\* Requests that name a rule name one that was shown on a page; a save names one.
RequestsOK ==
  \A t \in Threads :
    /\ pc[t] = "readRow" => arg[t].op \in {"setDefault", "save"}
    /\ pc[t] \in {"readRow", "tx"} /\ arg[t].op = "save" => arg[t].rule \in issued
    /\ pc[t] \in {"readRow", "tx"} /\ arg[t].op = "delete"
         => arg[t].rule \in issued \cup {None}
    /\ pc[t] = "lookup" => arg[t].hotel # None

\* Rules are only ever committed under an id that has been issued.
RulesAreIssued == \A r \in RuleIds : rules[r] # None => r \in issued

TablesInv ==
  /\ TypeOK
  /\ RequestsOK
  /\ RulesAreIssued
  /\ Unique(links)
  /\ NoOrphanLinks

\* A new database satisfies the invariant (db.py:44-48).
LEMMA InitTablesInv == Init => TablesInv
<1> SUFFICES ASSUME Init PROVE TablesInv
  OBVIOUS
<1> USE NoneAssumption, FallbackAssumption
<1>1. TypeOK
  BY DEF Init, TypeOK, RuleTable, CachedRule, Request, Steps, NoRequest, NoRows
<1>2. RequestsOK /\ RulesAreIssued /\ Unique(links) /\ NoOrphanLinks
  BY DEF Init, RequestsOK, RulesAreIssued, Unique, NoOrphanLinks
<1> QED BY <1>1, <1>2 DEF TablesInv

\* A step that leaves tables and issued alone leaves these alone.
LEMMA TablesAlone ==
  ASSUME TablesInv, UNCHANGED <<tables, issued>>, TypeOK', RequestsOK'
  PROVE  TablesInv'
BY DEF TablesInv, tables, RulesAreIssued, Unique, NoOrphanLinks

\* The values of an idle thread have their types.
LEMMA TypeOfNothing ==
  /\ NoRequest \in Request
  /\ NoRows \in [default : Thresholds, rules : RuleTable, links : SUBSET (RuleIds \X Hotels)]
BY FallbackAssumption DEF NoRequest, NoRows, Request, RuleTable

\* _parse_threshold answers with a threshold, whatever the field holds (app.py:492-496).
LEMMA ParsedType ==
  ASSUME TypeOK, NEW x \in Thresholds \cup {Unparsable}
  PROVE  Parsed(x) \in Thresholds
BY DEF TypeOK, Parsed

\* A request arrives: only pc and arg of its thread move.
LEMMA ReceiveTables ==
  ASSUME TablesInv, NEW t \in Threads, NEW request \in Request, NEW step \in Steps,
         Receive(t, request, step),
         step = "readRow" => request.op \in {"setDefault", "save"},
         request.op = "save" => request.rule \in issued,
         request.op = "delete" => request.rule \in issued \cup {None},
         step = "lookup" => request.hotel # None
  PROVE  TablesInv'
<1>1. TypeOK'
  BY DEF TablesInv, TypeOK, Receive, Goto, tables, cache
<1>2. RequestsOK'
  BY DEF TablesInv, TypeOK, RequestsOK, Receive, Goto, tables, cache
<1>3. UNCHANGED <<tables, issued>>
  BY DEF Receive
<1> QED BY <1>1, <1>2, <1>3, TablesAlone

\* A request ends.
LEMMA FinishTables ==
  ASSUME TypeOK, RequestsOK, NEW t \in Threads, Finish(t), UNCHANGED issued
  PROVE  /\ pc' \in [Threads -> Steps]
         /\ arg' \in [Threads -> Request]
         /\ snap' \in [Threads -> [default : Thresholds, rules : RuleTable,
                                   links : SUBSET (RuleIds \X Hotels)]]
         /\ RequestsOK'
<1>1. pc' \in [Threads -> Steps]
  BY DEF TypeOK, Finish, Goto, Steps
<1>2. arg' \in [Threads -> Request]
  BY TypeOfNothing DEF TypeOK, Finish
<1>3. snap' \in [Threads -> [default : Thresholds, rules : RuleTable,
                             links : SUBSET (RuleIds \X Hotels)]]
  BY TypeOfNothing DEF TypeOK, Finish
<1>4. RequestsOK'
  BY DEF TypeOK, RequestsOK, Finish, Goto, NoRequest
<1> QED BY <1>1, <1>2, <1>3, <1>4

\* The request of t moves on and keeps its arguments.
LEMMA GotoTables ==
  ASSUME TypeOK, RequestsOK, NEW t \in Threads, NEW step \in Steps \ {"readRow", "tx", "lookup"},
         Goto(t, step), UNCHANGED arg, issued \subseteq issued'
  PROVE  pc' \in [Threads -> Steps] /\ RequestsOK'
BY DEF TypeOK, RequestsOK, Goto

(***************************************************************************)
(* One lemma per transaction: what it does to the links and the rules.     *)
(***************************************************************************)

\* save_rule never meets a hotel that is still in another rule.
LEMMA SaveIsAccepted ==
  ASSUME TypeOK, RequestsOK, Unique(links)
  PROVE  SaveNeverRefused
<1> SUFFICES ASSUME NEW t \in Threads, pc[t] = "tx", arg[t].op = "save"
             PROVE  Unique(Saved(links, arg[t].rule, arg[t].hotels))
  BY DEF SaveNeverRefused
<1>1. arg[t].rule \in RuleIds /\ arg[t].hotels \in SUBSET Hotels
  BY DEF TypeOK, RequestsOK, Request
<1> QED BY <1>1, SavedUnique DEF TypeOK

\* The transaction of save_rule (threshold_rules_store.py:92-117).
LEMMA SaveTables ==
  ASSUME TablesInv, NEW t \in Threads, CommitSaveRule(t)
  PROVE  TablesInv'
<1> DEFINE r == arg[t].rule
           x == arg[t].threshold
           hs == arg[t].hotels
<1>1. r \in RuleIds /\ r \in issued /\ x \in Thresholds /\ hs \in SUBSET Hotels
  BY DEF TablesInv, TypeOK, RequestsOK, Request, CommitSaveRule, Commit
<1>2. links' = Saved(links, r, hs) /\ rules' \in RuleTable
  <2>1. rules' = rules \/ rules' = [rules EXCEPT ![r] = x]
    BY DEF CommitSaveRule
  <2> QED BY <1>1, <2>1 DEF CommitSaveRule, TablesInv, TypeOK, RuleTable
<1>3. Unique(links') /\ links' \subseteq RuleIds \X Hotels
  BY <1>1, <1>2, SavedUnique DEF TablesInv, TypeOK
<1>4. pc' \in [Threads -> Steps] /\ RequestsOK'
  BY GotoTables DEF TablesInv, CommitSaveRule, Commit, Steps
<1>5. TypeOK'
  BY <1>2, <1>3, <1>4 DEF TablesInv, TypeOK, CommitSaveRule, Commit, cache
<1>6. RulesAreIssued'
  BY <1>1 DEF TablesInv, TypeOK, RuleTable, RulesAreIssued, CommitSaveRule
<1>7. \A q \in RuleIds \ {r} : rules'[q] = rules[q]
  BY <1>1 DEF TablesInv, TypeOK, RuleTable, CommitSaveRule
<1>8. hs # {} => rules'[r] # None
  <2> SUFFICES ASSUME hs # {} PROVE rules'[r] # None
    OBVIOUS
  <2>1. CASE RowOf(t) = x
    BY <1>1, <2>1, NoneAssumption DEF RowOf, Row, CommitSaveRule, Commit
  <2>2. CASE RowOf(t) # x
    BY <1>1, <2>2, NoneAssumption DEF TablesInv, TypeOK, RuleTable, CommitSaveRule
  <2> QED BY <2>1, <2>2
<1>9. NoOrphanLinks'
  <2> SUFFICES ASSUME NEW l \in links' PROVE rules'[l[1]] # None
    BY DEF NoOrphanLinks
  <2>1. CASE l \in {r} \X hs
    BY <2>1, <1>8
  <2>2. CASE l \notin {r} \X hs
    <3>1. l \in links /\ l[1] \in RuleIds \ {r}
      BY <1>2, <2>2 DEF Saved, Taken, TablesInv, TypeOK
    <3> QED BY <3>1, <1>7 DEF TablesInv, NoOrphanLinks
  <2> QED BY <2>1, <2>2
<1> QED BY <1>3, <1>5, <1>4, <1>6, <1>9 DEF TablesInv

\* The transaction of add_blank_rule (threshold_rules_store.py:120-124).
LEMMA AddTables ==
  ASSUME TablesInv, NEW t \in Threads, NEW r \in RuleIds, CommitAddRule(t, r)
  PROVE  TablesInv'
<1>1. arg[t].threshold \in Thresholds
  BY DEF TablesInv, TypeOK, Request
<1>2. pc' \in [Threads -> Steps] /\ RequestsOK'
  BY GotoTables DEF TablesInv, CommitAddRule, Commit, Steps
<1>3. TypeOK'
  BY <1>1, <1>2 DEF TablesInv, TypeOK, RuleTable, CommitAddRule, Commit, cache
<1>4. RulesAreIssued' /\ Unique(links)'
  BY DEF TablesInv, TypeOK, RuleTable, RulesAreIssued, Unique, CommitAddRule
<1>5. NoOrphanLinks'
  BY <1>1, NoneAssumption DEF TablesInv, TypeOK, RuleTable, NoOrphanLinks, CommitAddRule
<1> QED BY <1>2, <1>3, <1>4, <1>5 DEF TablesInv

\* The transaction of delete_rule: no link outlives its rule
\* (threshold_rules_store.py:128-134).
LEMMA DeleteTables ==
  ASSUME TablesInv, NEW t \in Threads, CommitDeleteRule(t)
  PROVE  TablesInv'
<1> DEFINE r == arg[t].rule
<1>1. /\ links' = {l \in links : l[1] # r}
      /\ rules' = [q \in RuleIds |-> IF q = r THEN None ELSE rules[q]]
  BY DEF CommitDeleteRule, Unlinked
<1>2. pc' \in [Threads -> Steps] /\ RequestsOK'
  BY GotoTables DEF TablesInv, CommitDeleteRule, Commit, Steps
<1>3. TypeOK'
  BY <1>1, <1>2 DEF TablesInv, TypeOK, RuleTable, CommitDeleteRule, Commit, cache
<1>4. RulesAreIssued' /\ Unique(links)' /\ NoOrphanLinks'
  BY <1>1 DEF TablesInv, TypeOK, RuleTable, RulesAreIssued, Unique, NoOrphanLinks,
              CommitDeleteRule
<1> QED BY <1>2, <1>3, <1>4 DEF TablesInv

\* The transaction of set_default (threshold_rules_store.py:70-77).
LEMMA SetDefaultTables ==
  ASSUME TablesInv, NEW t \in Threads, CommitSetDefault(t)
  PROVE  TablesInv'
<1>1. arg[t].threshold \in Thresholds
  BY DEF TablesInv, TypeOK, Request
<1>2. pc' \in [Threads -> Steps] /\ RequestsOK'
  BY GotoTables DEF TablesInv, CommitSetDefault, Commit, Steps
<1>3. TypeOK'
  BY <1>1, <1>2 DEF TablesInv, TypeOK, CommitSetDefault, Commit, cache
<1> QED BY <1>2, <1>3 DEF TablesInv, RulesAreIssued, Unique, NoOrphanLinks, CommitSetDefault

(***************************************************************************)
(* Every step keeps the invariant: one step per action.                    *)
(***************************************************************************)

\* Every step of every thread, failures and restarts included, keeps the invariant.
LEMMA NextTablesInv == TablesInv /\ [Next]_vars => TablesInv'
<1> SUFFICES ASSUME TablesInv, [Next]_vars PROVE TablesInv'
  OBVIOUS
<1> USE NoneAssumption, FallbackAssumption
<1>0. TypeOK /\ RequestsOK
  BY DEF TablesInv
<1>1. CASE UNCHANGED vars
  <2>1. TypeOK' /\ RequestsOK'
    BY <1>0, <1>1 DEF vars, tables, cache, TypeOK, RequestsOK
  <2> QED BY <1>1, <2>1, TablesAlone DEF vars
<1>2. CASE Restart
  <2>1. TypeOK'
    BY <1>0, <1>2, IndexOfType, RulesOfType, TypeOfNothing
    DEF Restart, TypeOK, DefaultOf, Steps, tables
  <2>2. RequestsOK'
    BY <1>2 DEF Restart, RequestsOK, NoRequest
  <2> QED BY <1>2, <2>1, <2>2, TablesAlone DEF Restart
<1> SUFFICES ASSUME NEW t \in Threads,
                    ~UNCHANGED vars, ~Restart,
                    \/ \E x \in Thresholds \cup {Unparsable} : PostSetDefault(t, x)
                    \/ \E r \in RuleIds, x \in Thresholds \cup {Unparsable},
                          hs \in SUBSET Hotels : PostSaveRule(t, r, x, hs)
                    \/ PostAddRule(t)
                    \/ PressDelete(t)
                    \/ \E r \in RuleIds : PostDeleteRule(t, r)
                    \/ CommitSetDefault(t) \/ AssignSetDefault(t)
                    \/ ReadRow(t) \/ CommitSaveRule(t)
                    \/ \E r \in RuleIds : CommitAddRule(t, r)
                    \/ CommitDeleteRule(t)
                    \/ ReadSetting(t) \/ AssignDefault(t)
                    \/ ReadRules(t) \/ ReadLinks(t)
                    \/ AssignRules(t) \/ AssignIndex(t)
                    \/ \E h \in Hotels : LookupIndex(t, h)
                    \/ LookupRule(t)
                    \/ Fail(t)
             PROVE  TablesInv'
  BY <1>1, <1>2 DEF Next
<1>3. CASE \E x \in Thresholds \cup {Unparsable} : PostSetDefault(t, x)
  <2> PICK x \in Thresholds \cup {Unparsable} : PostSetDefault(t, x)
    BY <1>3
  <2>1. Parsed(x) \in Thresholds
    BY <1>0, ParsedType
  <2> DEFINE request == [NoRequest EXCEPT !.op = "setDefault", !.threshold = Parsed(x)]
  <2>2. request \in Request /\ request.op = "setDefault"
    BY <2>1, TypeOfNothing DEF Request, NoRequest
  <2>3. Receive(t, request, "readRow")
    BY DEF PostSetDefault
  <2> HIDE DEF request
  <2> QED BY <2>2, <2>3, ReceiveTables DEF Steps
<1>4. CASE \E r \in RuleIds, x \in Thresholds \cup {Unparsable}, hs \in SUBSET Hotels :
             PostSaveRule(t, r, x, hs)
  <2> PICK r \in RuleIds, x \in Thresholds \cup {Unparsable}, hs \in SUBSET Hotels :
             PostSaveRule(t, r, x, hs)
    BY <1>4
  <2>1. Parsed(x) \in Thresholds
    BY <1>0, ParsedType
  <2> DEFINE request == [NoRequest EXCEPT !.op = "save", !.rule = r, !.threshold = Parsed(x),
                                          !.hotels = hs]
             step == IF hs = {} THEN "readRow" ELSE "tx"
  <2>2. request \in Request /\ request.op = "save" /\ request.rule = r
    BY <2>1, TypeOfNothing DEF Request, NoRequest
  <2>3. step \in Steps /\ step # "lookup"
    BY DEF Steps
  <2>4. Receive(t, request, step) /\ r \in issued
    BY DEF PostSaveRule
  <2> HIDE DEF request, step
  <2> QED BY <2>2, <2>3, <2>4, ReceiveTables
<1>5. CASE PostAddRule(t)
  <2> DEFINE request == [NoRequest EXCEPT !.op = "add", !.threshold = cDefault]
  <2>1. request \in Request /\ request.op = "add"
    BY <1>0, TypeOfNothing DEF TypeOK, Request, NoRequest
  <2>2. Receive(t, request, "tx")
    BY <1>5 DEF PostAddRule
  <2> HIDE DEF request
  <2> QED BY <2>1, <2>2, ReceiveTables DEF Steps
<1>6. CASE \E r \in RuleIds : PostDeleteRule(t, r)
  <2> PICK r \in RuleIds : PostDeleteRule(t, r)
    BY <1>6
  <2> DEFINE request == [NoRequest EXCEPT !.op = "delete", !.rule = r]
  <2>1. request \in Request /\ request.op = "delete" /\ request.rule = r
    BY TypeOfNothing DEF Request, NoRequest
  <2>2. Receive(t, request, "tx") /\ r \in issued
    BY DEF PostDeleteRule
  <2> HIDE DEF request
  <2> QED BY <2>1, <2>2, ReceiveTables DEF Steps
<1>6a. CASE PressDelete(t)
  <2> DEFINE request == [NoRequest EXCEPT !.op = "delete"]
  <2>1. request \in Request /\ request.op = "delete" /\ request.rule = None
    BY TypeOfNothing DEF Request, NoRequest
  <2>2. Receive(t, request, "tx")
    BY <1>6a DEF PressDelete
  <2> HIDE DEF request
  <2> QED BY <2>1, <2>2, ReceiveTables DEF Steps
<1>7. CASE CommitSetDefault(t)
  BY <1>7, SetDefaultTables
<1>8. CASE AssignSetDefault(t)
  <2>1. arg[t].threshold \in Thresholds /\ UNCHANGED <<tables, issued>>
    BY <1>0, <1>8 DEF TypeOK, Request, AssignSetDefault
  <2>2. Finish(t) /\ UNCHANGED <<cRules, cIndex, behind, answer>> /\ cDefault' = arg[t].threshold
    BY <1>8 DEF AssignSetDefault
  <2>3. TypeOK' /\ RequestsOK'
    BY <1>0, <2>1, <2>2, FinishTables DEF TypeOK, tables
  <2> QED BY <2>1, <2>3, TablesAlone
<1>9. CASE ReadRow(t)
  <2>1. arg[t] \in Request /\ arg[t].op \in {"setDefault", "save"}
        /\ (arg[t].op = "save" => arg[t].rule \in RuleIds /\ arg[t].rule \in issued)
    BY <1>0, <1>9 DEF TypeOK, RequestsOK, Request, ReadRow
  <2>a. Row(t) \in Thresholds \cup {None}
    BY <1>0, <2>1 DEF TypeOK, RuleTable, Row
  <2>b. [arg[t] EXCEPT !.row = Row(t)] \in Request
    BY <2>1, <2>a DEF Request
  <2>c. arg' = [arg EXCEPT ![t] = [arg[t] EXCEPT !.row = Row(t)]]
    BY <1>9 DEF ReadRow
  <2>2. arg' \in [Threads -> Request] /\ pc' \in [Threads -> Steps]
    BY <1>0, <1>9, <2>b, <2>c DEF TypeOK, ReadRow, Goto, Steps
  <2>3. TypeOK'
    BY <1>0, <1>9, <2>2 DEF TypeOK, ReadRow, tables, cache
  <2>4. RequestsOK'
    BY <1>0, <1>9, <2>1 DEF TypeOK, Request, RequestsOK, ReadRow, Goto
  <2> QED BY <1>9, <2>3, <2>4, TablesAlone DEF ReadRow
<1>10. CASE CommitSaveRule(t)
  BY <1>10, SaveTables
<1>11. CASE \E r \in RuleIds : CommitAddRule(t, r)
  BY <1>11, AddTables
<1>12. CASE CommitDeleteRule(t)
  BY <1>12, DeleteTables
<1>13. CASE ReadSetting(t)
  <2>1. pc' \in [Threads -> Steps] /\ RequestsOK'
    BY <1>0, <1>13, GotoTables DEF ReadSetting, Steps
  <2>2. TypeOK'
    BY <1>0, <1>13, <2>1 DEF TypeOK, ReadSetting, DefaultOf, tables, cache
  <2> QED BY <1>13, <2>1, <2>2, TablesAlone DEF ReadSetting
<1>14. CASE AssignDefault(t)
  <2>1. pc' \in [Threads -> Steps] /\ RequestsOK'
    BY <1>0, <1>14, GotoTables DEF AssignDefault, Steps
  <2>2. TypeOK'
    BY <1>0, <1>14, <2>1 DEF TypeOK, AssignDefault, tables
  <2> QED BY <1>14, <2>1, <2>2, TablesAlone DEF AssignDefault
<1>15. CASE ReadRules(t)
  <2>1. pc' \in [Threads -> Steps] /\ RequestsOK'
    BY <1>0, <1>15, GotoTables DEF ReadRules, Steps
  <2>2. TypeOK'
    BY <1>0, <1>15, <2>1 DEF TypeOK, ReadRules, tables, cache
  <2> QED BY <1>15, <2>1, <2>2, TablesAlone DEF ReadRules
<1>16. CASE ReadLinks(t)
  <2>0. UNCHANGED <<tables, cDefault, cRules, cIndex, answer, issued>>
    BY <1>16 DEF ReadLinks
  <2>1. CASE Finish(t) /\ behind' = TRUE
    <3>1. TypeOK' /\ RequestsOK'
      BY <1>0, <2>0, <2>1, FinishTables DEF TypeOK, tables
    <3> QED BY <2>0, <3>1, TablesAlone
  <2>2. CASE /\ Goto(t, "assignRules")
             /\ UNCHANGED <<arg, behind>>
             /\ snap' = [snap EXCEPT ![t].links = links]
    <3>1. pc' \in [Threads -> Steps] /\ RequestsOK'
      BY <1>0, <2>0, <2>2, GotoTables DEF Steps
    <3>2. TypeOK'
      BY <1>0, <2>0, <2>2, <3>1 DEF TypeOK, tables
    <3> QED BY <2>0, <3>1, <3>2, TablesAlone
  <2> QED BY <1>16, <2>1, <2>2 DEF ReadLinks
<1>17. CASE AssignRules(t)
  <2>1. pc' \in [Threads -> Steps] /\ RequestsOK'
    BY <1>0, <1>17, GotoTables DEF AssignRules, Steps
  <2>2. cRules' \in [RuleIds -> CachedRule \cup {None}]
    BY <1>0, <1>17, RulesOfType DEF TypeOK, AssignRules
  <2>3. TypeOK'
    BY <1>0, <1>17, <2>1, <2>2 DEF TypeOK, AssignRules, tables
  <2> QED BY <1>17, <2>1, <2>3, TablesAlone DEF AssignRules
<1>18. CASE AssignIndex(t)
  <2>1. cIndex' \in [Hotels -> RuleIds \cup {None}] /\ UNCHANGED <<tables, issued>>
    BY <1>18, IndexOfType DEF AssignIndex
  <2>2. Finish(t) /\ UNCHANGED <<cDefault, cRules, answer>> /\ behind' = FALSE
    BY <1>18 DEF AssignIndex
  <2>3. TypeOK' /\ RequestsOK'
    BY <1>0, <2>1, <2>2, FinishTables DEF TypeOK, tables
  <2> QED BY <2>1, <2>3, TablesAlone
<1>19. CASE \E h \in Hotels : LookupIndex(t, h)
  <2> PICK h \in Hotels : LookupIndex(t, h)
    BY <1>19
  <2> DEFINE request == [NoRequest EXCEPT !.op = "lookup", !.rule = cIndex[h], !.hotel = h]
  <2>1. request \in Request /\ request.op = "lookup" /\ request.hotel # None
    BY <1>0, TypeOfNothing DEF TypeOK, Request, NoRequest
  <2>2. Receive(t, request, "lookup")
    BY DEF LookupIndex
  <2> HIDE DEF request
  <2> QED BY <2>1, <2>2, ReceiveTables DEF Steps
<1>20. CASE LookupRule(t)
  <2> DEFINE h == arg[t].hotel
             r == arg[t].rule
             a == IF r = None THEN [hotel |-> h, threshold |-> cDefault, rule |-> None]
                  ELSE IF cRules[r] = None THEN KeyError
                  ELSE [hotel |-> h, threshold |-> cRules[r].threshold, rule |-> r]
  <2>1. Finish(t) /\ UNCHANGED <<tables, cache, issued>> /\ answer' = [answer EXCEPT ![t] = a]
    BY <1>20 DEF LookupRule
  <2>2. h \in Hotels
    BY <1>0, <1>20 DEF TypeOK, RequestsOK, Request, LookupRule
  <2>3. a \in Answer \cup {KeyError}
    BY <1>0, <2>2 DEF TypeOK, Answer, Request, CachedRule
  <2>4. TypeOK' /\ RequestsOK'
    BY <1>0, <2>1, <2>3, FinishTables DEF TypeOK, tables, cache
  <2> QED BY <2>1, <2>4, TablesAlone
<1>21. CASE Fail(t)
  <2>1. Finish(t) /\ UNCHANGED <<tables, cDefault, cRules, cIndex, answer, issued>>
    BY <1>21 DEF Fail
  <2>a. behind' \in BOOLEAN
    BY <1>0, <1>21, Zenon DEF TypeOK, Fail
  <2>2. TypeOK' /\ RequestsOK'
    BY <1>0, <2>1, <2>a, FinishTables DEF TypeOK, tables
  <2> QED BY <2>1, <2>2, TablesAlone
<1> QED
  BY <1>3, <1>4, <1>5, <1>6, <1>6a, <1>7, <1>8, <1>9, <1>10, <1>11, <1>12, <1>13, <1>14,
     <1>15, <1>16, <1>17, <1>18, <1>19, <1>20, <1>21

(***************************************************************************)
(* The invariants.                                                         *)
(***************************************************************************)

\* The invariant holds of every behaviour.
LEMMA TablesInvariant == Spec => []TablesInv
BY InitTablesInv, NextTablesInv, PTL DEF Spec

\* Every variable keeps its type.
THEOREM TypeCorrect == Spec => []TypeOK
<1>1. TablesInv => TypeOK
  BY DEF TablesInv
<1> QED BY <1>1, TablesInvariant, PTL

\* However requests overlap, fail and restart, no save is ever refused by the
\* UNIQUE constraint on property_code (threshold_rules_store.py:94-99).
THEOREM SavesAreAccepted == Spec => []SaveNeverRefused
<1>1. TablesInv => SaveNeverRefused
  BY SaveIsAccepted DEF TablesInv
<1> QED BY <1>1, TablesInvariant, PTL

\* Every link names a rule: _load_cache's rules[link.rule_id] never fails at the
\* start of the process (threshold_rules_store.py:60).
THEOREM LinksNameRules == Spec => []NoOrphanLinks
<1>1. TablesInv => NoOrphanLinks
  BY DEF TablesInv
<1> QED BY <1>1, TablesInvariant, PTL

(***************************************************************************)
(* The tables implement BalanceRules.                                      *)
(***************************************************************************)

\* Who owns a hotel after a save.
LEMMA IndexOfSaved ==
  ASSUME NEW ls \in SUBSET (RuleIds \X Hotels), Unique(ls),
         NEW r \in RuleIds, NEW hs \in SUBSET Hotels
  PROVE  IndexOf(Saved(ls, r, hs)) =
           [h \in Hotels |-> IF h \in hs THEN r
                             ELSE IF IndexOf(ls)[h] = r THEN None ELSE IndexOf(ls)[h]]
<1> DEFINE new == Saved(ls, r, hs)
           i == IndexOf(ls)
           j == IndexOf(new)
<1>1. Unique(new) /\ new \in SUBSET (RuleIds \X Hotels)
  BY SavedUnique
<1>2. j \in [Hotels -> RuleIds \cup {None}] /\ i \in [Hotels -> RuleIds \cup {None}]
  BY IndexOfType
<1> SUFFICES ASSUME NEW h \in Hotels
             PROVE  j[h] = IF h \in hs THEN r ELSE IF i[h] = r THEN None ELSE i[h]
  BY <1>2
<1>3. /\ i[h] \in RuleIds \cup {None}
      /\ \A q \in RuleIds : i[h] = q <=> <<q, h>> \in ls
  BY IndexOfLinks
<1>4. /\ j[h] \in RuleIds \cup {None}
      /\ \A q \in RuleIds : j[h] = q <=> <<q, h>> \in new
  BY <1>1, IndexOfLinks
<1>5. \A q \in RuleIds : <<q, h>> \in new <=> (q # r /\ h \notin hs /\ <<q, h>> \in ls)
                                             \/ (q = r /\ h \in hs)
  BY DEF Saved, Taken
<1> HIDE DEF i, j, new
<1>6. CASE h \in hs
  BY <1>4, <1>5, <1>6
<1>7. CASE h \notin hs
  BY <1>3, <1>4, <1>5, <1>7, NoneAssumption
<1> QED BY <1>6, <1>7

\* Who owns a hotel after a delete.
LEMMA IndexOfUnlinked ==
  ASSUME NEW ls \in SUBSET (RuleIds \X Hotels), Unique(ls), NEW r \in RuleIds
  PROVE  IndexOf(Unlinked(ls, r)) =
           [h \in Hotels |-> IF IndexOf(ls)[h] = r THEN None ELSE IndexOf(ls)[h]]
<1>1. Unlinked(ls, r) = Saved(ls, r, {})
  BY DEF Unlinked, Saved, Taken
<1>2. IndexOf(Saved(ls, r, {})) =
        [h \in Hotels |-> IF h \in {} THEN r
                          ELSE IF IndexOf(ls)[h] = r THEN None ELSE IndexOf(ls)[h]]
  BY IndexOfSaved
<1> QED BY <1>1, <1>2

\* A delete that names no rule, such as the page's, changes no table
\* (settings.html:166, app.py:535).
LEMMA NamelessDelete ==
  ASSUME TablesInv, NEW t \in Threads, CommitDeleteRule(t), arg[t].rule = None
  PROVE  UNCHANGED tables
<1>1. links' = links
  BY NoneAssumption DEF CommitDeleteRule, Unlinked, TablesInv, TypeOK
<1>2. rules' = rules
  BY NoneAssumption DEF CommitDeleteRule, TablesInv, TypeOK, RuleTable
<1> QED BY <1>1, <1>2 DEF CommitDeleteRule, tables

\* A delete that names a rule is a DeleteRule of the abstract store.
LEMMA NamedDelete ==
  ASSUME TablesInv, NEW t \in Threads, CommitDeleteRule(t), arg[t].rule # None
  PROVE  arg[t].rule \in RuleIds /\ Tables!DeleteRule(arg[t].rule)
<1> DEFINE r == arg[t].rule
<1>1. r \in RuleIds
  BY DEF CommitDeleteRule, Commit, TablesInv, TypeOK, RequestsOK, Request
<1>2. links' = Unlinked(links, r) /\ setting' = setting
  BY DEF CommitDeleteRule
<1>3. rules' = [rules EXCEPT ![r] = None]
  BY <1>1 DEF CommitDeleteRule, TablesInv, TypeOK, RuleTable
<1>4. IndexOf(links)' = [h \in Hotels |-> IF IndexOf(links)[h] = r THEN None
                                         ELSE IndexOf(links)[h]]
  <2>1. IndexOf(links)' = IndexOf(links')
    BY DEF IndexOf
  <2> QED BY <1>1, <1>2, <2>1, IndexOfUnlinked DEF TablesInv, TypeOK
<1> QED BY <1>1, <1>2, <1>3, <1>4 DEF Tables!DeleteRule, DefaultOf

\* The transaction of save_rule is a SaveRule of the abstract store.
LEMMA SaveImplementsSaveRule ==
  ASSUME TablesInv, NEW t \in Threads, CommitSaveRule(t)
  PROVE  [Tables!Next]_(Tables!vars)
<1> DEFINE r == arg[t].rule
           x == arg[t].threshold
           hs == arg[t].hotels
<1>1. r \in RuleIds /\ x \in Thresholds /\ hs \in SUBSET Hotels
  BY DEF TablesInv, TypeOK, RequestsOK, Request, CommitSaveRule, Commit
<1>2. links' = Saved(links, r, hs) /\ setting' = setting
  BY DEF CommitSaveRule
<1>3. IndexOf(links)' = [h \in Hotels |-> IF h \in hs THEN r
                            ELSE IF IndexOf(links)[h] = r THEN None ELSE IndexOf(links)[h]]
  <2>1. IndexOf(links)' = IndexOf(links')
    BY DEF IndexOf
  <2> QED BY <1>1, <1>2, <2>1, IndexOfSaved DEF TablesInv, TypeOK
<1>4. CASE RowOf(t) # x
  <2>1. rules' = [rules EXCEPT ![r] = x]
    BY <1>4 DEF CommitSaveRule
  <2>2. Tables!SaveRule(r, x, hs)
    BY <1>2, <1>3, <2>1 DEF Tables!SaveRule, DefaultOf
  <2> QED BY <1>1, <2>2 DEF Tables!Next
\* The UPDATE leaves the threshold out: a save of the threshold the row has now.
<1>5. CASE RowOf(t) = x /\ rules[r] # None
  <2>1. rules' = [rules EXCEPT ![r] = rules[r]] /\ rules[r] \in Thresholds
    BY <1>1, <1>5 DEF CommitSaveRule, TablesInv, TypeOK, RuleTable
  <2>2. Tables!SaveRule(r, rules[r], hs)
    BY <1>2, <1>3, <2>1 DEF Tables!SaveRule, DefaultOf
  <2> QED BY <1>1, <2>1, <2>2 DEF Tables!Next
\* The rule is gone and the form names no hotel: nothing is written.
<1>6. CASE RowOf(t) = x /\ rules[r] = None
  <2>1. hs = {}
    BY <1>1, <1>6, NoneAssumption DEF RowOf, Row, CommitSaveRule, Commit
  <2>2. \A l \in links : l[1] # r
    BY <1>6 DEF TablesInv, NoOrphanLinks
  <2>3. links' = links
    BY <1>2, <2>1, <2>2 DEF Saved, Taken
  <2>4. rules' = rules
    BY <1>6 DEF CommitSaveRule
  <2> QED BY <1>2, <2>3, <2>4 DEF Tables!vars, IndexOf, DefaultOf
<1> QED BY <1>4, <1>5, <1>6

\* Every step is one whole operation of the abstract store on the tables, or none.
LEMMA StepImplementsTables == TablesInv /\ [Next]_vars => [Tables!Next]_(Tables!vars)
<1> SUFFICES ASSUME TablesInv, [Next]_vars PROVE [Tables!Next]_(Tables!vars)
  OBVIOUS
<1>1. CASE UNCHANGED tables
  BY <1>1 DEF tables, Tables!vars, IndexOf, DefaultOf
<1>2. ASSUME NEW t \in Threads, CommitSetDefault(t)
      PROVE  [Tables!Next]_(Tables!vars)
  <2>1. arg[t].threshold \in Thresholds
    BY DEF TablesInv, TypeOK, Request
  <2>2. CASE RowOf(t) = arg[t].threshold
    BY <1>1, <1>2, <2>2 DEF CommitSetDefault, tables
  <2>3. CASE RowOf(t) # arg[t].threshold
    <3>1. Tables!SetDefault(arg[t].threshold)
      BY <1>2, <2>1, <2>3, NoneAssumption
      DEF CommitSetDefault, Tables!SetDefault, IndexOf, DefaultOf
    <3> QED BY <2>1, <3>1 DEF Tables!Next
  <2> QED BY <2>2, <2>3
<1>3. ASSUME NEW t \in Threads, CommitSaveRule(t)
      PROVE  [Tables!Next]_(Tables!vars)
  BY <1>3, SaveImplementsSaveRule
<1>4. ASSUME NEW t \in Threads, NEW r \in RuleIds, CommitAddRule(t, r)
      PROVE  [Tables!Next]_(Tables!vars)
  <2>1. arg[t].threshold \in Thresholds
    BY DEF TablesInv, TypeOK, Request
  <2>2. rules[r] = None
    BY <1>4 DEF CommitAddRule, TablesInv, RulesAreIssued
  <2>3. Tables!AddRule(r, arg[t].threshold)
    BY <1>4, <2>2 DEF CommitAddRule, Tables!AddRule, IndexOf, DefaultOf
  <2> QED BY <2>1, <2>3 DEF Tables!Next
<1>5. ASSUME NEW t \in Threads, CommitDeleteRule(t)
      PROVE  [Tables!Next]_(Tables!vars)
  <2>1. CASE arg[t].rule = None
    BY <1>1, <1>5, <2>1, NamelessDelete
  <2>2. CASE arg[t].rule # None
    <3>1. arg[t].rule \in RuleIds /\ Tables!DeleteRule(arg[t].rule)
      BY <1>5, <2>2, NamedDelete
    <3> QED BY <3>1 DEF Tables!Next
  <2> QED BY <2>1, <2>2
<1>6. CASE \E t \in Threads :
             \/ AssignSetDefault(t) \/ ReadRow(t)
             \/ ReadSetting(t) \/ AssignDefault(t) \/ ReadRules(t) \/ ReadLinks(t)
             \/ AssignRules(t) \/ AssignIndex(t) \/ LookupRule(t) \/ Fail(t)
  BY <1>1, <1>6 DEF AssignSetDefault, ReadRow, ReadSetting, AssignDefault, ReadRules,
                    ReadLinks, AssignRules, AssignIndex, LookupRule, Fail
<1>7. CASE Restart \/ UNCHANGED vars
  BY <1>1, <1>7 DEF Restart, vars
<1>8. CASE \E t \in Threads :
             \/ \E x \in Thresholds \cup {Unparsable} : PostSetDefault(t, x)
             \/ \E r \in RuleIds, x \in Thresholds \cup {Unparsable}, hs \in SUBSET Hotels :
                  PostSaveRule(t, r, x, hs)
             \/ PostAddRule(t)
             \/ PressDelete(t)
             \/ \E r \in RuleIds : PostDeleteRule(t, r)
             \/ \E h \in Hotels : LookupIndex(t, h)
  BY <1>1, <1>8 DEF Receive, PostSetDefault, PostSaveRule, PostAddRule, PressDelete,
                    PostDeleteRule, LookupIndex
<1> QED BY <1>2, <1>3, <1>4, <1>5, <1>6, <1>7, <1>8 DEF Next

\* Whatever threads, failures and restarts do, the three tables change only as
\* the abstract store does: by one whole set_default, save_rule, add_blank_rule
\* or delete_rule (threshold_rules_store.py:70-134).
THEOREM TablesImplementRules == Spec => TablesAreAtomic
<1>1. Init => Tables!Init
  BY DEF Init, Tables!Init, DefaultOf, IndexOf
<1> QED
  BY <1>1, StepImplementsTables, TablesInvariant, PTL
  DEF Spec, TablesAreAtomic, Tables!Spec

(***************************************************************************)
(* What the Settings page can do of all this.                              *)
(***************************************************************************)

\* Every request comes from the page: nobody sends the delete route an id himself.
OnlyThePage == [][\A t \in Threads, r \in RuleIds : ~PostDeleteRule(t, r)]_vars

\* A delete under way that names no rule.
DeletesAreNameless ==
  \A t \in Threads : pc[t] \in {"readRow", "tx"} /\ arg[t].op = "delete" => arg[t].rule = None

\* Requests of the page keep it so.
LEMMA PageStaysNameless ==
  ASSUME TablesInv, DeletesAreNameless, [Next]_vars,
         [\A t \in Threads, r \in RuleIds : ~PostDeleteRule(t, r)]_vars
  PROVE  DeletesAreNameless'
<1>1. TypeOK
  BY DEF TablesInv
<1>2. CASE UNCHANGED vars \/ Restart
  BY <1>2 DEF DeletesAreNameless, vars, Restart
\* A request arrives.
<1>3. ASSUME NEW t \in Threads, NEW request \in Request, NEW step, Receive(t, request, step),
             request.op = "delete" => request.rule = None
      PROVE  DeletesAreNameless'
  BY <1>1, <1>3 DEF TypeOK, DeletesAreNameless, Receive, Goto
<1>4. ASSUME NEW t \in Threads, NEW x \in Thresholds \cup {Unparsable}, PostSetDefault(t, x)
      PROVE  DeletesAreNameless'
  <2> DEFINE request == [NoRequest EXCEPT !.op = "setDefault", !.threshold = Parsed(x)]
  <2>1. request \in Request /\ request.op = "setDefault"
    BY <1>1, TypeOfNothing, ParsedType DEF Request, NoRequest
  <2>2. Receive(t, request, "readRow")
    BY <1>4 DEF PostSetDefault
  <2> HIDE DEF request
  <2> QED BY <2>1, <2>2, <1>3
<1>5. ASSUME NEW t \in Threads, NEW r \in RuleIds, NEW x \in Thresholds \cup {Unparsable},
             NEW hs \in SUBSET Hotels, PostSaveRule(t, r, x, hs)
      PROVE  DeletesAreNameless'
  <2> DEFINE request == [NoRequest EXCEPT !.op = "save", !.rule = r, !.threshold = Parsed(x),
                                          !.hotels = hs]
  <2>1. request \in Request /\ request.op = "save"
    BY <1>1, TypeOfNothing, ParsedType DEF Request, NoRequest
  <2>2. Receive(t, request, IF hs = {} THEN "readRow" ELSE "tx")
    BY <1>5 DEF PostSaveRule
  <2> HIDE DEF request
  <2> QED BY <2>1, <2>2, <1>3
<1>6. ASSUME NEW t \in Threads, PostAddRule(t)
      PROVE  DeletesAreNameless'
  <2> DEFINE request == [NoRequest EXCEPT !.op = "add", !.threshold = cDefault]
  <2>1. request \in Request /\ request.op = "add"
    BY <1>1, TypeOfNothing DEF TypeOK, Request, NoRequest
  <2>2. Receive(t, request, "tx")
    BY <1>6 DEF PostAddRule
  <2> HIDE DEF request
  <2> QED BY <2>1, <2>2, <1>3
<1>7. ASSUME NEW t \in Threads, PressDelete(t)
      PROVE  DeletesAreNameless'
  <2> DEFINE request == [NoRequest EXCEPT !.op = "delete"]
  <2>1. request \in Request /\ request.rule = None
    BY TypeOfNothing DEF Request, NoRequest
  <2>2. Receive(t, request, "tx")
    BY <1>7 DEF PressDelete
  <2> HIDE DEF request
  <2> QED BY <2>1, <2>2, <1>3
<1>8. ASSUME NEW t \in Threads, NEW h \in Hotels, LookupIndex(t, h)
      PROVE  DeletesAreNameless'
  <2> DEFINE request == [NoRequest EXCEPT !.op = "lookup", !.rule = cIndex[h], !.hotel = h]
  <2>1. request \in Request /\ request.op = "lookup"
    BY <1>1, TypeOfNothing DEF TypeOK, Request, NoRequest
  <2>2. Receive(t, request, "lookup")
    BY <1>8 DEF LookupIndex
  <2> HIDE DEF request
  <2> QED BY <2>1, <2>2, <1>3
\* It goes on with the arguments it has, or ends.
<1>9. ASSUME NEW t \in Threads, NEW step \in Steps \ {"readRow", "tx"}, Goto(t, step),
             UNCHANGED arg \/ Finish(t)
      PROVE  DeletesAreNameless'
  BY <1>1, <1>9 DEF TypeOK, DeletesAreNameless, Goto, Finish
<1>10. ASSUME NEW t \in Threads,
              \/ CommitSetDefault(t) \/ CommitSaveRule(t) \/ CommitDeleteRule(t)
              \/ \E r \in RuleIds : CommitAddRule(t, r)
       PROVE  DeletesAreNameless'
  <2>1. UNCHANGED arg /\ (Goto(t, "assignSetDefault") \/ Goto(t, "readSetting"))
    BY <1>10 DEF CommitSetDefault, CommitSaveRule, CommitDeleteRule, CommitAddRule, Commit
  <2> QED BY <2>1, <1>9 DEF Steps
<1>11. ASSUME NEW t \in Threads,
              \/ ReadSetting(t) \/ AssignDefault(t) \/ ReadRules(t) \/ AssignRules(t)
       PROVE  DeletesAreNameless'
  <2>1. UNCHANGED arg /\ \E step \in Steps \ {"readRow", "tx"} : Goto(t, step)
    BY <1>11 DEF ReadSetting, AssignDefault, ReadRules, AssignRules, Steps
  <2> QED BY <2>1, <1>9
<1>12. ASSUME NEW t \in Threads,
              \/ AssignSetDefault(t) \/ AssignIndex(t) \/ LookupRule(t) \/ Fail(t)
       PROVE  DeletesAreNameless'
  <2>1. Finish(t)
    BY <1>12 DEF AssignSetDefault, AssignIndex, LookupRule, Fail
  <2> QED BY <2>1, <1>9 DEF Finish, Steps
<1>13. ASSUME NEW t \in Threads, ReadLinks(t)
       PROVE  DeletesAreNameless'
  <2>1. Finish(t) \/ (Goto(t, "assignRules") /\ UNCHANGED arg)
    BY <1>13 DEF ReadLinks
  <2> QED BY <2>1, <1>9 DEF Finish, Steps
\* The row it has loaded is no name.
<1>14. ASSUME NEW t \in Threads, ReadRow(t)
       PROVE  DeletesAreNameless'
  <2>1. arg'[t].op = arg[t].op /\ arg'[t].rule = arg[t].rule /\ pc[t] = "readRow"
    BY <1>1, <1>14 DEF TypeOK, Request, ReadRow
  <2>2. \A u \in Threads \ {t} : arg'[u] = arg[u] /\ pc'[u] = pc[u]
    BY <1>1, <1>14 DEF TypeOK, ReadRow, Goto
  <2> QED BY <2>1, <2>2 DEF DeletesAreNameless
<1> QED
  BY <1>2, <1>4, <1>5, <1>6, <1>7, <1>8, <1>10, <1>11, <1>12, <1>13, <1>14 DEF Next

\* No button of the Settings page ever deletes a rule: without a request that names
\* one, a rule that has been added stays, through every press of Delete, save,
\* failure, overlap and restart (settings.html:141, 166; app.py:535).
THEOREM NoButtonDeletes ==
  Spec /\ OnlyThePage => [][\A r \in RuleIds : rules[r] # None => rules'[r] # None]_vars
<1>1. Init => DeletesAreNameless
  BY DEF Init, DeletesAreNameless, NoRequest
<1>2. ASSUME TablesInv, DeletesAreNameless, [Next]_vars, NEW r \in RuleIds, rules[r] # None
      PROVE  rules'[r] # None
  <2>1. CASE UNCHANGED rules
    BY <1>2, <2>1
  <2>2. ASSUME NEW t \in Threads, CommitDeleteRule(t)
        PROVE  UNCHANGED rules
    <3>1. arg[t].rule = None
      BY <1>2, <2>2 DEF DeletesAreNameless, CommitDeleteRule, Commit
    <3> QED BY <1>2, <2>2, <3>1, NamelessDelete DEF tables
  <2>3. ASSUME NEW t \in Threads, CommitSaveRule(t) \/ \E q \in RuleIds : CommitAddRule(t, q)
        PROVE  rules'[r] # None
    <3>1. arg[t].threshold \in Thresholds
      BY <1>2 DEF TablesInv, TypeOK, Request
    <3>2. \/ UNCHANGED rules
          \/ \E q \in RuleIds \cup {None} : rules' = [rules EXCEPT ![q] = arg[t].threshold]
      BY <1>2, <2>3 DEF CommitSaveRule, CommitAddRule, TablesInv, TypeOK, Request
    <3> QED BY <1>2, <3>1, <3>2, NoneAssumption DEF TablesInv, TypeOK, RuleTable
  <2>4. UNCHANGED rules \/ \E t \in Threads :
          CommitDeleteRule(t) \/ CommitSaveRule(t) \/ \E q \in RuleIds : CommitAddRule(t, q)
    <3>1. CASE UNCHANGED vars \/ Restart
      BY <3>1 DEF vars, Restart, tables
    <3>2. ASSUME NEW t \in Threads,
                 \/ \E x \in Thresholds \cup {Unparsable} : PostSetDefault(t, x)
                 \/ \E q \in RuleIds, x \in Thresholds \cup {Unparsable},
                       hs \in SUBSET Hotels : PostSaveRule(t, q, x, hs)
                 \/ PostAddRule(t) \/ PressDelete(t)
                 \/ \E q \in RuleIds : PostDeleteRule(t, q)
                 \/ \E h \in Hotels : LookupIndex(t, h)
          PROVE  UNCHANGED rules
      BY <3>2 DEF PostSetDefault, PostSaveRule, PostAddRule, PressDelete, PostDeleteRule,
                  LookupIndex, Receive, tables
    <3>3. ASSUME NEW t \in Threads,
                 \/ CommitSetDefault(t) \/ AssignSetDefault(t) \/ ReadRow(t)
                 \/ ReadSetting(t) \/ AssignDefault(t) \/ ReadRules(t) \/ ReadLinks(t)
                 \/ AssignRules(t) \/ AssignIndex(t) \/ LookupRule(t) \/ Fail(t)
          PROVE  UNCHANGED rules
      BY <3>3 DEF CommitSetDefault, AssignSetDefault, ReadRow, ReadSetting, AssignDefault,
                  ReadRules, ReadLinks, AssignRules, AssignIndex, LookupRule, Fail, tables
    <3> QED BY <1>2, <3>1, <3>2, <3>3 DEF Next
  <2> QED BY <2>1, <2>2, <2>3, <2>4
<1>3. TablesInv /\ DeletesAreNameless /\ [Next]_vars =>
        [\A r \in RuleIds : rules[r] # None => rules'[r] # None]_vars
  BY <1>2
<1> QED
  BY <1>1, <1>3, PageStaysNameless, TablesInvariant, PTL DEF Spec, OnlyThePage
=============================================================================
