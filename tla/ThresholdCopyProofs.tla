------------------------- MODULE ThresholdCopyProofs -------------------------
(***************************************************************************)
(* What holds of the copy that ThresholdRuleStore keeps in memory, when    *)
(* one request is answered at a time: the deployed service                 *)
(* (src/deployment/systemd/morning-shift.service).  The database may fail  *)
(* at any call, and the process die between any two steps.                 *)
(***************************************************************************)
EXTENDS ThresholdRuleStoreProofs

OneThread == \A t, u \in Threads : t = u

(***************************************************************************)
(* The inductive invariant.                                                *)
(***************************************************************************)

\* A hotel is looked up in the rule that lists it.
HalvesAgree ==
  \A h \in Hotels, r \in RuleIds :
    (cIndex[h] = r) <=> (cRules[r] # None /\ h \in cRules[r].hotels)

RulesSynced == cRules = RulesOf(rules, links) /\ cIndex = IndexOf(links)
DefaultSynced == cDefault = DefaultOf(setting)

\* A request that loaded the row it writes still has the row there is.
RowIsFresh(t) ==
  /\ pc[t] = "tx" /\ arg[t].op = "setDefault" => arg[t].hotels = {} /\ arg[t].row = setting
  /\ pc[t] = "readRow" /\ arg[t].op = "setDefault" => arg[t].hotels = {}
  /\ pc[t] = "tx" /\ arg[t].op = "save" /\ arg[t].hotels = {} => arg[t].row = rules[arg[t].rule]

\* What the request of t knows of the tables, step by step, and what the copy is.
CopyOK(t) ==
  /\ pc[t] # "assignIndex" => HalvesAgree
  /\ pc[t] \in {"idle", "readRow", "tx", "lookup"} /\ ~behind => DefaultSynced /\ RulesSynced
  /\ pc[t] = "lookup" => arg[t].rule = cIndex[arg[t].hotel]
  /\ pc[t] = "assignSetDefault" =>
       arg[t].threshold = DefaultOf(setting) /\ (~behind => RulesSynced)
  /\ pc[t] = "assignDefault" => snap[t].default = DefaultOf(setting)
  /\ pc[t] \in {"readRules", "readLinks", "assignRules", "assignIndex"} => DefaultSynced
  /\ pc[t] \in {"readLinks", "assignRules", "assignIndex"} => snap[t].rules = rules
  /\ pc[t] \in {"assignRules", "assignIndex"} => snap[t].links = links
  /\ pc[t] = "assignIndex" => cRules = RulesOf(rules, links)
  /\ RowIsFresh(t)

\* With no thread there is nothing to say of the copy but that it is right.
CopyInv ==
  /\ OneThread /\ TablesInv
  /\ \A t \in Threads : CopyOK(t)
  /\ Threads = {} => DefaultSynced /\ RulesSynced /\ HalvesAgree
  /\ LookupNeverFails

(***************************************************************************)
(* What _load_cache makes of the tables.                                   *)
(***************************************************************************)

\* The two dictionaries of a reload agree, since the links are unique and name rules.
LEMMA ReloadAgrees ==
  ASSUME TypeOK, Unique(links), NoOrphanLinks, NEW h \in Hotels, NEW r \in RuleIds
  PROVE  (IndexOf(links)[h] = r) <=>
           (RulesOf(rules, links)[r] # None /\ h \in RulesOf(rules, links)[r].hotels)
<1>1. IndexOf(links)[h] = r <=> <<r, h>> \in links
  BY IndexOfLinks DEF TypeOK
<1>2. CASE rules[r] = None
  <2>1. RulesOf(rules, links)[r] = None
    BY <1>2 DEF RulesOf
  <2>2. <<r, h>> \notin links
    BY <1>2 DEF NoOrphanLinks
  <2> QED BY <1>1, <2>1, <2>2
<1>3. CASE rules[r] # None
  <2> DEFINE cached == [threshold |-> rules[r], hotels |-> {g \in Hotels : <<r, g>> \in links}]
  <2>1. RulesOf(rules, links)[r] = cached
    BY <1>3 DEF RulesOf
  <2>2. cached \in CachedRule
    BY <1>3 DEF TypeOK, RuleTable, CachedRule
  <2>3. cached # None
    BY <2>2, ValuesAssumption
  <2>4. h \in cached.hotels <=> <<r, h>> \in links
    OBVIOUS
  <2> HIDE DEF cached
  <2> QED BY <1>1, <2>1, <2>3, <2>4
<1> QED BY <1>2, <1>3

\* A copy that is the tables agrees with itself.
LEMMA SyncedAgrees ==
  ASSUME TablesInv, RulesSynced
  PROVE  HalvesAgree
BY ReloadAgrees DEF TablesInv, RulesSynced, HalvesAgree

\* A new database and the copy built from it (db.py:44-48).
LEMMA InitCopyInv == OneThread /\ Init => CopyInv
<1> SUFFICES ASSUME OneThread, Init PROVE CopyInv
  OBVIOUS
<1>1. TablesInv
  BY InitTablesInv
<1>2. DefaultSynced /\ RulesSynced
  BY DEF Init, DefaultSynced, RulesSynced, DefaultOf, RulesOf, IndexOf
<1>3. HalvesAgree
  BY <1>1, <1>2, SyncedAgrees
<1>4. \A t \in Threads : pc[t] = "idle" /\ answer[t] # KeyError
  BY ValuesAssumption DEF Init
<1> QED BY <1>1, <1>2, <1>3, <1>4 DEF CopyInv, CopyOK, RowIsFresh, LookupNeverFails

(***************************************************************************)
(* The steps, one lemma for each kind.                                     *)
(***************************************************************************)

\* t is the only thread: what holds of it holds of all.
LEMMA OnlyOne ==
  ASSUME CopyInv, NEW t \in Threads, TablesInv', CopyOK(t)', LookupNeverFails'
  PROVE  CopyInv'
BY DEF CopyInv, OneThread

\* A request arrives and finds the copy as the one before left it.
LEMMA ReceiveCopy ==
  ASSUME CopyInv, NEW t \in Threads, NEW request \in Request,
         NEW step \in {"tx", "readRow", "lookup"},
         Receive(t, request, step), TablesInv',
         step = "tx" => request.op # "setDefault" /\ (request.op # "save" \/ request.hotels # {}),
         request.op = "setDefault" => request.hotels = {},
         step = "lookup" => request.rule = cIndex[request.hotel]
  PROVE  CopyInv'
<1>1. pc[t] = "idle" /\ CopyOK(t)
  BY DEF CopyInv, Receive
<1>2. pc'[t] = step /\ arg'[t] = request /\ UNCHANGED <<tables, cache, snap, answer>>
  BY DEF CopyInv, TablesInv, TypeOK, Receive, Goto
<1>3. CopyOK(t)'
  BY <1>1, <1>2
  DEF CopyOK, HalvesAgree, RulesSynced, DefaultSynced, RowIsFresh, tables, cache
<1>4. LookupNeverFails'
  BY <1>2 DEF CopyInv, LookupNeverFails
<1> QED BY <1>3, <1>4, OnlyOne

\* A request ends and leaves the copy as it should be between requests.
LEMMA FinishCopy ==
  ASSUME CopyInv, NEW t \in Threads, Finish(t), TablesInv', LookupNeverFails', HalvesAgree',
         ~behind' => DefaultSynced' /\ RulesSynced'
  PROVE  CopyInv'
<1>1. pc'[t] = "idle"
  BY DEF CopyInv, TablesInv, TypeOK, Finish, Goto
<1>2. CopyOK(t)'
  BY <1>1 DEF CopyOK, RowIsFresh
<1> QED BY <1>2, OnlyOne

\* A transaction of the rules commits: the copy is behind until the reload is done.
LEMMA CommitCopy ==
  ASSUME CopyInv, NEW t \in Threads, NEW op, Commit(t, op, "readSetting"), TablesInv'
  PROVE  CopyInv'
<1>1. HalvesAgree
  BY DEF CopyInv, CopyOK, Commit
<1>2. pc'[t] = "readSetting" /\ UNCHANGED <<cache, answer>>
  BY DEF CopyInv, TablesInv, TypeOK, Commit, Goto
<1>3. CopyOK(t)'
  BY <1>1, <1>2 DEF CopyOK, HalvesAgree, RowIsFresh, cache
<1>4. LookupNeverFails'
  BY <1>2 DEF CopyInv, LookupNeverFails
<1> QED BY <1>3, <1>4, OnlyOne

\* With one thread the row is the loaded one, so the default is the form's afterwards.
LEMMA SettingIsPosted ==
  ASSUME CopyInv, NEW t \in Threads, CommitSetDefault(t)
  PROVE  setting' = arg[t].threshold
<1>1. arg[t].hotels = {} /\ arg[t].row = setting
  BY DEF CopyInv, CopyOK, RowIsFresh, CommitSetDefault, Commit
<1>2. RowOf(t) = setting
  BY <1>1 DEF RowOf
<1> QED BY <1>2 DEF CommitSetDefault

\* The default of a form is committed before the copy has it.
LEMMA CommitDefaultCopy ==
  ASSUME CopyInv, NEW t \in Threads, CommitSetDefault(t), TablesInv'
  PROVE  CopyInv'
<1>1. CopyOK(t) /\ pc[t] = "tx" /\ arg[t].threshold \in Thresholds
  BY DEF CopyInv, TablesInv, TypeOK, Request, CommitSetDefault, Commit
<1>2. /\ pc'[t] = "assignSetDefault" /\ UNCHANGED <<cache, arg, answer, rules, links>>
      /\ setting' = arg[t].threshold
  BY SettingIsPosted DEF CopyInv, TablesInv, TypeOK, CommitSetDefault, Commit, Goto
<1>3. setting' = DefaultOf(setting')
  BY <1>1, <1>2, NoneAssumption DEF DefaultOf
<1>4. CopyOK(t)'
  BY <1>1, <1>2, <1>3 DEF CopyOK, HalvesAgree, RulesSynced, RowIsFresh, cache
<1>5. LookupNeverFails'
  BY <1>2 DEF CopyInv, LookupNeverFails
<1> QED BY <1>4, <1>5, OnlyOne

\* The copy gets the default, and is as right as the rules in it are.
LEMMA AssignDefaultCopy ==
  ASSUME CopyInv, NEW t \in Threads, AssignSetDefault(t), TablesInv'
  PROVE  CopyInv'
<1>1. CopyOK(t) /\ pc[t] = "assignSetDefault"
  BY DEF CopyInv, AssignSetDefault
<1>2. /\ Finish(t) /\ cDefault' = arg[t].threshold
      /\ UNCHANGED <<tables, cRules, cIndex, behind, answer>>
  BY DEF AssignSetDefault
<1>3. HalvesAgree' /\ (~behind' => DefaultSynced' /\ RulesSynced')
  BY <1>1, <1>2 DEF CopyOK, HalvesAgree, DefaultSynced, RulesSynced, tables
<1>4. LookupNeverFails'
  BY <1>2 DEF CopyInv, LookupNeverFails
<1> QED BY <1>2, <1>3, <1>4, FinishCopy

\* The queries of a reload, one after the other, see the same tables.
LEMMA ReloadCopy ==
  ASSUME CopyInv, NEW t \in Threads, TablesInv',
         ReadSetting(t) \/ AssignDefault(t) \/ ReadRules(t) \/ AssignRules(t)
  PROVE  CopyInv'
<1>1. CopyOK(t) /\ UNCHANGED <<tables, answer>>
  BY DEF CopyInv, ReadSetting, AssignDefault, ReadRules, AssignRules
<1>2. pc \in [Threads -> Steps] /\ snap[t] \in [default : Thresholds, rules : RuleTable,
                                               links : SUBSET (RuleIds \X Hotels)]
      /\ DOMAIN snap = Threads
  BY DEF CopyInv, TablesInv, TypeOK
<1>3. CASE ReadSetting(t)
  <2>1. /\ pc[t] = "readSetting" /\ pc'[t] = "assignDefault" /\ UNCHANGED cache
        /\ snap'[t].default = DefaultOf(setting)
    BY <1>2, <1>3 DEF ReadSetting, Goto
  <2> QED BY <1>1, <2>1, OnlyOne
      DEF CopyOK, HalvesAgree, RowIsFresh, LookupNeverFails, tables, cache, CopyInv
<1>4. CASE AssignDefault(t)
  <2>1. /\ pc[t] = "assignDefault" /\ pc'[t] = "readRules" /\ UNCHANGED <<cRules, cIndex>>
        /\ cDefault' = snap[t].default
    BY <1>2, <1>4 DEF AssignDefault, Goto
  <2> QED BY <1>1, <2>1, OnlyOne
      DEF CopyOK, HalvesAgree, DefaultSynced, RowIsFresh, LookupNeverFails, tables, CopyInv
<1>5. CASE ReadRules(t)
  <2>1. /\ pc[t] = "readRules" /\ pc'[t] = "readLinks" /\ UNCHANGED cache
        /\ snap'[t].rules = rules
    BY <1>2, <1>5 DEF ReadRules, Goto
  <2> QED BY <1>1, <2>1, OnlyOne
      DEF CopyOK, HalvesAgree, DefaultSynced, RowIsFresh, LookupNeverFails, tables, cache, CopyInv
<1>6. CASE AssignRules(t)
  <2>1. /\ pc[t] = "assignRules" /\ pc'[t] = "assignIndex" /\ UNCHANGED <<cDefault, snap>>
        /\ cRules' = RulesOf(snap[t].rules, snap[t].links)
    BY <1>2, <1>6 DEF AssignRules, Goto
  <2> QED BY <1>1, <2>1, OnlyOne
      DEF CopyOK, DefaultSynced, RowIsFresh, LookupNeverFails, tables, CopyInv
<1> QED BY <1>3, <1>4, <1>5, <1>6

\* Every link names a rule the reload has read.
LEMMA ReadLinksCopy ==
  ASSUME CopyInv, NEW t \in Threads, ReadLinks(t), TablesInv'
  PROVE  CopyInv'
<1>1. CopyOK(t) /\ pc[t] = "readLinks" /\ UNCHANGED <<tables, cDefault, cRules, cIndex, answer>>
  BY DEF CopyInv, ReadLinks
<1>2. \A l \in links : snap[t].rules[l[1]] # None
  BY <1>1 DEF CopyOK, CopyInv, TablesInv, NoOrphanLinks
<1>3. pc'[t] = "assignRules" /\ snap'[t].links = links /\ snap'[t].rules = snap[t].rules
  <2>1. Goto(t, "assignRules") /\ snap' = [snap EXCEPT ![t].links = links]
    BY <1>2 DEF ReadLinks
  <2> QED BY <2>1 DEF Goto, CopyInv, TablesInv, TypeOK
<1>4. CopyOK(t)'
  BY <1>1, <1>3 DEF CopyOK, HalvesAgree, DefaultSynced, RowIsFresh, tables
<1>5. LookupNeverFails'
  BY <1>1 DEF CopyInv, LookupNeverFails
<1> QED BY <1>4, <1>5, OnlyOne

\* The last assignment of a reload: the copy is the tables again.
LEMMA AssignIndexSyncs ==
  ASSUME CopyInv, NEW t \in Threads, AssignIndex(t)
  PROVE  DefaultSynced' /\ RulesSynced'
<1>1. CopyOK(t) /\ pc[t] = "assignIndex"
  BY DEF CopyInv, AssignIndex
<1>2. cIndex' = IndexOf(snap[t].links) /\ UNCHANGED <<tables, cDefault, cRules>>
  BY DEF AssignIndex
<1> QED BY <1>1, <1>2 DEF CopyOK, DefaultSynced, RulesSynced, tables

LEMMA AssignIndexCopy ==
  ASSUME CopyInv, NEW t \in Threads, AssignIndex(t), TablesInv'
  PROVE  CopyInv'
<1>1. DefaultSynced' /\ RulesSynced'
  BY AssignIndexSyncs
<1>2. HalvesAgree'
  BY <1>1, SyncedAgrees, PTL
<1>3. Finish(t) /\ UNCHANGED answer
  BY DEF AssignIndex
<1>4. LookupNeverFails'
  BY <1>3 DEF CopyInv, LookupNeverFails
<1> QED BY <1>1, <1>2, <1>3, <1>4, FinishCopy

\* get_threshold meets the rule that the index has just named.
LEMMA LookupCopy ==
  ASSUME CopyInv, NEW t \in Threads, LookupRule(t), TablesInv'
  PROVE  CopyInv'
<1> DEFINE h == arg[t].hotel
           r == arg[t].rule
<1>1. CopyOK(t) /\ pc[t] = "lookup"
  BY DEF CopyInv, LookupRule
<1>2. h \in Hotels /\ r \in RuleIds \cup {None} /\ r = cIndex[h]
  BY <1>1 DEF CopyInv, CopyOK, TablesInv, TypeOK, RequestsOK, Request
<1>3. r # None => cRules[r] # None
  BY <1>1, <1>2 DEF CopyOK, HalvesAgree
<1>4. Finish(t) /\ UNCHANGED <<tables, cache>>
  BY DEF LookupRule
<1>5. /\ HalvesAgree'
      /\ ~behind' => DefaultSynced' /\ RulesSynced'
  BY <1>1, <1>4 DEF CopyOK, HalvesAgree, DefaultSynced, RulesSynced, tables, cache
<1>6. LookupNeverFails'
  <2> DEFINE a == IF r = None THEN [hotel |-> h, threshold |-> cDefault, rule |-> None]
                  ELSE [hotel |-> h, threshold |-> cRules[r].threshold, rule |-> r]
  <2>1. answer' = [answer EXCEPT ![t] = a]
    BY <1>3 DEF LookupRule
  <2>2. a \in Answer
    BY <1>2, <1>3 DEF CopyInv, TablesInv, TypeOK, Answer, CachedRule
  <2>3. a # KeyError
    BY <2>2, ValuesAssumption
  <2> HIDE DEF a
  <2> QED BY <2>1, <2>3 DEF CopyInv, TablesInv, TypeOK, LookupNeverFails
<1> QED BY <1>4, <1>5, <1>6, FinishCopy

\* The row that set_default writes, or that of the rule of a form which names no hotel, is
\* loaded first, and stays.
LEMMA ReadRowCopy ==
  ASSUME CopyInv, NEW t \in Threads, ReadRow(t), TablesInv'
  PROVE  CopyInv'
<1>1. CopyOK(t) /\ pc[t] = "readRow" /\ UNCHANGED <<tables, cache, snap, answer>>
  BY DEF CopyInv, ReadRow
<1>2. /\ pc'[t] = "tx" /\ arg'[t].row = Row(t) /\ arg'[t].rule = arg[t].rule
      /\ arg'[t].op = arg[t].op /\ arg'[t].hotels = arg[t].hotels
  BY DEF CopyInv, TablesInv, TypeOK, Request, ReadRow, Goto
<1>3. CopyOK(t)'
  BY <1>1, <1>2
  DEF CopyOK, HalvesAgree, RulesSynced, DefaultSynced, RowIsFresh, Row, tables, cache
<1>4. LookupNeverFails'
  BY <1>1 DEF CopyInv, LookupNeverFails
<1> QED BY <1>3, <1>4, OnlyOne

\* A failure before the commit leaves copy and tables as they were; one in the reload
\* leaves the copy behind.
LEMMA FailCopy ==
  ASSUME CopyInv, NEW t \in Threads, Fail(t), TablesInv'
  PROVE  CopyInv'
<1>1. CopyOK(t) /\ pc[t] \in {"readRow", "tx"} \cup Reloading
  BY DEF CopyInv, Fail
<1>2. Finish(t) /\ UNCHANGED <<tables, cDefault, cRules, cIndex, answer>>
  BY DEF Fail
<1>3. ~behind' => ~behind /\ pc[t] \notin Reloading
  BY Zenon DEF Fail
<1>4. /\ HalvesAgree'
      /\ ~behind' => DefaultSynced' /\ RulesSynced'
  BY <1>1, <1>2, <1>3
  DEF CopyOK, HalvesAgree, DefaultSynced, RulesSynced, Reloading, tables
<1>5. LookupNeverFails'
  BY <1>2 DEF CopyInv, LookupNeverFails
<1> QED BY <1>2, <1>4, <1>5, FinishCopy

\* The constructor loads the tables.
LEMMA RestartCopy ==
  ASSUME CopyInv, Restart, TablesInv'
  PROVE  CopyInv'
<1>1. DefaultSynced' /\ RulesSynced'
  BY DEF Restart, DefaultSynced, RulesSynced, tables
<1>2. HalvesAgree'
  BY <1>1, SyncedAgrees, PTL
<1>3. \A t \in Threads : CopyOK(t)'
  BY <1>1, <1>2 DEF Restart, CopyOK, RowIsFresh
<1>4. LookupNeverFails'
  BY DEF Restart, CopyInv, LookupNeverFails
<1> QED BY <1>1, <1>2, <1>3, <1>4 DEF CopyInv, OneThread

(***************************************************************************)
(* Every step keeps the invariant.                                         *)
(***************************************************************************)

\* Whatever is posted, looked up, committed, failed or restarted.
LEMMA NextCopyInv == CopyInv /\ [Next]_vars => CopyInv'
<1> SUFFICES ASSUME CopyInv, [Next]_vars PROVE CopyInv'
  OBVIOUS
<1>1. TablesInv'
  BY NextTablesInv DEF CopyInv
<1>2. CASE UNCHANGED vars
  BY <1>1, <1>2 DEF CopyInv, vars, tables, cache, CopyOK, HalvesAgree, DefaultSynced,
                    RulesSynced, RowIsFresh, LookupNeverFails, OneThread
<1>3. ASSUME NEW t \in Threads, NEW x \in Thresholds \cup {Unparsable}, PostSetDefault(t, x)
      PROVE  CopyInv'
  <2>1. Parsed(x) \in Thresholds
    BY ParsedType DEF CopyInv, TablesInv
  <2> DEFINE request == [NoRequest EXCEPT !.op = "setDefault", !.threshold = Parsed(x)]
  <2>2. request \in Request /\ request.op = "setDefault" /\ request.hotels = {}
    BY <2>1, TypeOfNothing DEF Request, NoRequest
  <2>3. Receive(t, request, "readRow")
    BY <1>3 DEF PostSetDefault
  <2> HIDE DEF request
  <2> QED BY <1>1, <2>2, <2>3, ReceiveCopy
<1>4. ASSUME NEW t \in Threads, NEW r \in RuleIds, NEW x \in Thresholds \cup {Unparsable},
             NEW hs \in SUBSET Hotels, PostSaveRule(t, r, x, hs)
      PROVE  CopyInv'
  <2>1. Parsed(x) \in Thresholds
    BY ParsedType DEF CopyInv, TablesInv
  <2> DEFINE request == [NoRequest EXCEPT !.op = "save", !.rule = r, !.threshold = Parsed(x),
                                          !.hotels = hs]
             step == IF hs = {} THEN "readRow" ELSE "tx"
  <2>2. request \in Request /\ request.hotels = hs /\ request.op = "save"
    BY <2>1, TypeOfNothing DEF Request, NoRequest
  <2>3. step \in {"tx", "readRow"} /\ (step = "tx" => hs # {})
    OBVIOUS
  <2>4. Receive(t, request, step)
    BY <1>4 DEF PostSaveRule
  <2> HIDE DEF request, step
  <2> QED BY <1>1, <2>2, <2>3, <2>4, ReceiveCopy
<1>5. ASSUME NEW t \in Threads, PostAddRule(t)
      PROVE  CopyInv'
  <2> DEFINE request == [NoRequest EXCEPT !.op = "add", !.threshold = cDefault]
  <2>1. request \in Request /\ request.op = "add"
    BY TypeOfNothing DEF CopyInv, TablesInv, TypeOK, Request, NoRequest
  <2>2. Receive(t, request, "tx")
    BY <1>5 DEF PostAddRule
  <2> HIDE DEF request
  <2> QED BY <1>1, <2>1, <2>2, ReceiveCopy
<1>6. ASSUME NEW t \in Threads, NEW r \in RuleIds, PostDeleteRule(t, r)
      PROVE  CopyInv'
  <2> DEFINE request == [NoRequest EXCEPT !.op = "delete", !.rule = r]
  <2>1. request \in Request /\ request.op = "delete"
    BY TypeOfNothing DEF Request, NoRequest
  <2>2. Receive(t, request, "tx")
    BY <1>6 DEF PostDeleteRule
  <2> HIDE DEF request
  <2> QED BY <1>1, <2>1, <2>2, ReceiveCopy
<1>6a. ASSUME NEW t \in Threads, PressDelete(t)
       PROVE  CopyInv'
  <2> DEFINE request == [NoRequest EXCEPT !.op = "delete"]
  <2>1. request \in Request /\ request.op = "delete"
    BY TypeOfNothing DEF Request, NoRequest
  <2>2. Receive(t, request, "tx")
    BY <1>6a DEF PressDelete
  <2> HIDE DEF request
  <2> QED BY <1>1, <2>1, <2>2, ReceiveCopy
<1>7. ASSUME NEW t \in Threads, NEW h \in Hotels, LookupIndex(t, h)
      PROVE  CopyInv'
  <2> DEFINE request == [NoRequest EXCEPT !.op = "lookup", !.rule = cIndex[h], !.hotel = h]
  <2>1. request \in Request /\ request.op = "lookup" /\ request.rule = cIndex[h] /\ request.hotel = h
    BY TypeOfNothing DEF CopyInv, TablesInv, TypeOK, Request, NoRequest
  <2>2. Receive(t, request, "lookup")
    BY <1>7 DEF LookupIndex
  <2> HIDE DEF request
  <2> QED BY <1>1, <2>1, <2>2, ReceiveCopy
<1>8. ASSUME NEW t \in Threads,
             \/ CommitSaveRule(t) \/ CommitDeleteRule(t)
             \/ \E r \in RuleIds : CommitAddRule(t, r)
      PROVE  CopyInv'
  BY <1>1, <1>8, CommitCopy DEF CommitSaveRule, CommitDeleteRule, CommitAddRule
<1>9. ASSUME NEW t \in Threads,
             \/ CommitSetDefault(t) \/ AssignSetDefault(t) \/ ReadRow(t)
             \/ ReadSetting(t) \/ AssignDefault(t) \/ ReadRules(t) \/ ReadLinks(t)
             \/ AssignRules(t) \/ AssignIndex(t) \/ LookupRule(t) \/ Fail(t)
      PROVE  CopyInv'
  BY <1>1, <1>9, CommitDefaultCopy, AssignDefaultCopy, ReadRowCopy, ReloadCopy,
     ReadLinksCopy, AssignIndexCopy, LookupCopy, FailCopy
<1> QED BY <1>1, <1>2, <1>3, <1>4, <1>5, <1>6, <1>6a, <1>7, <1>8, <1>9, RestartCopy DEF Next

\* The invariant holds of every behaviour of the deployed service.
LEMMA CopyInvariant == OneThread /\ Spec => []CopyInv
BY InitCopyInv, NextCopyInv, PTL DEF Spec

(***************************************************************************)
(* The invariants of the copy.                                             *)
(***************************************************************************)

\* Between requests the copy says what the tables say, whatever failed, unless the
\* last reload did (threshold_rules_store.py:53-64, 117-118).
THEOREM CopyIsInSync == OneThread /\ Spec => []CacheSynced
<1>1. CopyInv => CacheSynced
  BY DEF CopyInv, CopyOK, CacheSynced, Quiet, Synced, DefaultSynced, RulesSynced
<1> QED BY <1>1, CopyInvariant, PTL

\* get_threshold always has an answer, after a reload that failed as well
\* (threshold_rules_store.py:86-89).
THEOREM LookupsAnswer == OneThread /\ Spec => []LookupNeverFails
<1>1. CopyInv => LookupNeverFails
  BY DEF CopyInv
<1> QED BY <1>1, CopyInvariant, PTL

\* Between requests the Settings page lists a hotel under the rule that get_threshold
\* applies to it (app.py:394-399).
THEOREM CopyAgreesWithItself == OneThread /\ Spec => []CacheSelfConsistent
<1>1. CopyInv => CacheSelfConsistent
  BY DEF CopyInv, CopyOK, CacheSelfConsistent, Quiet, HalvesAgree
<1> QED BY <1>1, CopyInvariant, PTL

(***************************************************************************)
(* What the steps do.                                                      *)
(***************************************************************************)

\* set_default (threshold_rules_store.py:70-77).
LEMMA SetDefaultAsSent ==
  ASSUME CopyInv, NEW t \in Threads, CommitSetDefault(t)
  PROVE  arg[t].op = "setDefault" /\ Tables!SetDefault(arg[t].threshold)
<1>1. arg[t].threshold \in Thresholds /\ setting' = arg[t].threshold
  BY SettingIsPosted DEF CopyInv, TablesInv, TypeOK, Request
<1> QED BY <1>1, NoneAssumption
        DEF CommitSetDefault, Commit, Tables!SetDefault, IndexOf, DefaultOf

\* save_rule (threshold_rules_store.py:92-117).  The row it has loaded is the one there
\* is, so a threshold left out of the UPDATE is the rule's already.
LEMMA SaveAsSent ==
  ASSUME CopyInv, NEW t \in Threads, CommitSaveRule(t)
  PROVE  /\ arg[t].op = "save"
         /\ Tables!SaveRule(arg[t].rule, arg[t].threshold, arg[t].hotels)
<1> DEFINE r == arg[t].rule
           x == arg[t].threshold
           hs == arg[t].hotels
<1>1. /\ r \in RuleIds /\ x \in Thresholds /\ hs \in SUBSET Hotels
      /\ pc[t] = "tx" /\ arg[t].op = "save"
  BY DEF CopyInv, TablesInv, TypeOK, RequestsOK, Request, CommitSaveRule, Commit
<1>2. RowOf(t) = rules[r]
  BY <1>1 DEF CopyInv, CopyOK, RowIsFresh, RowOf, Row
<1>3. rules' = [rules EXCEPT ![r] = x]
  BY <1>1, <1>2 DEF CommitSaveRule, CopyInv, TablesInv, TypeOK, RuleTable
<1>4. links' = Saved(links, r, hs) /\ setting' = setting
  BY DEF CommitSaveRule
<1>5. IndexOf(links)' = [h \in Hotels |-> IF h \in hs THEN r
                            ELSE IF IndexOf(links)[h] = r THEN None ELSE IndexOf(links)[h]]
  <2>1. IndexOf(links)' = IndexOf(links')
    BY DEF IndexOf
  <2>2. links \in SUBSET (RuleIds \X Hotels) /\ Unique(links)
    BY DEF CopyInv, TablesInv, TypeOK
  <2> QED BY <1>1, <1>4, <2>1, <2>2, IndexOfSaved
<1> QED BY <1>1, <1>3, <1>4, <1>5 DEF Tables!SaveRule, DefaultOf

\* add_blank_rule (threshold_rules_store.py:120-124).
LEMMA AddAsSent ==
  ASSUME CopyInv, NEW t \in Threads, NEW r \in RuleIds, CommitAddRule(t, r)
  PROVE  arg[t].op = "add" /\ Tables!AddRule(r, arg[t].threshold)
<1>1. rules[r] = None
  BY DEF CommitAddRule, CopyInv, TablesInv, RulesAreIssued
<1> QED BY <1>1 DEF CommitAddRule, Commit, Tables!AddRule, IndexOf, DefaultOf

\* delete_rule (threshold_rules_store.py:128-134), with a name and without.
LEMMA DeleteAsSent ==
  ASSUME CopyInv, NEW t \in Threads, CommitDeleteRule(t)
  PROVE  /\ arg[t].op = "delete"
         /\ arg[t].rule # None => Tables!DeleteRule(arg[t].rule)
         /\ arg[t].rule = None => UNCHANGED tables
BY NamedDelete, NamelessDelete DEF CopyInv, CommitDeleteRule, Commit

\* A step that changes the tables is a commit of the one thread.
CommitOf(t) ==
  \/ CommitSetDefault(t) \/ CommitSaveRule(t) \/ CommitDeleteRule(t)
  \/ \E r \in RuleIds : CommitAddRule(t, r)

PostOf(t) ==
  \/ \E x \in Thresholds \cup {Unparsable} : PostSetDefault(t, x)
  \/ \E r \in RuleIds, x \in Thresholds \cup {Unparsable}, hs \in SUBSET Hotels :
       PostSaveRule(t, r, x, hs)
  \/ PostAddRule(t)
  \/ PressDelete(t)
  \/ \E r \in RuleIds : PostDeleteRule(t, r)
  \/ \E h \in Hotels : LookupIndex(t, h)

\* The other steps of a request.
GoesOn(t) ==
  \/ AssignSetDefault(t) \/ ReadRow(t)
  \/ ReadSetting(t) \/ AssignDefault(t) \/ ReadRules(t) \/ ReadLinks(t)
  \/ AssignRules(t) \/ Fail(t)

\* Next, sorted.
LEMMA NextSorted ==
  Next => Restart \/ \E t \in Threads :
            CommitOf(t) \/ PostOf(t) \/ GoesOn(t) \/ AssignIndex(t) \/ LookupRule(t)
BY DEF Next, CommitOf, PostOf, GoesOn

\* What each sort of step leaves alone, and where it starts from.
LEMMA StepsApart ==
  ASSUME NEW t \in Threads
  PROVE  /\ CommitOf(t) => pc[t] = "tx" /\ UNCHANGED answer
         /\ PostOf(t) => pc[t] = "idle" /\ UNCHANGED <<tables, answer>>
         /\ GoesOn(t) => pc[t] # "assignIndex" /\ UNCHANGED <<tables, answer>>
         /\ AssignIndex(t) => pc[t] = "assignIndex" /\ UNCHANGED <<tables, answer>>
         /\ LookupRule(t) => pc[t] = "lookup" /\ UNCHANGED <<tables>>
<1>1. CommitOf(t) => pc[t] = "tx" /\ UNCHANGED answer
  BY DEF CommitOf, Commit, CommitSetDefault, CommitSaveRule, CommitAddRule, CommitDeleteRule
<1>2. PostOf(t) => pc[t] = "idle" /\ UNCHANGED <<tables, answer>>
  BY DEF PostOf, Receive, PostSetDefault, PostSaveRule, PostAddRule, PressDelete, PostDeleteRule,
         LookupIndex
<1>3. GoesOn(t) => pc[t] # "assignIndex" /\ UNCHANGED <<tables, answer>>
  BY DEF GoesOn, AssignSetDefault, ReadRow, ReadSetting, AssignDefault, ReadRules,
         ReadLinks, AssignRules, Fail, Reloading
<1>4. AssignIndex(t) => pc[t] = "assignIndex" /\ UNCHANGED <<tables, answer>>
  BY DEF AssignIndex
<1>5. LookupRule(t) => pc[t] = "lookup" /\ UNCHANGED <<tables>>
  BY DEF LookupRule
<1> QED BY <1>1, <1>2, <1>3, <1>4, <1>5

\* Only a commit takes a request from its transaction on to what follows.
LEMMA OnlyCommitsCommit ==
  ASSUME CopyInv, [Next]_vars, NEW t \in Threads,
         pc[t] = "tx", pc'[t] \in {"assignSetDefault", "readSetting"}
  PROVE  CommitOf(t)
<1>1. ~UNCHANGED vars /\ ~Restart
  BY DEF vars, Restart
<1>2. PICK u \in Threads :
        CommitOf(u) \/ PostOf(u) \/ GoesOn(u) \/ AssignIndex(u) \/ LookupRule(u)
  BY <1>1, NextSorted
<1>3. u = t
  BY DEF CopyInv, OneThread
<1>4. ~GoesOn(t)
  <2>1. Fail(t) => pc'[t] = "idle"
    BY DEF Fail, Finish, Goto, CopyInv, TablesInv, TypeOK
  <2> QED BY <2>1 DEF GoesOn, AssignSetDefault, ReadRow, ReadSetting, AssignDefault,
                      ReadRules, ReadLinks, AssignRules
<1> QED BY <1>2, <1>3, <1>4, StepsApart

\* Every commit is the operation of the abstract store that its request carries, argument
\* by argument; a delete that names no rule is none of them and changes no table
\* (threshold_rules_store.py:70-134, settings.html:166).
THEOREM CommitsAsSent == OneThread /\ Spec => CommitsWhatWasSent
<1> DEFINE Sent(t) ==
      \/ arg[t].op = "setDefault" /\ Tables!SetDefault(arg[t].threshold)
      \/ arg[t].op = "save" /\ Tables!SaveRule(arg[t].rule, arg[t].threshold, arg[t].hotels)
      \/ arg[t].op = "add" /\ \E r \in RuleIds : Tables!AddRule(r, arg[t].threshold)
      \/ arg[t].op = "delete" /\ arg[t].rule # None /\ Tables!DeleteRule(arg[t].rule)
      \/ arg[t].op = "delete" /\ arg[t].rule = None /\ UNCHANGED tables
<1>1. ASSUME CopyInv, [Next]_vars, NEW t \in Threads,
             pc[t] = "tx", pc'[t] \in {"assignSetDefault", "readSetting"}
      PROVE  Sent(t)
  <2>1. CommitOf(t)
    BY <1>1, OnlyCommitsCommit
  <2> QED BY <1>1, <2>1, SetDefaultAsSent, SaveAsSent, AddAsSent, DeleteAsSent DEF CommitOf
<1>2. CopyInv /\ [Next]_vars =>
        [\A t \in Threads : pc[t] = "tx" /\ pc'[t] \in {"assignSetDefault", "readSetting"}
           => Sent(t)]_vars
  BY <1>1
<1> QED BY <1>2, CopyInvariant, PTL DEF Spec, CommitsWhatWasSent

\* A reload that completes leaves the copy as the tables are, whatever failed before it
\* (threshold_rules_store.py:23-25).
THEOREM CompletedWritesSync == OneThread /\ Spec => CompletedWriteSyncs
<1>1. ASSUME CopyInv, [Next]_vars, NEW t \in Threads, pc[t] = "assignIndex", pc'[t] = "idle"
      PROVE  Synced'
  <2>1. CASE Restart
    BY <2>1 DEF Restart, Synced, tables
  <2>2. CASE ~Restart
    <3>1. PICK u \in Threads :
            CommitOf(u) \/ PostOf(u) \/ GoesOn(u) \/ AssignIndex(u) \/ LookupRule(u)
      BY <1>1, <2>2, NextSorted DEF vars
    <3>2. AssignIndex(t)
      BY <1>1, <3>1, StepsApart DEF CopyInv, OneThread
    <3> QED BY <1>1, <3>2, AssignIndexSyncs DEF Synced, DefaultSynced, RulesSynced
  <2> QED BY <2>1, <2>2
<1>2. CopyInv /\ [Next]_vars =>
        [\A t \in Threads : pc[t] = "assignIndex" /\ pc'[t] = "idle" => Synced']_vars
  BY <1>1
<1> QED BY <1>2, CopyInvariant, PTL DEF Spec, CompletedWriteSyncs

(***************************************************************************)
(* The store implements BalanceRules.                                      *)
(***************************************************************************)

\* A look-up answers as the tables have it, unless a reload has failed.
LEMMA LookupImplements ==
  ASSUME CopyInv, NEW t \in Threads, LookupRule(t), ~behind
  PROVE  Promise!Next
<1> DEFINE h == arg[t].hotel
           r == arg[t].rule
<1>1. /\ h \in Hotels /\ r \in RuleIds \cup {None} /\ r = cIndex[h]
      /\ DefaultSynced /\ RulesSynced /\ HalvesAgree
  BY DEF CopyInv, CopyOK, TablesInv, TypeOK, RequestsOK, Request, LookupRule
<1>2. r # None => rules[r] # None /\ cRules[r] # None /\ cRules[r].threshold = rules[r]
  <2> SUFFICES ASSUME r # None
               PROVE  rules[r] # None /\ cRules[r] # None /\ cRules[r].threshold = rules[r]
    OBVIOUS
  <2>1. cRules[r] # None
    BY <1>1 DEF HalvesAgree
  <2>2. cRules[r] = IF rules[r] = None THEN None
                    ELSE [threshold |-> rules[r], hotels |-> {g \in Hotels : <<r, g>> \in links}]
    BY <1>1 DEF RulesSynced, RulesOf
  <2> QED BY <2>1, <2>2
<1>3. answer' = [answer EXCEPT ![t] = Promise!Effective(h)]
  BY <1>1, <1>2 DEF LookupRule, Promise!Effective, DefaultSynced, RulesSynced
<1>4. Promise!Lookup(t, h)
  BY <1>3 DEF LookupRule, tables, Promise!Lookup, DefaultOf, IndexOf
<1> QED BY <1>1, <1>4 DEF Promise!Next

\* Every step is one step of the abstract store, or none, unless a reload has failed.
LEMMA StepKeepsPromise ==
  CopyInv /\ [Next]_vars => [behind \/ Promise!Next]_(Promise!vars)
<1> SUFFICES ASSUME CopyInv, [Next]_vars PROVE [behind \/ Promise!Next]_(Promise!vars)
  OBVIOUS
<1>1. CASE UNCHANGED <<tables, answer>>
  BY <1>1 DEF tables, Promise!vars, IndexOf, DefaultOf
<1>2. ASSUME NEW t \in Threads, CommitOf(t)
      PROVE  Promise!Next \/ UNCHANGED <<tables, answer>>
  <2>1. /\ arg[t].rule \in RuleIds \cup {None} /\ arg[t].threshold \in Thresholds
        /\ arg[t].hotels \in SUBSET Hotels /\ UNCHANGED answer
    BY <1>2, StepsApart DEF CopyInv, TablesInv, TypeOK, Request
  <2>2. CASE CommitSetDefault(t)
    <3>1. Promise!SetDefault(arg[t].threshold)
      BY <2>1, <2>2, SetDefaultAsSent DEF Tables!SetDefault, Promise!SetDefault
    <3> QED BY <2>1, <3>1 DEF Promise!Next
  <2>3. CASE CommitSaveRule(t)
    <3>1. arg[t].rule \in RuleIds
      BY <2>3 DEF CommitSaveRule, Commit, CopyInv, TablesInv, TypeOK, RequestsOK
    <3>2. Promise!SaveRule(arg[t].rule, arg[t].threshold, arg[t].hotels)
      BY <2>1, <2>3, SaveAsSent DEF Tables!SaveRule, Promise!SaveRule
    <3> QED BY <2>1, <3>1, <3>2 DEF Promise!Next
  <2>4. CASE CommitDeleteRule(t)
    <3>1. CASE arg[t].rule = None
      BY <2>1, <2>4, <3>1, DeleteAsSent
    <3>2. CASE arg[t].rule # None
      <4>1. Promise!DeleteRule(arg[t].rule)
        BY <2>1, <2>4, <3>2, DeleteAsSent DEF Tables!DeleteRule, Promise!DeleteRule
      <4> QED BY <2>1, <3>2, <4>1 DEF Promise!Next
    <3> QED BY <3>1, <3>2
  <2>5. ASSUME NEW r \in RuleIds, CommitAddRule(t, r) PROVE Promise!Next
    <3>1. Promise!AddRule(r, arg[t].threshold)
      BY <2>1, <2>5, AddAsSent DEF Tables!AddRule, Promise!AddRule
    <3> QED BY <2>1, <3>1 DEF Promise!Next
  <2> QED BY <1>2, <2>2, <2>3, <2>4, <2>5 DEF CommitOf
<1>3. ASSUME NEW t \in Threads, LookupRule(t) PROVE behind \/ Promise!Next
  BY <1>3, LookupImplements
<1>4. CASE UNCHANGED vars \/ Restart
  BY <1>1, <1>4 DEF vars, Restart
<1>5. ASSUME NEW t \in Threads, PostOf(t) \/ GoesOn(t) \/ AssignIndex(t)
      PROVE  UNCHANGED <<tables, answer>>
  BY <1>5, StepsApart
<1> QED BY <1>1, <1>2, <1>3, <1>4, <1>5, NextSorted

\* The deployed store, copy, reloads, refused transactions and restarts and all, is the
\* abstract store to its callers, except while a failed reload leaves the copy behind
\* (threshold_rules_store.py:66-134).
THEOREM StoreKeepsPromise == OneThread /\ Spec => ImplementsPromise
<1>1. Init => Promise!Init
  BY DEF Init, Promise!Init, DefaultOf, IndexOf
<1> QED BY <1>1, StepKeepsPromise, CopyInvariant, PTL DEF Spec, ImplementsPromise
=============================================================================
