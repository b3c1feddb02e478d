------------------------- MODULE ThresholdRuleStore -------------------------
(***************************************************************************)
(* ThresholdRuleStore (src/threshold_rules_store.py) as it runs: three     *)
(* tables, an in-memory copy of them in the worker process, and request    *)
(* threads that write the tables first and reload the copy afterwards.     *)
(*                                                                         *)
(* A write request commits one transaction and then calls _load_cache,     *)
(* which issues three queries and makes three assignments; each of these   *)
(* is a step of its own, because another thread may run between any two.   *)
(* get_threshold reads the index and then the rules: two steps.            *)
(*                                                                         *)
(* Threads with one element is the deployed service (one gunicorn worker,  *)
(* src/deployment/systemd/morning-shift.service); with more it is the      *)
(* development server, which answers every request on its own thread       *)
(* (src/app.py:546, src/db.py:35) and by default uses SQLite, where a      *)
(* transaction that has begun to write excludes every other writer.        *)
(***************************************************************************)
EXTENDS Integers, FiniteSets

CONSTANTS
  Threads,     \* request threads of the worker process
  Hotels,      \* property codes
  RuleIds,     \* ids add_blank_rule may generate
  Thresholds,  \* threshold values
  Fallback,    \* the constructor's default_threshold (-70.0 in app.py)
  None,        \* Python's None; as a table entry: no such row
  Unparsable,  \* a form field float() rejects
  KeyError,    \* a dictionary look-up that failed
  DbMayFail    \* whether a database call may fail by itself

ASSUME NoneAssumption ==
  /\ None \notin RuleIds
  /\ None \notin Hotels
  /\ None \notin Thresholds
ASSUME FallbackAssumption == Fallback \in Thresholds
ASSUME UnparsableAssumption == Unparsable \notin Thresholds

VARIABLES
  setting,     \* app_settings row balance_default_threshold: value or None
  rules,       \* balance_rules: RuleIds -> threshold or None
  links,       \* balance_rule_properties: pairs <<rule, hotel>>
  cDefault,    \* self._default
  cRules,      \* self._rules: RuleIds -> [threshold, hotels] or None
  cIndex,      \* self._property_index: Hotels -> rule or None
  pc,          \* Threads -> the step the thread's request is at
  arg,         \* Threads -> the arguments of the request
  snap,        \* Threads -> the rows _load_cache has read so far
  answer,      \* Threads -> what the last get_threshold returned
  issued,      \* rule ids that have ever been committed, hence shown
  behind       \* whether a reload has failed and none been completed since

tables == <<setting, rules, links>>
cache  == <<cDefault, cRules, cIndex, behind>>
vars   == <<tables, cache, pc, arg, snap, answer, issued>>

RuleTable == [RuleIds -> Thresholds \cup {None}]
CachedRule == [threshold : Thresholds, hotels : SUBSET Hotels]
Answer == [hotel : Hotels, threshold : Thresholds, rule : RuleIds \cup {None}]
ASSUME ValuesAssumption == None \notin CachedRule /\ KeyError \notin Answer \cup {None}
Request == [op : {"none", "setDefault", "save", "add", "delete", "lookup"},
            rule : RuleIds \cup {None}, threshold : Thresholds,
            hotels : SUBSET Hotels, hotel : Hotels \cup {None},
            row : Thresholds \cup {None}]
Steps == {"idle", "readRow", "tx", "assignSetDefault", "readSetting", "assignDefault",
          "readRules", "readLinks", "assignRules", "assignIndex", "lookup"}

TypeOK ==
  /\ setting \in Thresholds \cup {None}
  /\ rules \in RuleTable
  /\ links \subseteq RuleIds \X Hotels
  /\ cDefault \in Thresholds
  /\ cRules \in [RuleIds -> CachedRule \cup {None}]
  /\ cIndex \in [Hotels -> RuleIds \cup {None}]
  /\ pc \in [Threads -> Steps]
  /\ arg \in [Threads -> Request]
  /\ snap \in [Threads -> [default : Thresholds, rules : RuleTable,
                           links : SUBSET (RuleIds \X Hotels)]]
  /\ answer \in [Threads -> Answer \cup {None, KeyError}]
  /\ issued \subseteq RuleIds
  /\ behind \in BOOLEAN
-----------------------------------------------------------------------------
(* What _load_cache makes of the rows it reads.                            *)

DefaultOf(s) == IF s = None THEN Fallback ELSE s

RulesOf(rs, ls) ==
  [r \in RuleIds |-> IF rs[r] = None THEN None
                     ELSE [threshold |-> rs[r], hotels |-> {h \in Hotels : <<r, h>> \in ls}]]

IndexOf(ls) ==
  [h \in Hotels |-> IF \E r \in RuleIds : <<r, h>> \in ls
                    THEN CHOOSE r \in RuleIds : <<r, h>> \in ls ELSE None]

\* The UNIQUE constraint on property_code (models.py).
Unique(ls) == \A k, l \in ls : k[2] = l[2] => k = l

\* Seeded fault: save_rule forgets the other rules.
TakenForgotten(ls, r, hs) == ls

\* The DELETE of save_rule that takes the hotels out of every other rule.
Taken(ls, r, hs) == {l \in ls : l[2] \notin hs \/ l[1] = r}

\* Seeded fault: the form's hotels are added to the rule's, none is dropped.
SavedMerged(ls, r, hs) == Taken(ls, r, hs) \cup ({r} \X hs)

\* The links after save_rule's deletes and inserts.
Saved(ls, r, hs) == {l \in Taken(ls, r, hs) : l[1] # r} \cup ({r} \X hs)

\* Seeded fault: delete_rule leaves the links of the rule.
UnlinkedForgotten(ls, r) == ls

\* The links after delete_rule's first DELETE.
Unlinked(ls, r) == {l \in ls : l[1] # r}

NoRequest == [op |-> "none", rule |-> None, threshold |-> Fallback,
              hotels |-> {}, hotel |-> None, row |-> None]
NoRows == [default |-> Fallback, rules |-> [r \in RuleIds |-> None], links |-> {}]
-----------------------------------------------------------------------------
\* A new database (init_db creates empty tables) and the stores built from it.
Init ==
  /\ setting = None
  /\ rules = [r \in RuleIds |-> None]
  /\ links = {}
  /\ cDefault = Fallback
  /\ cRules = [r \in RuleIds |-> None]
  /\ cIndex = [h \in Hotels |-> None]
  /\ pc = [t \in Threads |-> "idle"]
  /\ arg = [t \in Threads |-> NoRequest]
  /\ snap = [t \in Threads |-> NoRows]
  /\ answer = [t \in Threads |-> None]
  /\ issued = {}
  /\ behind = FALSE

Goto(t, step) == pc' = [pc EXCEPT ![t] = step]

\* The request ends, with a response or with an exception: its locals are gone.
Finish(t) ==
  /\ Goto(t, "idle")
  /\ arg' = [arg EXCEPT ![t] = NoRequest]
  /\ snap' = [snap EXCEPT ![t] = NoRows]

\* Seeded fault: the field goes to the database unparsed.
ParsedRaw(x) == x

\* _parse_threshold with the cached default as its fallback.
Parsed(x) == IF x = Unparsable THEN cDefault ELSE x

Receive(t, request, step) ==
  /\ pc[t] = "idle"
  /\ Goto(t, step)
  /\ arg' = [arg EXCEPT ![t] = request]
  /\ UNCHANGED <<tables, cache, snap, answer, issued>>

PostSetDefault(t, x) ==
  Receive(t, [NoRequest EXCEPT !.op = "setDefault", !.threshold = Parsed(x)], "readRow")

\* The form comes from a Settings page that showed the rule, possibly an old
\* one: the rule may have been deleted since.
PostSaveRule(t, r, x, hs) ==
  /\ r \in issued
  /\ Receive(t, [NoRequest EXCEPT !.op = "save", !.rule = r, !.threshold = Parsed(x),
                                  !.hotels = hs],
             IF hs = {} THEN "readRow" ELSE "tx")

\* The bound of the model: rules are added while unused ids are left.
IdsLeft == Cardinality({u \in Threads : pc[u] = "tx" /\ arg[u].op = "add"})
             < Cardinality(RuleIds \ issued)

PostAddRule(t) ==
  /\ IdsLeft
  /\ Receive(t, [NoRequest EXCEPT !.op = "add", !.threshold = cDefault], "tx")

\* The Delete button of a rule (settings.html:141) submits a form of its own
\* without a field (166): the request names no rule, whichever rule it was, and
\* the route reads the missing rule_id as "", which is the id of none.
PressDelete(t) ==
  /\ issued # {}
  /\ Receive(t, [NoRequest EXCEPT !.op = "delete"], "tx")

\* The route deletes the rule a request names (app.py:535); no page sends such
\* a request, a client of its own may.
PostDeleteRule(t, r) ==
  /\ r \in issued
  /\ Receive(t, [NoRequest EXCEPT !.op = "delete", !.rule = r], "tx")
-----------------------------------------------------------------------------
(* The transactions.  One holds the write lock from its first DELETE,      *)
(* INSERT or UPDATE to its commit, so its statements are one step; two     *)
(* that overlap may also end in a conflict (Fail).  set_default, and       *)
(* save_rule when the form names no hotel and its first DELETE is skipped, *)
(* load the row they write before they hold the lock.                      *)

\* The row the request writes, as it is now.
Row(t) == IF arg[t].op = "setDefault" THEN setting ELSE rules[arg[t].rule]

ReadRow(t) ==
  /\ pc[t] = "readRow"
  /\ Goto(t, "tx")
  /\ arg' = [arg EXCEPT ![t].row = Row(t)]
  /\ UNCHANGED <<tables, cache, snap, answer, issued>>

Commit(t, op, next) ==
  /\ pc[t] = "tx"
  /\ arg[t].op = op
  /\ Goto(t, next)
  /\ UNCHANGED <<cache, arg, snap, answer>>

\* The row as it was loaded, before the lock was held or after.
RowOf(t) == IF arg[t].hotels = {} THEN arg[t].row ELSE Row(t)

\* The row came or went after it was loaded: the INSERT or UPDATE is refused.
RowIsStale(t) == (RowOf(t) = None) # (Row(t) = None)

\* A value that equals the loaded one is not written.
CommitSetDefault(t) ==
  /\ Commit(t, "setDefault", "assignSetDefault")
  /\ ~RowIsStale(t)
  /\ setting' = IF RowOf(t) = arg[t].threshold THEN setting ELSE arg[t].threshold
  /\ UNCHANGED <<rules, links, issued>>

\* A column that equals the loaded one is not in the UPDATE.
CommitSaveRule(t) ==
  LET r == arg[t].rule
      x == arg[t].threshold
      new == Saved(links, r, arg[t].hotels) IN
  /\ Commit(t, "save", "readSetting")
  /\ Unique(new)
  /\ RowIsStale(t) => RowOf(t) = x
  /\ rules' = IF RowOf(t) = x THEN rules ELSE [rules EXCEPT ![r] = x]
  /\ links' = new
  /\ UNCHANGED <<setting, issued>>

\* secrets.token_hex: an id no rule has had.
CommitAddRule(t, r) ==
  /\ Commit(t, "add", "readSetting")
  /\ r \notin issued
  /\ rules' = [rules EXCEPT ![r] = arg[t].threshold]
  /\ issued' = issued \cup {r}
  /\ UNCHANGED <<setting, links>>

CommitDeleteRule(t) ==
  LET r == arg[t].rule IN
  /\ Commit(t, "delete", "readSetting")
  /\ links' = Unlinked(links, r)
  /\ rules' = [q \in RuleIds |-> IF q = r THEN None ELSE rules[q]]
  /\ UNCHANGED <<setting, issued>>

\* Seeded fault: set_default writes the row and not the copy.
AssignSetDefaultForgotten(t) ==
  /\ pc[t] = "assignSetDefault"
  /\ Finish(t)
  /\ UNCHANGED <<tables, cache, answer, issued>>

AssignSetDefault(t) ==
  /\ pc[t] = "assignSetDefault"
  /\ cDefault' = arg[t].threshold
  /\ Finish(t)
  /\ UNCHANGED <<tables, cRules, cIndex, behind, answer, issued>>
-----------------------------------------------------------------------------
(* _load_cache: every query sees the tables as they are when it runs.      *)

ReadSetting(t) ==
  /\ pc[t] = "readSetting"
  /\ Goto(t, "assignDefault")
  /\ snap' = [snap EXCEPT ![t].default = DefaultOf(setting)]
  /\ UNCHANGED <<tables, cache, arg, answer, issued>>

AssignDefault(t) ==
  /\ pc[t] = "assignDefault"
  /\ Goto(t, "readRules")
  /\ cDefault' = snap[t].default
  /\ UNCHANGED <<tables, cRules, cIndex, behind, arg, snap, answer, issued>>

\* Seeded fault: the copy is rebuilt in place, before the links are known.
ReadRulesInPlace(t) ==
  /\ pc[t] = "readRules"
  /\ Goto(t, "readLinks")
  /\ snap' = [snap EXCEPT ![t].rules = rules]
  /\ cRules' = RulesOf(rules, {})
  /\ UNCHANGED <<tables, cDefault, cIndex, behind, arg, answer, issued>>

ReadRules(t) ==
  /\ pc[t] = "readRules"
  /\ Goto(t, "readLinks")
  /\ snap' = [snap EXCEPT ![t].rules = rules]
  /\ UNCHANGED <<tables, cache, arg, answer, issued>>

\* rules[link.rule_id] raises KeyError when the rule was added after the
\* previous query; the request fails and the old copy stays.
ReadLinks(t) ==
  /\ pc[t] = "readLinks"
  /\ \/ /\ \A l \in links : snap[t].rules[l[1]] # None
        /\ Goto(t, "assignRules")
        /\ snap' = [snap EXCEPT ![t].links = links]
        /\ UNCHANGED <<arg, behind>>
     \/ /\ \E l \in links : snap[t].rules[l[1]] = None
        /\ behind' = TRUE
        /\ Finish(t)
  /\ UNCHANGED <<tables, cDefault, cRules, cIndex, answer, issued>>

AssignRules(t) ==
  /\ pc[t] = "assignRules"
  /\ Goto(t, "assignIndex")
  /\ cRules' = RulesOf(snap[t].rules, snap[t].links)
  /\ UNCHANGED <<tables, cDefault, cIndex, behind, arg, snap, answer, issued>>

\* Seeded fault: the index is updated instead of replaced.
AssignIndexMerged(t) ==
  /\ pc[t] = "assignIndex"
  /\ cIndex' = [h \in Hotels |-> IF IndexOf(snap[t].links)[h] # None
                                 THEN IndexOf(snap[t].links)[h] ELSE cIndex[h]]
  /\ behind' = FALSE
  /\ Finish(t)
  /\ UNCHANGED <<tables, cDefault, cRules, answer, issued>>

AssignIndex(t) ==
  /\ pc[t] = "assignIndex"
  /\ cIndex' = IndexOf(snap[t].links)
  /\ behind' = FALSE
  /\ Finish(t)
  /\ UNCHANGED <<tables, cDefault, cRules, answer, issued>>
-----------------------------------------------------------------------------
(* get_threshold                                                           *)

LookupIndex(t, h) ==
  Receive(t, [NoRequest EXCEPT !.op = "lookup", !.rule = cIndex[h], !.hotel = h], "lookup")

LookupRule(t) ==
  LET h == arg[t].hotel
      r == arg[t].rule IN
  /\ pc[t] = "lookup"
  /\ answer' = [answer EXCEPT ![t] =
       IF r = None THEN [hotel |-> h, threshold |-> cDefault, rule |-> None]
       ELSE IF cRules[r] = None THEN KeyError
       ELSE [hotel |-> h, threshold |-> cRules[r].threshold, rule |-> r]]
  /\ Finish(t)
  /\ UNCHANGED <<tables, cache, issued>>
-----------------------------------------------------------------------------
\* The queries of a reload.
Reloading == {"readSetting", "readRules", "readLinks"}

Overlaps(t) == \E u \in Threads \ {t} : pc[u] # "idle"

\* A database call raises: the lock of an overlapping transaction, a statement
\* the tables refuse, or a failure of the database itself.  The
\* transaction rolls back and the request ends with an error response.
Fail(t) ==
  /\ \/ /\ pc[t] = "tx"
        /\ \/ Overlaps(t)
           \/ arg[t].op = "save" /\ ~Unique(Saved(links, arg[t].rule, arg[t].hotels))
           \/ arg[t].op \in {"setDefault", "save"} /\ RowIsStale(t)
     \/ /\ DbMayFail
        /\ pc[t] \in {"readRow", "tx"} \cup Reloading
  /\ behind' = (behind \/ pc[t] \in Reloading)
  /\ Finish(t)
  /\ UNCHANGED <<tables, cDefault, cRules, cIndex, answer, issued>>

\* The process dies with whatever it was doing; the supervisor starts it again
\* and the constructor loads the tables before the first request is accepted.
Restart ==
  /\ cDefault' = DefaultOf(setting)
  /\ cRules' = RulesOf(rules, links)
  /\ cIndex' = IndexOf(links)
  /\ behind' = FALSE
  /\ pc' = [t \in Threads |-> "idle"]
  /\ arg' = [t \in Threads |-> NoRequest]
  /\ snap' = [t \in Threads |-> NoRows]
  /\ UNCHANGED <<tables, answer, issued>>

Next ==
  \/ Restart
  \/ \E t \in Threads :
       \/ \E x \in Thresholds \cup {Unparsable} : PostSetDefault(t, x)
       \/ \E r \in RuleIds, x \in Thresholds \cup {Unparsable}, hs \in SUBSET Hotels :
            PostSaveRule(t, r, x, hs)
       \/ PostAddRule(t)
       \/ PressDelete(t)
       \/ \E r \in RuleIds : PostDeleteRule(t, r)
       \/ CommitSetDefault(t) \/ AssignSetDefault(t)
       \/ ReadRow(t) \/ CommitSaveRule(t)
       \/ \E r \in RuleIds : CommitAddRule(t, r)
       \/ CommitDeleteRule(t)
       \/ ReadSetting(t) \/ AssignDefault(t)
       \/ ReadRules(t) \/ ReadLinks(t)
       \/ AssignRules(t) \/ AssignIndex(t)
       \/ \E h \in Hotels : LookupIndex(t, h)
       \/ LookupRule(t)
       \/ Fail(t)

Spec == Init /\ [][Next]_vars
-----------------------------------------------------------------------------
(* What the tables guarantee whatever the threads do.                      *)

\* No form ever makes save_rule violate the UNIQUE constraint: the DELETE that
\* precedes the INSERTs has removed every row in their way
\* (threshold_rules_store.py:94-99).
SaveNeverRefused ==
  \A t \in Threads : pc[t] = "tx" /\ arg[t].op = "save"
                       => Unique(Saved(links, arg[t].rule, arg[t].hotels))

\* Every link names a rule that exists, so that _load_cache can be run at any
\* time, the next start of the process included (threshold_rules_store.py:60).
NoOrphanLinks == \A l \in links : rules[l[1]] # None

Tables == INSTANCE BalanceRules WITH
            default <- DefaultOf(setting), threshold <- rules, owner <- IndexOf(links),
            answer <- [t \in Threads |-> None]

\* The tables alone, whatever the threads, failures and restarts, move only as
\* the abstract store does: one whole operation at a time.
TablesAreAtomic == Tables!Spec
-----------------------------------------------------------------------------
(* What the copy in memory guarantees.                                     *)

Quiet == \A t \in Threads : pc[t] = "idle"

Synced == /\ cDefault = DefaultOf(setting)
          /\ cRules = RulesOf(rules, links)
          /\ cIndex = IndexOf(links)

\* "kept in sync on writes" (README.md:47-48): between requests the copy says
\* what the tables say, whatever failed, unless a reload did after its commit; and
\* then until the next reload or restart (threshold_rules_store.py:117-118).
CacheSynced == Quiet /\ ~behind => Synced

\* get_threshold never meets a hotel whose rule is not in the copy
\* (threshold_rules_store.py:86-89): it always returns (threshold, label).
LookupNeverFails == \A t \in Threads : answer[t] # KeyError

\* The two halves of the copy agree between requests, also after a reload that
\* failed half-way: the Settings page lists a hotel under exactly the rule that
\* get_threshold applies to it (app.py:394-399).
CacheSelfConsistent ==
  Quiet => \A h \in Hotels, r \in RuleIds :
             (cIndex[h] = r) <=> (cRules[r] # None /\ h \in cRules[r].hotels)

\* A save, add or delete that is answered without an error leaves copy and
\* tables equal, even when earlier writes failed between their commit and their
\* reload ("they just reload the cache fully", threshold_rules_store.py:23-25).
CompletedWriteSyncs ==
  [][\A t \in Threads : pc[t] = "assignIndex" /\ pc'[t] = "idle" => Synced']_vars

Promise == INSTANCE BalanceRules WITH
             default <- DefaultOf(setting), threshold <- rules, owner <- IndexOf(links)

\* One request at a time: callers cannot tell the store, copy, restarts, refused
\* transactions and all, from the abstract one.  Every answer is the hotel's rule or
\* the default as the tables have it at that moment, except while a reload that
\* failed leaves the copy behind.
ImplementsPromise == Promise!Init /\ [][behind \/ Promise!Next]_(Promise!vars)

\* One request at a time: which abstract operation a commit is, is what the request
\* carries, argument by argument.  A save leaves the rule with just the form's
\* hotels, re-creates it if it was deleted behind the page, and touches no other
\* rule but those it takes hotels from (threshold_rules_store.py:92-117).  A delete
\* that names no rule, such as every one the page sends, is answered like any
\* other and changes nothing (128-134).
CommitsWhatWasSent ==
  [][\A t \in Threads : pc[t] = "tx" /\ pc'[t] \in {"assignSetDefault", "readSetting"} =>
       \/ arg[t].op = "setDefault" /\ Tables!SetDefault(arg[t].threshold)
       \/ arg[t].op = "save" /\ Tables!SaveRule(arg[t].rule, arg[t].threshold, arg[t].hotels)
       \/ arg[t].op = "add" /\ \E r \in RuleIds : Tables!AddRule(r, arg[t].threshold)
       \/ arg[t].op = "delete" /\ arg[t].rule # None /\ Tables!DeleteRule(arg[t].rule)
       \/ arg[t].op = "delete" /\ arg[t].rule = None /\ UNCHANGED tables]_vars
=============================================================================
