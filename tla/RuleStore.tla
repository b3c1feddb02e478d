----------------------------- MODULE RuleStore -----------------------------
(***************************************************************************)
(* RuleStore (src/rules_store.py): what every cancellation policy of the   *)
(* PMS means, detected from its text or configured on the Settings page,   *)
(* kept in a table and in a copy of it in memory; and the part of          *)
(* Cancellation.evaluate (src/cancellation_logic.py) that a rule can make  *)
(* raise.                                                                  *)
(*                                                                         *)
(* A policy text is modelled by what normalize and the patterns make of it *)
(* (spelling and spacing are one key and one meaning): the record of its   *)
(* kind and its numbers, which serves as its rule_key.                     *)
(***************************************************************************)
EXTENDS Integers

CONSTANTS
  Threads,   \* request threads of the worker process (one when deployed)
  Policies,  \* the policy texts that may turn up: a subset of Policy
  FormDays,  \* values of the form's days field
  FormTimes, \* values of the form's cutoff field, None: left empty
  MaxDays,   \* the most days one can subtract from an arrival date
  None,
  DbMayFail  \* whether a transaction may fail by itself

\* "1st N <days>D Prior", "NRF Full <days>D Prior", "NRF Full",
\* "Flexible <hour>:<minute> AM|PM DOA" (one or two digits each), anything else.
Policy ==
  [kind : {"firstNight", "fullStay"}, days : Nat]
    \cup [kind : {"nrf"}]
    \cup [kind : {"doa"}, hour : 0..99, minute : 0..99, pm : BOOLEAN]
    \cup [kind : {"other"}]

ASSUME RuleAssumptions ==
  /\ Policies \subseteq Policy
  /\ FormDays \subseteq Nat
  /\ FormTimes \subseteq [h : 0..23, m : 0..59] \cup {None}
  /\ MaxDays \in Nat
  /\ None \notin Policies

VARIABLES
  table,   \* cancellation_rules: Policies -> Entry, None: no row
  cache,   \* self._cache: Policies -> Entry or None
  pc,      \* Threads -> the step the thread's request is at
  seen,    \* Threads -> the policies of the report the page load reads
  new,     \* Threads -> those of them ensure_known inserts
  form,    \* Threads -> the Settings post and the row it loaded
  shown    \* the policies some Settings page has shown a form for

vars == <<table, cache, pc, seen, new, form, shown>>

Fees == {"first_night", "full_stay"}
\* What an "HH:MM" text says, whether there is such a time of day or not.
Cutoff == [h : Nat, m : Nat]
IsTimeOfDay(c) == c.h < 24 /\ c.m < 60
AnyEntry == [fee : Fees \cup {None}, late : BOOLEAN \cup {None}, days : Nat \cup {None},
             cutoff : Cutoff \cup {None}, configured : BOOLEAN, src : {"auto", "manual"}]
\* What is configured has a fee, and is either always late or not.
Entry == {e \in AnyEntry : e.configured => e.fee # None /\ e.late # None}

ASSUME NoneAssumption == None \notin Entry \cup Fees \cup BOOLEAN

Edit == [fee : Fees, late : BOOLEAN, days : FormDays, cutoff : FormTimes]
Form == [policy : Policies \cup {None}, edit : Edit \cup {None}, row : Entry \cup {None}]
NoForm == [policy |-> None, edit |-> None, row |-> None]

TypeOK ==
  /\ table \in [Policies -> Entry \cup {None}]
  /\ cache \in [Policies -> Entry \cup {None}]
  /\ pc \in [Threads -> {"idle", "known", "commitKnown", "applyKnown", "evaluate",
                         "getRow", "commitUpdate", "assignUpdate"}]
  /\ seen \in [Threads -> SUBSET Policies]
  /\ new \in [Threads -> SUBSET Policies]
  /\ form \in [Threads -> Form]
  /\ shown \subseteq Policies

Init ==
  /\ table = [p \in Policies |-> None]
  /\ cache = [p \in Policies |-> None]
  /\ pc = [t \in Threads |-> "idle"]
  /\ seen = [t \in Threads |-> {}]
  /\ new = [t \in Threads |-> {}]
  /\ form = [t \in Threads |-> NoForm]
  /\ shown = {}

Goto(t, step) == pc' = [pc EXCEPT ![t] = step]

Finish(t) ==
  /\ Goto(t, "idle")
  /\ seen' = [seen EXCEPT ![t] = {}]
  /\ new' = [new EXCEPT ![t] = {}]
  /\ form' = [form EXCEPT ![t] = NoForm]
-----------------------------------------------------------------------------
(* _auto_detect                                                            *)

\* The hour of a DOA policy on the 24-hour clock, 12 AM being 0.
Hour24(p) == IF p.pm /\ p.hour # 12 THEN p.hour + 12
             ELSE IF ~p.pm /\ p.hour = 12 THEN 0 ELSE p.hour

DoaCutoff(p) == [h |-> Hour24(p), m |-> p.minute]

Detected(fee, late, days, cutoff) ==
  [fee |-> fee, late |-> late, days |-> days, cutoff |-> cutoff,
   configured |-> TRUE, src |-> "auto"]

\* Seeded fault: an entry without a meaning counts as configured.
NeedsSetupConfigured == [fee |-> None, late |-> None, days |-> None, cutoff |-> None,
                         configured |-> TRUE, src |-> "auto"]

NeedsSetup == [fee |-> None, late |-> None, days |-> None, cutoff |-> None,
               configured |-> FALSE, src |-> "auto"]

\* Seeded fault: a text no pattern matches is taken for non-refundable.
AutoDetectGuessing(p) ==
  IF p.kind = "doa" THEN Detected("first_night", FALSE, 0, DoaCutoff(p))
  ELSE IF p.kind = "firstNight" THEN Detected("first_night", FALSE, p.days, None)
  ELSE IF p.kind = "fullStay" THEN Detected("full_stay", FALSE, p.days, None)
  ELSE Detected("full_stay", TRUE, None, None)

AutoDetect(p) ==
  CASE p.kind = "doa" -> Detected("first_night", FALSE, 0, DoaCutoff(p))
    [] p.kind = "firstNight" -> Detected("first_night", FALSE, p.days, None)
    [] p.kind = "fullStay" -> Detected("full_stay", FALSE, p.days, None)
    [] p.kind = "nrf" -> Detected("full_stay", TRUE, None, None)
    [] p.kind = "other" -> NeedsSetup
-----------------------------------------------------------------------------
(* A page load: ensure_known, then evaluate for every reservation.         *)

LoadPage(t, ps) ==
  /\ pc[t] = "idle"
  /\ Goto(t, "known")
  /\ seen' = [seen EXCEPT ![t] = ps]
  /\ UNCHANGED <<table, cache, new, form, shown>>

\* Seeded fault: the copy gets new entries before the table does.
DecideKnownEarly(t) ==
  LET unknown == {p \in seen[t] : cache[p] = None} IN
  /\ pc[t] = "known"
  /\ Goto(t, IF unknown = {} THEN "evaluate" ELSE "commitKnown")
  /\ new' = [new EXCEPT ![t] = unknown]
  /\ cache' = [p \in Policies |-> IF p \in unknown THEN AutoDetect(p) ELSE cache[p]]
  /\ UNCHANGED <<table, seen, form, shown>>

DecideKnown(t) ==
  LET unknown == {p \in seen[t] : cache[p] = None} IN
  /\ pc[t] = "known"
  /\ Goto(t, IF unknown = {} THEN "evaluate" ELSE "commitKnown")
  /\ new' = [new EXCEPT ![t] = unknown]
  /\ UNCHANGED <<table, cache, seen, form, shown>>

\* Seeded fault: a row that exists by now is skipped and not an error.
CommitKnownIgnoring(t) ==
  /\ pc[t] = "commitKnown"
  /\ Goto(t, "applyKnown")
  /\ table' = [p \in Policies |-> IF p \in new[t] /\ table[p] = None THEN AutoDetect(p)
                                  ELSE table[p]]
  /\ UNCHANGED <<cache, seen, new, form, shown>>

CommitKnown(t) ==
  /\ pc[t] = "commitKnown"
  /\ \A p \in new[t] : table[p] = None
  /\ Goto(t, "applyKnown")
  /\ table' = [p \in Policies |-> IF p \in new[t] THEN AutoDetect(p) ELSE table[p]]
  /\ UNCHANGED <<cache, seen, new, form, shown>>

ApplyKnown(t) ==
  /\ pc[t] = "applyKnown"
  /\ Goto(t, "evaluate")
  /\ cache' = [p \in Policies |-> IF p \in new[t] THEN AutoDetect(p) ELSE cache[p]]
  /\ UNCHANGED <<table, seen, new, form, shown>>

RuleOf(p) == IF cache[p] = None THEN AutoDetect(p) ELSE cache[p]

\* evaluate raises: the deadline is before the first date there is, or the cutoff
\* is no time of day.  A rule that is not configured, or always late, is not read
\* that far.
Raises(e) ==
  /\ e.configured
  /\ e.late # TRUE
  /\ \/ e.days # None /\ e.days > MaxDays
     \/ e.cutoff # None /\ ~IsTimeOfDay(e.cutoff)

\* The page is answered, with an error when one reservation's rule raises.  The
\* Settings page, which evaluates every cancellation too, shows all the rules.
Evaluate(t) ==
  /\ pc[t] = "evaluate"
  /\ shown' = IF \E p \in seen[t] : Raises(RuleOf(p)) THEN shown
              ELSE shown \cup {p \in Policies : cache[p] # None}
  /\ Finish(t)
  /\ UNCHANGED <<table, cache>>
-----------------------------------------------------------------------------
(* A Settings post for a rule some page has shown.                         *)

PostRule(t, p, edit) ==
  /\ pc[t] = "idle"
  /\ p \in shown
  /\ Goto(t, "getRow")
  /\ form' = [form EXCEPT ![t] = [policy |-> p, edit |-> edit, row |-> None]]
  /\ UNCHANGED <<table, cache, seen, new, shown>>

GetRow(t) ==
  /\ pc[t] = "getRow"
  /\ Goto(t, "commitUpdate")
  /\ form' = [form EXCEPT ![t].row = table[form[t].policy]]
  /\ UNCHANGED <<table, cache, seen, new, shown>>

\* update's view of the row once it has assigned the columns: all of them.
View(t) ==
  LET edit == form[t].edit IN
  [fee |-> edit.fee, late |-> edit.late,
   days |-> IF edit.late THEN None ELSE edit.days,
   cutoff |-> IF edit.late THEN None ELSE edit.cutoff,
   configured |-> TRUE, src |-> "manual"]

\* An UPDATE names the columns whose value differs from the loaded one, which has
\* served then.
CommitUpdate(t) ==
  LET p == form[t].policy
      old == form[t].row IN
  /\ pc[t] = "commitUpdate"
  /\ old = None => table[p] = None
  /\ Goto(t, "assignUpdate")
  /\ table' = [table EXCEPT ![p] =
       IF old = None THEN View(t)
       ELSE [f \in DOMAIN old |-> IF View(t)[f] # old[f] THEN View(t)[f] ELSE table[p][f]]]
  /\ form' = [form EXCEPT ![t].row = None]
  /\ UNCHANGED <<cache, seen, new, shown>>

AssignUpdate(t) ==
  /\ pc[t] = "assignUpdate"
  /\ cache' = [cache EXCEPT ![form[t].policy] = View(t)]
  /\ Finish(t)
  /\ UNCHANGED <<table, shown>>
-----------------------------------------------------------------------------
Overlaps(t) == \E u \in Threads \ {t} : pc[u] # "idle"

\* A transaction raises: the lock of an overlapping one, the primary key, or a
\* failure of the database.  It rolls back; the request ends with an error.
Fail(t) ==
  /\ pc[t] \in {"commitKnown", "getRow", "commitUpdate"}
  /\ \/ DbMayFail
     \/ Overlaps(t)
     \/ pc[t] = "commitKnown" /\ \E p \in new[t] : table[p] # None
     \/ pc[t] = "commitUpdate" /\ form[t].row = None /\ table[form[t].policy] # None
  /\ Finish(t)
  /\ UNCHANGED <<table, cache, shown>>

\* The process dies and is started again: the constructor reads the table.
Restart ==
  /\ cache' = table
  /\ pc' = [t \in Threads |-> "idle"]
  /\ seen' = [t \in Threads |-> {}]
  /\ new' = [t \in Threads |-> {}]
  /\ form' = [t \in Threads |-> NoForm]
  /\ UNCHANGED <<table, shown>>

Next ==
  \/ Restart
  \/ \E t \in Threads :
       \/ \E ps \in SUBSET Policies : LoadPage(t, ps)
       \/ DecideKnown(t) \/ CommitKnown(t) \/ ApplyKnown(t) \/ Evaluate(t)
       \/ \E p \in Policies, edit \in Edit : PostRule(t, p, edit)
       \/ GetRow(t) \/ CommitUpdate(t) \/ AssignUpdate(t)
       \/ Fail(t)

Spec == Init /\ [][Next]_vars
-----------------------------------------------------------------------------
(* However many threads there are.                                         *)

\* "Never overwrites an existing entry" (rules_store.py:135): what somebody has
\* configured, the copy never takes back to what was detected.  A page load
\* decides what is new long before it writes the copy; only because a rule can be
\* configured after a page has shown it, and an INSERT of a row that exists fails,
\* is the late write never over somebody's configuration.
ConfiguredByHandStays ==
  [][\A p \in Policies : cache[p] # None /\ cache[p].src = "manual"
                          => cache'[p].src = "manual"]_vars

\* "Anything that doesn't match is flagged Needs setup rather than guessed at"
\* (README.md:72-73): a policy no pattern matches has a meaning only once
\* somebody has given it one, in the table and in the copy.
UnknownIsNotGuessed ==
  \A p \in Policies, store \in {table, cache} :
    p.kind = "other" /\ store[p] # None /\ store[p].configured => store[p].src = "manual"

\* The form of a rule is only ever posted for a rule that has a row: the branch of
\* update that inserts one (rules_store.py:166-168) is dead.
UpdateFindsRow == \A t \in Threads : pc[t] = "commitUpdate" => form[t].row # None
-----------------------------------------------------------------------------
(* What is promised to the pages, and how the table keeps it.  A post is   *)
(* on its way until its row is committed.                                  *)

PostOf(step, f) ==
  IF step \in {"getRow", "commitUpdate", "assignUpdate"}
  THEN [policy |-> f.policy, edit |-> f.edit, written |-> step = "assignUpdate"]
  ELSE None

Posts == [t \in Threads |-> PostOf(pc[t], form[t])]

Book == INSTANCE PolicyBook WITH
  Edits <- Edit, Meaning <- [p \in Policies |-> AutoDetect(p)],
  rules <- table, reports <- seen, posts <- Posts

ASSUME PostAssumption == None \notin Book!Post

\* However requests overlap and fail, the table is one book: new texts get their
\* detected meaning once and at one instant, a page is answered when the book has all
\* of its texts, each post is written at one instant and once, and a rule of several
\* hands is one only where the first hand had written a whole one
\* (rules_store.py:133-176).
ImplementsBook == Book!Spec
-----------------------------------------------------------------------------
(* What the documentation says and the code does not keep: see README.md.  *)

\* "every policy text seen in the data can be reviewed and edited" on the Settings
\* page (README.md:73-74): so it must open.  It does not while a rule it evaluates
\* has more days than a date can go back by, or a cutoff such as 30:00.
SettingsOpen ==
  \A t \in Threads : pc[t] = "evaluate" => \A p \in seen[t] : ~Raises(RuleOf(p))
=============================================================================
