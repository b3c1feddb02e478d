-------------------------- MODULE HandledFindings --------------------------
(***************************************************************************)
(* Ticking a finding off: the check-off box of a page in a browser         *)
(* (src/static/app.js:130-158), the request it sends, the row it writes    *)
(* (toggle_handled and set_handled, src/app.py:97-113, 369-386) and the    *)
(* next page that reads it (src/app.py:134-165).  A row is Done while the  *)
(* fingerprint that was ticked is the fingerprint of the record the page   *)
(* shows.                                                                  *)
(*                                                                         *)
(* The PMS replaces records behind the pages' back.  A request is answered *)
(* or fails at the server; its answer may be lost, which the browser       *)
(* cannot tell from a failure.                                             *)
(***************************************************************************)
EXTENDS Naturals

CONSTANTS
  Browsers,
  Slots,        \* requests one page may have in flight
  Keys,         \* (check_type, entity_lookup)
  Prints,       \* payload fingerprints
  None,
  Hurried,      \* browsers where one clicks on or reloads while a request is in flight
  Overlap,      \* whether the server handles requests at the same time (db.py:35)
  DbMayFail,    \* whether a transaction may fail by itself
  Losses        \* whether the answer to a request may be lost

VARIABLES
  current,  \* Keys -> the fingerprint of the PMS record, or None
  table,    \* handled_findings: Keys -> the fingerprint that was ticked, or None
  stage,    \* Browsers -> how far the page has been loaded
  page,     \* Browsers -> Keys -> the row: its fingerprint and its box, or None
  req,      \* Browsers -> Slots -> the request in flight, or None
  ticked,   \* pairs <<key, fingerprint>> somebody ticked (no code reads this)
  excused   \* pairs <<browser, key>>: boxes that may be wrong by now, because the
            \* answer to a click was lost, a click overtook another on the same
            \* box, or the row was changed from elsewhere (no code reads this)

vars == <<current, table, stage, page, req, ticked, excused>>

Row == [print : Prints, done : BOOLEAN]
Request == [key : Keys, print : Prints, handled : BOOLEAN, stale : BOOLEAN,
            step : {"sent", "serving", "saved", "failed"}, row : Prints \cup {None}]

ASSUME NoneAssumption == None \notin Prints \cup Row \cup Request

TypeOK ==
  /\ current \in [Keys -> Prints \cup {None}]
  /\ table \in [Keys -> Prints \cup {None}]
  /\ stage \in [Browsers -> {"none", "rows", "ready"}]
  /\ page \in [Browsers -> [Keys -> Row \cup {None}]]
  /\ req \in [Browsers -> [Slots -> Request \cup {None}]]
  /\ ticked \subseteq Keys \X Prints
  /\ excused \subseteq Browsers \X Keys

Init ==
  /\ current \in [Keys -> Prints]
  /\ table = [k \in Keys |-> None]
  /\ stage = [b \in Browsers |-> "none"]
  /\ page = [b \in Browsers |-> [k \in Keys |-> None]]
  /\ req = [b \in Browsers |-> [s \in Slots |-> None]]
  /\ ticked = {}
  /\ excused = {}

\* An import: the record is new, has changed, or is in the report no longer.
Import(k, f) ==
  /\ current[k] # f
  /\ current' = [current EXCEPT ![k] = f]
  /\ UNCHANGED <<table, stage, page, req, ticked, excused>>
-----------------------------------------------------------------------------
At(b, s, step) == req[b][s] # None /\ req[b][s].step = step

Busy == \/ \E b \in Browsers, s \in Slots : At(b, s, "serving")
        \/ \E b \in Browsers : stage[b] = "rows"

\* A click of the page itself, not of its predecessor, is in flight for the box.
Pending(b, s, k) == req[b][s] # None /\ req[b][s].key = k /\ ~req[b][s].stale

Waiting(b) == \E s \in Slots : req[b][s] # None

\* Loading a page reads the records first.  The previous page is gone, and with it
\* whoever waited for its requests; they are served all the same.
LoadRows(b) ==
  /\ stage[b] # "rows"
  /\ Overlap \/ ~Busy
  /\ b \in Hurried \/ ~Waiting(b)
  /\ stage' = [stage EXCEPT ![b] = "rows"]
  /\ page' = [page EXCEPT ![b] =
       [k \in Keys |-> IF current[k] = None THEN None
                       ELSE [print |-> current[k], done |-> FALSE]]]
  /\ req' = [req EXCEPT ![b] =
       [s \in Slots |-> IF req[b][s] = None THEN None ELSE [req[b][s] EXCEPT !.stale = TRUE]]]
  /\ excused' = excused \ ({b} \X Keys)
  /\ UNCHANGED <<current, table, ticked>>

\* Seeded fault: the fingerprints are not compared.
IsHandledByKey(k, f) == table[k] # None

IsHandled(k, f) == table[k] # None /\ table[k] = f

\* load_handled_map, after the records.
LoadHandled(b) ==
  /\ stage[b] = "rows"
  /\ stage' = [stage EXCEPT ![b] = "ready"]
  /\ page' = [page EXCEPT ![b] =
       [k \in Keys |-> IF page[b][k] = None THEN None
                       ELSE [page[b][k] EXCEPT !.done = IsHandled(k, page[b][k].print)]]]
  /\ UNCHANGED <<current, table, req, ticked, excused>>

\* The box changes at once, the request follows.
Click(b, s, k) ==
  LET row == page[b][k]
      handled == ~row.done IN
  /\ stage[b] = "ready"
  /\ row # None
  /\ req[b][s] = None
  /\ b \in Hurried \/ ~Waiting(b)
  /\ page' = [page EXCEPT ![b][k].done = handled]
  /\ req' = [req EXCEPT ![b][s] =
       [key |-> k, print |-> row.print, handled |-> handled, stale |-> FALSE,
        step |-> "sent", row |-> None]]
  /\ ticked' = IF handled THEN ticked \cup {<<k, row.print>>} ELSE ticked
  /\ excused' = IF \E u \in Slots : Pending(b, u, k) THEN excused \cup {<<b, k>>} ELSE excused
  /\ UNCHANGED <<current, table, stage>>
-----------------------------------------------------------------------------
(* The server: get the row, then commit.                                   *)

GetRow(b, s) ==
  /\ At(b, s, "sent")
  /\ Overlap \/ ~Busy
  /\ req' = [req EXCEPT ![b][s].step = "serving", ![b][s].row = table[req[b][s].key]]
  /\ UNCHANGED <<current, table, stage, page, ticked, excused>>

\* The row came or went since it was read: an INSERT or UPDATE is refused, a
\* DELETE of no row is not.
Refused(m) == m.handled /\ (m.row = None) # (table[m.key] = None)

\* Seeded fault: the arguments of set_handled are swapped.
WrittenFlag(m) == IF m.handled THEN m.handled ELSE None

\* Seeded fault: a row that is there keeps its fingerprint, only its time changes.
WrittenOnce(m) == IF m.handled THEN IF m.row = None THEN m.print ELSE table[m.key]
                  ELSE None

\* What the row is after the commit.  handled_at always changes; the fingerprint is
\* in the UPDATE only when it differs from the one that was read.
Written(m) ==
  IF m.handled THEN IF m.row = m.print THEN table[m.key] ELSE m.print
  ELSE IF m.row = None THEN table[m.key] ELSE None

Commit(b, s) ==
  LET m == req[b][s] IN
  /\ At(b, s, "serving")
  /\ ~Refused(m)
  /\ table' = [table EXCEPT ![m.key] = Written(m)]
  /\ req' = [req EXCEPT ![b][s].step = "saved", ![b][s].row = None]
  /\ excused' = excused \cup ({o \in Browsers : stage[o] = "ready" /\ (m.stale \/ o # b)}
                              \X {m.key})
  /\ UNCHANGED <<current, stage, page, ticked>>

Fail(b, s) ==
  /\ At(b, s, "serving")
  /\ Refused(req[b][s]) \/ DbMayFail
  /\ req' = [req EXCEPT ![b][s].step = "failed", ![b][s].row = None]
  /\ UNCHANGED <<current, table, stage, page, ticked, excused>>

\* The connection breaks, or the process dies, after the commit.
LoseAnswer(b, s) ==
  /\ Losses
  /\ At(b, s, "saved")
  /\ req' = [req EXCEPT ![b][s].step = "failed"]
  /\ excused' = IF req[b][s].stale THEN excused ELSE excused \cup {<<b, req[b][s].key>>}
  /\ UNCHANGED <<current, table, stage, page, ticked>>
-----------------------------------------------------------------------------
Answered(b, s) ==
  /\ At(b, s, "saved")
  /\ req' = [req EXCEPT ![b][s] = None]
  /\ UNCHANGED <<current, table, stage, page, ticked, excused>>

\* Seeded fault: a failure is reported and the box stays as it was clicked.
RevertForgotten(b, s) ==
  /\ At(b, s, "failed")
  /\ req' = [req EXCEPT ![b][s] = None]
  /\ UNCHANGED <<current, table, stage, page, ticked, excused>>

\* The catch branch: the box goes back to what it was before this click.
Revert(b, s) ==
  LET m == req[b][s] IN
  /\ At(b, s, "failed")
  /\ req' = [req EXCEPT ![b][s] = None]
  /\ page' = IF m.stale THEN page ELSE [page EXCEPT ![b][m.key].done = ~m.handled]
  /\ UNCHANGED <<current, table, stage, ticked, excused>>

Next ==
  \/ \E k \in Keys, f \in Prints \cup {None} : Import(k, f)
  \/ \E b \in Browsers :
       \/ LoadRows(b) \/ LoadHandled(b)
       \/ \E s \in Slots :
            \/ \E k \in Keys : Click(b, s, k)
            \/ GetRow(b, s) \/ Commit(b, s) \/ Fail(b, s) \/ LoseAnswer(b, s)
            \/ Answered(b, s) \/ Revert(b, s)

Spec == Init /\ [][Next]_vars
-----------------------------------------------------------------------------
(* However many browsers, whatever is lost, overlaps or is overtaken.      *)

\* "A changed encrypted PMS record therefore automatically reopens the task"
\* (README.md:31-32): a page opens with a row Done only if somebody ticked the
\* finding with the very content the page shows.
DoneWasTicked ==
  \A b \in Browsers, k \in Keys :
    stage[b] = "ready" /\ page[b][k] # None /\ page[b][k].done
      => <<k, page[b][k].print>> \in ticked
-----------------------------------------------------------------------------
\* "Revert on failure so the UI never lies about saved state" (app.js:151): a page
\* with no request in flight shows what is saved, but for the boxes whose answer
\* was lost, that were clicked again too soon, or that others changed meanwhile.
QuietPageIsHonest ==
  \A b \in Browsers : stage[b] = "ready" /\ ~Waiting(b) =>
    \A k \in Keys : page[b][k] # None /\ <<b, k>> \notin excused =>
      (page[b][k].done <=> IsHandled(k, page[b][k].print))

\* "keyed by the opaque PMS lookup and the payload fingerprint" (README.md:30-31):
\* the Done of the record as it is now goes only when that very finding is unticked.
DoneOfCurrentKept ==
  [][\A k \in Keys : table[k] # None /\ table[k] = current[k] /\ table'[k] # table[k] =>
       \E b \in Browsers, s \in Slots :
         At(b, s, "serving") /\ req[b][s].key = k /\ ~req[b][s].handled
           /\ req[b][s].print = current[k]]_vars
-----------------------------------------------------------------------------
(* What is promised to the pages, and how this module keeps it: a request  *)
(* takes effect when it commits, or, if it finds the row as it wants it,   *)
(* when it reads the row; overlapping commits do not undo that.            *)

NothingToDo(m) == m.row = (IF m.handled THEN m.print ELSE None)

Status(m) == CASE m.step = "sent" -> "open"
               [] m.step = "serving" -> IF NothingToDo(m) THEN "applied" ELSE "open"
               [] m.step = "saved" -> "applied"
               [] OTHER -> "over"

CallOf(m) == IF m = None THEN None
             ELSE [key |-> m.key, print |-> m.print, handled |-> m.handled,
                   status |-> Status(m)]

Calls == [b \in Browsers |-> [s \in Slots |-> CallOf(req[b][s])]]

Register == INSTANCE FindingRegister WITH stored <- table, call <- Calls

ASSUME CallAssumption == None \notin Register!Call

\* set_handled writes a row it has read before (app.py:97-113), and requests overlap:
\* still every one of them takes effect at one instant before its answer, or not at
\* all, and an answer of success means that it did.
TogglesAreAtomic == Register!Spec
=============================================================================
