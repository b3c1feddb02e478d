------------------------------ MODULE PmsReader ------------------------------
(***************************************************************************)
(* PmsReader (src/pms.py): which report a page shows.  An importer of      *)
(* another system writes report files row by row and completes them; the   *)
(* worker selects the latest completed file of a type and keeps what it    *)
(* has decrypted in memory by the file's id.  A page of src/app.py is a    *)
(* sequence of such reads, each of two transactions, while the importer    *)
(* goes on.                                                                *)
(*                                                                         *)
(* A row is its lookup and the file it comes from; a row is readable with  *)
(* the private key its file was encrypted for.                             *)
(***************************************************************************)
EXTENDS Integers, Sequences, FiniteSets

CONSTANTS
  Threads,   \* request threads of the worker process
  Files,     \* ids of the report files that may arrive
  Upload,    \* Files -> what is in them
  Lookups,   \* opaque ids of reservations and of cancellation events
  Keys,      \* private keys, new ones included
  CacheSize, \* how many files of a type lru_cache keeps (128)
  None

ASSUME ReaderAssumptions ==
  /\ Upload \in [Files -> [type : {"inhouse", "cancellation"}, date : Int,
                           rows : SUBSET Lookups, key : Keys]]
  /\ None \notin Files
  /\ CacheSize \in Nat \ {0}
  /\ \A rows \in SUBSET (Lookups \X Files) : rows # None

VARIABLES
  status,    \* Files -> pms_import_files.status, or "absent"
  at,        \* Files -> pms_import_files.completed_at, 0 before
  clock,     \* the latest completed_at
  written,   \* Files -> the lookups of the rows stored so far
  events,    \* pms_cancellation_events: Lookups -> the file of the row, or None
  key,       \* the worker's private key
  cache,     \* Files -> the rows decrypted for it, or None (the two lru_caches)
  pc,        \* Threads -> "idle", "select", "load" or "render"
  todo,      \* Threads -> the reads the page still has to make
  chosen,    \* Threads -> the file selected for the first of them
  got,       \* Threads -> the reads made: what was read and its file
  before     \* Threads -> the files completed when the page was opened

importer == <<status, at, clock, written, events>>
pages == <<pc, todo, chosen, got, before>>
vars == <<importer, key, cache, pages>>

\* The reads of the five pages, in the order of the code.
\* Seeded fault: the date is read first.
HomeDateFirst == <<"date", "cancellation", "inhouse", "inhouse">>

Home == <<"cancellation", "inhouse", "inhouse", "date">>
CancellationPage == <<"cancellation">>
InHousePage == <<"inhouse">>
DepositsPage == <<"inhouse", "date">>
SettingsPage == <<"cancellation", "inhouse">>
Pages == {Home, CancellationPage, InHousePage, DepositsPage, SettingsPage}

Reads == {"cancellation", "inhouse", "date"}
Got == [read : Reads, file : Files \cup {None}]

TypeOK ==
  /\ status \in [Files -> {"absent", "running", "completed"}]
  /\ at \in [Files -> Nat] /\ clock \in Nat
  /\ written \in [Files -> SUBSET Lookups]
  /\ events \in [Lookups -> Files \cup {None}]
  /\ key \in Keys
  /\ cache \in [Files -> (SUBSET (Lookups \X Files)) \cup {None}]
  /\ pc \in [Threads -> {"idle", "select", "load", "render"}]
  /\ todo \in [Threads -> Seq(Reads)]
  /\ chosen \in [Threads -> Files \cup {None}]
  /\ \A t \in Threads : pc[t] = "load" <=> chosen[t] # None
  /\ got \in [Threads -> Seq(Got)]
  /\ before \in [Threads -> SUBSET Files]

Init ==
  /\ status = [i \in Files |-> "absent"]
  /\ at = [i \in Files |-> 0] /\ clock = 0
  /\ written = [i \in Files |-> {}]
  /\ events = [k \in Lookups |-> None]
  /\ key \in Keys
  /\ cache = [i \in Files |-> None]
  /\ pc = [t \in Threads |-> "idle"]
  /\ todo = [t \in Threads |-> <<>>]
  /\ chosen = [t \in Threads |-> None]
  /\ got = [t \in Threads |-> <<>>]
  /\ before = [t \in Threads |-> {}]

Goto(t, step) == pc' = [pc EXCEPT ![t] = step]
-----------------------------------------------------------------------------
(* The importer, which is not in this repository.  An import that fails    *)
(* is one that stays as it is for ever: neither is ever selected.          *)

Start(i) ==
  /\ status[i] = "absent"
  /\ status' = [status EXCEPT ![i] = "running"]
  /\ UNCHANGED <<at, clock, written, events, key, cache, pages>>

\* In-house rows are added for their file; an event has one row, which the file
\* that reports it again replaces.
Write(i, k) ==
  /\ status[i] = "running"
  /\ k \in Upload[i].rows \ written[i]
  /\ written' = [written EXCEPT ![i] = @ \cup {k}]
  /\ events' = IF Upload[i].type = "cancellation" THEN [events EXCEPT ![k] = i] ELSE events
  /\ UNCHANGED <<status, at, clock, key, cache, pages>>

Complete(i) ==
  /\ status[i] = "running"
  /\ written[i] = Upload[i].rows
  /\ status' = [status EXCEPT ![i] = "completed"]
  /\ clock' = clock + 1
  /\ at' = [at EXCEPT ![i] = clock + 1]
  /\ UNCHANGED <<written, events, key, cache, pages>>
-----------------------------------------------------------------------------
(* A read: select the latest completed file, then load what it stands for. *)

\* Seeded fault: the status of a file is not looked at.
AnyStatus(type) == {i \in Files : status[i] # "absent" /\ Upload[i].type = type}

Completed(type) == {i \in Files : status[i] = "completed" /\ Upload[i].type = type}

\* ORDER BY of the two selections, of files of one type.
Newer(i, j) ==
  \/ Upload[i].type = "inhouse" /\ Upload[i].date > Upload[j].date
  \/ (Upload[i].type = "inhouse" => Upload[i].date = Upload[j].date) /\ at[i] > at[j]

\* Seeded fault: a second report of the same day is not told from the first.
LatestByDate(type) ==
  {i \in Completed(type) :
     \A j \in Completed(type) : Upload[j].date <= Upload[i].date}

Latest(type) == {i \in Completed(type) : \A j \in Completed(type) : ~Newer(j, i)}

FileType(read) == IF read = "cancellation" THEN "cancellation" ELSE "inhouse"

Open(t, page) ==
  /\ pc[t] = "idle"
  /\ Goto(t, "select")
  /\ todo' = [todo EXCEPT ![t] = page]
  /\ got' = [got EXCEPT ![t] = <<>>]
  /\ before' = [before EXCEPT ![t] = Completed("inhouse") \cup Completed("cancellation")]
  /\ UNCHANGED <<importer, key, cache, chosen>>

\* The read is done: the page goes on with the next one.
Return(t, i) ==
  /\ Goto(t, IF Len(todo[t]) = 1 THEN "render" ELSE "select")
  /\ todo' = [todo EXCEPT ![t] = Tail(@)]
  /\ got' = [got EXCEPT ![t] = Append(@, [read |-> Head(todo[t]), file |-> i])]
  /\ chosen' = [chosen EXCEPT ![t] = None]

\* Seeded fault: a page waits for the first report.
SelectNothingWaits(t) == FALSE

\* Seeded fault: what there is none of is loaded.
SelectNothingGoesOn(t) ==
  /\ pc[t] = "select"
  /\ Completed(FileType(Head(todo[t]))) = {}
  /\ Goto(t, "load")
  /\ UNCHANGED <<importer, key, cache, todo, chosen, got, before>>

\* There is nothing to select from: the read returns the empty list, or no date.
SelectNothing(t) ==
  /\ pc[t] = "select"
  /\ Completed(FileType(Head(todo[t]))) = {}
  /\ Return(t, None)
  /\ UNCHANGED <<importer, key, cache, before>>

SelectDate(t) ==
  /\ pc[t] = "select"
  /\ Head(todo[t]) = "date"
  /\ \E i \in Latest("inhouse") : Return(t, i)
  /\ UNCHANGED <<importer, key, cache, before>>

Select(t) ==
  /\ pc[t] = "select"
  /\ Head(todo[t]) # "date"
  /\ \E i \in Latest(FileType(Head(todo[t]))) : chosen' = [chosen EXCEPT ![t] = i]
  /\ Goto(t, "load")
  /\ UNCHANGED <<importer, key, cache, todo, got, before>>

\* The rows a load reads: those of the in-house file, or every event there is.
Rows(i) ==
  IF Upload[i].type = "inhouse" THEN written[i] \X {i}
  ELSE {<<k, events[k]>> : k \in {l \in Lookups : events[l] # None}}

Readable(i) == \A row \in Rows(i) : Upload[row[2]].key = key

\* The file is in the cache: no transaction.
LoadCached(t) ==
  /\ pc[t] = "load"
  /\ cache[chosen[t]] # None
  /\ Return(t, chosen[t])
  /\ UNCHANGED <<importer, key, cache, before>>

\* lru_cache drops one file of the type when it is full; which one, by the order of
\* their use, is left open.
Dropped(i) ==
  LET held == {j \in Files : Upload[j].type = Upload[i].type /\ cache[j] # None} IN
  IF Cardinality(held) < CacheSize THEN {None} ELSE held

Load(t) ==
  LET i == chosen[t] IN
  /\ pc[t] = "load"
  /\ cache[i] = None
  /\ Readable(i)
  /\ \E out \in Dropped(i) :
       cache' = [j \in Files |-> IF j = i THEN Rows(i) ELSE IF j = out THEN None ELSE cache[j]]
  /\ Return(t, i)
  /\ UNCHANGED <<importer, key, before>>

EndPage(t) ==
  /\ Goto(t, "idle")
  /\ todo' = [todo EXCEPT ![t] = <<>>]
  /\ chosen' = [chosen EXCEPT ![t] = None]
  /\ got' = [got EXCEPT ![t] = <<>>]
  /\ before' = [before EXCEPT ![t] = {}]

\* Seeded fault: a load that fails leaves an empty entry behind.
LoadUnreadableCached(t) ==
  LET i == chosen[t] IN
  /\ pc[t] = "load"
  /\ cache[i] = None
  /\ ~Readable(i)
  /\ cache' = [cache EXCEPT ![i] = {}]
  /\ EndPage(t)
  /\ UNCHANGED <<importer, key>>

\* One row cannot be decrypted: _decode raises, nothing is cached, the page fails.
LoadUnreadable(t) ==
  /\ pc[t] = "load"
  /\ cache[chosen[t]] = None
  /\ ~Readable(chosen[t])
  /\ EndPage(t)
  /\ UNCHANGED <<importer, key, cache>>

\* A transaction fails, and with it the page.
Fail(t) ==
  /\ \/ pc[t] = "select"
     \/ pc[t] = "load" /\ cache[chosen[t]] = None
  /\ EndPage(t)
  /\ UNCHANGED <<importer, key, cache>>

Render(t) ==
  /\ pc[t] = "render"
  /\ EndPage(t)
  /\ UNCHANGED <<importer, key, cache>>

\* The worker dies, or is restarted with another key.
Restart(k) ==
  /\ key' = k
  /\ cache' = [i \in Files |-> None]
  /\ pc' = [t \in Threads |-> "idle"]
  /\ todo' = [t \in Threads |-> <<>>]
  /\ chosen' = [t \in Threads |-> None]
  /\ got' = [t \in Threads |-> <<>>]
  /\ before' = [t \in Threads |-> {}]
  /\ UNCHANGED importer

Serve(t) ==
  \/ SelectNothing(t) \/ SelectDate(t) \/ Select(t)
  \/ LoadCached(t) \/ Load(t) \/ LoadUnreadable(t)
  \/ Render(t)

Next ==
  \/ \E i \in Files : Start(i) \/ Complete(i) \/ \E k \in Lookups : Write(i, k)
  \/ \E t \in Threads : (\E page \in Pages : Open(t, page)) \/ Serve(t) \/ Fail(t)
  \/ \E k \in Keys : Restart(k)

Spec == Init /\ [][Next]_vars

\* A request that has begun goes on: the server runs it, and the database answers
\* each of its transactions or refuses it.  Nobody has to open a page, upload a
\* report or restart anything.
GoesOn(t) == WF_vars(Serve(t))

FairSpec == Spec /\ \A t \in Threads : GoesOn(t)
-----------------------------------------------------------------------------
\* "One immutable completed snapshot" (pms.py:133): what is kept for an in-house
\* file is all of that file's rows, although the file was being written meanwhile.
SnapshotIsWhole ==
  \A i \in Files : Upload[i].type = "inhouse" /\ cache[i] # None =>
    status[i] = "completed" /\ cache[i] = Upload[i].rows \X {i}

\* The cancellation history kept for a file is read from a table that is not by
\* file (pms.py:178-184).  It has every event that file, or one completed before
\* it, has reported, whatever was imported and replaced before it was read.
HistoryIsComplete ==
  \A i, j \in Files :
    /\ Upload[i].type = "cancellation" /\ Upload[j].type = "cancellation"
    /\ cache[i] # None
    /\ status[j] = "completed" /\ at[j] <= at[i]
    => \A k \in Upload[j].rows : \E f \in Files : <<k, f>> \in cache[i]

\* No page is behind what was there when it was opened, cached or not
\* (pms.py:135-137): it shows the latest report of that moment, or a newer one.
PageIsCurrent ==
  \A t \in Threads : \A n \in 1..Len(got[t]) : \A j \in before[t] :
    LET r == got[t][n] IN
    Upload[j].type = FileType(r.read) => r.file # None /\ ~Newer(j, r.file)

\* The in-house report may change between two reads of one page (app.py:181-205).
\* Whatever the page says of it after it has counted the flagged reservations, the
\* failed deposits and the date under the counts, is of that report or a newer one;
\* and the date is (app.py:205, 362), because it is read last.
PageMovesForward ==
  \A t \in Threads : \A m, n \in 1..Len(got[t]) :
    LET report == got[t][m]
        other == got[t][n] IN
    /\ report.read = "inhouse" /\ report.file # None
    /\ other.read = "date" \/ (other.read = "inhouse" /\ m < n)
    => other.file # None /\ ~Newer(report.file, other.file)

\* Every page that is opened is answered, before the first report has come too.
PageAnswered == \A t \in Threads : pc[t] # "idle" ~> pc[t] = "idle"
=============================================================================
