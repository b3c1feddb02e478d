--------------------------- MODULE PropertyStore ---------------------------
(***************************************************************************)
(* PropertyStore (src/property_store.py): the name and the currency of     *)
(* every hotel, auto-detected from the reservations a page shows or typed  *)
(* in on the Settings page, kept in a table and in a copy of it in memory. *)
(*                                                                         *)
(* A page load runs ensure_known_names and then ensure_known_currencies    *)
(* over the hotels of one report (src/cancellation_logic.py:145-146,       *)
(* src/inhouse_logic.py:207-208).  Each decides from the copy, commits one *)
(* transaction and then writes the copy: three steps, between which        *)
(* another thread may run.  A Settings post (update) loads the row,        *)
(* commits the columns it changed and puts its own view of the row into    *)
(* the copy: three steps as well.                                          *)
(***************************************************************************)

CONSTANTS
  Threads,     \* request threads of the worker process (one when deployed)
  Codes,       \* property codes
  Names,       \* hotel names, after _auto_detect_name has cut out the short one
  TheCode,     \* the name of a hotel no name is known of: its code
  Currencies,  \* currency codes
  EUR,         \* DEFAULT_CURRENCY
  Blank,       \* an empty export field or form field
  None,        \* no row, no entry, no page
  DbMayFail    \* whether a transaction may fail by itself

ASSUME PropertyAssumptions ==
  /\ EUR \in Currencies
  /\ Blank \notin Names \cup Currencies \cup {TheCode}

VARIABLES
  table,   \* properties: Codes -> Entry, None: no row
  cache,   \* self._cache: Codes -> Entry or None
  pc,      \* Threads -> the step the thread's request is at
  facts,   \* Threads -> the hotels of the report the page load reads
  todo,    \* Threads -> the codes to insert and to update
  form,    \* Threads -> the Settings post and the row it loaded
  shown,   \* Codes -> the name and currency the last page's form shows, or None
  typed    \* hotels whose currency somebody typed (no code reads this)

vars == <<table, cache, pc, facts, todo, form, shown, typed>>

Source == {"auto", "manual"}
Entry == [name : Names \cup {TheCode}, nameSet : BOOLEAN, nameSrc : Source,
          cur : Currencies, curSet : BOOLEAN, curSrc : Source]
FormNames == Names \cup {TheCode, Blank}
FormCurrencies == Currencies \cup {Blank}
Fact == [name : Names \cup {Blank}, cur : Currencies \cup {Blank}]
Form == [code : Codes \cup {None}, name : FormNames, cur : FormCurrencies,
         row : Entry \cup {None}]

Shown == [name : Names \cup {TheCode}, cur : Currencies]

ASSUME NoneAssumption == None \notin Codes \cup Entry \cup Fact \cup Shown

\* _default_entry
DefaultEntry == [name |-> TheCode, nameSet |-> FALSE, nameSrc |-> "auto",
                 cur |-> EUR, curSet |-> FALSE, curSrc |-> "auto"]

NoFacts == [c \in Codes |-> None]
NoWork == [insert |-> {}, update |-> {}]
NoForm == [code |-> None, name |-> Blank, cur |-> Blank, row |-> None]
LoadSteps == {"names", "commitNames", "applyNames", "currencies",
              "commitCurrencies", "applyCurrencies", "render"}
UpdateSteps == {"getRow", "commitUpdate", "assignUpdate"}

TypeOK ==
  /\ table \in [Codes -> Entry \cup {None}]
  /\ cache \in [Codes -> Entry \cup {None}]
  /\ pc \in [Threads -> {"idle"} \cup LoadSteps \cup UpdateSteps]
  /\ facts \in [Threads -> [Codes -> Fact \cup {None}]]
  /\ todo \in [Threads -> [insert : SUBSET Codes, update : SUBSET Codes]]
  /\ form \in [Threads -> Form]
  /\ shown \in [Codes -> Shown \cup {None}]
  /\ typed \subseteq Codes

Init ==
  /\ table = [c \in Codes |-> None]
  /\ cache = [c \in Codes |-> None]
  /\ pc = [t \in Threads |-> "idle"]
  /\ facts = [t \in Threads |-> NoFacts]
  /\ todo = [t \in Threads |-> NoWork]
  /\ form = [t \in Threads |-> NoForm]
  /\ shown = [c \in Codes |-> None]
  /\ typed = {}

Goto(t, step) == pc' = [pc EXCEPT ![t] = step]

Finish(t) ==
  /\ Goto(t, "idle")
  /\ facts' = [facts EXCEPT ![t] = NoFacts]
  /\ todo' = [todo EXCEPT ![t] = NoWork]
  /\ form' = [form EXCEPT ![t] = NoForm]

Seen(t) == {c \in Codes : facts[t][c] # None}
-----------------------------------------------------------------------------
(* A page load.                                                            *)

LoadPage(t, fs) ==
  /\ pc[t] = "idle"
  /\ Goto(t, "names")
  /\ facts' = [facts EXCEPT ![t] = fs]
  /\ UNCHANGED <<table, cache, todo, form, shown, typed>>

\* Seeded fault: whoever chose the name is not looked at.
NameWantedByAll(c, n) == ~cache[c].nameSet /\ n # Blank

\* The codes whose entry takes the name, or the currency, of the report.
NameWanted(c, n) ==
  /\ cache[c].nameSrc = "auto"
  /\ ~cache[c].nameSet
  /\ n # Blank

\* Seeded fault: the test of the name, copied and left.
CurrencyWantedByName(c, cu) ==
  /\ cache[c].nameSrc = "auto"
  /\ ~cache[c].nameSet
  /\ cu # Blank

CurrencyWanted(c, cu) ==
  /\ cache[c].curSrc = "auto"
  /\ ~cache[c].curSet
  /\ cu # Blank

\* Seeded fault: the copy gets new entries before the table does.
DecideNamesEarly(t) ==
  LET new == {c \in Seen(t) : cache[c] = None}
      upgraded == {c \in Seen(t) \ new : NameWanted(c, facts[t][c].name)} IN
  /\ pc[t] = "names"
  /\ Goto(t, IF new \cup upgraded = {} THEN "currencies" ELSE "commitNames")
  /\ todo' = [todo EXCEPT ![t] = [insert |-> new, update |-> upgraded]]
  /\ cache' = [c \in Codes |-> IF c \in new THEN DefaultEntry ELSE cache[c]]
  /\ UNCHANGED <<table, facts, form, shown, typed>>

\* The first loop of ensure_known_names; nothing to do skips the transaction.
DecideNames(t) ==
  LET new == {c \in Seen(t) : cache[c] = None}
      upgraded == {c \in Seen(t) \ new : NameWanted(c, facts[t][c].name)} IN
  /\ pc[t] = "names"
  /\ Goto(t, IF new \cup upgraded = {} THEN "currencies" ELSE "commitNames")
  /\ todo' = [todo EXCEPT ![t] = [insert |-> new, update |-> upgraded]]
  /\ UNCHANGED <<table, cache, facts, form, shown, typed>>

\* A new entry, by _auto_detect_name: a name counts as configured, the code
\* that stands in for one does not.
NamedEntry(n) == IF n = Blank THEN DefaultEntry
                 ELSE [DefaultEntry EXCEPT !.name = n, !.nameSet = TRUE]

Renamed(e, n) == [e EXCEPT !.name = n, !.nameSet = TRUE]

CommitNames(t) ==
  /\ pc[t] = "commitNames"
  /\ \A c \in todo[t].insert : table[c] = None
  /\ Goto(t, "applyNames")
  /\ table' = [c \in Codes |->
       IF c \in todo[t].insert THEN NamedEntry(facts[t][c].name)
       ELSE IF c \in todo[t].update THEN Renamed(table[c], facts[t][c].name)
       ELSE table[c]]
  /\ UNCHANGED <<cache, facts, todo, form, shown, typed>>

\* Seeded fault: only upgrades reach the copy.
ApplyNamesToKnown(t) ==
  /\ pc[t] = "applyNames"
  /\ Goto(t, "currencies")
  /\ cache' = [c \in Codes |-> IF c \in todo[t].update THEN Renamed(cache[c], facts[t][c].name)
                               ELSE cache[c]]
  /\ UNCHANGED <<table, facts, todo, form, shown, typed>>

ApplyNames(t) ==
  /\ pc[t] = "applyNames"
  /\ Goto(t, "currencies")
  /\ cache' = [c \in Codes |->
       IF c \in todo[t].insert THEN NamedEntry(facts[t][c].name)
       ELSE IF c \in todo[t].update THEN Renamed(cache[c], facts[t][c].name)
       ELSE cache[c]]
  /\ UNCHANGED <<table, facts, todo, form, shown, typed>>

DecideCurrencies(t) ==
  LET new == {c \in Seen(t) : cache[c] = None}
      upgraded == {c \in Seen(t) \ new : CurrencyWanted(c, facts[t][c].cur)} IN
  /\ pc[t] = "currencies"
  /\ Goto(t, IF new \cup upgraded = {} THEN "render" ELSE "commitCurrencies")
  /\ todo' = [todo EXCEPT ![t] = [insert |-> new, update |-> upgraded]]
  /\ UNCHANGED <<table, cache, facts, form, shown, typed>>

Recoined(e, cu) == [e EXCEPT !.cur = cu, !.curSet = TRUE]
CoinedEntry(cu) == IF cu = Blank THEN DefaultEntry ELSE Recoined(DefaultEntry, cu)

\* A row that is there by now is left as it is (property_store.py:134).
CommitCurrencies(t) ==
  /\ pc[t] = "commitCurrencies"
  /\ Goto(t, "applyCurrencies")
  /\ table' = [c \in Codes |->
       IF c \in todo[t].insert /\ table[c] = None THEN CoinedEntry(facts[t][c].cur)
       ELSE IF c \in todo[t].update THEN Recoined(table[c], facts[t][c].cur)
       ELSE table[c]]
  /\ UNCHANGED <<cache, facts, todo, form, shown, typed>>

ApplyCurrencies(t) ==
  /\ pc[t] = "applyCurrencies"
  /\ Goto(t, "render")
  /\ cache' = [c \in Codes |->
       IF c \in todo[t].insert /\ cache[c] = None THEN CoinedEntry(facts[t][c].cur)
       ELSE IF c \in todo[t].update THEN Recoined(cache[c], facts[t][c].cur)
       ELSE cache[c]]
  /\ UNCHANGED <<table, facts, todo, form, shown, typed>>

\* The page is answered.  On the Settings page there is a form for every entry
\* of the copy, filled in with what the entry says.
Render(t) ==
  /\ pc[t] = "render"
  /\ shown' = [c \in Codes |-> IF cache[c] = None THEN None
                               ELSE [name |-> cache[c].name, cur |-> cache[c].cur]]
  /\ Finish(t)
  /\ UNCHANGED <<table, cache, typed>>
-----------------------------------------------------------------------------
(* A Settings post.                                                        *)

\* The form posts both fields, typed over or as they were shown.
PostProperty(t, c, n, cu) ==
  /\ pc[t] = "idle"
  /\ shown[c] # None
  /\ Goto(t, "getRow")
  /\ form' = [form EXCEPT ![t] = [code |-> c, name |-> n, cur |-> cu, row |-> None]]
  /\ typed' = IF cu \in {shown[c].cur, Blank} THEN typed ELSE typed \cup {c}
  /\ UNCHANGED <<table, cache, facts, todo, shown>>

GetRow(t) ==
  /\ pc[t] = "getRow"
  /\ Goto(t, "commitUpdate")
  /\ form' = [form EXCEPT ![t].row = table[form[t].code]]
  /\ UNCHANGED <<table, cache, facts, todo, shown, typed>>

\* Seeded fault: an emptied name is stored empty.
EditedBlank(row, n, cu) ==
  LET e == IF row = None THEN DefaultEntry ELSE row
      named == [e EXCEPT !.name = n, !.nameSet = n # Blank, !.nameSrc = "manual"]
  IN  IF cu = Blank THEN named
      ELSE [Recoined(named, cu) EXCEPT !.curSrc = "manual"]

\* update's view of the row once it has assigned the columns.
Edited(row, n, cu) ==
  LET e == IF row = None THEN DefaultEntry ELSE row
      named == [e EXCEPT !.name = IF n = Blank THEN TheCode ELSE n,
                         !.nameSet = n # Blank, !.nameSrc = "manual"]
  IN  IF cu = Blank THEN named
      ELSE [Recoined(named, cu) EXCEPT !.curSrc = "manual"]

View(t) == Edited(form[t].row, form[t].name, form[t].cur)

\* An UPDATE names the columns whose value differs from the loaded one.
CommitUpdate(t) ==
  LET c == form[t].code
      old == form[t].row
      new == View(t) IN
  /\ pc[t] = "commitUpdate"
  /\ old = None => table[c] = None
  /\ Goto(t, "assignUpdate")
  /\ table' = [table EXCEPT ![c] =
       IF old = None THEN new
       ELSE [f \in DOMAIN new |-> IF new[f] # old[f] THEN new[f] ELSE table[c][f]]]
  /\ UNCHANGED <<cache, facts, todo, form, shown, typed>>

\* Seeded fault: the copy gets the row as it was loaded.
AssignUpdateOld(t) ==
  /\ pc[t] = "assignUpdate"
  /\ cache' = [cache EXCEPT ![form[t].code] = form[t].row]
  /\ Finish(t)
  /\ UNCHANGED <<table, shown, typed>>

AssignUpdate(t) ==
  /\ pc[t] = "assignUpdate"
  /\ cache' = [cache EXCEPT ![form[t].code] = View(t)]
  /\ Finish(t)
  /\ UNCHANGED <<table, shown, typed>>
-----------------------------------------------------------------------------
Overlaps(t) == \E u \in Threads \ {t} : pc[u] # "idle"

\* A transaction raises: the lock of an overlapping one, the primary key, or a
\* failure of the database.  It rolls back; the request ends with an error.
Fail(t) ==
  /\ pc[t] \in {"commitNames", "commitCurrencies", "getRow", "commitUpdate"}
  /\ \/ DbMayFail
     \/ Overlaps(t)
     \/ pc[t] = "commitNames" /\ \E c \in todo[t].insert : table[c] # None
     \/ pc[t] = "commitUpdate" /\ form[t].row = None /\ table[form[t].code] # None
  /\ Finish(t)
  /\ UNCHANGED <<table, cache, shown, typed>>

\* The process dies and is started again: the constructor reads the table.
Restart ==
  /\ cache' = table
  /\ pc' = [t \in Threads |-> "idle"]
  /\ facts' = [t \in Threads |-> NoFacts]
  /\ todo' = [t \in Threads |-> NoWork]
  /\ form' = [t \in Threads |-> NoForm]
  /\ UNCHANGED <<table, shown, typed>>

Next ==
  \/ Restart
  \/ \E t \in Threads :
       \/ \E fs \in [Codes -> Fact \cup {None}] : LoadPage(t, fs)
       \/ DecideNames(t) \/ CommitNames(t) \/ ApplyNames(t)
       \/ DecideCurrencies(t) \/ CommitCurrencies(t) \/ ApplyCurrencies(t)
       \/ Render(t)
       \/ \E c \in Codes, n \in FormNames, cu \in FormCurrencies : PostProperty(t, c, n, cu)
       \/ GetRow(t) \/ CommitUpdate(t) \/ AssignUpdate(t)
       \/ Fail(t)

Spec == Init /\ [][Next]_vars
-----------------------------------------------------------------------------
(* However many threads there are.                                         *)

\* Every entry of the copy has its row, so neither row.name = ... of a page load
\* nor update ever meets a missing row (property_store.py:103-105, 136-138).
RowForEveryEntry == \A c \in Codes : cache[c] # None => table[c] # None

\* ensure_known_currencies never has a hotel to insert: the names pass has put
\* every hotel of the report into the copy.  Its branch for rows that are "queued
\* by ensure_known_names in the same batch" (property_store.py:131-135) is dead.
CurrencyInsertIsDead ==
  \A t \in Threads : pc[t] \in {"commitCurrencies", "applyCurrencies"} => todo[t].insert = {}
-----------------------------------------------------------------------------
(* One request at a time.                                                  *)

\* Between requests the copy is the table, also after failed transactions.
CacheSynced == (\A t \in Threads : pc[t] = "idle") => cache = table

\* When a page is answered, every hotel of its report that the report names has
\* a name, or somebody chose it; and the same for its currency: a later import
\* "upgrades it automatically" (README.md:166-167).
ReportIsUsed ==
  \A t \in Threads : pc[t] = "render" =>
    \A c \in Seen(t) :
      /\ facts[t][c].name # Blank => cache[c].nameSet \/ cache[c].nameSrc = "manual"
      /\ facts[t][c].cur # Blank => cache[c].curSet \/ cache[c].curSrc = "manual"

\* What a row says by hand, or has once detected.
NameFixed(e) == e.nameSet \/ e.nameSrc = "manual"
CurrencyFixed(e) == e.curSet \/ e.curSrc = "manual"

Edits(c) == \E t \in Threads : pc[t] = "commitUpdate" /\ form[t].code = c /\ pc'[t] # pc[t]

\* "Manual edits, and codes that already have a real detected name, are never
\* touched" (property_store.py:79-80): only a post for the hotel changes a fixed
\* name or a fixed currency in the table.
FixedKept ==
  [][\A c \in Codes : table[c] # None /\ ~Edits(c) =>
       /\ NameFixed(table[c]) =>
            table'[c].name = table[c].name /\ table'[c].nameSrc = table[c].nameSrc
       /\ CurrencyFixed(table[c]) =>
            table'[c].cur = table[c].cur /\ table'[c].curSrc = table[c].curSrc]_vars

-----------------------------------------------------------------------------
(* What is promised to the pages, and how this module keeps it: the table  *)
(* is the directory, and who said a thing is in two columns of it.         *)

By(set, src) == IF src = "manual" THEN "hand" ELSE IF set THEN "report" ELSE "nobody"

EntryOf(e) == IF e = None THEN None
              ELSE [name |-> e.name, nameBy |-> By(e.nameSet, e.nameSrc),
                    cur |-> e.cur, curBy |-> By(e.curSet, e.curSrc)]

Entries == [c \in Codes |-> EntryOf(table[c])]

Directory == INSTANCE HotelDirectory WITH entries <- Entries, reports <- facts

ASSUME EntryAssumption == None \notin Directory!Entry

\* Deciding, committing and copying, with failures and restarts in between, is to the
\* pages one directory: what nobody has said is learnt from the report, each page
\* answers with all of it, and what a hand or a report has said only a hand changes
\* (README.md:163-168, property_store.py:76-82, 112-114).
ImplementsDirectory == Directory!Spec
-----------------------------------------------------------------------------
\* "Name and currency are tracked independently" (README.md:167): a hotel whose
\* currency nobody has typed shows the currency of the reports, once they have
\* one.  The code breaks this: see README.md.
UntypedCurrencyIsDetected ==
  \A t \in Threads : pc[t] = "render" =>
    \A c \in Seen(t) \ typed :
      facts[t][c].cur # Blank => cache[c].curSet /\ cache[c].curSrc = "auto"
=============================================================================
