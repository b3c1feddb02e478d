------------------------ MODULE PropertyStoreProofs ------------------------
(***************************************************************************)
(* What holds of PropertyStore for every set of threads, hotels, names and *)
(* currencies, with or without database failures.                          *)
(*                                                                         *)
(* Neither "every entry has its row" nor "the currency pass never inserts" *)
(* is inductive: both rest on what each thread has decided earlier in its  *)
(* page load still being true when it acts on it.  WorkOK says that, step  *)
(* by step; it survives the other threads because entries of the copy and  *)
(* rows of the table are only ever added.                                  *)
(***************************************************************************)
EXTENDS PropertyStore, TLAPS

Known == {c \in Codes : cache[c] # None}
Stored == {c \in Codes : table[c] # None}

NameSteps == {"commitNames", "applyNames"}
CurrencySteps == {"commitCurrencies", "applyCurrencies"}

\* What a page load has decided and may still rely on.
WorkOK(t) ==
  /\ pc[t] \in NameSteps =>
       /\ Seen(t) \subseteq Known \cup todo[t].insert
       /\ todo[t].insert \cup todo[t].update \subseteq Seen(t)
       /\ todo[t].update \subseteq {c \in Known : facts[t][c].name # Blank}
  /\ pc[t] = "applyNames" => todo[t].insert \subseteq Stored
  /\ pc[t] \in CurrencySteps \cup {"currencies", "render"} => Seen(t) \subseteq Known
  /\ pc[t] \in CurrencySteps =>
       /\ todo[t].insert = {}
       /\ todo[t].update \subseteq {c \in Seen(t) : facts[t][c].cur # Blank}

\* What a Settings post has loaded and may still rely on.
FormOK(t) ==
  /\ pc[t] \in UpdateSteps => form[t].code \in Codes
  /\ pc[t] = "commitUpdate" => (form[t].row # None => form[t].code \in Stored)
  /\ pc[t] = "assignUpdate" => form[t].code \in Stored

EntriesInv ==
  /\ TypeOK
  /\ RowForEveryEntry
  /\ \A t \in Threads : WorkOK(t) /\ FormOK(t)

(***************************************************************************)
(* The operators on entries.                                               *)
(***************************************************************************)

\* A new entry, and one that takes the name or currency of a report, is an entry.
LEMMA DetectedType ==
  /\ DefaultEntry \in Entry
  /\ \A n \in Names \cup {Blank} : NamedEntry(n) \in Entry
  /\ \A e \in Entry, n \in Names : Renamed(e, n) \in Entry
  /\ \A e \in Entry, cu \in Currencies : Recoined(e, cu) \in Entry
  /\ \A cu \in Currencies \cup {Blank} : CoinedEntry(cu) \in Entry
<1> USE PropertyAssumptions
<1>1. DefaultEntry \in Entry
  BY DEF DefaultEntry, Entry, Source
<1>2. \A n \in Names \cup {Blank} : NamedEntry(n) \in Entry
  BY DEF NamedEntry, DefaultEntry, Entry, Source
<1>3. \A e \in Entry, n \in Names : Renamed(e, n) \in Entry
  BY DEF Renamed, Entry
<1>4. \A e \in Entry, cu \in Currencies : Recoined(e, cu) \in Entry
  BY DEF Recoined, Entry
<1>5. \A cu \in Currencies \cup {Blank} : CoinedEntry(cu) \in Entry
  BY <1>1, <1>4 DEF CoinedEntry
<1> QED BY <1>1, <1>2, <1>3, <1>4, <1>5

\* What update assigns is an entry, whatever is typed (property_store.py:161-174).
LEMMA EditedType ==
  ASSUME NEW row \in Entry \cup {None}, NEW n \in FormNames, NEW cu \in FormCurrencies
  PROVE  Edited(row, n, cu) \in Entry
<1> DEFINE e == IF row = None THEN DefaultEntry ELSE row
           named == [e EXCEPT !.name = IF n = Blank THEN TheCode ELSE n,
                              !.nameSet = n # Blank, !.nameSrc = "manual"]
<1>1. e \in Entry
  BY DetectedType
<1>2. named \in Entry
  <2> HIDE DEF e
  <2> QED BY <1>1 DEF Entry, FormNames, Source
<1>3. CASE cu = Blank
  BY <1>2, <1>3 DEF Edited
<1>4. CASE cu # Blank
  <2>1. cu \in Currencies
    BY <1>4 DEF FormCurrencies
  <2>2. Recoined(named, cu) \in Entry
    <3> HIDE DEF named
    <3> QED BY <1>2, <2>1, DetectedType
  <2>3. [Recoined(named, cu) EXCEPT !.curSrc = "manual"] \in Entry
    <3> DEFINE x == Recoined(named, cu)
    <3> HIDE DEF x
    <3>1. x \in Entry
      BY <2>2 DEF x
    <3>2. [x EXCEPT !.curSrc = "manual"] \in Entry
      BY <3>1 DEF Entry, Source
    <3> QED BY <3>2 DEF x
  <2> QED BY <1>4, <2>3 DEF Edited
<1> QED BY <1>3, <1>4

\* The columns of an UPDATE and those it leaves make an entry.
LEMMA MergedType ==
  ASSUME NEW new \in Entry, NEW old \in Entry, NEW row \in Entry
  PROVE  [f \in DOMAIN new |-> IF new[f] # old[f] THEN new[f] ELSE row[f]] \in Entry
<1> DEFINE m == [f \in DOMAIN new |-> IF new[f] # old[f] THEN new[f] ELSE row[f]]
<1>1. DOMAIN new = {"name", "nameSet", "nameSrc", "cur", "curSet", "curSrc"}
  BY DEF Entry
<1>2. m = [name |-> m.name, nameSet |-> m.nameSet, nameSrc |-> m.nameSrc,
           cur |-> m.cur, curSet |-> m.curSet, curSrc |-> m.curSrc]
  BY <1>1
<1>3. /\ m.name \in {new.name, row.name} /\ m.nameSet \in {new.nameSet, row.nameSet}
      /\ m.nameSrc \in {new.nameSrc, row.nameSrc} /\ m.cur \in {new.cur, row.cur}
      /\ m.curSet \in {new.curSet, row.curSet} /\ m.curSrc \in {new.curSrc, row.curSrc}
  BY <1>1
<1> HIDE DEF m
<1>4. m \in Entry
  BY <1>2, <1>3 DEF Entry
<1> QED BY <1>4 DEF m

(***************************************************************************)
(* What one thread's step leaves to the others.                            *)
(***************************************************************************)

Untouched(u) == /\ pc'[u] = pc[u] /\ facts'[u] = facts[u]
                /\ todo'[u] = todo[u] /\ form'[u] = form[u]

\* A step of t keeps the invariant if it keeps it for t, adds entries and rows
\* only, and leaves the other threads where they are.
LEMMA StepKeeps ==
  ASSUME EntriesInv, TypeOK', RowForEveryEntry', NEW t \in Threads,
         Known \subseteq Known', Stored \subseteq Stored',
         WorkOK(t)', FormOK(t)', \A u \in Threads \ {t} : Untouched(u)
  PROVE  EntriesInv'
<1>1. ASSUME NEW u \in Threads, u # t  PROVE WorkOK(u)' /\ FormOK(u)'
  <2>1. Untouched(u) /\ WorkOK(u) /\ FormOK(u)
    BY <1>1 DEF EntriesInv
  <2>2. Seen(u)' = Seen(u)
    BY <2>1 DEF Untouched, Seen
  <2>3. WorkOK(u)'
    BY <2>1, <2>2 DEF WorkOK, Untouched, Known, Stored
  <2>4. FormOK(u)'
    BY <2>1 DEF FormOK, Untouched, Stored
  <2> QED BY <2>3, <2>4
<1> QED BY <1>1 DEF EntriesInv

\* A request that ends has nothing left to rely on.
LEMMA FinishKeeps ==
  ASSUME EntriesInv, NEW t \in Threads, Finish(t), RowForEveryEntry',
         table' \in [Codes -> Entry \cup {None}], cache' \in [Codes -> Entry \cup {None}],
         shown' \in [Codes -> Shown \cup {None}],
         typed' \subseteq Codes,
         Known \subseteq Known', Stored \subseteq Stored'
  PROVE  EntriesInv'
<1>1. TypeOK
  BY DEF EntriesInv
<1>2. pc'[t] = "idle" /\ \A u \in Threads \ {t} : Untouched(u)
  BY <1>1 DEF TypeOK, Finish, Goto, Untouched
<1>3. WorkOK(t)' /\ FormOK(t)'
  BY <1>2 DEF WorkOK, FormOK, NameSteps, CurrencySteps, UpdateSteps
<1>4. TypeOK'
  <2>1. NoFacts \in [Codes -> Fact \cup {None}]
    BY DEF NoFacts
  <2>2. NoWork \in [insert : SUBSET Codes, update : SUBSET Codes]
    BY DEF NoWork
  <2>3. NoForm \in Form
    BY DEF NoForm, Form, FormNames, FormCurrencies
  <2> QED BY <1>1, <2>1, <2>2, <2>3 DEF TypeOK, Finish, Goto
<1> QED BY <1>2, <1>3, <1>4, StepKeeps

\* The invariant holds before the first request.
LEMMA InitEntriesInv == Init => EntriesInv
<1> SUFFICES ASSUME Init PROVE EntriesInv
  OBVIOUS
<1>1. TypeOK
  BY DEF Init, TypeOK, NoFacts, NoWork, NoForm, Form, FormNames, FormCurrencies
<1>2. RowForEveryEntry
  BY DEF Init, RowForEveryEntry
<1>3. \A t \in Threads : WorkOK(t) /\ FormOK(t)
  BY DEF Init, WorkOK, FormOK, NameSteps, CurrencySteps, UpdateSteps
<1> QED BY <1>1, <1>2, <1>3 DEF EntriesInv

(***************************************************************************)
(* The steps of a page load.                                               *)
(***************************************************************************)

\* A page load begins with a report and nothing decided.
LEMMA LoadPageKeeps ==
  ASSUME EntriesInv, NEW t \in Threads, NEW fs \in [Codes -> Fact \cup {None}],
         LoadPage(t, fs)
  PROVE  EntriesInv'
<1>1. TypeOK
  BY DEF EntriesInv
<1>2. TypeOK'
  BY <1>1 DEF TypeOK, LoadPage, Goto, LoadSteps
<1>3. RowForEveryEntry' /\ Known' = Known /\ Stored' = Stored
  BY DEF EntriesInv, RowForEveryEntry, LoadPage, Known, Stored
<1>4. pc'[t] = "names" /\ \A u \in Threads \ {t} : Untouched(u)
  BY <1>1 DEF TypeOK, LoadPage, Goto, Untouched
<1>5. WorkOK(t)' /\ FormOK(t)'
  BY <1>4 DEF WorkOK, FormOK, NameSteps, CurrencySteps, UpdateSteps
<1> QED BY <1>2, <1>3, <1>4, <1>5, StepKeeps

\* What ensure_known_names decides covers every hotel of the report.
LEMMA DecideNamesKeeps ==
  ASSUME EntriesInv, NEW t \in Threads, DecideNames(t)
  PROVE  EntriesInv'
<1>1. TypeOK
  BY DEF EntriesInv
<1> DEFINE ins == {c \in Seen(t) : cache[c] = None}
           ups == {c \in Seen(t) \ ins : NameWanted(c, facts[t][c].name)}
<1>2. Seen(t) \subseteq Codes /\ Seen(t)' = Seen(t)
  BY DEF Seen, DecideNames
<1>3. todo' = [todo EXCEPT ![t] = [insert |-> ins, update |-> ups]]
  BY DEF DecideNames
<1>4. todo'[t].insert = ins /\ todo'[t].update = ups
  BY <1>1, <1>3 DEF TypeOK
<1>5. pc'[t] \in {"currencies", "commitNames"}
      /\ (pc'[t] = "currencies" => ins = {}) /\ \A u \in Threads \ {t} : Untouched(u)
  BY <1>1, <1>3 DEF TypeOK, DecideNames, Goto, Untouched
<1>6. TypeOK'
  <2>1. [insert |-> ins, update |-> ups] \in [insert : SUBSET Codes, update : SUBSET Codes]
    BY <1>2
  <2>2. pc' \in [Threads -> {"idle"} \cup LoadSteps \cup UpdateSteps]
    BY <1>1 DEF TypeOK, DecideNames, Goto, LoadSteps
  <2> HIDE DEF ins, ups
  <2> QED BY <1>1, <1>3, <2>1, <2>2 DEF TypeOK, DecideNames
<1>7. RowForEveryEntry' /\ Known' = Known /\ Stored' = Stored
  BY DEF EntriesInv, RowForEveryEntry, DecideNames, Known, Stored
<1>8. WorkOK(t)'
  <2>1. Seen(t) \ ins \subseteq Known
    BY <1>2 DEF Known
  <2>2. ups \subseteq {c \in Known : facts[t][c].name # Blank}
    BY <2>1 DEF NameWanted
  <2>3. facts'[t] = facts[t]
    BY DEF DecideNames
  <2>4. ins \cup ups \subseteq Seen(t)
    OBVIOUS
  <2> HIDE DEF ins, ups
  <2>5. CASE pc'[t] = "commitNames"
    <3>1. Seen(t)' \subseteq Known' \cup todo'[t].insert
      BY <1>2, <1>4, <1>7, <2>1
    <3>2. todo'[t].insert \cup todo'[t].update \subseteq Seen(t)'
      BY <1>2, <1>4, <2>4
    <3>3. todo'[t].update \subseteq {c \in Known' : facts'[t][c].name # Blank}
      BY <1>4, <1>7, <2>2, <2>3
    <3> QED BY <2>5, <3>1, <3>2, <3>3 DEF WorkOK, NameSteps, CurrencySteps
  <2>6. CASE pc'[t] = "currencies"
    <3>1. Seen(t)' \subseteq Known'
      BY <1>2, <1>5, <1>7, <2>1, <2>6
    <3> QED BY <2>6, <3>1 DEF WorkOK, NameSteps, CurrencySteps
  <2> QED BY <1>5, <2>5, <2>6
<1>9. FormOK(t)'
  BY <1>5 DEF FormOK, UpdateSteps
<1> QED BY <1>5, <1>6, <1>7, <1>8, <1>9, StepKeeps

\* The names transaction writes a row for every hotel it decided to insert.
LEMMA CommitNamesKeeps ==
  ASSUME EntriesInv, NEW t \in Threads, CommitNames(t)
  PROVE  EntriesInv'
<1>1. TypeOK /\ RowForEveryEntry /\ WorkOK(t)
  BY DEF EntriesInv
<1>2. pc'[t] = "applyNames" /\ \A u \in Threads \ {t} : Untouched(u)
  BY <1>1 DEF TypeOK, CommitNames, Goto, Untouched
<1>3. Seen(t)' = Seen(t) /\ facts' = facts /\ todo' = todo /\ Known' = Known
  BY DEF CommitNames, Seen, Known
<1>4. /\ todo[t].insert \subseteq Seen(t)
      /\ todo[t].update \subseteq {c \in Known : c \in Seen(t) /\ facts[t][c].name # Blank}
      /\ Seen(t) \subseteq Known \cup todo[t].insert
  BY <1>1 DEF WorkOK, NameSteps, CommitNames
<1>5. \A c \in Codes : table'[c] \in Entry \cup {None}
                       /\ (c \in todo[t].insert \/ table[c] # None => table'[c] # None)
  <2> SUFFICES ASSUME NEW c \in Codes
               PROVE  /\ table'[c] \in Entry \cup {None}
                      /\ c \in todo[t].insert \/ table[c] # None => table'[c] # None
    OBVIOUS
  <2>1. table'[c] = IF c \in todo[t].insert THEN NamedEntry(facts[t][c].name)
                    ELSE IF c \in todo[t].update THEN Renamed(table[c], facts[t][c].name)
                    ELSE table[c]
    BY DEF CommitNames
  <2>2. CASE c \in todo[t].insert
    <3>1. facts[t][c] \in Fact
      BY <1>1, <1>4, <2>2 DEF TypeOK, Seen
    <3>2. NamedEntry(facts[t][c].name) \in Entry
      BY <3>1, DetectedType DEF Fact
    <3> QED BY <2>1, <2>2, <3>2, NoneAssumption
  <2>3. CASE c \notin todo[t].insert /\ c \in todo[t].update
    <3>1. facts[t][c] \in Fact /\ facts[t][c].name # Blank
      BY <1>1, <1>4, <2>3 DEF TypeOK, Seen
    <3>2. table[c] \in Entry
      BY <1>1, <1>4, <2>3 DEF TypeOK, Known, RowForEveryEntry
    <3>3. Renamed(table[c], facts[t][c].name) \in Entry
      BY <3>1, <3>2, DetectedType DEF Fact
    <3> QED BY <2>1, <2>3, <3>3, NoneAssumption
  <2>4. CASE c \notin todo[t].insert /\ c \notin todo[t].update
    BY <1>1, <2>1, <2>4 DEF TypeOK
  <2> QED BY <2>2, <2>3, <2>4
<1>6. Stored \subseteq Stored' /\ todo[t].insert \subseteq Stored'
  BY <1>4, <1>5 DEF Stored, Seen
<1>7. TypeOK'
  <2>1. table' \in [Codes -> Entry \cup {None}]
    BY <1>5 DEF CommitNames
  <2>2. pc' \in [Threads -> {"idle"} \cup LoadSteps \cup UpdateSteps]
    BY <1>1 DEF TypeOK, CommitNames, Goto, LoadSteps
  <2> QED BY <1>1, <2>1, <2>2 DEF TypeOK, CommitNames
<1>8. RowForEveryEntry'
  BY <1>1, <1>5 DEF RowForEveryEntry, CommitNames
<1>9. WorkOK(t)' /\ FormOK(t)'
  BY <1>2, <1>3, <1>4, <1>6 DEF WorkOK, FormOK, NameSteps, CurrencySteps, UpdateSteps
<1> QED BY <1>2, <1>3, <1>6, <1>7, <1>8, <1>9, StepKeeps

\* After the names pass every hotel of the report has an entry, and its row.
LEMMA ApplyNamesKeeps ==
  ASSUME EntriesInv, NEW t \in Threads, ApplyNames(t)
  PROVE  EntriesInv'
<1>1. TypeOK /\ RowForEveryEntry /\ WorkOK(t)
  BY DEF EntriesInv
<1>2. pc'[t] = "currencies" /\ \A u \in Threads \ {t} : Untouched(u)
  BY <1>1 DEF TypeOK, ApplyNames, Goto, Untouched
<1>3. Seen(t)' = Seen(t) /\ Stored' = Stored
  BY DEF ApplyNames, Seen, Stored
<1>4. /\ todo[t].insert \subseteq Seen(t) /\ todo[t].insert \subseteq Stored
      /\ todo[t].update \subseteq {c \in Known : c \in Seen(t) /\ facts[t][c].name # Blank}
      /\ Seen(t) \subseteq Known \cup todo[t].insert
  BY <1>1 DEF WorkOK, NameSteps, ApplyNames
<1>5. \A c \in Codes : /\ cache'[c] \in Entry \cup {None}
                       /\ cache'[c] # None <=> (c \in todo[t].insert \/ cache[c] # None)
  <2> SUFFICES ASSUME NEW c \in Codes
               PROVE  /\ cache'[c] \in Entry \cup {None}
                      /\ cache'[c] # None <=> (c \in todo[t].insert \/ cache[c] # None)
    OBVIOUS
  <2>1. cache'[c] = IF c \in todo[t].insert THEN NamedEntry(facts[t][c].name)
                    ELSE IF c \in todo[t].update THEN Renamed(cache[c], facts[t][c].name)
                    ELSE cache[c]
    BY DEF ApplyNames
  <2>2. CASE c \in todo[t].insert
    <3>1. facts[t][c] \in Fact
      BY <1>1, <1>4, <2>2 DEF TypeOK, Seen
    <3>2. NamedEntry(facts[t][c].name) \in Entry
      BY <3>1, DetectedType DEF Fact
    <3> QED BY <2>1, <2>2, <3>2, NoneAssumption
  <2>3. CASE c \notin todo[t].insert /\ c \in todo[t].update
    <3>1. facts[t][c] \in Fact /\ facts[t][c].name # Blank
      BY <1>1, <1>4, <2>3 DEF TypeOK, Seen
    <3>2. cache[c] \in Entry /\ cache[c] # None
      BY <1>1, <1>4, <2>3 DEF TypeOK, Known
    <3>3. Renamed(cache[c], facts[t][c].name) \in Entry
      BY <3>1, <3>2, DetectedType DEF Fact
    <3> QED BY <2>1, <2>3, <3>2, <3>3, NoneAssumption
  <2>4. CASE c \notin todo[t].insert /\ c \notin todo[t].update
    BY <1>1, <2>1, <2>4 DEF TypeOK
  <2> QED BY <2>2, <2>3, <2>4
<1>6. Known' = Known \cup todo[t].insert
  BY <1>4, <1>5 DEF Known, Seen
<1>7. TypeOK'
  <2>1. cache' \in [Codes -> Entry \cup {None}]
    BY <1>5 DEF ApplyNames
  <2>2. pc' \in [Threads -> {"idle"} \cup LoadSteps \cup UpdateSteps]
    BY <1>1 DEF TypeOK, ApplyNames, Goto, LoadSteps
  <2> QED BY <1>1, <2>1, <2>2 DEF TypeOK, ApplyNames
<1>8. RowForEveryEntry'
  <2>1. \A c \in Codes : cache'[c] # None => table[c] # None
    BY <1>1, <1>4, <1>5 DEF RowForEveryEntry, Stored
  <2> QED BY <2>1 DEF RowForEveryEntry, ApplyNames
<1>9. WorkOK(t)' /\ FormOK(t)'
  BY <1>2, <1>3, <1>4, <1>6 DEF WorkOK, FormOK, NameSteps, CurrencySteps, UpdateSteps
<1> QED BY <1>2, <1>3, <1>6, <1>7, <1>8, <1>9, StepKeeps

\* The currency pass finds every hotel of the report in the copy.
LEMMA DecideCurrenciesKeeps ==
  ASSUME EntriesInv, NEW t \in Threads, DecideCurrencies(t)
  PROVE  EntriesInv'
<1>1. TypeOK /\ WorkOK(t)
  BY DEF EntriesInv
<1> DEFINE ins == {c \in Seen(t) : cache[c] = None}
           ups == {c \in Seen(t) \ ins : CurrencyWanted(c, facts[t][c].cur)}
<1>2. Seen(t) \subseteq Known /\ Seen(t)' = Seen(t) /\ facts'[t] = facts[t]
  BY <1>1 DEF WorkOK, Seen, DecideCurrencies
<1>3. ins = {} /\ ups \subseteq {c \in Seen(t) : facts[t][c].cur # Blank}
  BY <1>2 DEF Known, CurrencyWanted
<1>4. todo' = [todo EXCEPT ![t] = [insert |-> ins, update |-> ups]]
  BY DEF DecideCurrencies
<1>5. pc'[t] \in {"render", "commitCurrencies"} /\ \A u \in Threads \ {t} : Untouched(u)
  BY <1>1, <1>4 DEF TypeOK, DecideCurrencies, Goto, Untouched
<1>6. RowForEveryEntry' /\ Known' = Known /\ Stored' = Stored
  BY DEF EntriesInv, RowForEveryEntry, DecideCurrencies, Known, Stored
<1>7. Seen(t) \subseteq Codes
  BY DEF Seen
<1>8. pc' \in [Threads -> {"idle"} \cup LoadSteps \cup UpdateSteps]
  BY <1>1 DEF TypeOK, DecideCurrencies, Goto, LoadSteps
<1> HIDE DEF ins, ups
<1>9. todo'[t].insert = ins /\ todo'[t].update = ups
  BY <1>1, <1>4 DEF TypeOK
<1>10. TypeOK'
  <2>1. [insert |-> ins, update |-> ups] \in [insert : SUBSET Codes, update : SUBSET Codes]
    BY <1>3, <1>7
  <2> QED BY <1>1, <1>4, <1>8, <2>1 DEF TypeOK, DecideCurrencies
<1>11. WorkOK(t)'
  <2>1. todo'[t].update \subseteq {c \in Seen(t)' : facts'[t][c].cur # Blank}
    BY <1>2, <1>3, <1>9
  <2> QED BY <1>2, <1>3, <1>5, <1>6, <1>9, <2>1 DEF WorkOK, NameSteps, CurrencySteps
<1>12. FormOK(t)'
  BY <1>5 DEF FormOK, UpdateSteps
<1> QED BY <1>5, <1>6, <1>10, <1>11, <1>12, StepKeeps

\* The currencies transaction meets the row of every hotel it upgrades.
LEMMA CommitCurrenciesKeeps ==
  ASSUME EntriesInv, NEW t \in Threads, CommitCurrencies(t)
  PROVE  EntriesInv'
<1>1. TypeOK /\ RowForEveryEntry /\ WorkOK(t)
  BY DEF EntriesInv
<1>2. pc'[t] = "applyCurrencies" /\ \A u \in Threads \ {t} : Untouched(u)
  BY <1>1 DEF TypeOK, CommitCurrencies, Goto, Untouched
<1>3. Seen(t)' = Seen(t) /\ facts' = facts /\ todo' = todo /\ Known' = Known
  BY DEF CommitCurrencies, Seen, Known
<1>4. /\ todo[t].insert = {} /\ Seen(t) \subseteq Known
      /\ todo[t].update \subseteq {c \in Seen(t) : facts[t][c].cur # Blank}
  BY <1>1 DEF WorkOK, CurrencySteps, CommitCurrencies
<1>5. \A c \in Codes : table'[c] \in Entry \cup {None} /\ (table[c] # None => table'[c] # None)
  <2> SUFFICES ASSUME NEW c \in Codes
               PROVE  table'[c] \in Entry \cup {None} /\ (table[c] # None => table'[c] # None)
    OBVIOUS
  <2>1. table'[c] = IF c \in todo[t].update THEN Recoined(table[c], facts[t][c].cur)
                    ELSE table[c]
    BY <1>4 DEF CommitCurrencies
  <2>2. CASE c \in todo[t].update
    <3>1. facts[t][c] \in Fact /\ facts[t][c].cur # Blank
      BY <1>1, <1>4, <2>2 DEF TypeOK, Seen
    <3>2. table[c] \in Entry
      BY <1>1, <1>4, <2>2 DEF TypeOK, Known, RowForEveryEntry
    <3>3. Recoined(table[c], facts[t][c].cur) \in Entry
      BY <3>1, <3>2, DetectedType DEF Fact
    <3> QED BY <2>1, <2>2, <3>3, NoneAssumption
  <2>3. CASE c \notin todo[t].update
    BY <1>1, <2>1, <2>3 DEF TypeOK
  <2> QED BY <2>2, <2>3
<1>6. Stored \subseteq Stored'
  BY <1>5 DEF Stored
<1>7. TypeOK'
  <2>1. table' \in [Codes -> Entry \cup {None}]
    BY <1>5 DEF CommitCurrencies
  <2>2. pc' \in [Threads -> {"idle"} \cup LoadSteps \cup UpdateSteps]
    BY <1>1 DEF TypeOK, CommitCurrencies, Goto, LoadSteps
  <2> QED BY <1>1, <2>1, <2>2 DEF TypeOK, CommitCurrencies
<1>8. RowForEveryEntry'
  BY <1>1, <1>5 DEF RowForEveryEntry, CommitCurrencies
<1>9. WorkOK(t)' /\ FormOK(t)'
  BY <1>2, <1>3, <1>4 DEF WorkOK, FormOK, NameSteps, CurrencySteps, UpdateSteps
<1> QED BY <1>2, <1>3, <1>6, <1>7, <1>8, <1>9, StepKeeps

\* The copy takes the currencies; its entries are the same hotels.
LEMMA ApplyCurrenciesKeeps ==
  ASSUME EntriesInv, NEW t \in Threads, ApplyCurrencies(t)
  PROVE  EntriesInv'
<1>1. TypeOK /\ RowForEveryEntry /\ WorkOK(t)
  BY DEF EntriesInv
<1>2. pc'[t] = "render" /\ \A u \in Threads \ {t} : Untouched(u)
  BY <1>1 DEF TypeOK, ApplyCurrencies, Goto, Untouched
<1>3. Seen(t)' = Seen(t) /\ Stored' = Stored
  BY DEF ApplyCurrencies, Seen, Stored
<1>4. /\ todo[t].insert = {} /\ Seen(t) \subseteq Known
      /\ todo[t].update \subseteq {c \in Seen(t) : facts[t][c].cur # Blank}
  BY <1>1 DEF WorkOK, CurrencySteps, ApplyCurrencies
<1>5. \A c \in Codes : cache'[c] \in Entry \cup {None} /\ (cache[c] = None <=> cache'[c] = None)
  <2> SUFFICES ASSUME NEW c \in Codes
               PROVE  cache'[c] \in Entry \cup {None} /\ (cache[c] = None <=> cache'[c] = None)
    OBVIOUS
  <2>1. cache'[c] = IF c \in todo[t].update THEN Recoined(cache[c], facts[t][c].cur)
                    ELSE cache[c]
    BY <1>4 DEF ApplyCurrencies
  <2>2. CASE c \in todo[t].update
    <3>1. facts[t][c] \in Fact /\ facts[t][c].cur # Blank
      BY <1>1, <1>4, <2>2 DEF TypeOK, Seen
    <3>2. cache[c] \in Entry /\ cache[c] # None
      BY <1>1, <1>4, <2>2 DEF TypeOK, Known
    <3>3. Recoined(cache[c], facts[t][c].cur) \in Entry
      BY <3>1, <3>2, DetectedType DEF Fact
    <3> QED BY <2>1, <2>2, <3>2, <3>3, NoneAssumption
  <2>3. CASE c \notin todo[t].update
    BY <1>1, <2>1, <2>3 DEF TypeOK
  <2> QED BY <2>2, <2>3
<1>6. Known' = Known
  BY <1>5 DEF Known
<1>7. TypeOK'
  <2>1. cache' \in [Codes -> Entry \cup {None}]
    BY <1>5 DEF ApplyCurrencies
  <2>2. pc' \in [Threads -> {"idle"} \cup LoadSteps \cup UpdateSteps]
    BY <1>1 DEF TypeOK, ApplyCurrencies, Goto, LoadSteps
  <2> QED BY <1>1, <2>1, <2>2 DEF TypeOK, ApplyCurrencies
<1>8. RowForEveryEntry'
  BY <1>1, <1>5 DEF RowForEveryEntry, ApplyCurrencies
<1>9. WorkOK(t)' /\ FormOK(t)'
  BY <1>2, <1>3, <1>4, <1>6 DEF WorkOK, FormOK, NameSteps, CurrencySteps, UpdateSteps
<1> QED BY <1>2, <1>3, <1>6, <1>7, <1>8, <1>9, StepKeeps

\* The answer to a page load changes nothing but what is shown.
LEMMA RenderKeeps ==
  ASSUME EntriesInv, NEW t \in Threads, Render(t)
  PROVE  EntriesInv'
<1>1. TypeOK /\ RowForEveryEntry
  BY DEF EntriesInv
<1>2. shown' \in [Codes -> Shown \cup {None}]
  BY <1>1 DEF TypeOK, Render, Entry, Shown
<1>3. Finish(t) /\ RowForEveryEntry' /\ Known' = Known /\ Stored' = Stored
  BY <1>1 DEF Render, RowForEveryEntry, Known, Stored
<1>4. /\ table' \in [Codes -> Entry \cup {None}] /\ cache' \in [Codes -> Entry \cup {None}]
      /\ typed' \subseteq Codes
  BY <1>1 DEF TypeOK, Render
<1> QED BY <1>2, <1>3, <1>4, FinishKeeps

(***************************************************************************)
(* The steps of a Settings post, a failure and a restart.                  *)
(***************************************************************************)

\* A post names a hotel.
LEMMA PostPropertyKeeps ==
  ASSUME EntriesInv, NEW t \in Threads, NEW c \in Codes, NEW n \in FormNames,
         NEW cu \in FormCurrencies, PostProperty(t, c, n, cu)
  PROVE  EntriesInv'
<1>1. TypeOK
  BY DEF EntriesInv
<1>2. pc'[t] = "getRow" /\ form'[t].code = c /\ \A u \in Threads \ {t} : Untouched(u)
  BY <1>1 DEF TypeOK, PostProperty, Goto, Untouched
<1>3. RowForEveryEntry' /\ Known' = Known /\ Stored' = Stored
  BY DEF EntriesInv, RowForEveryEntry, PostProperty, Known, Stored
<1>4. TypeOK'
  <2>1. [code |-> c, name |-> n, cur |-> cu, row |-> None] \in Form
    BY DEF Form
  <2>2. form' \in [Threads -> Form]
    BY <1>1, <2>1 DEF TypeOK, PostProperty
  <2>3. pc' \in [Threads -> {"idle"} \cup LoadSteps \cup UpdateSteps]
    BY <1>1 DEF TypeOK, PostProperty, Goto, UpdateSteps
  <2>4. typed' \subseteq Codes
    BY <1>1 DEF TypeOK, PostProperty
  <2> QED BY <1>1, <2>2, <2>3, <2>4 DEF TypeOK, PostProperty
<1>5. WorkOK(t)' /\ FormOK(t)'
  BY <1>2 DEF WorkOK, FormOK, NameSteps, CurrencySteps, UpdateSteps
<1> QED BY <1>2, <1>3, <1>4, <1>5, StepKeeps

\* The row that update loads stays in the table.
LEMMA GetRowKeeps ==
  ASSUME EntriesInv, NEW t \in Threads, GetRow(t)
  PROVE  EntriesInv'
<1>1. TypeOK /\ FormOK(t)
  BY DEF EntriesInv
<1>2. form[t].code \in Codes
  BY <1>1 DEF FormOK, UpdateSteps, GetRow
<1>3. form[t] \in Form /\ table[form[t].code] \in Entry \cup {None}
  BY <1>1, <1>2 DEF TypeOK
<1>4. form' = [form EXCEPT ![t].row = table[form[t].code]]
  BY DEF GetRow
<1>5. form'[t].code = form[t].code /\ form'[t].row = table[form[t].code]
  BY <1>1, <1>3, <1>4 DEF TypeOK, Form
<1>6. pc'[t] = "commitUpdate" /\ \A u \in Threads \ {t} : Untouched(u)
  BY <1>1 DEF TypeOK, GetRow, Goto, Untouched
<1>7. RowForEveryEntry' /\ Known' = Known /\ Stored' = Stored
  BY DEF EntriesInv, RowForEveryEntry, GetRow, Known, Stored
<1>8. TypeOK'
  <2>1. [form[t] EXCEPT !.row = table[form[t].code]] \in Form
    BY <1>3 DEF Form
  <2>2. form' \in [Threads -> Form]
    BY <1>1, <1>4, <2>1 DEF TypeOK
  <2>3. pc' \in [Threads -> {"idle"} \cup LoadSteps \cup UpdateSteps]
    BY <1>1 DEF TypeOK, GetRow, Goto, UpdateSteps
  <2> QED BY <1>1, <2>2, <2>3 DEF TypeOK, GetRow
<1>9. WorkOK(t)' /\ FormOK(t)'
  BY <1>2, <1>5, <1>6, <1>7 DEF WorkOK, FormOK, NameSteps, CurrencySteps, UpdateSteps, Stored
<1> QED BY <1>6, <1>7, <1>8, <1>9, StepKeeps

\* update leaves a row for its hotel, whatever another post has written meanwhile.
LEMMA CommitUpdateKeeps ==
  ASSUME EntriesInv, NEW t \in Threads, CommitUpdate(t)
  PROVE  EntriesInv'
<1>1. TypeOK /\ RowForEveryEntry /\ FormOK(t)
  BY DEF EntriesInv
<1> DEFINE c == form[t].code
           old == form[t].row
           new == View(t)
           stored == IF old = None THEN new
                     ELSE [f \in DOMAIN new |-> IF new[f] # old[f] THEN new[f] ELSE table[c][f]]
<1>2. c \in Codes /\ (old # None => table[c] # None)
  BY <1>1 DEF FormOK, UpdateSteps, CommitUpdate, Stored
<1>3. form[t] \in Form
  BY <1>1 DEF TypeOK
<1>4. new \in Entry
  BY <1>3, EditedType DEF View, Form
<1>5. stored \in Entry
  <2>1. CASE old = None
    BY <1>4, <2>1
  <2>2. CASE old # None
    <3>1. old \in Entry /\ table[c] \in Entry
      BY <1>1, <1>2, <1>3, <2>2 DEF Form, TypeOK
    <3> HIDE DEF new, old
    <3> QED BY <1>4, <2>2, <3>1, MergedType
  <2> QED BY <2>1, <2>2
<1>6. table' = [table EXCEPT ![c] = stored]
  BY DEF CommitUpdate
<1>7. pc'[t] = "assignUpdate" /\ \A u \in Threads \ {t} : Untouched(u)
  BY <1>1 DEF TypeOK, CommitUpdate, Goto, Untouched
<1>8. pc' \in [Threads -> {"idle"} \cup LoadSteps \cup UpdateSteps]
  BY <1>1 DEF TypeOK, CommitUpdate, Goto, UpdateSteps
<1>9. form' = form /\ cache' = cache
  BY DEF CommitUpdate
<1> HIDE DEF stored
<1>10. TypeOK'
  <2>1. table' \in [Codes -> Entry \cup {None}]
    BY <1>1, <1>5, <1>6 DEF TypeOK
  <2> QED BY <1>1, <1>8, <2>1 DEF TypeOK, CommitUpdate
<1>11. Known' = Known /\ Stored \subseteq Stored' /\ c \in Stored'
  BY <1>1, <1>2, <1>5, <1>6, <1>9, NoneAssumption DEF TypeOK, Known, Stored
<1>12. RowForEveryEntry'
  BY <1>1, <1>9, <1>11 DEF RowForEveryEntry, Stored
<1>13. WorkOK(t)' /\ FormOK(t)'
  BY <1>2, <1>7, <1>9, <1>11 DEF WorkOK, FormOK, NameSteps, CurrencySteps, UpdateSteps
<1> QED BY <1>7, <1>10, <1>11, <1>12, <1>13, StepKeeps

\* update's view reaches the copy only where there is a row.
LEMMA AssignUpdateKeeps ==
  ASSUME EntriesInv, NEW t \in Threads, AssignUpdate(t)
  PROVE  EntriesInv'
<1>1. TypeOK /\ RowForEveryEntry /\ FormOK(t)
  BY DEF EntriesInv
<1> DEFINE c == form[t].code
<1>2. c \in Codes /\ table[c] # None
  BY <1>1 DEF FormOK, UpdateSteps, AssignUpdate, Stored
<1>3. View(t) \in Entry
  <2>1. form[t] \in Form
    BY <1>1 DEF TypeOK
  <2> QED BY <2>1, EditedType DEF View, Form
<1>4. cache' = [cache EXCEPT ![c] = View(t)] /\ table' = table
  BY DEF AssignUpdate
<1>5. cache' \in [Codes -> Entry \cup {None}]
  BY <1>1, <1>3, <1>4 DEF TypeOK
<1>6. Known \subseteq Known' /\ Stored' = Stored
  BY <1>1, <1>2, <1>3, <1>4, NoneAssumption DEF TypeOK, Known, Stored
<1>7. RowForEveryEntry'
  BY <1>1, <1>2, <1>4 DEF TypeOK, RowForEveryEntry
<1>8. Finish(t) /\ shown' = shown /\ typed' = typed
  BY DEF AssignUpdate
<1> QED BY <1>1, <1>4, <1>5, <1>6, <1>7, <1>8, FinishKeeps DEF TypeOK

\* A transaction that raises leaves the table and the copy as they were.
LEMMA FailKeeps ==
  ASSUME EntriesInv, NEW t \in Threads, Fail(t)
  PROVE  EntriesInv'
<1>1. TypeOK /\ RowForEveryEntry
  BY DEF EntriesInv
<1>2. Finish(t) /\ UNCHANGED <<table, cache, shown, typed>>
  BY DEF Fail
<1>3. RowForEveryEntry' /\ Known' = Known /\ Stored' = Stored
  BY <1>1, <1>2 DEF RowForEveryEntry, Known, Stored
<1> QED BY <1>1, <1>2, <1>3, FinishKeeps DEF TypeOK

\* A restart drops what every thread has decided and reads the table.
LEMMA RestartKeeps ==
  ASSUME EntriesInv, Restart
  PROVE  EntriesInv'
<1>1. TypeOK
  BY DEF EntriesInv
<1>2. TypeOK'
  <2>1. NoFacts \in [Codes -> Fact \cup {None}]
    BY DEF NoFacts
  <2>2. NoWork \in [insert : SUBSET Codes, update : SUBSET Codes]
    BY DEF NoWork
  <2>3. NoForm \in Form
    BY DEF NoForm, Form, FormNames, FormCurrencies
  <2> QED BY <1>1, <2>1, <2>2, <2>3 DEF TypeOK, Restart
<1>3. RowForEveryEntry'
  BY DEF RowForEveryEntry, Restart
<1>4. ASSUME NEW u \in Threads  PROVE WorkOK(u)' /\ FormOK(u)'
  <2>1. pc'[u] = "idle"
    BY DEF Restart
  <2> QED BY <2>1 DEF WorkOK, FormOK, NameSteps, CurrencySteps, UpdateSteps
<1> QED BY <1>2, <1>3, <1>4 DEF EntriesInv

(***************************************************************************)
(* The theorems.                                                           *)
(***************************************************************************)

\* Every step of every thread, and a restart, keeps the invariant.
LEMMA NextEntriesInv == EntriesInv /\ [Next]_vars => EntriesInv'
<1> SUFFICES ASSUME EntriesInv, [Next]_vars PROVE EntriesInv'
  OBVIOUS
<1>1. CASE Restart
  BY <1>1, RestartKeeps
<1>2. ASSUME NEW t \in Threads, NEW fs \in [Codes -> Fact \cup {None}], LoadPage(t, fs)
      PROVE  EntriesInv'
  BY <1>2, LoadPageKeeps
<1>3. ASSUME NEW t \in Threads, DecideNames(t) \/ CommitNames(t) \/ ApplyNames(t)
      PROVE  EntriesInv'
  BY <1>3, DecideNamesKeeps, CommitNamesKeeps, ApplyNamesKeeps
<1>4. ASSUME NEW t \in Threads,
             DecideCurrencies(t) \/ CommitCurrencies(t) \/ ApplyCurrencies(t)
      PROVE  EntriesInv'
  BY <1>4, DecideCurrenciesKeeps, CommitCurrenciesKeeps, ApplyCurrenciesKeeps
<1>5. ASSUME NEW t \in Threads, Render(t)  PROVE EntriesInv'
  BY <1>5, RenderKeeps
<1>6. ASSUME NEW t \in Threads, NEW c \in Codes, NEW n \in FormNames,
             NEW cu \in FormCurrencies, PostProperty(t, c, n, cu)
      PROVE  EntriesInv'
  BY <1>6, PostPropertyKeeps
<1>7. ASSUME NEW t \in Threads, GetRow(t) \/ CommitUpdate(t) \/ AssignUpdate(t)
      PROVE  EntriesInv'
  BY <1>7, GetRowKeeps, CommitUpdateKeeps, AssignUpdateKeeps
<1>8. ASSUME NEW t \in Threads, Fail(t)  PROVE EntriesInv'
  BY <1>8, FailKeeps
<1>9. CASE UNCHANGED vars
  <2>1. \A t \in Threads : Seen(t)' = Seen(t)
    BY <1>9 DEF vars, Seen
  <2>2. Known' = Known /\ Stored' = Stored
    BY <1>9 DEF vars, Known, Stored
  <2>3. TypeOK' /\ RowForEveryEntry'
    BY <1>9 DEF EntriesInv, vars, TypeOK, RowForEveryEntry
  <2>4. ASSUME NEW t \in Threads  PROVE WorkOK(t)' /\ FormOK(t)'
    BY <1>9, <2>1, <2>2 DEF EntriesInv, vars, WorkOK, FormOK
  <2> QED BY <2>3, <2>4 DEF EntriesInv
<1> QED BY <1>1, <1>2, <1>3, <1>4, <1>5, <1>6, <1>7, <1>8, <1>9 DEF Next

\* The invariant holds always.
LEMMA AlwaysEntriesInv == Spec => []EntriesInv
  BY InitEntriesInv, NextEntriesInv, PTL DEF Spec

\* Every variable keeps its type, for every set of threads, hotels, names and
\* currencies: each column of a row has a legal value after any post and any
\* detection (property_store.py:88-174).
THEOREM TypeCorrect == Spec => []TypeOK
<1>1. EntriesInv => TypeOK
  BY DEF EntriesInv
<1> QED BY <1>1, AlwaysEntriesInv, PTL

\* Every entry of the copy has its row, so no page load and no Settings post ever
\* meets a missing one (property_store.py:103-105, 136-138), however many threads
\* there are, wherever transactions fail and whenever the process dies.
THEOREM EntriesHaveRows == Spec => []RowForEveryEntry
<1>1. EntriesInv => RowForEveryEntry
  BY DEF EntriesInv
<1> QED BY <1>1, AlwaysEntriesInv, PTL

\* The currency pass never has a hotel to insert: its branch for rows queued by the
\* names pass (property_store.py:131-135) is dead code.
THEOREM CurrencyNeverInserts == Spec => []CurrencyInsertIsDead
<1>1. EntriesInv => CurrencyInsertIsDead
  BY DEF EntriesInv, WorkOK, CurrencySteps, CurrencyInsertIsDead
<1> QED BY <1>1, AlwaysEntriesInv, PTL

(***************************************************************************)
(* One request at a time: the deployed service                             *)
(* (src/deployment/systemd/morning-shift.service).                         *)
(***************************************************************************)

OneThread == \A t, u \in Threads : t = u

\* What the names pass has decided is all there is to decide, and nothing fixed.
NamesDecided(t) ==
  /\ \A c \in todo[t].update : ~NameFixed(cache[c])
  /\ \A c \in Seen(t) : facts[t][c].name # Blank =>
       c \in todo[t].insert \cup todo[t].update \/ NameFixed(cache[c])

CurrenciesDecided(t) ==
  /\ \A c \in todo[t].update : ~CurrencyFixed(cache[c])
  /\ \A c \in Seen(t) : facts[t][c].cur # Blank =>
       c \in todo[t].update \/ CurrencyFixed(cache[c])

NamesUsed(t) == \A c \in Seen(t) : facts[t][c].name # Blank => NameFixed(cache[c])
CurrenciesUsed(t) == \A c \in Seen(t) : facts[t][c].cur # Blank => CurrencyFixed(cache[c])

\* The entry that an apply step is about to make of the entry of c.
WithName(t, c) ==
  IF c \in todo[t].insert THEN NamedEntry(facts[t][c].name)
  ELSE IF c \in todo[t].update THEN Renamed(cache[c], facts[t][c].name)
  ELSE cache[c]
WithCurrency(t, c) ==
  IF c \in todo[t].update THEN Recoined(cache[c], facts[t][c].cur) ELSE cache[c]

\* The copy is the table but between a commit and the assignments that follow it; then
\* the assignments make it so.
PassOK(t) ==
  /\ pc[t] \notin {"applyNames", "applyCurrencies", "assignUpdate"} => cache = table
  /\ pc[t] \in NameSteps => NamesDecided(t)
  /\ pc[t] = "applyNames" => table = [c \in Codes |-> WithName(t, c)]
  /\ pc[t] \in CurrencySteps \cup {"currencies", "render"} => NamesUsed(t)
  /\ pc[t] \in CurrencySteps => CurrenciesDecided(t)
  /\ pc[t] = "applyCurrencies" => table = [c \in Codes |-> WithCurrency(t, c)]
  /\ pc[t] = "render" => CurrenciesUsed(t)
  /\ pc[t] = "commitUpdate" => form[t].row = table[form[t].code]
  /\ pc[t] = "assignUpdate" => table = [cache EXCEPT ![form[t].code] = View(t)]

CopyInv ==
  /\ OneThread /\ EntriesInv
  /\ \A t \in Threads : PassOK(t)
  /\ Threads = {} => cache = table

\* What a detection sets, and what it leaves.
LEMMA DetectedFields ==
  ASSUME NEW e \in Entry, NEW n \in Names, NEW cu \in Currencies
  PROVE  /\ NameFixed(Renamed(e, n)) /\ CurrencyFixed(Recoined(e, cu))
         /\ NameFixed(NamedEntry(n))
         /\ Renamed(e, n).cur = e.cur /\ Renamed(e, n).curSrc = e.curSrc
         /\ Recoined(e, cu).name = e.name /\ Recoined(e, cu).nameSrc = e.nameSrc
         /\ NameFixed(e) => NameFixed(Recoined(e, cu))
<1>1. NameFixed(Renamed(e, n)) /\ Renamed(e, n).cur = e.cur /\ Renamed(e, n).curSrc = e.curSrc
  BY DEF Entry, Renamed, NameFixed
<1>2. /\ CurrencyFixed(Recoined(e, cu)) /\ (NameFixed(e) => NameFixed(Recoined(e, cu)))
      /\ Recoined(e, cu).name = e.name /\ Recoined(e, cu).nameSrc = e.nameSrc
  BY DEF Entry, Recoined, NameFixed, CurrencyFixed
<1>3. NamedEntry(n).nameSet = TRUE
  BY PropertyAssumptions DEF NamedEntry, DefaultEntry
<1> QED BY <1>1, <1>2, <1>3 DEF NameFixed

\* A new database (db.py:44-48).
LEMMA InitCopyInv == OneThread /\ Init => CopyInv
<1> SUFFICES ASSUME OneThread, Init PROVE CopyInv
  OBVIOUS
<1>1. EntriesInv
  BY InitEntriesInv
<1>2. cache = table /\ \A t \in Threads : pc[t] = "idle"
  BY DEF Init
<1> QED BY <1>1, <1>2 DEF CopyInv, PassOK, NameSteps, CurrencySteps

\* t is the only thread: what holds of it holds of all.
LEMMA OnlyOne ==
  ASSUME CopyInv, NEW t \in Threads, EntriesInv', PassOK(t)'
  PROVE  CopyInv'
BY DEF CopyInv, OneThread

\* A request ends and leaves the copy and the table the same.
LEMMA FinishCopy ==
  ASSUME CopyInv, NEW t \in Threads, Finish(t), EntriesInv', cache' = table'
  PROVE  CopyInv'
<1>1. pc'[t] = "idle"
  BY DEF CopyInv, EntriesInv, TypeOK, Finish, Goto
<1>2. PassOK(t)'
  BY <1>1 DEF PassOK, NameSteps, CurrencySteps
<1> QED BY <1>2, OnlyOne

\* The names pass: decided from a copy that is the table.
LEMMA DecideNamesCopy ==
  ASSUME CopyInv, NEW t \in Threads, DecideNames(t), EntriesInv'
  PROVE  CopyInv'
<1> DEFINE ins == {c \in Seen(t) : cache[c] = None}
           ups == {c \in Seen(t) \ ins : NameWanted(c, facts[t][c].name)}
<1>1. TypeOK /\ PassOK(t) /\ pc[t] = "names"
  BY DEF CopyInv, EntriesInv, DecideNames
<1>2. /\ todo' = [todo EXCEPT ![t] = [insert |-> ins, update |-> ups]]
      /\ UNCHANGED <<table, cache, facts>>
  BY DEF DecideNames
<1>3. todo'[t].insert = ins /\ todo'[t].update = ups
  BY <1>1, <1>2 DEF TypeOK
<1>4. pc'[t] \in {"currencies", "commitNames"} /\ (pc'[t] = "currencies" => ins \cup ups = {})
  BY <1>1 DEF TypeOK, DecideNames, Goto
<1>5. cache = table
  BY <1>1 DEF PassOK
<1>6. Seen(t)' = Seen(t) /\ Seen(t) \subseteq Codes
  BY <1>2 DEF Seen
<1>7. \A c \in ups : ~NameFixed(cache[c])
  BY DEF NameWanted, NameFixed
<1>8. \A c \in Seen(t) : facts[t][c].name # Blank => c \in ins \cup ups \/ NameFixed(cache[c])
  <2> SUFFICES ASSUME NEW c \in Seen(t), facts[t][c].name # Blank, c \notin ins, c \notin ups
               PROVE  NameFixed(cache[c])
    OBVIOUS
  <2>1. cache[c] \in Entry
    BY <1>1, <1>6 DEF TypeOK
  <2> QED BY <2>1 DEF NameWanted, NameFixed, Entry, Source
<1> HIDE DEF ins, ups
<1>9. NamesDecided(t)'
  BY <1>2, <1>3, <1>6, <1>7, <1>8 DEF NamesDecided
<1>10. pc'[t] = "currencies" => NamesUsed(t)'
  BY <1>2, <1>4, <1>6, <1>8 DEF NamesUsed
<1>11. PassOK(t)'
  BY <1>2, <1>4, <1>5, <1>9, <1>10 DEF PassOK, NameSteps, CurrencySteps
<1> QED BY <1>11, OnlyOne

\* The table takes what the copy is about to take.
LEMMA CommitNamesCopy ==
  ASSUME CopyInv, NEW t \in Threads, CommitNames(t), EntriesInv'
  PROVE  CopyInv'
<1>1. PassOK(t) /\ pc[t] = "commitNames" /\ pc'[t] = "applyNames"
  BY DEF CopyInv, EntriesInv, TypeOK, CommitNames, Goto
<1>2. UNCHANGED <<cache, facts, todo>>
  BY DEF CommitNames
<1>3. cache = table /\ NamesDecided(t)
  BY <1>1 DEF PassOK, NameSteps
<1>4. table' = [c \in Codes |-> WithName(t, c)]
  BY <1>3 DEF CommitNames, WithName
<1>5. \A c \in Codes : WithName(t, c)' = WithName(t, c)
  BY <1>2 DEF WithName
<1>6. NamesDecided(t)'
  BY <1>2, <1>3 DEF NamesDecided, Seen
<1>7. PassOK(t)'
  BY <1>1, <1>4, <1>5, <1>6 DEF PassOK, NameSteps, CurrencySteps
<1> QED BY <1>7, OnlyOne

\* Then the copy is the table again, and the names of the report are used.
LEMMA ApplyNamesCopy ==
  ASSUME CopyInv, NEW t \in Threads, ApplyNames(t), EntriesInv'
  PROVE  CopyInv'
<1>1. TypeOK /\ WorkOK(t) /\ PassOK(t) /\ pc[t] = "applyNames" /\ pc'[t] = "currencies"
  BY DEF CopyInv, EntriesInv, TypeOK, ApplyNames, Goto
<1>2. UNCHANGED <<table, facts, todo>> /\ Seen(t)' = Seen(t) /\ Seen(t) \subseteq Codes
  BY DEF ApplyNames, Seen
<1>3. NamesDecided(t) /\ table = [c \in Codes |-> WithName(t, c)]
  BY <1>1 DEF PassOK, NameSteps
<1>4. cache' = [c \in Codes |-> WithName(t, c)]
  BY DEF ApplyNames, WithName
<1>5. ASSUME NEW c \in Seen(t), facts[t][c].name # Blank PROVE NameFixed(cache'[c])
  <2>1. cache'[c] = WithName(t, c) /\ facts[t][c].name \in Names
    BY <1>1, <1>2, <1>4, <1>5 DEF TypeOK, Seen, Fact
  <2>2. CASE c \in todo[t].insert
    <3>1. NameFixed(NamedEntry(facts[t][c].name))
      BY <2>1, PropertyAssumptions, DetectedType, DetectedFields
    <3> QED BY <2>1, <2>2, <3>1 DEF WithName
  <2>3. CASE c \notin todo[t].insert /\ c \in todo[t].update
    <3>1. cache[c] \in Entry
      BY <1>1, <2>3 DEF WorkOK, NameSteps, Known, TypeOK
    <3>2. NameFixed(Renamed(cache[c], facts[t][c].name))
      BY <2>1, <3>1, PropertyAssumptions, DetectedFields
    <3> QED BY <2>1, <2>3, <3>2 DEF WithName
  <2>4. CASE c \notin todo[t].insert /\ c \notin todo[t].update
    BY <1>3, <1>5, <2>1, <2>4 DEF NamesDecided, WithName
  <2> QED BY <2>2, <2>3, <2>4
<1>6. NamesUsed(t)'
  BY <1>2, <1>5 DEF NamesUsed
<1>7. cache' = table'
  BY <1>2, <1>3, <1>4
<1>8. PassOK(t)'
  BY <1>1, <1>6, <1>7 DEF PassOK, NameSteps, CurrencySteps
<1> QED BY <1>8, OnlyOne

\* The currency pass: decided from a copy that is the table, with the names used.
LEMMA DecideCurrenciesCopy ==
  ASSUME CopyInv, NEW t \in Threads, DecideCurrencies(t), EntriesInv'
  PROVE  CopyInv'
<1> DEFINE ins == {c \in Seen(t) : cache[c] = None}
           ups == {c \in Seen(t) \ ins : CurrencyWanted(c, facts[t][c].cur)}
<1>1. TypeOK /\ WorkOK(t) /\ PassOK(t) /\ pc[t] = "currencies"
  BY DEF CopyInv, EntriesInv, DecideCurrencies
<1>2. /\ todo' = [todo EXCEPT ![t] = [insert |-> ins, update |-> ups]]
      /\ UNCHANGED <<table, cache, facts>>
  BY DEF DecideCurrencies
<1>3. todo'[t].update = ups
  BY <1>1, <1>2 DEF TypeOK
<1>4. pc'[t] \in {"render", "commitCurrencies"} /\ (pc'[t] = "render" => ups = {})
  BY <1>1 DEF TypeOK, DecideCurrencies, Goto
<1>5. cache = table /\ NamesUsed(t)
  BY <1>1 DEF PassOK
<1>6. Seen(t)' = Seen(t) /\ Seen(t) \subseteq Codes /\ ins = {}
  BY <1>1, <1>2 DEF Seen, WorkOK, Known
<1>7. \A c \in ups : ~CurrencyFixed(cache[c])
  BY DEF CurrencyWanted, CurrencyFixed
<1>8. \A c \in Seen(t) : facts[t][c].cur # Blank => c \in ups \/ CurrencyFixed(cache[c])
  <2> SUFFICES ASSUME NEW c \in Seen(t), facts[t][c].cur # Blank, c \notin ups
               PROVE  CurrencyFixed(cache[c])
    OBVIOUS
  <2>1. cache[c] \in Entry
    BY <1>1, <1>6 DEF TypeOK
  <2> QED BY <1>6, <2>1 DEF CurrencyWanted, CurrencyFixed, Entry, Source
<1> HIDE DEF ins, ups
<1>9. CurrenciesDecided(t)' /\ NamesUsed(t)'
  BY <1>2, <1>3, <1>5, <1>6, <1>7, <1>8 DEF CurrenciesDecided, NamesUsed
<1>10. pc'[t] = "render" => CurrenciesUsed(t)'
  BY <1>2, <1>4, <1>6, <1>8 DEF CurrenciesUsed
<1>11. PassOK(t)'
  BY <1>2, <1>4, <1>5, <1>9, <1>10 DEF PassOK, NameSteps, CurrencySteps
<1> QED BY <1>11, OnlyOne

\* The table takes the currencies that the copy is about to take.
LEMMA CommitCurrenciesCopy ==
  ASSUME CopyInv, NEW t \in Threads, CommitCurrencies(t), EntriesInv'
  PROVE  CopyInv'
<1>1. WorkOK(t) /\ PassOK(t) /\ pc[t] = "commitCurrencies" /\ pc'[t] = "applyCurrencies"
  BY DEF CopyInv, EntriesInv, TypeOK, CommitCurrencies, Goto
<1>2. UNCHANGED <<cache, facts, todo>>
  BY DEF CommitCurrencies
<1>3. cache = table /\ NamesUsed(t) /\ CurrenciesDecided(t) /\ todo[t].insert = {}
  BY <1>1 DEF PassOK, WorkOK, CurrencySteps
<1>4. table' = [c \in Codes |-> WithCurrency(t, c)]
  BY <1>3 DEF CommitCurrencies, WithCurrency
<1>5. \A c \in Codes : WithCurrency(t, c)' = WithCurrency(t, c)
  BY <1>2 DEF WithCurrency
<1>6. NamesUsed(t)' /\ CurrenciesDecided(t)'
  BY <1>2, <1>3 DEF NamesUsed, CurrenciesDecided, Seen
<1>7. PassOK(t)'
  BY <1>1, <1>4, <1>5, <1>6 DEF PassOK, NameSteps, CurrencySteps
<1> QED BY <1>7, OnlyOne

\* Then the copy is the table again, and the report has been used.
LEMMA ApplyCurrenciesCopy ==
  ASSUME CopyInv, NEW t \in Threads, ApplyCurrencies(t), EntriesInv'
  PROVE  CopyInv'
<1>1. /\ TypeOK /\ WorkOK(t) /\ PassOK(t)
      /\ pc[t] = "applyCurrencies" /\ pc'[t] = "render"
  BY DEF CopyInv, EntriesInv, TypeOK, ApplyCurrencies, Goto
<1>2. UNCHANGED <<table, facts, todo>> /\ Seen(t)' = Seen(t) /\ Seen(t) \subseteq Codes
  BY DEF ApplyCurrencies, Seen
<1>3. /\ NamesUsed(t) /\ CurrenciesDecided(t) /\ todo[t].insert = {} /\ Seen(t) \subseteq Known
      /\ table = [c \in Codes |-> WithCurrency(t, c)]
  BY <1>1 DEF PassOK, WorkOK, CurrencySteps
<1>4. cache' = [c \in Codes |-> WithCurrency(t, c)]
  BY <1>3 DEF ApplyCurrencies, WithCurrency
<1>5. ASSUME NEW c \in Seen(t)
      PROVE  /\ facts[t][c].name # Blank => NameFixed(cache'[c])
             /\ facts[t][c].cur # Blank => CurrencyFixed(cache'[c])
  <2>1. cache'[c] = WithCurrency(t, c) /\ cache[c] \in Entry /\ facts[t][c] \in Fact
    BY <1>1, <1>2, <1>3, <1>4 DEF TypeOK, Seen, Known
  <2>2. facts[t][c].name # Blank => NameFixed(cache[c])
    BY <1>3 DEF NamesUsed
  <2>3. CASE c \in todo[t].update
    <3>1. facts[t][c].cur \in Currencies
      BY <1>1, <2>1, <2>3 DEF WorkOK, CurrencySteps, Fact
    <3>2. /\ CurrencyFixed(Recoined(cache[c], facts[t][c].cur))
          /\ NameFixed(cache[c]) => NameFixed(Recoined(cache[c], facts[t][c].cur))
      BY <2>1, <3>1, DetectedFields, PropertyAssumptions DEF Recoined, Entry, NameFixed, CurrencyFixed
    <3> QED BY <2>1, <2>2, <2>3, <3>2 DEF WithCurrency
  <2>4. CASE c \notin todo[t].update
    BY <1>3, <2>1, <2>2, <2>4 DEF CurrenciesDecided, WithCurrency
  <2> QED BY <2>3, <2>4
<1>6. NamesUsed(t)' /\ CurrenciesUsed(t)'
  BY <1>2, <1>5 DEF NamesUsed, CurrenciesUsed
<1>7. cache' = table'
  BY <1>2, <1>3, <1>4
<1>8. PassOK(t)'
  BY <1>1, <1>6, <1>7 DEF PassOK, NameSteps, CurrencySteps
<1> QED BY <1>8, OnlyOne

\* A page load or a post begins with the copy as the last request left it.
LEMMA BeginCopy ==
  ASSUME CopyInv, NEW t \in Threads, EntriesInv',
         \/ \E fs \in [Codes -> Fact \cup {None}] : LoadPage(t, fs)
         \/ \E c \in Codes, n \in FormNames, cu \in FormCurrencies : PostProperty(t, c, n, cu)
  PROVE  CopyInv'
<1>1. PassOK(t) /\ pc[t] = "idle" /\ pc'[t] \in {"names", "getRow"} /\ UNCHANGED <<table, cache>>
  BY DEF CopyInv, EntriesInv, TypeOK, LoadPage, PostProperty, Goto
<1>2. PassOK(t)'
  BY <1>1 DEF PassOK, NameSteps, CurrencySteps
<1> QED BY <1>2, OnlyOne

\* A post loads the row of its hotel.
LEMMA GetRowCopy ==
  ASSUME CopyInv, NEW t \in Threads, GetRow(t), EntriesInv'
  PROVE  CopyInv'
<1>1. PassOK(t) /\ pc[t] = "getRow" /\ pc'[t] = "commitUpdate" /\ UNCHANGED <<table, cache>>
  BY DEF CopyInv, EntriesInv, TypeOK, GetRow, Goto
<1>2. form'[t].row = table[form[t].code] /\ form'[t].code = form[t].code
  BY DEF CopyInv, EntriesInv, TypeOK, Form, GetRow
<1>3. PassOK(t)'
  BY <1>1, <1>2 DEF PassOK, NameSteps, CurrencySteps
<1> QED BY <1>3, OnlyOne

\* The columns of the UPDATE and those it leaves out make the view that the copy gets.
LEMMA CommitUpdateCopy ==
  ASSUME CopyInv, NEW t \in Threads, CommitUpdate(t), EntriesInv'
  PROVE  CopyInv'
<1> DEFINE c == form[t].code
           old == form[t].row
           new == View(t)
<1>1. /\ TypeOK /\ FormOK(t) /\ PassOK(t)
      /\ pc[t] = "commitUpdate" /\ pc'[t] = "assignUpdate" /\ UNCHANGED <<cache, form>>
  BY DEF CopyInv, EntriesInv, TypeOK, CommitUpdate, Goto
<1>2. cache = table /\ old = table[c] /\ c \in Codes
  BY <1>1 DEF PassOK, FormOK, UpdateSteps
<1>3. new \in Entry
  BY <1>1, EditedType DEF TypeOK, View, Form
<1>4. table' = [table EXCEPT ![c] = new]
  <2>1. table' = [table EXCEPT ![c] =
          IF old = None THEN new
          ELSE [f \in DOMAIN new |-> IF new[f] # old[f] THEN new[f] ELSE table[c][f]]]
    BY DEF CommitUpdate
  <2>2. [f \in DOMAIN new |-> IF new[f] # old[f] THEN new[f] ELSE table[c][f]] = new
    <3> HIDE DEF new
    <3>1. [f \in DOMAIN new |-> IF new[f] # old[f] THEN new[f] ELSE table[c][f]]
            = [f \in DOMAIN new |-> new[f]]
      BY <1>2
    <3>2. new = [f \in DOMAIN new |-> new[f]]
      BY <1>3 DEF Entry
    <3> QED BY <3>1, <3>2
  <2> QED BY <2>1, <2>2
<1>5. View(t)' = View(t)
  BY <1>1 DEF View, Edited
<1>6. PassOK(t)'
  BY <1>1, <1>2, <1>4, <1>5 DEF PassOK, NameSteps, CurrencySteps
<1> QED BY <1>6, OnlyOne

\* A request ends: a page is rendered, a post has reached the copy, or a transaction failed.
LEMMA EndCopy ==
  ASSUME CopyInv, NEW t \in Threads, EntriesInv', Render(t) \/ AssignUpdate(t) \/ Fail(t)
  PROVE  CopyInv'
<1>1. PassOK(t)
  BY DEF CopyInv
<1>2. CASE Render(t) \/ Fail(t)
  <2>1. Finish(t) /\ UNCHANGED <<table, cache>> /\ cache = table
    BY <1>1, <1>2 DEF Render, Fail, PassOK
  <2> QED BY <2>1, FinishCopy
<1>3. CASE AssignUpdate(t)
  <2>1. Finish(t) /\ cache' = table'
    BY <1>1, <1>3 DEF AssignUpdate, PassOK
  <2> QED BY <2>1, FinishCopy
<1> QED BY <1>2, <1>3

\* The constructor reads the table.
LEMMA RestartCopy ==
  ASSUME CopyInv, Restart, EntriesInv'
  PROVE  CopyInv'
<1>1. cache' = table' /\ \A t \in Threads : pc'[t] = "idle"
  BY DEF Restart
<1>2. \A t \in Threads : PassOK(t)'
  BY <1>1 DEF PassOK, NameSteps, CurrencySteps
<1> QED BY <1>1, <1>2 DEF CopyInv, OneThread

\* Every step of the one thread, and a restart, keeps the invariant.
LEMMA NextCopyInv == CopyInv /\ [Next]_vars => CopyInv'
<1> SUFFICES ASSUME CopyInv, [Next]_vars PROVE CopyInv'
  OBVIOUS
<1>1. EntriesInv'
  BY NextEntriesInv DEF CopyInv
<1>2. CASE UNCHANGED vars
  <2>1. ASSUME NEW t \in Threads PROVE PassOK(t)'
    <3>1. PassOK(t)
      BY DEF CopyInv
    <3>2. Seen(t)' = Seen(t) /\ View(t)' = View(t)
      BY <1>2 DEF vars, Seen, View, Edited
    <3>3. \A c \in Codes : WithName(t, c)' = WithName(t, c) /\ WithCurrency(t, c)' = WithCurrency(t, c)
      BY <1>2 DEF vars, WithName, WithCurrency
    <3> QED BY <1>2, <3>1, <3>2, <3>3
        DEF vars, PassOK, NamesDecided, CurrenciesDecided, NamesUsed, CurrenciesUsed
  <2> QED BY <1>1, <1>2, <2>1 DEF CopyInv, OneThread, vars
<1>3. CASE Restart
  BY <1>1, <1>3, RestartCopy
<1>4. ASSUME NEW t \in Threads,
             \/ \E fs \in [Codes -> Fact \cup {None}] : LoadPage(t, fs)
             \/ \E c \in Codes, n \in FormNames, cu \in FormCurrencies : PostProperty(t, c, n, cu)
      PROVE  CopyInv'
  BY <1>1, <1>4, BeginCopy
<1>5. ASSUME NEW t \in Threads, DecideNames(t) \/ CommitNames(t) \/ ApplyNames(t)
      PROVE  CopyInv'
  BY <1>1, <1>5, DecideNamesCopy, CommitNamesCopy, ApplyNamesCopy
<1>6. ASSUME NEW t \in Threads,
             DecideCurrencies(t) \/ CommitCurrencies(t) \/ ApplyCurrencies(t)
      PROVE  CopyInv'
  BY <1>1, <1>6, DecideCurrenciesCopy, CommitCurrenciesCopy, ApplyCurrenciesCopy
<1>7. ASSUME NEW t \in Threads, GetRow(t) \/ CommitUpdate(t)
      PROVE  CopyInv'
  BY <1>1, <1>7, GetRowCopy, CommitUpdateCopy
<1>8. ASSUME NEW t \in Threads, Render(t) \/ AssignUpdate(t) \/ Fail(t)
      PROVE  CopyInv'
  BY <1>1, <1>8, EndCopy
<1> QED BY <1>2, <1>3, <1>4, <1>5, <1>6, <1>7, <1>8 DEF Next

\* The invariant holds of every behaviour of the deployed service.
LEMMA AlwaysCopyInv == OneThread /\ Spec => []CopyInv
BY InitCopyInv, NextCopyInv, PTL DEF Spec

\* Between requests, failed ones included, the copy is the table
\* (property_store.py:95-109, 126-144, 158-184).
THEOREM CopyIsTheTable == OneThread /\ Spec => []CacheSynced
<1>1. CopyInv => CacheSynced
  BY DEF CopyInv, PassOK, CacheSynced
<1> QED BY <1>1, AlwaysCopyInv, PTL

\* When a page is answered, whatever its report names has a name and whatever it has a
\* currency of has one, unless somebody chose another (README.md:166-167).
THEOREM ReportsAreUsed == OneThread /\ Spec => []ReportIsUsed
<1>1. CopyInv => ReportIsUsed
  BY DEF CopyInv, PassOK, NamesUsed, CurrenciesUsed, NameFixed, CurrencyFixed, ReportIsUsed
<1> QED BY <1>1, AlwaysCopyInv, PTL

\* What a step may do to the row of c.
KeepsFixed(c) ==
  /\ NameFixed(table[c]) => table'[c].name = table[c].name /\ table'[c].nameSrc = table[c].nameSrc
  /\ CurrencyFixed(table[c]) => table'[c].cur = table[c].cur /\ table'[c].curSrc = table[c].curSrc

\* The two commits of a page load change what they have found to be open, and nothing else:
\* the copy they decided from is the table they write.
LEMMA DetectionKeepsFixed ==
  ASSUME CopyInv, NEW t \in Threads, CommitNames(t) \/ CommitCurrencies(t),
         NEW c \in Codes, table[c] # None
  PROVE  KeepsFixed(c)
<1>1. TypeOK /\ WorkOK(t) /\ PassOK(t) /\ cache = table /\ table[c] \in Entry
  BY DEF CopyInv, EntriesInv, PassOK, TypeOK, CommitNames, CommitCurrencies
<1>2. CASE CommitNames(t)
  <2>1. c \notin todo[t].insert
    BY <1>2 DEF CommitNames
  <2>2. CASE c \in todo[t].update
    <3>1. ~NameFixed(table[c]) /\ facts[t][c].name # Blank /\ c \in Seen(t)
      BY <1>1, <1>2, <2>2 DEF PassOK, NamesDecided, WorkOK, NameSteps, CommitNames
    <3>2. facts[t][c].name \in Names
      BY <1>1, <3>1 DEF TypeOK, Seen, Fact
    <3>3. table'[c] = Renamed(table[c], facts[t][c].name)
      BY <1>2, <2>1, <2>2 DEF CommitNames
    <3>4. table'[c].cur = table[c].cur /\ table'[c].curSrc = table[c].curSrc
      BY <1>1, <3>2, <3>3, PropertyAssumptions, DetectedFields
    <3> QED BY <3>1, <3>4 DEF KeepsFixed
  <2>3. CASE c \notin todo[t].update
    BY <1>2, <2>1, <2>3 DEF CommitNames, KeepsFixed
  <2> QED BY <2>2, <2>3
<1>3. CASE CommitCurrencies(t)
  <2>1. todo[t].insert = {}
    BY <1>1, <1>3 DEF WorkOK, CurrencySteps, CommitCurrencies
  <2>2. CASE c \in todo[t].update
    <3>1. ~CurrencyFixed(table[c]) /\ facts[t][c].cur # Blank /\ c \in Seen(t)
      BY <1>1, <1>3, <2>2 DEF PassOK, CurrenciesDecided, WorkOK, CurrencySteps, CommitCurrencies
    <3>2. facts[t][c].cur \in Currencies
      BY <1>1, <3>1 DEF TypeOK, Seen, Fact
    <3>3. table'[c] = Recoined(table[c], facts[t][c].cur)
      BY <1>3, <2>1, <2>2 DEF CommitCurrencies
    <3>4. table'[c].name = table[c].name /\ table'[c].nameSrc = table[c].nameSrc
      BY <1>1, <3>2, <3>3 DEF Recoined, Entry
    <3> QED BY <3>1, <3>4 DEF KeepsFixed
  <2>3. CASE c \notin todo[t].update
    BY <1>3, <2>1, <2>3 DEF CommitCurrencies, KeepsFixed
  <2> QED BY <2>2, <2>3
<1> QED BY <1>2, <1>3

\* No step but a post for the hotel changes what is fixed.
LEMMA StepKeepsFixed ==
  ASSUME CopyInv, [Next]_vars, NEW c \in Codes, table[c] # None, ~Edits(c)
  PROVE  KeepsFixed(c)
<1>1. CASE table' = table
  BY <1>1 DEF KeepsFixed
<1>2. ASSUME NEW t \in Threads, CommitUpdate(t) PROVE KeepsFixed(c)
  <2>1. pc[t] = "commitUpdate" /\ pc'[t] = "assignUpdate"
    BY <1>2 DEF CopyInv, EntriesInv, TypeOK, CommitUpdate, Goto
  <2>2. form[t].code # c
    BY <2>1 DEF Edits
  <2>3. table'[c] = table[c]
    BY <1>2, <2>2 DEF CommitUpdate, CopyInv, EntriesInv, TypeOK
  <2> QED BY <2>3 DEF KeepsFixed
<1>3. ASSUME NEW t \in Threads, CommitNames(t) \/ CommitCurrencies(t) PROVE KeepsFixed(c)
  BY <1>3, DetectionKeepsFixed
<1>4. CASE Restart \/ UNCHANGED vars
  BY <1>1, <1>4 DEF Restart, vars
<1>5. ASSUME NEW t \in Threads,
             \/ \E fs \in [Codes -> Fact \cup {None}] : LoadPage(t, fs)
             \/ DecideNames(t) \/ ApplyNames(t) \/ DecideCurrencies(t) \/ ApplyCurrencies(t)
             \/ Render(t)
             \/ \E d \in Codes, n \in FormNames, cu \in FormCurrencies : PostProperty(t, d, n, cu)
             \/ GetRow(t) \/ AssignUpdate(t) \/ Fail(t)
      PROVE  table' = table
  BY <1>5 DEF LoadPage, DecideNames, ApplyNames, DecideCurrencies, ApplyCurrencies, Render,
              PostProperty, GetRow, AssignUpdate, Fail
<1> QED BY <1>1, <1>2, <1>3, <1>4, <1>5 DEF Next

\* "Manual edits, and codes that already have a real detected name, are never touched"
\* (property_store.py:79-80): a fixed name or currency changes by a post for it only.
THEOREM FixedIsKept == OneThread /\ Spec => FixedKept
<1>1. CopyInv /\ [Next]_vars =>
        [\A c \in Codes : table[c] # None /\ ~Edits(c) =>
           /\ NameFixed(table[c]) =>
                table'[c].name = table[c].name /\ table'[c].nameSrc = table[c].nameSrc
           /\ CurrencyFixed(table[c]) =>
                table'[c].cur = table[c].cur /\ table'[c].curSrc = table[c].curSrc]_vars
  BY StepKeepsFixed DEF KeepsFixed
<1> QED BY <1>1, AlwaysCopyInv, PTL DEF Spec, FixedKept

(***************************************************************************)
(* How far the code is from UntypedCurrencyIsDetected: a currency is taken *)
(* for somebody's by a post that carries one, typed or as it was shown,    *)
(* and by nothing else; any other currency is the reports'.                *)
(***************************************************************************)

Pinned(c) == table[c] # None /\ table[c].curSrc = "manual"

PinnedByPost(c) ==
  \E t \in Threads : CommitUpdate(t) /\ form[t].code = c /\ form[t].cur # Blank

\* What a page load writes into a row leaves the sources as they are.
LEMMA DetectionKeepsSource ==
  ASSUME NEW e \in Entry, NEW n, NEW cu
  PROVE  /\ Renamed(e, n).curSrc = e.curSrc /\ Recoined(e, cu).curSrc = e.curSrc
         /\ NamedEntry(n).curSrc = "auto" /\ CoinedEntry(cu).curSrc = "auto"
BY DEF Entry, Renamed, Recoined, NamedEntry, CoinedEntry, DefaultEntry

\* An edit without a currency leaves the source.
LEMMA EditKeepsSource ==
  ASSUME NEW e \in Entry \cup {None}, NEW n
  PROVE  Edited(e, n, Blank).curSrc = IF e = None THEN "auto" ELSE e.curSrc
BY DEF Entry, Edited, DefaultEntry

\* A step that makes the currency of c somebody's commits a post for c that carries one.
LEMMA StepPins ==
  ASSUME EntriesInv, [Next]_vars, NEW c \in Codes, ~Pinned(c), Pinned(c)'
  PROVE  PinnedByPost(c)
<1>1. table[c] \in Entry \cup {None} /\ table'[c] # table[c]
  BY DEF EntriesInv, TypeOK, Pinned
<1>2. ASSUME NEW t \in Threads, CommitNames(t)  PROVE FALSE
  <2>1. CASE c \in todo[t].insert
    <3>1. table'[c] = NamedEntry(facts[t][c].name)
      BY <1>2, <2>1 DEF CommitNames
    <3> QED BY <3>1 DEF Pinned, NamedEntry, DefaultEntry
  <2>2. CASE c \in todo[t].update \ todo[t].insert
    <3>1. table'[c] = Renamed(table[c], facts[t][c].name)
      BY <1>2, <2>2 DEF CommitNames
    <3>2. table[c] \in Entry
      BY <1>1, <1>2, <2>2 DEF EntriesInv, WorkOK, NameSteps, RowForEveryEntry, Known, CommitNames
    <3> QED BY <1>1, <3>1, <3>2, DetectionKeepsSource, NoneAssumption DEF Pinned
  <2>3. CASE c \notin todo[t].insert \cup todo[t].update
    BY <1>1, <1>2, <2>3 DEF CommitNames
  <2> QED BY <2>1, <2>2, <2>3
<1>3. ASSUME NEW t \in Threads, CommitCurrencies(t)  PROVE FALSE
  <2>1. /\ todo[t].insert = {} /\ Seen(t) \subseteq Known
        /\ todo[t].update \subseteq Seen(t)
    BY <1>3 DEF EntriesInv, WorkOK, CurrencySteps, CommitCurrencies
  <2>2. c \in todo[t].update /\ table'[c] = Recoined(table[c], facts[t][c].cur)
    BY <1>1, <1>3, <2>1 DEF CommitCurrencies
  <2>3. table[c] \in Entry
    BY <1>1, <2>1, <2>2 DEF EntriesInv, RowForEveryEntry, Known
  <2> QED BY <1>1, <2>2, <2>3, DetectionKeepsSource, NoneAssumption DEF Pinned
<1>4. ASSUME NEW t \in Threads, CommitUpdate(t)  PROVE PinnedByPost(c)
  <2> DEFINE old == form[t].row
             new == View(t)
  <2>1. form[t].code = c /\ old \in Entry \cup {None}
    BY <1>1, <1>4 DEF EntriesInv, TypeOK, Form, CommitUpdate
  <2>2. table'[c] = IF old = None THEN new
                    ELSE [f \in DOMAIN new |-> IF new[f] # old[f] THEN new[f] ELSE table[c][f]]
    BY <1>4, <2>1 DEF EntriesInv, TypeOK, CommitUpdate
  <2>3. form[t].cur = Blank => new.curSrc = IF old = None THEN "auto" ELSE old.curSrc
    BY <2>1, EditKeepsSource DEF View
  <2>4. "curSrc" \in DOMAIN new
    BY <2>1 DEF View, Edited, Recoined, Entry, DefaultEntry
  <2>5. old # None => table[c] # None
    BY <1>1, <1>4, <2>1 DEF EntriesInv, FormOK, UpdateSteps, Stored, CommitUpdate
  <2> HIDE DEF old, new
  <2>6. ASSUME form[t].cur = Blank  PROVE FALSE
    BY <2>2, <2>3, <2>4, <2>5, <2>6 DEF Pinned
  <2> QED BY <1>4, <2>1, <2>6 DEF PinnedByPost
<1>5. CASE Restart \/ UNCHANGED vars
  BY <1>1, <1>5 DEF Restart, vars
<1>6. ASSUME NEW t \in Threads,
             \/ \E fs \in [Codes -> Fact \cup {None}] : LoadPage(t, fs)
             \/ DecideNames(t) \/ ApplyNames(t) \/ DecideCurrencies(t) \/ ApplyCurrencies(t)
             \/ Render(t)
             \/ \E d \in Codes, n \in FormNames, cu \in FormCurrencies :
                  PostProperty(t, d, n, cu)
             \/ GetRow(t) \/ AssignUpdate(t) \/ Fail(t)
      PROVE  table' = table
  BY <1>6 DEF LoadPage, DecideNames, ApplyNames, DecideCurrencies, ApplyCurrencies, Render,
              PostProperty, GetRow, AssignUpdate, Fail
<1> QED BY <1>1, <1>2, <1>3, <1>4, <1>5, <1>6 DEF Next

\* Only the commit of a post that carries a currency, typed or as the form showed it,
\* takes the currency of a hotel for somebody's (property_store.py:169-174); no page
\* load, failure or restart does, however many requests overlap.
THEOREM PinningTakesAPost ==
  Spec => [][\A c \in Codes : ~Pinned(c) /\ Pinned(c)' => PinnedByPost(c)]_vars
<1> DEFINE Pins == \A c \in Codes : ~Pinned(c) /\ Pinned(c)' => PinnedByPost(c)
<1>1. EntriesInv /\ [Next]_vars => Pins
  BY StepPins
<1> HIDE DEF Pins
<1>2. Spec => [][Pins]_vars
  BY <1>1, AlwaysEntriesInv, PTL DEF Spec
<1> QED BY <1>2 DEF Pins

\* As deployed, every currency that is not pinned follows the reports: where a page is
\* answered, the one its report has was detected (property_store.py:112-142).
THEOREM UnpinnedIsDetected ==
  OneThread /\ Spec => [](\A t \in Threads : pc[t] = "render" =>
    \A c \in Seen(t) : facts[t][c].cur # Blank /\ ~Pinned(c)
                         => cache[c].curSet /\ cache[c].curSrc = "auto")
<1> DEFINE Detects == \A t \in Threads : pc[t] = "render" =>
      \A c \in Seen(t) : facts[t][c].cur # Blank /\ ~Pinned(c)
                           => cache[c].curSet /\ cache[c].curSrc = "auto"
<1>1. ASSUME CopyInv  PROVE Detects
  <2> SUFFICES ASSUME NEW t \in Threads, pc[t] = "render", NEW c \in Seen(t),
                      facts[t][c].cur # Blank, ~Pinned(c)
               PROVE  cache[c].curSet /\ cache[c].curSrc = "auto"
    OBVIOUS
  <2>1. CurrencyFixed(cache[c]) /\ cache = table /\ c \in Codes
    BY <1>1 DEF CopyInv, PassOK, CurrenciesUsed, Seen
  <2>2. cache[c] \in Entry
    BY <1>1, <2>1 DEF CopyInv, EntriesInv, TypeOK, WorkOK, Known
  <2>3. cache[c].curSrc \in {"auto", "manual"} /\ cache[c].curSet \in BOOLEAN /\ cache[c] # None
    BY <2>2, NoneAssumption DEF Entry, Source
  <2> QED BY <2>1, <2>3 DEF Pinned, CurrencyFixed
<1> HIDE DEF Detects
<1>2. OneThread /\ Spec => []Detects
  BY <1>1, AlwaysCopyInv, PTL
<1> QED BY <1>2 DEF Detects

(***************************************************************************)
(* The store implements HotelDirectory.  Each commit of a page load is one *)
(* pass over the report: the copy it was decided from is the table, so it  *)
(* takes what is open and nothing else.  A page answers when nothing is    *)
(* left to learn, and a post is about a hotel that some page has shown,    *)
(* which therefore is in the copy and in the table.                        *)
(***************************************************************************)

\* What was shown is known, and stays so.
ShownInv ==
  /\ \A c \in Codes : shown[c] # None => cache[c] # None
  /\ \A t \in Threads : pc[t] \in UpdateSteps => shown[form[t].code] # None

\* An entry as the directory has it.
LEMMA EntryIs ==
  ASSUME NEW e \in Entry
  PROVE  /\ EntryOf(e) = [name |-> e.name, nameBy |-> By(e.nameSet, e.nameSrc),
                          cur |-> e.cur, curBy |-> By(e.curSet, e.curSrc)]
         /\ EntryOf(e) \in Directory!Entry /\ EntryOf(e) # None
         /\ EntryOf(e).name = e.name /\ EntryOf(e).cur = e.cur
         /\ EntryOf(e).nameBy = "nobody" <=> ~NameFixed(e)
         /\ EntryOf(e).curBy = "nobody" <=> ~CurrencyFixed(e)
<1>1. e # None
  BY NoneAssumption
<1>2. EntryOf(e) = [name |-> e.name, nameBy |-> By(e.nameSet, e.nameSrc),
                    cur |-> e.cur, curBy |-> By(e.curSet, e.curSrc)]
  BY <1>1 DEF EntryOf
<1>3. EntryOf(e) \in Directory!Entry
  BY <1>2 DEF Entry, Directory!Entry, Directory!Who, By
<1> QED BY <1>2, <1>3, EntryAssumption DEF Entry, NameFixed, CurrencyFixed, By

NameWritten(e, n, who) == [e EXCEPT !.name = n, !.nameBy = who]
CurrencyWritten(e, cu, who) == [e EXCEPT !.cur = cu, !.curBy = who]

\* An entry of the directory in which two fields are written.
LEMMA TwoFields ==
  ASSUME NEW e \in Directory!Entry, NEW w \in Directory!Who,
         NEW n \in Names \cup {TheCode}, NEW cu \in Currencies
  PROVE  /\ NameWritten(e, n, w)
               = [name |-> n, nameBy |-> w, cur |-> e.cur, curBy |-> e.curBy]
         /\ CurrencyWritten(e, cu, w)
               = [name |-> e.name, nameBy |-> e.nameBy, cur |-> cu, curBy |-> w]
<1> DEFINE x == [e EXCEPT !.name = n, !.nameBy = w]
           y == [e EXCEPT !.cur = cu, !.curBy = w]
<1>1. x \in Directory!Entry /\ y \in Directory!Entry
  BY DEF Directory!Entry
<1>2. /\ x.name = n /\ x.nameBy = w /\ x.cur = e.cur /\ x.curBy = e.curBy
      /\ y.name = e.name /\ y.nameBy = e.nameBy /\ y.cur = cu /\ y.curBy = w
  BY DEF Directory!Entry
<1> HIDE DEF x, y
<1>3. /\ x = [name |-> x.name, nameBy |-> x.nameBy, cur |-> x.cur, curBy |-> x.curBy]
      /\ y = [name |-> y.name, nameBy |-> y.nameBy, cur |-> y.cur, curBy |-> y.curBy]
  BY <1>1 DEF Directory!Entry
<1>4. /\ x = [name |-> n, nameBy |-> w, cur |-> e.cur, curBy |-> e.curBy]
      /\ y = [name |-> e.name, nameBy |-> e.nameBy, cur |-> cu, curBy |-> w]
  BY <1>2, <1>3
<1> QED BY <1>4 DEF x, y, NameWritten, CurrencyWritten

\* The columns a detection writes are what the directory learns.
LEMMA NameLearnt ==
  /\ \A n \in Names \cup {Blank} :
       EntryOf(NamedEntry(n)) = Directory!LearnName(Directory!NewEntry, n)
  /\ \A e \in Entry, n \in Names :
       ~NameFixed(e) => EntryOf(Renamed(e, n)) = Directory!LearnName(EntryOf(e), n)
  /\ \A e \in Entry, n \in Names \cup {Blank} :
       NameFixed(e) \/ n = Blank => Directory!LearnName(EntryOf(e), n) = EntryOf(e)
<1>1. ASSUME NEW n \in Names \cup {Blank}
      PROVE  EntryOf(NamedEntry(n)) = Directory!LearnName(Directory!NewEntry, n)
  <2> DEFINE x == NamedEntry(n)
  <2>1. x \in Entry
    BY DetectedType
  <2>2. /\ x.name = IF n = Blank THEN TheCode ELSE n
        /\ x.nameSet <=> n # Blank
        /\ x.nameSrc = "auto" /\ x.cur = EUR /\ ~x.curSet /\ x.curSrc = "auto"
    BY DEF NamedEntry, DefaultEntry
  <2> HIDE DEF x
  <2>3. /\ By(x.nameSet, x.nameSrc) = IF n = Blank THEN "nobody" ELSE "report"
        /\ By(x.curSet, x.curSrc) = "nobody"
    BY <2>2 DEF By
  <2>4. EntryOf(x) = [name |-> IF n = Blank THEN TheCode ELSE n,
                      nameBy |-> IF n = Blank THEN "nobody" ELSE "report",
                      cur |-> EUR, curBy |-> "nobody"]
    BY <2>1, <2>2, <2>3, EntryIs
  <2>5. EntryOf(x) = Directory!LearnName(Directory!NewEntry, n)
    <3> DEFINE d == Directory!NewEntry
    <3>1. /\ d \in Directory!Entry /\ d.nameBy = "nobody" /\ d.cur = EUR /\ d.curBy = "nobody"
          /\ d = [name |-> TheCode, nameBy |-> "nobody", cur |-> EUR, curBy |-> "nobody"]
      BY PropertyAssumptions DEF Directory!NewEntry, Directory!Entry, Directory!Who
    <3> HIDE DEF d
    <3>2. CASE n = Blank
      BY <2>4, <3>1, <3>2 DEF Directory!LearnName, NameWritten, d
    <3>3. CASE n # Blank
      <4>1. NameWritten(d, n, "report")
              = [name |-> n, nameBy |-> "report", cur |-> EUR, curBy |-> "nobody"]
        BY <3>1, <3>3, TwoFields, PropertyAssumptions DEF Directory!Who
      <4> QED BY <2>4, <3>1, <3>3, <4>1 DEF Directory!LearnName, NameWritten, d
    <3> QED BY <3>2, <3>3
  <2> QED BY <2>5 DEF x
<1>2. ASSUME NEW e \in Entry, NEW n \in Names, ~NameFixed(e)
      PROVE  EntryOf(Renamed(e, n)) = Directory!LearnName(EntryOf(e), n)
  <2> DEFINE x == Renamed(e, n)
  <2>1. n # Blank /\ x \in Entry
    BY DetectedType, PropertyAssumptions
  <2>2. /\ x.name = n /\ x.nameSet /\ x.nameSrc = "auto"
        /\ x.cur = e.cur /\ x.curSet = e.curSet /\ x.curSrc = e.curSrc
    BY <1>2 DEF Renamed, Entry, NameFixed, Source
  <2> HIDE DEF x
  <2>3. By(x.nameSet, x.nameSrc) = "report"
    BY <2>2 DEF By
  <2>4. EntryOf(x) = [name |-> n, nameBy |-> "report", cur |-> e.cur,
                      curBy |-> By(e.curSet, e.curSrc)]
    BY <2>1, <2>2, <2>3, EntryIs
  <2>5. EntryOf(x) = Directory!LearnName(EntryOf(e), n)
    <3> DEFINE d == EntryOf(e)
    <3>1. /\ d \in Directory!Entry /\ d.nameBy = "nobody"
          /\ d.cur = e.cur /\ d.curBy = By(e.curSet, e.curSrc)
      BY <1>2, EntryIs
    <3> HIDE DEF d
    <3>2. NameWritten(d, n, "report") = EntryOf(x)
      BY <2>4, <3>1, TwoFields, PropertyAssumptions DEF Directory!Who
    <3> QED BY <2>1, <3>1, <3>2 DEF Directory!LearnName, NameWritten, d
  <2> QED BY <2>5 DEF x
<1>3. ASSUME NEW e \in Entry, NEW n \in Names \cup {Blank}, NameFixed(e) \/ n = Blank
      PROVE  Directory!LearnName(EntryOf(e), n) = EntryOf(e)
  BY <1>3, EntryIs DEF Directory!LearnName
<1> QED BY <1>1, <1>2, <1>3

LEMMA CurrencyLearnt ==
  /\ \A e \in Entry, cu \in Currencies :
       ~CurrencyFixed(e) => EntryOf(Recoined(e, cu)) = Directory!LearnCurrency(EntryOf(e), cu)
  /\ \A e \in Entry, cu \in Currencies \cup {Blank} :
       CurrencyFixed(e) \/ cu = Blank => Directory!LearnCurrency(EntryOf(e), cu) = EntryOf(e)
<1>1. ASSUME NEW e \in Entry, NEW cu \in Currencies, ~CurrencyFixed(e)
      PROVE  EntryOf(Recoined(e, cu)) = Directory!LearnCurrency(EntryOf(e), cu)
  <2> DEFINE x == Recoined(e, cu)
  <2>1. cu # Blank /\ x \in Entry
    BY DetectedType, PropertyAssumptions
  <2>2. /\ x.cur = cu /\ x.curSet /\ x.curSrc = "auto"
        /\ x.name = e.name /\ x.nameSet = e.nameSet /\ x.nameSrc = e.nameSrc
    BY <1>1 DEF Recoined, Entry, CurrencyFixed, Source
  <2> HIDE DEF x
  <2>3. By(x.curSet, x.curSrc) = "report"
    BY <2>2 DEF By
  <2>4. EntryOf(x) = [name |-> e.name, nameBy |-> By(e.nameSet, e.nameSrc),
                      cur |-> cu, curBy |-> "report"]
    BY <2>1, <2>2, <2>3, EntryIs
  <2>5. EntryOf(x) = Directory!LearnCurrency(EntryOf(e), cu)
    <3> DEFINE d == EntryOf(e)
    <3>1. /\ d \in Directory!Entry /\ d.curBy = "nobody"
          /\ d.name = e.name /\ d.nameBy = By(e.nameSet, e.nameSrc)
      BY <1>1, EntryIs
    <3> HIDE DEF d
    <3>2. CurrencyWritten(d, cu, "report") = EntryOf(x)
      BY <2>4, <3>1, TwoFields, PropertyAssumptions DEF Directory!Who
    <3> QED BY <2>1, <3>1, <3>2 DEF Directory!LearnCurrency, CurrencyWritten, d
  <2> QED BY <2>5 DEF x
<1>2. ASSUME NEW e \in Entry, NEW cu \in Currencies \cup {Blank}, CurrencyFixed(e) \/ cu = Blank
      PROVE  Directory!LearnCurrency(EntryOf(e), cu) = EntryOf(e)
  BY <1>2, EntryIs DEF Directory!LearnCurrency
<1> QED BY <1>1, <1>2

\* What a post writes into a row is what a hand writes into the directory.
LEMMA EditSigned ==
  ASSUME NEW e \in Entry, NEW n \in FormNames, NEW cu \in FormCurrencies
  PROVE  EntryOf(Edited(e, n, cu)) = Directory!Signed(EntryOf(e), n, cu)
<1> DEFINE x == Edited(e, n, cu)
<1>1. x \in Entry /\ e # None
  BY EditedType, NoneAssumption
<1>2. /\ x.name = IF n = Blank THEN TheCode ELSE n
      /\ x.nameSrc = "manual"
      /\ x.cur = IF cu = Blank THEN e.cur ELSE cu
      /\ x.curSrc = IF cu = Blank THEN e.curSrc ELSE "manual"
      /\ cu = Blank => x.curSet = e.curSet
  BY <1>1 DEF Edited, Recoined, Entry
<1> HIDE DEF x
<1>3. EntryOf(x) = [name |-> IF n = Blank THEN TheCode ELSE n, nameBy |-> "hand",
                    cur |-> IF cu = Blank THEN e.cur ELSE cu,
                    curBy |-> IF cu = Blank THEN By(e.curSet, e.curSrc) ELSE "hand"]
  <2>1. By(x.nameSet, x.nameSrc) = "hand"
    BY <1>2 DEF By
  <2>2. By(x.curSet, x.curSrc) = IF cu = Blank THEN By(e.curSet, e.curSrc) ELSE "hand"
    BY <1>2 DEF By
  <2> QED BY <1>1, <1>2, <2>1, <2>2, EntryIs
<1>4. EntryOf(e) = [name |-> e.name, nameBy |-> By(e.nameSet, e.nameSrc),
                    cur |-> e.cur, curBy |-> By(e.curSet, e.curSrc)]
  BY EntryIs
<1>5. EntryOf(x) = Directory!Signed(EntryOf(e), n, cu)
  <2> DEFINE d == EntryOf(e)
             typed_n == IF n = Blank THEN TheCode ELSE n
             named == NameWritten(d, typed_n, "hand")
  <2>1. d \in Directory!Entry /\ d.cur = e.cur /\ d.curBy = By(e.curSet, e.curSrc)
    BY <1>4, EntryIs
  <2>2. typed_n \in Names \cup {TheCode} /\ (cu # Blank => cu \in Currencies)
    BY DEF FormNames, FormCurrencies
  <2> HIDE DEF d, typed_n
  <2>3. named = [name |-> typed_n, nameBy |-> "hand", cur |-> e.cur,
                 curBy |-> By(e.curSet, e.curSrc)]
    BY <2>1, <2>2, TwoFields, PropertyAssumptions DEF Directory!Who
  <2>4. named \in Directory!Entry
    BY <2>1, <2>2 DEF NameWritten, Directory!Entry, Directory!Who
  <2> HIDE DEF named
  <2>5. named.name = typed_n /\ named.nameBy = "hand"
    BY <2>3
  <2>6. CASE cu = Blank
    <3>1. Directory!Signed(d, n, cu) = named
      BY <2>6 DEF Directory!Signed, named, typed_n, NameWritten, CurrencyWritten
    <3> QED BY <1>3, <2>3, <2>6, <3>1 DEF d, typed_n
  <2>7. CASE cu # Blank
    <3>1. Directory!Signed(d, n, cu) = CurrencyWritten(named, cu, "hand")
      BY <2>7 DEF Directory!Signed, named, typed_n, NameWritten, CurrencyWritten
    <3>2. CurrencyWritten(named, cu, "hand")
            = [name |-> typed_n, nameBy |-> "hand", cur |-> cu, curBy |-> "hand"]
      BY <2>2, <2>4, <2>5, <2>7, TwoFields DEF Directory!Who
    <3> QED BY <1>3, <2>7, <3>1, <3>2 DEF d, typed_n
  <2> QED BY <2>6, <2>7
<1> QED BY <1>5 DEF x

\* No step takes an entry out of the copy.
LEMMA KnownGrows ==
  ASSUME EntriesInv, [Next]_vars, NEW c \in Codes, cache[c] # None
  PROVE  cache'[c] # None
<1>1. TypeOK /\ RowForEveryEntry /\ cache[c] \in Entry
  BY DEF EntriesInv, TypeOK
<1>2. CASE Restart
  BY <1>1, <1>2 DEF RowForEveryEntry, Restart
<1>3. ASSUME NEW t \in Threads, ApplyNames(t) PROVE cache'[c] # None
  <2>1. cache'[c] = IF c \in todo[t].insert THEN NamedEntry(facts[t][c].name)
                    ELSE IF c \in todo[t].update THEN Renamed(cache[c], facts[t][c].name)
                    ELSE cache[c]
    BY <1>3 DEF ApplyNames
  <2>2. /\ todo[t].insert \cup todo[t].update \subseteq Seen(t)
        /\ todo[t].update \subseteq {d \in Known : facts[t][d].name # Blank}
    BY <1>3 DEF EntriesInv, WorkOK, NameSteps, ApplyNames
  <2>3. CASE c \in todo[t].insert
    <3>1. facts[t][c] \in Fact
      BY <1>1, <2>2, <2>3 DEF TypeOK, Seen
    <3>2. NamedEntry(facts[t][c].name) \in Entry
      BY <3>1, DetectedType DEF Fact
    <3> QED BY <2>1, <2>3, <3>2, NoneAssumption
  <2>4. CASE c \notin todo[t].insert /\ c \in todo[t].update
    <3>1. facts[t][c] \in Fact /\ facts[t][c].name # Blank
      BY <1>1, <2>2, <2>4 DEF TypeOK, Seen
    <3>2. Renamed(cache[c], facts[t][c].name) \in Entry
      BY <1>1, <3>1, DetectedType DEF Fact
    <3> QED BY <2>1, <2>4, <3>2, NoneAssumption
  <2> QED BY <2>1, <2>3, <2>4
<1>4. ASSUME NEW t \in Threads, ApplyCurrencies(t) PROVE cache'[c] # None
  <2>1. /\ todo[t].insert = {}
        /\ todo[t].update \subseteq {d \in Seen(t) : facts[t][d].cur # Blank}
    BY <1>4 DEF EntriesInv, WorkOK, CurrencySteps, ApplyCurrencies
  <2>2. cache'[c] = IF c \in todo[t].update THEN Recoined(cache[c], facts[t][c].cur)
                    ELSE cache[c]
    BY <1>4, <2>1 DEF ApplyCurrencies
  <2>3. CASE c \in todo[t].update
    <3>1. facts[t][c] \in Fact /\ facts[t][c].cur # Blank
      BY <1>1, <2>1, <2>3 DEF TypeOK, Seen
    <3>2. Recoined(cache[c], facts[t][c].cur) \in Entry
      BY <1>1, <3>1, DetectedType DEF Fact
    <3> QED BY <2>2, <2>3, <3>2, NoneAssumption
  <2> QED BY <2>2, <2>3
<1>5. ASSUME NEW t \in Threads, AssignUpdate(t) PROVE cache'[c] # None
  <2>1. form[t] \in Form
    BY <1>1 DEF TypeOK
  <2>2. View(t) \in Entry
    BY <2>1, EditedType DEF View, Form
  <2>3. cache'[c] \in {View(t), cache[c]}
    BY <1>1, <1>5 DEF AssignUpdate, TypeOK
  <2> QED BY <2>2, <2>3, NoneAssumption
<1>6. CASE UNCHANGED cache
  BY <1>6
<1>7. ASSUME NEW t \in Threads,
             \/ \E fs \in [Codes -> Fact \cup {None}] : LoadPage(t, fs)
             \/ DecideNames(t) \/ CommitNames(t) \/ DecideCurrencies(t) \/ CommitCurrencies(t)
             \/ Render(t)
             \/ \E d \in Codes, n \in FormNames, cu \in FormCurrencies : PostProperty(t, d, n, cu)
             \/ GetRow(t) \/ CommitUpdate(t) \/ Fail(t)
      PROVE  UNCHANGED cache
  BY <1>7 DEF LoadPage, DecideNames, CommitNames, DecideCurrencies, CommitCurrencies, Render,
              PostProperty, GetRow, CommitUpdate, Fail
<1> QED BY <1>2, <1>3, <1>4, <1>5, <1>6, <1>7 DEF Next, vars

\* A post is about a hotel the last page has shown, or one before it.
LEMMA NextShownInv ==
  ASSUME EntriesInv, ShownInv, [Next]_vars
  PROVE  ShownInv'
<1>1. TypeOK
  BY DEF EntriesInv
<1>2. ASSUME NEW c \in Codes PROVE shown'[c] # None => cache'[c] # None
  <2>1. CASE shown' = shown
    BY <2>1, KnownGrows DEF ShownInv
  <2>2. ASSUME NEW t \in Threads, Render(t) PROVE shown'[c] # None => cache'[c] # None
    BY <2>2 DEF Render
  <2>3. shown' = shown \/ \E t \in Threads : Render(t)
    BY DEF Next, vars, Restart, LoadPage, DecideNames, CommitNames, ApplyNames, DecideCurrencies,
           CommitCurrencies, ApplyCurrencies, PostProperty, GetRow, CommitUpdate, AssignUpdate, Fail
  <2> QED BY <2>1, <2>2, <2>3
<1>3. ASSUME NEW c \in Codes, shown[c] # None PROVE shown'[c] # None
  <2>1. ASSUME NEW t \in Threads, Render(t) PROVE shown'[c] # None
    <3>1. cache[c] \in Entry /\ cache[c] # None
      BY <1>1, <1>3 DEF ShownInv, TypeOK
    <3>2. shown'[c] = [name |-> cache[c].name, cur |-> cache[c].cur]
      BY <2>1, <3>1 DEF Render
    <3>3. shown'[c] \in Shown
      BY <3>1, <3>2 DEF Entry, Shown
    <3> QED BY <3>3, NoneAssumption
  <2>2. shown' = shown \/ \E t \in Threads : Render(t)
    BY DEF Next, vars, Restart, LoadPage, DecideNames, CommitNames, ApplyNames, DecideCurrencies,
           CommitCurrencies, ApplyCurrencies, PostProperty, GetRow, CommitUpdate, AssignUpdate, Fail
  <2> QED BY <1>3, <2>1, <2>2
<1>4. ASSUME NEW t \in Threads, pc'[t] \in UpdateSteps PROVE shown'[form'[t].code] # None
  <2>1. CASE pc[t] \in UpdateSteps /\ form'[t].code = form[t].code
    <3>1. form[t].code \in Codes /\ shown[form[t].code] # None
      BY <2>1 DEF EntriesInv, FormOK, ShownInv
    <3> QED BY <1>3, <2>1, <3>1
  <2>2. ASSUME NEW c \in Codes, NEW n \in FormNames, NEW cu \in FormCurrencies,
               PostProperty(t, c, n, cu)
        PROVE  shown'[form'[t].code] # None
    <3>1. form'[t].code = c /\ shown' = shown /\ shown[c] # None
      BY <1>1, <2>2 DEF PostProperty, TypeOK
    <3> QED BY <3>1
  <2>3. ASSUME NEW u \in Threads, u # t,
               \/ \E fs \in [Codes -> Fact \cup {None}] : LoadPage(u, fs)
               \/ \E c \in Codes, n \in FormNames, cu \in FormCurrencies : PostProperty(u, c, n, cu)
               \/ GetRow(u) \/ AssignUpdate(u) \/ Fail(u) \/ Render(u)
               \/ DecideNames(u) \/ CommitNames(u) \/ ApplyNames(u) \/ CommitUpdate(u)
               \/ DecideCurrencies(u) \/ CommitCurrencies(u) \/ ApplyCurrencies(u)
        PROVE  pc'[t] = pc[t] /\ form'[t] = form[t]
    BY <1>1, <2>3 DEF TypeOK, LoadPage, DecideNames, CommitNames, ApplyNames, DecideCurrencies,
          CommitCurrencies, ApplyCurrencies, Render, PostProperty, GetRow, CommitUpdate,
          AssignUpdate, Fail, Finish, Goto
  <2>4. CASE GetRow(t) \/ CommitUpdate(t)
    <3>1. pc[t] \in UpdateSteps /\ form[t] \in Form
      BY <1>1, <2>4 DEF GetRow, CommitUpdate, UpdateSteps, TypeOK
    <3>2. form'[t].code = form[t].code
      BY <1>1, <2>4, <3>1 DEF GetRow, CommitUpdate, TypeOK, Form
    <3> QED BY <2>1, <3>1, <3>2
  <2>5. ASSUME \/ \E fs \in [Codes -> Fact \cup {None}] : LoadPage(t, fs)
               \/ AssignUpdate(t) \/ Fail(t) \/ Render(t)
               \/ DecideNames(t) \/ CommitNames(t) \/ ApplyNames(t)
               \/ DecideCurrencies(t) \/ CommitCurrencies(t) \/ ApplyCurrencies(t)
        PROVE  FALSE
    BY <1>1, <1>4, <2>5 DEF TypeOK, LoadPage, DecideNames, CommitNames, ApplyNames,
          DecideCurrencies, CommitCurrencies, ApplyCurrencies, Render, AssignUpdate, Fail,
          Finish, Goto, UpdateSteps
  <2>6. CASE UNCHANGED vars
    BY <1>4, <2>1, <2>6 DEF vars
  <2>7. ~Restart
    BY <1>4 DEF Restart, UpdateSteps
  <2> QED BY <1>4, <2>1, <2>2, <2>3, <2>4, <2>5, <2>6, <2>7 DEF Next
<1> QED BY <1>2, <1>4 DEF ShownInv

\* What was shown is in the copy, and what is posted was shown, at every moment.
LEMMA AlwaysShownInv == Spec => []ShownInv
<1>1. Init => ShownInv
  BY DEF Init, ShownInv, UpdateSteps
<1> QED BY <1>1, AlwaysEntriesInv, NextShownInv, PTL DEF Spec

\* The directory before and after a step.
LEMMA EntriesAre ==
  /\ \A c \in Codes : Entries[c] = EntryOf(table[c]) /\ Entries'[c] = EntryOf(table'[c])
  /\ table' = table => Entries' = Entries
BY DEF Entries, EntryOf, By

\* A directory of the hotels has an entry for each of them, or None.
LEMMA EntriesType ==
  ASSUME TypeOK, NEW c \in Codes
  PROVE  /\ Entries[c] = None <=> table[c] = None
         /\ table[c] # None => table[c] \in Entry /\ Entries[c] \in Directory!Entry
<1>1. table[c] \in Entry \cup {None}
  BY DEF TypeOK
<1>2. EntryOf(None) = None
  BY DEF EntryOf
<1> QED BY <1>1, <1>2, EntriesAre, EntryIs

\* A step that moves no report, no row and nothing that is shown.
LEMMA Stutters ==
  ASSUME UNCHANGED <<table, facts, shown>>
  PROVE  UNCHANGED Directory!vars
BY EntriesAre DEF Directory!vars

\* A page load brings its report.
LEMMA LoadPageOpens ==
  ASSUME NEW t \in Threads, NEW fs \in [Codes -> Fact \cup {None}], LoadPage(t, fs)
  PROVE  Directory!Next
<1>1. Directory!Open(t, fs)
  BY EntriesAre DEF LoadPage, Directory!Open
<1>2. fs \in Directory!Report
  BY DEF Fact, Directory!Report
<1> QED BY <1>1, <1>2 DEF Directory!Next

\* A request ends without a page, and leaves no report behind.
LEMMA FinishAbandons ==
  ASSUME TypeOK, NEW t \in Threads, Finish(t), UNCHANGED <<table, shown>>
  PROVE  Directory!Next
<1>1. facts' = [u \in Threads |-> IF u \in {t} THEN Directory!NoReport ELSE facts[u]]
  BY DEF TypeOK, Finish, NoFacts, Directory!NoReport
<1>2. Directory!Abandon({t})
  BY <1>1, EntriesAre DEF Directory!Abandon
<1>3. {t} \in SUBSET Threads
  OBVIOUS
<1> QED BY <1>2, <1>3 DEF Directory!Next

\* A restart drops every request.
LEMMA RestartAbandons ==
  ASSUME Restart
  PROVE  Directory!Next
<1>1. facts' = [u \in Threads |-> IF u \in Threads THEN Directory!NoReport ELSE facts[u]]
  BY DEF Restart, NoFacts, Directory!NoReport
<1>2. Directory!Abandon(Threads)
  BY <1>1, EntriesAre DEF Restart, Directory!Abandon
<1>3. Threads \in SUBSET Threads
  OBVIOUS
<1> QED BY <1>2, <1>3 DEF Directory!Next

\* What one hotel of a report gets from the names pass that decided and commits.
LEMMA CommitLearnsName ==
  ASSUME CopyInv, NEW t \in Threads, CommitNames(t), NEW c \in Codes
  PROVE  Entries'[c] = IF facts[t][c] = None THEN Entries[c]
                       ELSE Directory!LearnName(Directory!Known(c), facts[t][c].name)
<1>1. TypeOK /\ WorkOK(t) /\ PassOK(t) /\ pc[t] = "commitNames"
  BY DEF CopyInv, EntriesInv, CommitNames
<1>2. cache = table /\ NamesDecided(t)
  BY <1>1 DEF PassOK, NameSteps
<1>3. /\ Seen(t) \subseteq Known \cup todo[t].insert
      /\ todo[t].insert \cup todo[t].update \subseteq Seen(t)
      /\ todo[t].update \subseteq {d \in Known : facts[t][d].name # Blank}
  BY <1>1 DEF WorkOK, NameSteps
<1>4. table'[c] = IF c \in todo[t].insert THEN NamedEntry(facts[t][c].name)
                  ELSE IF c \in todo[t].update THEN Renamed(table[c], facts[t][c].name)
                  ELSE table[c]
  BY DEF CommitNames
<1>5. /\ Entries[c] = EntryOf(table[c]) /\ Entries'[c] = EntryOf(table'[c])
      /\ Entries[c] = None <=> table[c] = None
  BY <1>1, EntriesAre, EntriesType
<1>6. CASE facts[t][c] = None
  BY <1>3, <1>4, <1>5, <1>6 DEF Seen
<1>7. CASE facts[t][c] # None
  <2>1. c \in Seen(t) /\ facts[t][c] \in Fact /\ facts[t][c].name \in Names \cup {Blank}
    BY <1>1, <1>7 DEF Seen, TypeOK, Fact
  <2>2. CASE c \in todo[t].insert
    <3>1. table[c] = None
      BY <2>2 DEF CommitNames
    <3>2. Directory!Known(c) = Directory!NewEntry
      BY <1>5, <3>1 DEF Directory!Known
    <3> QED BY <1>4, <1>5, <1>7, <2>1, <2>2, <3>2, NameLearnt
  <2>3. CASE c \notin todo[t].insert
    <3>1. table[c] \in Entry /\ table[c] # None
      BY <1>1, <1>2, <1>3, <2>1, <2>3 DEF Known, TypeOK
    <3>2. Directory!Known(c) = EntryOf(table[c])
      BY <1>5, <3>1 DEF Directory!Known
    <3>3. CASE c \in todo[t].update
      <4>1. ~NameFixed(table[c]) /\ facts[t][c].name \in Names
        BY <1>2, <1>3, <2>1, <3>3 DEF NamesDecided
      <4>2. Entries'[c] = EntryOf(Renamed(table[c], facts[t][c].name))
        BY <1>4, <1>5, <2>3, <3>3
      <4> QED BY <1>7, <3>1, <3>2, <4>1, <4>2, NameLearnt
    <3>4. CASE c \notin todo[t].update
      <4>1. NameFixed(table[c]) \/ facts[t][c].name = Blank
        BY <1>2, <2>1, <2>3, <3>4 DEF NamesDecided
      <4>2. Entries'[c] = EntryOf(table[c])
        BY <1>4, <1>5, <2>3, <3>4
      <4> QED BY <1>7, <2>1, <3>1, <3>2, <4>1, <4>2, NameLearnt
    <3> QED BY <3>3, <3>4
  <2> QED BY <2>2, <2>3
<1> QED BY <1>6, <1>7

\* The commit of the names pass is the instant its page sees the names.
LEMMA CommitNamesSees ==
  ASSUME CopyInv, NEW t \in Threads, CommitNames(t)
  PROVE  Directory!Next
<1>1. Entries' = Directory!WithNames(facts[t])
  <2>1. Entries' = [c \in Codes |-> Entries'[c]]
    BY DEF Entries, EntryOf, By
  <2> QED BY <2>1, CommitLearnsName DEF Directory!WithNames
<1>2. Directory!SeeNames(t)
  BY <1>1 DEF CommitNames, Directory!SeeNames
<1> QED BY <1>2 DEF Directory!Next

\* The commit of the currency pass is the instant its page sees the currencies: by then
\* every hotel of the report has its entry.
LEMMA CommitCurrenciesSees ==
  ASSUME CopyInv, NEW t \in Threads, CommitCurrencies(t)
  PROVE  Directory!Next
<1>1. TypeOK /\ WorkOK(t) /\ PassOK(t) /\ pc[t] = "commitCurrencies"
  BY DEF CopyInv, EntriesInv, CommitCurrencies
<1>2. cache = table /\ CurrenciesDecided(t)
  BY <1>1 DEF PassOK, CurrencySteps
<1>3. /\ Seen(t) \subseteq Known /\ todo[t].insert = {}
      /\ todo[t].update \subseteq {d \in Seen(t) : facts[t][d].cur # Blank}
  BY <1>1 DEF WorkOK, CurrencySteps
<1>4. ASSUME NEW c \in Codes
      PROVE  Entries'[c] = IF facts[t][c] = None THEN Entries[c]
                           ELSE Directory!LearnCurrency(Directory!Known(c), facts[t][c].cur)
  <2>1. table'[c] = IF c \in todo[t].update THEN Recoined(table[c], facts[t][c].cur)
                    ELSE table[c]
    BY <1>3 DEF CommitCurrencies
  <2>2. /\ Entries[c] = EntryOf(table[c]) /\ Entries'[c] = EntryOf(table'[c])
        /\ Entries[c] = None <=> table[c] = None
    BY <1>1, EntriesAre, EntriesType
  <2>3. CASE facts[t][c] = None
    BY <1>3, <2>1, <2>2, <2>3 DEF Seen
  <2>4. CASE facts[t][c] # None
    <3>1. c \in Seen(t) /\ facts[t][c] \in Fact /\ facts[t][c].cur \in Currencies \cup {Blank}
      BY <1>1, <2>4 DEF Seen, TypeOK, Fact
    <3>2. table[c] \in Entry /\ table[c] # None
      BY <1>1, <1>2, <1>3, <3>1 DEF Known, TypeOK
    <3>3. Directory!Known(c) = EntryOf(table[c])
      BY <2>2, <3>2 DEF Directory!Known
    <3>4. CASE c \in todo[t].update
      <4>1. ~CurrencyFixed(table[c]) /\ facts[t][c].cur \in Currencies
        BY <1>2, <1>3, <3>1, <3>4 DEF CurrenciesDecided
      <4>2. Entries'[c] = EntryOf(Recoined(table[c], facts[t][c].cur))
        BY <2>1, <2>2, <3>4
      <4> QED BY <2>4, <3>2, <3>3, <4>1, <4>2, CurrencyLearnt
    <3>5. CASE c \notin todo[t].update
      <4>1. CurrencyFixed(table[c]) \/ facts[t][c].cur = Blank
        BY <1>2, <3>1, <3>5 DEF CurrenciesDecided
      <4>2. Entries'[c] = EntryOf(table[c])
        BY <2>1, <2>2, <3>5
      <4> QED BY <2>4, <3>1, <3>2, <3>3, <4>1, <4>2, CurrencyLearnt
    <3> QED BY <3>4, <3>5
  <2> QED BY <2>3, <2>4
<1>5. Entries' = Directory!WithCurrencies(facts[t])
  <2>1. Entries' = [c \in Codes |-> Entries'[c]]
    BY DEF Entries, EntryOf, By
  <2> QED BY <1>4, <2>1 DEF Directory!WithCurrencies
<1>6. Directory!SeeCurrencies(t)
  BY <1>5 DEF CommitCurrencies, Directory!SeeCurrencies
<1> QED BY <1>6 DEF Directory!Next

\* A page is answered when its report has nothing left to teach, and shows the directory.
LEMMA RenderShows ==
  ASSUME CopyInv, NEW t \in Threads, Render(t)
  PROVE  Directory!Next
<1>1. TypeOK /\ WorkOK(t) /\ PassOK(t) /\ pc[t] = "render"
  BY DEF CopyInv, EntriesInv, Render
<1>2. cache = table /\ NamesUsed(t) /\ CurrenciesUsed(t) /\ Seen(t) \subseteq Known
  BY <1>1 DEF PassOK, WorkOK
<1>3. ASSUME NEW c \in Codes, facts[t][c] # None
      PROVE  /\ Directory!LearnName(Directory!Known(c), facts[t][c].name) = Entries[c]
             /\ Directory!LearnCurrency(Directory!Known(c), facts[t][c].cur) = Entries[c]
  <2>1. /\ c \in Seen(t) /\ facts[t][c].name \in Names \cup {Blank}
        /\ facts[t][c].cur \in Currencies \cup {Blank}
    BY <1>1, <1>3 DEF Seen, TypeOK, Fact
  <2>2. table[c] \in Entry /\ table[c] # None
    BY <1>1, <1>2, <2>1 DEF Known, TypeOK
  <2>3. Entries[c] = EntryOf(table[c]) /\ Directory!Known(c) = EntryOf(table[c])
    BY <1>1, <2>2, EntriesAre, EntriesType DEF Directory!Known
  <2>4. NameFixed(table[c]) \/ facts[t][c].name = Blank
    BY <1>2, <2>1 DEF NamesUsed
  <2>5. CurrencyFixed(table[c]) \/ facts[t][c].cur = Blank
    BY <1>2, <2>1 DEF CurrenciesUsed
  <2> QED BY <2>1, <2>2, <2>3, <2>4, <2>5, NameLearnt, CurrencyLearnt
<1>4. Entries = [c \in Codes |-> Entries[c]]
  BY DEF Entries
<1>5. Directory!WithNames(facts[t]) = Entries /\ Directory!WithCurrencies(facts[t]) = Entries
  BY <1>3, <1>4 DEF Directory!WithNames, Directory!WithCurrencies
<1>6. shown' = [c \in Codes |-> IF Entries[c] = None THEN None
                                ELSE [name |-> Entries[c].name, cur |-> Entries[c].cur]]
  <2>1. ASSUME NEW c \in Codes
        PROVE  (IF cache[c] = None THEN None ELSE [name |-> cache[c].name, cur |-> cache[c].cur])
                 = IF Entries[c] = None THEN None
                   ELSE [name |-> Entries[c].name, cur |-> Entries[c].cur]
    BY <1>1, <1>2, EntriesAre, EntriesType, EntryIs
  <2> QED BY <2>1 DEF Render
<1>7. facts' = [facts EXCEPT ![t] = Directory!NoReport] /\ Entries' = Entries
  BY EntriesAre DEF Render, Finish, NoFacts, Directory!NoReport
<1>8. Directory!Show(t)
  BY <1>5, <1>6, <1>7 DEF Directory!Show
<1> QED BY <1>8 DEF Directory!Next

\* The commit of a post is the instant of the edit.
LEMMA CommitUpdateEdits ==
  ASSUME CopyInv, CopyInv', ShownInv, NEW t \in Threads, CommitUpdate(t)
  PROVE  Directory!Next
<1> DEFINE d == form[t].code
           n == form[t].name
           cu == form[t].cur
<1>1. /\ TypeOK /\ FormOK(t) /\ PassOK(t) /\ pc[t] = "commitUpdate"
      /\ UNCHANGED <<cache, form, facts, shown>>
  BY DEF CopyInv, EntriesInv, CommitUpdate
<1>2. form[t] \in Form /\ d \in Codes /\ n \in FormNames /\ cu \in FormCurrencies
  BY <1>1 DEF TypeOK, Form, FormOK, UpdateSteps
<1>3. cache = table /\ form[t].row = table[d] /\ shown[d] # None
  BY <1>1 DEF PassOK, ShownInv, UpdateSteps
<1>4. table[d] \in Entry /\ table[d] # None
  BY <1>1, <1>2, <1>3 DEF ShownInv, TypeOK
<1>5. table' = [table EXCEPT ![d] = Edited(table[d], n, cu)]
  <2>1. pc'[t] = "assignUpdate" /\ PassOK(t)'
    BY <1>1 DEF CopyInv, TypeOK, CommitUpdate, Goto
  <2>2. table' = [cache' EXCEPT ![form'[t].code] = View(t)']
    BY <2>1 DEF PassOK
  <2>3. View(t)' = View(t)
    BY <1>1 DEF View, Edited
  <2>4. View(t) = Edited(table[d], n, cu)
    BY <1>3 DEF View
  <2> QED BY <1>1, <1>3, <2>2, <2>3, <2>4
<1> DEFINE signed == Directory!Signed(Entries[d], n, cu)
<1>6. EntryOf(Edited(table[d], n, cu)) = signed
  BY <1>2, <1>4, EditSigned, EntriesAre
<1> HIDE DEF d, n, cu
<1>7. Entries' = [Entries EXCEPT ![d] = signed]
  <2>1. ASSUME NEW c \in Codes PROVE Entries'[c] = IF c = d THEN signed ELSE Entries[c]
    BY <1>1, <1>2, <1>5, <1>6, EntriesAre DEF TypeOK
  <2>2. Entries' = [c \in Codes |-> Entries'[c]] /\ Entries = [c \in Codes |-> Entries[c]]
    BY DEF Entries, EntryOf, By
  <2> HIDE DEF signed
  <2> QED BY <1>2, <2>1, <2>2
<1>8. Directory!Edit(d, n, cu)
  BY <1>1, <1>2, <1>3, <1>4, <1>7, EntriesType DEF Directory!Edit
<1>9. n \in Names \cup {TheCode, Blank} /\ cu \in Currencies \cup {Blank}
  BY <1>2 DEF FormNames, FormCurrencies
<1> QED BY <1>2, <1>8, <1>9 DEF Directory!Next

\* Every step is a step of the directory or a stutter.
LEMMA NextIsDirectory ==
  CopyInv /\ CopyInv' /\ ShownInv /\ [Next]_vars => [Directory!Next]_(Directory!vars)
<1> SUFFICES ASSUME CopyInv, CopyInv', ShownInv, [Next]_vars
             PROVE  [Directory!Next]_(Directory!vars)
  OBVIOUS
<1>1. TypeOK
  BY DEF CopyInv, EntriesInv
<1>2. CASE Restart
  BY <1>2, RestartAbandons
<1>3. ASSUME NEW t \in Threads, NEW fs \in [Codes -> Fact \cup {None}], LoadPage(t, fs)
      PROVE  Directory!Next
  BY <1>3, LoadPageOpens
<1>4. ASSUME NEW t \in Threads,
             \/ DecideNames(t) \/ ApplyNames(t) \/ DecideCurrencies(t) \/ ApplyCurrencies(t)
             \/ \E c \in Codes, n \in FormNames, cu \in FormCurrencies : PostProperty(t, c, n, cu)
             \/ GetRow(t)
      PROVE  UNCHANGED Directory!vars
  <2>1. UNCHANGED <<table, facts, shown>>
    BY <1>4 DEF DecideNames, ApplyNames, DecideCurrencies, ApplyCurrencies, PostProperty, GetRow
  <2> QED BY <2>1, Stutters
<1>5. ASSUME NEW t \in Threads, AssignUpdate(t) \/ Fail(t)
      PROVE  Directory!Next
  <2>1. Finish(t) /\ UNCHANGED <<table, shown>>
    BY <1>5 DEF AssignUpdate, Fail
  <2> QED BY <1>1, <2>1, FinishAbandons
<1>6. ASSUME NEW t \in Threads,
             CommitNames(t) \/ CommitCurrencies(t) \/ Render(t) \/ CommitUpdate(t)
      PROVE  Directory!Next
  BY <1>6, CommitNamesSees, CommitCurrenciesSees, RenderShows, CommitUpdateEdits
<1>7. CASE UNCHANGED vars
  BY <1>7, Stutters DEF vars
<1> QED BY <1>2, <1>3, <1>4, <1>5, <1>6, <1>7 DEF Next

\* With one thread the store is the directory it promises (README.md:163-168): decided
\* from a copy, committed, copied, failed halfway or restarted, a page learns just what
\* nobody has said yet, and only a post takes back what a report or a hand has said
\* (property_store.py:76-176).
THEOREM StoreIsDirectory == OneThread /\ Spec => ImplementsDirectory
<1>1. Init => Directory!Init
  <2> SUFFICES ASSUME Init PROVE Directory!Init
    OBVIOUS
  <2>1. Entries = [c \in Codes |-> None]
    BY DEF Init, Entries, EntryOf
  <2> QED BY <2>1 DEF Init, NoFacts, Directory!Init, Directory!NoReport
<1> QED BY <1>1, AlwaysCopyInv, AlwaysShownInv, NextIsDirectory, PTL
    DEF Spec, ImplementsDirectory, Directory!Spec
=============================================================================
