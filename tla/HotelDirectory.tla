--------------------------- MODULE HotelDirectory ---------------------------
(***************************************************************************)
(* What PropertyStore promises (README.md:163-168, property_store.py:76-82,*)
(* 112-114): one directory of the hotels.  A page learns from its report   *)
(* whatever nobody has said yet, the names at one instant and the          *)
(* currencies at another, and answers only when nothing is left to learn;  *)
(* what a report or somebody's hand has said, only a hand changes.         *)
(***************************************************************************)
CONSTANTS Threads, Codes, Names, TheCode, Currencies, EUR, Blank, None

VARIABLES
  entries,  \* Codes -> what is known of the hotel, None: it has not been seen
  reports,  \* Threads -> Codes -> the name and currency a page's report has, or None
  shown     \* Codes -> the name and currency the last page showed, or None

vars == <<entries, reports, shown>>

Who == {"nobody", "report", "hand"}
Entry == [name : Names \cup {TheCode}, nameBy : Who, cur : Currencies, curBy : Who]
Report == [Codes -> [name : Names \cup {Blank}, cur : Currencies \cup {Blank}] \cup {None}]

NewEntry == [name |-> TheCode, nameBy |-> "nobody", cur |-> EUR, curBy |-> "nobody"]
NoReport == [c \in Codes |-> None]

Init ==
  /\ entries = [c \in Codes |-> None]
  /\ reports = [t \in Threads |-> NoReport]
  /\ shown = [c \in Codes |-> None]

Known(c) == IF entries[c] = None THEN NewEntry ELSE entries[c]

LearnName(e, n) ==
  IF e.nameBy = "nobody" /\ n # Blank THEN [e EXCEPT !.name = n, !.nameBy = "report"] ELSE e

LearnCurrency(e, cu) ==
  IF e.curBy = "nobody" /\ cu # Blank THEN [e EXCEPT !.cur = cu, !.curBy = "report"] ELSE e

WithNames(r) ==
  [c \in Codes |-> IF r[c] = None THEN entries[c] ELSE LearnName(Known(c), r[c].name)]

WithCurrencies(r) ==
  [c \in Codes |-> IF r[c] = None THEN entries[c] ELSE LearnCurrency(Known(c), r[c].cur)]

Open(t, r) ==
  /\ reports' = [reports EXCEPT ![t] = r]
  /\ UNCHANGED <<entries, shown>>

SeeNames(t) ==
  /\ entries' = WithNames(reports[t])
  /\ UNCHANGED <<reports, shown>>

SeeCurrencies(t) ==
  /\ entries' = WithCurrencies(reports[t])
  /\ UNCHANGED <<reports, shown>>

Show(t) ==
  /\ WithNames(reports[t]) = entries
  /\ WithCurrencies(reports[t]) = entries
  /\ shown' = [c \in Codes |-> IF entries[c] = None THEN None
                               ELSE [name |-> entries[c].name, cur |-> entries[c].cur]]
  /\ reports' = [reports EXCEPT ![t] = NoReport]
  /\ UNCHANGED entries

\* A request ends without a page, or the process does with all of them.
Abandon(ts) ==
  /\ reports' = [t \in Threads |-> IF t \in ts THEN NoReport ELSE reports[t]]
  /\ UNCHANGED <<entries, shown>>

Signed(e, n, cu) ==
  LET named == [e EXCEPT !.name = IF n = Blank THEN TheCode ELSE n, !.nameBy = "hand"] IN
  IF cu = Blank THEN named ELSE [named EXCEPT !.cur = cu, !.curBy = "hand"]

\* Only for a hotel some page has shown.
Edit(c, n, cu) ==
  /\ shown[c] # None
  /\ entries[c] # None
  /\ entries' = [entries EXCEPT ![c] = Signed(entries[c], n, cu)]
  /\ UNCHANGED <<reports, shown>>

Next ==
  \/ \E t \in Threads :
       \/ \E r \in Report : Open(t, r)
       \/ SeeNames(t) \/ SeeCurrencies(t) \/ Show(t)
  \/ \E ts \in SUBSET Threads : Abandon(ts)
  \/ \E c \in Codes, n \in Names \cup {TheCode, Blank}, cu \in Currencies \cup {Blank} :
       Edit(c, n, cu)

Spec == Init /\ [][Next]_vars
=============================================================================
