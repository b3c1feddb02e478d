-------------------------- MODULE RuleStoreProofs --------------------------
(***************************************************************************)
(* What holds of RuleStore, and of CancellationCheck on top of it, for     *)
(* every set of threads, policies, form values and cancellations, with or  *)
(* without database failures.                                              *)
(*                                                                         *)
(* That a late write of ensure_known never lands on a configured rule      *)
(* rests on a chain: what it is about to write is in the table by its own  *)
(* INSERT, so nobody else has inserted it; hence the copy does not have it *)
(* yet; hence no page has shown it; hence nobody can have posted its form. *)
(* NewOK is that chain for one thread, PostOK what a post relies on.       *)
(***************************************************************************)
EXTENDS CancellationCheck, TLAPS

Stored == {p \in Policies : table[p] # None}
Known == {p \in Policies : cache[p] # None}
ByHand(store, p) == store[p] # None /\ store[p].src = "manual"
UpdateSteps == {"getRow", "commitUpdate", "assignUpdate"}

\* What ensure_known is about to write over the copy.
NewOK(t) ==
  pc[t] = "applyKnown" => \A p \in new[t] :
    /\ p \in Stored /\ p \notin Known /\ p \notin shown
    /\ \A u \in Threads \ {t} : pc[u] = "applyKnown" => p \notin new[u]

\* What a post has loaded: no column it takes for set is unset since.
PostOK(t) ==
  LET p == form[t].policy
      row == form[t].row IN
  /\ pc[t] \in UpdateSteps => p \in shown /\ form[t].edit \in Edit
  /\ pc[t] = "commitUpdate" =>
       /\ row # None
       /\ row.fee # None => table[p].fee # None
       /\ row.late # None => table[p].late # None
       /\ row.src = "manual" => table[p].src = "manual"
  /\ pc[t] = "assignUpdate" => ByHand(table, p)

RulesInv ==
  /\ TypeOK
  /\ UnknownIsNotGuessed
  /\ Known \subseteq Stored /\ shown \subseteq Stored
  /\ \A p \in Policies : ByHand(cache, p) => ByHand(table, p)
  /\ \A t \in Threads : NewOK(t) /\ PostOK(t)

\* Rows stay, and so does what is set in them.
Grows ==
  \A p \in Policies : table[p] # None =>
    /\ table'[p] # None
    /\ table[p].fee # None => table'[p].fee # None
    /\ table[p].late # None => table'[p].late # None
    /\ table[p].src = "manual" => table'[p].src = "manual"

Untouched(u) == pc'[u] = pc[u] /\ new'[u] = new[u] /\ form'[u] = form[u]

(***************************************************************************)
(* The operators on entries.                                               *)
(***************************************************************************)

\* A detected meaning is a configured entry.
LEMMA DetectedEntry ==
  ASSUME NEW fee \in Fees, NEW late \in BOOLEAN, NEW days \in Nat \cup {None},
         NEW cutoff \in Cutoff \cup {None}
  PROVE  Detected(fee, late, days, cutoff) \in Entry
         /\ Detected(fee, late, days, cutoff).src = "auto"
<1> DEFINE e == Detected(fee, late, days, cutoff)
<1>1. e \in AnyEntry
  BY DEF Detected, AnyEntry
<1>2. e.fee = fee /\ e.late = late /\ e.src = "auto"
  BY DEF Detected
<1>3. fee # None /\ late # None
  BY NoneAssumption, Zenon
<1> HIDE DEF e
<1> QED BY <1>1, <1>2, <1>3 DEF Entry, e

\* _auto_detect makes an entry of any policy text, never one by hand, and no
\* configured one of a text it does not know (rules_store.py:56-110).
LEMMA DetectedType ==
  ASSUME NEW p \in Policies
  PROVE  /\ AutoDetect(p) \in Entry
         /\ AutoDetect(p).src = "auto"
         /\ p.kind = "other" => ~AutoDetect(p).configured
<1>1. p \in Policy
  BY RuleAssumptions
<1>2. CASE p \in [kind : {"firstNight", "fullStay"}, days : Nat]
  <2>1. p.kind \in {"firstNight", "fullStay"} /\ p.days \in Nat
    BY <1>2
  <2> DEFINE fee == IF p.kind = "firstNight" THEN "first_night" ELSE "full_stay"
  <2>2. AutoDetect(p) = Detected(fee, FALSE, p.days, None)
    BY <2>1 DEF AutoDetect
  <2>3. fee \in Fees /\ p.kind # "other"
    BY <2>1 DEF Fees
  <2> HIDE DEF fee
  <2> QED BY <2>1, <2>2, <2>3, DetectedEntry
<1>3. CASE p \in [kind : {"nrf"}]
  <2>1. p.kind = "nrf"
    BY <1>3
  <2>2. AutoDetect(p) = Detected("full_stay", TRUE, None, None)
    BY <2>1 DEF AutoDetect
  <2> QED BY <2>1, <2>2, DetectedEntry DEF Fees
<1>4. CASE p \in [kind : {"doa"}, hour : 0..99, minute : 0..99, pm : BOOLEAN]
  <2>1. DoaCutoff(p) \in Cutoff
    BY <1>4 DEF DoaCutoff, Hour24, Cutoff
  <2>2. p.kind = "doa"
    BY <1>4
  <2>3. AutoDetect(p) = Detected("first_night", FALSE, 0, DoaCutoff(p))
    BY <2>2 DEF AutoDetect
  <2> QED BY <2>1, <2>2, <2>3, DetectedEntry DEF Fees
<1>5. CASE p \in [kind : {"other"}]
  <2>1. p.kind = "other"
    BY <1>5
  <2>2. AutoDetect(p) = NeedsSetup
    BY <2>1 DEF AutoDetect
  <2> QED BY <2>2, NoneAssumption DEF NeedsSetup, Entry, AnyEntry
<1> QED BY <1>1, <1>2, <1>3, <1>4, <1>5 DEF Policy

\* What update assigns is a configured entry by hand (rules_store.py:166-174).
LEMMA ViewType ==
  ASSUME NEW t \in Threads, form[t].edit \in Edit
  PROVE  /\ View(t) \in Entry
         /\ View(t).src = "manual" /\ View(t).fee # None /\ View(t).late # None
<1> DEFINE edit == form[t].edit
<1>1. /\ edit.fee \in Fees /\ edit.late \in BOOLEAN
      /\ edit.days \in Nat /\ edit.cutoff \in Cutoff \cup {None}
  <2>1. edit.fee \in Fees /\ edit.late \in BOOLEAN /\ edit.days \in FormDays
        /\ edit.cutoff \in FormTimes
    BY DEF Edit
  <2>2. edit.cutoff \in [h : 0..23, m : 0..59] \cup {None}
    BY <2>1, RuleAssumptions
  <2>3. edit.cutoff \in [h : 0..23, m : 0..59] => edit.cutoff \in Cutoff
    BY DEF Cutoff
  <2> QED BY <2>1, <2>2, <2>3, RuleAssumptions
<1> HIDE DEF edit
<1>2. View(t) = [fee |-> edit.fee, late |-> edit.late,
                 days |-> IF edit.late THEN None ELSE edit.days,
                 cutoff |-> IF edit.late THEN None ELSE edit.cutoff,
                 configured |-> TRUE, src |-> "manual"]
  BY DEF View, edit
<1> QED BY <1>1, <1>2, NoneAssumption DEF Entry, AnyEntry

\* The columns of an UPDATE and those it leaves: a row by hand, and nothing that is
\* set in the row is unset.
LEMMA MergedType ==
  ASSUME NEW new0 \in Entry, NEW old \in Entry, NEW row \in Entry,
         new0.src = "manual", new0.fee # None, new0.late # None,
         old.fee # None => row.fee # None, old.late # None => row.late # None,
         old.src = "manual" => row.src = "manual"
  PROVE  LET m == [f \in DOMAIN old |-> IF new0[f] # old[f] THEN new0[f] ELSE row[f]] IN
         /\ m \in Entry
         /\ m.fee # None /\ m.late # None /\ m.src = "manual"
<1> DEFINE m == [f \in DOMAIN old |-> IF new0[f] # old[f] THEN new0[f] ELSE row[f]]
<1>1. DOMAIN old = {"fee", "late", "days", "cutoff", "configured", "src"}
  BY DEF Entry, AnyEntry
<1>2. m = [fee |-> m.fee, late |-> m.late, days |-> m.days, cutoff |-> m.cutoff,
           configured |-> m.configured, src |-> m.src]
  BY <1>1
<1>3. /\ m.fee = IF new0.fee # old.fee THEN new0.fee ELSE row.fee
      /\ m.late = IF new0.late # old.late THEN new0.late ELSE row.late
      /\ m.days \in {new0.days, row.days} /\ m.cutoff \in {new0.cutoff, row.cutoff}
      /\ m.configured \in {new0.configured, row.configured}
      /\ m.src = IF new0.src # old.src THEN new0.src ELSE row.src
  BY <1>1
<1> HIDE DEF m
<1>4. m.fee # None /\ m.late # None /\ m.src = "manual"
  BY <1>3
<1>5. m.fee \in Fees \cup {None} /\ m.late \in BOOLEAN \cup {None}
  <2>1. new0.fee \in Fees \cup {None} /\ row.fee \in Fees \cup {None}
    BY DEF Entry, AnyEntry
  <2>2. new0.late \in BOOLEAN \cup {None} /\ row.late \in BOOLEAN \cup {None}
    BY DEF Entry, AnyEntry
  <2> QED BY <1>3, <2>1, <2>2
<1>6. m.days \in Nat \cup {None} /\ m.cutoff \in Cutoff \cup {None} /\ m.configured \in BOOLEAN
  BY <1>3 DEF Entry, AnyEntry
<1>7. m \in AnyEntry
  BY <1>2, <1>4, <1>5, <1>6 DEF AnyEntry
<1>8. m \in Entry
  BY <1>4, <1>7 DEF Entry
<1> QED BY <1>4, <1>8 DEF m

(***************************************************************************)
(* What one thread's step leaves to the others.                            *)
(***************************************************************************)

\* A step of t keeps the invariant if it keeps it for t and takes nothing from
\* under the late writes and the posts of the other threads.
LEMMA StepKeeps ==
  ASSUME RulesInv, TypeOK', UnknownIsNotGuessed', NEW t \in Threads, Grows,
         shown \subseteq shown', Known' \subseteq Stored', shown' \subseteq Stored',
         \A p \in Policies : ByHand(cache', p) => ByHand(table', p),
         \A u \in Threads \ {t} : Untouched(u),
         NewOK(t)', PostOK(t)',
         \A u \in Threads \ {t} : pc[u] = "applyKnown" => \A p \in new[u] :
           /\ p \notin Known' /\ p \notin shown'
           /\ pc'[t] = "applyKnown" => p \notin new'[t]
  PROVE  RulesInv'
<1>1. ASSUME NEW u \in Threads, u # t  PROVE NewOK(u)'
  <2>1. Untouched(u) /\ NewOK(u)
    BY <1>1 DEF RulesInv
  <2>2. SUFFICES ASSUME pc[u] = "applyKnown", NEW p \in new[u]
                 PROVE  /\ p \in Stored' /\ p \notin Known' /\ p \notin shown'
                        /\ \A v \in Threads \ {u} : pc'[v] = "applyKnown" => p \notin new'[v]
    BY <2>1 DEF NewOK, Untouched
  <2>3. p \in Stored'
    BY <2>1, <2>2 DEF NewOK, Grows, Stored
  <2>4. p \notin Known' /\ p \notin shown' /\ (pc'[t] = "applyKnown" => p \notin new'[t])
    BY <1>1, <2>2
  <2>5. ASSUME NEW v \in Threads, v # u, pc'[v] = "applyKnown"  PROVE p \notin new'[v]
    <3>1. CASE v = t
      BY <2>4, <2>5, <3>1
    <3>2. CASE v # t
      <4>1. Untouched(v)
        BY <3>2
      <4> QED BY <2>1, <2>2, <2>5, <4>1 DEF NewOK, Untouched
    <3> QED BY <3>1, <3>2
  <2> QED BY <2>3, <2>4, <2>5
<1>2. ASSUME NEW u \in Threads, u # t  PROVE PostOK(u)'
  <2>1. Untouched(u) /\ PostOK(u)
    BY <1>2 DEF RulesInv
  <2>2. shown \subseteq Policies
    BY DEF RulesInv, TypeOK
  <2>3. pc[u] \in UpdateSteps => form[u].policy \in Policies /\ table[form[u].policy] # None
    BY <2>1, <2>2 DEF PostOK, RulesInv, Stored
  <2>4. pc[u] = "commitUpdate" =>
          LET p == form[u].policy
              row == form[u].row IN
          /\ row # None
          /\ row.fee # None => table'[p].fee # None
          /\ row.late # None => table'[p].late # None
          /\ row.src = "manual" => table'[p].src = "manual"
    BY <2>1, <2>3 DEF PostOK, Grows, UpdateSteps
  <2>5. pc[u] = "assignUpdate" => ByHand(table', form[u].policy)
    BY <2>1, <2>3 DEF PostOK, Grows, UpdateSteps, ByHand
  <2> QED BY <2>1, <2>4, <2>5 DEF PostOK, Untouched, ByHand
<1>3. \A p \in Policies : ByHand(cache, p)' => ByHand(table, p)'
  BY DEF ByHand
<1> QED BY <1>1, <1>2, <1>3 DEF RulesInv

\* A step that leaves table, copy and pages alone and writes nothing late.
LEMMA QuietStepKeeps ==
  ASSUME RulesInv, TypeOK', NEW t \in Threads, UNCHANGED <<table, cache, shown>>,
         \A u \in Threads \ {t} : Untouched(u), pc'[t] # "applyKnown", PostOK(t)'
  PROVE  RulesInv'
<1>1. Grows /\ UnknownIsNotGuessed' /\ Known' = Known /\ Stored' = Stored
  BY DEF Grows, RulesInv, UnknownIsNotGuessed, Known, Stored
<1>2. \A p \in Policies : ByHand(cache', p) => ByHand(table', p)
  BY DEF RulesInv, ByHand
<1>3. NewOK(t)'
  BY DEF NewOK
<1>4. \A u \in Threads \ {t} : pc[u] = "applyKnown" => \A p \in new[u] :
        p \notin Known' /\ p \notin shown'
  BY <1>1 DEF RulesInv, NewOK
<1> QED BY <1>1, <1>2, <1>3, <1>4, StepKeeps DEF RulesInv

\* A request that has ended relies on nothing.
LEMMA FinishOK ==
  ASSUME TypeOK, NEW t \in Threads, Finish(t)
  PROVE  /\ pc'[t] = "idle" /\ \A u \in Threads \ {t} : Untouched(u)
         /\ NewOK(t)' /\ PostOK(t)'
         /\ pc' \in [Threads -> {"idle", "known", "commitKnown", "applyKnown", "evaluate",
                                 "getRow", "commitUpdate", "assignUpdate"}]
         /\ seen' \in [Threads -> SUBSET Policies] /\ new' \in [Threads -> SUBSET Policies]
         /\ form' \in [Threads -> Form]
<1>1. pc'[t] = "idle" /\ \A u \in Threads \ {t} : Untouched(u)
  BY DEF TypeOK, Finish, Goto, Untouched
<1>2. NewOK(t)' /\ PostOK(t)'
  BY <1>1 DEF NewOK, PostOK, UpdateSteps
<1>3. NoForm \in Form
  BY DEF NoForm, Form
<1>4. form' \in [Threads -> Form]
  BY <1>3 DEF TypeOK, Finish
<1> QED BY <1>1, <1>2, <1>4 DEF TypeOK, Finish, Goto

\* The invariant holds before the first request.
LEMMA InitRulesInv == Init => RulesInv
<1> SUFFICES ASSUME Init PROVE RulesInv
  OBVIOUS
<1>1. TypeOK
  BY DEF Init, TypeOK, NoForm, Form
<1>2. UnknownIsNotGuessed /\ Known = {} /\ shown = {} /\ \A p \in Policies : ~ByHand(cache, p)
  BY DEF Init, UnknownIsNotGuessed, Known, ByHand
<1>3. \A t \in Threads : NewOK(t) /\ PostOK(t)
  BY DEF Init, NewOK, PostOK, UpdateSteps
<1> QED BY <1>1, <1>2, <1>3 DEF RulesInv

(***************************************************************************)
(* The steps of a page load.                                               *)
(***************************************************************************)

\* A page load begins.
LEMMA LoadPageKeeps ==
  ASSUME RulesInv, NEW t \in Threads, NEW ps \in SUBSET Policies, LoadPage(t, ps)
  PROVE  RulesInv'
<1>1. TypeOK
  BY DEF RulesInv
<1>2. TypeOK'
  BY <1>1 DEF TypeOK, LoadPage, Goto
<1>3. pc'[t] = "known" /\ \A u \in Threads \ {t} : Untouched(u)
  BY <1>1 DEF TypeOK, LoadPage, Goto, Untouched
<1>4. PostOK(t)'
  BY <1>3 DEF PostOK, UpdateSteps
<1>5. UNCHANGED <<table, cache, shown>>
  BY DEF LoadPage
<1> QED BY <1>2, <1>3, <1>4, <1>5, QuietStepKeeps

\* ensure_known decides and changes nothing.
LEMMA DecideKnownKeeps ==
  ASSUME RulesInv, NEW t \in Threads, DecideKnown(t)
  PROVE  RulesInv'
<1>1. TypeOK
  BY DEF RulesInv
<1>2. TypeOK'
  BY <1>1 DEF TypeOK, DecideKnown, Goto
<1>3. pc'[t] \in {"evaluate", "commitKnown"} /\ \A u \in Threads \ {t} : Untouched(u)
  BY <1>1 DEF TypeOK, DecideKnown, Goto, Untouched
<1>4. PostOK(t)'
  BY <1>3 DEF PostOK, UpdateSteps
<1>5. UNCHANGED <<table, cache, shown>>
  BY DEF DecideKnown
<1> QED BY <1>2, <1>3, <1>4, <1>5, QuietStepKeeps

\* The INSERTs succeed only where there is no row: then the copy has no entry, no
\* page has shown the policy, and no other thread is about to write it.
LEMMA CommitKnownKeeps ==
  ASSUME RulesInv, NEW t \in Threads, CommitKnown(t)
  PROVE  RulesInv'
<1>1. TypeOK
  BY DEF RulesInv
<1>2. \A p \in Policies : table'[p] = IF p \in new[t] THEN AutoDetect(p) ELSE table[p]
  BY DEF CommitKnown
<1>3. /\ \A p \in new[t] : p \in Policies /\ table[p] = None
      /\ UNCHANGED <<cache, seen, new, form, shown>>
  BY <1>1 DEF CommitKnown, TypeOK
<1>4. pc'[t] = "applyKnown" /\ \A u \in Threads \ {t} : Untouched(u)
  BY <1>1 DEF TypeOK, CommitKnown, Goto, Untouched
<1>5. \A p \in Policies : table'[p] \in Entry \cup {None}
  BY <1>1, <1>2, DetectedType DEF TypeOK
<1>6. \A p \in Policies : AutoDetect(p) # None
  BY DetectedType, NoneAssumption
<1>7. TypeOK'
  <2>1. table' \in [Policies -> Entry \cup {None}]
    BY <1>5 DEF CommitKnown
  <2> QED BY <1>1, <2>1 DEF TypeOK, CommitKnown, Goto
<1>8. UnknownIsNotGuessed'
  <2>1. ASSUME NEW p \in Policies, p.kind = "other", table'[p] # None, table'[p].configured
        PROVE  table'[p].src = "manual"
    BY <1>2, <2>1, DetectedType DEF RulesInv, UnknownIsNotGuessed
  <2>2. \A p \in Policies : p.kind = "other" /\ cache'[p] # None /\ cache'[p].configured
                              => cache'[p].src = "manual"
    BY <1>3 DEF RulesInv, UnknownIsNotGuessed
  <2> QED BY <2>1, <2>2 DEF UnknownIsNotGuessed
<1>9. Grows
  BY <1>2, <1>3 DEF Grows
<1>10. Known' = Known /\ shown' = shown /\ Stored \subseteq Stored' /\ new[t] \subseteq Stored'
  BY <1>2, <1>3, <1>6 DEF Known, Stored
<1>11. Known' \subseteq Stored' /\ shown' \subseteq Stored'
  BY <1>10 DEF RulesInv
<1>12. \A p \in Policies : ByHand(cache', p) => ByHand(table', p)
  BY <1>3, <1>9 DEF RulesInv, ByHand, Grows
<1>13. \A p \in new[t] : p \notin Stored /\ p \notin Known /\ p \notin shown
  BY <1>3 DEF Stored, RulesInv
<1>14. ASSUME NEW u \in Threads, u # t, pc[u] = "applyKnown", NEW p \in new[u]
       PROVE  p \notin Known' /\ p \notin shown' /\ p \notin new'[t]
  <2>1. p \in Stored /\ p \notin Known /\ p \notin shown
    BY <1>14 DEF RulesInv, NewOK
  <2> QED BY <1>3, <1>10, <1>13, <2>1
<1>15. NewOK(t)'
  <2>1. ASSUME NEW p \in new'[t]
        PROVE  /\ p \in Stored' /\ p \notin Known' /\ p \notin shown'
               /\ \A u \in Threads \ {t} : pc'[u] = "applyKnown" => p \notin new'[u]
    <3>1. ASSUME NEW u \in Threads, u # t, pc'[u] = "applyKnown"  PROVE p \notin new'[u]
      BY <1>4, <1>14, <2>1, <3>1 DEF Untouched
    <3> QED BY <1>3, <1>10, <1>13, <2>1, <3>1
  <2> QED BY <2>1 DEF NewOK
<1>16. PostOK(t)'
  BY <1>4 DEF PostOK, UpdateSteps
<1> QED BY <1>4, <1>7, <1>8, <1>9, <1>10, <1>11, <1>12, <1>14, <1>15, <1>16, StepKeeps

\* The late write of ensure_known lands where the copy has nothing.
LEMMA ApplyKnownKeeps ==
  ASSUME RulesInv, NEW t \in Threads, ApplyKnown(t)
  PROVE  RulesInv' /\ \A p \in Policies : cache[p] # None => cache'[p] = cache[p]
<1>1. TypeOK /\ NewOK(t)
  BY DEF RulesInv
<1>2. \A p \in Policies : cache'[p] = IF p \in new[t] THEN AutoDetect(p) ELSE cache[p]
  BY DEF ApplyKnown
<1>3. /\ \A p \in new[t] : p \in Policies /\ p \in Stored /\ p \notin Known
      /\ UNCHANGED <<table, seen, new, form, shown>>
  BY <1>1 DEF ApplyKnown, TypeOK, NewOK
<1>4. pc'[t] = "evaluate" /\ \A u \in Threads \ {t} : Untouched(u)
  BY <1>1 DEF TypeOK, ApplyKnown, Goto, Untouched
<1>5. TypeOK'
  <2>1. \A p \in Policies : cache'[p] \in Entry \cup {None}
    BY <1>1, <1>2, DetectedType DEF TypeOK
  <2>2. cache' \in [Policies -> Entry \cup {None}]
    BY <2>1 DEF ApplyKnown
  <2> QED BY <1>1, <2>2 DEF TypeOK, ApplyKnown, Goto
<1>6. UnknownIsNotGuessed'
  <2>1. ASSUME NEW p \in Policies, p.kind = "other", cache'[p] # None, cache'[p].configured
        PROVE  cache'[p].src = "manual"
    BY <1>2, <2>1, DetectedType DEF RulesInv, UnknownIsNotGuessed
  <2>2. \A p \in Policies : p.kind = "other" /\ table'[p] # None /\ table'[p].configured
                              => table'[p].src = "manual"
    BY <1>3 DEF RulesInv, UnknownIsNotGuessed
  <2> QED BY <2>1, <2>2 DEF UnknownIsNotGuessed
<1>7. Grows /\ Stored' = Stored
  BY <1>3 DEF Grows, Stored
<1>8. Known' \subseteq Known \cup new[t]
  BY <1>2 DEF Known
<1>9. Known' \subseteq Stored' /\ shown' \subseteq Stored'
  BY <1>3, <1>7, <1>8 DEF RulesInv
<1>10. \A p \in Policies : ByHand(cache', p) => ByHand(table', p)
  <2>1. ASSUME NEW p \in Policies, ByHand(cache', p)  PROVE ByHand(table', p)
    <3>1. "auto" # "manual"
      OBVIOUS
    <3>2. cache'[p] = cache[p]
      BY <1>2, <2>1, <3>1, DetectedType DEF ByHand
    <3> QED BY <1>3, <2>1, <3>2 DEF RulesInv, ByHand
  <2> QED BY <2>1
<1>11. ASSUME NEW u \in Threads, u # t, pc[u] = "applyKnown", NEW p \in new[u]
       PROVE  p \notin Known' /\ p \notin shown'
  <2>1. p \notin Known /\ p \notin shown /\ p \notin new[t]
    <3>1. pc[t] = "applyKnown"
      BY DEF ApplyKnown
    <3> QED BY <1>11, <3>1 DEF RulesInv, NewOK
  <2> QED BY <1>3, <1>8, <2>1
<1>12. NewOK(t)' /\ PostOK(t)'
  BY <1>4 DEF NewOK, PostOK, UpdateSteps
<1>13. \A p \in Policies : cache[p] # None => cache'[p] = cache[p]
  BY <1>2, <1>3 DEF Known
<1>14. RulesInv'
  BY <1>3, <1>4, <1>5, <1>6, <1>7, <1>9, <1>10, <1>11, <1>12, StepKeeps
<1> QED BY <1>13, <1>14

\* A page shows rules that have rows.
LEMMA EvaluateKeeps ==
  ASSUME RulesInv, NEW t \in Threads, Evaluate(t)
  PROVE  RulesInv'
<1>1. TypeOK
  BY DEF RulesInv
<1>2. shown' = shown \/ shown' = shown \cup Known
  BY DEF Evaluate, Known
<1>3. Finish(t) /\ table' = table /\ cache' = cache
  BY DEF Evaluate
<1>4. Grows /\ UnknownIsNotGuessed' /\ Known' = Known /\ Stored' = Stored
  BY <1>3 DEF Grows, RulesInv, UnknownIsNotGuessed, Known, Stored
<1>5. Known' \subseteq Stored' /\ shown' \subseteq Stored' /\ shown \subseteq shown'
  BY <1>2, <1>4 DEF RulesInv
<1>6. TypeOK'
  <2>1. shown' \subseteq Policies
    BY <1>1, <1>2 DEF TypeOK, Known
  <2> QED BY <1>1, <1>3, <2>1, FinishOK DEF TypeOK
<1>7. \A p \in Policies : ByHand(cache', p) => ByHand(table', p)
  BY <1>3 DEF RulesInv, ByHand
<1>8. ASSUME NEW u \in Threads, u # t, pc[u] = "applyKnown", NEW p \in new[u]
      PROVE  p \notin Known' /\ p \notin shown'
  BY <1>2, <1>4, <1>8 DEF RulesInv, NewOK
<1>9. /\ pc'[t] = "idle" /\ \A u \in Threads \ {t} : Untouched(u)
      /\ NewOK(t)' /\ PostOK(t)'
  BY <1>1, <1>3, FinishOK
<1> QED BY <1>4, <1>5, <1>6, <1>7, <1>8, <1>9, StepKeeps

(***************************************************************************)
(* The steps of a Settings post, a failure and a restart.                  *)
(***************************************************************************)

\* Only a rule that was shown is posted.
LEMMA PostRuleKeeps ==
  ASSUME RulesInv, NEW t \in Threads, NEW p \in Policies, NEW edit \in Edit,
         PostRule(t, p, edit)
  PROVE  RulesInv'
<1>1. TypeOK
  BY DEF RulesInv
<1> DEFINE f == [policy |-> p, edit |-> edit, row |-> None]
<1>2. form' = [form EXCEPT ![t] = f] /\ UNCHANGED <<table, cache, shown>> /\ p \in shown
  BY DEF PostRule
<1>3. pc'[t] = "getRow" /\ \A u \in Threads \ {t} : Untouched(u)
  BY <1>1 DEF TypeOK, PostRule, Goto, Untouched
<1>4. f \in Form
  BY DEF Form
<1>5. TypeOK'
  <2>1. form' \in [Threads -> Form]
    BY <1>1, <1>2, <1>4 DEF TypeOK
  <2> QED BY <1>1, <2>1 DEF TypeOK, PostRule, Goto
<1>6. PostOK(t)'
  <2>1. form'[t].policy = p /\ form'[t].edit = edit
    BY <1>1, <1>2 DEF TypeOK
  <2> QED BY <1>2, <1>3, <2>1 DEF PostOK
<1> QED BY <1>2, <1>3, <1>5, <1>6, QuietStepKeeps

\* What was shown has a row, so update finds one.
LEMMA GetRowKeeps ==
  ASSUME RulesInv, NEW t \in Threads, GetRow(t)
  PROVE  RulesInv'
<1>1. TypeOK /\ PostOK(t)
  BY DEF RulesInv
<1> DEFINE p == form[t].policy
           f == [form[t] EXCEPT !.row = table[p]]
<1>2. p \in shown /\ p \in Policies /\ table[p] # None /\ form[t].edit \in Edit
  BY <1>1 DEF PostOK, UpdateSteps, GetRow, RulesInv, Stored, TypeOK
<1>3. form[t] \in Form /\ table[p] \in Entry
  BY <1>1, <1>2 DEF TypeOK
<1>4. form' = [form EXCEPT ![t] = f] /\ UNCHANGED <<table, cache, shown>>
  BY DEF GetRow
<1>5. f \in Form /\ f.policy = p /\ f.row = table[p] /\ f.edit = form[t].edit
  BY <1>3 DEF Form
<1>6. pc'[t] = "commitUpdate" /\ \A u \in Threads \ {t} : Untouched(u)
  BY <1>1 DEF TypeOK, GetRow, Goto, Untouched
<1> HIDE DEF p, f
<1>7. TypeOK'
  <2>1. form' \in [Threads -> Form]
    BY <1>1, <1>4, <1>5 DEF TypeOK
  <2> QED BY <1>1, <2>1 DEF TypeOK, GetRow, Goto
<1>8. PostOK(t)'
  <2>1. form'[t] = f
    BY <1>1, <1>4 DEF TypeOK
  <2> QED BY <1>2, <1>4, <1>5, <1>6, <2>1 DEF PostOK
<1> QED BY <1>4, <1>6, <1>7, <1>8, QuietStepKeeps

\* update leaves a row by hand, also where its columns meet another post's.
LEMMA CommitUpdateKeeps ==
  ASSUME RulesInv, NEW t \in Threads, CommitUpdate(t)
  PROVE  RulesInv'
<1>1. TypeOK /\ PostOK(t) /\ pc[t] = "commitUpdate"
  BY DEF RulesInv, CommitUpdate
<1> DEFINE p == form[t].policy
           old == form[t].row
           view == View(t)
           m == [f \in DOMAIN old |-> IF view[f] # old[f] THEN view[f] ELSE table[p][f]]
<1>2. /\ p \in shown /\ p \in Policies /\ table[p] # None /\ form[t].edit \in Edit /\ old # None
      /\ old.fee # None => table[p].fee # None
      /\ old.late # None => table[p].late # None
      /\ old.src = "manual" => table[p].src = "manual"
  BY <1>1 DEF PostOK, UpdateSteps, RulesInv, Stored, TypeOK
<1>3. table[p] \in Entry /\ old \in Entry
  BY <1>1, <1>2 DEF TypeOK, Form
<1>4. view \in Entry /\ view.src = "manual" /\ view.fee # None /\ view.late # None
  BY <1>2, ViewType
<1>5. /\ table' = [table EXCEPT ![p] = m] /\ UNCHANGED <<cache, seen, new, shown>>
      /\ form' = [form EXCEPT ![t].row = None]
  BY <1>2 DEF CommitUpdate
<1> HIDE DEF p, old, view
<1>6. m \in Entry /\ m.fee # None /\ m.late # None /\ m.src = "manual"
  BY <1>2, <1>3, <1>4, MergedType
<1> HIDE DEF m
<1>7. m # None
  BY <1>6, NoneAssumption
<1>8. pc'[t] = "assignUpdate" /\ \A u \in Threads \ {t} : Untouched(u)
  BY <1>1 DEF TypeOK, CommitUpdate, Goto, Untouched
<1>9. \A q \in Policies : table'[q] = IF q = p THEN m ELSE table[q]
  BY <1>1, <1>5 DEF TypeOK
<1>10. TypeOK'
  <2>1. table' \in [Policies -> Entry \cup {None}]
    BY <1>1, <1>5, <1>6 DEF TypeOK
  <2>2. form' \in [Threads -> Form]
    BY <1>1, <1>5 DEF TypeOK, Form
  <2> QED BY <1>1, <1>5, <2>1, <2>2 DEF TypeOK, CommitUpdate, Goto
<1>11. Grows
  BY <1>6, <1>7, <1>9 DEF Grows
<1>12. UnknownIsNotGuessed'
  <2>1. \A q \in Policies : q.kind = "other" /\ table'[q] # None /\ table'[q].configured
                              => table'[q].src = "manual"
    BY <1>6, <1>9 DEF RulesInv, UnknownIsNotGuessed
  <2>2. \A q \in Policies : q.kind = "other" /\ cache'[q] # None /\ cache'[q].configured
                              => cache'[q].src = "manual"
    BY <1>5 DEF RulesInv, UnknownIsNotGuessed
  <2> QED BY <2>1, <2>2 DEF UnknownIsNotGuessed
<1>13. Known' = Known /\ shown' = shown /\ Stored \subseteq Stored'
  BY <1>5, <1>7, <1>9 DEF Known, Stored
<1>14. Known' \subseteq Stored' /\ shown' \subseteq Stored'
  BY <1>13 DEF RulesInv
<1>15. \A q \in Policies : ByHand(cache', q) => ByHand(table', q)
  BY <1>5, <1>11 DEF RulesInv, ByHand, Grows
<1>16. NewOK(t)'
  BY <1>8 DEF NewOK
<1>17. PostOK(t)'
  <2>1. ByHand(table', p)
    BY <1>2, <1>6, <1>7, <1>9 DEF ByHand
  <2>2. form'[t].policy = p /\ form'[t].edit = form[t].edit
    BY <1>1, <1>5 DEF TypeOK, Form, p
  <2> QED BY <1>2, <1>5, <1>8, <2>1, <2>2 DEF PostOK, ByHand
<1>18. \A u \in Threads \ {t} : pc[u] = "applyKnown" => \A q \in new[u] :
         q \notin Known' /\ q \notin shown'
  BY <1>13 DEF RulesInv, NewOK
<1> QED BY <1>8, <1>10, <1>11, <1>12, <1>13, <1>14, <1>15, <1>16, <1>17, <1>18, StepKeeps

\* The copy takes what was posted, where the table has a row by hand.
LEMMA AssignUpdateKeeps ==
  ASSUME RulesInv, NEW t \in Threads, AssignUpdate(t)
  PROVE  RulesInv' /\ \A q \in Policies : ByHand(cache, q) => cache'[q].src = "manual"
<1>1. TypeOK /\ PostOK(t) /\ pc[t] = "assignUpdate"
  BY DEF RulesInv, AssignUpdate
<1> DEFINE p == form[t].policy
           view == View(t)
<1>2. p \in shown /\ p \in Policies /\ ByHand(table, p) /\ form[t].edit \in Edit
  BY <1>1 DEF PostOK, UpdateSteps, TypeOK
<1>3. view \in Entry /\ view.src = "manual"
  BY <1>2, ViewType
<1>4. cache' = [cache EXCEPT ![p] = view] /\ table' = table /\ shown' = shown /\ Finish(t)
  BY DEF AssignUpdate
<1> HIDE DEF p, view
<1>5. \A q \in Policies : cache'[q] = IF q = p THEN view ELSE cache[q]
  BY <1>1, <1>4 DEF TypeOK
<1>6. TypeOK'
  <2>1. cache' \in [Policies -> Entry \cup {None}]
    BY <1>1, <1>3, <1>4 DEF TypeOK
  <2> QED BY <1>1, <1>4, <2>1, FinishOK DEF TypeOK
<1>7. UnknownIsNotGuessed'
  <2>1. \A q \in Policies : q.kind = "other" /\ cache'[q] # None /\ cache'[q].configured
                              => cache'[q].src = "manual"
    BY <1>3, <1>5 DEF RulesInv, UnknownIsNotGuessed
  <2>2. \A q \in Policies : q.kind = "other" /\ table'[q] # None /\ table'[q].configured
                              => table'[q].src = "manual"
    BY <1>4 DEF RulesInv, UnknownIsNotGuessed
  <2> QED BY <2>1, <2>2 DEF UnknownIsNotGuessed
<1>8. Grows /\ Stored' = Stored /\ Known' \subseteq Known \cup {p}
  BY <1>4, <1>5 DEF Grows, Stored, Known
<1>9. Known' \subseteq Stored' /\ shown' \subseteq Stored'
  BY <1>2, <1>4, <1>8 DEF RulesInv
<1>10. \A q \in Policies : ByHand(cache', q) => ByHand(table', q)
  <2>1. ASSUME NEW q \in Policies, ByHand(cache', q)  PROVE ByHand(table', q)
    <3>1. CASE q = p
      BY <1>2, <1>4, <3>1
    <3>2. CASE q # p
      BY <1>4, <1>5, <2>1, <3>2 DEF RulesInv, ByHand
    <3> QED BY <3>1, <3>2
  <2> QED BY <2>1
<1>11. \A u \in Threads \ {t} : pc[u] = "applyKnown" => \A q \in new[u] :
         q \notin Known' /\ q \notin shown'
  BY <1>2, <1>4, <1>8 DEF RulesInv, NewOK
<1>12. /\ pc'[t] = "idle" /\ \A u \in Threads \ {t} : Untouched(u)
       /\ NewOK(t)' /\ PostOK(t)'
  BY <1>1, <1>4, FinishOK
<1>13. \A q \in Policies : ByHand(cache, q) => cache'[q].src = "manual"
  BY <1>3, <1>5 DEF ByHand
<1>14. RulesInv'
  BY <1>4, <1>6, <1>7, <1>8, <1>9, <1>10, <1>11, <1>12, StepKeeps
<1> QED BY <1>13, <1>14

\* A transaction that raises leaves everything but the request as it was.
LEMMA FailKeeps ==
  ASSUME RulesInv, NEW t \in Threads, Fail(t)
  PROVE  RulesInv'
<1>1. TypeOK
  BY DEF RulesInv
<1>2. Finish(t) /\ UNCHANGED <<table, cache, shown>>
  BY DEF Fail
<1>3. TypeOK'
  BY <1>1, <1>2, FinishOK DEF TypeOK
<1>4. pc'[t] = "idle" /\ (\A u \in Threads \ {t} : Untouched(u)) /\ PostOK(t)'
  BY <1>1, <1>2, FinishOK
<1> QED BY <1>2, <1>3, <1>4, QuietStepKeeps

\* A restart makes the copy the table, where everything by hand is by hand.
LEMMA RestartKeeps ==
  ASSUME RulesInv, Restart
  PROVE  RulesInv'
<1>1. TypeOK
  BY DEF RulesInv
<1>2. TypeOK'
  <2>1. NoForm \in Form
    BY DEF NoForm, Form
  <2> QED BY <1>1, <2>1 DEF TypeOK, Restart
<1>3. UnknownIsNotGuessed'
  BY DEF RulesInv, UnknownIsNotGuessed, Restart
<1>4. Known' = Stored /\ Stored' = Stored /\ shown' = shown
  BY DEF Known, Stored, Restart
<1>5. \A p \in Policies : ByHand(cache, p)' => ByHand(table, p)'
  BY DEF ByHand, Restart
<1>6. ASSUME NEW u \in Threads  PROVE NewOK(u)' /\ PostOK(u)'
  <2>1. pc'[u] = "idle"
    BY DEF Restart
  <2> QED BY <2>1 DEF NewOK, PostOK, UpdateSteps
<1> QED BY <1>2, <1>3, <1>4, <1>5, <1>6 DEF RulesInv

(***************************************************************************)
(* The theorems.                                                           *)
(***************************************************************************)

\* A step of ConfiguredByHandStays.
KeepsConfigured ==
  \A p \in Policies : cache[p] # None /\ cache[p].src = "manual" => cache'[p].src = "manual"

\* Every step keeps the invariant, and what the copy has by hand.
LEMMA NextRulesInv == RulesInv /\ [Next]_vars => RulesInv' /\ KeepsConfigured
<1> SUFFICES ASSUME RulesInv, [Next]_vars PROVE RulesInv' /\ KeepsConfigured
  OBVIOUS
<1>1. CASE Restart
  <2>1. KeepsConfigured
    BY <1>1 DEF KeepsConfigured, Restart, RulesInv, ByHand
  <2> QED BY <1>1, <2>1, RestartKeeps
<1>2. ASSUME NEW t \in Threads, NEW ps \in SUBSET Policies, LoadPage(t, ps)
      PROVE  RulesInv' /\ KeepsConfigured
  <2>1. KeepsConfigured
    BY <1>2 DEF KeepsConfigured, LoadPage
  <2> QED BY <1>2, <2>1, LoadPageKeeps
<1>3. ASSUME NEW t \in Threads, DecideKnown(t) \/ CommitKnown(t) \/ Evaluate(t)
      PROVE  RulesInv' /\ KeepsConfigured
  <2>1. KeepsConfigured
    BY <1>3 DEF KeepsConfigured, DecideKnown, CommitKnown, Evaluate
  <2> QED BY <1>3, <2>1, DecideKnownKeeps, CommitKnownKeeps, EvaluateKeeps
<1>4. ASSUME NEW t \in Threads, ApplyKnown(t)  PROVE RulesInv' /\ KeepsConfigured
  BY <1>4, ApplyKnownKeeps DEF KeepsConfigured
<1>5. ASSUME NEW t \in Threads, NEW p \in Policies, NEW edit \in Edit, PostRule(t, p, edit)
      PROVE  RulesInv' /\ KeepsConfigured
  <2>1. KeepsConfigured
    BY <1>5 DEF KeepsConfigured, PostRule
  <2> QED BY <1>5, <2>1, PostRuleKeeps
<1>6. ASSUME NEW t \in Threads, GetRow(t) \/ CommitUpdate(t) \/ Fail(t)
      PROVE  RulesInv' /\ KeepsConfigured
  <2>1. KeepsConfigured
    BY <1>6 DEF KeepsConfigured, GetRow, CommitUpdate, Fail
  <2> QED BY <1>6, <2>1, GetRowKeeps, CommitUpdateKeeps, FailKeeps
<1>7. ASSUME NEW t \in Threads, AssignUpdate(t)  PROVE RulesInv' /\ KeepsConfigured
  BY <1>7, AssignUpdateKeeps DEF KeepsConfigured, ByHand
<1>8. CASE UNCHANGED vars
  <2>1. KeepsConfigured
    BY <1>8 DEF KeepsConfigured, vars
  <2>2. TypeOK' /\ UnknownIsNotGuessed' /\ Known' = Known /\ Stored' = Stored /\ shown' = shown
    BY <1>8 DEF RulesInv, vars, TypeOK, UnknownIsNotGuessed, Known, Stored
  <2>3. \A p \in Policies : ByHand(cache, p)' => ByHand(table, p)'
    BY <1>8 DEF RulesInv, vars, ByHand
  <2>4. ASSUME NEW t \in Threads  PROVE NewOK(t)' /\ PostOK(t)'
    <3>1. NewOK(t) /\ PostOK(t)
      BY DEF RulesInv
    <3> QED BY <1>8, <2>2, <3>1 DEF vars, NewOK, PostOK, ByHand
  <2>5. RulesInv'
    BY <2>2, <2>3, <2>4 DEF RulesInv
  <2> QED BY <2>1, <2>5
<1> QED BY <1>1, <1>2, <1>3, <1>4, <1>5, <1>6, <1>7, <1>8 DEF Next

\* The invariant holds always.
LEMMA AlwaysRulesInv == Spec => []RulesInv
  BY InitRulesInv, NextRulesInv, PTL DEF Spec

\* Every variable keeps its type; a configured row has a fee and is always late or
\* not, even when two posts wrote its columns (rules_store.py:156-176).
THEOREM TypeCorrect == Spec => []TypeOK
<1>1. RulesInv => TypeOK
  BY DEF RulesInv
<1> QED BY <1>1, AlwaysRulesInv, PTL

\* A policy no pattern matches has a meaning only once somebody has given it one
\* (rules_store.py:102-110).
THEOREM NothingIsGuessed == Spec => []UnknownIsNotGuessed
<1>1. RulesInv => UnknownIsNotGuessed
  BY DEF RulesInv
<1> QED BY <1>1, AlwaysRulesInv, PTL

\* A post always finds its row: the branch of update that inserts one
\* (rules_store.py:166-168) is dead code.
THEOREM PostsFindTheirRow == Spec => []UpdateFindsRow
<1>1. RulesInv => UpdateFindsRow
  BY DEF RulesInv, PostOK, UpdateFindsRow
<1> QED BY <1>1, AlwaysRulesInv, PTL

\* What somebody has configured, the copy never takes back to what was detected
\* (rules_store.py:135-148), however many threads there are.
THEOREM ConfiguredStays == Spec => ConfiguredByHandStays
<1>1. RulesInv /\ [Next]_vars => [KeepsConfigured]_vars
  BY NextRulesInv
<1>2. Spec => [][KeepsConfigured]_vars
  BY <1>1, AlwaysRulesInv, PTL DEF Spec
<1> QED BY <1>2 DEF ConfiguredByHandStays, KeepsConfigured

(***************************************************************************)
(* What evaluate makes of a rule of the store.                             *)
(***************************************************************************)

\* The rules in use are entries.
LEMMA InUseAreEntries ==
  ASSUME RulesInv, NEW e \in RulesInUse
  PROVE  e \in Entry
<1>1. PICK p \in Policies : e = RuleOf(p)
  BY DEF RulesInUse, RulesInv, TypeOK
<1>2. cache[p] \in Entry \cup {None} /\ AutoDetect(p) \in Entry
  BY DetectedType DEF RulesInv, TypeOK
<1> QED BY <1>1, <1>2 DEF RuleOf

\* The numbers evaluate compares (cancellation_logic.py:77-92).
LEMMA DeadlineType ==
  ASSUME NEW e \in Entry, NEW c \in Cancellations
  PROVE  /\ c.arrival \in Int /\ c.date \in Int /\ c.time \in Nat
         /\ \E n \in Nat : \A d \in Cancellations : Deadline(e, d) = d.arrival - n
<1>1. c.arrival \in Int /\ c.date \in Int /\ c.time \in Nat
  BY CancellationAssumption
<1>2. e.days \in Nat \cup {None}
  BY DEF Entry, AnyEntry
<1>3. \A d \in Cancellations :
        Deadline(e, d) = d.arrival - (IF e.days = None THEN 0 ELSE e.days)
  BY DEF Deadline
<1> QED BY <1>1, <1>2, <1>3

LEMMA SecondsType ==
  ASSUME NEW e \in Entry, e.cutoff # None
  PROVE  Seconds(e.cutoff) \in Nat
<1>1. e.cutoff \in Cutoff
  BY DEF Entry, AnyEntry
<1>2. e.cutoff.h \in Nat /\ e.cutoff.m \in Nat
  BY <1>1 DEF Cutoff
<1> QED BY <1>2 DEF Seconds

\* Less notice is never treated more mildly, by whatever rule a page works with
\* (cancellation_logic.py:71-92).
THEOREM LateIsMonotone == Spec => []LessNoticeIsNeverMilder
<1>1. RulesInv => LessNoticeIsNeverMilder
  <2> SUFFICES ASSUME RulesInv, NEW e \in RulesInUse,
                      NEW c \in Cancellations, NEW d \in Cancellations,
                      NoMoreNotice(c, d), IsLate(e, d)
               PROVE  IsLate(e, c)
    BY DEF LessNoticeIsNeverMilder
  <2>1. e \in Entry
    BY InUseAreEntries
  <2>2. PICK n \in Nat : Deadline(e, c) = c.arrival - n /\ Deadline(e, d) = d.arrival - n
    BY <2>1, DeadlineType
  <2>3. /\ c.arrival \in Int /\ c.date \in Int /\ c.time \in Nat
        /\ d.arrival \in Int /\ d.date \in Int /\ d.time \in Nat
    BY <2>1, DeadlineType
  <2>4. CASE e.late = TRUE
    BY <2>4 DEF IsLate
  <2>5. CASE e.late # TRUE
    <3>1. AfterDeadline(e, d)
      BY <2>5 DEF IsLate
    <3>2. CASE e.cutoff = None
      <4>1. d.date > d.arrival - n
        BY <2>2, <3>1, <3>2 DEF AfterDeadline
      <4>2. c.date > c.arrival - n
        BY <2>3, <4>1 DEF NoMoreNotice, After
      <4> QED BY <2>2, <3>2, <4>2 DEF AfterDeadline, IsLate
    <3>3. CASE e.cutoff # None
      <4>1. Seconds(e.cutoff) \in Nat
        BY <2>1, <3>3, SecondsType
      <4>2. After(d.date, d.time, d.arrival - n, Seconds(e.cutoff))
        BY <2>2, <3>1, <3>3 DEF AfterDeadline
      <4>3. After(c.date, c.time, c.arrival - n, Seconds(e.cutoff))
        BY <2>3, <4>1, <4>2 DEF NoMoreNotice, After
      <4> QED BY <2>2, <3>3, <4>3 DEF AfterDeadline, IsLate
    <3> QED BY <3>2, <3>3
  <2> QED BY <2>4, <2>5
<1> QED BY <1>1, AlwaysRulesInv, PTL

\* A cutoff makes a difference on the deadline day only, for those who cancel after
\* it (cancellation_logic.py:81-92).
THEOREM CutoffOnItsDay == Spec => []CutoffIsOfItsDay
<1>1. RulesInv => CutoffIsOfItsDay
  <2> SUFFICES ASSUME RulesInv, NEW e \in RulesInUse, NEW c \in Cancellations,
                      NEW open, open = [e EXCEPT !.cutoff = None],
                      IsLate(e, c) # IsLate(open, c)
               PROVE  c.date = Deadline(e, c) /\ c.time > Seconds(e.cutoff)
    BY DEF CutoffIsOfItsDay
  <2>1. e \in Entry
    BY InUseAreEntries
  <2>2. open.configured = e.configured /\ open.late = e.late /\ open.days = e.days
        /\ open.cutoff = None
    BY <2>1 DEF Entry, AnyEntry
  <2>3. AfterDeadline(open, c) <=> c.date > Deadline(e, c)
    BY <2>2 DEF AfterDeadline, Deadline
  <2>4. ~(AfterDeadline(e, c) <=> c.date > Deadline(e, c))
    BY <2>2, <2>3 DEF IsLate
  <2>5. e.cutoff # None
    BY <2>4 DEF AfterDeadline
  <2>6. ~(After(c.date, c.time, Deadline(e, c), Seconds(e.cutoff)) <=> c.date > Deadline(e, c))
    BY <2>4, <2>5 DEF AfterDeadline
  <2>7. c.date \in Int /\ Deadline(e, c) \in Int
    BY <2>1, DeadlineType
  <2> QED BY <2>6, <2>7 DEF After
<1> QED BY <1>1, AlwaysRulesInv, PTL

(***************************************************************************)
(* The store implements PolicyBook, for any number of threads.  A page     *)
(* knows what it has decided: every text of its report is in the copy or   *)
(* among those it inserts.  And what is by no hand is just what is         *)
(* detected in its text, in the table, in the copy and in a row a post has *)
(* loaded: so the first post to commit has loaded what it replaces, and    *)
(* the columns it leaves out are those that say the same.                  *)
(***************************************************************************)

\* What a page load may rely on.
SeenOK(t) ==
  /\ pc[t] = "commitKnown" => new[t] \subseteq seen[t]
  /\ pc[t] \in {"commitKnown", "applyKnown"} => seen[t] \subseteq Known \cup new[t]
  /\ pc[t] = "evaluate" => seen[t] \subseteq Known

\* Nothing but what a text says stands in a row or an entry that is by no hand.
AutoIsDetected ==
  \A p \in Policies, store \in {table, cache} :
    store[p] # None /\ store[p].src = "auto" => store[p] = AutoDetect(p)

LoadedOK(t) ==
  pc[t] = "commitUpdate" /\ form[t].row.src = "auto" => form[t].row = AutoDetect(form[t].policy)

BookInv ==
  /\ RulesInv
  /\ AutoIsDetected
  /\ \A t \in Threads : SeenOK(t) /\ LoadedOK(t)

\* A step of t keeps the invariant if it keeps it for t and takes no entry away.
LEMMA StepKeepsBook ==
  ASSUME BookInv, RulesInv', AutoIsDetected', NEW t \in Threads, Known \subseteq Known',
         \A u \in Threads \ {t} : Untouched(u) /\ seen'[u] = seen[u],
         SeenOK(t)', LoadedOK(t)'
  PROVE  BookInv'
<1>1. ASSUME NEW u \in Threads, u # t PROVE SeenOK(u)' /\ LoadedOK(u)'
  <2>1. Untouched(u) /\ seen'[u] = seen[u] /\ SeenOK(u) /\ LoadedOK(u)
    BY <1>1 DEF BookInv
  <2>2. SeenOK(u)'
    BY <2>1 DEF SeenOK, Untouched, Known
  <2>3. form'[u] = form[u] /\ pc'[u] = pc[u]
    BY <2>1 DEF Untouched
  <2>4. LoadedOK(u)'
    BY <2>1, <2>3 DEF LoadedOK, AutoDetect, NeedsSetup, Detected, DoaCutoff, Hour24
  <2> QED BY <2>2, <2>4
<1> QED BY <1>1 DEF BookInv

\* The two stores after a step: each entry is an old one, a detected one or by hand.
LEMMA StoresKeepDetected ==
  ASSUME BookInv,
         \A p \in Policies : \/ table'[p] = table[p] \/ table'[p] = AutoDetect(p)
                             \/ table'[p].src = "manual",
         \A p \in Policies : \/ cache'[p] = cache[p] \/ cache'[p] = AutoDetect(p)
                             \/ cache'[p] = table[p] \/ cache'[p].src = "manual"
  PROVE  AutoIsDetected'
<1>1. "auto" # "manual"
  OBVIOUS
<1>2. \A p \in Policies : table'[p] # None /\ table'[p].src = "auto" => table'[p] = AutoDetect(p)
  BY <1>1 DEF BookInv, AutoIsDetected
<1>3. \A p \in Policies : cache'[p] # None /\ cache'[p].src = "auto" => cache'[p] = AutoDetect(p)
  BY <1>1 DEF BookInv, AutoIsDetected
<1> QED BY <1>2, <1>3
    DEF AutoIsDetected, AutoDetect, NeedsSetup, Detected, DoaCutoff, Hour24

\* A step of t that leaves both stores alone.
LEMMA QuietStepKeepsBook ==
  ASSUME BookInv, RulesInv', NEW t \in Threads, UNCHANGED <<table, cache>>,
         \A u \in Threads \ {t} : Untouched(u) /\ seen'[u] = seen[u],
         SeenOK(t)', LoadedOK(t)'
  PROVE  BookInv'
<1>1. AutoIsDetected' /\ Known' = Known
  BY StoresKeepDetected DEF Known
<1> QED BY <1>1, StepKeepsBook

\* A page decides.
LEMMA DecideKnownBook ==
  ASSUME BookInv, RulesInv', NEW t \in Threads, DecideKnown(t)
  PROVE  BookInv'
<1> DEFINE unknown == {p \in seen[t] : cache[p] = None}
<1>1. TypeOK
  BY DEF BookInv, RulesInv
<1>2. /\ new'[t] = unknown /\ seen' = seen /\ UNCHANGED <<table, cache>>
      /\ pc'[t] \in {"evaluate", "commitKnown"} /\ (pc'[t] = "evaluate" => unknown = {})
      /\ \A u \in Threads \ {t} : Untouched(u) /\ seen'[u] = seen[u]
  BY <1>1 DEF TypeOK, DecideKnown, Goto, Untouched
<1>3. seen[t] \subseteq Known \cup unknown /\ Known' = Known
  BY <1>1, <1>2 DEF TypeOK, Known
<1> HIDE DEF unknown
<1>4. SeenOK(t)' /\ LoadedOK(t)'
  <2>1. unknown \subseteq seen[t]
    BY DEF unknown
  <2> QED BY <1>2, <1>3, <2>1 DEF SeenOK, LoadedOK
<1> QED BY <1>2, <1>4, QuietStepKeepsBook

\* Its INSERTs write what is detected.
LEMMA CommitKnownBook ==
  ASSUME BookInv, RulesInv', NEW t \in Threads, CommitKnown(t)
  PROVE  BookInv'
<1>1. TypeOK /\ SeenOK(t) /\ pc[t] = "commitKnown"
  BY DEF BookInv, RulesInv, CommitKnown
<1>2. /\ pc'[t] = "applyKnown" /\ UNCHANGED <<cache, seen, new>>
      /\ \A u \in Threads \ {t} : Untouched(u) /\ seen'[u] = seen[u]
  BY <1>1 DEF TypeOK, CommitKnown, Goto, Untouched
<1>3. AutoIsDetected'
  <2>1. \A p \in Policies : table'[p] = table[p] \/ table'[p] = AutoDetect(p)
    BY DEF CommitKnown
  <2> QED BY <1>2, <2>1, StoresKeepDetected
<1>4. SeenOK(t)' /\ LoadedOK(t)' /\ Known' = Known
  BY <1>1, <1>2 DEF SeenOK, LoadedOK, Known
<1> QED BY <1>2, <1>3, <1>4, StepKeepsBook

\* Then the copy has every text of the report.
LEMMA ApplyKnownBook ==
  ASSUME BookInv, RulesInv', NEW t \in Threads, ApplyKnown(t)
  PROVE  BookInv'
<1>1. TypeOK /\ SeenOK(t) /\ pc[t] = "applyKnown"
  BY DEF BookInv, RulesInv, ApplyKnown
<1>2. /\ pc'[t] = "evaluate" /\ UNCHANGED <<table, seen, new>>
      /\ \A u \in Threads \ {t} : Untouched(u) /\ seen'[u] = seen[u]
  BY <1>1 DEF TypeOK, ApplyKnown, Goto, Untouched
<1>3. \A p \in Policies : cache'[p] = IF p \in new[t] THEN AutoDetect(p) ELSE cache[p]
  BY DEF ApplyKnown
<1>4. AutoIsDetected'
  BY <1>2, <1>3, StoresKeepDetected
<1>5. Known \cup new[t] \subseteq Known'
  <2>1. new[t] \subseteq Policies /\ \A p \in Policies : AutoDetect(p) # None
    BY <1>1, DetectedType, NoneAssumption DEF TypeOK
  <2> QED BY <1>3, <2>1 DEF Known
<1>6. SeenOK(t)' /\ LoadedOK(t)'
  BY <1>1, <1>2, <1>5 DEF SeenOK, LoadedOK
<1> QED BY <1>2, <1>4, <1>5, <1>6, StepKeepsBook

\* A post loads the row of its policy.
LEMMA GetRowBook ==
  ASSUME BookInv, RulesInv', NEW t \in Threads, GetRow(t)
  PROVE  BookInv'
<1>1. TypeOK /\ PostOK(t) /\ pc[t] = "getRow"
  BY DEF BookInv, RulesInv, GetRow
<1> DEFINE p == form[t].policy
<1>2. p \in Policies /\ table[p] # None
  BY <1>1 DEF PostOK, UpdateSteps, BookInv, RulesInv, Stored, TypeOK
<1>3. form[t] \in Form /\ form' = [form EXCEPT ![t].row = table[p]]
  BY <1>1 DEF TypeOK, GetRow
<1>4. form'[t].policy = p /\ form'[t].row = table[p]
  BY <1>1, <1>3 DEF TypeOK, Form
<1>5. /\ pc'[t] = "commitUpdate" /\ UNCHANGED <<table, cache, seen>>
      /\ \A u \in Threads \ {t} : Untouched(u) /\ seen'[u] = seen[u]
  BY <1>1 DEF TypeOK, GetRow, Goto, Untouched
<1> HIDE DEF p
<1>6. form'[t].row.src = "auto" => form'[t].row = AutoDetect(form'[t].policy)
  BY <1>2, <1>4 DEF BookInv, AutoIsDetected
<1>7. SeenOK(t)' /\ LoadedOK(t)'
  BY <1>5, <1>6
     DEF SeenOK, LoadedOK, AutoDetect, NeedsSetup, Detected, DoaCutoff, Hour24
<1> QED BY <1>5, <1>7, QuietStepKeepsBook

\* A post leaves a row by hand, and then an entry by hand.
LEMMA UpdateBook ==
  ASSUME BookInv, RulesInv', NEW t \in Threads, CommitUpdate(t) \/ AssignUpdate(t)
  PROVE  BookInv'
<1>1. TypeOK /\ PostOK(t)
  BY DEF BookInv, RulesInv
<1> DEFINE p == form[t].policy
<1>2. p \in Policies /\ form[t].edit \in Edit
  BY <1>1 DEF PostOK, UpdateSteps, BookInv, RulesInv, TypeOK, CommitUpdate, AssignUpdate
<1>3. CASE CommitUpdate(t)
  <2>1. /\ pc'[t] = "assignUpdate" /\ UNCHANGED <<cache, seen>>
        /\ \A u \in Threads \ {t} : Untouched(u) /\ seen'[u] = seen[u]
    BY <1>1, <1>3 DEF TypeOK, CommitUpdate, Goto, Untouched
  <2>2. form'[t].policy = p
    BY <1>1, <1>3 DEF TypeOK, Form, CommitUpdate
  <2>3. table'[p].src = "manual"
    <3>1. PostOK(t)'
      BY DEF RulesInv
    <3> QED BY <2>1, <2>2, <3>1 DEF PostOK, ByHand
  <2>4. \A q \in Policies : q # p => table'[q] = table[q]
    BY <1>1, <1>3 DEF TypeOK, CommitUpdate
  <2>5. AutoIsDetected'
    BY <2>1, <2>3, <2>4, StoresKeepDetected
  <2>6. SeenOK(t)' /\ LoadedOK(t)' /\ Known' = Known
    BY <2>1 DEF SeenOK, LoadedOK, Known
  <2> QED BY <2>1, <2>5, <2>6, StepKeepsBook
<1>4. CASE AssignUpdate(t)
  <2>1. /\ pc'[t] = "idle" /\ table' = table
        /\ \A u \in Threads \ {t} : Untouched(u) /\ seen'[u] = seen[u]
    BY <1>1, <1>4 DEF TypeOK, AssignUpdate, Finish, Goto, Untouched
  <2>2. View(t).src = "manual" /\ View(t) # None
    BY <1>2, ViewType, NoneAssumption
  <2>3. \A q \in Policies : cache'[q] = IF q = p THEN View(t) ELSE cache[q]
    BY <1>1, <1>4 DEF TypeOK, AssignUpdate
  <2>4. AutoIsDetected'
    BY <2>1, <2>2, <2>3, StoresKeepDetected
  <2>5. SeenOK(t)' /\ LoadedOK(t)' /\ Known \subseteq Known'
    BY <2>1, <2>2, <2>3 DEF SeenOK, LoadedOK, Known
  <2> QED BY <2>1, <2>4, <2>5, StepKeepsBook
<1> QED BY <1>3, <1>4

\* The steps that write neither store.
LEMMA LoadPageBook ==
  ASSUME BookInv, RulesInv', NEW t \in Threads, NEW ps \in SUBSET Policies, LoadPage(t, ps)
  PROVE  BookInv'
<1>1. TypeOK
  BY DEF BookInv, RulesInv
<1>2. /\ pc'[t] = "known" /\ UNCHANGED <<table, cache>>
      /\ \A u \in Threads \ {t} : Untouched(u) /\ seen'[u] = seen[u]
  BY <1>1 DEF TypeOK, LoadPage, Goto, Untouched
<1>3. SeenOK(t)' /\ LoadedOK(t)'
  BY <1>2 DEF SeenOK, LoadedOK
<1> QED BY <1>2, <1>3, QuietStepKeepsBook

LEMMA PostRuleBook ==
  ASSUME BookInv, RulesInv', NEW t \in Threads, NEW p \in Policies, NEW edit \in Edit,
         PostRule(t, p, edit)
  PROVE  BookInv'
<1>1. TypeOK
  BY DEF BookInv, RulesInv
<1>2. /\ pc'[t] = "getRow" /\ UNCHANGED <<table, cache>>
      /\ \A u \in Threads \ {t} : Untouched(u) /\ seen'[u] = seen[u]
  BY <1>1 DEF TypeOK, PostRule, Goto, Untouched
<1>3. SeenOK(t)' /\ LoadedOK(t)'
  BY <1>2 DEF SeenOK, LoadedOK
<1> QED BY <1>2, <1>3, QuietStepKeepsBook

LEMMA RequestEndsBook ==
  ASSUME BookInv, RulesInv', NEW t \in Threads, Evaluate(t) \/ Fail(t)
  PROVE  BookInv'
<1>1. TypeOK
  BY DEF BookInv, RulesInv
<1>2. Finish(t) /\ UNCHANGED <<table, cache>>
  BY DEF Evaluate, Fail
<1>3. /\ pc'[t] = "idle"
      /\ \A u \in Threads \ {t} : Untouched(u) /\ seen'[u] = seen[u]
  BY <1>1, <1>2 DEF TypeOK, Finish, Goto, Untouched
<1>4. SeenOK(t)' /\ LoadedOK(t)'
  BY <1>3 DEF SeenOK, LoadedOK
<1> QED BY <1>2, <1>3, <1>4, QuietStepKeepsBook

\* A new process reads its copy from the table.
LEMMA RestartBook ==
  ASSUME BookInv, RulesInv', Restart
  PROVE  BookInv'
<1>1. table' = table /\ cache' = table /\ \A t \in Threads : pc'[t] = "idle"
  BY DEF Restart
<1>2. AutoIsDetected'
  BY <1>1, StoresKeepDetected
<1>3. \A t \in Threads : SeenOK(t)' /\ LoadedOK(t)'
  BY <1>1 DEF SeenOK, LoadedOK
<1> QED BY <1>2, <1>3 DEF BookInv

LEMMA InitBookInv == Init => BookInv
<1> SUFFICES ASSUME Init PROVE BookInv
  OBVIOUS
<1>1. AutoIsDetected /\ \A t \in Threads : SeenOK(t) /\ LoadedOK(t)
  BY DEF Init, AutoIsDetected, SeenOK, LoadedOK
<1> QED BY <1>1, InitRulesInv DEF BookInv

LEMMA NextBookInv == BookInv /\ [Next]_vars => BookInv'
<1> SUFFICES ASSUME BookInv, [Next]_vars PROVE BookInv'
  OBVIOUS
<1>1. RulesInv'
  BY NextRulesInv DEF BookInv
<1>2. CASE UNCHANGED vars
  <2>1. UNCHANGED <<table, cache, pc, seen, new, form>>
    BY <1>2 DEF vars
  <2>2. AutoIsDetected'
    BY <2>1, StoresKeepDetected
  <2>3. \A t \in Threads : SeenOK(t)'
    BY <2>1 DEF BookInv, SeenOK, Known
  <2>4. \A t \in Threads : LoadedOK(t)'
    BY <2>1
       DEF BookInv, LoadedOK, AutoDetect, NeedsSetup, Detected, DoaCutoff, Hour24
  <2> QED BY <1>1, <2>2, <2>3, <2>4 DEF BookInv
<1>3. CASE Restart
  BY <1>1, <1>3, RestartBook
<1>4. ASSUME NEW t \in Threads, NEW ps \in SUBSET Policies, LoadPage(t, ps)  PROVE BookInv'
  BY <1>1, <1>4, LoadPageBook
<1>5. ASSUME NEW t \in Threads, NEW p \in Policies, NEW edit \in Edit, PostRule(t, p, edit)
      PROVE  BookInv'
  BY <1>1, <1>5, PostRuleBook
<1>6. ASSUME NEW t \in Threads, DecideKnown(t) \/ CommitKnown(t) \/ ApplyKnown(t) \/ GetRow(t)
      PROVE  BookInv'
  BY <1>1, <1>6, DecideKnownBook, CommitKnownBook, ApplyKnownBook, GetRowBook
<1>7. ASSUME NEW t \in Threads,
             CommitUpdate(t) \/ AssignUpdate(t) \/ Evaluate(t) \/ Fail(t)
      PROVE  BookInv'
  BY <1>1, <1>7, UpdateBook, RequestEndsBook
<1> QED BY <1>2, <1>3, <1>4, <1>5, <1>6, <1>7 DEF Next

LEMMA AlwaysBookInv == Spec => []BookInv
  BY InitBookInv, NextBookInv, PTL DEF Spec

\* What stands in the table or in the copy and is by no hand is exactly what is
\* detected in its text (rules_store.py:56-110, 141-147), however posts overlap: no
\* row is half configured and still counts as detected.
THEOREM AutoIsWhole == Spec => []AutoIsDetected
<1>1. BookInv => AutoIsDetected
  BY DEF BookInv
<1> QED BY <1>1, AlwaysBookInv, PTL

\* A page that evaluates has every text of its report in the copy: the fallback
\* get keeps for an unknown text (rules_store.py:150-151) is dead code.
THEOREM EvaluateKnowsAll ==
  Spec => [](\A t \in Threads : pc[t] = "evaluate" => seen[t] \subseteq Known)
<1>1. BookInv => \A t \in Threads : pc[t] = "evaluate" => seen[t] \subseteq Known
  BY DEF BookInv, SeenOK
<1> QED BY <1>1, AlwaysBookInv, PTL

(***************************************************************************)
(* The steps of the store as steps of the book.                            *)
(***************************************************************************)

\* A step of t moves the post of t and no other.
LEMMA PostMoves ==
  ASSUME NEW t \in Threads, \A u \in Threads \ {t} : Untouched(u)
  PROVE  Posts' = [Posts EXCEPT ![t] = PostOf(pc'[t], form'[t])]
BY DEF Posts, PostOf, Untouched

LEMMA NoPostMoves ==
  ASSUME NEW t \in Threads, \A u \in Threads \ {t} : Untouched(u),
         pc[t] \notin UpdateSteps, pc'[t] \notin UpdateSteps
  PROVE  Posts' = Posts
<1>1. Posts[t] = None /\ PostOf(pc'[t], form'[t]) = None
  BY DEF Posts, PostOf, UpdateSteps
<1>2. Posts' = [Posts EXCEPT ![t] = PostOf(pc'[t], form'[t])]
  BY PostMoves
<1> QED BY <1>1, <1>2 DEF Posts

\* A page is opened.
LEMMA LoadPageIsOpen ==
  ASSUME BookInv, NEW t \in Threads, NEW ps \in SUBSET Policies, LoadPage(t, ps)
  PROVE  Book!Step
<1>1. TypeOK
  BY DEF BookInv, RulesInv
<1>2. /\ pc[t] = "idle" /\ pc'[t] = "known" /\ UNCHANGED <<table, shown>>
      /\ seen' = [seen EXCEPT ![t] = ps] /\ \A u \in Threads \ {t} : Untouched(u)
  BY <1>1 DEF TypeOK, LoadPage, Goto, Untouched
<1>3. Posts' = Posts
  BY <1>2, NoPostMoves DEF UpdateSteps
<1> QED BY <1>2, <1>3 DEF Book!Step, Book!Open

\* What a page decides, what it writes to the copy and what a post loads is no step of
\* the book.
LEMMA Unseen ==
  ASSUME BookInv, NEW t \in Threads, DecideKnown(t) \/ ApplyKnown(t) \/ GetRow(t)
  PROVE  UNCHANGED Book!vars
<1>1. TypeOK
  BY DEF BookInv, RulesInv
<1>2. UNCHANGED <<table, seen, shown>> /\ \A u \in Threads \ {t} : Untouched(u)
  BY <1>1 DEF TypeOK, DecideKnown, ApplyKnown, GetRow, Goto, Untouched
<1>3. CASE DecideKnown(t) \/ ApplyKnown(t)
  <2>1. pc[t] \notin UpdateSteps /\ pc'[t] \notin UpdateSteps
    BY <1>1, <1>3 DEF TypeOK, DecideKnown, ApplyKnown, Goto, UpdateSteps
  <2> QED BY <1>2, <2>1, NoPostMoves DEF Book!vars
<1>4. CASE GetRow(t)
  <2>1. pc[t] = "getRow" /\ pc'[t] = "commitUpdate"
    BY <1>1, <1>4 DEF TypeOK, GetRow, Goto
  <2>2. form'[t].policy = form[t].policy /\ form'[t].edit = form[t].edit
    BY <1>1, <1>4 DEF TypeOK, Form, GetRow
  <2>3. PostOf(pc'[t], form'[t]) = Posts[t]
    BY <2>1, <2>2 DEF PostOf, Posts
  <2>4. Posts' = [Posts EXCEPT ![t] = PostOf(pc'[t], form'[t])]
    BY <1>2, PostMoves
  <2>5. Posts' = Posts
    BY <2>3, <2>4 DEF Posts
  <2> QED BY <1>2, <2>5 DEF Book!vars
<1> QED BY <1>3, <1>4

\* The texts ensure_known inserts are those of the report the book does not have: they
\* were decided by the copy, which is behind the table, but an INSERT of a row that is
\* there by now fails.
LEMMA CommitKnownIsLearn ==
  ASSUME BookInv, NEW t \in Threads, CommitKnown(t)
  PROVE  Book!Step
<1>1. TypeOK /\ SeenOK(t) /\ Known \subseteq Stored
  BY DEF BookInv, RulesInv
<1>2. /\ pc[t] = "commitKnown" /\ pc'[t] = "applyKnown" /\ UNCHANGED <<seen, shown>>
      /\ \A u \in Threads \ {t} : Untouched(u)
      /\ \A p \in new[t] : table[p] = None
      /\ table' = [p \in Policies |-> IF p \in new[t] THEN AutoDetect(p) ELSE table[p]]
  BY <1>1 DEF TypeOK, CommitKnown, Goto, Untouched
<1>3. Book!Written = Stored
  BY DEF Book!Written, Stored
<1>4. new[t] = seen[t] \ Stored
  <2>1. new[t] \subseteq seen[t] /\ seen[t] \subseteq Stored \cup new[t]
    BY <1>1, <1>2 DEF SeenOK
  <2>2. \A p \in new[t] : p \notin Stored
    BY <1>2 DEF Stored
  <2> QED BY <2>1, <2>2
<1>5. Posts' = Posts
  BY <1>2, NoPostMoves DEF UpdateSteps
<1>6. Book!Learn(t)
  BY <1>2, <1>3, <1>4, <1>5 DEF Book!Learn
<1> QED BY <1>6 DEF Book!Step

\* A page is answered.
LEMMA EvaluateIsAnswer ==
  ASSUME BookInv, NEW t \in Threads, Evaluate(t)
  PROVE  Book!Step
<1>1. TypeOK /\ SeenOK(t) /\ Known \subseteq Stored
  BY DEF BookInv, RulesInv
<1>2. /\ pc[t] = "evaluate" /\ pc'[t] = "idle" /\ table' = table
      /\ seen' = [seen EXCEPT ![t] = {}] /\ \A u \in Threads \ {t} : Untouched(u)
  BY <1>1 DEF TypeOK, Evaluate, Finish, Goto, Untouched
<1>3. Book!Written = Stored
  BY DEF Book!Written, Stored
<1>4. \E ps \in SUBSET Book!Written : shown' = shown \cup ps
  <2>1. shown' = shown \/ shown' = shown \cup Known
    BY DEF Evaluate, Known
  <2>2. CASE shown' = shown
    <3>1. shown' = shown \cup {} /\ {} \in SUBSET Book!Written
      BY <2>2
    <3> QED BY <3>1
  <2>3. CASE shown' = shown \cup Known
    <3>1. Known \in SUBSET Book!Written
      BY <1>1, <1>3
    <3> QED BY <2>3, <3>1
  <2> QED BY <2>1, <2>2, <2>3
<1>5. Posts' = Posts
  BY <1>2, NoPostMoves DEF UpdateSteps
<1>6. Book!Answer(t)
  BY <1>1, <1>2, <1>3, <1>4, <1>5 DEF Book!Answer, SeenOK
<1> QED BY <1>6 DEF Book!Step

\* A form is posted.
LEMMA PostRuleIsAsk ==
  ASSUME BookInv, NEW t \in Threads, NEW p \in Policies, NEW edit \in Edit,
         PostRule(t, p, edit)
  PROVE  Book!Step
<1>1. TypeOK
  BY DEF BookInv, RulesInv
<1>2. /\ pc[t] = "idle" /\ pc'[t] = "getRow" /\ UNCHANGED <<table, seen, shown>>
      /\ p \in shown /\ \A u \in Threads \ {t} : Untouched(u)
      /\ form'[t] = [policy |-> p, edit |-> edit, row |-> None]
  BY <1>1 DEF TypeOK, PostRule, Goto, Untouched
<1>3. PostOf(pc'[t], form'[t]) = [policy |-> p, edit |-> edit, written |-> FALSE]
  <2>1. (pc'[t] = "assignUpdate") = FALSE
    BY <1>2
  <2>2. form'[t].policy = p /\ form'[t].edit = edit
    BY <1>2
  <2>3. PostOf(pc'[t], form'[t]) = [policy |-> form'[t].policy, edit |-> form'[t].edit,
                                   written |-> pc'[t] = "assignUpdate"]
    BY <1>2 DEF PostOf
  <2> QED BY <2>1, <2>2, <2>3, Zenon
<1>4. Posts[t] = None
  BY <1>2 DEF Posts, PostOf
<1>5. Posts' = [Posts EXCEPT ![t] = [policy |-> p, edit |-> edit, written |-> FALSE]]
  BY <1>2, <1>3, PostMoves
<1>6. Book!Ask(t, p, edit)
  BY <1>2, <1>4, <1>5 DEF Book!Ask
<1> QED BY <1>6 DEF Book!Step

\* The request of a post ends, answered or not.
LEMMA PostEnds ==
  ASSUME BookInv, NEW t \in Threads, AssignUpdate(t) \/ Fail(t)
  PROVE  Book!Step
<1>1. TypeOK
  BY DEF BookInv, RulesInv
<1>2. /\ pc'[t] = "idle" /\ UNCHANGED <<table, shown>> /\ seen' = [seen EXCEPT ![t] = {}]
      /\ \A u \in Threads \ {t} : Untouched(u)
  BY <1>1 DEF TypeOK, AssignUpdate, Fail, Finish, Goto, Untouched
<1>3. seen' = [u \in Threads |-> IF u \in {t} THEN {} ELSE seen[u]]
  BY <1>1, <1>2 DEF TypeOK
<1>4. PostOf(pc'[t], form'[t]) = None
  BY <1>2 DEF PostOf
<1>5. Posts' = [u \in Threads |-> IF u \in {t} THEN None ELSE Posts[u]]
  BY <1>2, <1>4, PostMoves DEF Posts
<1>6. Book!End({t})
  BY <1>2, <1>3, <1>5 DEF Book!End
<1>7. {t} \in SUBSET Threads
  OBVIOUS
<1> QED BY <1>6, <1>7 DEF Book!Step

\* So do all of them with the process.
LEMMA RestartIsEnd ==
  ASSUME BookInv, Restart
  PROVE  Book!Step
<1>1. seen' = [t \in Threads |-> IF t \in Threads THEN {} ELSE seen[t]]
  BY DEF Restart
<1>2. \A t \in Threads : PostOf(pc'[t], form'[t]) = None
  BY DEF Restart, PostOf
<1>3. Posts' = [t \in Threads |-> IF t \in Threads THEN None ELSE Posts[t]]
  BY <1>2 DEF Posts
<1>4. Book!End(Threads)
  BY <1>1, <1>3 DEF Restart, Book!End
<1> QED BY <1>4 DEF Book!Step

\* The columns an UPDATE names, and that they are all of them where the row is by no
\* hand: the post has loaded that very row.
LEMMA UpdateWrites ==
  ASSUME BookInv, NEW t \in Threads, CommitUpdate(t),
         NEW p, p = form[t].policy
  PROVE  \E columns \in SUBSET DOMAIN View(t) :
           /\ table[p].src = "auto" => columns = DOMAIN View(t)
           /\ table' = [table EXCEPT ![p] = Book!Merged(table[p], View(t), columns)]
<1> DEFINE hand == View(t)
           old == form[t].row
           six == {"fee", "late", "days", "cutoff", "configured", "src"}
<1>1. /\ pc[t] = "commitUpdate" /\ TypeOK /\ PostOK(t) /\ LoadedOK(t)
      /\ AutoIsDetected /\ shown \subseteq Stored
  BY DEF BookInv, RulesInv, CommitUpdate
<1>2. p \in Policies /\ table[p] \in Entry /\ table[p] # None /\ old \in Entry
      /\ form[t].edit \in Edit
  BY <1>1 DEF PostOK, UpdateSteps, TypeOK, Form, Stored
<1>3. hand \in Entry
  BY <1>2, ViewType
<1>4. DOMAIN hand = six /\ DOMAIN old = six /\ DOMAIN table[p] = six
  BY <1>2, <1>3 DEF Entry, AnyEntry
<1>5. table' = [table EXCEPT ![p] =
                  [f \in DOMAIN old |-> IF hand[f] # old[f] THEN hand[f] ELSE table[p][f]]]
  <2>1. old # None
    BY <1>1 DEF PostOK
  <2> QED BY <2>1 DEF CommitUpdate
<1> HIDE DEF hand, old, six
<1>6. CASE table[p].src = "auto"
  <2>1. old = table[p]
    <3>1. old.src \in {"auto", "manual"} /\ (old.src = "manual" => table[p].src = "manual")
      BY <1>1, <1>2 DEF PostOK, Entry, AnyEntry, old
    <3>2. old.src = "auto"
      BY <1>6, <3>1
    <3>3. old = AutoDetect(p)
      BY <1>1, <3>2 DEF LoadedOK, old
    <3>4. table[p] = AutoDetect(p)
      BY <1>1, <1>2, <1>6 DEF AutoIsDetected
    <3> QED BY <3>3, <3>4
  <2>2. [f \in DOMAIN old |-> IF hand[f] # old[f] THEN hand[f] ELSE table[p][f]]
        = Book!Merged(table[p], hand, DOMAIN hand)
    BY <1>4, <2>1 DEF Book!Merged
  <2> QED BY <1>5, <2>2 DEF hand
<1>7. CASE table[p].src # "auto"
  <2> DEFINE columns == {f \in DOMAIN hand : hand[f] # old[f]}
  <2>1. [f \in DOMAIN old |-> IF hand[f] # old[f] THEN hand[f] ELSE table[p][f]]
        = Book!Merged(table[p], hand, columns)
    BY <1>4 DEF Book!Merged
  <2>2. columns \in SUBSET DOMAIN hand
    OBVIOUS
  <2> HIDE DEF columns
  <2> QED BY <1>5, <1>7, <2>1, <2>2 DEF hand
<1> QED BY <1>6, <1>7

\* A post with its written field set.
AsPost(policy, edit, written) == [policy |-> policy, edit |-> edit, written |-> written]
Stamp(post, written) == [post EXCEPT !.written = written]

LEMMA Stamped ==
  ASSUME NEW policy, NEW edit, NEW before, NEW after
  PROVE  Stamp(AsPost(policy, edit, before), after) = AsPost(policy, edit, after)
<1>1. ASSUME NEW post, post = [policy |-> policy, edit |-> edit, written |-> before]
      PROVE  [post EXCEPT !.written = after]
             = [policy |-> policy, edit |-> edit, written |-> after]
  BY <1>1
<1> QED BY <1>1 DEF Stamp, AsPost

\* A post is written.
LEMMA CommitUpdateIsWrite ==
  ASSUME BookInv, NEW t \in Threads, CommitUpdate(t)
  PROVE  Book!Step
<1> DEFINE p == form[t].policy
           edit == form[t].edit
<1>1. TypeOK /\ PostOK(t) /\ shown \subseteq Stored
  BY DEF BookInv, RulesInv
<1>2. /\ pc[t] = "commitUpdate" /\ pc'[t] = "assignUpdate" /\ UNCHANGED <<seen, shown>>
      /\ \A u \in Threads \ {t} : Untouched(u)
      /\ form'[t].policy = p /\ form'[t].edit = edit
  BY <1>1 DEF TypeOK, Form, CommitUpdate, Goto, Untouched
<1>3. p \in Book!Written /\ edit \in Edit
  BY <1>1, <1>2 DEF PostOK, UpdateSteps, Book!Written, Stored
<1>4. Posts[t] = [policy |-> p, edit |-> edit, written |-> FALSE]
  <2>1. (pc[t] = "assignUpdate") = FALSE
    BY <1>2
  <2>2. Posts[t] = [policy |-> p, edit |-> edit, written |-> pc[t] = "assignUpdate"]
    BY <1>2 DEF Posts, PostOf
  <2> QED BY <2>1, <2>2, Zenon
<1>5. PostOf(pc'[t], form'[t]) = [policy |-> p, edit |-> edit, written |-> TRUE]
  <2>1. (pc'[t] = "assignUpdate") = TRUE
    BY <1>2
  <2>2. PostOf(pc'[t], form'[t])
        = [policy |-> p, edit |-> edit, written |-> pc'[t] = "assignUpdate"]
    BY <1>2 DEF PostOf
  <2> QED BY <2>1, <2>2, Zenon
<1>6. PICK columns \in SUBSET DOMAIN View(t) :
           /\ table[p].src = "auto" => columns = DOMAIN View(t)
           /\ table' = [table EXCEPT ![p] = Book!Merged(table[p], View(t), columns)]
  BY UpdateWrites
<1>7. Book!ByHand(edit) = View(t)
  BY DEF Book!ByHand, View
<1>8. Posts' = [Posts EXCEPT ![t] = [policy |-> p, edit |-> edit, written |-> TRUE]]
  BY <1>2, <1>5, PostMoves
<1> HIDE DEF p, edit
<1>9. /\ Posts[t].policy = p /\ Posts[t].edit = edit /\ ~Posts[t].written
      /\ [Posts[t] EXCEPT !.written = TRUE] = [policy |-> p, edit |-> edit, written |-> TRUE]
  <2>1. Posts[t].policy = p /\ Posts[t].edit = edit /\ ~Posts[t].written
    BY <1>4
  <2>2. Posts[t] = AsPost(p, edit, FALSE)
    BY <1>4 DEF AsPost
  <2>3. Stamp(AsPost(p, edit, FALSE), TRUE) = AsPost(p, edit, TRUE)
    BY Stamped, Zenon
  <2>4. Stamp(Posts[t], TRUE) = AsPost(p, edit, TRUE)
    BY <2>2, <2>3
  <2> QED BY <2>1, <2>4 DEF Stamp, AsPost
<1>10. Posts[t] # None
  <2>1. p \in Policies
    BY <1>3 DEF Book!Written
  <2>2. Posts[t] \in Book!Post
    BY <1>3, <1>4, <2>1 DEF Book!Post
  <2> QED BY <2>2, PostAssumption
<1>11. Posts' = [Posts EXCEPT ![t].written = TRUE]
  <2>1. [Posts EXCEPT ![t].written = TRUE] = [Posts EXCEPT ![t] = [@ EXCEPT !.written = TRUE]]
    OBVIOUS
  <2>2. [Posts EXCEPT ![t].written = TRUE]
        = [Posts EXCEPT ![t] = [policy |-> p, edit |-> edit, written |-> TRUE]]
    BY <1>9, <2>1
  <2> QED BY <1>8, <2>2
<1>12. Book!Write(t)
  BY <1>2, <1>3, <1>6, <1>7, <1>9, <1>10, <1>11 DEF Book!Write
<1> QED BY <1>12 DEF Book!Step

\* Every step of the store is a step of the book, or none.
LEMMA NextIsBook == BookInv /\ [Next]_vars => [Book!Next]_(Book!vars)
<1> SUFFICES ASSUME BookInv, [Next]_vars PROVE Book!Step \/ UNCHANGED Book!vars
  BY DEF Book!Next
<1>1. CASE UNCHANGED vars
  BY <1>1 DEF vars, Book!vars, Posts
<1>2. CASE Restart
  BY <1>2, RestartIsEnd
<1>3. ASSUME NEW t \in Threads, NEW ps \in SUBSET Policies, LoadPage(t, ps)
      PROVE  Book!Step
  BY <1>3, LoadPageIsOpen
<1>4. ASSUME NEW t \in Threads, NEW p \in Policies, NEW edit \in Edit, PostRule(t, p, edit)
      PROVE  Book!Step
  BY <1>4, PostRuleIsAsk
<1>5. ASSUME NEW t \in Threads, DecideKnown(t) \/ ApplyKnown(t) \/ GetRow(t)
      PROVE  UNCHANGED Book!vars
  BY <1>5, Unseen
<1>6. ASSUME NEW t \in Threads, CommitKnown(t) \/ Evaluate(t) \/ CommitUpdate(t)
                                \/ AssignUpdate(t) \/ Fail(t)
      PROVE  Book!Step
  BY <1>6, CommitKnownIsLearn, EvaluateIsAnswer, CommitUpdateIsWrite, PostEnds
<1> QED BY <1>1, <1>2, <1>3, <1>4, <1>5, <1>6 DEF Next

\* The store implements PolicyBook, for any number of threads, with or without database
\* failures: a text gets its meaning at one instant and keeps it until a hand writes
\* another; a post is written at one instant and once, the first one for a rule whole;
\* and no page is answered before the book has every text of its report
\* (rules_store.py:133-176).
THEOREM StoreIsBook == Spec => ImplementsBook
<1>1. Init => Book!Init
  BY DEF Init, Book!Init, Posts, PostOf
<1>2. Spec => Book!Spec
  BY <1>1, NextIsBook, AlwaysBookInv, PTL DEF Spec, Book!Spec
<1> QED BY <1>2 DEF ImplementsBook

(***************************************************************************)
(* With one request thread, as deployed: the copy is behind the table only *)
(* between a commit and the assignment that follows it, by just what was   *)
(* committed; and a post writes all of its form.  Two threads break both.  *)
(***************************************************************************)

OneThread == \A t, u \in Threads : t = u

CopyIsTable ==
  (\A t \in Threads : pc[t] \notin {"applyKnown", "assignUpdate"}) => cache = table

\* How far the copy is behind, and what a request has read is still so.
CopyOK(t) ==
  /\ pc[t] = "commitKnown" => \A p \in new[t] : cache[p] = None
  /\ pc[t] = "applyKnown" =>
       table = [p \in Policies |-> IF p \in new[t] THEN AutoDetect(p) ELSE cache[p]]
  /\ pc[t] = "commitUpdate" => form[t].row = table[form[t].policy]
  /\ pc[t] = "assignUpdate" => table = [cache EXCEPT ![form[t].policy] = View(t)]

CopyInv ==
  /\ OneThread /\ BookInv
  /\ CopyIsTable
  /\ \A t \in Threads : CopyOK(t)

\* The one thread keeps it for itself.
LEMMA StepKeepsCopy ==
  ASSUME CopyInv, BookInv', NEW t \in Threads, CopyOK(t)',
         pc'[t] \notin {"applyKnown", "assignUpdate"} => cache' = table'
  PROVE  CopyInv'
<1>1. \A u \in Threads : u = t
  BY DEF CopyInv, OneThread
<1>2. CopyIsTable'
  BY DEF CopyIsTable
<1>3. \A u \in Threads : CopyOK(u)'
  BY <1>1
<1> QED BY <1>2, <1>3 DEF CopyInv, OneThread

\* Where it is not behind.
LEMMA CopyIsTableAt ==
  ASSUME CopyInv, NEW t \in Threads, pc[t] \notin {"applyKnown", "assignUpdate"}
  PROVE  cache = table
BY DEF CopyInv, OneThread, CopyIsTable

\* A page load finds new texts, inserts them and writes them to the copy.
LEMMA LearnKeepsCopy ==
  ASSUME CopyInv, BookInv', NEW t \in Threads,
         DecideKnown(t) \/ CommitKnown(t) \/ ApplyKnown(t)
  PROVE  CopyInv'
<1>1. TypeOK /\ CopyOK(t)
  BY DEF CopyInv, BookInv, RulesInv
<1>2. CASE DecideKnown(t)
  <2>1. /\ cache = table /\ UNCHANGED <<table, cache>>
        /\ pc'[t] \in {"evaluate", "commitKnown"} /\ \A p \in new'[t] : cache[p] = None
    BY <1>1, <1>2, CopyIsTableAt DEF TypeOK, DecideKnown, Goto
  <2>2. CopyOK(t)'
    BY <2>1 DEF CopyOK
  <2> QED BY <2>1, <2>2, StepKeepsCopy
<1>3. CASE CommitKnown(t)
  <2>1. cache = table /\ UNCHANGED <<cache, new>> /\ pc'[t] = "applyKnown"
    BY <1>1, <1>3, CopyIsTableAt DEF TypeOK, CommitKnown, Goto
  <2>2. table' = [p \in Policies |-> IF p \in new'[t] THEN AutoDetect(p) ELSE cache'[p]]
    BY <1>3, <2>1 DEF CommitKnown
  <2>3. CopyOK(t)'
    BY <2>1, <2>2 DEF CopyOK, AutoDetect, NeedsSetup, Detected, DoaCutoff, Hour24
  <2> QED BY <2>1, <2>3, StepKeepsCopy
<1>4. CASE ApplyKnown(t)
  <2>1. cache' = table' /\ pc'[t] = "evaluate"
    BY <1>1, <1>4 DEF TypeOK, ApplyKnown, Goto, CopyOK
  <2>2. CopyOK(t)'
    BY <2>1 DEF CopyOK
  <2> QED BY <2>1, <2>2, StepKeepsCopy
<1> QED BY <1>2, <1>3, <1>4

\* Merged with the row it replaces, what a form says is all of the new row.
LEMMA MergedWhole ==
  ASSUME NEW hand \in Entry, NEW row \in Entry
  PROVE  [f \in DOMAIN row |-> IF hand[f] # row[f] THEN hand[f] ELSE row[f]] = hand
<1> DEFINE m == [f \in DOMAIN row |-> IF hand[f] # row[f] THEN hand[f] ELSE row[f]]
<1>1. DOMAIN hand = {"fee", "late", "days", "cutoff", "configured", "src"}
      /\ DOMAIN row = {"fee", "late", "days", "cutoff", "configured", "src"}
  BY DEF Entry, AnyEntry
<1>2. hand = [f \in DOMAIN hand |-> hand[f]]
  BY DEF Entry, AnyEntry
<1>3. m = [f \in DOMAIN hand |-> hand[f]]
  BY <1>1
<1> QED BY <1>2, <1>3

\* A post writes the row as it was loaded, and then the copy.
LEMMA UpdateKeepsCopy ==
  ASSUME CopyInv, BookInv', NEW t \in Threads,
         GetRow(t) \/ CommitUpdate(t) \/ AssignUpdate(t)
  PROVE  CopyInv'
<1> DEFINE p == form[t].policy
<1>1. TypeOK /\ CopyOK(t) /\ PostOK(t)
  BY DEF CopyInv, BookInv, RulesInv
<1>2. CASE GetRow(t)
  <2>1. cache = table /\ UNCHANGED <<table, cache>> /\ pc'[t] = "commitUpdate"
    BY <1>1, <1>2, CopyIsTableAt DEF TypeOK, GetRow, Goto
  <2>2. form'[t].policy = p /\ form'[t].row = table[p]
    BY <1>1, <1>2 DEF TypeOK, Form, GetRow
  <2>3. CopyOK(t)'
    BY <2>1, <2>2 DEF CopyOK
  <2> QED BY <2>1, <2>3, StepKeepsCopy
<1>3. CASE CommitUpdate(t)
  <2>1. cache = table /\ cache' = cache /\ pc[t] = "commitUpdate" /\ pc'[t] = "assignUpdate"
    BY <1>1, <1>3, CopyIsTableAt DEF TypeOK, CommitUpdate, Goto
  <2>2. form'[t].policy = p /\ form'[t].edit = form[t].edit
    BY <1>1, <1>3 DEF TypeOK, Form, CommitUpdate
  <2>3. View(t)' = View(t)
    BY <2>2 DEF View
  <2>4. form[t].row = table[p] /\ form[t].row # None /\ p \in Policies
        /\ form[t].edit \in Edit /\ table[p] \in Entry
    <3>1. p \in shown /\ form[t].edit \in Edit /\ form[t].row # None
      BY <1>1, <2>1 DEF PostOK, UpdateSteps
    <3>2. form[t].row = table[p]
      BY <1>1, <2>1 DEF CopyOK
    <3> QED BY <1>1, <3>1, <3>2 DEF TypeOK
  <2>5. View(t) \in Entry
    BY <2>4, ViewType
  <2>6. table' = [table EXCEPT ![p] =
                    [f \in DOMAIN table[p] |->
                       IF View(t)[f] # table[p][f] THEN View(t)[f] ELSE table[p][f]]]
    BY <1>3, <2>4 DEF CommitUpdate
  <2>7. table' = [table EXCEPT ![p] = View(t)]
    BY <2>4, <2>5, <2>6, MergedWhole
  <2>8. CopyOK(t)'
    <3>1. table' = [cache' EXCEPT ![form'[t].policy] = View(t)']
      BY <2>1, <2>2, <2>3, <2>7
    <3> QED BY <2>1, <3>1 DEF CopyOK
  <2> QED BY <2>1, <2>8, StepKeepsCopy
<1>4. CASE AssignUpdate(t)
  <2>1. cache' = table' /\ pc'[t] = "idle"
    BY <1>1, <1>4 DEF TypeOK, AssignUpdate, Finish, Goto, CopyOK
  <2>2. CopyOK(t)'
    BY <2>1 DEF CopyOK
  <2> QED BY <2>1, <2>2, StepKeepsCopy
<1> QED BY <1>2, <1>3, <1>4

\* The steps that write nothing.
LEMMA OthersKeepCopy ==
  ASSUME CopyInv, BookInv', NEW t \in Threads,
         UNCHANGED <<table, cache>>, pc[t] \notin {"applyKnown", "assignUpdate"},
         pc'[t] \in {"known", "getRow", "idle"}
  PROVE  CopyInv'
<1>1. cache' = table' /\ CopyOK(t)'
  BY CopyIsTableAt DEF CopyOK
<1> QED BY <1>1, StepKeepsCopy

LEMMA InitCopyInv == OneThread /\ Init => CopyInv
<1> SUFFICES ASSUME OneThread, Init PROVE CopyInv
  OBVIOUS
<1>1. CopyIsTable /\ \A t \in Threads : CopyOK(t)
  BY DEF Init, CopyIsTable, CopyOK
<1> QED BY <1>1, InitBookInv DEF CopyInv

LEMMA NextCopyInv == CopyInv /\ [Next]_vars => CopyInv'
<1> SUFFICES ASSUME CopyInv, [Next]_vars PROVE CopyInv'
  OBVIOUS
<1>1. BookInv' /\ TypeOK
  BY NextBookInv DEF CopyInv, BookInv, RulesInv
<1>2. CASE UNCHANGED vars
  <2>1. UNCHANGED <<table, cache, pc, new, form>>
    BY <1>2 DEF vars
  <2>2. CopyIsTable'
    BY <2>1 DEF CopyInv, CopyIsTable
  <2>3. \A t \in Threads : View(t)' = View(t)
    BY <2>1 DEF View
  <2>4. ASSUME NEW t \in Threads PROVE CopyOK(t)'
    <3>1. CopyOK(t) /\ View(t)' = View(t)
      BY <2>3 DEF CopyInv
    <3> QED BY <2>1, <3>1
        DEF CopyOK, AutoDetect, NeedsSetup, Detected, DoaCutoff, Hour24
  <2> QED BY <1>1, <2>2, <2>4 DEF CopyInv, OneThread
<1>3. CASE Restart
  <2>1. cache' = table' /\ \A t \in Threads : pc'[t] = "idle"
    BY <1>3 DEF Restart
  <2>2. CopyIsTable' /\ \A t \in Threads : CopyOK(t)'
    BY <2>1 DEF CopyIsTable, CopyOK
  <2> QED BY <1>1, <2>2 DEF CopyInv, OneThread
<1>4. ASSUME NEW t \in Threads, NEW ps \in SUBSET Policies, LoadPage(t, ps)
      PROVE  CopyInv'
  <2>1. UNCHANGED <<table, cache>> /\ pc[t] = "idle" /\ pc'[t] = "known"
    BY <1>1, <1>4 DEF TypeOK, LoadPage, Goto
  <2> QED BY <1>1, <2>1, OthersKeepCopy
<1>5. ASSUME NEW t \in Threads, NEW p \in Policies, NEW edit \in Edit, PostRule(t, p, edit)
      PROVE  CopyInv'
  <2>1. UNCHANGED <<table, cache>> /\ pc[t] = "idle" /\ pc'[t] = "getRow"
    BY <1>1, <1>5 DEF TypeOK, PostRule, Goto
  <2> QED BY <1>1, <2>1, OthersKeepCopy
<1>6. ASSUME NEW t \in Threads, Evaluate(t) \/ Fail(t)
      PROVE  CopyInv'
  <2>1. UNCHANGED <<table, cache>> /\ pc[t] \notin {"applyKnown", "assignUpdate"}
        /\ pc'[t] = "idle"
    BY <1>1, <1>6 DEF TypeOK, Evaluate, Fail, Finish, Goto
  <2> QED BY <1>1, <2>1, OthersKeepCopy
<1>7. ASSUME NEW t \in Threads, \/ DecideKnown(t) \/ CommitKnown(t) \/ ApplyKnown(t)
                                \/ GetRow(t) \/ CommitUpdate(t) \/ AssignUpdate(t)
      PROVE  CopyInv'
  BY <1>1, <1>7, LearnKeepsCopy, UpdateKeepsCopy
<1> QED BY <1>2, <1>3, <1>4, <1>5, <1>6, <1>7 DEF Next

LEMMA AlwaysCopyInv == OneThread /\ Spec => []CopyInv
<1>1. CopyInv /\ [Next]_vars => CopyInv'
  BY NextCopyInv
<1> QED BY <1>1, InitCopyInv, PTL DEF Spec

\* As deployed, the copy in memory is the table between any two requests, failed ones
\* included (rules_store.py:126-130, 148, 176).
THEOREM CopyIsTheTable == OneThread /\ Spec => []CopyIsTable
<1>1. CopyInv => CopyIsTable
  BY DEF CopyInv
<1> QED BY <1>1, AlwaysCopyInv, PTL

\* As deployed, a post that has been committed is in the table whole, column by column
\* what its form said (rules_store.py:169-175), and no row ensure_known inserts is
\* there already (rules_store.py:144-147).
THEOREM PostsAreWhole ==
  OneThread /\ Spec => [](\A t \in Threads :
    /\ pc[t] = "assignUpdate" => table[form[t].policy] = View(t)
    /\ pc[t] = "commitKnown" => \A p \in new[t] : table[p] = None)
<1> DEFINE Whole == \A t \in Threads :
    /\ pc[t] = "assignUpdate" => table[form[t].policy] = View(t)
    /\ pc[t] = "commitKnown" => \A p \in new[t] : table[p] = None
<1>1. ASSUME CopyInv PROVE Whole
  <2> SUFFICES ASSUME NEW t \in Threads
      PROVE  /\ pc[t] = "assignUpdate" => table[form[t].policy] = View(t)
             /\ pc[t] = "commitKnown" => \A p \in new[t] : table[p] = None
    OBVIOUS
  <2>1. TypeOK /\ CopyOK(t) /\ PostOK(t)
    BY <1>1 DEF CopyInv, BookInv, RulesInv
  <2>2. CASE pc[t] = "assignUpdate"
    <3>1. form[t].policy \in Policies
      BY <2>1, <2>2 DEF PostOK, UpdateSteps, TypeOK
    <3> QED BY <2>1, <2>2, <3>1 DEF TypeOK, CopyOK
  <2>3. CASE pc[t] = "commitKnown"
    BY <1>1, <2>1, <2>3, CopyIsTableAt DEF CopyOK
  <2> QED BY <2>2, <2>3
<1> HIDE DEF Whole
<1>2. OneThread /\ Spec => []Whole
  BY <1>1, AlwaysCopyInv, PTL
<1> QED BY <1>2 DEF Whole

(***************************************************************************)
(* When every page opens: evaluate raises for numbers that are out of      *)
(* range in a policy text or in a form, and for nothing else.              *)
(***************************************************************************)

Fits(e) ==
  /\ e.days # None => e.days <= MaxDays
  /\ e.cutoff # None => IsTimeOfDay(e.cutoff)

\* The policy texts and the forms have no number of days a date cannot go back by, and
\* no cutoff such as 30:00.  (A form's cutoff is always a time of day.)
NumbersFit ==
  /\ \A p \in Policies : Fits(AutoDetect(p))
  /\ \A d \in FormDays : d <= MaxDays

EntriesFit ==
  \A p \in Policies, store \in {table, cache} : store[p] # None => Fits(store[p])

\* What a form says fits.
LEMMA ViewFits ==
  ASSUME NumbersFit, NEW t \in Threads, form[t].edit \in Edit
  PROVE  Fits(View(t))
<1> DEFINE edit == form[t].edit
<1>1. edit.days \in FormDays /\ edit.cutoff \in FormTimes
  BY DEF Edit
<1>2. edit.cutoff \in [h : 0..23, m : 0..59] \cup {None}
  BY <1>1, RuleAssumptions
<1>3. edit.days <= MaxDays /\ (edit.cutoff # None => IsTimeOfDay(edit.cutoff))
  BY <1>1, <1>2 DEF NumbersFit, IsTimeOfDay
<1>4. View(t).days \in {None, edit.days} /\ View(t).cutoff \in {None, edit.cutoff}
  BY DEF View
<1> QED BY <1>3, <1>4 DEF Fits

\* Every entry of the two stores after a step is an old one, a detected one, what a form
\* says, or has its numbers from those.
LEMMA StoresKeepFit ==
  ASSUME NumbersFit, EntriesFit,
         \A p \in Policies : table'[p] = table[p] \/ Fits(table'[p]),
         \A p \in Policies : cache'[p] = cache[p] \/ cache'[p] = table[p] \/ Fits(cache'[p])
  PROVE  EntriesFit'
<1>1. \A p \in Policies : table'[p] # None => Fits(table'[p])
  BY DEF EntriesFit
<1>2. \A p \in Policies : cache'[p] # None => Fits(cache'[p])
  BY DEF EntriesFit
<1> QED BY <1>1, <1>2 DEF EntriesFit, Fits

LEMMA NextKeepsFit == NumbersFit /\ BookInv /\ EntriesFit /\ [Next]_vars => EntriesFit'
<1> SUFFICES ASSUME NumbersFit, BookInv, EntriesFit, [Next]_vars PROVE EntriesFit'
  OBVIOUS
<1>1. TypeOK /\ \A t \in Threads : PostOK(t)
  BY DEF BookInv, RulesInv
<1>2. ASSUME UNCHANGED <<table, cache>> PROVE EntriesFit'
  BY <1>2, StoresKeepFit
<1>3. CASE UNCHANGED vars
  BY <1>2, <1>3 DEF vars
<1>4. CASE Restart
  BY <1>4, StoresKeepFit DEF Restart
<1>5. ASSUME NEW t \in Threads, NEW ps \in SUBSET Policies, LoadPage(t, ps)  PROVE EntriesFit'
  BY <1>2, <1>5 DEF LoadPage
<1>6. ASSUME NEW t \in Threads, NEW p \in Policies, NEW edit \in Edit, PostRule(t, p, edit)
      PROVE  EntriesFit'
  BY <1>2, <1>6 DEF PostRule
<1>7. ASSUME NEW t \in Threads, DecideKnown(t) \/ Evaluate(t) \/ GetRow(t) \/ Fail(t)
      PROVE  EntriesFit'
  BY <1>2, <1>7 DEF DecideKnown, Evaluate, GetRow, Fail
<1>8. ASSUME NEW t \in Threads, CommitKnown(t) \/ ApplyKnown(t)  PROVE EntriesFit'
  <2>1. \A p \in Policies : table'[p] \in {table[p], AutoDetect(p)}
                         /\ cache'[p] \in {cache[p], AutoDetect(p)}
    BY <1>8 DEF CommitKnown, ApplyKnown
  <2>2. \A p \in Policies : Fits(AutoDetect(p))
    BY DEF NumbersFit
  <2>3. /\ \A p \in Policies : table'[p] = table[p] \/ Fits(table'[p])
        /\ \A p \in Policies : cache'[p] = cache[p] \/ Fits(cache'[p])
    BY <2>1, <2>2
  <2> QED BY <2>3, StoresKeepFit
<1>9. ASSUME NEW t \in Threads, AssignUpdate(t)  PROVE EntriesFit'
  <2>1. Fits(View(t))
    BY <1>1, <1>9, ViewFits DEF PostOK, UpdateSteps, AssignUpdate
  <2>2. \A p \in Policies : table'[p] = table[p] /\ cache'[p] \in {cache[p], View(t)}
    BY <1>1, <1>9 DEF TypeOK, AssignUpdate
  <2> QED BY <2>1, <2>2, StoresKeepFit
<1>10. ASSUME NEW t \in Threads, CommitUpdate(t)  PROVE EntriesFit'
  <2> DEFINE p == form[t].policy
  <2>1. pc[t] = "commitUpdate" /\ cache' = cache
    BY <1>10 DEF CommitUpdate
  <2>2. PICK columns \in SUBSET DOMAIN View(t) :
          table' = [table EXCEPT ![p] = Book!Merged(table[p], View(t), columns)]
    BY <1>10, UpdateWrites
  <2>3. Fits(View(t)) /\ p \in Policies /\ table[p] # None
    <3>1. p \in shown /\ form[t].edit \in Edit
      BY <1>1, <2>1 DEF PostOK, UpdateSteps
    <3>2. shown \subseteq Stored
      BY DEF BookInv, RulesInv
    <3> QED BY <3>1, <3>2, ViewFits DEF Stored
  <2> DEFINE row == Book!Merged(table[p], View(t), columns)
  <2>4. row.days \in {View(t).days, table[p].days} /\ row.cutoff \in {View(t).cutoff, table[p].cutoff}
    BY DEF Book!Merged, View
  <2> HIDE DEF row
  <2>5. Fits(row)
    <3>1. Fits(table[p])
      BY <2>3 DEF EntriesFit
    <3> QED BY <2>3, <2>4, <3>1 DEF Fits
  <2>6. \A q \in Policies : table'[q] = table[q] \/ table'[q] = row
    BY <1>1, <2>2 DEF TypeOK, row
  <2> QED BY <2>1, <2>5, <2>6, StoresKeepFit
<1> QED BY <1>3, <1>4, <1>5, <1>6, <1>7, <1>8, <1>9, <1>10 DEF Next

\* Where the numbers fit, no rule makes a page fail, and the Settings page on which the
\* rules are reviewed always opens (README.md:73-74, cancellation_logic.py:77-92): the
\* run that finds it closed needs a text or a form with such a number.
THEOREM FittingNumbersOpen == NumbersFit /\ Spec => []SettingsOpen
<1>1. Init => EntriesFit
  BY DEF Init, EntriesFit
<1>2. ASSUME NumbersFit, BookInv, EntriesFit  PROVE SettingsOpen
  <2>1. TypeOK
    BY <1>2 DEF BookInv, RulesInv
  <2>2. ASSUME NEW t \in Threads, NEW p \in seen[t]  PROVE ~Raises(RuleOf(p))
    <3>1. p \in Policies
      BY <2>1, <2>2 DEF TypeOK
    <3>2. RuleOf(p) \in AnyEntry
      BY <2>1, <3>1, DetectedType DEF TypeOK, RuleOf, Entry
    <3>3. Fits(RuleOf(p))
      BY <1>2, <3>1 DEF NumbersFit, EntriesFit, RuleOf
    <3> HIDE DEF RuleOf
    <3>4. RuleOf(p).days # None => ~(RuleOf(p).days > MaxDays)
      BY <3>2, <3>3, RuleAssumptions DEF Fits, AnyEntry
    <3> QED BY <3>3, <3>4 DEF Raises, Fits
  <2> QED BY <2>2 DEF SettingsOpen
<1> DEFINE FitInv == NumbersFit /\ EntriesFit
<1>3. NumbersFit /\ Init => FitInv
  BY <1>1
<1>4. BookInv /\ FitInv /\ [Next]_vars => FitInv'
  BY NextKeepsFit DEF NumbersFit, Fits, IsTimeOfDay, AutoDetect
<1>5. BookInv /\ FitInv => SettingsOpen
  BY <1>2
<1> HIDE DEF FitInv
<1> QED BY <1>3, <1>4, <1>5, AlwaysBookInv, PTL DEF Spec
=============================================================================
