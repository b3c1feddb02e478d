----------------------- MODULE HandledFindingsProofs -----------------------
(***************************************************************************)
(* What holds of HandledFindings for every set of browsers, slots, keys    *)
(* and fingerprints, whether requests overlap, fail or lose their answers. *)
(*                                                                         *)
(* That nothing unticked is ever stored or shown as Done rests on what is  *)
(* in flight: every request, an untick included, is about a finding that   *)
(* has been ticked, because only a Done box can be unticked; and while a   *)
(* page waits for its own request, the row keeps the fingerprint the       *)
(* request carries, so that a revert restores what had been ticked.        *)
(*                                                                         *)
(* That a page which waits for nothing is honest rests on BoxInv, which    *)
(* relates each box to its row and to the click it waits for.              *)
(***************************************************************************)
EXTENDS HandledFindings, TLAPS

\* Only what somebody saw and ticked is ever stored as handled.
StoredWasTicked == \A k \in Keys : table[k] # None => <<k, table[k]>> \in ticked

RowsWereTicked ==
  \A b \in Browsers, k \in Keys :
    page[b][k] # None /\ page[b][k].done => <<k, page[b][k].print>> \in ticked

RequestOK(b, s) ==
  req[b][s] # None =>
    LET m == req[b][s] IN
    /\ <<m.key, m.print>> \in ticked
    /\ ~m.stale => /\ stage[b] = "ready"
                   /\ page[b][m.key] # None
                   /\ page[b][m.key].print = m.print

TickedInv ==
  /\ TypeOK
  /\ StoredWasTicked
  /\ RowsWereTicked
  /\ \A b \in Browsers, s \in Slots : RequestOK(b, s)

\* Nothing is stored, shown or in flight at first.
LEMMA InitTickedInv == Init => TickedInv
<1> SUFFICES ASSUME Init PROVE TickedInv
  OBVIOUS
<1>1. TypeOK
  BY DEF Init, TypeOK
<1>2. StoredWasTicked /\ RowsWereTicked
  BY DEF Init, StoredWasTicked, RowsWereTicked
<1>3. \A b \in Browsers, s \in Slots : RequestOK(b, s)
  BY DEF Init, RequestOK
<1> QED BY <1>1, <1>2, <1>3 DEF TickedInv

\* An import changes the record and nothing else.
LEMMA ImportKeeps ==
  ASSUME TickedInv, NEW k \in Keys, NEW f \in Prints \cup {None}, Import(k, f)
  PROVE  TickedInv'
<1>1. TypeOK'
  BY DEF TickedInv, TypeOK, Import
<1>2. StoredWasTicked' /\ RowsWereTicked'
  BY DEF TickedInv, StoredWasTicked, RowsWereTicked, Import
<1>3. ASSUME NEW b \in Browsers, NEW s \in Slots  PROVE RequestOK(b, s)'
  BY DEF TickedInv, RequestOK, Import
<1> QED BY <1>1, <1>2, <1>3 DEF TickedInv

\* A page that is loaded anew shows no box ticked and makes its requests stale.
LEMMA LoadRowsKeeps ==
  ASSUME TickedInv, NEW b \in Browsers, LoadRows(b)
  PROVE  TickedInv'
<1>1. TypeOK
  BY DEF TickedInv
<1> DEFINE rows == [k \in Keys |-> IF current[k] = None THEN None
                                   ELSE [print |-> current[k], done |-> FALSE]]
           reqs == [s \in Slots |-> IF req[b][s] = None THEN None
                                    ELSE [req[b][s] EXCEPT !.stale = TRUE]]
<1>2. page' = [page EXCEPT ![b] = rows] /\ req' = [req EXCEPT ![b] = reqs]
  BY DEF LoadRows
<1>3. rows \in [Keys -> Row \cup {None}]
  BY <1>1 DEF TypeOK, Row
<1>4. reqs \in [Slots -> Request \cup {None}]
  <2>1. ASSUME NEW s \in Slots, req[b][s] # None
        PROVE  [req[b][s] EXCEPT !.stale = TRUE] \in Request
    <3>1. req[b][s] \in Request
      BY <1>1, <2>1 DEF TypeOK
    <3> QED BY <3>1 DEF Request
  <2> QED BY <2>1
<1>5. \A k \in Keys : rows[k] # None => ~rows[k].done
  OBVIOUS
<1>6. \A s \in Slots : reqs[s] # None =>
        /\ req[b][s] # None /\ reqs[s].stale
        /\ reqs[s].key = req[b][s].key /\ reqs[s].print = req[b][s].print
  <2> SUFFICES ASSUME NEW s \in Slots, reqs[s] # None
               PROVE  /\ req[b][s] # None /\ reqs[s].stale
                      /\ reqs[s].key = req[b][s].key /\ reqs[s].print = req[b][s].print
    OBVIOUS
  <2>1. req[b][s] \in Request
    BY <1>1 DEF TypeOK
  <2> QED BY <2>1 DEF Request
<1> HIDE DEF rows, reqs
<1>7. TypeOK'
  <2>1. page' \in [Browsers -> [Keys -> Row \cup {None}]]
    BY <1>1, <1>2, <1>3 DEF TypeOK
  <2>2. req' \in [Browsers -> [Slots -> Request \cup {None}]]
    BY <1>1, <1>2, <1>4 DEF TypeOK
  <2>3. stage' \in [Browsers -> {"none", "rows", "ready"}] /\ excused' \subseteq Browsers \X Keys
    BY <1>1 DEF TypeOK, LoadRows
  <2> QED BY <1>1, <2>1, <2>2, <2>3 DEF TypeOK, LoadRows
<1>8. StoredWasTicked'
  BY DEF TickedInv, StoredWasTicked, LoadRows
<1>9. RowsWereTicked'
  BY <1>1, <1>2, <1>5 DEF TypeOK, TickedInv, RowsWereTicked, LoadRows
<1>10. ASSUME NEW c \in Browsers, NEW s \in Slots  PROVE RequestOK(c, s)'
  <2>1. CASE c = b
    BY <1>1, <1>2, <1>6, <2>1 DEF TypeOK, TickedInv, RequestOK, LoadRows
  <2>2. CASE c # b
    BY <1>1, <1>2, <2>2 DEF TypeOK, TickedInv, RequestOK, LoadRows
  <2> QED BY <2>1, <2>2
<1> QED BY <1>7, <1>8, <1>9, <1>10 DEF TickedInv

\* A row is opened as Done only if its very fingerprint is stored, hence ticked.
LEMMA LoadHandledKeeps ==
  ASSUME TickedInv, NEW b \in Browsers, LoadHandled(b)
  PROVE  TickedInv'
<1>1. TypeOK
  BY DEF TickedInv
<1> DEFINE rows == [k \in Keys |-> IF page[b][k] = None THEN None
                      ELSE [page[b][k] EXCEPT !.done = IsHandled(k, page[b][k].print)]]
<1>2. page' = [page EXCEPT ![b] = rows]
  BY DEF LoadHandled
<1>3. \A k \in Keys : /\ rows[k] \in Row \cup {None}
                      /\ rows[k] # None /\ rows[k].done => table[k] = rows[k].print /\ table[k] # None
  <2> SUFFICES ASSUME NEW k \in Keys, page[b][k] # None
               PROVE  /\ rows[k] \in Row
                      /\ rows[k].done => table[k] = rows[k].print /\ table[k] # None
    OBVIOUS
  <2>1. page[b][k] \in Row
    BY <1>1 DEF TypeOK
  <2> QED BY <2>1 DEF Row, IsHandled
<1>4. \A s \in Slots : req[b][s] # None => req[b][s].stale
  BY <1>1 DEF TickedInv, RequestOK, LoadHandled
<1> HIDE DEF rows
<1>5. TypeOK'
  <2>1. rows \in [Keys -> Row \cup {None}]
    BY <1>3 DEF rows
  <2>2. page' \in [Browsers -> [Keys -> Row \cup {None}]]
    BY <1>1, <1>2, <2>1 DEF TypeOK
  <2>3. stage' \in [Browsers -> {"none", "rows", "ready"}]
    BY <1>1 DEF TypeOK, LoadHandled
  <2> QED BY <1>1, <2>2, <2>3 DEF TypeOK, LoadHandled
<1>6. StoredWasTicked'
  BY DEF TickedInv, StoredWasTicked, LoadHandled
<1>7. RowsWereTicked'
  <2>1. ASSUME NEW c \in Browsers, NEW k \in Keys, page'[c][k] # None, page'[c][k].done
        PROVE  <<k, page'[c][k].print>> \in ticked
    <3>1. CASE c = b
      <4>1. page'[c][k] = rows[k]
        BY <1>1, <1>2, <3>1 DEF TypeOK
      <4> QED BY <1>3, <2>1, <4>1 DEF TickedInv, StoredWasTicked
    <3>2. CASE c # b
      <4>1. page'[c][k] = page[c][k]
        BY <1>1, <1>2, <3>2 DEF TypeOK
      <4> QED BY <2>1, <4>1 DEF TickedInv, RowsWereTicked
    <3> QED BY <3>1, <3>2
  <2> QED BY <2>1 DEF RowsWereTicked, LoadHandled
<1>8. ASSUME NEW c \in Browsers, NEW s \in Slots  PROVE RequestOK(c, s)'
  <2>1. CASE c = b
    BY <1>1, <1>4, <2>1 DEF TypeOK, TickedInv, RequestOK, LoadHandled
  <2>2. CASE c # b
    BY <1>1, <1>2, <2>2 DEF TypeOK, TickedInv, RequestOK, LoadHandled
  <2> QED BY <2>1, <2>2
<1> QED BY <1>5, <1>6, <1>7, <1>8 DEF TickedInv

\* A click on a box that is Done is about a finding that was ticked; a click on one
\* that is not ticks it.
LEMMA ClickKeeps ==
  ASSUME TickedInv, NEW b \in Browsers, NEW s \in Slots, NEW k \in Keys, Click(b, s, k)
  PROVE  TickedInv'
<1>1. TypeOK
  BY DEF TickedInv
<1> DEFINE row == page[b][k]
           box == [row EXCEPT !.done = ~row.done]
           m == [key |-> k, print |-> row.print, handled |-> ~row.done, stale |-> FALSE,
                 step |-> "sent", row |-> None]
<1>2. row \in Row /\ row # None /\ stage[b] = "ready"
  BY <1>1 DEF TypeOK, Click
<1>3. box \in Row /\ box.print = row.print /\ box.done = ~row.done
  BY <1>2 DEF Row
<1>4. m \in Request
  BY <1>2 DEF Row, Request
<1>5. page' = [page EXCEPT ![b] = [page[b] EXCEPT ![k] = box]]
  BY DEF Click
<1>6. req' = [req EXCEPT ![b] = [req[b] EXCEPT ![s] = m]]
  BY DEF Click
<1>7. ticked \subseteq ticked' /\ ticked' \subseteq Keys \X Prints /\ <<k, row.print>> \in ticked'
  <2>1. <<k, row.print>> \in Keys \X Prints
    BY <1>2 DEF Row
  <2>2. CASE row.done
    BY <1>1, <1>2, <2>2 DEF Click, TypeOK, TickedInv, RowsWereTicked
  <2>3. CASE ~row.done
    BY <1>1, <2>1, <2>3 DEF Click, TypeOK
  <2> QED BY <2>2, <2>3
<1>8. excused' \subseteq Browsers \X Keys
  BY <1>1 DEF TypeOK, Click
<1>9. UNCHANGED <<current, table, stage>>
  BY DEF Click
<1>10. /\ m.key = k /\ m.print = row.print /\ m # None /\ box # None
       /\ \A c \in Browsers, i \in Keys : page'[c][i] = IF c = b /\ i = k THEN box ELSE page[c][i]
       /\ \A c \in Browsers, u \in Slots : req'[c][u] = IF c = b /\ u = s THEN m ELSE req[c][u]
  <2>1. m.key = k /\ m.print = row.print /\ m # None /\ box # None
    BY <1>3, <1>4, NoneAssumption
  <2> HIDE DEF box, m
  <2> QED BY <1>1, <1>5, <1>6, <2>1 DEF TypeOK
<1> HIDE DEF box, m, row
<1>11. TypeOK'
  <2>1. page' \in [Browsers -> [Keys -> Row \cup {None}]]
    BY <1>1, <1>3, <1>5 DEF TypeOK
  <2>2. req' \in [Browsers -> [Slots -> Request \cup {None}]]
    BY <1>1, <1>4, <1>6 DEF TypeOK
  <2> QED BY <1>1, <1>7, <1>8, <1>9, <2>1, <2>2 DEF TypeOK
<1>12. StoredWasTicked'
  BY <1>7, <1>9 DEF TickedInv, StoredWasTicked
<1>13. RowsWereTicked'
  <2>1. ASSUME NEW c \in Browsers, NEW i \in Keys, page'[c][i] # None, page'[c][i].done
        PROVE  <<i, page'[c][i].print>> \in ticked'
    BY <1>3, <1>7, <1>10, <2>1 DEF TickedInv, RowsWereTicked
  <2> QED BY <2>1 DEF RowsWereTicked
<1>14. ASSUME NEW c \in Browsers, NEW u \in Slots  PROVE RequestOK(c, u)'
  <2>1. CASE c = b /\ u = s
    BY <1>2, <1>3, <1>7, <1>9, <1>10, <2>1 DEF RequestOK
  <2>2. CASE ~(c = b /\ u = s)
    <3>1. req'[c][u] = req[c][u]
      BY <1>10, <2>2
    <3>2. RequestOK(c, u)
      BY DEF TickedInv
    <3>3. \A i \in Keys : page[c][i] # None => page'[c][i] # None /\ page'[c][i].print = page[c][i].print
      BY <1>3, <1>10 DEF row
    <3>4. req[c][u] # None => req[c][u].key \in Keys
      BY <1>1 DEF TypeOK, Request
    <3> QED BY <1>7, <1>9, <3>1, <3>2, <3>3, <3>4 DEF RequestOK
  <2> QED BY <2>1, <2>2
<1> QED BY <1>11, <1>12, <1>13, <1>14 DEF TickedInv

(***************************************************************************)
(* The server, and the answers.                                            *)
(***************************************************************************)

\* A request that moves on, or is done with, stays about the same finding.
LEMMA RequestMoves ==
  ASSUME TickedInv, NEW b \in Browsers, NEW s \in Slots, NEW m \in Request \cup {None},
         req' = [req EXCEPT ![b] = [req[b] EXCEPT ![s] = m]],
         m # None => /\ req[b][s] # None /\ m.key = req[b][s].key
                     /\ m.print = req[b][s].print /\ m.stale = req[b][s].stale,
         UNCHANGED <<stage, page, ticked>>
  PROVE  /\ req' \in [Browsers -> [Slots -> Request \cup {None}]]
         /\ RowsWereTicked'
         /\ \A c \in Browsers, u \in Slots : RequestOK(c, u)'
<1>1. TypeOK
  BY DEF TickedInv
<1>2. req' \in [Browsers -> [Slots -> Request \cup {None}]]
  BY <1>1 DEF TypeOK
<1>3. RowsWereTicked'
  BY DEF TickedInv, RowsWereTicked
<1>4. ASSUME NEW c \in Browsers, NEW u \in Slots  PROVE RequestOK(c, u)'
  <2>1. RequestOK(c, u)
    BY DEF TickedInv
  <2>2. CASE c = b /\ u = s
    <3>1. req'[c][u] = m
      BY <1>1, <2>2 DEF TypeOK
    <3> QED BY <2>1, <2>2, <3>1 DEF RequestOK
  <2>3. CASE ~(c = b /\ u = s)
    <3>1. req'[c][u] = req[c][u]
      BY <1>1, <2>3 DEF TypeOK
    <3> QED BY <2>1, <3>1 DEF RequestOK
  <2> QED BY <2>2, <2>3
<1> QED BY <1>2, <1>3, <1>4

\* The server's get reads a fingerprint or nothing.
LEMMA GetRowKeeps ==
  ASSUME TickedInv, NEW b \in Browsers, NEW s \in Slots, GetRow(b, s)
  PROVE  TickedInv'
<1>1. TypeOK
  BY DEF TickedInv
<1> DEFINE m == [req[b][s] EXCEPT !.step = "serving", !.row = table[req[b][s].key]]
<1>2. req[b][s] \in Request /\ req[b][s] # None
  BY <1>1 DEF TypeOK, GetRow, At
<1>3. m \in Request /\ m.key = req[b][s].key /\ m.print = req[b][s].print
      /\ m.stale = req[b][s].stale
  <2>1. table[req[b][s].key] \in Prints \cup {None}
    BY <1>1, <1>2 DEF TypeOK, Request
  <2> QED BY <1>2, <2>1 DEF Request
<1>4. req' = [req EXCEPT ![b] = [req[b] EXCEPT ![s] = m]]
  BY <1>1 DEF GetRow, TypeOK
<1>5. UNCHANGED <<current, table, stage, page, ticked, excused>>
  BY DEF GetRow
<1> HIDE DEF m
<1>6. /\ req' \in [Browsers -> [Slots -> Request \cup {None}]]
      /\ RowsWereTicked' /\ \A c \in Browsers, u \in Slots : RequestOK(c, u)'
  BY <1>2, <1>3, <1>4, <1>5, RequestMoves
<1>7. TypeOK' /\ StoredWasTicked'
  BY <1>1, <1>5, <1>6 DEF TypeOK, TickedInv, StoredWasTicked
<1> QED BY <1>6, <1>7 DEF TickedInv

\* A commit that is not refused stores what was ticked, or what was stored.
LEMMA WrittenWasTicked ==
  ASSUME TickedInv, NEW b \in Browsers, NEW s \in Slots, req[b][s] # None,
         ~Refused(req[b][s])
  PROVE  LET m == req[b][s] IN
         /\ m.key \in Keys
         /\ Written(m) \in Prints \cup {None}
         /\ Written(m) # None => <<m.key, Written(m)>> \in ticked
<1> DEFINE m == req[b][s]
<1>1. m \in Request /\ m.key \in Keys /\ m.print \in Prints
  BY DEF TickedInv, TypeOK, Request
<1>2. <<m.key, m.print>> \in ticked
  BY DEF TickedInv, RequestOK
<1>3. table[m.key] \in Prints \cup {None}
      /\ (table[m.key] # None => <<m.key, table[m.key]>> \in ticked)
  BY <1>1 DEF TickedInv, TypeOK, StoredWasTicked
<1> HIDE DEF m
<1> QED BY <1>1, <1>2, <1>3 DEF Written, m

\* The transaction: the row, and nothing else that matters here.
LEMMA CommitKeeps ==
  ASSUME TickedInv, NEW b \in Browsers, NEW s \in Slots, Commit(b, s)
  PROVE  TickedInv'
<1>1. TypeOK
  BY DEF TickedInv
<1> DEFINE old == req[b][s]
           m == [old EXCEPT !.step = "saved", !.row = None]
<1>2. old \in Request /\ old # None /\ ~Refused(old)
  BY <1>1 DEF TypeOK, Commit, At
<1>3. m \in Request /\ m.key = old.key /\ m.print = old.print /\ m.stale = old.stale
  BY <1>2 DEF Request
<1>4. req' = [req EXCEPT ![b] = [req[b] EXCEPT ![s] = m]]
  BY <1>1 DEF Commit, TypeOK
<1>5. UNCHANGED <<current, stage, page, ticked>> /\ table' = [table EXCEPT ![old.key] = Written(old)]
  BY DEF Commit
<1>6. excused' \subseteq Browsers \X Keys
  <2>1. old.key \in Keys
    BY <1>2 DEF Request
  <2> QED BY <1>1, <2>1 DEF Commit, TypeOK
<1>7. /\ old.key \in Keys
      /\ Written(old) \in Prints \cup {None}
      /\ Written(old) # None => <<old.key, Written(old)>> \in ticked
  BY <1>2, WrittenWasTicked
<1> HIDE DEF m, old
<1>8. /\ req' \in [Browsers -> [Slots -> Request \cup {None}]]
      /\ RowsWereTicked' /\ \A c \in Browsers, u \in Slots : RequestOK(c, u)'
  BY <1>2, <1>3, <1>4, <1>5, RequestMoves DEF old
<1>9. TypeOK' /\ StoredWasTicked'
  BY <1>1, <1>5, <1>6, <1>7, <1>8 DEF TypeOK, TickedInv, StoredWasTicked
<1> QED BY <1>8, <1>9 DEF TickedInv

\* A failure, or a lost answer, changes only what the browser is told.
LEMMA FailKeeps ==
  ASSUME TickedInv, NEW b \in Browsers, NEW s \in Slots, Fail(b, s) \/ LoseAnswer(b, s)
  PROVE  TickedInv'
<1>1. TypeOK
  BY DEF TickedInv
<1> DEFINE old == req[b][s]
           m == [old EXCEPT !.step = "failed", !.row = IF old.step = "serving" THEN None ELSE @]
<1>2. old \in Request /\ old # None
  BY <1>1 DEF TypeOK, Fail, LoseAnswer, At
<1>3. m \in Request /\ m.key = old.key /\ m.print = old.print /\ m.stale = old.stale
  BY <1>2 DEF Request
<1>4. req' = [req EXCEPT ![b] = [req[b] EXCEPT ![s] = m]]
  <2>1. CASE Fail(b, s)
    BY <1>1, <2>1 DEF Fail, At, TypeOK
  <2>2. CASE LoseAnswer(b, s)
    <3>1. m = [old EXCEPT !.step = "failed"]
      BY <1>2, <2>2 DEF LoseAnswer, At, Request
    <3> HIDE DEF m
    <3> QED BY <1>1, <2>2, <3>1 DEF LoseAnswer, TypeOK
  <2> QED BY <2>1, <2>2
<1>5. UNCHANGED <<current, table, stage, page, ticked>>
  BY DEF Fail, LoseAnswer
<1>6. excused' \subseteq Browsers \X Keys
  <2>1. old.key \in Keys
    BY <1>2 DEF Request
  <2> QED BY <1>1, <2>1 DEF Fail, LoseAnswer, TypeOK
<1> HIDE DEF m, old
<1>7. /\ req' \in [Browsers -> [Slots -> Request \cup {None}]]
      /\ RowsWereTicked' /\ \A c \in Browsers, u \in Slots : RequestOK(c, u)'
  BY <1>2, <1>3, <1>4, <1>5, RequestMoves DEF old
<1>8. TypeOK' /\ StoredWasTicked'
  BY <1>1, <1>5, <1>6, <1>7 DEF TypeOK, TickedInv, StoredWasTicked
<1> QED BY <1>7, <1>8 DEF TickedInv

\* An answer ends the request.
LEMMA AnsweredKeeps ==
  ASSUME TickedInv, NEW b \in Browsers, NEW s \in Slots, Answered(b, s)
  PROVE  TickedInv'
<1>1. TypeOK
  BY DEF TickedInv
<1>2. req' = [req EXCEPT ![b] = [req[b] EXCEPT ![s] = None]]
      /\ UNCHANGED <<current, table, stage, page, ticked, excused>>
  BY <1>1 DEF Answered, TypeOK
<1>3. /\ req' \in [Browsers -> [Slots -> Request \cup {None}]]
      /\ RowsWereTicked' /\ \A c \in Browsers, u \in Slots : RequestOK(c, u)'
  BY <1>2, RequestMoves
<1>4. TypeOK' /\ StoredWasTicked'
  BY <1>1, <1>2, <1>3 DEF TypeOK, TickedInv, StoredWasTicked
<1> QED BY <1>3, <1>4 DEF TickedInv

\* A box that a revert ticks again had been ticked when its untick was clicked.
LEMMA RevertKeeps ==
  ASSUME TickedInv, NEW b \in Browsers, NEW s \in Slots, Revert(b, s)
  PROVE  TickedInv'
<1>1. TypeOK
  BY DEF TickedInv
<1> DEFINE m == req[b][s]
           box == [page[b][m.key] EXCEPT !.done = ~m.handled]
<1>2. m \in Request /\ m # None /\ m.key \in Keys /\ <<m.key, m.print>> \in ticked
  BY <1>1 DEF TypeOK, TickedInv, RequestOK, Revert, At, Request
<1>3. req' = [req EXCEPT ![b] = [req[b] EXCEPT ![s] = None]]
      /\ UNCHANGED <<current, table, stage, ticked, excused>>
  BY <1>1 DEF Revert, TypeOK
<1>4. StoredWasTicked'
  BY <1>3 DEF TickedInv, StoredWasTicked
<1>5. \A c \in Browsers, u \in Slots : req'[c][u] = IF c = b /\ u = s THEN None ELSE req[c][u]
  BY <1>1, <1>3 DEF TypeOK
<1>6. req' \in [Browsers -> [Slots -> Request \cup {None}]]
  BY <1>1, <1>3 DEF TypeOK
<1>7. CASE m.stale
  <2>1. page' = page
    BY <1>7 DEF Revert
  <2>2. TypeOK' /\ RowsWereTicked'
    BY <1>1, <1>3, <1>6, <2>1 DEF TypeOK, TickedInv, RowsWereTicked
  <2>3. ASSUME NEW c \in Browsers, NEW u \in Slots  PROVE RequestOK(c, u)'
    <3>1. RequestOK(c, u)
      BY DEF TickedInv
    <3> QED BY <1>3, <1>5, <2>1, <3>1 DEF RequestOK
  <2> QED BY <1>4, <2>2, <2>3 DEF TickedInv
<1>8. CASE ~m.stale
  <2>1. page[b][m.key] \in Row /\ page[b][m.key] # None /\ page[b][m.key].print = m.print
    BY <1>1, <1>2, <1>8 DEF TypeOK, TickedInv, RequestOK
  <2>2. box \in Row /\ box.print = m.print
    BY <1>2, <2>1 DEF Row, Request
  <2>3. page' = [page EXCEPT ![b] = [page[b] EXCEPT ![m.key] = box]]
    BY <1>1, <1>8 DEF Revert, TypeOK
  <2> HIDE DEF box, m
  <2>4. \A c \in Browsers, i \in Keys :
          page'[c][i] = IF c = b /\ i = m.key THEN box ELSE page[c][i]
    BY <1>1, <1>2, <2>3 DEF TypeOK
  <2>5. TypeOK'
    <3>1. page' \in [Browsers -> [Keys -> Row \cup {None}]]
      BY <1>1, <1>2, <2>2, <2>3 DEF TypeOK
    <3> QED BY <1>1, <1>3, <1>6, <3>1 DEF TypeOK
  <2>6. RowsWereTicked'
    <3>1. ASSUME NEW c \in Browsers, NEW i \in Keys, page'[c][i] # None, page'[c][i].done
          PROVE  <<i, page'[c][i].print>> \in ticked
      BY <1>2, <2>2, <2>4, <3>1 DEF TickedInv, RowsWereTicked
    <3> QED BY <1>3, <3>1 DEF RowsWereTicked
  <2>7. ASSUME NEW c \in Browsers, NEW u \in Slots  PROVE RequestOK(c, u)'
    <3>1. RequestOK(c, u)
      BY DEF TickedInv
    <3>2. \A i \in Keys : page[c][i] # None => page'[c][i] # None /\ page'[c][i].print = page[c][i].print
      BY <2>1, <2>2, <2>4, NoneAssumption
    <3>3. req[c][u] # None => req[c][u].key \in Keys
      BY <1>1 DEF TypeOK, Request
    <3> QED BY <1>3, <1>5, <3>1, <3>2, <3>3 DEF RequestOK
  <2> QED BY <1>4, <2>5, <2>6, <2>7 DEF TickedInv
<1> QED BY <1>7, <1>8

(***************************************************************************)
(* The theorems.                                                           *)
(***************************************************************************)

\* Every step keeps the invariant.
LEMMA NextTickedInv == TickedInv /\ [Next]_vars => TickedInv'
<1> SUFFICES ASSUME TickedInv, [Next]_vars PROVE TickedInv'
  OBVIOUS
<1>1. ASSUME NEW k \in Keys, NEW f \in Prints \cup {None}, Import(k, f)  PROVE TickedInv'
  BY <1>1, ImportKeeps
<1>2. ASSUME NEW b \in Browsers, LoadRows(b) \/ LoadHandled(b)  PROVE TickedInv'
  BY <1>2, LoadRowsKeeps, LoadHandledKeeps
<1>3. ASSUME NEW b \in Browsers, NEW s \in Slots, NEW k \in Keys, Click(b, s, k)
      PROVE  TickedInv'
  BY <1>3, ClickKeeps
<1>4. ASSUME NEW b \in Browsers, NEW s \in Slots,
             GetRow(b, s) \/ Commit(b, s) \/ Fail(b, s) \/ LoseAnswer(b, s)
               \/ Answered(b, s) \/ Revert(b, s)
      PROVE  TickedInv'
  BY <1>4, GetRowKeeps, CommitKeeps, FailKeeps, AnsweredKeeps, RevertKeeps
<1>5. CASE UNCHANGED vars
  <2>1. TypeOK' /\ StoredWasTicked' /\ RowsWereTicked'
    BY <1>5 DEF TickedInv, vars, TypeOK, StoredWasTicked, RowsWereTicked
  <2>2. ASSUME NEW b \in Browsers, NEW s \in Slots  PROVE RequestOK(b, s)'
    BY <1>5 DEF TickedInv, vars, RequestOK
  <2> QED BY <2>1, <2>2 DEF TickedInv
<1> QED BY <1>1, <1>2, <1>3, <1>4, <1>5 DEF Next

\* The invariant holds always.
LEMMA AlwaysTickedInv == Spec => []TickedInv
  BY InitTickedInv, NextTickedInv, PTL DEF Spec

\* Every variable keeps its type, for every set of browsers, slots, keys and
\* fingerprints: set_handled stores a fingerprint or nothing (app.py:97-113).
THEOREM TypeCorrect == Spec => []TypeOK
<1>1. TickedInv => TypeOK
  BY DEF TickedInv
<1> QED BY <1>1, AlwaysTickedInv, PTL

\* Only what somebody saw and ticked is ever stored as handled (app.py:97-113),
\* however many browsers there are and whatever overlaps, fails or is lost.
THEOREM OnlyTickedIsStored == Spec => []StoredWasTicked
<1>1. TickedInv => StoredWasTicked
  BY DEF TickedInv
<1> QED BY <1>1, AlwaysTickedInv, PTL

\* A changed record reopens its task (README.md:31-32, app.py:137-140): a page never
\* shows a finding as Done that nobody ticked with this very content.
THEOREM OnlyTickedIsDone == Spec => []DoneWasTicked
<1>1. TickedInv => DoneWasTicked
  BY DEF TickedInv, RowsWereTicked, DoneWasTicked
<1> QED BY <1>1, AlwaysTickedInv, PTL

\* What takes the Done of a record as it is now: the commit of an untick of that very
\* finding, or of a click on a row with another content, which somebody had ticked.
DoneIsTaken(k) ==
  \E b \in Browsers, s \in Slots :
    /\ Commit(b, s)
    /\ req[b][s].key = k /\ <<k, req[b][s].print>> \in ticked
    /\ ~req[b][s].handled \/ req[b][s].print # current[k]

\* "keyed by the opaque PMS lookup and the payload fingerprint" (README.md:30-31): how
\* far the code is from what DoneOfCurrentKept expects of it.  set_handled neither
\* compares the fingerprint before a DELETE nor before it writes another one
\* (app.py:97-113), so a page with an older or a newer content can take the Done of the
\* present one; no import, page load, failure or lost answer can.
THEOREM OnlyOtherContentTakesDone ==
  Spec => [][\A k \in Keys : table[k] # None /\ table[k] = current[k] /\ table'[k] # table[k]
               => DoneIsTaken(k)]_vars
<1> DEFINE Kept == \A k \in Keys :
             table[k] # None /\ table[k] = current[k] /\ table'[k] # table[k] => DoneIsTaken(k)
<1>1. ASSUME TickedInv, Next  PROVE Kept
  <2>1. CASE UNCHANGED table
    BY <2>1
  <2>2. ASSUME NEW b \in Browsers, NEW s \in Slots, Commit(b, s)  PROVE Kept
    <3> SUFFICES ASSUME NEW k \in Keys, table[k] # None, table[k] = current[k],
                        table'[k] # table[k]
                 PROVE  DoneIsTaken(k)
      OBVIOUS
    <3> DEFINE m == req[b][s]
    <3>1. m # None /\ table' = [table EXCEPT ![m.key] = Written(m)]
      BY <2>2 DEF Commit, At
    <3>2. m.key = k /\ table'[k] = Written(m)
      BY <1>1, <3>1 DEF TickedInv, TypeOK
    <3>3. <<k, m.print>> \in ticked
      BY <1>1, <3>1, <3>2 DEF TickedInv, RequestOK
    <3>4. m.handled => m.print # current[k]
      BY <3>2 DEF Written
    <3> QED BY <2>2, <3>2, <3>3, <3>4 DEF DoneIsTaken
  <2>3. ASSUME NEW b \in Browsers, NEW s \in Slots,
               \/ \E k \in Keys : Click(b, s, k)
               \/ GetRow(b, s) \/ Fail(b, s) \/ LoseAnswer(b, s) \/ Answered(b, s) \/ Revert(b, s)
        PROVE  UNCHANGED table
    BY <2>3 DEF Click, GetRow, Fail, LoseAnswer, Answered, Revert
  <2>4. ASSUME \/ \E k \in Keys, f \in Prints \cup {None} : Import(k, f)
               \/ \E b \in Browsers : LoadRows(b) \/ LoadHandled(b)
        PROVE  UNCHANGED table
    BY <2>4 DEF Import, LoadRows, LoadHandled
  <2> HIDE DEF Kept
  <2> QED BY <1>1, <2>1, <2>2, <2>3, <2>4 DEF Next
<1>2. TickedInv /\ [Next]_vars => [Kept]_vars
  BY <1>1
<1> HIDE DEF Kept
<1>3. Spec => [][Kept]_vars
  BY <1>2, AlwaysTickedInv, PTL DEF Spec
<1> QED BY <1>3 DEF Kept

(***************************************************************************)
(* The box and the row.  A click is about a row that is still as the box   *)
(* showed it: until the commit the row is the opposite of what was asked,  *)
(* from then on it is what was asked.  So the answer, which leaves the box *)
(* alone, and the revert, which turns it back, are both right.  Whatever   *)
(* disturbs this excuses the box: a commit from elsewhere, a second click  *)
(* on a box that waits, and the loss of the answer to a commit.            *)
(***************************************************************************)
Accountable(b, k) == stage[b] = "ready" /\ page[b][k] # None /\ <<b, k>> \notin excused

OneClick(b, k) == \A s, u \in Slots : Pending(b, s, k) /\ Pending(b, u, k) => s = u

ClickOK(b, s, k) ==
  Pending(b, s, k) =>
    LET m == req[b][s] IN
    /\ page[b][k].done <=> m.handled
    /\ IsHandled(k, page[b][k].print) <=> (m.handled <=> m.step = "saved")
    /\ m.step = "serving" => m.row = table[k]

QuietBoxOK(b, k) ==
  (\A s \in Slots : ~Pending(b, s, k)) =>
    (page[b][k].done <=> IsHandled(k, page[b][k].print))

BoxOK(b, k) ==
  Accountable(b, k) => /\ OneClick(b, k)
                       /\ \A s \in Slots : ClickOK(b, s, k)
                       /\ QuietBoxOK(b, k)

BoxInv == \A b \in Browsers, k \in Keys : BoxOK(b, k)

\* A box nothing happens to: its row is as it was, and so are its requests.
LEMMA OtherBox ==
  ASSUME NEW b \in Browsers, NEW k \in Keys, BoxOK(b, k),
         stage'[b] = stage[b], page'[b][k] = page[b][k], table'[k] = table[k],
         <<b, k>> \in excused => <<b, k>> \in excused',
         \A s \in Slots : /\ Pending(b, s, k)' <=> Pending(b, s, k)
                          /\ Pending(b, s, k) => req'[b][s] = req[b][s]
  PROVE  BoxOK(b, k)'
<1> SUFFICES ASSUME Accountable(b, k)'
             PROVE  /\ OneClick(b, k)' /\ QuietBoxOK(b, k)'
                    /\ \A s \in Slots : ClickOK(b, s, k)'
  BY DEF BoxOK
<1>1. Accountable(b, k)
  BY DEF Accountable
<1>2. OneClick(b, k) /\ QuietBoxOK(b, k) /\ \A s \in Slots : ClickOK(b, s, k)
  BY <1>1 DEF BoxOK
<1>3. IsHandled(k, page[b][k].print)' <=> IsHandled(k, page[b][k].print)
  BY DEF IsHandled
<1>4. OneClick(b, k)' /\ QuietBoxOK(b, k)'
  BY <1>2, <1>3 DEF OneClick, QuietBoxOK
<1>5. ASSUME NEW s \in Slots  PROVE ClickOK(b, s, k)'
  BY <1>2, <1>3 DEF ClickOK
<1> QED BY <1>4, <1>5

\* No page is open at first.
LEMMA InitBoxInv == Init => BoxInv
  BY DEF Init, BoxInv, BoxOK, Accountable

\* An import leaves pages, requests and rows alone.
LEMMA ImportBox ==
  ASSUME BoxInv, NEW k \in Keys, NEW f \in Prints \cup {None}, Import(k, f)
  PROVE  BoxInv'
<1> SUFFICES ASSUME NEW c \in Browsers, NEW i \in Keys  PROVE BoxOK(c, i)'
  BY DEF BoxInv
<1> QED BY OtherBox DEF BoxInv, Import, Pending

\* A page that is being loaded shows nothing yet.
LEMMA LoadRowsBox ==
  ASSUME TickedInv, BoxInv, NEW b \in Browsers, LoadRows(b)
  PROVE  BoxInv'
<1>1. TypeOK
  BY DEF TickedInv
<1> SUFFICES ASSUME NEW c \in Browsers, NEW i \in Keys  PROVE BoxOK(c, i)'
  BY DEF BoxInv
<1>2. CASE c = b
  BY <1>1, <1>2 DEF TypeOK, LoadRows, BoxOK, Accountable
<1>3. CASE c # b
  <2>1. /\ stage'[c] = stage[c] /\ page'[c] = page[c] /\ table' = table /\ req'[c] = req[c]
        /\ <<c, i>> \in excused => <<c, i>> \in excused'
    BY <1>1, <1>3 DEF TypeOK, LoadRows
  <2> QED BY <2>1, OtherBox DEF BoxInv, Pending
<1> QED BY <1>2, <1>3

\* A page opens with every box as its row is, and what is in flight is not its own.
LEMMA LoadHandledBox ==
  ASSUME TickedInv, BoxInv, NEW b \in Browsers, LoadHandled(b)
  PROVE  BoxInv'
<1>1. TypeOK
  BY DEF TickedInv
<1> SUFFICES ASSUME NEW c \in Browsers, NEW i \in Keys  PROVE BoxOK(c, i)'
  BY DEF BoxInv
<1>2. UNCHANGED <<table, req, excused>>
  BY DEF LoadHandled
<1>3. CASE c = b
  <2>1. \A s \in Slots : ~Pending(c, s, i)'
    BY <1>2, <1>3 DEF TickedInv, RequestOK, LoadHandled, Pending
  <2>2. ASSUME page'[c][i] # None
        PROVE  page'[c][i].done <=> IsHandled(i, page[c][i].print)'
    <3>1. page'[c][i] = IF page[c][i] = None THEN None
                        ELSE [page[c][i] EXCEPT !.done = IsHandled(i, page[c][i].print)]
      BY <1>1, <1>3 DEF TypeOK, LoadHandled
    <3>2. page[c][i] \in Row
      BY <1>1, <2>2, <3>1 DEF TypeOK
    <3>3. page'[c][i].print = page[c][i].print
          /\ page'[c][i].done = IsHandled(i, page[c][i].print)
      BY <2>2, <3>1, <3>2 DEF Row
    <3> QED BY <1>2, <3>3 DEF IsHandled
  <2> QED BY <2>1, <2>2 DEF BoxOK, Accountable, OneClick, ClickOK, QuietBoxOK
<1>4. CASE c # b
  <2>1. stage'[c] = stage[c] /\ page'[c] = page[c]
    BY <1>1, <1>4 DEF TypeOK, LoadHandled
  <2> QED BY <1>2, <2>1, OtherBox DEF BoxInv, Pending
<1> QED BY <1>3, <1>4

\* The box and the request it sends start out as opposites of the row; a box that
\* still waits for an earlier click is excused.
LEMMA ClickBox ==
  ASSUME TickedInv, BoxInv, NEW b \in Browsers, NEW s \in Slots, NEW k \in Keys, Click(b, s, k)
  PROVE  BoxInv'
<1>1. TypeOK
  BY DEF TickedInv
<1> SUFFICES ASSUME NEW c \in Browsers, NEW i \in Keys  PROVE BoxOK(c, i)'
  BY DEF BoxInv
<1> DEFINE row == page[b][k]
           box == [row EXCEPT !.done = ~row.done]
           m == [key |-> k, print |-> row.print, handled |-> ~row.done, stale |-> FALSE,
                 step |-> "sent", row |-> None]
<1>2. row \in Row /\ row # None /\ stage[b] = "ready" /\ req[b][s] = None
  BY <1>1 DEF TypeOK, Click
<1>3. box.print = row.print /\ box.done = ~row.done /\ row.done \in BOOLEAN
  BY <1>2 DEF Row
<1>4. m \in Request /\ m # None
  <2>1. m \in Request
    BY <1>2 DEF Row, Request
  <2> HIDE DEF m
  <2> QED BY <2>1, NoneAssumption
<1>5. UNCHANGED <<table, stage>> /\ excused \subseteq excused'
  BY DEF Click
<1>6. /\ page' = [page EXCEPT ![b] = [page[b] EXCEPT ![k] = box]]
      /\ req' = [req EXCEPT ![b] = [req[b] EXCEPT ![s] = m]]
  BY DEF Click
<1>7. m.key = k /\ m.handled = ~row.done /\ ~m.stale /\ m.step = "sent"
  OBVIOUS
<1> HIDE DEF box, m
<1>8. /\ page'[c][i] = IF c = b /\ i = k THEN box ELSE page[c][i]
      /\ \A u \in Slots : req'[c][u] = IF c = b /\ u = s THEN m ELSE req[c][u]
  BY <1>1, <1>6 DEF TypeOK
<1>9. CASE c = b /\ i = k
  <2>1. CASE \E u \in Slots : Pending(b, u, k)
    BY <1>9, <2>1 DEF Click, BoxOK, Accountable
  <2>2. CASE ~\E u \in Slots : Pending(b, u, k)
    <3> SUFFICES ASSUME Accountable(c, i)'
                 PROVE  /\ OneClick(c, i)' /\ QuietBoxOK(c, i)'
                        /\ \A u \in Slots : ClickOK(c, u, i)'
      BY DEF BoxOK
    <3>1. row.done <=> IsHandled(k, row.print)
      BY <1>2, <1>5, <1>9, <2>2 DEF BoxInv, BoxOK, Accountable, QuietBoxOK
    <3>2. \A u \in Slots : Pending(c, u, i)' <=> u = s
      BY <1>4, <1>7, <1>8, <1>9, <2>2 DEF Pending
    <3>3. ClickOK(c, s, i)'
      BY <1>3, <1>5, <1>7, <1>8, <1>9, <3>1 DEF ClickOK, IsHandled
    <3>4. ASSUME NEW u \in Slots  PROVE ClickOK(c, u, i)'
      BY <3>2, <3>3 DEF ClickOK
    <3> QED BY <3>2, <3>4 DEF OneClick, QuietBoxOK
  <2> QED BY <2>1, <2>2
<1>10. CASE ~(c = b /\ i = k)
  <2>1. \A u \in Slots : /\ Pending(c, u, i)' <=> Pending(c, u, i)
                         /\ Pending(c, u, i) => req'[c][u] = req[c][u]
    BY <1>2, <1>7, <1>8, <1>10 DEF Pending
  <2>2. page'[c][i] = page[c][i]
    BY <1>8, <1>10
  <2> QED BY <1>5, <2>1, <2>2, OtherBox DEF BoxInv
<1> QED BY <1>9, <1>10

\* What is read is the row, and nothing else has changed.
LEMMA GetRowBox ==
  ASSUME TickedInv, BoxInv, NEW b \in Browsers, NEW s \in Slots, GetRow(b, s)
  PROVE  BoxInv'
<1>1. TypeOK
  BY DEF TickedInv
<1> SUFFICES ASSUME NEW c \in Browsers, NEW i \in Keys, Accountable(c, i)'
             PROVE  /\ OneClick(c, i)' /\ QuietBoxOK(c, i)'
                    /\ \A u \in Slots : ClickOK(c, u, i)'
  BY DEF BoxInv, BoxOK
<1> DEFINE m == [req[b][s] EXCEPT !.step = "serving", !.row = table[req[b][s].key]]
<1>2. req[b][s] \in Request /\ req[b][s] # None /\ req[b][s].step = "sent"
  BY <1>1 DEF TypeOK, GetRow, At
<1>3. /\ m \in Request /\ m.key = req[b][s].key /\ m.stale = req[b][s].stale
      /\ m.handled = req[b][s].handled /\ m.step = "serving" /\ m.row = table[m.key]
  <2>1. table[req[b][s].key] \in Prints \cup {None}
    BY <1>1, <1>2 DEF TypeOK, Request
  <2> QED BY <1>2, <2>1 DEF Request
<1>4. req' = [req EXCEPT ![b] = [req[b] EXCEPT ![s] = m]]
      /\ UNCHANGED <<table, stage, page, excused>>
  BY <1>1 DEF GetRow, TypeOK
<1> HIDE DEF m
<1>5. /\ \A u \in Slots : req'[c][u] = IF c = b /\ u = s THEN m ELSE req[c][u]
      /\ \A u \in Slots : Pending(c, u, i)' <=> Pending(c, u, i)
  <2>1. \A u \in Slots : req'[c][u] = IF c = b /\ u = s THEN m ELSE req[c][u]
    BY <1>1, <1>4 DEF TypeOK
  <2> QED BY <1>2, <1>3, <2>1, NoneAssumption DEF Pending
<1>6. OneClick(c, i) /\ QuietBoxOK(c, i) /\ \A u \in Slots : ClickOK(c, u, i)
  BY <1>4 DEF BoxInv, BoxOK, Accountable
<1>7. OneClick(c, i)' /\ QuietBoxOK(c, i)'
  BY <1>4, <1>5, <1>6 DEF OneClick, QuietBoxOK, IsHandled
<1>8. ASSUME NEW u \in Slots, Pending(c, u, i)'  PROVE ClickOK(c, u, i)'
  <2>1. CASE c = b /\ u = s
    <3>1. i = m.key
      BY <1>3, <1>5, <1>8, <2>1 DEF Pending
    <3> QED BY <1>2, <1>3, <1>4, <1>5, <1>6, <1>8, <2>1, <3>1 DEF ClickOK, IsHandled
  <2>2. CASE ~(c = b /\ u = s)
    BY <1>4, <1>5, <1>6, <1>8, <2>2 DEF ClickOK, IsHandled
  <2> QED BY <2>1, <2>2
<1>9. \A u \in Slots : ClickOK(c, u, i)'
  BY <1>8 DEF ClickOK
<1> QED BY <1>7, <1>9

\* The row becomes what was asked, for the one box that waits for it; every other
\* open page that shows the row is excused.
LEMMA CommitBox ==
  ASSUME TickedInv, BoxInv, NEW b \in Browsers, NEW s \in Slots, Commit(b, s)
  PROVE  BoxInv'
<1>1. TypeOK
  BY DEF TickedInv
<1> SUFFICES ASSUME NEW c \in Browsers, NEW i \in Keys, Accountable(c, i)'
             PROVE  /\ OneClick(c, i)' /\ QuietBoxOK(c, i)'
                    /\ \A u \in Slots : ClickOK(c, u, i)'
  BY DEF BoxInv, BoxOK
<1> DEFINE old == req[b][s]
           m == [old EXCEPT !.step = "saved", !.row = None]
<1>2. old \in Request /\ old # None /\ old.step = "serving" /\ ~Refused(old) /\ old.key \in Keys
  BY <1>1 DEF TypeOK, Commit, At, Request
<1>3. /\ m \in Request /\ m.key = old.key /\ m.stale = old.stale
      /\ m.handled = old.handled /\ m.step = "saved"
  BY <1>2 DEF Request
<1>4. /\ req' = [req EXCEPT ![b] = [req[b] EXCEPT ![s] = m]]
      /\ table' = [table EXCEPT ![old.key] = Written(old)]
      /\ UNCHANGED <<stage, page>> /\ excused \subseteq excused'
  BY <1>1 DEF Commit, TypeOK
<1>5. i = old.key => c = b /\ ~old.stale
  BY <1>2, <1>4 DEF Commit, Accountable
<1> HIDE DEF m, old
<1>6. /\ \A u \in Slots : req'[c][u] = IF c = b /\ u = s THEN m ELSE req[c][u]
      /\ \A u \in Slots : Pending(c, u, i)' <=> Pending(c, u, i)
  <2>1. \A u \in Slots : req'[c][u] = IF c = b /\ u = s THEN m ELSE req[c][u]
    BY <1>1, <1>4 DEF TypeOK
  <2> QED BY <1>2, <1>3, <2>1, NoneAssumption DEF Pending, old
<1>7. OneClick(c, i) /\ QuietBoxOK(c, i) /\ \A u \in Slots : ClickOK(c, u, i)
  BY <1>4 DEF BoxInv, BoxOK, Accountable
<1>8. OneClick(c, i)'
  BY <1>6, <1>7 DEF OneClick
<1>9. CASE i = old.key
  <2>1. c = b /\ Pending(c, s, i)
    BY <1>2, <1>5, <1>9 DEF Pending, old
  <2>2. \A u \in Slots : Pending(c, u, i)' => u = s
    BY <1>6, <1>7, <2>1 DEF OneClick
  <2>3. /\ page[c][i].done <=> old.handled
        /\ IsHandled(i, page[c][i].print) <=> ~old.handled
        /\ old.row = table[i]
    BY <1>2, <1>7, <2>1 DEF ClickOK, old
  <2>4. page[c][i].print = old.print /\ old.print \in Prints
    BY <1>2, <1>5, <1>9, <2>1 DEF TickedInv, RequestOK, old, Request
  <2>5. table'[i] = Written(old)
    BY <1>1, <1>4, <1>9 DEF TypeOK
  <2>6. IsHandled(i, page[c][i].print)' <=> old.handled
    <3>1. old.print # None
      BY <2>4, NoneAssumption
    <3> QED BY <1>4, <1>9, <2>3, <2>4, <2>5, <3>1 DEF IsHandled, Written
  <2>7. ClickOK(c, s, i)'
    BY <1>3, <1>4, <1>6, <2>1, <2>3, <2>6 DEF ClickOK
  <2>8. \A u \in Slots : ClickOK(c, u, i)'
    BY <2>2, <2>7 DEF ClickOK
  <2> QED BY <1>6, <1>8, <2>1, <2>8 DEF QuietBoxOK
<1>10. CASE i # old.key
  <2>1. IsHandled(i, page[c][i].print)' <=> IsHandled(i, page[c][i].print)
    BY <1>1, <1>4, <1>10 DEF IsHandled, TypeOK
  <2>2. QuietBoxOK(c, i)'
    BY <1>4, <1>6, <1>7, <2>1 DEF QuietBoxOK
  <2>3. ASSUME NEW u \in Slots, Pending(c, u, i)'  PROVE ClickOK(c, u, i)'
    <3>1. req'[c][u] = req[c][u] /\ table'[i] = table[i]
      BY <1>1, <1>3, <1>4, <1>6, <1>10, <2>3 DEF Pending, TypeOK
    <3> QED BY <1>4, <1>6, <1>7, <2>1, <2>3, <3>1 DEF ClickOK
  <2>4. \A u \in Slots : ClickOK(c, u, i)'
    BY <2>3 DEF ClickOK
  <2> QED BY <1>8, <2>2, <2>4
<1> QED BY <1>9, <1>10

\* A failed transaction leaves the row; a lost answer to one that did not excuses
\* the box.
LEMMA FailBox ==
  ASSUME TickedInv, BoxInv, NEW b \in Browsers, NEW s \in Slots, Fail(b, s) \/ LoseAnswer(b, s)
  PROVE  BoxInv'
<1>1. TypeOK
  BY DEF TickedInv
<1> SUFFICES ASSUME NEW c \in Browsers, NEW i \in Keys, Accountable(c, i)'
             PROVE  /\ OneClick(c, i)' /\ QuietBoxOK(c, i)'
                    /\ \A u \in Slots : ClickOK(c, u, i)'
  BY DEF BoxInv, BoxOK
<1> DEFINE old == req[b][s]
           m == [old EXCEPT !.step = "failed", !.row = IF old.step = "serving" THEN None ELSE @]
<1>2. old \in Request /\ old # None /\ old.step \in {"serving", "saved"}
  BY <1>1 DEF TypeOK, Fail, LoseAnswer, At
<1>3. /\ m \in Request /\ m.key = old.key /\ m.stale = old.stale
      /\ m.handled = old.handled /\ m.step = "failed"
  BY <1>2 DEF Request
<1>4. /\ req' = [req EXCEPT ![b] = [req[b] EXCEPT ![s] = m]]
      /\ UNCHANGED <<table, stage, page>> /\ excused \subseteq excused'
  <2>1. CASE Fail(b, s)
    BY <1>1, <2>1 DEF Fail, At, TypeOK
  <2>2. CASE LoseAnswer(b, s)
    <3>1. m = [old EXCEPT !.step = "failed"]
      BY <1>2, <2>2 DEF LoseAnswer, At, Request
    <3> HIDE DEF m
    <3> QED BY <1>1, <2>2, <3>1 DEF LoseAnswer, TypeOK
  <2>3. UNCHANGED <<table, stage, page>> /\ excused \subseteq excused'
    BY DEF Fail, LoseAnswer
  <2> QED BY <2>1, <2>2, <2>3
<1>5. c = b /\ i = old.key /\ ~old.stale => old.step = "serving"
  BY DEF Fail, LoseAnswer, At, Accountable
<1> HIDE DEF m, old
<1>6. /\ \A u \in Slots : req'[c][u] = IF c = b /\ u = s THEN m ELSE req[c][u]
      /\ \A u \in Slots : Pending(c, u, i)' <=> Pending(c, u, i)
  <2>1. \A u \in Slots : req'[c][u] = IF c = b /\ u = s THEN m ELSE req[c][u]
    BY <1>1, <1>4 DEF TypeOK
  <2> QED BY <1>2, <1>3, <2>1, NoneAssumption DEF Pending, old
<1>7. OneClick(c, i) /\ QuietBoxOK(c, i) /\ \A u \in Slots : ClickOK(c, u, i)
  BY <1>4 DEF BoxInv, BoxOK, Accountable
<1>8. IsHandled(i, page[c][i].print)' <=> IsHandled(i, page[c][i].print)
  BY <1>4 DEF IsHandled
<1>9. OneClick(c, i)' /\ QuietBoxOK(c, i)'
  BY <1>4, <1>6, <1>7, <1>8 DEF OneClick, QuietBoxOK
<1>10. ASSUME NEW u \in Slots, Pending(c, u, i)'  PROVE ClickOK(c, u, i)'
  <2>1. CASE c = b /\ u = s
    <3>1. i = old.key /\ ~old.stale
      BY <1>3, <1>6, <1>10, <2>1 DEF Pending
    <3>2. old.step = "serving" /\ ClickOK(b, s, i) /\ Pending(b, s, i)
      BY <1>5, <1>6, <1>7, <1>10, <2>1, <3>1
    <3> QED BY <1>3, <1>4, <1>6, <1>8, <2>1, <3>2 DEF ClickOK, old
  <2>2. CASE ~(c = b /\ u = s)
    <3>1. req'[c][u] = req[c][u]
      BY <1>6, <2>2
    <3> QED BY <1>4, <1>6, <1>7, <1>8, <1>10, <3>1 DEF ClickOK
  <2> QED BY <2>1, <2>2
<1>11. \A u \in Slots : ClickOK(c, u, i)'
  BY <1>10 DEF ClickOK
<1> QED BY <1>9, <1>11

\* An answered box shows what was saved, and a reverted one what was not changed:
\* the click was the only one the box waited for.
LEMMA EndBox ==
  ASSUME TickedInv, BoxInv, NEW b \in Browsers, NEW s \in Slots, Answered(b, s) \/ Revert(b, s)
  PROVE  BoxInv'
<1>1. TypeOK
  BY DEF TickedInv
<1> SUFFICES ASSUME NEW c \in Browsers, NEW i \in Keys, Accountable(c, i)'
             PROVE  /\ OneClick(c, i)' /\ QuietBoxOK(c, i)'
                    /\ \A u \in Slots : ClickOK(c, u, i)'
  BY DEF BoxInv, BoxOK
<1> DEFINE m == req[b][s]
<1>2. /\ m \in Request /\ m # None /\ m.key \in Keys /\ m.step \in {"saved", "failed"}
      /\ m.handled \in BOOLEAN
  BY <1>1 DEF TypeOK, Answered, Revert, At, Request
<1>3. /\ req' = [req EXCEPT ![b] = [req[b] EXCEPT ![s] = None]]
      /\ UNCHANGED <<table, stage, excused>>
  BY <1>1 DEF Answered, Revert, TypeOK
<1>4. \A u \in Slots : req'[c][u] = IF c = b /\ u = s THEN None ELSE req[c][u]
  BY <1>1, <1>3 DEF TypeOK
<1>5. ~(c = b /\ Pending(b, s, i)) => page'[c][i] = page[c][i]
  BY <1>1, <1>2 DEF Answered, Revert, Pending, TypeOK
<1>6. page'[c][i] # None => page[c][i] # None
  BY <1>1, <1>2, <1>5 DEF TickedInv, RequestOK, Pending
<1>7. OneClick(c, i) /\ QuietBoxOK(c, i) /\ \A u \in Slots : ClickOK(c, u, i)
  BY <1>3, <1>6 DEF BoxInv, BoxOK, Accountable
<1>8. CASE c = b /\ Pending(b, s, i)
  <2>1. \A u \in Slots : ~Pending(c, u, i)'
    BY <1>4, <1>7, <1>8 DEF OneClick, Pending
  <2>2. m.key = i /\ ~m.stale
    BY <1>8 DEF Pending
  <2>3. page[b][i] \in Row /\ page[b][i] # None
    <3>1. page[b][m.key] # None
      BY <1>2, <2>2 DEF TickedInv, RequestOK
    <3>2. page[b][i] \in Row \cup {None}
      BY <1>1 DEF TypeOK
    <3> QED BY <2>2, <3>1, <3>2
  <2>4. /\ page[b][i].done <=> m.handled
        /\ IsHandled(i, page[b][i].print) <=> (m.handled <=> m.step = "saved")
    <3>1. ClickOK(b, s, i)
      BY <1>7, <1>8
    <3> QED BY <1>8, <3>1 DEF ClickOK
  <2>5. page'[b][i].done <=> IsHandled(i, page'[b][i].print)
    <3>1. CASE Answered(b, s)
      BY <2>4, <3>1 DEF Answered, At
    <3>2. CASE Revert(b, s)
      <4>1. page'[b][i] = [page[b][i] EXCEPT !.done = ~m.handled] /\ m.step = "failed"
        BY <1>1, <2>2, <3>2 DEF Revert, At, TypeOK
      <4>2. page'[b][i].done = ~m.handled /\ page'[b][i].print = page[b][i].print
        BY <2>3, <4>1 DEF Row
      <4> QED BY <2>4, <4>1, <4>2
    <3> QED BY <3>1, <3>2
  <2>6. QuietBoxOK(c, i)'
    BY <1>3, <1>8, <2>5 DEF QuietBoxOK, IsHandled
  <2> QED BY <2>1, <2>6 DEF OneClick, ClickOK
<1>9. CASE ~(c = b /\ Pending(b, s, i))
  <2>1. \A u \in Slots : /\ Pending(c, u, i)' <=> Pending(c, u, i)
                         /\ Pending(c, u, i) => req'[c][u] = req[c][u]
    BY <1>4, <1>9 DEF Pending
  <2>2. BoxOK(c, i)'
    BY <1>3, <1>5, <1>9, <2>1, OtherBox DEF BoxInv
  <2> QED BY <2>2 DEF BoxOK
<1> QED BY <1>8, <1>9

\* Every step keeps every box.
LEMMA NextBoxInv == TickedInv /\ BoxInv /\ [Next]_vars => BoxInv'
<1> SUFFICES ASSUME TickedInv, BoxInv, [Next]_vars PROVE BoxInv'
  OBVIOUS
<1>1. ASSUME NEW k \in Keys, NEW f \in Prints \cup {None}, Import(k, f)  PROVE BoxInv'
  BY <1>1, ImportBox
<1>2. ASSUME NEW b \in Browsers, LoadRows(b) \/ LoadHandled(b)  PROVE BoxInv'
  BY <1>2, LoadRowsBox, LoadHandledBox
<1>3. ASSUME NEW b \in Browsers, NEW s \in Slots, NEW k \in Keys, Click(b, s, k)
      PROVE  BoxInv'
  BY <1>3, ClickBox
<1>4. ASSUME NEW b \in Browsers, NEW s \in Slots,
             GetRow(b, s) \/ Commit(b, s) \/ Fail(b, s) \/ LoseAnswer(b, s)
               \/ Answered(b, s) \/ Revert(b, s)
      PROVE  BoxInv'
  BY <1>4, GetRowBox, CommitBox, FailBox, EndBox
<1>5. CASE UNCHANGED vars
  BY <1>5, OtherBox DEF BoxInv, vars, Pending
<1> QED BY <1>1, <1>2, <1>3, <1>4, <1>5 DEF Next

\* "Revert on failure so the UI never lies about saved state" (app.js:151): a page
\* that waits for nothing shows what is saved (app.js:130-158, app.py:97-113), in
\* every box nothing excuses, for any number of browsers and of requests in flight.
THEOREM QuietBoxesAreHonest == Spec => []QuietPageIsHonest
<1>1. BoxInv => QuietPageIsHonest
  BY DEF BoxInv, BoxOK, Accountable, QuietBoxOK, QuietPageIsHonest, Waiting, Pending
<1> QED BY <1>1, AlwaysTickedInv, InitBoxInv, NextBoxInv, PTL DEF Spec

(***************************************************************************)
(* The requests implement FindingRegister.  A request that has something   *)
(* to do takes effect when it commits: what it writes is what was asked,   *)
(* although the fingerprint is left out of an UPDATE that read the same.   *)
(* One that finds the row as it wants it takes effect at that moment, and  *)
(* its commit, which then changes nothing, is a stutter.                   *)
(***************************************************************************)

\* One place of a table of tables is assigned.
LEMMA OnePlace ==
  ASSUME NEW S, NEW T, NEW W, NEW f \in [S -> [T -> W]], NEW g \in [S -> [T -> W]],
         NEW b \in S, NEW s \in T, NEW x,
         \A c \in S, u \in T : g[c][u] = IF c = b /\ u = s THEN x ELSE f[c][u]
  PROVE  g = [f EXCEPT ![b] = [f[b] EXCEPT ![s] = x]]
<1>1. x \in W
  BY g[b][s] = x
<1> DEFINE h == [f EXCEPT ![b] = [f[b] EXCEPT ![s] = x]]
<1>2. h \in [S -> [T -> W]]
  BY <1>1
<1>3. \A c \in S : h[c] = g[c]
  <2> TAKE c \in S
  <2>1. \A u \in T : h[c][u] = g[c][u]
    OBVIOUS
  <2>2. h[c] \in [T -> W] /\ g[c] \in [T -> W]
    BY <1>2
  <2> HIDE DEF h
  <2> QED BY <2>1, <2>2
<1> HIDE DEF h
<1>4. g = h
  BY <1>2, <1>3
<1> QED BY <1>4 DEF h

\* What a request is to its caller.
LEMMA CallIs ==
  ASSUME NEW m \in Request
  PROVE  /\ CallOf(m) = [key |-> m.key, print |-> m.print, handled |-> m.handled,
                         status |-> Status(m)]
         /\ CallOf(m) \in Register!Call
         /\ CallOf(m) # None
         /\ CallOf(m).status = Status(m)
<1>1. m # None
  BY NoneAssumption
<1>2. Status(m) \in {"open", "applied", "over"}
  BY DEF Status
<1>3. CallOf(m) = [key |-> m.key, print |-> m.print, handled |-> m.handled,
                   status |-> Status(m)]
  BY <1>1 DEF CallOf
<1>4. CallOf(m) \in Register!Call
  BY <1>2, <1>3 DEF Register!Call, Request
<1> QED BY <1>3, <1>4, CallAssumption

LEMMA CallTyped ==
  ASSUME NEW m \in Request \cup {None}
  PROVE  CallOf(m) \in Register!Call \cup {None}
<1>1. CASE m = None
  BY <1>1 DEF CallOf
<1>2. CASE m # None
  BY <1>2, CallIs
<1> QED BY <1>1, <1>2

\* A request that moves on moves its call on, and no other.
LEMMA CallMoves ==
  ASSUME TypeOK, TypeOK', NEW b \in Browsers, NEW s \in Slots, NEW m,
         req' = [req EXCEPT ![b] = [req[b] EXCEPT ![s] = m]]
  PROVE  /\ Calls' = [Calls EXCEPT ![b] = [Calls[b] EXCEPT ![s] = CallOf(m)]]
         /\ Calls'[b][s] = CallOf(m)
         /\ Calls[b][s] = CallOf(req[b][s])
<1>1. Calls \in [Browsers -> [Slots -> Register!Call \cup {None}]]
      /\ Calls' \in [Browsers -> [Slots -> Register!Call \cup {None}]]
  <2>1. Calls = [c \in Browsers |-> [u \in Slots |-> CallOf(req[c][u])]]
        /\ Calls' = [c \in Browsers |-> [u \in Slots |-> CallOf(req'[c][u])]]
    BY DEF Calls, CallOf, Status, NothingToDo
  <2>2. \A c \in Browsers, u \in Slots : /\ req[c][u] \in Request \cup {None}
                                         /\ req'[c][u] \in Request \cup {None}
    <3>1. Request' = Request
      BY DEF Request
    <3> QED BY <3>1 DEF TypeOK
  <2> QED BY <2>1, <2>2, CallTyped
<1>2. \A c \in Browsers, u \in Slots :
        Calls'[c][u] = IF c = b /\ u = s THEN CallOf(m) ELSE Calls[c][u]
  <2>1. \A c \in Browsers, u \in Slots :
          req'[c][u] = IF c = b /\ u = s THEN m ELSE req[c][u]
    BY DEF TypeOK
  <2> QED BY <2>1 DEF Calls, CallOf, Status, NothingToDo
<1>3. Calls[b][s] = CallOf(req[b][s])
  BY DEF Calls
<1> QED BY <1>1, <1>2, <1>3, OnePlace

\* Requests whose calls are as they were leave the calls as they were.
LEMMA CallsStay ==
  ASSUME \A c \in Browsers, u \in Slots : CallOf(req'[c][u]) = CallOf(req[c][u])
  PROVE  Calls' = Calls
BY DEF Calls, CallOf, Status, NothingToDo

\* A page that is loaded anew leaves its requests as they are to the server.
LEMMA LoadRowsStays ==
  ASSUME TypeOK, NEW b \in Browsers, LoadRows(b)
  PROVE  UNCHANGED Register!vars
<1>1. ASSUME NEW c \in Browsers, NEW u \in Slots  PROVE CallOf(req'[c][u]) = CallOf(req[c][u])
  <2>1. CASE c = b /\ req[b][u] # None
    <3> DEFINE m == [req[b][u] EXCEPT !.stale = TRUE]
    <3>1. req[b][u] \in Request
      BY <2>1 DEF TypeOK
    <3>2. /\ m \in Request /\ m.key = req[b][u].key /\ m.print = req[b][u].print
          /\ m.handled = req[b][u].handled /\ m.step = req[b][u].step /\ m.row = req[b][u].row
      BY <3>1 DEF Request
    <3>3. req'[c][u] = m
      BY <2>1 DEF LoadRows, TypeOK
    <3> HIDE DEF m
    <3>4. Status(m) = Status(req[b][u])
      BY <3>2 DEF Status, NothingToDo
    <3> QED BY <2>1, <3>1, <3>2, <3>3, <3>4, CallIs
  <2>2. CASE ~(c = b /\ req[b][u] # None)
    <3>1. req'[c][u] = req[c][u]
      BY <2>2 DEF LoadRows, TypeOK
    <3> QED BY <3>1
  <2> QED BY <2>1, <2>2
<1> QED BY <1>1, CallsStay DEF LoadRows, Register!vars

\* A click invokes.
LEMMA ClickInvokes ==
  ASSUME TypeOK, TypeOK', NEW b \in Browsers, NEW s \in Slots, NEW k \in Keys, Click(b, s, k)
  PROVE  Register!Next
<1> DEFINE row == page[b][k]
           m == [key |-> k, print |-> row.print, handled |-> ~row.done, stale |-> FALSE,
                 step |-> "sent", row |-> None]
<1>1. row \in Row /\ req[b][s] = None /\ table' = table
  BY DEF TypeOK, Click
<1>2. row.print \in Prints
  BY <1>1 DEF Row
<1>3. (~row.done) \in BOOLEAN
  <2>1. CASE row.done
    BY <2>1
  <2>2. CASE ~row.done
    BY <2>2
  <2> QED BY <2>1, <2>2
<1>4. m \in Request
  BY <1>2, <1>3 DEF Request
<1>5. CallOf(m) = [key |-> k, print |-> row.print, handled |-> ~row.done, status |-> "open"]
      /\ CallOf(m) # None
  BY <1>4, CallIs DEF Status
<1>6. req' = [req EXCEPT ![b] = [req[b] EXCEPT ![s] = m]]
  BY DEF Click
<1> HIDE DEF m
<1>7. /\ Calls' = [Calls EXCEPT ![b] = [Calls[b] EXCEPT ![s] = CallOf(m)]]
      /\ Calls'[b][s] # Calls[b][s] /\ Calls[b][s] = None
  <2>1. CallOf(None) = None
    BY DEF CallOf
  <2>2. /\ Calls' = [Calls EXCEPT ![b] = [Calls[b] EXCEPT ![s] = CallOf(m)]]
        /\ Calls'[b][s] = CallOf(m)
        /\ Calls[b][s] = CallOf(req[b][s])
    BY <1>6, CallMoves
  <2> QED BY <1>1, <1>5, <2>1, <2>2
<1>8. Register!Invoke(b, s, k, row.print, ~row.done)
  BY <1>1, <1>5, <1>7 DEF Register!Invoke
<1> QED BY <1>2, <1>3, <1>7, <1>8 DEF Register!Next

\* A request that moves on at the server asks for what it asked for.
LEMMA CallAdvances ==
  ASSUME TypeOK, TypeOK', NEW b \in Browsers, NEW s \in Slots, NEW m \in Request,
         req[b][s] \in Request,
         m.key = req[b][s].key, m.print = req[b][s].print, m.handled = req[b][s].handled,
         req' = [req EXCEPT ![b] = [req[b] EXCEPT ![s] = m]]
  PROVE  /\ Calls[b][s] # None /\ Calls[b][s].status = Status(req[b][s])
         /\ Calls[b][s].key = m.key /\ Register!Asked(Calls[b][s]) = IF m.handled THEN m.print ELSE None
         /\ Status(m) = Status(req[b][s]) => Calls' = Calls
         /\ Status(m) # Status(req[b][s]) =>
              /\ Calls'[b][s] # Calls[b][s]
              /\ Calls' = [Calls EXCEPT ![b] = [Calls[b] EXCEPT ![s] =
                                          [Calls[b][s] EXCEPT !.status = Status(m)]]]
<1> DEFINE old == req[b][s]
           c == [key |-> m.key, print |-> m.print, handled |-> m.handled, status |-> Status(old)]
           d == [key |-> m.key, print |-> m.print, handled |-> m.handled, status |-> Status(m)]
<1>1. CallOf(old) = c /\ CallOf(m) = d /\ c # None
  BY CallIs
<1>2. /\ Calls' = [Calls EXCEPT ![b] = [Calls[b] EXCEPT ![s] = CallOf(m)]]
      /\ Calls'[b][s] = CallOf(m)
      /\ Calls[b][s] = CallOf(old)
  BY CallMoves
<1>3. /\ c.status = Status(old) /\ c.key = m.key /\ c.print = m.print /\ c.handled = m.handled
      /\ d.status = Status(m) /\ d = [c EXCEPT !.status = Status(m)]
  OBVIOUS
<1> HIDE DEF c, d, old
<1>4. Register!Asked(c) = IF m.handled THEN m.print ELSE None
  BY <1>3 DEF Register!Asked
<1>5. ASSUME Status(m) = Status(old)  PROVE Calls' = Calls
  <2>1. CallOf(m) = CallOf(old)
    BY <1>1, <1>5 DEF c, d
  <2>2. \A a \in Browsers, u \in Slots :
          req'[a][u] = IF a = b /\ u = s THEN m ELSE req[a][u]
    BY DEF TypeOK
  <2> QED BY <2>1, <2>2, CallsStay DEF old
<1>6. Calls[b][s] = c /\ Calls'[b][s] = d
  BY <1>1, <1>2
<1>7. ASSUME Status(m) # Status(old)
      PROVE  /\ Calls'[b][s] # Calls[b][s]
             /\ Calls' = [Calls EXCEPT ![b] = [Calls[b] EXCEPT ![s] =
                                         [Calls[b][s] EXCEPT !.status = Status(m)]]]
  <2>1. c # d
    BY <1>3, <1>7
  <2>2. CallOf(m) = [Calls[b][s] EXCEPT !.status = Status(m)]
    BY <1>1, <1>3, <1>6
  <2> QED BY <1>2, <1>6, <2>1, <2>2
<1> QED BY <1>1, <1>3, <1>4, <1>5, <1>6, <1>7 DEF old

\* A row that is already as it is wanted: the request takes effect when it reads it.
LEMMA GetRowApplies ==
  ASSUME TickedInv, TickedInv', NEW b \in Browsers, NEW s \in Slots, GetRow(b, s)
  PROVE  [Register!Next]_(Register!vars)
<1>0. TypeOK
  BY DEF TickedInv
<1> DEFINE old == req[b][s]
           m == [old EXCEPT !.step = "serving", !.row = table[old.key]]
<1>1. old \in Request /\ old # None /\ old.step = "sent" /\ old.key \in Keys
  BY <1>0 DEF TypeOK, GetRow, At, Request
<1>2. /\ m \in Request /\ m.key = old.key /\ m.print = old.print
      /\ m.handled = old.handled /\ m.step = "serving" /\ m.row = table[m.key]
  <2>1. table[old.key] \in Prints \cup {None}
    BY <1>0, <1>1 DEF TypeOK
  <2> QED BY <1>1, <2>1 DEF Request
<1>3. req' = [req EXCEPT ![b] = [req[b] EXCEPT ![s] = m]] /\ table' = table
  BY <1>0 DEF GetRow, TypeOK
<1> HIDE DEF m
<1>4. /\ Calls[b][s] # None /\ Calls[b][s].status = Status(old) /\ Calls[b][s].key = m.key
      /\ Register!Asked(Calls[b][s]) = IF m.handled THEN m.print ELSE None
      /\ Status(m) = Status(old) => Calls' = Calls
      /\ Status(m) # Status(old) =>
           /\ Calls'[b][s] # Calls[b][s]
           /\ Calls' = [Calls EXCEPT ![b] = [Calls[b] EXCEPT ![s] =
                                       [Calls[b][s] EXCEPT !.status = Status(m)]]]
  BY <1>1, <1>2, <1>3, CallAdvances DEF TickedInv
<1>5. Status(old) = "open" /\ (Status(m) = IF NothingToDo(m) THEN "applied" ELSE "open")
  BY <1>1, <1>2 DEF Status
<1> HIDE DEF old
<1>6. CASE NothingToDo(m)
  <2>1. table' = [table EXCEPT ![Calls[b][s].key] = Register!Asked(Calls[b][s])]
    BY <1>0, <1>1, <1>2, <1>3, <1>4, <1>6 DEF NothingToDo, TypeOK
  <2>2. Register!Apply(b, s)
    BY <1>4, <1>5, <1>6, <2>1 DEF Register!Apply, Register!Is
  <2> QED BY <1>4, <1>5, <1>6, <2>2 DEF Register!Next
<1>7. CASE ~NothingToDo(m)
  BY <1>3, <1>4, <1>5, <1>7 DEF Register!vars
<1> QED BY <1>6, <1>7

\* Otherwise when it commits.
LEMMA CommitApplies ==
  ASSUME TickedInv, TickedInv', NEW b \in Browsers, NEW s \in Slots, Commit(b, s)
  PROVE  [Register!Next]_(Register!vars)
<1>0. TypeOK
  BY DEF TickedInv
<1> DEFINE old == req[b][s]
           m == [old EXCEPT !.step = "saved", !.row = None]
<1>1. old \in Request /\ old # None /\ old.step = "serving" /\ old.key \in Keys
  BY <1>0 DEF TypeOK, Commit, At, Request
<1>2. /\ m \in Request /\ m.key = old.key /\ m.print = old.print
      /\ m.handled = old.handled /\ m.step = "saved"
  BY <1>1 DEF Request
<1>3. /\ req' = [req EXCEPT ![b] = [req[b] EXCEPT ![s] = m]]
      /\ table' = [table EXCEPT ![old.key] = Written(old)]
  BY <1>0 DEF Commit, TypeOK
<1> HIDE DEF m
<1>4. /\ Calls[b][s] # None /\ Calls[b][s].status = Status(old) /\ Calls[b][s].key = m.key
      /\ Register!Asked(Calls[b][s]) = IF m.handled THEN m.print ELSE None
      /\ Status(m) = Status(old) => Calls' = Calls
      /\ Status(m) # Status(old) =>
           /\ Calls'[b][s] # Calls[b][s]
           /\ Calls' = [Calls EXCEPT ![b] = [Calls[b] EXCEPT ![s] =
                                       [Calls[b][s] EXCEPT !.status = Status(m)]]]
  BY <1>1, <1>2, <1>3, CallAdvances DEF TickedInv
<1>5. Status(m) = "applied" /\ (Status(old) = IF NothingToDo(old) THEN "applied" ELSE "open")
  BY <1>1, <1>2 DEF Status
<1> HIDE DEF old
<1>6. CASE NothingToDo(old)
  <2>1. Written(old) = table[old.key]
    BY <1>6 DEF NothingToDo, Written
  <2>2. table' = table
    BY <1>0, <1>1, <1>3, <2>1 DEF TypeOK
  <2> QED BY <1>4, <1>5, <1>6, <2>2 DEF Register!vars
<1>7. CASE ~NothingToDo(old)
  <2>1. Written(old) = IF old.handled THEN old.print ELSE None
    BY <1>7 DEF NothingToDo, Written
  <2>2. table' = [table EXCEPT ![Calls[b][s].key] = Register!Asked(Calls[b][s])]
    BY <1>2, <1>3, <1>4, <2>1
  <2>3. Register!Apply(b, s)
    BY <1>4, <1>5, <1>7, <2>2 DEF Register!Apply, Register!Is
  <2> QED BY <1>4, <1>5, <1>7, <2>3 DEF Register!Next
<1> QED BY <1>6, <1>7

\* A failure, or a lost answer, breaks the call.
LEMMA FailBreaks ==
  ASSUME TickedInv, TickedInv', NEW b \in Browsers, NEW s \in Slots, Fail(b, s) \/ LoseAnswer(b, s)
  PROVE  Register!Next
<1>0. TypeOK
  BY DEF TickedInv
<1> DEFINE old == req[b][s]
           m == [old EXCEPT !.step = "failed", !.row = IF old.step = "serving" THEN None ELSE @]
<1>1. old \in Request /\ old # None /\ old.step \in {"serving", "saved"}
  BY <1>0 DEF TypeOK, Fail, LoseAnswer, At
<1>2. /\ m \in Request /\ m.key = old.key /\ m.print = old.print
      /\ m.handled = old.handled /\ m.step = "failed"
  BY <1>1 DEF Request
<1>3. req' = [req EXCEPT ![b] = [req[b] EXCEPT ![s] = m]] /\ table' = table
  <2>1. CASE Fail(b, s)
    BY <1>0, <2>1 DEF Fail, At, TypeOK
  <2>2. CASE LoseAnswer(b, s)
    <3>1. m = [old EXCEPT !.step = "failed"]
      BY <1>1, <2>2 DEF LoseAnswer, At, Request
    <3> HIDE DEF m
    <3> QED BY <1>0, <2>2, <3>1 DEF LoseAnswer, TypeOK
  <2> QED BY <2>1, <2>2
<1> HIDE DEF m
<1>4. Status(m) = "over" /\ Status(old) \in {"open", "applied"}
  BY <1>1, <1>2 DEF Status
<1>5. /\ Calls[b][s] # None /\ Calls[b][s].status = Status(old)
      /\ Calls'[b][s] # Calls[b][s]
      /\ Calls' = [Calls EXCEPT ![b] = [Calls[b] EXCEPT ![s] =
                                  [Calls[b][s] EXCEPT !.status = Status(m)]]]
  <2>1. Status(m) # Status(old)
    BY <1>4
  <2> QED BY <1>1, <1>2, <1>3, <2>1, CallAdvances DEF TickedInv
<1>6. Register!Break(b, s)
  BY <1>3, <1>4, <1>5 DEF Register!Break, Register!Is
<1> QED BY <1>5, <1>6 DEF Register!Next

\* An answer returns: of success only when the request took effect.
LEMMA EndReturns ==
  ASSUME TickedInv, TickedInv', NEW b \in Browsers, NEW s \in Slots, Answered(b, s) \/ Revert(b, s)
  PROVE  Register!Next
<1>0. TypeOK
  BY DEF TickedInv
<1> DEFINE old == req[b][s]
<1>1. old \in Request /\ old # None /\ old.step \in {"saved", "failed"}
  BY <1>0 DEF TypeOK, Answered, Revert, At
<1>2. req' = [req EXCEPT ![b] = [req[b] EXCEPT ![s] = None]] /\ table' = table
  BY <1>0 DEF Answered, Revert, TypeOK
<1>3. CallOf(None) = None
  BY DEF CallOf
<1>4. /\ Calls' = [Calls EXCEPT ![b] = [Calls[b] EXCEPT ![s] = None]]
      /\ Calls'[b][s] = None /\ Calls[b][s] = CallOf(old)
  <2>1. /\ Calls' = [Calls EXCEPT ![b] = [Calls[b] EXCEPT ![s] = CallOf(None)]]
        /\ Calls'[b][s] = CallOf(None)
        /\ Calls[b][s] = CallOf(old)
    BY <1>2, CallMoves DEF TickedInv
  <2> QED BY <1>3, <2>1
<1>5. CallOf(old) # None /\ CallOf(old).status \in {"applied", "over"}
  BY <1>1, CallIs DEF Status
<1> HIDE DEF old
<1>6. Register!Return(b, s)
  BY <1>2, <1>4, <1>5 DEF Register!Return, Register!Is
<1> QED BY <1>4, <1>5, <1>6 DEF Register!Next

\* Every step is a step of the register or a stutter.
LEMMA NextIsRegister ==
  TickedInv /\ TickedInv' /\ [Next]_vars => [Register!Next]_(Register!vars)
<1> SUFFICES ASSUME TickedInv, TickedInv', [Next]_vars
             PROVE  [Register!Next]_(Register!vars)
  OBVIOUS
<1>1. TypeOK /\ TypeOK'
  BY DEF TickedInv
<1>2. ASSUME UNCHANGED <<table, req>>  PROVE UNCHANGED Register!vars
  BY <1>2, CallsStay DEF Register!vars
<1>3. ASSUME NEW k \in Keys, NEW f \in Prints \cup {None}, Import(k, f)
      PROVE  UNCHANGED Register!vars
  BY <1>2, <1>3 DEF Import
<1>4. ASSUME NEW b \in Browsers, LoadRows(b) \/ LoadHandled(b)
      PROVE  UNCHANGED Register!vars
  <2>1. CASE LoadHandled(b)
    BY <1>2, <2>1 DEF LoadHandled
  <2> QED BY <1>1, <1>4, <2>1, LoadRowsStays
<1>5. ASSUME NEW b \in Browsers, NEW s \in Slots, NEW k \in Keys, Click(b, s, k)
      PROVE  Register!Next
  BY <1>1, <1>5, ClickInvokes
<1>6. ASSUME NEW b \in Browsers, NEW s \in Slots,
             GetRow(b, s) \/ Commit(b, s) \/ Fail(b, s) \/ LoseAnswer(b, s)
               \/ Answered(b, s) \/ Revert(b, s)
      PROVE  [Register!Next]_(Register!vars)
  BY <1>6, GetRowApplies, CommitApplies, FailBreaks, EndReturns
<1>7. CASE UNCHANGED vars
  BY <1>2, <1>7 DEF vars
<1> QED BY <1>3, <1>4, <1>5, <1>6, <1>7 DEF Next

\* set_handled reads its row and writes it later (app.py:97-113), and requests overlap:
\* every one of them takes effect at one instant between the click and its answer, or
\* not at all, for any number of browsers and of requests in flight.
THEOREM TogglesLinearize == Spec => TogglesAreAtomic
<1>1. Init => Register!Init
  BY DEF Init, Register!Init, Calls, CallOf
<1> QED BY <1>1, AlwaysTickedInv, NextIsRegister, PTL DEF Spec, TogglesAreAtomic, Register!Spec
=============================================================================
