--------------------------- MODULE PmsReaderProofs ---------------------------
(***************************************************************************)
(* What holds of PmsReader for every set of threads, files, uploads, keys  *)
(* and lookups, and every size of the cache.                               *)
(***************************************************************************)
EXTENDS PmsReader, FiniteSetTheorems, TLAPS

(***************************************************************************)
(* The importer and the caches.                                            *)
(***************************************************************************)

\* A completed file is there as a whole and has a completion time of its own; what a
\* history reports has a row.
ImportsOK ==
  /\ \A i \in Files : status[i] = "completed" =>
       written[i] = Upload[i].rows /\ at[i] \in 1..clock
  /\ \A i, j \in Files : status[i] = "completed" /\ status[j] = "completed" /\ at[i] = at[j]
       => i = j
  /\ \A i \in Files : Upload[i].type = "cancellation" =>
       \A k \in written[i] : events[k] # None

\* Only completed files are in the cache.
CacheOK == \A i \in Files : cache[i] # None => status[i] = "completed"

(***************************************************************************)
(* The pages.                                                              *)
(***************************************************************************)

IsCompleted(i, type) == i \in Files /\ status[i] = "completed" /\ Upload[i].type = type

\* i is not behind what there was when t's page was opened, nor behind what the page
\* has read of the in-house report.
UpToDate(t, i, type) ==
  /\ \A j \in before[t] : Upload[j].type = type => ~Newer(j, i)
  /\ type = "inhouse" =>
       \A n \in 1..Len(got[t]) :
         got[t][n].read = "inhouse" /\ got[t][n].file # None => ~Newer(got[t][n].file, i)

\* The date is the last read of a page.
DateIsLast(t) ==
  /\ \A n \in 1..Len(todo[t]) : todo[t][n] = "date" => n = Len(todo[t])
  /\ \A n \in 1..Len(got[t]) : got[t][n].read = "date" => n = Len(got[t]) /\ todo[t] = <<>>

PageOK(t) ==
  /\ pc[t] \in {"select", "load"} => todo[t] # <<>>
  /\ DateIsLast(t)
  /\ \A j \in before[t] : status[j] = "completed"
  /\ \A n \in 1..Len(got[t]) : got[t][n].file # None =>
       IsCompleted(got[t][n].file, FileType(got[t][n].read))
  /\ pc[t] = "load" => /\ Head(todo[t]) # "date"
                       /\ IsCompleted(chosen[t], FileType(Head(todo[t])))
                       /\ UpToDate(t, chosen[t], FileType(Head(todo[t])))

IsCurrent(t) ==
  \A n \in 1..Len(got[t]) : \A j \in before[t] :
    Upload[j].type = FileType(got[t][n].read) =>
      got[t][n].file # None /\ ~Newer(j, got[t][n].file)

MovesForward(t) ==
  \A m, n \in 1..Len(got[t]) :
    /\ got[t][m].read = "inhouse" /\ got[t][m].file # None
    /\ got[t][n].read = "date" \/ (got[t][n].read = "inhouse" /\ m < n)
    => got[t][n].file # None /\ ~Newer(got[t][m].file, got[t][n].file)

PagesOK == \A t \in Threads : PageOK(t) /\ IsCurrent(t) /\ MovesForward(t)

ReaderInv ==
  /\ TypeOK
  /\ ImportsOK
  /\ CacheOK /\ SnapshotIsWhole /\ HistoryIsComplete
  /\ PagesOK

\* The two properties of pages are those of every thread's page.
LEMMA PagesAre ==
  PagesOK => PageIsCurrent /\ PageMovesForward
BY DEF PagesOK, IsCurrent, MovesForward, PageIsCurrent, PageMovesForward

\* What an upload is.
LEMMA UploadType ==
  ASSUME NEW i \in Files
  PROVE  /\ Upload[i].type \in {"inhouse", "cancellation"}
         /\ Upload[i].date \in Int /\ Upload[i].rows \subseteq Lookups
BY ReaderAssumptions

\* What a selection finds is completed, and nothing completed is newer.
LEMMA LatestIsLatest ==
  ASSUME NEW type, NEW i \in Latest(type)
  PROVE  /\ IsCompleted(i, type)
         /\ \A j \in Files : IsCompleted(j, type) => ~Newer(j, i)
BY DEF Latest, Completed, IsCompleted

\* Every page reads the date last, if at all, and something.
LEMMA PageType ==
  ASSUME NEW page \in Pages
  PROVE  /\ page \in Seq(Reads) /\ page # <<>>
         /\ \A n \in 1..Len(page) : page[n] = "date" => n = Len(page)
<1>1. CASE page = Home
  BY <1>1 DEF Home, Reads
<1>2. CASE page = CancellationPage
  BY <1>2 DEF CancellationPage, Reads
<1>3. CASE page = InHousePage
  BY <1>3 DEF InHousePage, Reads
<1>4. CASE page = DepositsPage
  BY <1>4 DEF DepositsPage, Reads
<1>5. CASE page = SettingsPage
  BY <1>5 DEF SettingsPage, Reads
<1> QED BY <1>1, <1>2, <1>3, <1>4, <1>5 DEF Pages

\* No import, no request, an empty cache.
LEMMA InitReaderInv == Init => ReaderInv
<1> SUFFICES ASSUME Init PROVE ReaderInv
  OBVIOUS
<1>1. TypeOK
  BY ReaderAssumptions DEF Init, TypeOK
<1>2. ImportsOK /\ CacheOK /\ SnapshotIsWhole /\ HistoryIsComplete
  BY DEF Init, ImportsOK, CacheOK, SnapshotIsWhole, HistoryIsComplete
<1>3. ASSUME NEW t \in Threads PROVE PageOK(t) /\ IsCurrent(t) /\ MovesForward(t)
  <2>1. pc[t] = "idle" /\ todo[t] = <<>> /\ got[t] = <<>> /\ before[t] = {}
    BY DEF Init
  <2> QED BY <2>1 DEF PageOK, DateIsLast, IsCurrent, MovesForward
<1> QED BY <1>1, <1>2, <1>3 DEF ReaderInv, PagesOK

(***************************************************************************)
(* The importer.                                                           *)
(***************************************************************************)

\* The order of two completed files never changes.
LEMMA OrderStays ==
  ASSUME NEW i \in Files, NEW j \in Files, at'[i] = at[i], at'[j] = at[j]
  PROVE  Newer(i, j)' <=> Newer(i, j)
BY DEF Newer

\* Pages see nothing of an importer that leaves completed files as they are.
LEMMA PagesAlone ==
  ASSUME TypeOK, PagesOK, UNCHANGED pages,
         \A i \in Files : status[i] = "completed" => status'[i] = "completed" /\ at'[i] = at[i]
  PROVE  PagesOK'
<1> SUFFICES ASSUME NEW t \in Threads PROVE PageOK(t)' /\ IsCurrent(t)' /\ MovesForward(t)'
  BY DEF PagesOK
<1>1. UNCHANGED <<pc, todo, chosen, got, before>>
  BY DEF pages
<1>2. PageOK(t) /\ IsCurrent(t) /\ MovesForward(t)
  BY DEF PagesOK
<1>3. before[t] \subseteq Files
  BY DEF TypeOK
<1>4. ASSUME NEW j \in before[t] PROVE status'[j] = "completed" /\ at'[j] = at[j] /\ j \in Files
  BY <1>2, <1>3 DEF PageOK
<1>5. ASSUME NEW i, NEW type, IsCompleted(i, type)
      PROVE  IsCompleted(i, type)' /\ at'[i] = at[i] /\ i \in Files
  BY <1>5 DEF IsCompleted
<1>6. ASSUME NEW n \in 1..Len(got[t]), got[t][n].file # None
      PROVE  /\ IsCompleted(got[t][n].file, FileType(got[t][n].read))'
             /\ at'[got[t][n].file] = at[got[t][n].file] /\ got[t][n].file \in Files
  <2>1. IsCompleted(got[t][n].file, FileType(got[t][n].read))
    BY <1>2, <1>6 DEF PageOK
  <2> QED BY <1>1, <1>5, <2>1 DEF FileType
<1>7. ASSUME pc'[t] = "load"
      PROVE  /\ Head(todo'[t]) # "date"
             /\ IsCompleted(chosen[t], FileType(Head(todo[t])))'
             /\ UpToDate(t, chosen[t], FileType(Head(todo[t])))'
  <2> DEFINE type == FileType(Head(todo[t]))
  <2>1. /\ Head(todo[t]) # "date" /\ IsCompleted(chosen[t], type)
        /\ UpToDate(t, chosen[t], type)
    BY <1>1, <1>2, <1>7 DEF PageOK
  <2> HIDE DEF type
  <2>2. IsCompleted(chosen[t], type)' /\ at'[chosen[t]] = at[chosen[t]] /\ chosen[t] \in Files
    <3>1. type' = type
      BY <1>1 DEF type, FileType
    <3> QED BY <1>1, <1>5, <2>1, <3>1 DEF IsCompleted
  <2>3. UpToDate(t, chosen[t], type)'
    BY <1>1, <1>4, <1>6, <2>1, <2>2, OrderStays DEF UpToDate, type, FileType
  <2> QED BY <1>1, <2>1, <2>2, <2>3 DEF type
<1>8. PageOK(t)'
  BY <1>1, <1>2, <1>4, <1>6, <1>7 DEF PageOK, DateIsLast
<1>9. IsCurrent(t)'
  BY <1>1, <1>2, <1>4, <1>6, OrderStays DEF IsCurrent, FileType
<1>10. MovesForward(t)'
  BY <1>1, <1>2, <1>6, OrderStays DEF MovesForward
<1> QED BY <1>8, <1>9, <1>10

\* A file is begun.
LEMMA StartKeeps ==
  ASSUME ReaderInv, NEW i \in Files, Start(i)
  PROVE  ReaderInv'
<1> USE DEF ReaderInv
<1>1. /\ status[i] = "absent" /\ status' = [status EXCEPT ![i] = "running"]
      /\ UNCHANGED <<at, clock, written, events, key, cache, pages>>
  BY DEF Start
<1>2. \A j \in Files : status'[j] = IF j = i THEN "running" ELSE status[j]
  BY <1>1 DEF TypeOK
<1>3. TypeOK'
  BY <1>1 DEF TypeOK, pages
<1>4. ImportsOK' /\ CacheOK' /\ SnapshotIsWhole' /\ HistoryIsComplete'
  BY <1>1, <1>2 DEF ImportsOK, CacheOK, SnapshotIsWhole, HistoryIsComplete
<1>5. PagesOK'
  BY <1>1, <1>2, PagesAlone
<1> QED BY <1>3, <1>4, <1>5

\* A row of a running file is stored.
LEMMA WriteKeeps ==
  ASSUME ReaderInv, NEW i \in Files, NEW k \in Lookups, Write(i, k)
  PROVE  ReaderInv'
<1> USE DEF ReaderInv
<1>1. /\ status[i] = "running" /\ k \in Upload[i].rows
      /\ written' = [written EXCEPT ![i] = written[i] \cup {k}]
      /\ events' = IF Upload[i].type = "cancellation" THEN [events EXCEPT ![k] = i] ELSE events
      /\ UNCHANGED <<status, at, clock, key, cache, pages>>
  BY DEF Write
<1>2. \A j \in Files : written'[j] = IF j = i THEN written[i] \cup {k} ELSE written[j]
  BY <1>1 DEF TypeOK
<1>3. \A l \in Lookups : events'[l] = IF l = k /\ Upload[i].type = "cancellation" THEN i
                                      ELSE events[l]
  BY <1>1 DEF TypeOK
<1>4. events' \in [Lookups -> Files \cup {None}] /\ written' \in [Files -> SUBSET Lookups]
  BY <1>1 DEF TypeOK
<1>5. TypeOK'
  BY <1>1, <1>4 DEF TypeOK, pages
<1>6. ASSUME NEW j \in Files, status'[j] = "completed"
      PROVE  written'[j] = Upload[j].rows /\ at'[j] \in 1..clock'
  BY <1>1, <1>2, <1>6 DEF ImportsOK
<1>7. ASSUME NEW j \in Files, Upload[j].type = "cancellation", NEW l \in written'[j]
      PROVE  events'[l] # None
  <2>1. l \in Lookups /\ i # None
    BY <1>4, ReaderAssumptions
  <2>2. CASE j = i /\ l = k
    BY <1>3, <1>7, <2>1, <2>2
  <2>3. CASE ~(j = i /\ l = k)
    <3>1. l \in written[j]
      BY <1>2, <1>7, <2>3
    <3>2. events[l] # None
      BY <1>7, <3>1 DEF ImportsOK
    <3> QED BY <1>3, <2>1, <3>2
  <2> QED BY <2>2, <2>3
<1>8. ImportsOK'
  BY <1>1, <1>6, <1>7 DEF ImportsOK
<1>9. CacheOK' /\ SnapshotIsWhole' /\ HistoryIsComplete'
  BY <1>1 DEF CacheOK, SnapshotIsWhole, HistoryIsComplete
<1>10. PagesOK'
  BY <1>1, PagesAlone
<1> QED BY <1>5, <1>8, <1>9, <1>10

\* A file is completed, later than every file before it.
LEMMA CompleteKeeps ==
  ASSUME ReaderInv, NEW i \in Files, Complete(i)
  PROVE  ReaderInv'
<1> USE DEF ReaderInv
<1>1. /\ status[i] = "running" /\ written[i] = Upload[i].rows
      /\ status' = [status EXCEPT ![i] = "completed"] /\ clock' = clock + 1
      /\ at' = [at EXCEPT ![i] = clock + 1]
      /\ UNCHANGED <<written, events, key, cache, pages>>
  BY DEF Complete
<1>2. \A j \in Files : status'[j] = IF j = i THEN "completed" ELSE status[j]
  BY <1>1 DEF TypeOK
<1>3. \A j \in Files : at'[j] = IF j = i THEN clock + 1 ELSE at[j]
  BY <1>1 DEF TypeOK
<1>4. clock \in Nat /\ \A j \in Files : at[j] \in Nat
  BY DEF TypeOK
<1>5. TypeOK'
  BY <1>1, <1>4 DEF TypeOK, pages
<1>6. \A j \in Files \ {i} : status'[j] = "completed" => at'[j] \in 1..clock
  BY <1>2, <1>3 DEF ImportsOK
<1>7. ImportsOK'
  <2>1. \A j \in Files : status'[j] = "completed" =>
          written'[j] = Upload[j].rows /\ at'[j] \in 1..clock'
    BY <1>1, <1>2, <1>3, <1>4 DEF ImportsOK
  <2>2. \A j, l \in Files : status'[j] = "completed" /\ status'[l] = "completed"
          /\ at'[j] = at'[l] => j = l
    BY <1>2, <1>3, <1>4, <1>6 DEF ImportsOK
  <2> QED BY <1>1, <2>1, <2>2 DEF ImportsOK
<1>8. CacheOK' /\ SnapshotIsWhole'
  BY <1>1, <1>2 DEF CacheOK, SnapshotIsWhole
<1>9. ASSUME NEW h \in Files, NEW j \in Files,
             Upload[h].type = "cancellation", Upload[j].type = "cancellation",
             cache'[h] # None, status'[j] = "completed", at'[j] <= at'[h]
      PROVE  \A k \in Upload[j].rows : \E f \in Files : <<k, f>> \in cache'[h]
  <2>1. status[h] = "completed" /\ h # i /\ at'[h] = at[h] /\ at[h] \in 1..clock
    BY <1>1, <1>3, <1>9 DEF CacheOK, ImportsOK
  <2>2. j # i
    BY <1>3, <1>4, <1>9, <2>1
  <2> QED BY <1>1, <1>2, <1>3, <1>9, <2>1, <2>2 DEF HistoryIsComplete
<1>10. HistoryIsComplete'
  BY <1>9 DEF HistoryIsComplete
<1>11. PagesOK'
  <2>1. \A j \in Files : status[j] = "completed" => status'[j] = "completed" /\ at'[j] = at[j]
    BY <1>1, <1>2, <1>3
  <2> QED BY <1>1, <2>1, PagesAlone
<1> QED BY <1>5, <1>7, <1>8, <1>10, <1>11

(***************************************************************************)
(* The pages: what a step does to the page of its own thread.              *)
(***************************************************************************)

\* A step of one thread leaves the pages of the others alone.
LEMMA OtherPages ==
  ASSUME PagesOK, UNCHANGED importer, NEW t \in Threads,
         PageOK(t)', IsCurrent(t)', MovesForward(t)',
         \A u \in Threads \ {t} :
           /\ pc'[u] = pc[u] /\ todo'[u] = todo[u] /\ chosen'[u] = chosen[u]
           /\ got'[u] = got[u] /\ before'[u] = before[u]
  PROVE  PagesOK'
<1> SUFFICES ASSUME NEW u \in Threads \ {t}
             PROVE  PageOK(u)' /\ IsCurrent(u)' /\ MovesForward(u)'
  BY DEF PagesOK
<1>1. UNCHANGED <<status, at>>
  BY DEF importer
<1>2. PageOK(u) /\ IsCurrent(u) /\ MovesForward(u)
  BY DEF PagesOK
<1>3. /\ pc'[u] = pc[u] /\ todo'[u] = todo[u] /\ chosen'[u] = chosen[u]
      /\ got'[u] = got[u] /\ before'[u] = before[u]
  OBVIOUS
<1>4. PageOK(u)'
  BY <1>1, <1>2, <1>3 DEF PageOK, DateIsLast, IsCompleted, UpToDate, FileType, Newer
<1>5. IsCurrent(u)'
  BY <1>1, <1>2, <1>3 DEF IsCurrent, FileType, Newer
<1>6. MovesForward(u)'
  BY <1>1, <1>2, <1>3 DEF MovesForward, Newer
<1> QED BY <1>4, <1>5, <1>6

\* A page that ends has nothing left to be right about.
LEMMA EndPageKeeps ==
  ASSUME TypeOK, PagesOK, UNCHANGED importer, NEW t \in Threads, EndPage(t)
  PROVE  /\ PagesOK'
         /\ pc' \in [Threads -> {"idle", "select", "load", "render"}]
         /\ todo' \in [Threads -> Seq(Reads)] /\ got' \in [Threads -> Seq(Got)]
         /\ chosen' \in [Threads -> Files \cup {None}]
         /\ \A u \in Threads : pc'[u] = "load" <=> chosen'[u] # None
         /\ before' \in [Threads -> SUBSET Files]
<1>1. /\ pc' = [pc EXCEPT ![t] = "idle"] /\ todo' = [todo EXCEPT ![t] = <<>>]
      /\ chosen' = [chosen EXCEPT ![t] = None] /\ got' = [got EXCEPT ![t] = <<>>]
      /\ before' = [before EXCEPT ![t] = {}]
  BY DEF EndPage, Goto
<1>2. /\ pc'[t] = "idle" /\ todo'[t] = <<>> /\ chosen'[t] = None
      /\ got'[t] = <<>> /\ before'[t] = {}
  BY <1>1 DEF TypeOK
<1>3. PageOK(t)' /\ IsCurrent(t)' /\ MovesForward(t)'
  BY <1>2 DEF PageOK, DateIsLast, IsCurrent, MovesForward
<1>4. \A u \in Threads \ {t} :
        /\ pc'[u] = pc[u] /\ todo'[u] = todo[u] /\ chosen'[u] = chosen[u]
        /\ got'[u] = got[u] /\ before'[u] = before[u]
  BY <1>1 DEF TypeOK
<1>5. PagesOK'
  BY <1>3, <1>4, OtherPages
<1>6. /\ todo' \in [Threads -> Seq(Reads)] /\ got' \in [Threads -> Seq(Got)]
      /\ before' \in [Threads -> SUBSET Files]
  BY <1>1 DEF TypeOK
<1>7. /\ pc' \in [Threads -> {"idle", "select", "load", "render"}]
      /\ chosen' \in [Threads -> Files \cup {None}]
      /\ \A u \in Threads : pc'[u] = "load" <=> chosen'[u] # None
  BY <1>1, <1>2, <1>4 DEF TypeOK
<1> QED BY <1>5, <1>6, <1>7

\* A page is opened.
LEMMA OpenKeeps ==
  ASSUME ReaderInv, NEW t \in Threads, NEW page \in Pages, Open(t, page)
  PROVE  ReaderInv'
<1> USE DEF ReaderInv
<1> DEFINE there == Completed("inhouse") \cup Completed("cancellation")
<1>1. /\ pc[t] = "idle" /\ pc' = [pc EXCEPT ![t] = "select"]
      /\ todo' = [todo EXCEPT ![t] = page] /\ got' = [got EXCEPT ![t] = <<>>]
      /\ before' = [before EXCEPT ![t] = there]
      /\ UNCHANGED <<importer, key, cache, chosen>>
  BY DEF Open, Goto
<1>2. there \subseteq Files /\ \A j \in there : status[j] = "completed"
  BY DEF Completed
<1>3. page \in Seq(Reads) /\ page # <<>> /\ \A n \in 1..Len(page) : page[n] = "date" => n = Len(page)
  BY PageType
<1> HIDE DEF there
<1>4. /\ pc'[t] = "select" /\ todo'[t] = page /\ got'[t] = <<>> /\ before'[t] = there
  BY <1>1 DEF TypeOK
<1>5. \A u \in Threads \ {t} :
        /\ pc'[u] = pc[u] /\ todo'[u] = todo[u] /\ chosen'[u] = chosen[u]
        /\ got'[u] = got[u] /\ before'[u] = before[u]
  BY <1>1 DEF TypeOK
<1>6. /\ todo' \in [Threads -> Seq(Reads)] /\ got' \in [Threads -> Seq(Got)]
      /\ before' \in [Threads -> SUBSET Files]
  BY <1>1, <1>2, <1>3 DEF TypeOK
<1>7. TypeOK'
  BY <1>1, <1>4, <1>5, <1>6 DEF TypeOK, importer
<1>8. UNCHANGED status
  BY <1>1 DEF importer
<1>9. PageOK(t)' /\ IsCurrent(t)' /\ MovesForward(t)'
  BY <1>2, <1>3, <1>4, <1>8 DEF PageOK, DateIsLast, IsCurrent, MovesForward
<1>10. PagesOK'
  BY <1>1, <1>5, <1>9, OtherPages
<1>11. ImportsOK' /\ CacheOK' /\ SnapshotIsWhole' /\ HistoryIsComplete'
  BY <1>1 DEF ImportsOK, CacheOK, SnapshotIsWhole, HistoryIsComplete, importer
<1> QED BY <1>7, <1>10, <1>11

\* A sequence without length is empty.
LEMMA NothingIsEmpty ==
  ASSUME NEW S, NEW s \in Seq(S)
  PROVE  s = <<>> <=> Len(s) = 0
OBVIOUS

\* A read comes back with nothing because there is nothing, or with a file that is up
\* to date: the page stays as it should be.
LEMMA ReturnKeeps ==
  ASSUME TypeOK, PagesOK, UNCHANGED <<importer, before>>, NEW t \in Threads,
         pc[t] \in {"select", "load"},
         NEW i \in Files \cup {None}, Return(t, i),
         i = None => \A j \in Files : ~IsCompleted(j, FileType(Head(todo[t]))),
         i # None => /\ IsCompleted(i, FileType(Head(todo[t])))
                     /\ UpToDate(t, i, FileType(Head(todo[t])))
  PROVE  /\ PagesOK'
         /\ pc' \in [Threads -> {"idle", "select", "load", "render"}]
         /\ todo' \in [Threads -> Seq(Reads)] /\ got' \in [Threads -> Seq(Got)]
         /\ chosen' \in [Threads -> Files \cup {None}]
         /\ \A u \in Threads : pc'[u] = "load" <=> chosen'[u] # None
<1> DEFINE read == Head(todo[t])
           new == [read |-> read, file |-> i]
           step == IF Len(todo[t]) = 1 THEN "render" ELSE "select"
           g == Append(got[t], new)
<1>1. /\ pc' = [pc EXCEPT ![t] = step] /\ todo' = [todo EXCEPT ![t] = Tail(todo[t])]
      /\ got' = [got EXCEPT ![t] = g] /\ chosen' = [chosen EXCEPT ![t] = None]
  BY DEF Return, Goto
<1>2. PageOK(t) /\ IsCurrent(t) /\ MovesForward(t) /\ todo[t] # <<>>
  BY DEF PagesOK, PageOK
<1>3. /\ todo[t] \in Seq(Reads) /\ got[t] \in Seq(Got) /\ before[t] \subseteq Files
  BY DEF TypeOK
<1>4. /\ read \in Reads /\ read = todo[t][1] /\ Len(todo[t]) \in Nat \ {0}
      /\ Tail(todo[t]) \in Seq(Reads) /\ Len(Tail(todo[t])) = Len(todo[t]) - 1
      /\ \A n \in 1..Len(Tail(todo[t])) : Tail(todo[t])[n] = todo[t][n + 1]
  BY <1>2, <1>3
<1>5. new \in Got /\ new.read = read /\ new.file = i
  BY <1>4 DEF Got
<1> HIDE DEF new
<1>6. /\ g \in Seq(Got) /\ Len(g) = Len(got[t]) + 1 /\ Len(got[t]) \in Nat
      /\ \A n \in 1..Len(got[t]) : g[n] = got[t][n]
      /\ g[Len(got[t]) + 1] = new
      /\ \A n \in 1..Len(g) : n \in 1..Len(got[t]) \/ n = Len(got[t]) + 1
  BY <1>3, <1>5
<1> HIDE DEF g, read
<1>7. /\ pc'[t] = step /\ todo'[t] = Tail(todo[t]) /\ got'[t] = g /\ chosen'[t] = None
      /\ before'[t] = before[t]
  BY <1>1 DEF TypeOK
<1>8. \A u \in Threads \ {t} :
        /\ pc'[u] = pc[u] /\ todo'[u] = todo[u] /\ chosen'[u] = chosen[u]
        /\ got'[u] = got[u] /\ before'[u] = before[u]
  BY <1>1 DEF TypeOK
<1>9. /\ todo' \in [Threads -> Seq(Reads)] /\ got' \in [Threads -> Seq(Got)]
  BY <1>1, <1>4, <1>6 DEF TypeOK
<1>10. /\ pc' \in [Threads -> {"idle", "select", "load", "render"}]
       /\ chosen' \in [Threads -> Files \cup {None}]
       /\ \A u \in Threads : pc'[u] = "load" <=> chosen'[u] # None
  BY <1>1, <1>7, <1>8 DEF TypeOK
<1>11. UNCHANGED <<status, at>>
  BY DEF importer
\* A page that goes on reading has not read the date.
<1>12. \A n \in 1..Len(got[t]) : got[t][n].read # "date"
  BY <1>2 DEF PageOK, DateIsLast
<1>a. Tail(todo[t]) = <<>> <=> Len(todo[t]) = 1
  <2> DEFINE rest == Tail(todo[t])
  <2>1. rest \in Seq(Reads) /\ Len(rest) = Len(todo[t]) - 1 /\ Len(todo[t]) \in Nat
    BY <1>4
  <2> HIDE DEF rest
  <2>2. rest = <<>> <=> Len(rest) = 0
    BY <2>1, NothingIsEmpty
  <2> QED BY <2>1, <2>2 DEF rest
<1>13. read = "date" => Tail(todo[t]) = <<>>
  <2>1. 1 \in 1..Len(todo[t])
    BY <1>4
  <2>2. \A n \in 1..Len(todo[t]) : todo[t][n] = "date" => n = Len(todo[t])
    BY <1>2 DEF PageOK, DateIsLast
  <2> QED BY <1>4, <1>a, <2>1, <2>2
<1>14. DateIsLast(t)'
  <2>1. ASSUME NEW n \in 1..Len(Tail(todo[t])), Tail(todo[t])[n] = "date"
        PROVE  n = Len(Tail(todo[t]))
    BY <1>2, <1>4, <2>1 DEF PageOK, DateIsLast
  <2>2. ASSUME NEW n \in 1..Len(g), g[n].read = "date"
        PROVE  n = Len(g) /\ Tail(todo[t]) = <<>>
    BY <1>5, <1>6, <1>12, <1>13, <2>2
  <2> QED BY <1>7, <2>1, <2>2 DEF DateIsLast
<1>15. ASSUME NEW n \in 1..Len(g), g[n].file # None
       PROVE  IsCompleted(g[n].file, FileType(g[n].read))
  <2>1. CASE n \in 1..Len(got[t])
    BY <1>2, <1>6, <1>15, <2>1 DEF PageOK
  <2>2. CASE n = Len(got[t]) + 1
    BY <1>5, <1>6, <1>15, <2>2 DEF read
  <2> QED BY <1>6, <2>1, <2>2
<1>16. PageOK(t)'
  <2>1. \A j \in before[t] : status[j] = "completed"
    BY <1>2 DEF PageOK
  <2>2. pc'[t] \in {"select", "load"} => Tail(todo[t]) # <<>>
    BY <1>7, <1>a
  <2>3. pc'[t] # "load"
    BY <1>7
  <2>4. ASSUME NEW n \in 1..Len(got'[t]), got'[t][n].file # None
        PROVE  /\ got'[t][n].file \in Files /\ status'[got'[t][n].file] = "completed"
               /\ Upload[got'[t][n].file].type = FileType(got'[t][n].read)
    BY <1>7, <1>11, <1>15, <2>4 DEF IsCompleted
  <2> QED BY <1>7, <1>11, <1>14, <2>1, <2>2, <2>3, <2>4 DEF PageOK, IsCompleted, FileType
<1>17. ASSUME NEW n \in 1..Len(g), NEW j \in before[t], Upload[j].type = FileType(g[n].read)
       PROVE  g[n].file # None /\ ~Newer(j, g[n].file)
  <2>1. CASE n \in 1..Len(got[t])
    BY <1>2, <1>6, <1>17, <2>1 DEF IsCurrent
  <2>2. CASE n = Len(got[t]) + 1
    <3>1. g[n].file = i /\ Upload[j].type = FileType(read)
      BY <1>5, <1>6, <1>17, <2>2
    <3>2. IsCompleted(j, FileType(read))
      BY <1>2, <1>3, <3>1 DEF PageOK, IsCompleted
    <3>3. i # None
      BY <1>3, <3>2 DEF read
    <3>4. ~Newer(j, i)
      BY <3>1, <3>3 DEF UpToDate, read
    <3> QED BY <3>1, <3>3, <3>4
  <2> QED BY <1>6, <2>1, <2>2
<1>18. IsCurrent(t)'
  BY <1>7, <1>11, <1>17 DEF IsCurrent, FileType, Newer
<1>19. ASSUME NEW m \in 1..Len(g), NEW n \in 1..Len(g),
              g[m].read = "inhouse", g[m].file # None,
              g[n].read = "date" \/ (g[n].read = "inhouse" /\ m < n)
       PROVE  g[n].file # None /\ ~Newer(g[m].file, g[n].file)
  <2>1. CASE n \in 1..Len(got[t])
    <3>1. g[n] = got[t][n] /\ g[n].read = "inhouse" /\ m < n
      BY <1>6, <1>12, <1>19, <2>1
    <3>2. m \in 1..Len(got[t]) /\ g[m] = got[t][m]
      BY <1>6, <2>1, <3>1
    <3> QED BY <1>2, <1>19, <2>1, <3>1, <3>2 DEF MovesForward
  <2>2. CASE n = Len(got[t]) + 1
    <3>1. g[n].file = i /\ g[n].read = read /\ FileType(read) = "inhouse"
      BY <1>5, <1>6, <1>19, <2>2 DEF FileType
    <3>2. m # n
      BY <1>5, <1>6, <1>13, <1>19, <2>2
    <3>3. m \in 1..Len(got[t]) /\ g[m] = got[t][m]
      BY <1>6, <2>2, <3>2
    <3>4. IsCompleted(g[m].file, "inhouse")
      BY <1>15, <1>19 DEF FileType
    <3>5. i # None
      BY <3>1, <3>4 DEF read, IsCompleted
    <3>6. ~Newer(g[m].file, i)
      BY <1>19, <3>1, <3>3, <3>5 DEF UpToDate, read
    <3> QED BY <3>1, <3>5, <3>6
  <2> QED BY <1>6, <2>1, <2>2
<1>20. MovesForward(t)'
  BY <1>7, <1>11, <1>19 DEF MovesForward, Newer
<1>21. PagesOK'
  BY <1>8, <1>16, <1>18, <1>20, OtherPages
<1> QED BY <1>9, <1>10, <1>21

\* The latest completed file of a type is up to date for every page.
LEMMA LatestIsUpToDate ==
  ASSUME TypeOK, PagesOK, NEW t \in Threads, NEW type, NEW i \in Latest(type)
  PROVE  IsCompleted(i, type) /\ UpToDate(t, i, type)
<1>1. IsCompleted(i, type) /\ \A j \in Files : IsCompleted(j, type) => ~Newer(j, i)
  BY LatestIsLatest
<1>2. PageOK(t) /\ before[t] \subseteq Files
  BY DEF PagesOK, TypeOK
<1>3. ASSUME NEW j \in before[t], Upload[j].type = type PROVE ~Newer(j, i)
  BY <1>1, <1>2, <1>3 DEF PageOK, IsCompleted
<1>4. ASSUME type = "inhouse", NEW n \in 1..Len(got[t]),
             got[t][n].read = "inhouse", got[t][n].file # None
      PROVE  ~Newer(got[t][n].file, i)
  <2>1. IsCompleted(got[t][n].file, "inhouse")
    BY <1>2, <1>4 DEF PageOK, FileType
  <2> QED BY <1>1, <1>4, <2>1 DEF IsCompleted
<1> QED BY <1>1, <1>3, <1>4 DEF UpToDate

\* A file is selected to be loaded.
LEMMA SelectKeeps ==
  ASSUME ReaderInv, NEW t \in Threads, Select(t)
  PROVE  ReaderInv'
<1> USE DEF ReaderInv
<1> DEFINE type == FileType(Head(todo[t]))
<1>1. /\ pc[t] = "select" /\ Head(todo[t]) # "date"
      /\ pc' = [pc EXCEPT ![t] = "load"]
      /\ UNCHANGED <<importer, key, cache, todo, got, before>>
  BY DEF Select, Goto
<1>2. PICK i \in Latest(type) : chosen' = [chosen EXCEPT ![t] = i]
  BY DEF Select
<1>3. IsCompleted(i, type) /\ UpToDate(t, i, type)
  BY LatestIsUpToDate
<1>4. PageOK(t) /\ IsCurrent(t) /\ MovesForward(t)
  BY DEF PagesOK
<1>5. i \in Files /\ i # None
  BY <1>3, ReaderAssumptions DEF IsCompleted
<1>6. pc'[t] = "load" /\ chosen'[t] = i
  BY <1>1, <1>2 DEF TypeOK
<1>7. \A u \in Threads \ {t} : pc'[u] = pc[u] /\ chosen'[u] = chosen[u]
  BY <1>1, <1>2 DEF TypeOK
<1>8. /\ chosen' \in [Threads -> Files \cup {None}]
      /\ pc' \in [Threads -> {"idle", "select", "load", "render"}]
      /\ \A u \in Threads : pc'[u] = "load" <=> chosen'[u] # None
  BY <1>1, <1>2, <1>5, <1>6, <1>7 DEF TypeOK
<1>9. TypeOK'
  BY <1>1, <1>8 DEF TypeOK, importer
<1>10. UNCHANGED <<status, at>>
  BY <1>1 DEF importer
<1>11. todo'[t] = todo[t] /\ got'[t] = got[t] /\ before'[t] = before[t]
  BY <1>1
<1>12. /\ IsCompleted(chosen[t], FileType(Head(todo[t])))'
       /\ UpToDate(t, chosen[t], FileType(Head(todo[t])))'
  BY <1>3, <1>6, <1>10, <1>11 DEF IsCompleted, UpToDate, FileType, Newer
<1>13. PageOK(t)'
  BY <1>1, <1>4, <1>6, <1>10, <1>11, <1>12 DEF PageOK, DateIsLast, IsCompleted, FileType
<1>14. IsCurrent(t)' /\ MovesForward(t)'
  BY <1>4, <1>10, <1>11 DEF IsCurrent, MovesForward, FileType, Newer
<1>15. PagesOK'
  BY <1>1, <1>7, <1>13, <1>14, OtherPages
<1>16. ImportsOK' /\ CacheOK' /\ SnapshotIsWhole' /\ HistoryIsComplete'
  BY <1>1 DEF ImportsOK, CacheOK, SnapshotIsWhole, HistoryIsComplete, importer
<1> QED BY <1>9, <1>15, <1>16

(***************************************************************************)
(* The caches.                                                             *)
(***************************************************************************)

\* What the caches keep when they change at most by forgetting.
LEMMA CacheForgets ==
  ASSUME ReaderInv, UNCHANGED importer, cache' \in [Files -> (SUBSET (Lookups \X Files)) \cup {None}],
         \A j \in Files : cache'[j] \in {cache[j], None}
  PROVE  ImportsOK' /\ CacheOK' /\ SnapshotIsWhole' /\ HistoryIsComplete'
<1>1. UNCHANGED <<status, at, clock, written, events>>
  BY DEF importer
<1>2. ImportsOK' /\ CacheOK' /\ SnapshotIsWhole'
  BY <1>1 DEF ReaderInv, ImportsOK, CacheOK, SnapshotIsWhole
<1>3. HistoryIsComplete'
  BY <1>1 DEF ReaderInv, HistoryIsComplete
<1> QED BY <1>2, <1>3

\* What is read for a completed file is whole, or complete.
LEMMA LoadKeepsCache ==
  ASSUME ReaderInv, UNCHANGED importer, NEW i \in Files, status[i] = "completed",
         NEW out,
         cache' = [j \in Files |-> IF j = i THEN Rows(i) ELSE IF j = out THEN None ELSE cache[j]]
  PROVE  /\ cache' \in [Files -> (SUBSET (Lookups \X Files)) \cup {None}]
         /\ ImportsOK' /\ CacheOK' /\ SnapshotIsWhole' /\ HistoryIsComplete'
<1> USE DEF ReaderInv
<1>1. UNCHANGED <<status, at, clock, written, events>>
  BY DEF importer
<1>2. Rows(i) \in SUBSET (Lookups \X Files)
  <2>1. CASE Upload[i].type = "inhouse"
    BY <2>1 DEF Rows, TypeOK
  <2>2. CASE Upload[i].type # "inhouse"
    BY <2>2 DEF Rows, TypeOK
  <2> QED BY <2>1, <2>2
<1>3. Rows(i) # None
  BY <1>2, ReaderAssumptions
<1>4. cache' \in [Files -> (SUBSET (Lookups \X Files)) \cup {None}]
  BY <1>2 DEF TypeOK
<1>5. \A j \in Files \ {i} : cache'[j] \in {cache[j], None}
  OBVIOUS
<1>6. cache'[i] = Rows(i)
  OBVIOUS
<1>7. ImportsOK' /\ CacheOK'
  BY <1>1, <1>5 DEF ImportsOK, CacheOK
<1>8. SnapshotIsWhole'
  <2>1. Upload[i].type = "inhouse" => Rows(i) = Upload[i].rows \X {i}
    BY DEF Rows, ImportsOK
  <2> QED BY <1>1, <1>5, <1>6, <2>1 DEF SnapshotIsWhole
<1>9. ASSUME NEW h \in Files, NEW j \in Files,
             Upload[h].type = "cancellation", Upload[j].type = "cancellation",
             cache'[h] # None, status'[j] = "completed", at'[j] <= at'[h],
             NEW k \in Upload[j].rows
      PROVE  \E f \in Files : <<k, f>> \in cache'[h]
  <2>1. CASE h # i
    BY <1>1, <1>5, <1>9, <2>1 DEF HistoryIsComplete
  <2>2. CASE h = i
    <3>1. k \in Lookups /\ events[k] # None
      BY <1>1, <1>9, UploadType DEF ImportsOK
    <3>2. events[k] \in Files
      BY <3>1 DEF TypeOK
    <3>3. <<k, events[k]>> \in Rows(i)
      BY <1>9, <2>2, <3>1 DEF Rows
    <3> QED BY <1>6, <2>2, <3>2, <3>3
  <2> QED BY <2>1, <2>2
<1>10. HistoryIsComplete'
  BY <1>9 DEF HistoryIsComplete
<1> QED BY <1>4, <1>7, <1>8, <1>10

(***************************************************************************)
(* The invariant and what follows from it.                                 *)
(***************************************************************************)

\* A page that ends, with or without an answer, keeps everything.
LEMMA EndKeeps ==
  ASSUME ReaderInv, NEW t \in Threads, EndPage(t), UNCHANGED <<importer, key, cache>>
  PROVE  ReaderInv'
<1> USE DEF ReaderInv
<1>1. cache' \in [Files -> (SUBSET (Lookups \X Files)) \cup {None}]
  BY DEF TypeOK
<1>2. ImportsOK' /\ CacheOK' /\ SnapshotIsWhole' /\ HistoryIsComplete'
  BY <1>1, CacheForgets
<1>3. TypeOK' /\ PagesOK'
  BY EndPageKeeps DEF TypeOK, importer
<1> QED BY <1>2, <1>3

\* A read that comes back from the selection or from the cache.
LEMMA ReturnKeepsAll ==
  ASSUME ReaderInv, NEW t \in Threads, NEW i \in Files \cup {None}, Return(t, i),
         pc[t] \in {"select", "load"}, UNCHANGED <<importer, key, cache, before>>,
         i = None => \A j \in Files : ~IsCompleted(j, FileType(Head(todo[t]))),
         i # None => /\ IsCompleted(i, FileType(Head(todo[t])))
                     /\ UpToDate(t, i, FileType(Head(todo[t])))
  PROVE  ReaderInv'
<1> USE DEF ReaderInv
<1>1. cache' \in [Files -> (SUBSET (Lookups \X Files)) \cup {None}]
  BY DEF TypeOK
<1>2. ImportsOK' /\ CacheOK' /\ SnapshotIsWhole' /\ HistoryIsComplete'
  BY <1>1, CacheForgets
<1>3. TypeOK' /\ PagesOK'
  BY ReturnKeeps DEF TypeOK, importer
<1> QED BY <1>2, <1>3

\* Every step of a request keeps the invariant.
LEMMA ServeKeeps ==
  ASSUME ReaderInv, NEW t \in Threads, Serve(t)
  PROVE  ReaderInv'
<1> DEFINE type == FileType(Head(todo[t]))
<1>1. TypeOK /\ PagesOK /\ PageOK(t)
  BY DEF ReaderInv, PagesOK
<1>2. CASE SelectNothing(t)
  <2>1. \A j \in Files : ~IsCompleted(j, type)
    BY <1>2 DEF SelectNothing, Completed, IsCompleted
  <2>2. /\ Return(t, None) /\ pc[t] \in {"select", "load"}
        /\ UNCHANGED <<importer, key, cache, before>>
    BY <1>2 DEF SelectNothing
  <2> QED BY <2>1, <2>2, ReturnKeepsAll
<1>3. CASE SelectDate(t)
  <2>1. PICK i \in Latest("inhouse") : Return(t, i)
    BY <1>3 DEF SelectDate
  <2>2. type = "inhouse" /\ IsCompleted(i, "inhouse") /\ UpToDate(t, i, "inhouse")
    BY <1>1, <1>3, LatestIsUpToDate DEF SelectDate, FileType
  <2>3. i \in Files /\ i # None
    BY <2>2, ReaderAssumptions DEF IsCompleted
  <2>4. pc[t] \in {"select", "load"} /\ UNCHANGED <<importer, key, cache, before>>
    BY <1>3 DEF SelectDate
  <2> QED BY <2>1, <2>2, <2>3, <2>4, ReturnKeepsAll
<1>4. CASE Select(t)
  BY <1>4, SelectKeeps
<1>5. CASE LoadCached(t)
  <2>1. /\ pc[t] = "load" /\ Return(t, chosen[t]) /\ UNCHANGED <<importer, key, cache, before>>
    BY <1>5 DEF LoadCached
  <2>2. IsCompleted(chosen[t], type) /\ UpToDate(t, chosen[t], type)
    BY <1>1, <2>1 DEF PageOK
  <2>3. chosen[t] \in Files /\ chosen[t] # None
    BY <2>2, ReaderAssumptions DEF IsCompleted
  <2> QED BY <2>1, <2>2, <2>3, ReturnKeepsAll
<1>6. CASE Load(t)
  <2> DEFINE i == chosen[t]
  <2>1. pc[t] = "load" /\ Return(t, i) /\ UNCHANGED <<importer, key, before>>
    BY <1>6 DEF Load
  <2>2. PICK out \in Dropped(i) :
          cache' = [j \in Files |-> IF j = i THEN Rows(i) ELSE IF j = out THEN None ELSE cache[j]]
    BY <1>6 DEF Load
  <2>3. IsCompleted(i, type) /\ UpToDate(t, i, type)
    BY <1>1, <2>1 DEF PageOK
  <2>4. i \in Files /\ i # None /\ status[i] = "completed"
    BY <2>3, ReaderAssumptions DEF IsCompleted
  <2>5. UNCHANGED importer
    BY <2>1
  <2> HIDE DEF i
  <2>6. /\ cache' \in [Files -> (SUBSET (Lookups \X Files)) \cup {None}]
        /\ ImportsOK' /\ CacheOK' /\ SnapshotIsWhole' /\ HistoryIsComplete'
    BY <2>2, <2>4, <2>5, LoadKeepsCache
  <2>7. /\ PagesOK'
        /\ pc' \in [Threads -> {"idle", "select", "load", "render"}]
        /\ todo' \in [Threads -> Seq(Reads)] /\ got' \in [Threads -> Seq(Got)]
        /\ chosen' \in [Threads -> Files \cup {None}]
        /\ \A u \in Threads : pc'[u] = "load" <=> chosen'[u] # None
    BY <1>1, <2>1, <2>3, <2>4, ReturnKeeps
  <2>8. TypeOK'
    BY <1>1, <2>1, <2>6, <2>7 DEF TypeOK, importer
  <2> QED BY <2>6, <2>7, <2>8 DEF ReaderInv
<1>7. CASE LoadUnreadable(t) \/ Render(t)
  BY <1>7, EndKeeps DEF LoadUnreadable, Render
<1> QED BY <1>2, <1>3, <1>4, <1>5, <1>6, <1>7 DEF Serve

\* A worker that starts knows nothing.
LEMMA RestartKeeps ==
  ASSUME ReaderInv, NEW k \in Keys, Restart(k)
  PROVE  ReaderInv'
<1> USE DEF ReaderInv
<1>1. /\ key' = k /\ cache' = [i \in Files |-> None]
      /\ pc' = [u \in Threads |-> "idle"] /\ todo' = [u \in Threads |-> <<>>]
      /\ chosen' = [u \in Threads |-> None] /\ got' = [u \in Threads |-> <<>>]
      /\ before' = [u \in Threads |-> {}] /\ UNCHANGED importer
  BY DEF Restart
<1>2. TypeOK'
  BY <1>1 DEF TypeOK, importer
<1>3. ImportsOK' /\ CacheOK' /\ SnapshotIsWhole' /\ HistoryIsComplete'
  BY <1>1, <1>2, CacheForgets DEF TypeOK
<1>4. PagesOK'
  BY <1>1 DEF PagesOK, PageOK, DateIsLast, IsCurrent, MovesForward
<1> QED BY <1>2, <1>3, <1>4

\* Every step keeps the invariant.
LEMMA NextReaderInv == ReaderInv /\ [Next]_vars => ReaderInv'
<1> SUFFICES ASSUME ReaderInv, [Next]_vars PROVE ReaderInv'
  OBVIOUS
<1>1. CASE UNCHANGED vars
  <2>1. UNCHANGED <<importer, key, cache, pages>>
    BY <1>1 DEF vars
  <2>2. TypeOK'
    BY <2>1 DEF ReaderInv, TypeOK, importer, pages
  <2>3. ImportsOK' /\ CacheOK' /\ SnapshotIsWhole' /\ HistoryIsComplete'
    BY <2>1, <2>2, CacheForgets DEF TypeOK
  <2>4. PagesOK'
    BY <2>1, PagesAlone DEF ReaderInv, importer
  <2> QED BY <2>2, <2>3, <2>4 DEF ReaderInv
<1>2. CASE \E i \in Files : Start(i) \/ Complete(i) \/ \E k \in Lookups : Write(i, k)
  BY <1>2, StartKeeps, CompleteKeeps, WriteKeeps
<1>3. CASE \E t \in Threads : \E page \in Pages : Open(t, page)
  BY <1>3, OpenKeeps
<1>4. CASE \E t \in Threads : Serve(t)
  BY <1>4, ServeKeeps
<1>5. CASE \E t \in Threads : Fail(t)
  BY <1>5, EndKeeps DEF Fail
<1>6. CASE \E k \in Keys : Restart(k)
  BY <1>6, RestartKeeps
<1> QED BY <1>1, <1>2, <1>3, <1>4, <1>5, <1>6 DEF Next

\* The invariant holds of every behaviour.
LEMMA ReaderInvariant == Spec => []ReaderInv
BY InitReaderInv, NextReaderInv, PTL DEF Spec

\* Every variable keeps its type; in particular a thread loads exactly while it has
\* chosen a file.
THEOREM TypeCorrect == Spec => []TypeOK
<1>1. ReaderInv => TypeOK
  BY DEF ReaderInv
<1> QED BY <1>1, ReaderInvariant, PTL

\* What is kept for an in-house file is that file, whole, whatever the importer was
\* doing meanwhile (pms.py:129-151).
THEOREM SnapshotsAreWhole == Spec => []SnapshotIsWhole
<1>1. ReaderInv => SnapshotIsWhole
  BY DEF ReaderInv
<1> QED BY <1>1, ReaderInvariant, PTL

\* What is kept for a cancellation file has every event reported up to it, although
\* it is read from a table that goes on changing (pms.py:172-184).
THEOREM HistoriesAreComplete == Spec => []HistoryIsComplete
<1>1. ReaderInv => HistoryIsComplete
  BY DEF ReaderInv
<1> QED BY <1>1, ReaderInvariant, PTL

\* A page never shows a report older than the latest there was when it was opened
\* (pms.py:154-169, 187-199).
THEOREM PagesAreCurrent == Spec => []PageIsCurrent
<1>1. ReaderInv => PageIsCurrent
  BY PagesAre DEF ReaderInv
<1> QED BY <1>1, ReaderInvariant, PTL

\* No count and no date of a page is of an older in-house report than what the page
\* read before it (app.py:178-205, 328-362).
THEOREM PagesMoveForward == Spec => []PageMovesForward
<1>1. ReaderInv => PageMovesForward
  BY PagesAre DEF ReaderInv
<1> QED BY <1>1, ReaderInvariant, PTL

(***************************************************************************)
(* Which report: of the completed files of a type one is the latest, and   *)
(* only one, so that a selection neither fails nor depends on the order    *)
(* the database finds rows in.                                             *)
(***************************************************************************)

Types == {"inhouse", "cancellation"}

LatestExists == \A type \in Types : Completed(type) # {} => Latest(type) # {}

LatestIsOne == \A type \in Types : \A i, j \in Latest(type) : i = j

\* Of two completed files of one type one is the newer: their completion times differ.
LEMMA NewerIsTotal ==
  ASSUME TypeOK, ImportsOK, NEW type \in Types,
         NEW i \in Completed(type), NEW j \in Completed(type), i # j
  PROVE  Newer(i, j) \/ Newer(j, i)
<1>1. i \in Files /\ j \in Files /\ Upload[i].type = type /\ Upload[j].type = type
      /\ status[i] = "completed" /\ status[j] = "completed"
  BY DEF Completed
<1>2. at[i] # at[j]
  BY <1>1 DEF ImportsOK
<1>3. at[i] \in Nat /\ at[j] \in Nat /\ Upload[i].date \in Int /\ Upload[j].date \in Int
  BY <1>1, UploadType DEF TypeOK
<1> QED BY <1>1, <1>2, <1>3 DEF Newer

LEMMA LatestUnique == TypeOK /\ ImportsOK => LatestIsOne
<1> SUFFICES ASSUME TypeOK, ImportsOK, NEW type \in Types,
                    NEW i \in Latest(type), NEW j \in Latest(type), i # j
             PROVE  FALSE
  BY DEF LatestIsOne
<1>1. i \in Completed(type) /\ j \in Completed(type) /\ ~Newer(i, j) /\ ~Newer(j, i)
  BY DEF Latest
<1> QED BY <1>1, NewerIsTotal

\* What is completed later takes the place of the latest, or leaves it where it is.
LEMMA CompleteKeepsLatest ==
  ASSUME ReaderInv, LatestExists, NEW new \in Files, Complete(new)
  PROVE  LatestExists'
<1>1. TypeOK /\ ImportsOK
  BY DEF ReaderInv
<1>2. /\ status[new] = "running" /\ status' = [status EXCEPT ![new] = "completed"]
      /\ at' = [at EXCEPT ![new] = clock + 1]
  BY DEF Complete
<1>3. /\ status'[new] = "completed"
      /\ \A i \in Files : i # new => status'[i] = status[i] /\ at'[i] = at[i]
  BY <1>1, <1>2 DEF TypeOK
<1> SUFFICES ASSUME NEW type \in Types, Completed(type)' # {}
             PROVE  \E i \in Files : i \in Latest(type)'
  BY DEF LatestExists
<1>4. ASSUME NEW i \in Files, NEW j \in Files, i # new, j # new
      PROVE  Newer(i, j)' <=> Newer(i, j)
  BY <1>3, <1>4, OrderStays
<1>5. ~Newer(new, new)'
  <2>1. at'[new] \in Int /\ Upload[new].date \in Int
    BY <1>1, <1>2, UploadType DEF TypeOK
  <2> QED BY <2>1 DEF Newer
<1>6. CASE Upload[new].type # type
  <2>1. Completed(type)' = Completed(type)
    BY <1>2, <1>3, <1>6 DEF Completed
  <2>2. PICK m \in Latest(type) : TRUE
    BY <2>1 DEF LatestExists
  <2>3. m \in Completed(type) /\ \A j \in Completed(type) : ~Newer(j, m)
    BY DEF Latest
  <2>4. \A j \in Completed(type) : j \in Files /\ j # new
    BY <1>2 DEF Completed
  <2>5. m \in Latest(type)'
    BY <1>4, <2>1, <2>3, <2>4 DEF Latest
  <2> QED BY <2>3, <2>4, <2>5
<1>7. CASE Upload[new].type = type
  <2>1. Completed(type)' = Completed(type) \cup {new}
    BY <1>3, <1>7 DEF Completed
  <2>2. \A j \in Completed(type) : j \in Files /\ j # new /\ Upload[j].type = type
    BY <1>2 DEF Completed
  <2>3. CASE \A j \in Completed(type) : ~Newer(j, new)'
    <3>1. new \in Latest(type)'
      BY <1>5, <2>1, <2>3 DEF Latest
    <3> QED BY <3>1
  <2>4. CASE \E j \in Completed(type) : Newer(j, new)'
    <3>1. PICK j \in Completed(type) : Newer(j, new)'
      BY <2>4
    <3>2. PICK m \in Latest(type) : TRUE
      BY <3>1 DEF LatestExists
    <3>3. m \in Completed(type) /\ \A i \in Completed(type) : ~Newer(i, m)
      BY DEF Latest
    <3>4. ~Newer(new, m)'
      <4>1. /\ ~Newer(j, m)
            /\ j \in Files /\ Upload[j].type = type /\ status[j] = "completed" /\ j # new
            /\ m \in Files /\ Upload[m].type = type /\ m # new
        BY <1>2, <3>1, <3>3 DEF Completed
      <4>2. at'[j] \in 1..clock /\ at'[new] = clock + 1 /\ clock \in Nat
        BY <1>1, <1>2, <1>3, <4>1 DEF TypeOK, ImportsOK
      <4>3. type = "inhouse" /\ Upload[j].date > Upload[new].date
        BY <1>7, <3>1, <4>1, <4>2 DEF Newer
      <4>4. ~(Upload[j].date > Upload[m].date)
        BY <4>1, <4>3 DEF Newer
      <4>5. Upload[j].date \in Int /\ Upload[m].date \in Int /\ Upload[new].date \in Int
        BY <4>1, UploadType
      <4> QED BY <1>7, <4>1, <4>3, <4>4, <4>5 DEF Newer
    <3>5. m \in Latest(type)'
      BY <1>4, <2>1, <2>2, <3>3, <3>4 DEF Latest
    <3> QED BY <2>2, <3>3, <3>5
  <2> QED BY <2>3, <2>4
<1> QED BY <1>6, <1>7

\* Nothing else completes a file.
LEMMA OthersKeepLatest ==
  ASSUME LatestExists, UNCHANGED at,
         \A i \in Files : status'[i] = "completed" <=> status[i] = "completed"
  PROVE  LatestExists'
<1>1. \A type \in Types : Completed(type)' = Completed(type)
  BY DEF Completed
<1>2. \A i, j \in Files : Newer(i, j)' <=> Newer(i, j)
  BY DEF Newer
<1>3. ASSUME NEW type \in Types PROVE Latest(type)' = Latest(type)
  <2>1. Completed(type)' = Completed(type) /\ Completed(type) \subseteq Files
    BY <1>1 DEF Completed
  <2> QED BY <1>2, <2>1 DEF Latest
<1> QED BY <1>1, <1>3 DEF LatestExists

LEMMA AlwaysLatest == Spec => []LatestExists
<1>1. Init => LatestExists
  BY DEF Init, LatestExists, Completed
<1>2. ReaderInv /\ LatestExists /\ [Next]_vars => LatestExists'
  <2> SUFFICES ASSUME ReaderInv, LatestExists, [Next]_vars PROVE LatestExists'
    OBVIOUS
  <2>1. ASSUME NEW i \in Files, Complete(i) PROVE LatestExists'
    BY <2>1, CompleteKeepsLatest
  <2>2. ASSUME NEW i \in Files, Start(i) PROVE LatestExists'
    BY <2>2, OthersKeepLatest DEF Start, ReaderInv, TypeOK
  <2>3. ASSUME UNCHANGED <<status, at>> PROVE LatestExists'
    BY <2>3, OthersKeepLatest
  <2>4. CASE UNCHANGED vars
    BY <2>3, <2>4 DEF vars, importer
  <2>5. ASSUME NEW i \in Files, NEW k \in Lookups, Write(i, k)
        PROVE  UNCHANGED <<status, at>>
    BY <2>5 DEF Write
  <2>6. ASSUME NEW t \in Threads, NEW page \in Pages, Open(t, page)
        PROVE  UNCHANGED <<status, at>>
    BY <2>6 DEF Open, importer
  <2>7. ASSUME NEW t \in Threads, Serve(t) \/ Fail(t) PROVE UNCHANGED <<status, at>>
    BY <2>7 DEF Serve, SelectNothing, SelectDate, Select, LoadCached, Load,
                LoadUnreadable, Render, Fail, importer
  <2>8. ASSUME NEW k \in Keys, Restart(k) PROVE UNCHANGED <<status, at>>
    BY <2>8 DEF Restart, importer
  <2> QED BY <2>1, <2>2, <2>3, <2>4, <2>5, <2>6, <2>7, <2>8 DEF Next
<1> QED BY <1>1, <1>2, ReaderInvariant, PTL DEF Spec

\* Whatever has been completed in whatever order, there is one latest report of each
\* type as soon as there is any: ORDER BY ... LIMIT 1 (pms.py:159-164, 190-195, 207-212)
\* has one answer, when no two files are completed at the same instant.
THEOREM OneLatestReport == Spec => [](LatestExists /\ LatestIsOne)
<1>1. ReaderInv => LatestIsOne
  BY LatestUnique DEF ReaderInv
<1> QED BY <1>1, AlwaysLatest, ReaderInvariant, PTL

(***************************************************************************)
(* How far a page has to go: an open page can always take a step of its    *)
(* own, and every such step brings it nearer to its answer; nothing else   *)
(* moves it but what ends it.  With a thread that goes on (WF of Serve)    *)
(* that is PageAnswered.                                                   *)
(***************************************************************************)

\* The guards of Serve: one of them holds for a page that is open.
SelectCanReturn(t) ==
  LET type == FileType(Head(todo[t])) IN
  Completed(type) = {} \/ Latest(type) # {}

LoadCanReturn(t) ==
  chosen[t] \in Files /\ (cache[chosen[t]] = None => Dropped(chosen[t]) # {})

PageCanGoOn ==
  \A t \in Threads :
    /\ pc[t] = "select" => todo[t] # <<>> /\ SelectCanReturn(t)
    /\ pc[t] = "load" => todo[t] # <<>> /\ LoadCanReturn(t)

\* The steps a page has left: two for a read to make, one to render.
Work(t) ==
  CASE pc[t] = "idle" -> 0
    [] pc[t] = "render" -> 1
    [] pc[t] = "load" -> 2 * Len(todo[t])
    [] pc[t] = "select" -> 2 * Len(todo[t]) + 1

Longest == 9  \* Home: four reads

WorkOK(t) == Work(t) \in 0..Longest /\ (Work(t) = 0 <=> pc[t] = "idle")

\* A full cache has an entry to drop.
LEMMA FullHasEntry ==
  ASSUME NEW i \in Files
  PROVE  Dropped(i) # {}
<1> DEFINE held == {j \in Files : Upload[j].type = Upload[i].type /\ cache[j] # None}
<1>1. CASE Cardinality(held) < CacheSize
  BY <1>1 DEF Dropped
<1>2. CASE ~(Cardinality(held) < CacheSize)
  <2>1. held # {}
    <3>1. Cardinality({}) = 0 /\ CacheSize \in Nat \ {0}
      BY FS_EmptySet, ReaderAssumptions
    <3> QED BY <1>2, <3>1
  <2>2. Dropped(i) = held
    BY <1>2 DEF Dropped
  <2> QED BY <2>1, <2>2
<1> QED BY <1>1, <1>2

\* No read of any page is ever stuck: with reports or without, with a full cache, while
\* the importer goes on (pms.py:129-212).
THEOREM NoReadIsStuck == Spec => []PageCanGoOn
<1>1. ReaderInv /\ LatestExists => PageCanGoOn
  <2> SUFFICES ASSUME ReaderInv, LatestExists, NEW t \in Threads
               PROVE  /\ pc[t] = "select" => todo[t] # <<>> /\ SelectCanReturn(t)
                      /\ pc[t] = "load" => todo[t] # <<>> /\ LoadCanReturn(t)
    BY DEF PageCanGoOn
  <2>1. PageOK(t)
    BY DEF ReaderInv, PagesOK
  <2>2. SelectCanReturn(t)
    BY DEF SelectCanReturn, LatestExists, FileType, Types
  <2>3. pc[t] = "load" => LoadCanReturn(t)
    BY <2>1, FullHasEntry DEF PageOK, IsCompleted, LoadCanReturn
  <2> QED BY <2>1, <2>2, <2>3 DEF PageOK
<1> QED BY <1>1, AlwaysLatest, ReaderInvariant, PTL

\* A read that is done leaves one fewer.
LEMMA ReturnShortens ==
  ASSUME TypeOK, NEW t \in Threads, NEW i, Return(t, i), todo[t] # <<>>,
         pc[t] \in {"select", "load"}
  PROVE  Work(t)' \in 1..(Work(t) - 1) /\ pc'[t] # "idle"
<1>1. todo[t] \in Seq(Reads) /\ Len(todo[t]) \in Nat \ {0}
  BY NothingIsEmpty DEF TypeOK
<1>2. /\ pc'[t] = (IF Len(todo[t]) = 1 THEN "render" ELSE "select")
      /\ todo'[t] = Tail(todo[t])
  BY DEF TypeOK, Return, Goto
<1>3. Len(todo'[t]) = Len(todo[t]) - 1
  BY <1>1, <1>2
<1>4. Work(t) \in {2 * Len(todo[t]), 2 * Len(todo[t]) + 1}
  BY DEF Work
<1>5. CASE Len(todo[t]) = 1
  <2>1. Work(t)' = 1 /\ pc'[t] = "render"
    BY <1>2, <1>5 DEF Work
  <2> QED BY <1>4, <1>5, <2>1
<1>6. CASE Len(todo[t]) # 1
  <2>1. Work(t)' = 2 * Len(todo'[t]) + 1 /\ pc'[t] = "select"
    BY <1>2, <1>6 DEF Work
  <2> QED BY <1>1, <1>3, <1>4, <1>6, <2>1
<1> QED BY <1>5, <1>6

LEMMA EndPageEnds ==
  ASSUME TypeOK, NEW t \in Threads, EndPage(t)
  PROVE  Work(t)' = 0 /\ pc'[t] = "idle"
BY DEF TypeOK, EndPage, Goto, Work

\* Every step of its own brings a page nearer to its answer.
LEMMA ServeShortens ==
  ASSUME ReaderInv, NEW t \in Threads, WorkOK(t), Serve(t)
  PROVE  WorkOK(t)' /\ Work(t)' < Work(t)
<1>1. TypeOK /\ PageOK(t)
  BY DEF ReaderInv, PagesOK
<1>2. Work(t) \in Nat
  BY DEF WorkOK
<1>3. CASE Select(t)
  <2>1. /\ pc[t] = "select" /\ pc'[t] = "load" /\ todo'[t] = todo[t]
    BY <1>1, <1>3 DEF TypeOK, Select, Goto
  <2>2. Len(todo[t]) \in Nat \ {0}
    BY <1>1, <2>1, NothingIsEmpty DEF TypeOK, PageOK
  <2>3. Work(t) = 2 * Len(todo[t]) + 1 /\ Work(t)' = 2 * Len(todo[t])
    BY <2>1 DEF Work
  <2> QED BY <2>1, <2>2, <2>3 DEF WorkOK, Longest
<1>4. CASE SelectNothing(t) \/ SelectDate(t) \/ LoadCached(t) \/ Load(t)
  <2>1. pc[t] \in {"select", "load"}
    BY <1>4 DEF SelectNothing, SelectDate, LoadCached, Load
  <2>2. \E i : Return(t, i)
    BY <1>4 DEF SelectNothing, SelectDate, LoadCached, Load
  <2>3. Work(t)' \in 1..(Work(t) - 1) /\ pc'[t] # "idle"
    BY <1>1, <2>1, <2>2, ReturnShortens DEF PageOK
  <2> QED BY <1>2, <2>3 DEF WorkOK, Longest
<1>5. CASE LoadUnreadable(t) \/ Render(t)
  <2>1. pc[t] # "idle" /\ EndPage(t)
    BY <1>5 DEF LoadUnreadable, Render
  <2>2. Work(t)' = 0 /\ pc'[t] = "idle"
    BY <1>1, <2>1, EndPageEnds
  <2> QED BY <1>2, <2>1, <2>2 DEF WorkOK, Longest
<1> QED BY <1>3, <1>4, <1>5 DEF Serve

\* What a step does to an open page: nothing, or it ends, or it is nearer to its answer.
PageMoves(t) ==
  pc[t] # "idle" =>
    \/ pc'[t] = pc[t] /\ todo'[t] = todo[t]
    \/ Work(t)' < Work(t)

\* A page somebody opens has at most four reads to make.
LEMMA OpenIsBounded ==
  ASSUME TypeOK, NEW t \in Threads, NEW page \in Pages, Open(t, page)
  PROVE  WorkOK(t)'
<1>1. Len(page) \in 1..4
  BY DEF Pages, Home, CancellationPage, InHousePage, DepositsPage, SettingsPage
<1>2. pc'[t] = "select" /\ todo'[t] = page
  BY DEF TypeOK, Open, Goto
<1>3. Work(t)' = 2 * Len(page) + 1
  BY <1>2 DEF Work
<1>4. Work(t)' \in 0..Longest /\ Work(t)' # 0
  <2> DEFINE reads == Len(page)
  <2> HIDE DEF reads
  <2>1. reads \in 1..4 => 2 * reads + 1 \in 0..9 /\ 2 * reads + 1 # 0
    OBVIOUS
  <2>2. Work(t)' = 2 * reads + 1 /\ reads \in 1..4
    BY <1>1, <1>3 DEF reads
  <2> QED BY <2>1, <2>2 DEF Longest
<1> QED BY <1>2, <1>4 DEF WorkOK

\* A page that no step touches has as much left.
LEMMA StillAsMuch ==
  ASSUME NEW t \in Threads, WorkOK(t), pc'[t] = pc[t], todo'[t] = todo[t]
  PROVE  WorkOK(t)' /\ PageMoves(t)
BY DEF WorkOK, PageMoves, Work

\* A page that ends has nothing left.
LEMMA EndingMoves ==
  ASSUME NEW t \in Threads, WorkOK(t), pc'[t] = "idle"
  PROVE  WorkOK(t)' /\ PageMoves(t)
<1>1. Work(t)' = 0
  BY DEF Work
<1> QED BY <1>1 DEF WorkOK, PageMoves, Longest

LEMMA NextMoves ==
  ASSUME ReaderInv, [Next]_vars, NEW t \in Threads, WorkOK(t)
  PROVE  WorkOK(t)' /\ PageMoves(t) /\ (Serve(t) => Work(t)' < Work(t))
<1>1. TypeOK
  BY DEF ReaderInv
<1>2. Serve(t) => Work(t)' < Work(t)
  BY ServeShortens
<1> SUFFICES WorkOK(t)' /\ PageMoves(t)
  BY <1>2
<1>3. ASSUME UNCHANGED <<pc, todo>> PROVE WorkOK(t)' /\ PageMoves(t)
  BY <1>3, StillAsMuch
<1>4. ASSUME NEW u \in Threads, u # t, Serve(u) \/ Fail(u) \/ \E page \in Pages : Open(u, page)
      PROVE  pc'[t] = pc[t] /\ todo'[t] = todo[t]
  BY <1>1, <1>4 DEF TypeOK, Open, Serve, SelectNothing, SelectDate, Select, LoadCached, Load,
            LoadUnreadable, Render, Fail, EndPage, Return, Goto
<1>5. CASE UNCHANGED vars
  BY <1>3, <1>5 DEF vars, pages
<1>6. CASE \E i \in Files : Start(i) \/ Complete(i) \/ \E k \in Lookups : Write(i, k)
  BY <1>3, <1>6 DEF Start, Complete, Write, pages
<1>7. ASSUME NEW u \in Threads, NEW page \in Pages, Open(u, page)
      PROVE  WorkOK(t)' /\ PageMoves(t)
  <2>1. CASE u = t
    <3>1. pc[t] = "idle"
      BY <1>7, <2>1 DEF Open
    <3> QED BY <1>1, <1>7, <2>1, <3>1, OpenIsBounded DEF PageMoves
  <2>2. CASE u # t
    BY <1>4, <1>7, <2>2, StillAsMuch
  <2> QED BY <2>1, <2>2
<1>8. ASSUME NEW u \in Threads, Serve(u)
      PROVE  WorkOK(t)' /\ PageMoves(t)
  <2>1. CASE u = t
    BY <1>8, <2>1, ServeShortens DEF PageMoves
  <2>2. CASE u # t
    BY <1>4, <1>8, <2>2, StillAsMuch
  <2> QED BY <2>1, <2>2
<1>9. ASSUME NEW u \in Threads, Fail(u)
      PROVE  WorkOK(t)' /\ PageMoves(t)
  <2>1. CASE u = t
    <3>1. pc'[t] = "idle"
      BY <1>1, <1>9, <2>1, EndPageEnds DEF Fail
    <3> QED BY <3>1, EndingMoves
  <2>2. CASE u # t
    BY <1>4, <1>9, <2>2, StillAsMuch
  <2> QED BY <2>1, <2>2
<1>10. ASSUME NEW k \in Keys, Restart(k)  PROVE WorkOK(t)' /\ PageMoves(t)
  BY <1>10, EndingMoves DEF Restart
<1> QED BY <1>5, <1>6, <1>7, <1>8, <1>9, <1>10 DEF Next

WorkInv == \A t \in Threads : WorkOK(t)

LEMMA AlwaysWork == Spec => []WorkInv
<1>1. Init => WorkInv
  BY DEF Init, WorkInv, WorkOK, Work, Longest
<1>2. ReaderInv /\ WorkInv /\ [Next]_vars => WorkInv'
  BY NextMoves DEF WorkInv
<1> QED BY <1>1, <1>2, ReaderInvariant, PTL DEF Spec

\* Every step of a thread brings its page nearer to its answer, and what other threads,
\* the importer or a failure do either leaves an open page as far or ends it: after at
\* most nine steps of its own a page is answered (app.py:178-205, pms.py:154-212).
THEOREM PagesComeNearer ==
  Spec => /\ []WorkInv
          /\ [][\A t \in Threads : PageMoves(t) /\ (Serve(t) => Work(t)' < Work(t))]_vars
<1> DEFINE Moves == \A t \in Threads : PageMoves(t) /\ (Serve(t) => Work(t)' < Work(t))
<1>1. ReaderInv /\ WorkInv /\ [Next]_vars => Moves
  BY NextMoves DEF WorkInv
<1> HIDE DEF Moves
<1>2. Spec => []WorkInv /\ [][Moves]_vars
  BY <1>1, AlwaysWork, ReaderInvariant, PTL DEF Spec
<1> QED BY <1>2 DEF Moves

(***************************************************************************)
(* PageAnswered, from what fairness gives.                                 *)
(***************************************************************************)

Idle(t) == pc[t] = "idle"
OpenFor(t, n) == ~Idle(t) /\ Work(t) <= n

\* A request that has begun goes on: it is not left open for ever without a step.
Runs(t) == [](Idle(t) \/ <>Idle(t) \/ <><<Serve(t)>>_vars)

Safe == ReaderInv /\ WorkInv

LEMMA NextStaysNear ==
  ASSUME NEW t \in Threads, NEW n \in Nat, Safe, [Next]_vars, OpenFor(t, n)
  PROVE  OpenFor(t, n)' \/ Idle(t)'
<1>1. WorkOK(t) /\ WorkOK(t)' /\ PageMoves(t)
  BY NextMoves DEF Safe, WorkInv
<1>2. CASE pc'[t] = pc[t] /\ todo'[t] = todo[t]
  BY <1>2 DEF OpenFor, Idle, Work
<1>3. CASE Work(t)' < Work(t)
  BY <1>1, <1>3 DEF OpenFor, Idle, WorkOK, Longest
<1> QED BY <1>1, <1>2, <1>3 DEF PageMoves, OpenFor, Idle

\* A page whose thread goes on is answered.  The nine steps of the longest page are nine
\* rounds of the same argument.
LEMMA OpenPagesAreAnswered ==
  ASSUME NEW t \in Threads
  PROVE  Spec /\ Runs(t) => (pc[t] # "idle" ~> pc[t] = "idle")
<1>1. Safe /\ [Next]_vars =>
           /\ OpenFor(t, 9) => OpenFor(t, 9)' \/ Idle(t)'
           /\ OpenFor(t, 8) => OpenFor(t, 8)' \/ Idle(t)'
           /\ OpenFor(t, 7) => OpenFor(t, 7)' \/ Idle(t)'
           /\ OpenFor(t, 6) => OpenFor(t, 6)' \/ Idle(t)'
           /\ OpenFor(t, 5) => OpenFor(t, 5)' \/ Idle(t)'
           /\ OpenFor(t, 4) => OpenFor(t, 4)' \/ Idle(t)'
           /\ OpenFor(t, 3) => OpenFor(t, 3)' \/ Idle(t)'
           /\ OpenFor(t, 2) => OpenFor(t, 2)' \/ Idle(t)'
           /\ OpenFor(t, 1) => OpenFor(t, 1)' \/ Idle(t)'
  BY NextStaysNear
<1>2. Safe /\ <<Serve(t)>>_vars =>
           /\ OpenFor(t, 9) => OpenFor(t, 8)' \/ Idle(t)'
           /\ OpenFor(t, 8) => OpenFor(t, 7)' \/ Idle(t)'
           /\ OpenFor(t, 7) => OpenFor(t, 6)' \/ Idle(t)'
           /\ OpenFor(t, 6) => OpenFor(t, 5)' \/ Idle(t)'
           /\ OpenFor(t, 5) => OpenFor(t, 4)' \/ Idle(t)'
           /\ OpenFor(t, 4) => OpenFor(t, 3)' \/ Idle(t)'
           /\ OpenFor(t, 3) => OpenFor(t, 2)' \/ Idle(t)'
           /\ OpenFor(t, 2) => OpenFor(t, 1)' \/ Idle(t)'
           /\ OpenFor(t, 1) => OpenFor(t, 0)' \/ Idle(t)'
  <2>1. ASSUME Safe, Serve(t)
        PROVE  /\ Work(t)' < Work(t) /\ Work(t) \in Nat /\ Work(t)' \in Nat
               /\ Work(t)' = 0 <=> Idle(t)'
    BY <2>1, ServeShortens DEF Safe, WorkInv, WorkOK, Longest, Idle
  <2> QED BY <2>1 DEF OpenFor
<1>3. Safe => ~OpenFor(t, 0) /\ (~Idle(t) => OpenFor(t, 9))
  BY DEF Safe, WorkInv, WorkOK, OpenFor, Idle, Longest
<1>4. Spec => []Safe
  BY ReaderInvariant, AlwaysWork, PTL DEF Safe
<1>5. Spec /\ Runs(t) => (~Idle(t) ~> Idle(t))
  BY <1>1, <1>2, <1>3, <1>4, PTL DEF Spec, Runs
<1>6. (Idle(t) <=> pc[t] = "idle") /\ (~Idle(t) <=> pc[t] # "idle")
  BY DEF Idle
<1> QED BY <1>5, <1>6, PTL

\* The fairness of the specification says that a thread goes on where it can.
CanServe(t) == ENABLED <<Serve(t)>>_vars

LEMMA FairnessRuns ==
  ASSUME NEW t \in Threads
  PROVE  GoesOn(t) /\ [](Idle(t) \/ CanServe(t)) => Runs(t)
<1>1. CanServe(t) => ENABLED <<Serve(t)>>_vars
  BY DEF CanServe
<1> QED BY <1>1, PTL DEF Runs, GoesOn

\* Every page that is opened is answered (app.py:178-205, pms.py:154-212), whatever the
\* importer and the other threads do, before the first report has come too.  That an open
\* page can take a step is a hypothesis here, because it is ENABLED that says so: its
\* guards are NoReadIsStuck.
THEOREM PagesAreAnswered ==
  FairSpec /\ (\A t \in Threads : [](Idle(t) \/ CanServe(t))) => PageAnswered
<1>1. FairSpec => Spec /\ \A t \in Threads : GoesOn(t)
  BY DEF FairSpec
<1>2. \A t \in Threads : GoesOn(t) /\ [](Idle(t) \/ CanServe(t)) => Runs(t)
  BY FairnessRuns
<1>3. \A t \in Threads : Spec /\ Runs(t) => (pc[t] # "idle" ~> pc[t] = "idle")
  BY OpenPagesAreAnswered
<1> QED BY <1>1, <1>2, <1>3 DEF PageAnswered
=============================================================================
