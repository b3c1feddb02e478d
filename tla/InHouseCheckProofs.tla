------------------------- MODULE InHouseCheckProofs -------------------------
(***************************************************************************)
(* What holds of InHouseCheck for every set of reservations, every payload *)
(* a report may carry and every threshold.                                 *)
(*                                                                         *)
(* The first two properties follow from the types alone, once the rank of  *)
(* a payload is written as a function of its balance (RankOf).  The third  *)
(* needs to know that the dashboard's counts are still current while       *)
(* nothing has moved under them.                                           *)
(***************************************************************************)
EXTENDS InHouseCheck, TLAPS

\* The dashboard's two reads agree with the state, as long as nothing moves.
CountsAreCurrent ==
  calm => /\ home.step # "closed" => home.flagged = FlaggedOpen
          /\ home.step = "shown" => home.deposits = DepositsOpen

DeskInv == TypeOK /\ CountsAreCurrent

\* The queues are made of reservations.
LEMMA QueuesType ==
  /\ FlaggedOpen \subseteq Reservations /\ DepositsOpen \subseteq Reservations
  /\ \A r \in Reservations : r \in InHouseQueue \cup DepositQueue => report[r] # None
BY DEF FlaggedOpen, DepositsOpen, InHouseQueue, DepositQueue, Loaded

\* What evaluate makes of a balance, a threshold and a number of rooms
\* (inhouse_logic.py:86-123).
LEMMA RankOf ==
  ASSUME NEW p \in Payload, p.balance \in Int, threshold \in Int, maxRooms \in Nat
  PROVE  Rank(p) = IF p.failed \/ p.balance > 0 THEN 2
                   ELSE IF Settled(p) THEN -1
                   ELSE IF p.balance = 0 \/ p.balance > threshold THEN 1
                   ELSE IF p.rooms > maxRooms THEN 0 ELSE -1
<1>1. p.balance \in Int /\ p.rooms \in Nat /\ p.failed \in BOOLEAN
  BY DEF Payload
<1>2. CASE p.failed
  <2>1. "deposit" \in Reasons(p)
    BY <1>2 DEF Reasons
  <2> QED BY <1>2, <2>1 DEF Rank
<1>3. CASE ~p.failed /\ p.balance > 0
  <2>1. ~Settled(p)
    BY <1>1, <1>3 DEF Settled
  <2>2. "positive" \in Reasons(p)
    BY <1>3, <2>1 DEF Reasons, BalanceReason
  <2> QED BY <1>3, <2>2 DEF Rank
<1>4. CASE ~p.failed /\ ~(p.balance > 0) /\ Settled(p)
  <2>1. Reasons(p) = {}
    BY <1>4 DEF Reasons
  <2> QED BY <1>4, <2>1 DEF Rank
<1>5. CASE ~p.failed /\ ~(p.balance > 0) /\ ~Settled(p)
  <2> DEFINE many == IF p.rooms > maxRooms THEN {"rooms"} ELSE {}
  <2>1. Reasons(p) = BalanceReason(p) \cup many
    BY <1>5 DEF Reasons
  <2>2. BalanceReason(p) = IF p.balance = 0 THEN {"zero"}
                           ELSE IF p.balance > threshold THEN {"low"} ELSE {}
    BY <1>5 DEF BalanceReason
  <2>3. CASE p.balance = 0 \/ p.balance > threshold
    <3>1. Reasons(p) \cap {"zero", "low"} # {} /\ Reasons(p) \cap {"deposit", "positive"} = {}
      BY <2>1, <2>2, <2>3
    <3> QED BY <1>5, <2>3, <3>1 DEF Rank
  <2>4. CASE ~(p.balance = 0 \/ p.balance > threshold)
    <3>1. Reasons(p) = many
      BY <2>1, <2>2, <2>4
    <3> QED BY <1>5, <2>4, <3>1 DEF Rank
  <2> QED BY <2>3, <2>4
<1> QED BY <1>1, <1>2, <1>3, <1>4, <1>5

\* What TypeOK says of a reservation that is loaded.
LEMMA LoadedType ==
  ASSUME TypeOK, NEW r \in Loaded
  PROVE  /\ report[r] \in Payload /\ report[r].balance \in Int
         /\ threshold \in Int /\ maxRooms \in Nat
<1>1. report[r] \in Payloads /\ report[r].balance # None
  BY DEF TypeOK, Loaded
<1> QED BY <1>1, InHouseAssumptions DEF TypeOK, Payload

\* A payload with more to pay is a payload.
LEMMA MoreType ==
  ASSUME NEW p \in Payload, NEW q \in Payload
  PROVE  LET more == [p EXCEPT !.balance = q.balance] IN
         /\ more \in Payload /\ more.balance = q.balance
         /\ more.failed = p.failed /\ more.rooms = p.rooms
BY DEF Payload

(***************************************************************************)
(* The invariant.                                                          *)
(***************************************************************************)

\* The dashboard is closed at first.
LEMMA InitDeskInv == Init => DeskInv
<1> SUFFICES ASSUME Init PROVE DeskInv
  OBVIOUS
<1>1. TypeOK
  BY InHouseAssumptions DEF Init, TypeOK, NoHome
<1>2. CountsAreCurrent
  BY DEF Init, CountsAreCurrent, NoHome
<1> QED BY <1>1, <1>2 DEF DeskInv

\* Whatever moves behind the pages, the dashboard is calm no more.
LEMMA MovesKeep ==
  ASSUME DeskInv,
         \/ NextDay
         \/ \E r \in Reservations, p \in Payloads \cup {None} : Import(r, p)
         \/ \E x \in Thresholds : MoveThreshold(x)
         \/ \E x \in RoomCounts \cup {Unparsable} : UpdateRoomsThreshold(x)
         \/ \E check \in Checks, r \in Reservations : Toggle(check, r)
  PROVE  DeskInv'
<1>1. TypeOK
  BY DEF DeskInv
<1>2. CountsAreCurrent'
  BY DEF CountsAreCurrent, NextDay, Import, MoveThreshold, UpdateRoomsThreshold, Toggle
<1>3. CASE NextDay
  <2>1. today' \in 0..LastDay
    BY <1>1, <1>3, InHouseAssumptions DEF TypeOK, NextDay
  <2> QED BY <1>1, <1>2, <1>3, <2>1 DEF DeskInv, TypeOK, NextDay
<1>4. ASSUME NEW r \in Reservations, NEW p \in Payloads \cup {None}, Import(r, p)
      PROVE  DeskInv'
  BY <1>1, <1>2, <1>4 DEF DeskInv, TypeOK, Import
<1>5. ASSUME NEW x \in Thresholds, MoveThreshold(x)  PROVE DeskInv'
  BY <1>1, <1>2, <1>5 DEF DeskInv, TypeOK, MoveThreshold
<1>6. ASSUME NEW x \in RoomCounts \cup {Unparsable}, UpdateRoomsThreshold(x)
      PROVE  DeskInv'
  BY <1>1, <1>2, <1>6 DEF DeskInv, TypeOK, UpdateRoomsThreshold, Parsed
<1>7. ASSUME NEW check \in Checks, NEW r \in Reservations, Toggle(check, r)
      PROVE  DeskInv'
  <2> DEFINE tick == IF IsDone(check, r) THEN None ELSE report[r]
  <2>1. tick \in Payloads \cup {None}
    BY <1>1 DEF TypeOK
  <2>2. done' = [done EXCEPT ![check] = [done[check] EXCEPT ![r] = tick]]
    BY <1>7 DEF Toggle
  <2> HIDE DEF tick
  <2>3. done' \in [Checks -> [Reservations -> Payloads \cup {None}]]
    BY <1>1, <2>1, <2>2 DEF TypeOK
  <2> QED BY <1>1, <1>2, <1>7, <2>3 DEF DeskInv, TypeOK, Toggle
<1> QED BY <1>3, <1>4, <1>5, <1>6, <1>7

\* The first read counts what is open now; the second leaves that count alone.
LEMMA HomeKeeps ==
  ASSUME DeskInv, LoadInHouse \/ LoadDeposits
  PROVE  DeskInv'
<1>1. TypeOK
  BY DEF DeskInv
<1>2. FlaggedOpen' = FlaggedOpen /\ DepositsOpen' = DepositsOpen
  BY DEF FlaggedOpen, DepositsOpen, InHouseQueue, DepositQueue, Loaded, IsDone, Reasons,
         Settled, BalanceReason, LoadInHouse, LoadDeposits
<1>3. CASE LoadInHouse
  <2>1. TypeOK'
    BY <1>1, <1>3, QueuesType DEF TypeOK, LoadInHouse
  <2>2. CountsAreCurrent'
    BY <1>2, <1>3 DEF CountsAreCurrent, LoadInHouse
  <2> QED BY <2>1, <2>2 DEF DeskInv
<1>4. CASE LoadDeposits
  <2>1. home' = [home EXCEPT !.step = "shown", !.deposits = DepositsOpen]
    BY <1>4 DEF LoadDeposits
  <2>2. home'.step = "shown" /\ home'.deposits = DepositsOpen /\ home'.flagged = home.flagged
    BY <1>1, <2>1 DEF TypeOK
  <2>3. TypeOK'
    BY <1>1, <1>4, <2>1, QueuesType DEF TypeOK, LoadDeposits
  <2>4. CountsAreCurrent'
    BY <1>2, <1>4, <2>2 DEF DeskInv, CountsAreCurrent, LoadDeposits
  <2> QED BY <2>3, <2>4 DEF DeskInv
<1> QED BY <1>3, <1>4

\* Every step keeps the invariant.
LEMMA NextDeskInv == DeskInv /\ [Next]_vars => DeskInv'
<1> SUFFICES ASSUME DeskInv, [Next]_vars PROVE DeskInv'
  OBVIOUS
<1>1. CASE LoadInHouse \/ LoadDeposits
  BY <1>1, HomeKeeps
<1>2. CASE Next /\ ~(LoadInHouse \/ LoadDeposits)
  BY <1>2, MovesKeep DEF Next
<1>3. CASE UNCHANGED vars
  <2>1. FlaggedOpen' = FlaggedOpen /\ DepositsOpen' = DepositsOpen
    BY <1>3 DEF FlaggedOpen, DepositsOpen, InHouseQueue, DepositQueue, Loaded, IsDone,
               Reasons, Settled, BalanceReason, vars
  <2>2. TypeOK'
    BY <1>3 DEF DeskInv, TypeOK, vars
  <2>3. CountsAreCurrent'
    BY <1>3, <2>1 DEF DeskInv, CountsAreCurrent, vars
  <2> QED BY <2>2, <2>3 DEF DeskInv
<1> QED BY <1>1, <1>2, <1>3

\* The invariant holds always.
LEMMA AlwaysDeskInv == Spec => []DeskInv
  BY InitDeskInv, NextDeskInv, PTL DEF Spec

(***************************************************************************)
(* The theorems.                                                           *)
(***************************************************************************)

\* Every variable keeps its type: in particular the rooms threshold is a number
\* whatever is typed (app.py:66-84, 492-496).
THEOREM TypeCorrect == Spec => []TypeOK
<1>1. DeskInv => TypeOK
  BY DEF DeskInv
<1> QED BY <1>1, AlwaysDeskInv, PTL

\* A guest who owes money is listed in the In-House Check with the worst severity
\* (inhouse_logic.py:86-138), under any threshold, on any day, with any deposit.
THEOREM OwingGuestsAreListed == Spec => []OwingIsListed
<1>1. ASSUME DeskInv PROVE OwingIsListed
  <2> SUFFICES ASSUME NEW r \in Loaded, report[r].balance > 0
               PROVE  r \in InHouseQueue /\ Rank(report[r]) = 2
    BY DEF OwingIsListed
  <2>1. /\ report[r] \in Payload /\ report[r].balance \in Int
        /\ threshold \in Int /\ maxRooms \in Nat
    BY <1>1, LoadedType DEF DeskInv
  <2>2. Rank(report[r]) = 2
    BY <2>1, RankOf
  <2>3. ~Settled(report[r])
    BY <2>1 DEF Settled
  <2>4. "positive" \in Reasons(report[r])
    BY <2>3 DEF Reasons, BalanceReason
  <2> QED BY <2>2, <2>4 DEF InHouseQueue
<1> QED BY <1>1, AlwaysDeskInv, PTL

\* Of two reservations that differ in what is owed, the one that owes more is never
\* flagged more mildly (inhouse_logic.py:15, 96-123), whatever the sign of the
\* threshold: only the zero balance of a departing guest is exempt.
THEOREM LadderIsMonotone == Spec => []MoreOwedIsNeverMilder
<1>1. ASSUME DeskInv PROVE MoreOwedIsNeverMilder
  <2> DEFINE more(r, q) == [report[r] EXCEPT !.balance = q.balance]
  <2> SUFFICES ASSUME NEW r \in Loaded, NEW q \in Payloads, q.balance # None,
                      q.balance >= report[r].balance, ~Settled(more(r, q))
               PROVE  Rank(more(r, q)) >= Rank(report[r])
    BY DEF MoreOwedIsNeverMilder
  <2> DEFINE p == report[r]
             m == more(r, q)
  <2>1. p \in Payload /\ p.balance \in Int /\ threshold \in Int /\ maxRooms \in Nat
    BY <1>1, LoadedType DEF DeskInv
  <2>2. q \in Payload /\ q.balance \in Int
    BY InHouseAssumptions DEF Payload
  <2>3. /\ m \in Payload /\ m.balance = q.balance /\ m.failed = p.failed /\ m.rooms = p.rooms
    BY <2>1, <2>2, MoreType
  <2>4. ~Settled(m) /\ m.balance >= p.balance
    BY <2>3
  <2> HIDE DEF p, m
  <2>5. Rank(m) = IF p.failed \/ m.balance > 0 THEN 2
                  ELSE IF m.balance = 0 \/ m.balance > threshold THEN 1
                  ELSE IF p.rooms > maxRooms THEN 0 ELSE -1
    BY <2>1, <2>2, <2>3, <2>4, RankOf
  <2>6. Rank(p) = IF p.failed \/ p.balance > 0 THEN 2
                  ELSE IF Settled(p) THEN -1
                  ELSE IF p.balance = 0 \/ p.balance > threshold THEN 1
                  ELSE IF p.rooms > maxRooms THEN 0 ELSE -1
    BY <2>1, RankOf
  <2>7. p.rooms \in Nat /\ m.balance \in Int
    BY <2>1, <2>2, <2>3 DEF Payload
  <2>8. Rank(m) >= Rank(p)
    BY <2>1, <2>4, <2>5, <2>6, <2>7
  <2> QED BY <2>8 DEF m, p
<1> QED BY <1>1, AlwaysDeskInv, PTL

\* A dashboard that shows nothing to do, and under which nothing moved, is right
\* (app.py:178-216): the two queues leave no gap before a reservation arrives.
THEOREM AllClearIsTrue == Spec => []AllClearIsRight
<1>1. ASSUME DeskInv PROVE AllClearIsRight
  <2> SUFFICES ASSUME home.step = "shown", calm, home.flagged = {}, home.deposits = {},
                      NEW r \in Loaded, report[r].arrival >= today
               PROVE  /\ "deposit" \in Reasons(report[r]) => IsDone("failed_deposit", r)
                      /\ Reasons(report[r]) \ {"deposit"} # {} => IsDone("inhouse", r)
    BY DEF AllClearIsRight
  <2>1. FlaggedOpen = {} /\ DepositsOpen = {}
    BY <1>1 DEF DeskInv, CountsAreCurrent
  <2>2. "deposit" \in Reasons(report[r]) => report[r].failed
    BY DEF Reasons, BalanceReason
  <2>3. "deposit" \in Reasons(report[r]) => IsDone("failed_deposit", r)
    BY <2>1, <2>2 DEF DepositsOpen, DepositQueue
  <2>4. Reasons(report[r]) \ {"deposit"} # {} => IsDone("inhouse", r)
    BY <2>1 DEF FlaggedOpen, InHouseQueue
  <2> QED BY <2>3, <2>4
<1> QED BY <1>1, AlwaysDeskInv, PTL

\* The day of arrival is past, and nothing but the deposit is wrong.
DepositIsLost(p) ==
  /\ p.failed /\ p.arrival < today
  /\ Settled(p) \/ (p.balance < 0 /\ p.balance <= threshold /\ p.rooms <= maxRooms)

\* Which failed deposits no page lists (inhouse_logic.py:86-123, 133-138,
\* app.py:154-165): once the day of arrival is past, those of reservations whose account
\* is in order, to the last one and no others.  FailedDepositIsQueued expects none.
THEOREM LostDeposits ==
  Spec => [](\A r \in Loaded :
    report[r].failed => (r \notin InHouseQueue \cup DepositQueue <=> DepositIsLost(report[r])))
<1> DEFINE Lost == \A r \in Loaded :
      report[r].failed => (r \notin InHouseQueue \cup DepositQueue <=> DepositIsLost(report[r]))
<1>1. ASSUME DeskInv PROVE Lost
  <2> SUFFICES ASSUME NEW r \in Loaded, report[r].failed
      PROVE  r \notin InHouseQueue \cup DepositQueue <=> DepositIsLost(report[r])
    OBVIOUS
  <2> DEFINE p == report[r]
  <2>1. /\ p \in Payload /\ p.balance \in Int /\ p.arrival \in Int /\ p.rooms \in Nat
        /\ threshold \in Int /\ maxRooms \in Nat /\ today \in Int
    BY <1>1, LoadedType DEF DeskInv, TypeOK, Payload
  <2>2. r \in DepositQueue <=> p.arrival >= today
    BY DEF DepositQueue
  <2>3. r \in InHouseQueue <=> Reasons(p) # {"deposit"}
    BY DEF InHouseQueue
  <2> HIDE DEF p
  <2>4. Settled(p) => Reasons(p) = {"deposit"}
    BY DEF Reasons, p
  <2>5. ASSUME ~Settled(p)
        PROVE  Reasons(p) = {"deposit"}
                 <=> p.balance < 0 /\ p.balance <= threshold /\ p.rooms <= maxRooms
    <3>1. Reasons(p) = {"deposit"} \cup BalanceReason(p)
                         \cup (IF p.rooms > maxRooms THEN {"rooms"} ELSE {})
      BY <2>5 DEF Reasons, p
    <3>2. BalanceReason(p) = IF p.balance > 0 THEN {"positive"}
                             ELSE IF p.balance = 0 THEN {"zero"}
                             ELSE IF p.balance > threshold THEN {"low"} ELSE {}
      BY DEF BalanceReason
    <3>3. BalanceReason(p) = {} <=> p.balance < 0 /\ p.balance <= threshold
      BY <2>1, <3>2
    <3>4. "deposit" \notin BalanceReason(p) \cup {"rooms"}
      BY <3>2
    <3>5. p.rooms > maxRooms <=> ~(p.rooms <= maxRooms)
      BY <2>1
    <3> QED BY <3>1, <3>3, <3>4, <3>5
  <2>6. p.failed
    BY DEF p
  <2>7. p.arrival >= today <=> ~(p.arrival < today)
    BY <2>1
  <2>8. Reasons(p) = {"deposit"}
          <=> Settled(p) \/ (p.balance < 0 /\ p.balance <= threshold /\ p.rooms <= maxRooms)
    BY <2>4, <2>5
  <2>9. r \notin InHouseQueue \cup DepositQueue <=> DepositIsLost(p)
    BY <2>2, <2>3, <2>6, <2>7, <2>8 DEF DepositIsLost
  <2> QED BY <2>9 DEF p
<1> HIDE DEF Lost
<1>2. Spec => []Lost
  BY <1>1, AlwaysDeskInv, PTL
<1> QED BY <1>2 DEF Lost
=============================================================================
