---------------------------- MODULE InHouseCheck ----------------------------
(***************************************************************************)
(* The in-house check (src/inhouse_logic.py): which reservations of the    *)
(* in-house report need a closer look, how badly, and in which of its two  *)
(* queues, the In-House Check or the Failed Deposits page, they are        *)
(* listed; and the dashboard (home, src/app.py:178-216), which reads the   *)
(* two queues one after the other and shows how much of them is open.      *)
(*                                                                         *)
(* Behind the pages the calendar and the report move on, the thresholds    *)
(* are edited and findings are ticked off.  The reservations are of one    *)
(* hotel: threshold is what get_threshold answers for it (BalanceRules).   *)
(***************************************************************************)
EXTENDS Integers, FiniteSets

CONSTANTS
  Reservations,  \* entity_lookup
  Payloads,      \* records of a report: see Payload
  Thresholds,    \* balance thresholds, negative while a credit is asked for
  RoomCounts,    \* thresholds of the number of rooms
  DefaultRooms,  \* DEFAULT_ROOMS_THRESHOLD
  LastDay,       \* bound: the days are 0..LastDay
  Unparsable,    \* a threshold field that is no number
  None           \* no record, no tick, no flag

\* balance None: a payload load_inhouse_reservations skips (lines 157-162, 204).
Payload == [arrival : Int, departure : Int, balance : Int \cup {None}, rooms : Nat,
            failed : BOOLEAN]

ASSUME InHouseAssumptions ==
  /\ Payloads \subseteq Payload
  /\ \A p \in Payloads : p.arrival <= p.departure
  /\ None \notin Payloads \cup Int
  /\ Thresholds \subseteq Int /\ DefaultRooms \in RoomCounts /\ RoomCounts \subseteq Nat
  /\ LastDay \in Nat

VARIABLES
  today,      \* date.today()
  report,     \* Reservations -> its payload in the current snapshot, or None
  threshold,  \* the balance threshold of the hotel
  maxRooms,   \* the rooms threshold in app_settings
  done,       \* check type -> Reservations -> the payload that was ticked, or None
  home,       \* the dashboard: what it has counted so far
  calm        \* nothing has changed since the dashboard was opened (not in the code)

vars == <<today, report, threshold, maxRooms, done, home, calm>>

Checks == {"inhouse", "failed_deposit"}
NoHome == [step |-> "closed", flagged |-> {}, deposits |-> {}]

TypeOK ==
  /\ today \in 0..LastDay
  /\ report \in [Reservations -> Payloads \cup {None}]
  /\ threshold \in Thresholds
  /\ maxRooms \in RoomCounts
  /\ done \in [Checks -> [Reservations -> Payloads \cup {None}]]
  /\ home \in [step : {"closed", "deposits", "shown"},
               flagged : SUBSET Reservations, deposits : SUBSET Reservations]
  /\ calm \in BOOLEAN

Init ==
  /\ today = 0
  /\ report = [r \in Reservations |-> None]
  /\ threshold \in Thresholds
  /\ maxRooms = DefaultRooms
  /\ done = [c \in Checks |-> [r \in Reservations |-> None]]
  /\ home = NoHome
  /\ calm = TRUE
-----------------------------------------------------------------------------
(* evaluate.                                                               *)

\* Seeded fault: nobody who departs today is looked at any more.
SettledByDate(p) == p.departure = today

\* On the day the guest departs, a zero balance is the expected one.
Settled(p) == p.departure = today /\ p.balance = 0

\* Seeded fault: the ladder starts at its lowest rung.
BalanceReasonFromBelow(p) ==
  IF p.balance > threshold THEN {"low"}
  ELSE IF p.balance > 0 THEN {"positive"}
  ELSE IF p.balance = 0 THEN {"zero"} ELSE {}

\* The most specific rung of the ladder.
BalanceReason(p) ==
  IF p.balance > 0 THEN {"positive"}
  ELSE IF p.balance = 0 THEN {"zero"}
  ELSE IF p.balance > threshold THEN {"low"} ELSE {}

\* flag_reasons.
Reasons(p) ==
  (IF p.failed THEN {"deposit"} ELSE {})
  \cup IF Settled(p) THEN {}
       ELSE BalanceReason(p) \cup (IF p.rooms > maxRooms THEN {"rooms"} ELSE {})

\* _SEVERITY_RANK of the worst reason; -1: no severity.
Rank(p) ==
  IF Reasons(p) \cap {"deposit", "positive"} # {} THEN 2
  ELSE IF Reasons(p) \cap {"zero", "low"} # {} THEN 1
  ELSE IF Reasons(p) # {} THEN 0 ELSE -1

\* The reservations load_inhouse_reservations returns.
Loaded == {r \in Reservations : report[r] # None /\ report[r].balance # None}

\* appears_in_inhouse_check: deposit-only work is left to its own queue.
InHouseQueue == {r \in Loaded : report[r].failed => Reasons(report[r]) # {"deposit"}}

\* Seeded fault: who arrives today is past already.
DepositQueueTomorrow == {r \in Loaded : report[r].failed /\ report[r].arrival > today}

DepositQueue == {r \in Loaded : report[r].failed /\ report[r].arrival >= today}

IsDone(check, r) == report[r] # None /\ done[check][r] = report[r]

FlaggedOpen == {r \in InHouseQueue : Reasons(report[r]) # {} /\ ~IsDone("inhouse", r)}
DepositsOpen == {r \in DepositQueue : ~IsDone("failed_deposit", r)}
-----------------------------------------------------------------------------
(* What moves behind the pages.                                            *)

NextDay ==
  /\ today < LastDay
  /\ today' = today + 1
  /\ calm' = FALSE
  /\ UNCHANGED <<report, threshold, maxRooms, done, home>>

\* A new snapshot, seen as the change of one reservation.
Import(r, p) ==
  /\ report' = [report EXCEPT ![r] = p]
  /\ calm' = FALSE
  /\ UNCHANGED <<today, threshold, maxRooms, done, home>>

\* Any edit of the rules that moves what get_threshold answers for the hotel.
MoveThreshold(x) ==
  /\ x # threshold
  /\ threshold' = x
  /\ calm' = FALSE
  /\ UNCHANGED <<today, report, maxRooms, done, home>>

\* Seeded fault: the field is stored as it was typed.
ParsedRaw(x) == x

\* _parse_threshold
Parsed(x) == IF x = Unparsable THEN maxRooms ELSE x

\* update_rooms_threshold
UpdateRoomsThreshold(x) ==
  /\ maxRooms' = Parsed(x)
  /\ calm' = FALSE
  /\ UNCHANGED <<today, report, threshold, done, home>>

\* A page shows a box for every row of its queue; set_handled follows the click.
Toggle(check, r) ==
  /\ r \in IF check = "inhouse" THEN InHouseQueue ELSE DepositQueue
  /\ done' = [done EXCEPT ![check][r] = IF IsDone(check, r) THEN None ELSE report[r]]
  /\ calm' = FALSE
  /\ UNCHANGED <<today, report, threshold, maxRooms, home>>
-----------------------------------------------------------------------------
(* home: get_all_inhouse_reservations, then get_all_failed_deposits, which  *)
(* loads the report and evaluates it once more.                            *)

LoadInHouse ==
  /\ home.step # "deposits"
  /\ home' = [step |-> "deposits", flagged |-> FlaggedOpen, deposits |-> {}]
  /\ calm' = TRUE
  /\ UNCHANGED <<today, report, threshold, maxRooms, done>>

LoadDeposits ==
  /\ home.step = "deposits"
  /\ home' = [home EXCEPT !.step = "shown", !.deposits = DepositsOpen]
  /\ UNCHANGED <<today, report, threshold, maxRooms, done, calm>>

Next ==
  \/ NextDay
  \/ \E r \in Reservations, p \in Payloads \cup {None} : Import(r, p)
  \/ \E x \in Thresholds : MoveThreshold(x)
  \/ \E x \in RoomCounts \cup {Unparsable} : UpdateRoomsThreshold(x)
  \/ \E check \in Checks, r \in Reservations : Toggle(check, r)
  \/ LoadInHouse \/ LoadDeposits

Spec == Init /\ [][Next]_vars
-----------------------------------------------------------------------------
\* A guest who owes money is listed in the In-House Check with the worst severity,
\* on the day of departure too and whatever became of the deposit
\* (inhouse_logic.py:16-22, 96-99).
OwingIsListed ==
  \A r \in Loaded : report[r].balance > 0 => r \in InHouseQueue /\ Rank(report[r]) = 2

\* "a severity ladder" (inhouse_logic.py:15): whatever the threshold is, also a
\* positive one, the same reservation with more to pay is never flagged more mildly,
\* except for the settled one.
MoreOwedIsNeverMilder ==
  \A r \in Loaded, q \in Payloads :
    LET p == report[r]
        more == [p EXCEPT !.balance = q.balance] IN
    q.balance # None /\ q.balance >= p.balance /\ ~Settled(more) => Rank(more) >= Rank(p)

\* A dashboard that shows nothing to do, and under which nothing moved, is right:
\* of every flagged reservation that has not arrived yet, the failed deposit was
\* ticked off in its queue and everything else in the other one.  It takes the two
\* queues, their two kinds of ticks and appears_in_inhouse_check to fit together.
AllClearIsRight ==
  home.step = "shown" /\ calm /\ home.flagged = {} /\ home.deposits = {} =>
    \A r \in Loaded :
      LET reasons == Reasons(report[r]) IN
      report[r].arrival >= today =>
        /\ "deposit" \in reasons => IsDone("failed_deposit", r)
        /\ reasons \ {"deposit"} # {} => IsDone("inhouse", r)
-----------------------------------------------------------------------------
\* "a failed deposit remains actionable even on the departure day"
\* (inhouse_logic.py:97-98): a reservation with a failed deposit is in a queue.  It
\* is not: see README.md.
FailedDepositIsQueued ==
  \A r \in Loaded : report[r].failed => r \in InHouseQueue \cup DepositQueue
=============================================================================
