-------------------------- MODULE CancellationCheck --------------------------
(***************************************************************************)
(* CancellationCheck (src/cancellation_logic.py): whether a cancellation   *)
(* came too late, by the rule RuleStore has for its policy when the page   *)
(* evaluates it.                                                           *)
(***************************************************************************)
EXTENDS RuleStore

CONSTANT Cancellations  \* when they came: days as numbers, times in seconds

ASSUME CancellationAssumption ==
  Cancellations \subseteq [arrival : Int, date : Int, time : Nat]

Seconds(cutoff) == cutoff.h * 3600 + cutoff.m * 60

\* The order of datetimes.
After(day1, time1, day2, time2) == day1 > day2 \/ (day1 = day2 /\ time1 > time2)

Deadline(e, c) == c.arrival - (IF e.days = None THEN 0 ELSE e.days)

\* Seeded fault: the cutoff is compared with the time of day alone.
AfterDeadlineByClock(e, c) ==
  \/ c.date > Deadline(e, c)
  \/ e.cutoff # None /\ c.time > Seconds(e.cutoff)

\* Seeded fault: the cutoff is one of the arrival day.
AfterDeadlineOnArrival(e, c) ==
  IF e.cutoff = None THEN c.date > Deadline(e, c)
  ELSE After(c.date, c.time, c.arrival, Seconds(e.cutoff))

\* Without a cutoff the deadline day is free as a whole.
AfterDeadline(e, c) ==
  IF e.cutoff = None THEN c.date > Deadline(e, c)
  ELSE After(c.date, c.time, Deadline(e, c), Seconds(e.cutoff))

IsLate(e, c) == e.configured /\ (e.late = TRUE \/ AfterDeadline(e, c))

\* The rules a page evaluates with, but for those evaluate cannot work with.
RulesInUse ==
  {e \in {RuleOf(p) : p \in UNION {seen[t] : t \in {u \in Threads : pc[u] = "evaluate"}}} :
     ~Raises(e)}
-----------------------------------------------------------------------------
\* c was cancelled with no more notice than d, in days and hours.
NoMoreNotice(c, d) == ~After(d.date - d.arrival, d.time, c.date - c.arrival, c.time)

\* Whoever cancels with less notice is never treated more mildly, by any rule a
\* page ever works with, detected, typed or merged, and whichever of its branches
\* evaluate takes (cancellation_logic.py:71-92).
LessNoticeIsNeverMilder ==
  \A e \in RulesInUse : \A c, d \in Cancellations :
    NoMoreNotice(c, d) /\ IsLate(e, d) => IsLate(e, c)

\* "A cutoff time applies to the deadline day itself, however many days before
\* arrival that falls" (cancellation_logic.py:82-84): it makes a difference on no
\* other day, and there only for those who cancel after it.
CutoffIsOfItsDay ==
  \A e \in RulesInUse : \A c \in Cancellations :
    IsLate(e, c) # IsLate([e EXCEPT !.cutoff = None], c) =>
      c.date = Deadline(e, c) /\ c.time > Seconds(e.cutoff)
=============================================================================
