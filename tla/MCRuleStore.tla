---------------------------- MODULE MCRuleStore ----------------------------
(* Policy texts, form values and cancellations for TLC.                    *)
EXTENDS CancellationCheck, TLC

\* A text with a deadline and no cutoff, and one no pattern matches.
DayBefore == [kind |-> "firstNight", days |-> 1]
Unmatched == [kind |-> "other"]
MCPolicies == {DayBefore, Unmatched}

\* A text that is right and one whose hour is on the wrong clock.
Week == [kind |-> "firstNight", days |-> 7]
EighteenPM == [kind |-> "doa", hour |-> 18, minute |-> 0, pm |-> TRUE]
OddPolicies == {Week, EighteenPM}

\* Whoever edits the rule types a cutoff; a rule nobody edited has none.
MCTimes == {[h |-> 18, m |-> 0]}

\* From three days before arrival to the day itself, up to 18:00 and after.
MCCancellations == [arrival : {3}, date : 0..3, time : {0, 64800, 64801}]

\* Nothing tells one thread from another.
Interchangeable == Permutations(Threads)
=============================================================================
