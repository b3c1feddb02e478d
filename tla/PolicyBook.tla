----------------------------- MODULE PolicyBook -----------------------------
(***************************************************************************)
(* What RuleStore promises (README.md:70-76, rules_store.py:133-176),      *)
(* however many requests it serves at once: one book of what the policy    *)
(* texts mean.  A text gets the meaning detected in it when a page first   *)
(* sees it, all new texts of a page at one instant, and keeps it until     *)
(* somebody's hand writes another.  The first hand writes a whole rule; of *)
(* later ones that overlap, each writes the columns it changes.            *)
(***************************************************************************)
CONSTANTS Threads, Policies, Edits, Meaning, None

VARIABLES
  rules,    \* Policies -> what the text means, None: no page has seen it
  reports,  \* Threads -> the texts of the report a page reads
  posts,    \* Threads -> the Settings post that is not answered yet, or None
  shown     \* the policies a Settings page has shown

vars == <<rules, reports, posts, shown>>

Post == [policy : Policies, edit : Edits, written : BOOLEAN]

Init ==
  /\ rules = [p \in Policies |-> None]
  /\ reports = [t \in Threads |-> {}]
  /\ posts = [t \in Threads |-> None]
  /\ shown = {}

Written == {p \in Policies : rules[p] # None}

Open(t, ps) ==
  /\ reports' = [reports EXCEPT ![t] = ps]
  /\ UNCHANGED <<rules, posts, shown>>

Learn(t) ==
  /\ rules' = [p \in Policies |-> IF p \in reports[t] \ Written THEN Meaning[p] ELSE rules[p]]
  /\ UNCHANGED <<reports, posts, shown>>

\* A page is answered when the book has every text of its report, and shows no other.
Answer(t) ==
  /\ reports[t] \subseteq Written
  /\ \E ps \in SUBSET Written : shown' = shown \cup ps
  /\ reports' = [reports EXCEPT ![t] = {}]
  /\ UNCHANGED <<rules, posts>>

Ask(t, p, edit) ==
  /\ posts[t] = None
  /\ p \in shown
  /\ posts' = [posts EXCEPT ![t] = [policy |-> p, edit |-> edit, written |-> FALSE]]
  /\ UNCHANGED <<rules, reports, shown>>

\* What a form says: a rule that is always late has neither days nor a cutoff.
ByHand(edit) ==
  [fee |-> edit.fee, late |-> edit.late,
   days |-> IF edit.late THEN None ELSE edit.days,
   cutoff |-> IF edit.late THEN None ELSE edit.cutoff,
   configured |-> TRUE, src |-> "manual"]

Merged(rule, hand, columns) == [f \in DOMAIN hand |-> IF f \in columns THEN hand[f] ELSE rule[f]]

\* The one instant of a post.
Write(t) ==
  LET p == posts[t].policy
      hand == ByHand(posts[t].edit) IN
  /\ posts[t] # None /\ ~posts[t].written
  /\ posts' = [posts EXCEPT ![t].written = TRUE]
  /\ p \in Written
  /\ \E columns \in SUBSET DOMAIN hand :
       /\ rules[p].src = "auto" => columns = DOMAIN hand
       /\ rules' = [rules EXCEPT ![p] = Merged(rules[p], hand, columns)]
  /\ UNCHANGED <<reports, shown>>

\* A post is answered, a request fails, or all of them end with the process.
End(ts) ==
  /\ reports' = [t \in Threads |-> IF t \in ts THEN {} ELSE reports[t]]
  /\ posts' = [t \in Threads |-> IF t \in ts THEN None ELSE posts[t]]
  /\ UNCHANGED <<rules, shown>>

Step ==
  \/ \E t \in Threads :
       \/ \E ps \in SUBSET Policies : Open(t, ps)
       \/ Learn(t) \/ Answer(t) \/ Write(t)
       \/ \E p \in Policies, edit \in Edits : Ask(t, p, edit)
  \/ \E ts \in SUBSET Threads : End(ts)

\* What changes nothing is no step.
Next == vars' # vars /\ Step

Spec == Init /\ [][Next]_vars
=============================================================================
