-------------------------- MODULE FindingRegister --------------------------
(***************************************************************************)
(* What ticking off promises, however many requests the server handles at  *)
(* once: every request takes effect at one instant between the click and   *)
(* its answer, as a write of the whole row, or not at all.  An answer that *)
(* reports success means that it did; after a failure it may have, if only *)
(* the answer was lost.                                                    *)
(***************************************************************************)
CONSTANTS Browsers, Slots, Keys, Prints, None

VARIABLES
  stored,  \* Keys -> the fingerprint that was ticked last and not unticked, or None
  call     \* Browsers -> Slots -> the request that is not answered yet, or None

vars == <<stored, call>>

Call == [key : Keys, print : Prints, handled : BOOLEAN, status : {"open", "applied", "over"}]

Init ==
  /\ stored = [k \in Keys |-> None]
  /\ call = [b \in Browsers |-> [s \in Slots |-> None]]

Is(b, s, status) == call[b][s] # None /\ call[b][s].status = status

Asked(m) == IF m.handled THEN m.print ELSE None

Invoke(b, s, k, f, handled) ==
  /\ call[b][s] = None
  /\ call' = [call EXCEPT ![b][s] =
       [key |-> k, print |-> f, handled |-> handled, status |-> "open"]]
  /\ UNCHANGED stored

\* The one instant.
Apply(b, s) ==
  LET m == call[b][s] IN
  /\ Is(b, s, "open")
  /\ stored' = [stored EXCEPT ![m.key] = Asked(m)]
  /\ call' = [call EXCEPT ![b][s].status = "applied"]

\* The request fails, or its answer is lost.
Break(b, s) ==
  /\ Is(b, s, "open") \/ Is(b, s, "applied")
  /\ call' = [call EXCEPT ![b][s].status = "over"]
  /\ UNCHANGED stored

Return(b, s) ==
  /\ Is(b, s, "applied") \/ Is(b, s, "over")
  /\ call' = [call EXCEPT ![b][s] = None]
  /\ UNCHANGED stored

\* Every step moves one request on.
Next ==
  \E b \in Browsers, s \in Slots : call'[b][s] # call[b][s] /\
    \/ \E k \in Keys, f \in Prints, handled \in BOOLEAN : Invoke(b, s, k, f, handled)
    \/ Apply(b, s) \/ Break(b, s) \/ Return(b, s)

Spec == Init /\ [][Next]_vars
=============================================================================
