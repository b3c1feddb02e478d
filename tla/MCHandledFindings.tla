------------------------- MODULE MCHandledFindings -------------------------
(* Instances of HandledFindings.  Slots and fingerprints are interchange-    *)
(* able; no liveness is checked.                                             *)
EXTENDS HandledFindings, TLC

Interchangeable == Permutations(Slots) \cup Permutations(Prints)
=============================================================================
