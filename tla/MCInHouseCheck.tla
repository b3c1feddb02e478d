--------------------------- MODULE MCInHouseCheck ---------------------------
(* Payloads around every boundary of evaluate: each rung of the ladder for   *)
(* thresholds -2, -1 and 1, one room or two, with and without a failed       *)
(* deposit, arriving today, earlier or later, departing today or not.        *)
EXTENDS InHouseCheck

Stay(from, to, amount, n, f) ==
  [arrival |-> from, departure |-> to, balance |-> amount, rooms |-> n, failed |-> f]

MCPayloads ==
  {Stay(0, 1, amount, 1, f) : amount \in {-1, 0, 1}, f \in BOOLEAN}
  \cup {Stay(1, 2, amount, 2, FALSE) : amount \in {-2, 0, 2}}
  \cup {Stay(1, 2, amount, 1, TRUE) : amount \in {-2, 0, None}}
  \cup {Stay(1, 1, 0, 2, TRUE)}

MCThresholds == {-2, -1, 1}
=============================================================================
