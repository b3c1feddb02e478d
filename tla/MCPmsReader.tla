---------------------------- MODULE MCPmsReader ----------------------------
(* The reports of two days, in any order, the first day's uploaded twice;  *)
(* two histories of events, of which the second replaces one and adds one, *)
(* encrypted for a new key.                                                *)
EXTENDS PmsReader

CONSTANTS day1, day1again, day2, history1, history2, r1, r2, oldKey, newKey

MCFiles == {day1, day1again, day2, history1, history2}
MCLookups == {r1, r2}
MCKeys == {oldKey, newKey}

InHouse(date, rows) == [type |-> "inhouse", date |-> date, rows |-> rows, key |-> oldKey]
History(rows, k) == [type |-> "cancellation", date |-> 0, rows |-> rows, key |-> k]

MCUpload == [i \in MCFiles |->
  CASE i = day1 -> InHouse(1, {r1})
    [] i = day1again -> InHouse(1, {r2})
    [] i = day2 -> InHouse(2, {r1})
    [] i = history1 -> History({r1}, oldKey)
    [] i = history2 -> History({r1, r2}, newKey)]
=============================================================================
