SPECIFICATION Spec
CONSTANTS
  Reservations = {r1}
  Payloads <- MCPayloads
  Thresholds <- MCThresholds
  RoomCounts = {1, 2}
  DefaultRooms = 1
  LastDay = 2
  Unparsable = Unparsable
  None = None
INVARIANT FailedDepositIsQueued
