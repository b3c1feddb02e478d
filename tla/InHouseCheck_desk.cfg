\* One reservation: nothing in the module relates two of them.
SPECIFICATION Spec
CONSTANTS
  Reservations = {r1}
  Payloads <- MCPayloads
  Thresholds <- MCThresholds
  RoomCounts = {1, 2}
  DefaultRooms = 1
  LastDay = 2
  Unparsable = Unparsable
  None = None
INVARIANTS
  TypeOK
  OwingIsListed
  MoreOwedIsNeverMilder
  AllClearIsRight
