\* Two requests at a time, transactions that may fail.
SPECIFICATION Spec
CONSTANTS
  Threads = {t1, t2}
  Policies <- MCPolicies
  FormDays = {2}
  FormTimes <- MCTimes
  MaxDays = 30
  Cancellations <- MCCancellations
  None = None
  DbMayFail = TRUE
INVARIANTS TypeOK UnknownIsNotGuessed LessNoticeIsNeverMilder CutoffIsOfItsDay
PROPERTIES ConfiguredByHandStays ImplementsBook
SYMMETRY Interchangeable
