\* A number of days no calendar has.
SPECIFICATION Spec
CONSTANTS
  Threads = {t1}
  Policies <- OddPolicies
  FormDays = {0, 7, 99}
  FormTimes <- MCTimes
  MaxDays = 30
  Cancellations <- MCCancellations
  None = None
  DbMayFail = TRUE
INVARIANT SettingsOpen
