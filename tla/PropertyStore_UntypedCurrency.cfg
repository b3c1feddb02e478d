\* The deployed service: one request at a time, transactions that may fail.
SPECIFICATION Spec
CONSTANTS
  Threads = {t1}
  Codes = {c1}
  Names = {n1}
  TheCode = TheCode
  Currencies = {EUR, CHF}
  EUR = EUR
  Blank = Blank
  None = None
  DbMayFail = TRUE
INVARIANT UntypedCurrencyIsDetected
