\* The development server: two requests at a time.
SPECIFICATION Spec
CONSTANTS
  Threads = {t1, t2}
  Hotels = {h1}
  RuleIds = {r1, r2}
  Thresholds = {x1}
  Fallback = x1
  None = None
  Unparsable = Unparsable
  KeyError = KeyError
  DbMayFail = FALSE
INVARIANTS SaveNeverRefused NoOrphanLinks
PROPERTY TablesAreAtomic
CONSTRAINT WritersOnly
