\* The deployed service, on a database any call to which may fail.
SPECIFICATION Spec
CONSTANTS
  Threads = {t1}
  Hotels = {h1, h2}
  RuleIds = {r1, r2}
  Thresholds = {x1, x2}
  Fallback = x1
  None = None
  Unparsable = Unparsable
  KeyError = KeyError
  DbMayFail = TRUE
INVARIANTS TypeOK CacheSynced LookupNeverFails CacheSelfConsistent
PROPERTIES ImplementsPromise CommitsWhatWasSent CompletedWriteSyncs
