\* One worker, five report files in any order, a key that may be replaced.
SPECIFICATION FairSpec
CONSTANTS
  Threads = {t1}
  Files <- MCFiles
  Upload <- MCUpload
  Lookups <- MCLookups
  Keys <- MCKeys
  CacheSize = 2
  None = None
  day1 = day1
  day1again = day1again
  day2 = day2
  history1 = history1
  history2 = history2
  r1 = r1
  r2 = r2
  oldKey = oldKey
  newKey = newKey
INVARIANTS TypeOK SnapshotIsWhole HistoryIsComplete PageIsCurrent PageMovesForward
PROPERTY PageAnswered
