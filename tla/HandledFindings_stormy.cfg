\* Two browsers and everything that can go wrong.
SPECIFICATION Spec
CONSTANTS
  Browsers = {b1, b2}
  Slots = {s1, s2}
  Keys = {k1}
  Prints = {f1, f2}
  None = None
  Hurried = {b1}
  Overlap = TRUE
  DbMayFail = TRUE
  Losses = TRUE
INVARIANTS TypeOK DoneWasTicked QuietPageIsHonest
PROPERTY TogglesAreAtomic
SYMMETRY Interchangeable
