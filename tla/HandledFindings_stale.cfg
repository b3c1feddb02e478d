\* Two browsers, one of them with an older page.
SPECIFICATION Spec
CONSTANTS
  Browsers = {b1, b2}
  Slots = {s1}
  Keys = {k1, k2}
  Prints = {f1, f2}
  None = None
  Hurried = {}
  Overlap = FALSE
  DbMayFail = FALSE
  Losses = FALSE
PROPERTY DoneOfCurrentKept
