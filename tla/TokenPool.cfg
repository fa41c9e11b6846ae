\* Two hours of two servers; two deaths or rejected updates.
CONSTANTS
  Servers = {s1, s2}
  Active = {a1}
  Reserved = {r1}
  NoToken = NoToken
  Hour = 1
  Slots = {i1, i2}
  MaxNow = 2
  MaxLosses = 2
SPECIFICATION Spec
SYMMETRY Symmetry
INVARIANTS
  ReserveIsExclusive
  TimersRunOut
  StrandedEndAtStart
\* the bound on time stops the model
CHECK_DEADLOCK FALSE
