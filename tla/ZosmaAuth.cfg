SPECIFICATION Spec
CONSTANTS
  Request = {r1, r2, r3}
  Key = {k1, k2}
  Model = {m1, m2, b}
  Blank = {b}
  State = {s1, s2}
  None = None
INVARIANTS
  DisconnectIsFinal
  ErrorLeavesNoTrace
PROPERTIES
  PasteKeepsModels
