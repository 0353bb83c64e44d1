SPECIFICATION Spec
CONSTANT
  Call = {c1, c2, c3}
INVARIANT
  TerminalEventSunk
CHECK_DEADLOCK FALSE
