SPECIFICATION NotifSpec
CONSTANTS
  None = None
  MaxEvents = 2
  Conn = {c1, c2}
  Delay = {d1}
  Index = {i1}
SYMMETRY Symmetric
INVARIANTS
  AnswersMatch
  ApiInformed
PROPERTIES
  NoOtherMismatch
CONSTRAINT Sane
CHECK_DEADLOCK FALSE
