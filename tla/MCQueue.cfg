\* Four workflows, two decisions, pages of one and two.
CONSTANTS
  b1 = b1
  b2 = b2
  Cases = {1, 2, 3, 4}
  Ballots = {b1, b2}
  PageSizes = {1, 2}
SPECIFICATION Spec
SYMMETRY Symmetry
INVARIANTS
  WalkExplained
CHECK_DEADLOCK FALSE
