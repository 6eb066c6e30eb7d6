SPECIFICATION MCSpec
CONSTANTS
  Key = {a, b}
  Proc = {p1, p2}
  Interval = 3
  MaxLate = 1
  MaxClock = 5
SYMMETRY Symmetry
INVARIANTS
  OrderSurvives
  NeverYounger
PROPERTY
  FlushesSpaced
