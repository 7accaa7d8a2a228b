SPECIFICATION Spec
CONSTANTS
  Writer = {w1, w2}
  Id = {1, 2, 3}
  Data = {a, b}
  Idle = Idle
  MaxKey = 2
SYMMETRY Symmetry
CHECK_DEADLOCK FALSE
INVARIANTS
  NoFalseAlarm
  VerifySound
