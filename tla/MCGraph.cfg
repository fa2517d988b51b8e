SPECIFICATION Spec
CONSTANTS
  Inputs <- All
  Repetition = 2
  Runs = 2
  Capacity = 1
  Garbage = {0, 1}
  Scale = 12
INVARIANTS ResultRight PreparedOnce
PROPERTIES AllReturn
