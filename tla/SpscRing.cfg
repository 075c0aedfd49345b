SPECIFICATION LiveSpec
CONSTANTS
  N = 2
  Modulus = 6
  T = {a, b}
  None = None
  Torn = Torn
INVARIANTS RaceFree IInv
PROPERTIES ImplementsFifo PushCompletes Delivered
