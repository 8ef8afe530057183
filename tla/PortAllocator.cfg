CONSTANTS
  w1 = w1  w2 = w2  w3 = w3
  Wrapper <- WrapperDef
  MinPort = 1
  MaxPort = 4
SYMMETRY Symmetric
SPECIFICATION Spec
INVARIANTS TypeOK HeldOnce
