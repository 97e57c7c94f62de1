SPECIFICATION Spec
CONSTANTS
  Ptrs = {p, q, r, s}
  MaxDepth = 5
  MaxThrows = 3
SYMMETRY Addresses
INVARIANT ErrorsArrive
INVARIANT ExceptionIsHandled
