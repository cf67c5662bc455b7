SPECIFICATION Spec
CONSTANT
  MaxSends = 2
INVARIANT
  EveryTagReported
