SPECIFICATION Spec
CONSTANTS
  Producers = {p1, p2}
  Consumers = {c1}
  Elements = {a, b}
  MaxElement = 3
  Null = Null
INVARIANTS RingInStep PositiveCountPops
PROPERTY ImplementsFIFO
