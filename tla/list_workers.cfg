SPECIFICATION Spec
CONSTANTS
  Nodes = {n1, n2, n3, n4}
  Null = null
  Poppers = {w1, w2}
  Pushers = {w1, w2, main}
  Reuse = FALSE
SYMMETRY NodeSymmetry
INVARIANTS ListSound ListInv
PROPERTIES AtomicSpec
