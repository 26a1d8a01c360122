SPECIFICATION Spec
CONSTANTS
  p1 = p1 p2 = p2 p3 = p3 p4 = p4 p5 = p5 p6 = p6
  Id = {p1, p2, p3, p4, p5, p6}
  None = None
  Sizes = {1}
  MaxOrder = 2
  BlockSize <- MCBlockSize
INVARIANT NoOverlap
SYMMETRY Processes
CHECK_DEADLOCK FALSE
