SPECIFICATION Spec
CONSTANTS
  Id = {1, 2}
  Time = {0, 1}
  MaxSize = 3
INVARIANTS TypeOK SizeCountsSlots
PROPERTY FifoSpec
