------------------------------ MODULE MCMemory ------------------------------
EXTENDS Memory

CONSTANTS p1, p2, p3, p4, p5, p6

\* Memory in units of the smallest block.
MCBlockSize == [m \in Order |-> 2 ^ m]

Processes == Permutations({p1, p2, p3, p4, p5, p6})
=============================================================================
