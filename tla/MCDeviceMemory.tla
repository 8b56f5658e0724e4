-------------------------- MODULE MCDeviceMemory --------------------------
EXTENDS DeviceMemory, FiniteSets, TLC

CONSTANTS b1, b2, b3

\* Bound.  Once a size has wrapped around only TypeOK is left to check: one root
\* and two buffers are followed from there.
MCSmallWrapped == wrapped => Len(roots) = 1 /\ Cardinality(current) <= 2

MCSymmetry == Permutations(Handles)
=============================================================================
