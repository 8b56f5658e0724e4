---------------------------- MODULE MCLifecycle ----------------------------
EXTENDS Lifecycle, TLC

CONSTANTS h1, h2, h3, d2, d3

MCSymmetry == Permutations(Handles) \union Permutations(Dims)
=============================================================================
