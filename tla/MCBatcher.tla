----------------------------- MODULE MCBatcher -----------------------------
EXTENDS Batcher, TLC

CONSTANTS q1, q2, q3, f1, w

\* Three queries, more than a batch takes, of two depths.
MCDepthOf == q1 :> 1 @@ q2 :> 2 @@ q3 :> 2
=============================================================================
