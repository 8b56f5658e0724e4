---------------------------- MODULE MCWALReplay ----------------------------
(* WALReplay on two keys and one value (two values make the same logs longer *)
(* to enumerate and tell no more apart: an erase is the second content).     *)
EXTENDS WALReplay

CONSTANTS k1, k2, v1

MCKeys == {k1, k2}
MCValues == {v1}
=============================================================================
