-------------------------- MODULE MCSlidingWindow --------------------------
(* Constants of SlidingWindow for TLC: the clients are alike.               *)
EXTENDS SlidingWindow, TLC

CONSTANTS k1, k2, k3

KeySymmetry == Permutations(Keys)
=============================================================================
