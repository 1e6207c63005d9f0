---------------------------- MODULE MCShortCodes ----------------------------
(* Two letters of two numbers stand for the 24 letters of 100: a day that    *)
(* runs through the alphabet is as close as midnight.                        *)
EXTENDS ShortCodes, TLC

Symmetry == Permutations(Callers)
=============================================================================
