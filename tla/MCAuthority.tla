----------------------------- MODULE MCAuthority ----------------------------
(* A small instance of Authority for TLC.                                    *)
EXTENDS Authority, TLC

Symmetry == Permutations(Handlers) \cup Permutations(Tokens) \cup Permutations(Admins)
=============================================================================
