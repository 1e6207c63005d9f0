--------------------------- MODULE MCRefreshTokens --------------------------
(* Two sessions and four tokens: a rotation, the reuse of the rotated        *)
(* token and further rotations fit into one family.                          *)
EXTENDS RefreshTokens, TLC

Symmetry == Permutations(Handlers) \cup Permutations(Tokens)
=============================================================================
