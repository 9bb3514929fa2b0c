--------------------------- MODULE MCAiWorkClaims ---------------------------
EXTENDS AiWorkClaims, TLC
Symmetric == Permutations(Workers)
=============================================================================
