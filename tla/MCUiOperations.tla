--------------------------- MODULE MCUiOperations ---------------------------
EXTENDS UiOperations
Symmetric == Permutations(Jobs)
=============================================================================
