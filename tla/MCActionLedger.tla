--------------------------- MODULE MCActionLedger ---------------------------
EXTENDS ActionLedger, TLC

Interchangeable == Permutations(Msg) \cup Permutations(Payload)

=============================================================================
