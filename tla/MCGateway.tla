------------------------------ MODULE MCGateway ------------------------------
EXTENDS Gateway, TLC

\* The code's windows are a minute, a day and a month.
MCWindows == {"minute", "day"}
MCLength == [minute |-> 1, day |-> 2]
MCLimit  == [minute |-> 2, day |-> 3]
Symmetric == Permutations(Calls)
=============================================================================
