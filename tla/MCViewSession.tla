---------------------------- MODULE MCViewSession ----------------------------
EXTENDS ViewSession
\* Pages of one message turn; a page of two has a selection of two.
Messages  == 1..2
PageSizes == {1, 2}
=============================================================================
