----------------------------- MODULE MCMailSync -----------------------------
EXTENDS MailSyncInv, TLC
\* Two view sessions run the same code.
ViewerSymmetry == Permutations(Viewer)
\* Nothing is promised once a command acted under a history id in use.
Promised == overtaken' = {}
=============================================================================
