---------------------------- MODULE MCViewLoader ----------------------------
EXTENDS ViewLoader, TLC

CONSTANTS inbox, trash

Folders  == <<inbox, trash>>
TwoPages == inbox :> 2 @@ trash :> 1

=============================================================================
