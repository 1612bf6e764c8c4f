--------------------------- MODULE MCProcessLock ---------------------------
(***************************************************************************)
(* One command, and a view session whose operations lock through objects   *)
(* of their own in one process.                                            *)
(***************************************************************************)
EXTENDS ProcessLock, TLC

CONSTANTS command, session, other, p1, p2

Locks  == {command, session, other}
Pair   == {command, session}
Shared == command :> p1 @@ session :> p2 @@ other :> p2
Apart  == command :> p1 @@ session :> p2

=============================================================================
