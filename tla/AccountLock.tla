---------------------------- MODULE AccountLock ----------------------------
(***************************************************************************)
(* What the commands take the lock of an account for: one at a time owns   *)
(* it, from the return of acquire() to that of release() or the end of its *)
(* process.  MailSync, Triage, HostedSession and ViewLoader are written    *)
(* against this promise.  How a command finds the lock free is not said.   *)
(*                                                                         *)
(* The promise ends when the file of an owner may have been taken away     *)
(* (excused): ProcessLock says exactly when that is.                       *)
(***************************************************************************)
CONSTANT Lock     \* whoever can own the lock

VARIABLES
    owners,       \* who owns it
    excused       \* a file was reclaimed that may have had another owner

vars == <<owners, excused>>

Init == owners = {} /\ excused = FALSE

Take(i) ==
    /\ i \notin owners /\ (owners = {} \/ excused)
    /\ owners' = owners \cup {i}
    /\ UNCHANGED excused

\* One releases it, or all of a process at once when it dies.
Give(S) ==
    /\ S # {} /\ owners' = owners \ S
    /\ UNCHANGED excused

Excuse ==
    /\ ~excused /\ excused' = TRUE
    /\ UNCHANGED owners

Next == (\E i \in Lock : Take(i)) \/ (\E S \in SUBSET owners : Give(S)) \/ Excuse

Spec == Init /\ [][Next]_vars
=============================================================================
