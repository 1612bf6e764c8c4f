--------------------------- MODULE ReplyProtection ---------------------------
(***************************************************************************)
(* What a cleanup promises about threads the user wrote in, and nothing of *)
(* how it finds out: a run asks once which threads carry mail the user     *)
(* sent, the answer holds at least the threads of the mail that was there  *)
(* from the question to the answer, and until the run ends only threads    *)
(* outside the answer may lose a message to Trash without the user's rule. *)
(* SentIndex implements this with a table and a high-water mark.           *)
(*                                                                         *)
(* The promise is about mail, not about threads: of a thread whose only    *)
(* mail is trashed after the question, and which is written in again       *)
(* before the answer, the answer may know nothing.                         *)
(***************************************************************************)
EXTENDS FiniteSets

CONSTANTS
    Thread,     \* mail threads
    Mail        \* messages the user can send

VARIABLES
    replied,    \* the user's sent mail, with its threads
    owed,       \* what of it is there ever since this run asked
    answered,   \* whether this run has its answer
    answer,     \* threads this run then takes for replied to
    exposed     \* threads this run decided to trash a message of

vars == <<replied, owed, answered, answer, exposed>>

Init ==
    /\ replied \in SUBSET (Mail \X Thread)
    /\ owed = {} /\ answered = FALSE /\ answer = {} /\ exposed = {}

\* The user sends, trashes, restores or deletes sent mail.
UserWrites ==
    /\ replied' \in SUBSET (Mail \X Thread)
    /\ owed' = owed \cap replied'
    /\ UNCHANGED <<answered, answer, exposed>>

Ask ==
    /\ ~answered
    /\ owed' = replied
    /\ UNCHANGED <<replied, answered, answer, exposed>>

Answer ==
    /\ ~answered /\ answered' = TRUE
    /\ answer' \in SUBSET Thread /\ {p[2] : p \in owed} \subseteq answer'
    /\ owed' = {}
    /\ UNCHANGED <<replied, exposed>>

Expose(t) ==
    /\ answered /\ t \notin answer
    /\ exposed' = exposed \cup {t}
    /\ UNCHANGED <<replied, owed, answered, answer>>

\* The run ends, or failed or crashed before it had its answer.
Forget ==
    /\ owed' = {} /\ answered' = FALSE /\ answer' = {} /\ exposed' = {}
    /\ UNCHANGED replied

Next == UserWrites \/ Ask \/ Answer \/ Forget \/ \E t \in Thread : Expose(t)

Spec == Init /\ [][Next]_vars
=============================================================================
