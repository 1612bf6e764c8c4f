------------------------------ MODULE SentIndex ------------------------------
(***************************************************************************)
(* The persisted index of threads the user sent mail on                    *)
(* (src/src/gmail/sent-index.ts), topped up by the first message of a run  *)
(* that is about to be trashed: Gmail lists the SENT label newest first,   *)
(* and the pass stops at the newest message the last pass recorded.        *)
(*                                                                         *)
(* Sent mail is numbered in the order it was sent.  Gmail hides a trashed  *)
(* message from the list and shows it again at its old place when it is    *)
(* restored; a message that was hidden when a pass read the page it        *)
(* belongs on can come back below the mark, out of the index's reach, and  *)
(* is called missed.                                                       *)
(***************************************************************************)
EXTENDS Naturals, Sequences, FiniteSets

CONSTANTS
    Thread,     \* mail threads
    MaxSent,    \* bound: messages the user sends
    PageSize    \* stubs of one page (500 in the code)

ASSUME SentIndexConstants ==
    MaxSent \in Nat /\ PageSize \in Nat \ {0}

VARIABLES
    sent,       \* the user's sent mail: [thread, state, missed] by age
    indexed,    \* sent_threads: the threads the database knows
    mark,       \* setting sentIndexNewestMessageId, 0 when it is not set
    pass,       \* sentIndexPromise of this run: see PassType
    owed        \* history: the mail that was listed all the time since the pass began

sentVars == <<sent, indexed, mark, pass, owed>>

Ids == DOMAIN sent
PassType ==
    [pc : {"idle", "paging", "loaded", "failed"},
     known : SUBSET Thread,     \* threadIds: the table when the pass began, then the answer
     found : SUBSET (1..MaxSent),   \* stubs of the pages so far
     next : 1..(MaxSent + 1)]       \* the page token: everything below is still to come

NoPass == [pc |-> "idle", known |-> {}, found |-> {}, next |-> MaxSent + 1]

SentTypeOK ==
    /\ sent \in Seq([thread : Thread, state : {"listed", "hidden", "gone"}, missed : BOOLEAN])
    /\ Len(sent) <= MaxSent
    /\ indexed \subseteq Thread /\ mark \in 0..Len(sent)
    /\ pass \in PassType /\ owed \subseteq Ids

SentInit ==
    /\ sent = <<>> /\ indexed = {} /\ mark = 0
    /\ pass = NoPass /\ owed = {}

Listed == {i \in Ids : sent[i].state = "listed"}
ThreadsOf(ids) == {sent[i].thread : i \in ids}

\* The mail whose thread the index has to know: all that is listed, but for missed mail.
Written(mail) == {i \in DOMAIN mail : mail[i].state = "listed" /\ ~mail[i].missed}
Replied(mail) == {mail[i].thread : i \in Written(mail)}

(***************************************************************************)
(* The user's sent mail.                                                   *)
(***************************************************************************)
ChangeSent(mail) ==
    /\ sent' = mail
    /\ owed' = owed \cap Written(mail)
    /\ UNCHANGED <<indexed, mark, pass>>

SendMail(t) ==
    /\ Len(sent) < MaxSent
    /\ ChangeSent(Append(sent, [thread |-> t, state |-> "listed", missed |-> FALSE]))

TrashSent(i) == sent[i].state = "listed" /\ ChangeSent([sent EXCEPT ![i].state = "hidden"])
RestoreSent(i) == sent[i].state = "hidden" /\ ChangeSent([sent EXCEPT ![i].state = "listed"])
DeleteSent(i) == sent[i].state # "gone" /\ ChangeSent([sent EXCEPT ![i].state = "gone"])

UserSends ==
    \/ \E t \in Thread : SendMail(t)
    \/ \E i \in Ids : TrashSent(i) \/ RestoreSent(i) \/ DeleteSent(i)

(***************************************************************************)
(* One pass.  Pages are cut at positions of the mailbox, so mail sent      *)
(* meanwhile is not on a later page.  Nothing is written before the last   *)
(* page arrived; then threads and mark go in one transaction, together     *)
(* with the answer, as no other callback runs in between.                  *)
(***************************************************************************)
BeginPass ==
    /\ pass.pc = "idle"
    /\ pass' = [NoPass EXCEPT !.pc = "paging", !.known = indexed]
    /\ owed' = Written(sent)
    /\ UNCHANGED <<sent, indexed, mark>>

Below(n) == {i \in Listed : i < n}
\* The newest PageSize messages of those below n.
Page(n) == {i \in Below(n) : Cardinality({j \in Below(n) : j > i}) < PageSize}
UpToStop(page) == IF mark \in page THEN {i \in page : i > mark} ELSE page
Newest(ids) == CHOOSE i \in ids : \A j \in ids : j <= i
Oldest(ids) == CHOOSE i \in ids : \A j \in ids : i <= j
\* A plausible bug, for a mutant: the first page is taken for all of them.
OnePageOnly(page) == TRUE
LastPage(page) == mark \in page \/ page = Below(pass.next)

\* Mail below n that this page, the last of the pass or not, has no stub of as it is hidden.
PassedOver(page) ==
    LET low == IF LastPage(page) THEN 1 ELSE Oldest(page) IN
    [i \in Ids |-> IF i \in low..(pass.next - 1) /\ sent[i].state = "hidden"
                   THEN [sent[i] EXCEPT !.missed = TRUE] ELSE sent[i]]

Persist(found) ==
    /\ indexed' = indexed \cup ThreadsOf(found)
    /\ mark' = IF found = {} THEN mark ELSE Newest(found)
    /\ pass' = [pass EXCEPT !.pc = "loaded", !.found = {}, !.next = MaxSent + 1,
                            !.known = @ \cup ThreadsOf(found)]
    /\ owed' = {}

ReadPage ==
    /\ pass.pc = "paging"
    /\ LET page == Page(pass.next)
           found == pass.found \cup UpToStop(page) IN
       /\ sent' = PassedOver(page)
       /\ IF LastPage(page) THEN Persist(found)
          ELSE /\ pass' = [pass EXCEPT !.found = found, !.next = Oldest(page)]
               /\ UNCHANGED <<indexed, mark, owed>>

\* A page that cannot be read rejects the promise, and the promise is kept for the run.
PassFails ==
    /\ pass.pc = "paging"
    /\ pass' = [NoPass EXCEPT !.pc = "failed"]
    /\ owed' = {}
    /\ UNCHANGED <<sent, indexed, mark>>

DropPass == pass' = NoPass /\ owed' = {} /\ UNCHANGED <<sent, indexed, mark>>

\* A plausible bug, for a mutant: a check that failed is taken for a thread without replies.
FailedMeansNo(t) == IF t \in pass.known THEN "yes" ELSE "no"

\* What the run may ask of its pass, once it has ended: has the user written on t?
ReplyAnswer(t) ==
    IF pass.pc = "failed" THEN "failed" ELSE IF t \in pass.known THEN "yes" ELSE "no"

(***************************************************************************)
(* Hazard: the mark certifies every older message.  Whatever pages failed, *)
(* runs crashed and mail came and went, all listed sent mail at or below   *)
(* the mark has its thread in the table (sent-index.ts:47-70).             *)
(***************************************************************************)
IndexComplete ==
    \A i \in 1..mark : sent[i].state = "listed" /\ ~sent[i].missed => sent[i].thread \in indexed
=============================================================================
