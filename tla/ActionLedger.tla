----------------------------- MODULE ActionLedger -----------------------------
(***************************************************************************)
(* The writing half of a cleanup run (src/commands/work.ts): the action    *)
(* ledger (state/repositories/runs.ts), the grouped Gmail mutations        *)
(* (gmail/executor.ts) and the calendar events with their deterministic    *)
(* ids (calendar/idempotency.ts), over several runs that may die anywhere. *)
(*                                                                         *)
(* Runs own the account lock, so there is one at a time.  A row of the     *)
(* ledger is named by its message and what deterministicActionKey hashes:  *)
(* the type of the action and its payload.  An event is named by the hash  *)
(* of its payload; a message assessed anew may get another one.            *)
(***************************************************************************)
EXTENDS Naturals, FiniteSets

CONSTANTS
  Msg,        \* messages
  Payload,    \* payload hashes of calendar events
  MaxRuns,    \* bound: runs
  MaxFaults   \* bound: failing requests, unresolved labels and crashes

\* star stands for star and mark_important, tidy for the archive of read mail.
Label       == {"label", "caltag"}
Consequence == {"caltag", "archive"}
Gmail       == {"star", "tidy", "archive"} \cup Label
Kind        == {"trash"} \cup Gmail
Key         == Kind \cup Payload

ASSUME PayloadAssumption == Payload \cap (Kind \cup {"free", "deleted"}) = {}
ASSUME BoundAssumption == MaxRuns \in Nat /\ MaxFaults \in Nat

VARIABLES
  calendar,   \* Google: the event under the message's deterministic id
  status,     \* SQLite actions: the status of each row
  link,       \* SQLite calendar_links: payload hash and status
  phase,      \* where the run is
  plan,       \* the decided actions of each message
  missing,    \* label names that could not be resolved
  answer,     \* what Google answered for each message, in this phase
  current,    \* messages whose event is being inserted
  handled,    \* messages whose event was dealt with
  failed,     \* calendarFailedMessageIds
  did,        \* observer: what Gmail accepted in this run
  runs, faults

memory == <<phase, plan, missing, answer, current, handled, failed>>
vars == <<calendar, status, link, phase, plan, missing, answer, current,
          handled, failed, did, runs, faults>>

Statuses == {"none", "planned", "applying", "applied", "failed_retryable",
             "failed_terminal", "skipped_conflict", "unknown_no_retry"}
Terminal == {"applied", "failed_terminal", "skipped_conflict"}
Answers  == {"none", "ok", "error", "collision", "ambiguous"}
NoLink   == <<"none", "none">>
NoAnswer == [m \in Msg |-> "none"]
Event(m) == plan[m] \cap Payload

\* The types of the calendar, of the ledger and of the memory of the run.
TypeOK ==
  /\ calendar \in [Msg -> {"free", "deleted"} \cup Payload]
  /\ status \in [Msg -> [Key -> Statuses]]
  /\ link \in [Msg -> {NoLink} \cup (Payload \X {"applied", "failed"})]
  /\ phase \in {"idle", "planned", "trash", "calendar", "labels"}
  /\ plan \in [Msg -> SUBSET Key]
  /\ missing \in SUBSET Label
  /\ answer \in [Msg -> Answers]
  /\ current \in SUBSET Msg
  /\ handled \in SUBSET Msg
  /\ failed \in SUBSET Msg
  /\ did \in [Msg -> SUBSET Key]
  /\ runs \in Nat /\ faults \in Nat

Init ==
  /\ calendar = [m \in Msg |-> "free"]
  /\ status = [m \in Msg |-> [k \in Key |-> "none"]]
  /\ link = [m \in Msg |-> NoLink]
  /\ phase = "idle" /\ plan = [m \in Msg |-> {}] /\ missing = {}
  /\ answer = NoAnswer /\ current = {} /\ handled = {} /\ failed = {}
  /\ did = [m \in Msg |-> {}]
  /\ runs = 0 /\ faults = 0

\* What the policy and finalizeOutcome decide: Trash excludes the rest, and an
\* event brings its label and an archive, unless read mail is archived anyway.
Plans ==
  {{}, {"trash"}, {"star", "label"}}
  \cup {{"star", "caltag", "archive", p} : p \in Payload}
  \cup {{"label", "caltag", "tidy", p} : p \in Payload}

Fault == faults < MaxFaults /\ faults' = faults + 1
FaultIf(b) == IF b THEN Fault ELSE UNCHANGED faults

\* markActions: the rows of R, as <<message, key>>, get the status s.
Mark(R, s) ==
  status' = [m \in Msg |-> [k \in Key |->
               IF <<m, k>> \in R THEN s ELSE status[m][k]]]

-----------------------------------------------------------------------------
\* What becomes of a row whose request was cut off by the death of its run.
Reconciled(s) == IF s = "applying" THEN "unknown_no_retry" ELSE s

\* Rows a dead run left applying are reconciled, then upsertPlanned claims
\* every row that is not terminal; then label names are resolved.
StartRun ==
  /\ phase = "idle" /\ runs < MaxRuns
  /\ runs' = runs + 1
  /\ plan' \in [Msg -> Plans]
  /\ missing' \in SUBSET (Label \cap UNION {plan'[m] : m \in Msg})
  /\ FaultIf(missing' # {})
  /\ status' = [m \in Msg |-> [k \in Key |->
                 LET s == Reconciled(status[m][k]) IN
                 IF k \in plan'[m] /\ s \notin Terminal THEN "planned" ELSE s]]
  /\ phase' = "planned"
  /\ did' = [m \in Msg |-> {}]
  /\ UNCHANGED <<calendar, link, answer, current, handled, failed>>

Trashed == {m \in Msg : "trash" \in plan[m]}

\* Mutant: Trash is requested before the ledger says so.
TrashUnmarked ==
  /\ phase = "planned" /\ phase' = "trash"
  /\ UNCHANGED <<calendar, status, link, plan, missing, answer, current, handled,
                 failed, did, runs, faults>>

StartTrash ==
  /\ phase = "planned" /\ phase' = "trash"
  /\ Mark(Trashed \X {"trash"}, "applying")
  /\ UNCHANGED <<calendar, link, plan, missing, answer, current, handled, failed,
                 did, runs, faults>>

\* What is left of a message's Gmail actions once its event has succeeded or
\* failed (actionsAfterCalendarOutcome).
Surviving(m) == (plan[m] \cap Gmail) \ (IF m \in failed THEN Consequence ELSE {})

\* Mutant: the mutation is built from the plan.
MutationPlanned(m) == (plan[m] \cap Gmail) \ missing

\* mutationForActions: a label that was not resolved adds nothing.
Mutation(m) == Surviving(m) \ missing

Targets == IF phase = "trash" THEN Trashed ELSE {m \in Msg : Mutation(m) # {}}
Request(m) == IF phase = "trash" THEN {"trash"} ELSE Mutation(m)

\* batchModify of the chunk m is in.  A request that fails may have been
\* carried out.
Send(m) ==
  /\ phase \in {"trash", "labels"} /\ m \in Targets /\ answer[m] = "none"
  /\ \E accepted \in BOOLEAN, a \in {"ok", "error"} :
       /\ a = "ok" => accepted
       /\ answer' = [answer EXCEPT ![m] = a]
       /\ did' = IF accepted THEN [did EXCEPT ![m] = @ \cup Request(m)] ELSE did
       /\ FaultIf(a = "error")
  /\ UNCHANGED <<calendar, status, link, phase, plan, missing, current, handled,
                 failed, runs>>

Answered == \A m \in Targets : answer[m] # "none"

RecordTrash ==
  /\ phase = "trash" /\ Answered
  /\ phase' = "calendar"
  /\ status' = [m \in Msg |-> [k \in Key |->
                 IF m \in Trashed /\ k = "trash"
                 THEN IF answer[m] = "ok" THEN "applied" ELSE "failed_retryable"
                 ELSE status[m][k]]]
  /\ answer' = NoAnswer
  /\ UNCHANGED <<calendar, link, plan, missing, current, handled, failed, did,
                 runs, faults>>

-----------------------------------------------------------------------------
Events == {m \in Msg : Event(m) # {} /\ "trash" \notin plan[m]}

StartInsert(m) ==
  /\ phase = "calendar" /\ m \in Events \ handled /\ current = {}
  /\ current' = {m}
  /\ Mark({m} \X Event(m), "applying")
  /\ UNCHANGED <<calendar, link, phase, plan, missing, answer, handled, failed,
                 did, runs, faults>>

\* The calendar after an insertion that reached it.
Inserted(m) == [calendar EXCEPT ![m] = IF @ = "free" THEN CHOOSE p \in Event(m) : TRUE
                                                     ELSE @]

\* Mutant: any event of this app under the id counts as this one.
InsertAnyOwn(m) ==
  CASE calendar[m] = "deleted" -> "ambiguous" [] OTHER -> "ok"

\* What insertIdempotentEvent makes of the calendar: 201, or 409 and then the
\* event under the id, which is this one, another one or cannot be fetched.
Insertion(m) ==
  CASE calendar[m] = "deleted" -> "ambiguous"
    [] calendar[m] \in Payload \ Event(m) -> "collision"
    [] OTHER -> "ok"

\* events.insert, and events.get after a conflict.  A request that fails may
\* have been carried out.
Insert(m) ==
  /\ phase = "calendar" /\ m \in current /\ answer[m] = "none"
  /\ \/ /\ calendar' = Inserted(m)
        /\ answer' = [answer EXCEPT ![m] = Insertion(m)]
        /\ UNCHANGED faults
     \/ /\ calendar' \in {calendar, Inserted(m)}
        /\ answer' = [answer EXCEPT ![m] = "error"]
        /\ Fault
  /\ UNCHANGED <<status, link, phase, plan, missing, current, handled, failed,
                 did, runs>>

\* The row and the link that record each answer.
RowAfter == [ok |-> "applied", collision |-> "failed_terminal",
             ambiguous |-> "unknown_no_retry", error |-> "failed_retryable"]
\* Mutant: an event under the id is linked whatever it says.
LinkConflicting == [ok |-> "applied", collision |-> "applied"]
LinkAfter == [ok |-> "applied", collision |-> "failed"]

RecordInsert(m) ==
  /\ phase = "calendar" /\ m \in current /\ answer[m] # "none"
  /\ Mark({m} \X Event(m), RowAfter[answer[m]])
  /\ link' = IF answer[m] \in DOMAIN LinkAfter
             THEN [link EXCEPT ![m] = <<CHOOSE p \in Event(m) : TRUE,
                                        LinkAfter[answer[m]]>>]
             ELSE link
  /\ failed' = IF answer[m] = "ok" THEN failed ELSE failed \cup {m}
  /\ handled' = handled \cup {m} /\ current' = {}
  /\ answer' = [answer EXCEPT ![m] = "none"]
  /\ UNCHANGED <<calendar, phase, plan, missing, did, runs, faults>>

-----------------------------------------------------------------------------
\* Mutant: the labels do not wait for the events.
StartLabelsEarly ==
  /\ phase = "calendar" /\ current = {}
  /\ phase' = "labels"
  /\ status' = [m \in Msg |-> [k \in Key |->
                 IF Mutation(m) # {} /\ k \in Surviving(m)
                 THEN "applying" ELSE status[m][k]]]
  /\ UNCHANGED <<calendar, link, plan, missing, answer, current, handled, failed,
                 did, runs, faults>>

\* The rows withdrawn with a failed event are skipped; then the rows of every
\* message with a mutation to send are marked, unresolved labels included.
StartLabels ==
  /\ phase = "calendar" /\ Events \subseteq handled
  /\ phase' = "labels"
  /\ status' = [m \in Msg |-> [k \in Key |->
                 IF m \in failed /\ k \in plan[m] \cap Consequence
                 THEN "skipped_conflict"
                 ELSE IF Mutation(m) # {} /\ k \in Surviving(m)
                      THEN "applying" ELSE status[m][k]]]
  /\ UNCHANGED <<calendar, link, plan, missing, answer, current, handled, failed,
                 did, runs, faults>>

\* The memory of a run that is over.
Forget ==
  /\ phase' = "idle" /\ plan' = [m \in Msg |-> {}] /\ missing' = {}
  /\ answer' = NoAnswer /\ current' = {} /\ handled' = {} /\ failed' = {}

RecordLabels ==
  /\ phase = "labels" /\ Answered
  /\ status' = [m \in Msg |-> [k \in Key |->
                 IF Mutation(m) # {} /\ k \in Surviving(m)
                 THEN IF answer[m] = "ok" THEN "applied" ELSE "failed_retryable"
                 ELSE status[m][k]]]
  /\ Forget
  /\ UNCHANGED <<calendar, link, did, runs, faults>>

Crash ==
  /\ phase # "idle" /\ Fault
  /\ Forget
  /\ UNCHANGED <<calendar, status, link, did, runs>>

\* The user deletes the event; Google keeps its id reserved.
DeleteEvent(m) ==
  /\ calendar[m] \in Payload
  /\ calendar' = [calendar EXCEPT ![m] = "deleted"]
  /\ UNCHANGED <<status, link, memory, did, runs, faults>>

Next ==
  \/ StartRun \/ StartTrash \/ RecordTrash \/ StartLabels \/ RecordLabels \/ Crash
  \/ \E m \in Msg : \/ Send(m) \/ StartInsert(m) \/ Insert(m) \/ RecordInsert(m)
                    \/ DeleteEvent(m)

Spec == Init /\ [][Next]_vars

-----------------------------------------------------------------------------
Done(m, k) == IF k \in Payload THEN calendar[m] \in {k, "deleted"} ELSE k \in did[m]

\* A row becomes applied only when Google has carried out what the row names,
\* for every row but those of labels (markActions after applyGroupedLabelMutations
\* and insertIdempotentEvent).
AppliedWasDone ==
  [][\A m \in Msg : \A k \in Key \ Label :
       status[m][k] # "applied" /\ status'[m][k] = "applied" => Done(m, k)]_vars

\* Mail is labelled and filed on the strength of an event only if that very
\* event, not another one under the id, is or was in the calendar
\* (actionsAfterCalendarOutcome).
FiledOnlyWithEvent ==
  [][\A m \in Msg :
       (did'[m] \ did[m]) \cap Consequence # {} =>
         \E p \in Event(m) : calendar[m] \in {p, "deleted"}]_vars

\* Google is changed only while the row that names the change says applying, so
\* that a run that dies there leaves a trace (findApplying).
WriteAhead ==
  [][\A m \in Msg :
       /\ \A k \in did'[m] \ did[m] : status[m][k] = "applying"
       /\ \A p \in Payload :
            calendar[m] = "free" /\ calendar'[m] = p => status[m][p] = "applying"]_vars

-----------------------------------------------------------------------------
\* Every plan is one the policy makes; there is none between runs.
PlanSound ==
  /\ \A m \in Msg : plan[m] \in Plans
  /\ phase = "idle" => \A m \in Msg : plan[m] = {}

\* When each part of the run's memory is in use.
PhaseSound ==
  /\ phase # "calendar" => current = {}
  /\ phase \in {"idle", "planned", "trash"} => handled = {} /\ failed = {}
  /\ phase \in {"idle", "planned"} => answer = NoAnswer
  /\ phase = "calendar" => \A m \in Msg \ current : answer[m] = "none"
  /\ current \subseteq Events \ handled
  /\ \A m, n \in current : m = n
  /\ phase = "labels" => Events \subseteq handled

\* A request is on its way only for rows that say applying.
Marked ==
  /\ phase = "trash" => \A m \in Trashed : status[m]["trash"] = "applying"
  /\ \A m \in current : \A p \in Event(m) : status[m][p] = "applying"
  /\ phase = "labels" => \A m \in Msg : Mutation(m) # {} =>
                           \A k \in Mutation(m) : status[m][k] = "applying"

\* What the answers say is so.
Accepted ==
  \A m \in Msg :
    /\ phase \in {"trash", "labels"} /\ answer[m] = "ok" => Request(m) \subseteq did[m]
    /\ phase = "calendar" /\ answer[m] = "ok" =>
         \E p \in Event(m) : calendar[m] \in {p, "deleted"}
    /\ m \in handled \ failed => \E p \in Event(m) : calendar[m] \in {p, "deleted"}

\* A link that says applied names the event that is or was in the calendar
\* (CalendarLinksRepository.upsert).
LinkTruthful ==
  \A m \in Msg : link[m][2] = "applied" => calendar[m] \in {link[m][1], "deleted"}

\* The inductive invariant of ActionLedgerProofs: what a run knows at each point
\* of itself, of the ledger and of Google.
LedgerInv == TypeOK /\ PlanSound /\ PhaseSound /\ Marked /\ Accepted /\ LinkTruthful

=============================================================================
