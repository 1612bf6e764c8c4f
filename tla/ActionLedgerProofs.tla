-------------------------- MODULE ActionLedgerProofs --------------------------
(***************************************************************************)
(* The invariant of the action ledger and what follows from it, for any    *)
(* messages, payloads, runs and faults.                                    *)
(***************************************************************************)
EXTENDS ActionLedger, TLAPS

\* What a plan of the policy looks like to the run (finalizeOutcome).
LEMMA PlanFacts ==
  ASSUME NEW q \in Plans
  PROVE  /\ q \subseteq Key
         /\ \A p1, p2 \in q \cap Payload : p1 = p2
         /\ q \cap Consequence # {} => q \cap Payload # {} /\ "trash" \notin q
BY PayloadAssumption, SMT DEF Plans, Key, Kind, Gmail, Label, Consequence

\* The mutation of a message holds no Trash and no event.
LEMMA MutationFacts ==
  ASSUME NEW m \in Msg
  PROVE  Mutation(m) \subseteq Surviving(m) /\ Surviving(m) \subseteq Gmail
BY DEF Mutation, Surviving

\* A message whose event is being inserted has exactly one event.
LEMMA OneEvent ==
  ASSUME LedgerInv, NEW n \in current
  PROVE  \E p \in Payload : Event(n) = {p} /\ (CHOOSE q \in Event(n) : TRUE) = p
<1>1. n \in Events /\ plan[n] \in Plans
  BY DEF LedgerInv, PlanSound, PhaseSound, Events
<1>2. PICK p \in Event(n) : \A q \in Event(n) : q = p
  BY <1>1, PlanFacts DEF Events, Event
<1>3. p \in Payload /\ Event(n) = {p}
  BY <1>2 DEF Event
<1> QED BY <1>3

\* Which answers a link records, and as what.
LEMMA LinkFacts ==
  /\ DOMAIN LinkAfter = {"ok", "collision"}
  /\ LinkAfter["ok"] = "applied" /\ LinkAfter["collision"] = "failed"
BY DEF LinkAfter

\* The first state satisfies the invariant.
LEMMA InitLedger == Init => LedgerInv
BY BoundAssumption DEF Init, LedgerInv, TypeOK, PlanSound, PhaseSound, Marked, Accepted,
   LinkTruthful, Plans, Statuses, Answers, NoLink, NoAnswer

\* One step per action of the specification.
LEMMA StepLedger == LedgerInv /\ [Next]_vars => LedgerInv'
<1> SUFFICES ASSUME LedgerInv, [Next]_vars PROVE LedgerInv'
  OBVIOUS
<1> USE DEF LedgerInv
<1>1. ASSUME StartRun PROVE LedgerInv'
  <2> USE <1>1 DEF StartRun
  <2>1. TypeOK'
    <3>1. \A m \in Msg, k \in Key : Reconciled(status[m][k]) \in Statuses
      BY DEF TypeOK, Reconciled, Statuses
    <3>2. plan' \in [Msg -> SUBSET Key]
      BY PlanFacts DEF TypeOK
    <3>3. status' \in [Msg -> [Key -> Statuses]]
      BY <3>1 DEF Statuses
    <3> QED BY <3>2, <3>3, BoundAssumption DEF TypeOK, Fault, FaultIf
  <2>2. PlanSound' /\ PhaseSound' /\ Marked' /\ LinkTruthful'
    BY DEF TypeOK, PlanSound, PhaseSound, Marked, LinkTruthful
  <2>3. Accepted'
    BY DEF PhaseSound, Accepted
  <2> QED BY <2>1, <2>2, <2>3
<1>2. ASSUME StartTrash PROVE LedgerInv'
  <2> USE <1>2 DEF StartTrash, Mark
  <2>1. TypeOK'
    BY DEF TypeOK, Statuses
  <2>2. PlanSound' /\ PhaseSound' /\ LinkTruthful'
    BY DEF TypeOK, PlanSound, PhaseSound, LinkTruthful
  <2>3. Marked'
    BY DEF PhaseSound, Marked, Trashed, Key, Kind
  <2>4. Accepted'
    BY DEF PhaseSound, Accepted, NoAnswer
  <2> QED BY <2>1, <2>2, <2>3, <2>4
<1>3. ASSUME RecordTrash PROVE LedgerInv'
  <2> USE <1>3 DEF RecordTrash
  <2>1. TypeOK'
    BY DEF TypeOK, Statuses, NoAnswer, Answers
  <2>2. PlanSound' /\ PhaseSound' /\ Marked' /\ LinkTruthful'
    BY DEF TypeOK, PlanSound, PhaseSound, Marked, LinkTruthful, NoAnswer, Events, Event
  <2>3. Accepted'
    BY DEF PhaseSound, Accepted, NoAnswer
  <2> QED BY <2>1, <2>2, <2>3
<1>4. ASSUME StartLabels PROVE LedgerInv'
  <2> USE <1>4 DEF StartLabels
  <2>1. TypeOK'
    BY DEF TypeOK, Statuses
  <2>2. current = {}
    BY DEF PhaseSound
  <2>3. PlanSound' /\ PhaseSound' /\ LinkTruthful'
    BY <2>2 DEF TypeOK, PlanSound, PhaseSound, LinkTruthful, Events, Event
  <2>4. Marked'
    <3>1. \A m \in Msg : Mutation(m)' = Mutation(m)
      BY DEF Mutation, Surviving
    <3>2. \A m \in Msg : \A k \in Mutation(m) :
            k \in Key /\ k \in Surviving(m) /\ ~(m \in failed /\ k \in plan[m] \cap Consequence)
      BY DEF Mutation, Surviving, Key, Kind
    <3> QED BY <2>2, <3>1, <3>2 DEF Marked
  <2>5. Accepted'
    BY <2>2 DEF PhaseSound, Accepted, Event
  <2> QED BY <2>1, <2>3, <2>4, <2>5
<1>5. ASSUME RecordLabels PROVE LedgerInv'
  <2> USE <1>5 DEF RecordLabels, Forget
  <2>1. TypeOK'
    BY DEF TypeOK, Statuses, NoAnswer, Answers
  <2>2. PlanSound' /\ PhaseSound' /\ Marked' /\ Accepted' /\ LinkTruthful'
    BY DEF TypeOK, PlanSound, PhaseSound, Marked, Accepted, LinkTruthful, Plans
  <2> QED BY <2>1, <2>2
<1>6. ASSUME Crash PROVE LedgerInv'
  <2> USE <1>6 DEF Crash, Forget, Fault
  <2>1. TypeOK'
    BY BoundAssumption DEF TypeOK, NoAnswer, Answers
  <2>2. PlanSound' /\ PhaseSound' /\ Marked' /\ Accepted' /\ LinkTruthful'
    BY DEF TypeOK, PlanSound, PhaseSound, Marked, Accepted, LinkTruthful, Plans
  <2> QED BY <2>1, <2>2
<1>7. ASSUME NEW n \in Msg, Send(n) PROVE LedgerInv'
  <2> USE <1>7 DEF Send
  <2>1. Request(n) \subseteq Key
    BY MutationFacts DEF Request, Key, Kind
  <2>2. PICK a \in {"ok", "error"} : answer' = [answer EXCEPT ![n] = a]
    OBVIOUS
  <2>3. TypeOK'
    BY <2>1, <2>2, BoundAssumption DEF TypeOK, Answers, Fault, FaultIf
  <2>4. PlanSound' /\ PhaseSound' /\ LinkTruthful'
    BY <2>2 DEF TypeOK, PlanSound, PhaseSound, LinkTruthful, Events, Event
  <2>5. Marked'
    BY DEF Marked, Mutation, Surviving, Trashed, Event
  <2>6. Accepted'
    <3>1. \A m \in Msg : Request(m)' = Request(m) /\ did[m] \subseteq did'[m]
      BY DEF TypeOK, Request, Mutation, Surviving
    <3>2. answer'[n] = "ok" => Request(n) \subseteq did'[n]
      BY DEF TypeOK
    <3>3. \A m \in Msg : m # n => answer'[m] = answer[m]
      BY DEF TypeOK
    <3> QED BY <3>1, <3>2, <3>3 DEF Accepted, Event
  <2> QED BY <2>3, <2>4, <2>5, <2>6
<1>8. ASSUME NEW n \in Msg, StartInsert(n) PROVE LedgerInv'
  <2> USE <1>8 DEF StartInsert, Mark
  <2>1. TypeOK'
    BY DEF TypeOK, Statuses
  <2>2. PlanSound' /\ PhaseSound' /\ LinkTruthful'
    BY DEF TypeOK, PlanSound, PhaseSound, LinkTruthful, Events, Event
  <2>3. Marked'
    BY DEF TypeOK, Marked, Event, Key
  <2>4. Accepted'
    BY DEF PhaseSound, Accepted, Event
  <2> QED BY <2>1, <2>2, <2>3, <2>4
<1>9. ASSUME NEW n \in Msg, Insert(n) PROVE LedgerInv'
  <2> USE <1>9 DEF Insert
  <2>1. PICK p \in Payload : Event(n) = {p} /\ (CHOOSE q \in Event(n) : TRUE) = p
    BY OneEvent
  <2>2. calendar' \in {calendar, Inserted(n)}
    OBVIOUS
  <2>3. \A m \in Msg : m # n => calendar'[m] = calendar[m] /\ answer'[m] = answer[m]
    BY <2>2 DEF TypeOK, Inserted
  <2>4. calendar[n] # "free" => calendar'[n] = calendar[n]
    BY <2>2 DEF TypeOK, Inserted
  <2>5. answer'[n] = "ok" => calendar'[n] \in {p, "deleted"}
    <3>1. CASE answer' = [answer EXCEPT ![n] = "error"]
      BY <3>1 DEF TypeOK
    <3>2. CASE calendar' = Inserted(n) /\ answer' = [answer EXCEPT ![n] = Insertion(n)]
      BY <2>1, <3>2 DEF TypeOK, Inserted, Insertion
    <3> QED BY <3>1, <3>2
  <2>6. TypeOK'
    <3>1. calendar' \in [Msg -> {"free", "deleted"} \cup Payload]
      <4>1. CASE calendar' = calendar
        BY <4>1 DEF TypeOK
      <4>2. CASE calendar' = Inserted(n)
        <5>1. calendar' = [calendar EXCEPT ![n] = IF @ = "free" THEN p ELSE @]
          BY <2>1, <4>2 DEF Inserted
        <5> QED BY <2>1, <5>1 DEF TypeOK
      <4> QED BY <2>2, <4>1, <4>2
    <3>2. answer' \in [Msg -> Answers]
      BY DEF TypeOK, Insertion, Answers
    <3> QED BY <3>1, <3>2, BoundAssumption DEF TypeOK, Fault
  <2>7. PlanSound' /\ PhaseSound' /\ Marked'
    BY <2>3 DEF PlanSound, PhaseSound, Marked, Mutation, Surviving, Events, Event
  <2>8. Accepted'
    BY <2>1, <2>3, <2>5 DEF PhaseSound, Accepted, Event
  <2>9. LinkTruthful'
    <3>1. ASSUME NEW m \in Msg, link[m][2] = "applied"
          PROVE  link[m][1] \in Payload /\ calendar[m] \in {link[m][1], "deleted"}
      <4>1. link[m] # NoLink
        BY <3>1 DEF NoLink
      <4> QED BY <3>1, <4>1 DEF TypeOK, LinkTruthful
    <3>2. ASSUME NEW m \in Msg, link[m][2] = "applied"
          PROVE  calendar'[m] = calendar[m]
      BY <2>3, <2>4, <3>1, <3>2, PayloadAssumption
    <3> QED BY <3>1, <3>2 DEF LinkTruthful
  <2> QED BY <2>6, <2>7, <2>8, <2>9
<1>10. ASSUME NEW n \in Msg, RecordInsert(n) PROVE LedgerInv'
  <2>1. PICK p \in Payload : Event(n) = {p} /\ (CHOOSE q \in Event(n) : TRUE) = p
    BY <1>10, OneEvent DEF RecordInsert
  <2>2. /\ phase = "calendar" /\ n \in current /\ n \in Msg
        /\ failed' = (IF answer[n] = "ok" THEN failed ELSE failed \cup {n})
        /\ handled' = handled \cup {n} /\ current' = {}
        /\ answer' = [answer EXCEPT ![n] = "none"]
        /\ UNCHANGED <<calendar, phase, plan, missing, did, runs, faults>>
    BY <1>10 DEF RecordInsert
  <2>3. answer[n] \in {"ok", "error", "collision", "ambiguous"}
    BY <1>10 DEF RecordInsert, TypeOK, Answers
  <2>4. answer[n] = "ok" => calendar[n] \in {p, "deleted"}
    BY <2>1, <2>2 DEF Accepted
  <2>5. \/ link' = [link EXCEPT ![n] = <<p, "applied">>] /\ answer[n] = "ok"
        \/ link' = [link EXCEPT ![n] = <<p, "failed">>]
        \/ link' = link
    <3>1. link' = IF answer[n] \in DOMAIN LinkAfter
                  THEN [link EXCEPT ![n] = <<p, LinkAfter[answer[n]]>>]
                  ELSE link
      BY <1>10, <2>1 DEF RecordInsert
    <3> QED BY <2>3, <3>1, LinkFacts
  <2>6. TypeOK'
    <3>1. status' \in [Msg -> [Key -> Statuses]]
      BY <1>10, <2>3 DEF RecordInsert, TypeOK, Mark, RowAfter, Statuses
    <3>2. link' \in [Msg -> {NoLink} \cup (Payload \X {"applied", "failed"})]
      BY <2>2, <2>5 DEF TypeOK
    <3>3. answer' \in [Msg -> Answers]
      BY <2>2 DEF TypeOK, Answers
    <3> QED BY <2>2, <3>1, <3>2, <3>3 DEF TypeOK
  <2>7. PlanSound' /\ PhaseSound' /\ Marked'
    BY <2>2 DEF TypeOK, PlanSound, PhaseSound, Marked, Events, Event
  <2>8. Accepted'
    BY <2>1, <2>2, <2>4 DEF TypeOK, PhaseSound, Accepted, Event
  <2>9. LinkTruthful'
    BY <2>2, <2>4, <2>5 DEF TypeOK, LinkTruthful
  <2> QED BY <2>6, <2>7, <2>8, <2>9
<1>11. ASSUME NEW n \in Msg, DeleteEvent(n) PROVE LedgerInv'
  <2> USE <1>11 DEF DeleteEvent, memory
  <2>1. \A m \in Msg : calendar'[m] = (IF m = n THEN "deleted" ELSE calendar[m])
    BY DEF TypeOK
  <2>2. TypeOK'
    BY DEF TypeOK
  <2>3. PlanSound' /\ PhaseSound' /\ Marked'
    BY DEF PlanSound, PhaseSound, Marked, Mutation, Surviving, Trashed, Events, Event
  <2>4. Accepted'
    BY <2>1 DEF Accepted, Request, Mutation, Surviving, Event
  <2>5. LinkTruthful'
    BY <2>1 DEF LinkTruthful
  <2> QED BY <2>2, <2>3, <2>4, <2>5
<1>12. ASSUME UNCHANGED vars PROVE LedgerInv'
  BY <1>12 DEF vars, TypeOK, PlanSound, PhaseSound, Marked, Accepted, LinkTruthful,
     Request, Mutation, Surviving, Trashed, Events, Event
<1> QED BY <1>1, <1>2, <1>3, <1>4, <1>5, <1>6, <1>7, <1>8, <1>9, <1>10, <1>11, <1>12
    DEF Next

-----------------------------------------------------------------------------
\* Every reachable state satisfies the invariant: what a run knows of itself, of
\* the ledger and of Google at each point of runWork's writing half.
THEOREM LedgerInvariant == Spec => []LedgerInv
BY InitLedger, StepLedger, PTL DEF Spec

\* Every reachable state of the calendar, the ledger and the run is well typed.
THEOREM TypeCorrect == Spec => []TypeOK
<1>1. LedgerInv => TypeOK
  BY DEF LedgerInv
<1> QED BY <1>1, LedgerInvariant, PTL

\* A calendar link that says applied never names an event that was not created.
THEOREM LinksAreTrue == Spec => []LinkTruthful
<1>1. LedgerInv => LinkTruthful
  BY DEF LedgerInv
<1> QED BY <1>1, LedgerInvariant, PTL

\* No run files a message on the strength of an event that was not created
\* (actionsAfterCalendarOutcome), whatever fails, collides or crashes.
THEOREM FilingNeedsEvent == Spec => FiledOnlyWithEvent
<1>1. LedgerInv /\ [Next]_vars =>
        [\A m \in Msg :
           (did'[m] \ did[m]) \cap Consequence # {} =>
             \E p \in Event(m) : calendar[m] \in {p, "deleted"}]_vars
  <2> SUFFICES ASSUME LedgerInv, Next, NEW m \in Msg,
                      (did'[m] \ did[m]) \cap Consequence # {}
               PROVE  \E p \in Event(m) : calendar[m] \in {p, "deleted"}
    OBVIOUS
  <2>1. ASSUME NEW n \in Msg, Send(n)
        PROVE  \E p \in Event(m) : calendar[m] \in {p, "deleted"}
    <3>1. m = n /\ phase = "labels" /\ Mutation(m) \cap Consequence # {}
      BY <2>1 DEF Send, Request, Consequence, LedgerInv, TypeOK
    <3>2. m \notin failed /\ plan[m] \cap Consequence # {}
      BY <3>1 DEF Mutation, Surviving
    <3>3. m \in Events
      BY <3>2, PlanFacts DEF LedgerInv, PlanSound, Events, Event
    <3>4. m \in handled
      BY <3>1, <3>3 DEF LedgerInv, PhaseSound
    <3> QED BY <3>2, <3>4 DEF LedgerInv, Accepted
  <2>2. ASSUME StartRun PROVE FALSE
    BY <2>2 DEF StartRun, LedgerInv, TypeOK
  <2>3. did' # did
    OBVIOUS
  <2> QED BY <2>1, <2>2, <2>3 DEF Next, StartTrash, RecordTrash, StartLabels, RecordLabels,
          Crash, StartInsert, Insert, RecordInsert, DeleteEvent
<1> QED BY <1>1, LedgerInvariant, PTL DEF Spec, FiledOnlyWithEvent

\* Gmail and the calendar are never changed for a row that does not say applying.
THEOREM MarkedAhead == Spec => WriteAhead
<1>1. LedgerInv /\ [Next]_vars =>
        [\A m \in Msg :
           /\ \A k \in did'[m] \ did[m] : status[m][k] = "applying"
           /\ \A p \in Payload :
                calendar[m] = "free" /\ calendar'[m] = p => status[m][p] = "applying"]_vars
  <2> SUFFICES ASSUME LedgerInv, Next, NEW m \in Msg
               PROVE  /\ \A k \in did'[m] \ did[m] : status[m][k] = "applying"
                      /\ \A p \in Payload : calendar[m] = "free" /\ calendar'[m] = p =>
                           status[m][p] = "applying"
    OBVIOUS
  <2> USE DEF LedgerInv
  <2>1. ASSUME NEW n \in Msg, Send(n), NEW k \in did'[m] \ did[m]
        PROVE  status[m][k] = "applying"
    <3>1. m = n /\ k \in Request(m) /\ phase \in {"trash", "labels"} /\ m \in Targets
      BY <2>1 DEF Send, TypeOK
    <3> QED BY <3>1 DEF Marked, Request, Targets
  <2>2. ASSUME NEW n \in Msg, Insert(n), NEW p \in Payload, calendar[m] = "free",
               calendar'[m] = p
        PROVE  status[m][p] = "applying"
    <3>1. PICK q \in Payload : Event(n) = {q} /\ (CHOOSE r \in Event(n) : TRUE) = q
      BY <2>2, OneEvent DEF Insert
    <3>2. "free" \notin Payload
      BY PayloadAssumption
    <3>3. calendar' = Inserted(n) /\ m = n
      BY <2>2, <3>2 DEF Insert, Inserted, TypeOK
    <3>4. p = q
      BY <2>2, <3>1, <3>3 DEF Inserted, TypeOK
    <3> QED BY <2>2, <3>1, <3>3, <3>4 DEF Insert, Marked
  <2>3. StartRun => did'[m] = {} /\ calendar' = calendar
    BY DEF StartRun
  <2>4. \A n \in Msg : DeleteEvent(n) => calendar'[m] \in {calendar[m], "deleted"} /\ did' = did
    BY DEF DeleteEvent, TypeOK
  <2>5. "deleted" \notin Payload /\ "free" \notin Payload
    BY PayloadAssumption
  <2>6. \A n \in Msg : Send(n) => calendar' = calendar
    BY DEF Send
  <2>7. \A n \in Msg : Insert(n) => did' = did
    BY DEF Insert
  <2>8. \/ StartRun
        \/ \E n \in Msg : Send(n) \/ Insert(n) \/ DeleteEvent(n)
        \/ did' = did /\ calendar' = calendar
    BY DEF Next, StartTrash, RecordTrash, StartLabels, RecordLabels, Crash, StartInsert,
       RecordInsert
  <2> QED BY <2>1, <2>2, <2>3, <2>4, <2>5, <2>6, <2>7, <2>8
<1> QED BY <1>1, LedgerInvariant, PTL DEF Spec, WriteAhead

\* The ledger says applied only of what Google has carried out, for every row but
\* those of labels (markActions after applyGroupedLabelMutations and
\* insertIdempotentEvent).
THEOREM AppliedIsDone == Spec => AppliedWasDone
<1>1. LedgerInv /\ [Next]_vars =>
        [\A m \in Msg : \A k \in Key \ Label :
           status[m][k] # "applied" /\ status'[m][k] = "applied" => Done(m, k)]_vars
  <2> SUFFICES ASSUME LedgerInv, Next, NEW m \in Msg, NEW k \in Key \ Label,
                      status[m][k] # "applied", status'[m][k] = "applied"
               PROVE  Done(m, k)
    OBVIOUS
  <2> USE DEF LedgerInv
  <2>1. CASE RecordTrash
    <3>1. m \in Trashed /\ k = "trash" /\ answer[m] = "ok" /\ phase = "trash"
      BY <2>1 DEF RecordTrash
    <3>2. Request(m) \subseteq did[m] /\ Request(m) = {"trash"}
      BY <3>1 DEF Accepted, Request
    <3>3. k \notin Payload
      BY <3>1, PayloadAssumption DEF Kind
    <3> QED BY <3>1, <3>2, <3>3 DEF Done
  <2>2. CASE RecordLabels
    <3>1. phase = "labels" /\ k \in Surviving(m) /\ answer[m] = "ok"
      BY <2>2 DEF RecordLabels
    <3>2. k \in Mutation(m)
      BY <3>1 DEF Mutation, TypeOK
    <3>3. k \in did[m]
      BY <3>1, <3>2 DEF Accepted, Request
    <3>4. k \notin Payload
      BY <3>1, MutationFacts, PayloadAssumption DEF Kind
    <3> QED BY <3>3, <3>4 DEF Done
  <2>3. ASSUME NEW n \in Msg, RecordInsert(n) PROVE Done(m, k)
    <3>1. PICK p \in Payload : Event(n) = {p}
      BY <2>3, OneEvent DEF RecordInsert
    <3>2. m = n /\ k = p /\ RowAfter[answer[n]] = "applied"
      BY <2>3, <3>1 DEF RecordInsert, Mark
    <3>3. answer[n] \in {"ok", "error", "collision", "ambiguous"} /\ phase = "calendar"
      BY <2>3 DEF RecordInsert, TypeOK, Answers
    <3>4. answer[n] = "ok"
      BY <3>2, <3>3 DEF RowAfter
    <3>5. calendar[m] \in {p, "deleted"}
      BY <3>1, <3>2, <3>3, <3>4 DEF Accepted
    <3> QED BY <3>2, <3>5 DEF Done
  <2>4. ~StartRun
    <3>1. StartRun => status'[m][k] \in {"planned", Reconciled(status[m][k])}
      BY DEF StartRun
    <3> QED BY <3>1 DEF Reconciled
  <2>5. ~StartTrash /\ ~StartLabels /\ \A n \in Msg : ~StartInsert(n)
    <3>1. StartTrash => status'[m][k] \in {status[m][k], "applying"}
      BY DEF StartTrash, Mark
    <3>2. StartLabels =>
            status'[m][k] \in {status[m][k], "applying", "skipped_conflict"}
      BY DEF StartLabels
    <3>3. \A n \in Msg : StartInsert(n) => status'[m][k] \in {status[m][k], "applying"}
      BY DEF StartInsert, Mark
    <3> QED BY <3>1, <3>2, <3>3
  <2>6. ~Crash /\ \A n \in Msg : ~Send(n) /\ ~Insert(n) /\ ~DeleteEvent(n)
    BY DEF Crash, Send, Insert, DeleteEvent
  <2> QED BY <2>1, <2>2, <2>3, <2>4, <2>5, <2>6 DEF Next
<1> QED BY <1>1, LedgerInvariant, PTL DEF Spec, AppliedWasDone

=============================================================================
