------------------------------ MODULE Gateway ------------------------------
(* The publisher's AI gateway (gateway/src): typed requests of one user, served
   by function instances that share two Firestore documents, the consent
   receipt and the usage counters.  Every await of a request is a step; between
   two of them other requests, the user's own connect and disconnect, the
   operator and the clock move on.  A transaction on the counters uses the
   windows its request fixed before it started it. *)
EXTENDS Naturals, FiniteSets

CONSTANTS Calls,         \* requests that may be under way at the same time
          Windows,       \* the windows of the allowance
          Length, Limit, \* of a window: its length in minutes, the requests it allows
          MaxTime,       \* bound: minutes the model runs
          MaxRequests,   \* bound: AI requests
          MaxChanges     \* bound: connects, disconnects, blocks and redeploys

ASSUME GatewayAssumption ==
  /\ IsFiniteSet(Calls)
  /\ Length \in [Windows -> Nat \ {0}] /\ Limit \in [Windows -> Nat \ {0}]
  /\ {MaxTime, MaxRequests, MaxChanges} \subseteq Nat

VARIABLES now,       \* minutes
          usage,     \* the usage document: window and count, per window length
          receipt,   \* the user document: status and accepted policy version
          policy,    \* the disclosure version this deployment publishes
          call,      \* call[c]: an AI request
          consent,   \* the connect under way: its step and the version it accepts
          requests, changes,
          spent,     \* observer: spent[w][k], requests of window k that cost a provider call
          reserved,  \* observer: reserved[w][k], reservations made in window k
          forgotten, \* observer: forgotten[w][k], reservations of window k its count has lost
          late       \* observer: late[w][k], refunds taken off window k of requests of another

document == <<usage, receipt, policy>>
observed == <<spent, reserved, forgotten, late>>
vars     == <<now, usage, receipt, policy, call, consent, requests, changes,
              spent, reserved, forgotten, late>>

Times  == 0..MaxTime
\* at is the moment whose windows the next transaction of the request uses, made
\* the one whose windows its reservation used.
Idle   == [pc |-> "idle", at |-> 0, made |-> 0, policy |-> 1, covered |-> FALSE]
\* windows(now): the index of the window of length w that t falls in.
Window(w, t) == t \div Length[w]
\* Observer: one more in the window of w that t falls in.
Tally(f, t) == [w \in Windows |-> [f[w] EXCEPT ![Window(w, t)] = @ + 1]]
NothingYet == [w \in Windows |-> [k \in Times |-> 0]]
Change == changes < MaxChanges /\ changes' = changes + 1

(* ---- quota.ts -------------------------------------------------------------- *)

\* Mutant: the count is not bound to its window.
CountForever(w, t) == usage[w].count

\* The count of the window of t; another window's count is no count.
Count(w, t) == IF usage[w].window = Window(w, t) THEN usage[w].count ELSE 0

\* Mutant: one request too many.
ExhaustedLate(t) == \E w \in Windows : Count(w, t) > Limit[w]

Exhausted(t) == \E w \in Windows : Count(w, t) >= Limit[w]

Counted(t) == [w \in Windows |-> [window |-> Window(w, t), count |-> Count(w, t) + 1]]

\* A refund comes off the windows of the moment it is made at, if the document is at them.
Refunded(t) ==
  [w \in Windows |->
     IF usage[w].window = Window(w, t) /\ usage[w].count > 0
       THEN [usage[w] EXCEPT !.count = @ - 1] ELSE usage[w]]

\* Observer: this refund comes off a window its request was not counted in.
Misplaced(c, w) ==
  /\ usage[w].window = Window(w, call[c].at) /\ usage[w].count > 0
  /\ Window(w, call[c].made) # Window(w, call[c].at)

\* Observer: the count of a window that the document is not at starts anew, without
\* what was reserved in it before.
Forget(t) ==
  [w \in Windows |->
     IF usage[w].window = Window(w, t) THEN forgotten[w]
     ELSE [forgotten[w] EXCEPT ![Window(w, t)] = reserved[w][Window(w, t)]]]

(* ---- entitlements.ts ------------------------------------------------------- *)

\* Mutant: an acceptance of any disclosure is enough.
EntitledOnce(published) == receipt.status = "active"

\* requireCurrentEntitlement, by an instance that publishes this version.
Entitled(published) == receipt.status = "active" /\ receipt.version = published

\* Observer: a receipt that becomes current covers the requests under way.
CoveredBy(r) ==
  [c \in Calls |-> IF call[c].pc = "idle" THEN call[c]
                   ELSE [call[c] EXCEPT !.covered = @ \/ (r.status = "active" /\ r.version = call[c].policy)]]

\* recordConsent: the accepted version must be the published one; read the status.
StartConsent ==
  /\ consent.pc = "idle" /\ receipt.status # "blocked"
  /\ Change
  /\ consent' = [pc |-> "set", version |-> policy]
  /\ UNCHANGED <<now, document, call, requests, observed>>

\* ... and write the receipt, whatever happened to it meanwhile.
RecordConsent ==
  /\ consent.pc = "set"
  /\ receipt' = [status |-> "active", version |-> consent.version]
  /\ consent' = [consent EXCEPT !.pc = "idle"]
  /\ call' = CoveredBy(receipt')
  /\ UNCHANGED <<now, usage, policy, requests, changes, observed>>

\* revokeEntitlement: a merge that leaves the version.
RevokeEntitlement ==
  /\ Change
  /\ receipt.status # "revoked"
  /\ receipt' = [receipt EXCEPT !.status = "revoked"]
  /\ UNCHANGED <<now, usage, policy, call, consent, requests, observed>>

\* The operator blocks the user.
Block ==
  /\ Change
  /\ receipt.status # "blocked"
  /\ receipt' = [receipt EXCEPT !.status = "blocked"]
  /\ UNCHANGED <<now, usage, policy, call, consent, requests, observed>>

\* A deployment publishes a new disclosure.
Redeploy ==
  /\ Change
  /\ policy' = policy + 1
  /\ UNCHANGED <<now, usage, receipt, call, consent, requests, observed>>

(* ---- app.ts: classify and draft -------------------------------------------- *)

\* Kill switch and contract version passed, identity being verified.
Receive(c) ==
  /\ call[c].pc = "idle" /\ requests < MaxRequests
  /\ requests' = requests + 1
  /\ call' = [call EXCEPT ![c] = [pc |-> "identity", at |-> 0, made |-> 0, policy |-> policy, covered |-> Entitled(policy)]]
  /\ UNCHANGED <<now, document, consent, changes, observed>>

\* Identity, entitlement, schema: the first that fails answers the request.  Then
\* the windows of the reservation are those of now.
Authorize(c) ==
  /\ call[c].pc = "identity"
  /\ call' = [call EXCEPT ![c] = IF Entitled(@.policy) THEN [@ EXCEPT !.pc = "reserve", !.at = now]
                                 ELSE Idle]
  /\ UNCHANGED <<now, document, consent, requests, changes, observed>>

Reject(c) ==
  /\ call[c].pc \in {"identity", "reserve"}
  /\ call' = [call EXCEPT ![c] = Idle]
  /\ UNCHANGED <<now, document, consent, requests, changes, observed>>

\* reserveRequest: one transaction, committed after others and perhaps in a later
\* window, which it then writes back.
Reserve(c) ==
  /\ call[c].pc = "reserve" /\ ~Exhausted(call[c].at)
  /\ usage' = Counted(call[c].at)
  /\ reserved' = Tally(reserved, call[c].at) /\ forgotten' = Forget(call[c].at)
  /\ call' = [call EXCEPT ![c].pc = "provider", ![c].made = call[c].at]
  /\ UNCHANGED <<now, receipt, policy, consent, requests, changes, spent, late>>

OverQuota(c) ==
  /\ call[c].pc = "reserve" /\ Exhausted(call[c].at)
  /\ call' = [call EXCEPT ![c] = Idle]
  /\ UNCHANGED <<now, document, consent, requests, changes, observed>>

\* Mutant: a timeout is given back too.
RefundsTimeouts == {"rejected", "ambiguous"}

\* Only 400, 401 and 429 say that the provider never took the request.
Refundable == {"rejected"}

\* The answer, and whether the provider took the request and charges for it.
Outcomes == {<<"answered", TRUE>>, <<"ambiguous", TRUE>>, <<"ambiguous", FALSE>>, <<"rejected", FALSE>>}

\* A refund takes the windows of the moment of the answer.
ProviderAnswers(c) ==
  /\ call[c].pc = "provider"
  /\ \E o \in Outcomes :
       /\ spent' = IF o[2] THEN Tally(spent, call[c].made) ELSE spent
       /\ call' = [call EXCEPT ![c] = IF o[1] \in Refundable THEN [@ EXCEPT !.pc = "refund", !.at = now]
                                      ELSE Idle]
  /\ UNCHANGED <<now, document, consent, requests, changes, reserved, forgotten, late>>

\* releaseReservation: one transaction.
Release(c) ==
  /\ call[c].pc = "refund"
  /\ usage' = Refunded(call[c].at)
  /\ late' = [w \in Windows |-> [late[w] EXCEPT ![Window(w, call[c].at)] =
                                   IF Misplaced(c, w) THEN @ + 1 ELSE @]]
  /\ call' = [call EXCEPT ![c] = Idle]
  /\ UNCHANGED <<now, receipt, policy, consent, requests, changes, spent, reserved, forgotten>>

\* The refund's transaction fails and is swallowed, or the instance dies.
ReleaseFails(c) ==
  /\ call[c].pc = "refund"
  /\ call' = [call EXCEPT ![c] = Idle]
  /\ UNCHANGED <<now, document, consent, requests, changes, observed>>

Tick ==
  /\ now < MaxTime /\ now' = now + 1
  /\ UNCHANGED <<document, call, consent, requests, changes, observed>>

Init ==
  /\ now = 0
  /\ usage = [w \in Windows |-> [window |-> 0, count |-> 0]]
  /\ receipt = [status |-> "none", version |-> 0]
  /\ policy = 1
  /\ call = [c \in Calls |-> Idle]
  /\ consent = [pc |-> "idle", version |-> 0]
  /\ requests = 0 /\ changes = 0
  /\ spent = NothingYet /\ reserved = NothingYet
  /\ forgotten = NothingYet /\ late = NothingYet

Next ==
  \/ \E c \in Calls :
       \/ Receive(c) \/ Authorize(c) \/ Reject(c) \/ Reserve(c) \/ OverQuota(c)
       \/ ProviderAnswers(c) \/ Release(c) \/ ReleaseFails(c)
  \/ StartConsent \/ RecordConsent \/ RevokeEntitlement \/ Block \/ Redeploy \/ Tick

Spec == Init /\ [][Next]_vars

(* ---- properties ------------------------------------------------------------ *)

\* Types; no counter passes its limit and no window lies in the future.
TypeOK ==
  /\ now \in Times /\ policy \in 1..(MaxChanges + 1)
  /\ \A w \in Windows : usage[w].window \in 0..Window(w, now) /\ usage[w].count \in 0..Limit[w]
  /\ receipt \in [status : {"none", "active", "revoked", "blocked"}, version : 0..policy]
  /\ call \in [Calls -> [pc : {"idle", "identity", "reserve", "provider", "refund"},
                         at : Times, made : Times, policy : 1..policy, covered : BOOLEAN]]
  /\ consent \in [pc : {"idle", "set"}, version : 0..policy]
  /\ \A observer \in {spent, reserved, forgotten, late} : observer \in [Windows -> [Times -> Nat]]
  /\ requests \in 0..MaxRequests /\ changes \in 0..MaxChanges

\* However many requests run at once, the provider calls paid for in a window
\* exceed its allowance at most by the refunds that were taken off this window for
\* requests counted in another one, and, where a late transaction took the document
\* to another window and a later one back, by the reservations made before
\* (quota.ts:8, quota.ts:57, quota.ts:99).
AllowanceKept ==
  \A w \in Windows, k \in Times : spent[w][k] <= Limit[w] + forgotten[w][k] + late[w][k]

\* A user is never charged in a window for what was reserved in another one
\* (quota.ts:65).
NothingCarriedOver ==
  \A w \in Windows : usage[w].count <= reserved[w][usage[w].window]

\* The provider sees message text only of a request during which a receipt for
\* the disclosure published at its start was active, whatever connect, disconnect,
\* block or redeploy ran meanwhile (app.ts:46, entitlements.ts:101).
NoCallWithoutConsent == \A c \in Calls : call[c].pc = "provider" => call[c].covered
=============================================================================
