----------------------------- MODULE ViewLoader -----------------------------
(***************************************************************************)
(* The scheduling of ProgressiveViewCache (src/gmail/view-cache.ts): one   *)
(* pump that reads the folders page by page, demands of the screen that    *)
(* jump the queue, callers that sleep until the loader makes progress, and *)
(* the session's ViewOperationCoordinator, whose single slot the pump      *)
(* shares with foreground actions while another process may own the        *)
(* account lock.  What a page does to the cache is MailSync.tla's subject. *)
(*                                                                         *)
(* All of it runs in one JavaScript thread: a promise that is settled      *)
(* resumes its callers before the next timer or answer from Gmail is       *)
(* looked at (Quiet), but the callers it resumes run in any order.         *)
(* A page is one message, the chunk of a view with page size one.          *)
(***************************************************************************)
EXTENDS Naturals, Sequences, SequencesExt

CONSTANTS
  Order,       \* the folders, as VIEW_FOLDERS lists them
  Pages,       \* per folder: pages Gmail lists
  Caller,      \* callers of ensureFolder
  MaxRows,     \* bound: rows a caller asks for
  MaxCalls,    \* bound: calls of ensureFolder
  MaxActions,  \* bound: foreground actions
  MaxPolls,    \* bound: re-tries within VIEW_LOCK_WAIT_BUDGET_MS
  NoFolder

Folder == Range(Order)

ASSUME PagesAssumption ==
  /\ Order \in Seq(Folder) /\ IsInjective(Order) /\ Order # <<>>
  /\ Pages \in [Folder -> Nat \ {0}] /\ NoFolder \notin Folder
ASSUME BoundAssumption == /\ MaxRows \in Nat \ {0} /\ MaxCalls \in Nat
                          /\ MaxActions \in Nat /\ MaxPolls \in Nat

VARIABLES
  left,        \* pages of each folder not yet listed
  listed,      \* FolderLoadState.listed: distinct ids seen
  cached,      \* rows the cache has for each folder
  blocked,     \* folders whose listing failed
  failed,      \* folders with a failed read
  target,      \* FolderDemand.cachedTarget, 0 without a demand
  limit,       \* FolderDemand.listedLimit
  priority,    \* priorityFolder
  rr,          \* roundRobinIndex
  background,  \* backgroundEnabled
  stopped, finished, fatal,
  profile,     \* the history fence was read
  pump,        \* where the pump is; "none" is running === null
  loading,      \* the folder it loads
  serving,     \* servingDemand
  polls,       \* re-tries of the present lock acquisition
  turn,        \* the coordinator's queue
  inside,      \* its head owns the account lock
  other,       \* another gmail process owns it
  caller,      \* where each caller of ensureFolder is
  want,        \* what it asked for
  stopping,    \* where the caller of stop is
  calls, actions

folders == <<left, listed, cached, blocked, failed>>
demand  == <<target, limit, priority>>
callers == <<caller, want, stopping>>
loaderVars == <<left, listed, cached, blocked, failed, target, limit, priority,
                rr, background, stopped, finished, fatal, profile, pump, loading,
                serving, polls, turn, inside, other, caller, want, stopping,
                calls, actions>>

Operations == {"profile", "chunk", "final"}
Pump == {"none", "top", "loaded", "paused", "settled"} \cup Operations

\* The types of the loader, of the coordinator's queue and of the callers.
TypeOK ==
  /\ left \in [Folder -> Nat] /\ listed \in [Folder -> Nat]
  /\ cached \in [Folder -> Nat]
  /\ blocked \in SUBSET Folder /\ failed \in SUBSET Folder
  /\ target \in [Folder -> Nat] /\ limit \in [Folder -> Nat]
  /\ priority \in Folder /\ rr \in DOMAIN Order
  /\ {background, stopped, finished, fatal, profile, serving, inside, other}
       \subseteq BOOLEAN
  /\ pump \in Pump /\ loading \in Folder
  /\ polls \in Nat
  /\ turn \in Seq(Operations \cup {"action"})
  /\ caller \in [Caller -> {"out", "ready", "waiting"}]
  /\ want \in [Caller -> [folder : Folder, rows : Nat]]
  /\ stopping \in {"out", "waiting", "back"}
  /\ calls \in Nat /\ actions \in Nat

Nothing == [folder |-> Order[1], rows |-> 0]

LoaderInit ==
  /\ left = Pages /\ listed = [f \in Folder |-> 0]
  /\ cached \in [Folder -> 0..1]
  /\ blocked = {} /\ failed = {}
  /\ target = [f \in Folder |-> 0] /\ limit = [f \in Folder |-> 0]
  /\ priority = Order[1] /\ rr = 1
  /\ background = FALSE /\ stopped = FALSE /\ finished = FALSE
  /\ fatal = FALSE /\ profile = FALSE
  /\ pump = "none" /\ loading = Order[1] /\ serving = FALSE /\ polls = 0
  /\ turn = <<>> /\ inside = FALSE /\ other \in BOOLEAN
  /\ caller = [c \in Caller |-> "out"]
  /\ want = [c \in Caller |-> Nothing]
  /\ stopping = "out"
  /\ calls = 0 /\ actions = 0

-----------------------------------------------------------------------------
Complete(f)    == left[f] = 0
AllComplete    == \A f \in Folder : Complete(f)

Loadable(f)    == ~Complete(f) /\ f \notin blocked
NeedsDemand(f) == Loadable(f) /\ listed[f] < limit[f] /\ cached[f] < target[f]
Demanded       == {f \in Folder : NeedsDemand(f)}

\* The first folder of S, counting round from the i-th.
FirstFrom(i, S) ==
  LET At(k) == Order[((i + k - 2) % Len(Order)) + 1]
      k == CHOOSE k \in DOMAIN Order :
             At(k) \in S /\ \A j \in 1 .. (k - 1) : At(j) \notin S
  IN  At(k)

PlaceAfter(g) == (SelectInSeq(Order, LAMBDA f : f = g) % Len(Order)) + 1

\* nextFolder: the folder on the screen, then any other demand, then the
\* background's round robin.
NextFolder ==
  LET rest == {f \in Folder : background /\ Loadable(f)} IN
  IF priority \in Demanded THEN priority
  ELSE IF Demanded # {} THEN FirstFrom(1, Demanded)
  ELSE IF rest # {} THEN FirstFrom(rr, rest)
  ELSE NoFolder

\* Mutant: only folders still to be loaded are work.
HasPages ==
  ~stopped /\ ~fatal /\ (Demanded # {} \/ \E f \in Folder : background /\ Loadable(f))

\* Mutant: a stopped loader still looks for work.
HasWorkStopped ==
  ~fatal /\ (Demanded # {} \/ \E f \in Folder : background /\ Loadable(f))

HasWork ==
  /\ ~stopped /\ ~fatal
  /\ \/ Demanded # {}
     \/ background /\ \E f \in Folder : Loadable(f)
     \/ background /\ ~finished /\ AllComplete

\* The coordinator has called the pump's operation.
MyTurn == pump \in Operations /\ turn # <<>> /\ Head(turn) = pump

\* Every promise that was settled has resumed its callers.
Quiet == /\ pump \notin {"top", "loaded", "settled"} /\ (MyTurn => inside)
         /\ \A c \in Caller : caller[c] # "ready"

\* Whoever sleeps in awaitProgress looks again.
Notify ==
  caller' = [c \in Caller |-> IF caller[c] = "waiting" THEN "ready" ELSE caller[c]]

Silent == UNCHANGED caller

\* kick, with the demands and the background as they are after this step.
Kick == pump' = IF pump = "none" /\ HasWork' THEN "top" ELSE pump

-----------------------------------------------------------------------------
(* The callers.                                                            *)

EnsureFolder(c, f, n) ==
  /\ caller[c] = "out" /\ calls < MaxCalls
  /\ calls' = calls + 1
  /\ caller' = [caller EXCEPT ![c] = "ready"]
  /\ want' = [want EXCEPT ![c] = [folder |-> f, rows |-> n]]
  /\ priority' = f
  /\ target' = [target EXCEPT ![f] = IF n > @ THEN n ELSE @]
  /\ limit' = [limit EXCEPT ![f] = IF target'[f] > @ THEN target'[f] ELSE @]
  /\ UNCHANGED <<folders, rr, background, stopped, finished, fatal, profile,
                 loading, serving, polls, turn, inside, other, stopping, actions>>
  /\ Kick

\* What it asked for has not come, but still may.
Unmet(c) ==
  LET f == want[c].folder IN
  /\ cached[f] < want[c].rows /\ listed[f] < limit[f]
  /\ Loadable(f) /\ ~stopped /\ ~fatal

\* One round of the loop of ensureFolder.
Recheck(c) ==
  /\ caller[c] = "ready"
  /\ IF Unmet(c) THEN caller' = [caller EXCEPT ![c] = "waiting"] /\ UNCHANGED want
     ELSE /\ caller' = [caller EXCEPT ![c] = "out"]
          /\ want' = [want EXCEPT ![c] = Nothing]
  /\ UNCHANGED <<folders, demand, rr, background, stopped, finished, fatal,
                 profile, pump, loading, serving, polls, turn, inside, other,
                 stopping, calls, actions>>

StartBackground ==
  /\ ~stopped /\ ~background
  /\ background' = TRUE
  /\ UNCHANGED <<folders, demand, rr, stopped, finished, fatal, profile, loading,
                 serving, polls, turn, inside, other, callers, calls, actions>>
  /\ Kick

Stop ==
  /\ stopping = "out"
  /\ stopping' = "waiting" /\ stopped' = TRUE /\ background' = FALSE
  /\ Notify
  /\ UNCHANGED <<folders, demand, rr, finished, fatal, profile, pump, loading,
                 serving, polls, turn, inside, other, want, calls, actions>>

\* Mutant: stop does not wait for what is under way.
StopsAtOnce ==
  /\ stopping = "waiting"
  /\ stopping' = "back"
  /\ UNCHANGED <<folders, demand, rr, background, stopped, finished, fatal,
                 profile, pump, loading, serving, polls, turn, inside, other,
                 caller, want, calls, actions>>

StopEnds ==
  /\ stopping = "waiting" /\ pump = "none"
  /\ stopping' = "back"
  /\ UNCHANGED <<folders, demand, rr, background, stopped, finished, fatal,
                 profile, pump, loading, serving, polls, turn, inside, other,
                 caller, want, calls, actions>>

-----------------------------------------------------------------------------
(* The pump.                                                               *)

\* The top of the pump's loop, and what follows the loop.  Finalizing after
\* a failed read only says that the loader is done.
Top ==
  /\ pump = "top"
  /\ IF ~stopped /\ NextFolder # NoFolder
       THEN /\ loading' = NextFolder /\ serving' = NeedsDemand(NextFolder)
            /\ rr' = IF Demanded # {} THEN rr ELSE PlaceAfter(NextFolder)
            /\ pump' = IF profile THEN "chunk" ELSE "profile"
            /\ turn' = Append(turn, pump')
            /\ Silent /\ UNCHANGED finished
       ELSE /\ loading' = Order[1] /\ UNCHANGED <<serving, rr>>
            /\ IF stopped \/ ~background \/ ~AllComplete \/ finished
                 THEN /\ pump' = "settled"
                      /\ Silent /\ UNCHANGED <<finished, turn>>
               ELSE IF failed # {}
                 THEN /\ pump' = "settled" /\ finished' = TRUE /\ Notify
                      /\ UNCHANGED turn
                 ELSE /\ pump' = "final" /\ turn' = Append(turn, "final")
                      /\ Silent /\ UNCHANGED finished
  /\ UNCHANGED <<folders, demand, background, stopped, fatal, profile, polls,
                 inside, other, want, stopping, calls, actions>>

\* After a page: a page nobody asked for is followed by a pause.
Loaded ==
  /\ pump = "loaded"
  /\ Notify
  /\ pump' = IF serving \/ stopped \/ Demanded # {} THEN "top" ELSE "paused"
  /\ serving' = FALSE
  /\ UNCHANGED <<folders, demand, rr, background, stopped, finished, fatal,
                 profile, loading, polls, turn, inside, other, want,
                 stopping, calls, actions>>

PauseEnds ==
  /\ Quiet /\ pump = "paused"
  /\ pump' = "top"
  /\ UNCHANGED <<folders, demand, rr, background, stopped, finished, fatal,
                 profile, loading, serving, polls, turn, inside, other, callers,
                 calls, actions>>

\* Mutant: work that came up while the pump was ending is left alone.
SettleForgetful ==
  /\ pump = "settled"
  /\ pump' = "none"
  /\ Notify
  /\ UNCHANGED <<folders, demand, rr, background, stopped, finished, fatal,
                 profile, loading, serving, polls, turn, inside, other, want,
                 stopping, calls, actions>>

\* The pump's promise is settled: running = null, notify, and kick again.
Settle ==
  /\ pump = "settled"
  /\ pump' = IF HasWork THEN "top" ELSE "none"
  /\ Notify
  /\ UNCHANGED <<folders, demand, rr, background, stopped, finished, fatal,
                 profile, loading, serving, polls, turn, inside, other, want,
                 stopping, calls, actions>>

\* An operation of the pump rejects: a failed page blocks its folder, the
\* others end the pump.
Fail ==
  /\ fatal' = TRUE
  /\ IF pump = "chunk"
       THEN /\ pump' = "loaded"
            /\ blocked' = blocked \cup {loading} /\ failed' = failed \cup {loading}
       ELSE pump' = "settled" /\ UNCHANGED <<blocked, failed>>
  /\ UNCHANGED <<left, listed, cached, demand, rr, background, stopped, finished,
                 profile, loading, serving, want, stopping, calls, actions>>

\* It takes the account lock, or gives up its place in the queue at once.
Enter ==
  /\ MyTurn /\ ~inside /\ ~stopped /\ ~other
  /\ inside' = TRUE /\ polls' = 0
  /\ UNCHANGED <<folders, demand, rr, background, stopped, finished, fatal,
                 profile, pump, loading, serving, turn, other, callers,
                 calls, actions>>

Refuse ==
  /\ MyTurn /\ ~inside /\ (stopped \/ (other /\ polls = MaxPolls))
  /\ turn' = Tail(turn) /\ polls' = 0
  /\ IF stopped THEN Silent ELSE Notify
  /\ Fail
  /\ UNCHANGED <<inside, other>>

Busy ==
  /\ MyTurn /\ ~inside /\ ~stopped /\ other /\ polls < MaxPolls
  /\ turn' = Tail(turn) /\ polls' = polls + 1
  /\ Notify
  /\ UNCHANGED <<folders, demand, rr, background, stopped, finished, fatal,
                 profile, pump, loading, serving, inside, other, want, stopping,
                 calls, actions>>

Sleeping == pump \in Operations /\ ~Contains(turn, pump)

\* VIEW_LOCK_RETRY_MS is over, or stop() aborts the delay.
Retry ==
  /\ Quiet /\ Sleeping /\ ~stopped
  /\ turn' = Append(turn, pump)
  /\ UNCHANGED <<folders, demand, rr, background, stopped, finished, fatal,
                 profile, pump, loading, serving, polls, inside, other, callers,
                 calls, actions>>

RetryAborted ==
  /\ Sleeping /\ stopped
  /\ polls' = 0
  /\ Fail /\ Silent
  /\ UNCHANGED <<turn, inside, other>>

\* Rows come and go in the folders; more than anyone asks for are not counted.
Recount(gain, loss) ==
  cached' = [f \in Folder |->
               IF f = gain /\ f # loss /\ cached[f] < MaxRows THEN cached[f] + 1
               ELSE IF f = loss /\ f # gain /\ cached[f] > 0 THEN cached[f] - 1
               ELSE cached[f]]

\* The fence of the snapshot is read, and the page asks for its own turn.
ProfileRead ==
  /\ Quiet /\ MyTurn /\ inside /\ pump = "profile"
  /\ profile' = TRUE
  /\ inside' = FALSE /\ pump' = "chunk"
  /\ turn' = Append(Tail(turn), "chunk")
  /\ UNCHANGED <<folders, demand, rr, background, stopped, finished, fatal,
                 loading, serving, polls, other, callers, calls, actions>>

\* A page is listed and hydrated.  Its message may have been seen on an
\* earlier page, have moved from another folder, be gone, or not be readable.
PageRead ==
  /\ Quiet /\ MyTurn /\ inside /\ pump = "chunk"
  /\ left' = [left EXCEPT ![loading] = @ - 1]
  /\ \/ UNCHANGED <<listed, cached, failed>>
     \/ /\ listed' = [listed EXCEPT ![loading] = @ + 1]
        /\ \/ UNCHANGED cached /\ failed' = failed \cup {loading}
           \/ /\ \E gain, loss \in {loading, NoFolder} : Recount(gain, loss)
              /\ UNCHANGED failed
           \/ \E f \in Folder : Recount(loading, f) /\ UNCHANGED failed
  /\ inside' = FALSE /\ pump' = "loaded" /\ turn' = Tail(turn)
  /\ UNCHANGED <<blocked, demand, rr, background, stopped, finished, fatal,
                 profile, loading, serving, polls, other, callers, calls, actions>>

\* finalizeCompleteSnapshot has certified the snapshot.
Finalized ==
  /\ Quiet /\ MyTurn /\ inside /\ pump = "final"
  /\ finished' = TRUE
  /\ Notify
  /\ inside' = FALSE /\ pump' = "settled" /\ turn' = Tail(turn)
  /\ UNCHANGED <<folders, demand, rr, background, stopped, fatal, profile,
                 loading, serving, polls, other, want, stopping, calls, actions>>

\* Gmail or SQLite fails, or stop() aborts the request.
OperationFails ==
  /\ Quiet /\ MyTurn /\ inside
  /\ inside' = FALSE /\ turn' = Tail(turn)
  /\ Fail /\ Silent
  /\ UNCHANGED <<polls, other>>

-----------------------------------------------------------------------------
(* Foreground actions of the session, and the other processes.             *)

Press ==
  /\ Quiet /\ actions < MaxActions
  /\ actions' = actions + 1 /\ turn' = Append(turn, "action")
  /\ UNCHANGED <<folders, demand, rr, background, stopped, finished, fatal,
                 profile, pump, loading, serving, polls, inside, other, callers,
                 calls>>

Foreground == turn # <<>> /\ Head(turn) = "action"

BeginAction ==
  /\ Quiet /\ Foreground /\ ~inside /\ ~other
  /\ inside' = TRUE
  /\ UNCHANGED <<folders, demand, rr, background, stopped, finished, fatal,
                 profile, pump, loading, serving, polls, turn, other, callers,
                 calls, actions>>

\* Mutant: it waits for the account lock without a deadline.
KeepWaiting == Quiet /\ Foreground /\ ~inside /\ other /\ UNCHANGED loaderVars

\* The account lock stayed busy for VIEW_FOREGROUND_LOCK_WAIT_MS.
RefuseAction ==
  /\ Quiet /\ Foreground /\ ~inside /\ other
  /\ turn' = Tail(turn)
  /\ UNCHANGED <<folders, demand, rr, background, stopped, finished, fatal,
                 profile, pump, loading, serving, polls, inside, other, callers,
                 calls, actions>>

EndAction ==
  /\ Quiet /\ Foreground /\ inside
  /\ inside' = FALSE /\ turn' = Tail(turn)
  /\ \E gain, loss \in Folder : Recount(gain, loss)
  /\ UNCHANGED <<left, listed, blocked, failed, demand, rr, background, stopped,
                 finished, fatal, profile, pump, loading, serving, polls, other,
                 callers, calls, actions>>

OtherCommand ==
  /\ Quiet /\ ~inside
  /\ other' = ~other
  /\ UNCHANGED <<folders, demand, rr, background, stopped, finished, fatal,
                 profile, pump, loading, serving, polls, turn, inside, callers,
                 calls, actions>>

Loader == \/ Top \/ Loaded \/ PauseEnds \/ Settle \/ Enter \/ Refuse \/ Busy
          \/ Retry \/ RetryAborted
Gmail  == ProfileRead \/ PageRead \/ Finalized
Action == BeginAction \/ RefuseAction \/ EndAction

LoaderNext ==
  \/ Loader \/ Gmail \/ OperationFails \/ Action
  \/ \E c \in Caller : \/ Recheck(c)
                       \/ \E f \in Folder, n \in 1 .. MaxRows : EnsureFolder(c, f, n)
  \/ StartBackground \/ Stop \/ StopEnds
  \/ Press \/ OtherCommand

LoaderSpec == LoaderInit /\ [][LoaderNext]_loaderVars

\* The event loop resumes what is settled, timers run out, requests to Gmail
\* end one way or the other, and foreground actions come to an end.  Nothing
\* is assumed of the other processes, or that the user does anything.
Fairness ==
  /\ WF_loaderVars(Loader) /\ WF_loaderVars(Gmail \/ OperationFails) /\ WF_loaderVars(Action)
  /\ \A c \in Caller : WF_loaderVars(Recheck(c))
  /\ WF_loaderVars(StopEnds)

FairSpec == LoaderSpec /\ Fairness

-----------------------------------------------------------------------------
\* The session's one slot is taken by the head of the queue, and only while no
\* other process owns the account lock; the pump queues up at most once, and its
\* budget of re-tries is for one acquisition.
Coordinated ==
  /\ inside => turn # <<>> /\ ~other
  /\ \A i \in DOMAIN turn : turn[i] \in {"action", pump}
  /\ \A i, j \in DOMAIN turn : turn[i] = turn[j] /\ i # j => turn[i] = "action"
  /\ polls <= MaxPolls /\ (polls > 0 => pump \in Operations /\ ~(MyTurn /\ inside))

\* Nobody sleeps, or is about to, who only an idle loader could wake.
Remembered ==
  \A c \in Caller :
    caller[c] = "waiting" \/ (caller[c] = "ready" /\ Unmet(c)) => pump # "none"

\* Once stop has returned nothing of the loader runs any more.
Ended ==
  /\ stopped <=> stopping # "out"
  /\ stopped => ~background
  /\ stopping = "back" => pump = "none"

\* A page is read only of a folder that has one, with the history fence read
\* before; only a snapshot of all pages without a failed read is certified.
Certified ==
  /\ pump \in {"profile", "chunk"} => Loadable(loading) /\ (profile <=> pump = "chunk")
  /\ pump = "final" => AllComplete /\ failed = {}
  /\ finished => AllComplete
  /\ blocked \subseteq failed /\ (blocked # {} => fatal)
  /\ \A f \in Folder : left[f] + listed[f] <= Pages[f]

\* All of it, with its types.  A demand covers whoever waits for the folder
\* (view-cache.ts:245) and is work whenever it is raised or the pump ends
\* (view-cache.ts:254, view-cache.ts:454), and stop lets nothing start again
\* (view-cache.ts:331).
LoaderInv ==
  /\ TypeOK /\ Coordinated /\ Remembered /\ Ended /\ Certified
  /\ \A c \in Caller : want[c].rows <= target[want[c].folder]

\* Whoever waits for rows of a folder gets an answer (ensureFolder): no
\* progress report is missed, whenever the demand comes up, and whatever
\* owns the account lock for however long.
EnsureReturns == \A c \in Caller : caller[c] = "waiting" ~> caller[c] = "out"

\* A loader can always be stopped: `u` and the end of the session wait for it.
StopReturns == stopping = "waiting" ~> stopping = "back"

\* Once the background runs, the snapshot is finished, even when all pages
\* were loaded before on demand, unless something stops it.
SnapshotFinishes == background ~> (finished \/ stopped \/ fatal)

\* A foreground action gets its turn (ViewOperationCoordinator), whatever the
\* loader and the other processes do.
ForegroundServed == Contains(turn, "action") ~> ~Contains(turn, "action")

=============================================================================
