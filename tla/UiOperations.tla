---------------------------- MODULE UiOperations ----------------------------
(* The local browser front-end (ui/operations.ts) over the commands of
   HostedSession: one process, one RunState that says which operation is under
   way and refuses a second one, beside the commands the user runs in a
   terminal.  A cancelled sign-in is not stopped: only the state forgets it. *)
EXTENDS HostedSession

CONSTANTS MaxCancels    \* bound: sign-ins cancelled in the browser

ASSUME UiAssumption == MaxCancels \in Nat

VARIABLES kind,      \* state.kind
          config,    \* the AI choice in the process-wide context (core/bootstrap.ts)
          ui,        \* the jobs the browser started
          cancels,
          astray     \* observer: a sign-in was cancelled, and since then the page always had work

uiVars == <<kind, config, ui, cancels, astray>>
all    == <<vars, uiVars>>

Busy == kind # "idle"

(* ---- UiSession ------------------------------------------------------------ *)

StartFromUi(j, what) ==
  /\ Start(j, what, config)
  /\ ui' = ui \cup {j}
  /\ UNCHANGED <<config, cancels, astray>>

\* Mutant: work starts whatever the page shows.
StartWorkAnyway(j) == kind' = "running" /\ StartFromUi(j, "run")

StartConnect(j) == ~Busy /\ kind' = "connecting" /\ StartFromUi(j, "connect")
StartWork(j) ==
  /\ ~Busy
  /\ \/ kind' = "running"    /\ StartFromUi(j, "run")
     \/ kind' = "previewing" /\ StartFromUi(j, "preview")

\* busy() is looked at when it starts, and the state is not set: the page shows
\* nothing of it, and what is started next runs beside it.
Disconnect(j) == ~Busy /\ UNCHANGED kind /\ StartFromUi(j, "disconnect")

\* The listener stays open and connectGoogleAccount goes on.
CancelConnect ==
  /\ kind = "connecting" /\ cancels < MaxCancels
  /\ kind' = "idle" /\ cancels' = cancels + 1 /\ astray' = TRUE
  /\ UNCHANGED <<vars, config, ui>>

SetAiAccess(choice) ==
  /\ choice # access
  /\ ChooseAccess(choice)
  /\ config' = choice
  /\ UNCHANGED <<kind, ui, cancels, astray>>

\* The operations that set the state: all but the disconnect.
Marked == {j \in ui : job[j].kind # "disconnect"}

(* ---- commands of either origin -------------------------------------------- *)

StartFromTerminal(j) ==
  /\ \E what \in Kinds \ {"disconnect"} : Start(j, what, access)
  /\ UNCHANGED uiVars

\* Mutant: a sign-in that fails leaves the state as it was.
SettleOnSuccess(j) ==
  IF j \in ui /\ job'[j].pc = "idle"
    THEN /\ ui' = ui \ {j}
         /\ kind' = IF job[j].kind = "disconnect" \/ job[j].pc \in {"login", "lock"} THEN kind ELSE "idle"
         /\ UNCHANGED <<config, cancels, astray>>
    ELSE UNCHANGED uiVars

\* The completion handlers set "idle" whatever operation the state shows; a
\* sign-in that went through reloads the configuration.
Settle(j) ==
  IF j \in ui /\ job'[j].pc = "idle"
    THEN /\ ui' = ui \ {j}
         /\ kind' = IF job[j].kind = "disconnect" THEN kind ELSE "idle"
         /\ config' = IF job[j].kind = "connect" /\ job[j].pc \notin {"login", "lock"} THEN access' ELSE config
         /\ astray' = (astray /\ Marked \ {j} # {})
         /\ UNCHANGED cancels
    ELSE UNCHANGED uiVars

JobStep(j) == job[j].pc # "idle" /\ Step(j) /\ Settle(j)
Killed(j)  == j \notin ui /\ Crash(j) /\ UNCHANGED uiVars

UiInit == Init /\ kind = "idle" /\ config = access /\ ui = {} /\ cancels = 0 /\ astray = FALSE

Next ==
  \/ \E j \in Jobs :
       \/ StartConnect(j) \/ StartWork(j) \/ Disconnect(j) \/ StartFromTerminal(j)
       \/ JobStep(j) \/ Killed(j)
  \/ CancelConnect
  \/ \E choice \in {"off", "hosted"} : SetAiAccess(choice)

Spec == UiInit /\ [][Next]_all

(* ---- properties ------------------------------------------------------------ *)

TypeOK ==
  /\ SessionTypeOK
  /\ kind \in {"idle", "connecting", "previewing", "running"} /\ config \in {"off", "hosted"}
  /\ ui \subseteq {j \in Jobs : job[j].pc # "idle"}
  /\ cancels \in 0..MaxCancels /\ astray \in BOOLEAN

\* Unless a sign-in was cancelled since the page last had no work, it is idle exactly
\* when no sign-in, preview or run of its own is under way, and there is never a
\* second one of these.  A disconnect is none of them: the page does not show it,
\* and one may run beside another operation (operations.ts:205) although the guard
\* is said to make that impossible (operations.ts:58).
StatusHonest ==
  ~astray => /\ ~Busy <=> Marked = {}
             /\ Cardinality(Marked) <= 1

\* Whatever was cancelled, a busy page stands for an operation of that very kind
\* that is still under way: it cannot stay busy for nothing (operations.ts:123).
NeverBusyForNothing ==
  Busy => \E j \in Marked :
            CASE kind = "connecting" -> job[j].kind = "connect"
              [] kind = "previewing" -> job[j].kind = "preview"
              [] kind = "running"    -> job[j].kind = "run"
=============================================================================
