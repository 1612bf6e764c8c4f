--------------------------- MODULE HostedSession ---------------------------
(* The hosted AI session of one computer (auth/hosted-session.ts): a refresh
   token in the OS credential store, shared without a lock by every command
   that classifies or drafts, by the sign-in that creates it and by the
   disconnect that erases it.  A job is one command: a cleanup run holds the
   account lock, a preview (or a draft in the viewer) does not; a sign-in and a
   logout hold it, a disconnect asked for in the browser does not.
   The credential store has one operation per step; the token service and the
   gateway answer, refuse, or lose an answer. *)
EXTENDS Naturals, SequencesExt

CONSTANTS Jobs,         \* commands that may be under way at the same time
          Kinds,        \* the kinds of command a run of the model may start
          Free,         \* the lock has no holder
          MaxTokens,    \* bound: refresh tokens the service issues
          MaxJobs,      \* bound: commands started
          MaxAsks,      \* bound: model requests of one command
          MaxFaults     \* bound: lost answers, failed writes, crashes

ASSUME SessionAssumption ==
  /\ Free \notin Jobs
  /\ Kinds \subseteq {"run", "preview", "connect", "logout", "disconnect"}
  /\ MaxTokens \in Nat \ {0}
  /\ {MaxJobs, MaxAsks, MaxFaults} \subseteq Nat

VARIABLES secret,     \* the stored refresh token, 0 when there is none
          account,    \* "in": account row and Google token; "row": the row alone
          access,     \* the AI choice in config.json
          lock,       \* holder of the account lock
          service,    \* the token service and the gateway
          job,        \* job[j]: the command j
          renewals,   \* renewals[j]: renew() calls under way in j's session
          started,    \* commands started, changes of the AI choice included
          faults,
          quiet       \* observer: a logout erased the session with no renewal to bring it back

store == <<secret, account, access>>
vars  == <<secret, account, access, lock, service, job, renewals, started, faults, quiet>>

Tokens  == 1..MaxTokens
None    == 0
Idle    == [kind |-> "none", pc |-> "idle", ai |-> FALSE, current |-> None, token |-> None,
            stop |-> "no", retry |-> FALSE, asks |-> 0, retired |-> {}, lost |-> {}]
\* Observers: a command replaced the tokens in retired by one it stored or is about
\* to store, those in lost by one it never came to store.
Locked  == {"run", "connect", "logout"}

Fault == faults < MaxFaults /\ faults' = faults + 1

(* ---- the token service and the gateway --------------------------------- *)

\* A refresh token the service still exchanges.
Live(t) == t \in service.live
\* The gateway accepts a caller: the receipt is active, the token not revoked.
Honoured(t) == service.grant = "active" /\ t > service.cut
\* The next token; "used" is the one it was issued against, "kept" whether that stays good.
Issued(used, kept) ==
  [service EXCEPT !.issued = @ + 1,
                  !.live = (IF kept THEN @ ELSE @ \ {used}) \cup {service.issued + 1}]

(* ---- starting and ending a command -------------------------------------- *)

To(j, pc) == job' = [job EXCEPT ![j].pc = pc]

\* A command reads its account and its configuration when it starts.
First(kind) ==
  CASE kind \in {"run", "preview"} -> "resolve"
    [] kind = "connect"            -> "login"
    [] kind = "logout"             -> "lock"
    [] kind = "disconnect"         -> "leave"

Start(j, kind, choice) ==
  /\ job[j].pc = "idle" /\ kind \in Kinds /\ started < MaxJobs
  /\ kind \in {"run", "preview"} => account = "in"
  /\ kind \in {"logout", "disconnect"} => account # "none"
  /\ started' = started + 1
  /\ job' = [job EXCEPT ![j] = [Idle EXCEPT !.kind = kind, !.pc = First(kind), !.ai = choice = "hosted"]]
  /\ UNCHANGED <<store, lock, service, renewals, faults, quiet>>

Ends(j) ==
  /\ job' = [job EXCEPT ![j] = Idle]
  /\ lock' = IF lock = j THEN Free ELSE lock

\* Mutant: a run classifies before it waits for the lock.
ResolveUnlocked(j) ==
  /\ job[j].pc = "resolve"
  /\ job' = [job EXCEPT ![j].ai = @ /\ secret # None, ![j].pc = "ask"]
  /\ UNCHANGED <<store, lock, service, renewals, started, faults, quiet>>

\* resolveAiCredentials: the hosted classifier only with a stored session.
Resolve(j) ==
  /\ job[j].pc = "resolve"
  /\ job' = [job EXCEPT ![j].ai = @ /\ secret # None,
                        ![j].pc = IF job[j].kind = "run" THEN "lock" ELSE "ask"]
  /\ UNCHANGED <<store, lock, service, renewals, started, faults, quiet>>

AfterLock(kind) ==
  CASE kind = "run" -> "ask" [] kind = "connect" -> "save" [] kind = "logout" -> "leave"

TakeLock(j) ==
  /\ job[j].pc = "lock" /\ lock = Free
  /\ lock' = j /\ To(j, AfterLock(job[j].kind))
  /\ UNCHANGED <<store, service, renewals, started, faults, quiet>>

\* acquire() gives up when its wait ends and another command still holds the lock.
LockHeld(j) ==
  /\ job[j].pc = "lock" /\ lock # Free
  /\ Ends(j)
  /\ UNCHANGED <<store, service, renewals, started, faults, quiet>>

(* ---- HostedSession.idToken and renew ------------------------------------ *)

\* Mutant: every caller starts its own renewal.
NeverInFlight(j) == FALSE

\* Only one renew() of a session runs: a caller that finds one awaits it.
InFlight(j) == renewals[j] # <<>>

\* A session that stopped is asked no further, but for workers in the retry loop.
Asking(j) == job[j].ai /\ (job[j].stop = "no" \/ job[j].retry)

\* A worker of a run, or the disconnect, needs a token and has none in memory.
BeginRenewal(j) ==
  /\ job[j].pc \in {"ask", "leaving"} /\ Asking(j) /\ job[j].current = None
  /\ job[j].asks < (IF job[j].pc = "leaving" THEN 1 ELSE MaxAsks)
  /\ ~InFlight(j)
  /\ renewals' = [renewals EXCEPT ![j] = Append(@, [pc |-> "read", token |-> None, fresh |-> None])]
  /\ job' = [job EXCEPT ![j].asks = @ + 1]
  /\ UNCHANGED <<store, lock, service, started, faults, quiet>>

\* A renewal ends: the token it obtained, and why the command stops if it does.
Renewed(j, i, token, stop) ==
  /\ renewals' = [renewals EXCEPT ![j] = RemoveAt(@, i)]
  /\ job' = [job EXCEPT ![j].current = IF token = None THEN @ ELSE token,
                        ![j].stop = IF stop = "no" THEN @ ELSE stop]

ReadStored(j, i) ==
  /\ i \in DOMAIN renewals[j] /\ renewals[j][i].pc = "read"
  /\ IF secret = None
       THEN Renewed(j, i, None, "auth")
       ELSE /\ renewals' = [renewals EXCEPT ![j][i].pc = "refresh", ![j][i].token = secret]
            /\ UNCHANGED job
  /\ UNCHANGED <<store, lock, service, started, faults, quiet>>

\* The service answers with the same token or with the one that takes its place.
Refresh(j, i) ==
  /\ i \in DOMAIN renewals[j] /\ renewals[j][i].pc = "refresh" /\ Live(renewals[j][i].token)
  /\ LET used == renewals[j][i].token IN
       \/ /\ renewals' = [renewals EXCEPT ![j][i].pc = "store", ![j][i].fresh = used]
          /\ UNCHANGED <<service, job>>
       \/ \E kept \in BOOLEAN :
            /\ service.issued < MaxTokens
            /\ service' = Issued(used, kept)
            /\ job' = [job EXCEPT ![j].retired = IF kept THEN @ ELSE @ \cup {used}]
            /\ renewals' = [renewals EXCEPT ![j][i].pc = "store", ![j][i].fresh = service.issued + 1]
  /\ UNCHANGED <<store, lock, started, faults, quiet>>

\* 400, 401 or 403: terminal, the session has to be connected again.
RefreshRefused(j, i) ==
  /\ i \in DOMAIN renewals[j] /\ renewals[j][i].pc = "refresh" /\ ~Live(renewals[j][i].token)
  /\ renewals' = [renewals EXCEPT ![j] = RemoveAt(@, i)]
  /\ job' = [job EXCEPT ![j].stop = "refused", ![j].token = renewals[j][i].token]
  /\ UNCHANGED <<store, lock, service, started, faults, quiet>>

\* No answer: the service may still have issued a token.  Whoever waited for it tries
\* again, a few times, with the token that is stored.
RefreshLost(j, i) ==
  /\ i \in DOMAIN renewals[j] /\ renewals[j][i].pc = "refresh" /\ Fault
  /\ renewals' = [renewals EXCEPT ![j] = RemoveAt(@, i)]
  /\ LET used == renewals[j][i].token IN
       \/ /\ job' = [job EXCEPT ![j].retry = job[j].pc = "ask"]
          /\ UNCHANGED service
       \/ /\ Live(used) /\ service.issued < MaxTokens /\ service' = Issued(used, FALSE)
          /\ job' = [job EXCEPT ![j].retry = job[j].pc = "ask", ![j].lost = @ \cup {used}]
  /\ UNCHANGED <<store, lock, started, quiet>>

\* Persist a token that changed, then keep the id token in memory.
StoreRenewed(j, i) ==
  /\ i \in DOMAIN renewals[j] /\ renewals[j][i].pc = "store"
  /\ secret' = IF renewals[j][i].fresh # renewals[j][i].token THEN renewals[j][i].fresh ELSE secret
  /\ Renewed(j, i, renewals[j][i].fresh, "no")
  /\ UNCHANGED <<account, access, lock, service, started, faults, quiet>>

\* The credential store is unavailable: the rotated token is lost, and whoever waited
\* for it tries again with the one it replaced.
StoreFails(j, i) ==
  /\ i \in DOMAIN renewals[j] /\ renewals[j][i].pc = "store" /\ Fault
  /\ renewals[j][i].fresh # renewals[j][i].token
  /\ renewals' = [renewals EXCEPT ![j] = RemoveAt(@, i)]
  /\ LET used == renewals[j][i].token IN
       job' = [job EXCEPT ![j].retry = job[j].pc = "ask", ![j].retired = @ \ {used},
                          ![j].lost = @ \cup ({used} \cap job[j].retired)]
  /\ UNCHANGED <<store, lock, service, started, quiet>>

(* ---- a run or a preview asks the gateway -------------------------------- *)

\* postOnce with a token: the gateway answers, or refuses the session.
Post(j) ==
  /\ job[j].pc = "ask" /\ Asking(j) /\ job[j].current # None
  /\ job[j].asks < MaxAsks
  /\ job' = [job EXCEPT ![j].asks = @ + 1,
                        ![j].stop = IF Honoured(job[j].current) THEN @ ELSE "auth"]
  /\ UNCHANGED <<store, lock, service, renewals, started, faults, quiet>>

\* The id token in memory reaches its safety margin.
TokenExpires(j) ==
  /\ job[j].pc = "ask" /\ job[j].current # None
  /\ job' = [job EXCEPT ![j].current = None]
  /\ UNCHANGED <<store, lock, service, renewals, started, faults, quiet>>

\* Every message has its answer, or fails fast because the session stopped.
FinishRun(j) ==
  /\ job[j].pc = "ask" /\ ~InFlight(j)
  /\ Ends(j)
  /\ UNCHANGED <<store, service, renewals, started, faults, quiet>>

(* ---- connectGoogleAccount ------------------------------------------------ *)

Login(j) ==
  /\ job[j].pc = "login"
  /\ To(j, "lock")
  /\ UNCHANGED <<store, lock, service, renewals, started, faults, quiet>>

\* Refused in the browser, no refresh token twice, or the loopback timeout.
LoginFails(j) ==
  /\ job[j].pc = "login"
  /\ Ends(j)
  /\ UNCHANGED <<store, service, renewals, started, faults, quiet>>

\* Google token, account row and config; then what the disclosure page chose.
SaveAccount(j) ==
  /\ job[j].pc = "save"
  /\ account' = "in"
  /\ \E pc \in {"bootstrap", "rules", "no choice"} : To(j, pc)
  /\ UNCHANGED <<secret, access, lock, service, renewals, started, faults, quiet>>

\* The gateway records the receipt and mints a custom token.
Bootstrap(j) ==
  /\ job[j].pc = "bootstrap"
  /\ service' = [service EXCEPT !.grant = "active"]
  /\ To(j, "exchange")
  /\ UNCHANGED <<store, lock, renewals, started, faults, quiet>>

Exchange(j) ==
  /\ job[j].pc = "exchange" /\ service.issued < MaxTokens
  /\ service' = Issued(None, TRUE)
  /\ job' = [job EXCEPT ![j].pc = "keep", ![j].token = service.issued + 1]
  /\ UNCHANGED <<store, lock, renewals, started, faults, quiet>>

KeepSession(j) ==
  /\ job[j].pc = "keep"
  /\ secret' = job[j].token /\ quiet' = FALSE
  /\ To(j, "choose")
  /\ UNCHANGED <<account, access, lock, service, renewals, started, faults>>

\* "no choice": a client of the user's own, or no identity token for the service.
Deciding == {"choose", "rules", "no choice"}
Chosen(pc) == IF pc = "choose" THEN "hosted" ELSE IF pc = "rules" THEN "off" ELSE access

\* Mutant: the lock is not released.
ChooseKeepsLock(j) ==
  /\ job[j].pc \in Deciding
  /\ access' = Chosen(job[j].pc)
  /\ job' = [job EXCEPT ![j] = Idle]
  /\ UNCHANGED <<secret, account, lock, service, renewals, started, faults, quiet>>

\* applyAiAccessChoice, release of the lock.
Choose(j) ==
  /\ job[j].pc \in Deciding
  /\ access' = Chosen(job[j].pc)
  /\ Ends(j)
  /\ UNCHANGED <<secret, account, service, renewals, started, faults, quiet>>

\* The service declined or did not answer: Gmail stays connected.
HostedProblem(j) ==
  /\ job[j].pc \in {"bootstrap", "exchange", "keep"}
  /\ \/ Fault
     \/ job[j].pc = "exchange" /\ service.issued = MaxTokens /\ UNCHANGED faults
  /\ \/ UNCHANGED service
     \/ job[j].pc = "bootstrap" /\ service' = [service EXCEPT !.grant = "active"]
  /\ Ends(j)
  /\ UNCHANGED <<store, renewals, started, quiet>>

\* setAiAccess: the included service only while a session is stored.
ChooseAccess(choice) ==
  /\ choice = "hosted" => account # "none" /\ secret # None
  /\ started < MaxJobs /\ started' = started + 1
  /\ access' = choice
  /\ UNCHANGED <<secret, account, lock, service, job, renewals, faults, quiet>>

(* ---- disconnectAccount --------------------------------------------------- *)

\* disconnectHostedSession reads the stored session.
Leave(j) ==
  /\ job[j].pc = "leave"
  /\ job' = [job EXCEPT ![j].pc = IF secret = None THEN "erase" ELSE "leaving", ![j].ai = TRUE]
  /\ UNCHANGED <<store, lock, service, renewals, started, faults, quiet>>

\* POST revoke: the receipt, and the refresh tokens when that call succeeds.
Revoke(j) ==
  /\ job[j].pc = "leaving" /\ job[j].current > service.cut
  /\ \/ service' = [service EXCEPT !.grant = "revoked", !.live = {}, !.cut = service.issued]
     \/ service' = [service EXCEPT !.grant = "revoked"]
  /\ To(j, "erase")
  /\ UNCHANGED <<store, lock, renewals, started, faults, quiet>>

\* The gateway refuses that call, or it is not delivered: the local secret still goes.
RevokeFails(j) ==
  /\ job[j].pc = "leaving" /\ job[j].current # None
  /\ \/ job[j].current <= service.cut /\ UNCHANGED faults
     \/ Fault
  /\ To(j, "erase")
  /\ UNCHANGED <<store, lock, service, renewals, started, quiet>>

\* No token: the problem is reported and the local secret still goes.
CannotRevoke(j) ==
  /\ job[j].pc = "leaving" /\ ~InFlight(j) /\ job[j].asks > 0
  /\ job[j].current = None
  /\ To(j, "erase")
  /\ UNCHANGED <<store, lock, service, renewals, started, faults, quiet>>

\* A command that takes no lock has read the session and may store its successor.
Overlapped ==
  \E k \in Jobs : job[k].kind \notin Locked /\ \E i \in DOMAIN renewals[k] : renewals[k][i].pc # "read"

EraseSession(j) ==
  /\ job[j].pc = "erase"
  /\ secret' = None
  /\ quiet' = (quiet \/ (lock = j /\ ~Overlapped))
  /\ To(j, "forget")
  /\ UNCHANGED <<account, access, lock, service, renewals, started, faults>>

\* The Google token goes; the history goes when the user asked for it.
ForgetGoogle(j) ==
  /\ job[j].pc = "forget"
  /\ account' \in {"row", "none"}
  /\ Ends(j)
  /\ UNCHANGED <<secret, access, service, renewals, started, faults, quiet>>

\* A command is killed; its lock is taken over as stale.
Crash(j) ==
  /\ job[j].pc # "idle" /\ Fault
  /\ Ends(j)
  /\ renewals' = [renewals EXCEPT ![j] = <<>>]
  /\ UNCHANGED <<store, service, started, quiet>>

(* ---- the commands together ----------------------------------------------- *)

Renewal(j) ==
  \E i \in 1..Len(renewals[j]) :
    \/ ReadStored(j, i) \/ Refresh(j, i) \/ RefreshRefused(j, i) \/ RefreshLost(j, i)
    \/ StoreRenewed(j, i) \/ StoreFails(j, i)

Step(j) ==
  \/ Resolve(j) \/ TakeLock(j) \/ LockHeld(j)
  \/ BeginRenewal(j) \/ Renewal(j) \/ Post(j) \/ TokenExpires(j) \/ FinishRun(j)
  \/ Login(j) \/ LoginFails(j) \/ SaveAccount(j) \/ Bootstrap(j) \/ Exchange(j)
  \/ KeepSession(j) \/ Choose(j) \/ HostedProblem(j)
  \/ Leave(j) \/ Revoke(j) \/ RevokeFails(j) \/ CannotRevoke(j) \/ EraseSession(j) \/ ForgetGoogle(j)

\* A new computer, or one that signed in with the included service before.
Init ==
  /\ \/ /\ secret = None /\ account = "none" /\ access = "off"
        /\ service = [grant |-> "none", live |-> {}, cut |-> 0, issued |-> 0]
     \/ /\ secret = 1 /\ account = "in" /\ access = "hosted"
        /\ service = [grant |-> "active", live |-> {1}, cut |-> 0, issued |-> 1]
  /\ lock = Free
  /\ job = [j \in Jobs |-> Idle]
  /\ renewals = [j \in Jobs |-> <<>>]
  /\ started = 0 /\ faults = 0
  /\ quiet = FALSE

(* ---- properties ---------------------------------------------------------- *)

Services == [grant : {"none", "active", "revoked"}, live : SUBSET Tokens, cut : 0..MaxTokens, issued : 0..MaxTokens]

\* Every variable keeps its type; the lock's holder is a command past its lock
\* step, and nobody holds a token the service has not issued.
SessionTypeOK ==
  /\ secret \in 0..service.issued /\ account \in {"none", "row", "in"} /\ access \in {"off", "hosted"}
  /\ lock \in Jobs \cup {Free}
  /\ service \in Services
  /\ service.live \subseteq (service.cut + 1)..service.issued
  /\ \A j \in Jobs :
       /\ job[j].kind \in Kinds \cup {"none"}
       /\ job[j].current \in 0..service.issued /\ job[j].token \in 0..service.issued
       /\ job[j].stop \in {"no", "auth", "refused"} /\ job[j].retry \in BOOLEAN /\ job[j].asks \in 0..(MaxAsks + 1)
       /\ \A i \in DOMAIN renewals[j] : renewals[j][i].token \in 0..service.issued
       /\ lock = j => job[j].kind \in Locked /\ job[j].pc \notin {"idle", "resolve", "login", "lock"}
       /\ job[j].kind \in Locked /\ job[j].pc \notin {"idle", "resolve", "login", "lock"} => lock = j
  /\ started \in 0..MaxJobs /\ faults \in 0..MaxFaults /\ quiet \in BOOLEAN

\* A command that is told its session is gone did not replace that token itself,
\* unless the successor never reached the store, with a lost answer or a failed
\* write; renewals of one command never race each other (hosted-session.ts:205).
NoSelfInflictedStop ==
  \A j \in Jobs : job[j].stop = "refused" /\ job[j].token \in job[j].retired \cup job[j].lost =>
                    job[j].token \in job[j].lost

\* A logout that held the lock, with no renewal of an unlocked command past its
\* read, leaves no session behind until the next sign-in stores one: a cleanup
\* run cannot bring back what the logout erased (hosted-session.ts:245).
LogoutSticks == quiet => secret = None
=============================================================================
