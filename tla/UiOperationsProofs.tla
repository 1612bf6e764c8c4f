------------------------ MODULE UiOperationsProofs ------------------------
(***************************************************************************)
(* What the hosted session and the page that starts its commands promise,  *)
(* for any number of commands, tokens and requests.                        *)
(*                                                                         *)
(* One command never has two renewals under way, and while it has one it   *)
(* has no token (Sound).  A token the service issued reaches the           *)
(* credential store at most once: until it is stored nobody read it and    *)
(* nobody replaced it (Apart).  So a token a command replaced, and whose   *)
(* successor it stored, is never the one it reads again (Replaced): a      *)
(* refusal is its own doing only where the successor was lost.  A logout   *)
(* leaves nothing that could store a session (Settled).                    *)
(***************************************************************************)
EXTENDS UiOperations, SequenceTheorems, FiniteSetTheorems, TLAPS

(* ---- the invariant of a command ------------------------------------------ *)

\* Where a command of a kind can be.
Stages(k) ==
  CASE k = "none"       -> {"idle"}
    [] k = "run"        -> {"resolve", "lock", "ask"}
    [] k = "preview"    -> {"resolve", "ask"}
    [] k = "connect"    -> {"login", "lock", "save", "bootstrap", "exchange", "keep"} \cup Deciding
    [] k = "logout"     -> {"lock", "leave", "leaving", "erase", "forget"}
    [] k = "disconnect" -> {"leave", "leaving", "erase", "forget"}

Anywhere == UNION {Stages(k) : k \in {"none", "run", "preview", "connect", "logout", "disconnect"}}

\* The commands, and the renewals, that know no token after the n-th.
Command(n) ==
  [kind : Kinds \cup {"none"}, pc : Anywhere, ai : BOOLEAN, current : 0..n, token : 0..n,
   stop : {"no", "auth", "refused"}, retry : BOOLEAN, asks : 0..(MaxAsks + 1),
   retired : SUBSET (1..n), lost : SUBSET (1..n)]
Renewing(n) == [pc : {"read", "refresh", "store"}, token : 0..n, fresh : 0..n]

\* A command c with its renewals r, before the service v.
Sound(c, r, v) ==
  /\ c \in Command(v.issued) /\ c.pc \in Stages(c.kind)
  /\ c.kind = "connect" => c.stop = "no"
  /\ c.retired \cap v.live = {}
  /\ c.stop = "refused" => c.token \notin c.retired /\ c.token \notin v.live
  /\ r \in Seq(Renewing(v.issued)) /\ Len(r) <= 1
  /\ Len(r) = 1 => /\ c.pc \in {"ask", "leaving"} /\ c.current = None
                   /\ r[1].pc = "refresh" => r[1].token \notin c.retired

PastLock(c) == c.kind \in Locked /\ c.pc \notin {"idle", "resolve", "login", "lock"}

(* ---- the tokens ------------------------------------------------------------ *)

\* The command is about to store t, which was not stored before.
Comes(c, r, t) ==
  \/ c.pc = "keep" /\ c.token = t
  \/ Len(r) = 1 /\ r[1].pc = "store" /\ r[1].fresh = t /\ r[1].token # t

\* The command renews the stored token t.
Reads(r, t) == Len(r) = 1 /\ r[1].pc # "read" /\ r[1].token = t

\* A token that is yet to be stored is known to the command that stores it alone.
Apart ==
  \A j \in Jobs : \A t \in Nat : Comes(job[j], renewals[j], t) =>
    /\ t # None /\ t # secret
    /\ \A k \in Jobs : /\ t \notin job[k].retired /\ ~Reads(renewals[k], t)
                       /\ k # j => ~Comes(job[k], renewals[k], t)

\* A command that replaced the stored token is about to store its successor.
Replaced ==
  \A j \in Jobs : secret \in job[j].retired =>
    /\ Len(renewals[j]) = 1 /\ renewals[j][1].pc = "store"
    /\ renewals[j][1].token = secret /\ renewals[j][1].fresh # secret

(* ---- the session ------------------------------------------------------------ *)

ServiceTyped ==
  /\ service \in Services /\ service.cut <= service.issued
  /\ service.live \subseteq (service.cut + 1)..service.issued

StoreTyped ==
  /\ secret \in 0..service.issued /\ account \in {"none", "row", "in"} /\ access \in {"off", "hosted"}
  /\ started \in 0..MaxJobs /\ faults \in 0..MaxFaults /\ quiet \in BOOLEAN

Commands ==
  /\ DOMAIN job = Jobs /\ DOMAIN renewals = Jobs
  /\ job = [j \in Jobs |-> job[j]] /\ renewals = [j \in Jobs |-> renewals[j]]
  /\ \A j \in Jobs : Sound(job[j], renewals[j], service)

Exclusive ==
  /\ lock \in Jobs \cup {Free}
  /\ \A j \in Jobs : PastLock(job[j]) <=> lock = j

\* After a logout no renewal is past the point where it finds no session.
Settled ==
  quiet => /\ secret = None
           /\ \A j \in Jobs : \A i \in DOMAIN renewals[j] : renewals[j][i].pc = "read"

SessionInv == ServiceTyped /\ StoreTyped /\ Commands /\ Exclusive /\ Apart /\ Replaced /\ Settled

(* ---- a session's renewals ---------------------------------------------------- *)

\* A command without a renewal starts one.
LEMMA FirstRenewal ==
  ASSUME NEW S, NEW r \in Seq(S), r = <<>>, NEW x \in S
  PROVE  Append(r, x) \in Seq(S) /\ Len(Append(r, x)) = 1 /\ Append(r, x)[1] = x
  OBVIOUS

\* The only renewal ends.
LEMMA LastRenewal ==
  ASSUME NEW S, NEW r \in Seq(S), Len(r) <= 1, NEW i \in DOMAIN r
  PROVE  i = 1 /\ Len(r) = 1 /\ RemoveAt(r, i) = <<>>
<1>1. i = 1 /\ Len(r) = 1
  <2>1. DOMAIN r = 1..Len(r) /\ Len(r) \in Nat
    OBVIOUS
  <2>2. PICK n \in Nat : n = Len(r)
    BY <2>1
  <2>3. i \in 1..n /\ n <= 1
    BY <2>1, <2>2
  <2>4. i = 1 /\ n = 1
    BY <2>3
  <2> QED
    BY <2>2, <2>4
<1>2. SubSeq(r, 1, 0) = <<>> /\ SubSeq(r, 2, 1) = <<>>
  BY <1>1
<1>3. RemoveAt(r, i) = SubSeq(r, 1, 0) \o SubSeq(r, 2, 1)
  BY <1>1 DEF RemoveAt
<1> QED
  BY <1>1, <1>2, <1>3

\* The only renewal goes on.
LEMMA SameRenewal ==
  ASSUME NEW S, NEW r \in Seq(S), Len(r) = 1, NEW x \in S
  PROVE  [r EXCEPT ![1] = x] \in Seq(S) /\ Len([r EXCEPT ![1] = x]) = 1 /\ [r EXCEPT ![1] = x][1] = x
  OBVIOUS

(* ---- what time changes -------------------------------------------------------- *)

\* The service may issue a token and may forget some.
Later(v, w) == v.issued <= w.issued /\ w.live \subseteq v.live \cup {v.issued + 1}

LEMMA SoundStays ==
  ASSUME NEW c, NEW r, NEW v, NEW w, v.issued \in Nat, w.issued \in Nat, Later(v, w), Sound(c, r, v)
  PROVE  Sound(c, r, w)
<1>1. 0..v.issued \subseteq 0..w.issued /\ 1..v.issued \subseteq 1..w.issued
  BY DEF Later
<1>2. c \in Command(w.issued)
  BY <1>1 DEF Sound, Command
<1>3. r \in Seq(Renewing(w.issued))
  <2>1. Renewing(v.issued) \subseteq Renewing(w.issued)
    BY <1>1 DEF Renewing
  <2>2. r \in Seq(Renewing(v.issued))
    BY DEF Sound
  <2>3. \A i \in 1..Len(r) : r[i] \in Renewing(w.issued)
    BY <2>1, <2>2
  <2>4. r = [i \in 1..Len(r) |-> r[i]] /\ Len(r) \in Nat
    BY <2>2
  <2> QED
    BY <2>3, <2>4, IsASeq
<1>4. c.retired \cap w.live = {}
  <2>1. c.retired \subseteq 1..v.issued
    BY DEF Sound, Command
  <2>2. v.issued + 1 \notin 1..v.issued
    OBVIOUS
  <2> QED
    BY <2>1, <2>2 DEF Sound, Later
<1>5. c.stop = "refused" => c.token \notin c.retired /\ c.token \notin w.live
  <2>1. c.token \in 0..v.issued
    BY DEF Sound, Command
  <2>2. v.issued + 1 \notin 0..v.issued
    OBVIOUS
  <2> QED
    BY <2>1, <2>2 DEF Sound, Later
<1> QED
  BY <1>2, <1>3, <1>4, <1>5 DEF Sound

(* ---- one command takes a step ---------------------------------------------------- *)

\* Nobody else's command changes.
Alone(j) ==
  /\ job' = [job EXCEPT ![j] = job'[j]] /\ renewals' = [renewals EXCEPT ![j] = renewals'[j]]
  /\ lock' \in Jobs \cup {Free} /\ \A k \in Jobs \ {j} : lock' = k <=> lock = k
  /\ PastLock(job'[j]) <=> lock' = j
  /\ ServiceTyped' /\ StoreTyped' /\ Later(service, service')
  /\ Sound(job'[j], renewals'[j], service')

LEMMA AloneKeeps ==
  ASSUME SessionInv, NEW j \in Jobs, Alone(j)
  PROVE  /\ Commands' /\ Exclusive'
         /\ \A k \in Jobs \ {j} : job'[k] = job[k] /\ renewals'[k] = renewals[k]
<1>1. \A k \in Jobs \ {j} : job'[k] = job[k] /\ renewals'[k] = renewals[k]
  BY DEF Alone, SessionInv, Commands
<1>2. \A k \in Jobs : Sound(job'[k], renewals'[k], service')
  <2>1. service.issued \in Nat /\ service'.issued \in Nat
    BY DEF SessionInv, ServiceTyped, Alone, Services
  <2>2. ASSUME NEW k \in Jobs \ {j} PROVE Sound(job'[k], renewals'[k], service')
    BY <1>1, <2>1, SoundStays DEF Alone, SessionInv, Commands
  <2> QED
    BY <2>2 DEF Alone
<1>3. /\ DOMAIN job' = Jobs /\ DOMAIN renewals' = Jobs
      /\ job' = [k \in Jobs |-> job'[k]] /\ renewals' = [k \in Jobs |-> renewals'[k]]
  BY DEF Alone, SessionInv, Commands
<1>4. Exclusive'
  BY <1>1 DEF Alone, SessionInv, Exclusive
<1> QED
  BY <1>1, <1>2, <1>3, <1>4 DEF Commands

\* A step that issues and stores no token, and that begins no renewal past its read
\* but with the stored token.
LEMMA QuietStep ==
  ASSUME SessionInv, NEW j \in Jobs, Alone(j),
         secret' = secret, quiet' = quiet,
         job'[j].retired \subseteq job[j].retired,
         \A t \in Nat : Comes(job'[j], renewals'[j], t) => Comes(job[j], renewals[j], t),
         \A t \in Nat : Reads(renewals'[j], t) => Reads(renewals[j], t) \/ t = secret,
         secret \in job'[j].retired => renewals'[j] = renewals[j],
         quiet => \A i \in DOMAIN renewals'[j] : renewals'[j][i].pc = "read"
  PROVE  SessionInv'
<1>1. /\ Commands' /\ Exclusive'
      /\ \A k \in Jobs \ {j} : job'[k] = job[k] /\ renewals'[k] = renewals[k]
  BY AloneKeeps
<1>2. Apart'
  BY <1>1 DEF Apart, SessionInv
<1>3. Replaced'
  BY <1>1 DEF Replaced, SessionInv
<1>4. Settled'
  BY <1>1 DEF Settled, SessionInv
<1> QED
  BY <1>1, <1>2, <1>3, <1>4 DEF SessionInv, Alone

\* A step of the command alone, its renewals and what it replaced left as they are.
Moves(j, c) ==
  /\ job' = [job EXCEPT ![j] = c]
  /\ c \in Command(service.issued) /\ c.pc \in Stages(c.kind)
  /\ c.retired = job[j].retired
  /\ c.pc = "keep" => job[j].pc = "keep" /\ c.token = job[j].token
  /\ c.kind = "connect" => c.stop = "no"
  /\ c.stop = "refused" => c.token \notin c.retired /\ c.token \notin service.live
  /\ Len(renewals[j]) = 1 => c.pc \in {"ask", "leaving"} /\ c.current = None

LEMMA MoveKeeps ==
  ASSUME SessionInv, NEW j \in Jobs, NEW c, Moves(j, c),
         UNCHANGED <<renewals, secret, quiet>>,
         ServiceTyped', StoreTyped', service'.issued = service.issued, service'.live \subseteq service.live,
         lock' \in Jobs \cup {Free}, \A k \in Jobs \ {j} : lock' = k <=> lock = k,
         PastLock(c) <=> lock' = j
  PROVE  SessionInv'
<1>1. job'[j] = c /\ job' = [job EXCEPT ![j] = job'[j]]
  BY DEF Moves, SessionInv, Commands
<1>2. renewals'[j] = renewals[j] /\ renewals' = [renewals EXCEPT ![j] = renewals'[j]]
  BY DEF SessionInv, Commands
<1>3. Sound(c, renewals[j], service')
  <2>1. Sound(job[j], renewals[j], service)
    BY DEF SessionInv, Commands
  <2>2. c.retired \cap service'.live = {}
    BY <2>1 DEF Moves, Sound
  <2>3. c \in Command(service'.issued)
    BY DEF Moves
  <2>4. renewals[j] \in Seq(Renewing(service'.issued)) /\ Len(renewals[j]) <= 1
    BY <2>1 DEF Sound
  <2>5. Len(renewals[j]) = 1 /\ renewals[j][1].pc = "refresh" => renewals[j][1].token \notin c.retired
    BY <2>1 DEF Sound, Moves
  <2>6. c.stop = "refused" => c.token \notin c.retired /\ c.token \notin service'.live
    BY DEF Moves
  <2> QED
    BY <2>2, <2>3, <2>4, <2>5, <2>6 DEF Moves, Sound
<1>4. Alone(j)
  <2>1. service'.issued \in Nat
    BY DEF ServiceTyped, Services
  <2> QED
    BY <1>1, <1>2, <1>3, <2>1 DEF Alone, Later
<1>5. \A t \in Nat : Comes(job'[j], renewals'[j], t) => Comes(job[j], renewals[j], t)
  <2>1. c.pc = "keep" => job[j].pc = "keep" /\ c.token = job[j].token
    BY DEF Moves
  <2> QED
    BY <1>1, <1>2, <2>1 DEF Comes
<1>6. quiet => \A i \in DOMAIN renewals'[j] : renewals'[j][i].pc = "read"
  BY <1>2 DEF SessionInv, Settled
<1>7. job'[j].retired = job[j].retired
  BY <1>1 DEF Moves
<1> QED
  BY <1>2, <1>4, <1>5, <1>6, <1>7, QuietStep

\* The command record is what its fields say.
LEMMA CommandFields ==
  ASSUME SessionInv, NEW j \in Jobs
  PROVE  /\ service.issued \in Nat
         /\ job[j] \in Command(service.issued)
         /\ Sound(job[j], renewals[j], service)
         /\ PastLock(job[j]) <=> lock = j
  BY DEF SessionInv, Commands, Exclusive, Sound, ServiceTyped, Services

\* What kind of command stands where.
LEMMA KindsOfPlaces ==
  ASSUME SessionInv, NEW j \in Jobs
  PROVE  /\ job[j].kind \in {"none", "run", "preview", "connect", "logout", "disconnect"}
         /\ job[j].pc = "idle" <=> job[j].kind = "none"
         /\ job[j].pc = "resolve" => job[j].kind \in {"run", "preview"}
         /\ job[j].pc = "ask" => job[j].kind \in {"run", "preview"}
         /\ job[j].pc = "lock" => job[j].kind \in {"run", "connect", "logout"}
         /\ job[j].pc \in {"login", "save", "bootstrap", "exchange", "keep"} => job[j].kind = "connect"
         /\ job[j].pc \in Deciding => job[j].kind = "connect"
         /\ job[j].pc \in {"leave", "leaving", "erase", "forget"} => job[j].kind \in {"logout", "disconnect"}
<1>1. job[j].kind \in {"none", "run", "preview", "connect", "logout", "disconnect"}
  BY CommandFields, SessionAssumption DEF Command
<1>2. job[j].pc \in Stages(job[j].kind)
  BY CommandFields DEF Sound
<1> QED
  BY <1>1, <1>2 DEF Stages, Deciding

LEMMA Placed ==
  ASSUME NEW k \in {"none", "run", "preview", "connect", "logout", "disconnect"}, NEW pc \in Stages(k)
  PROVE  pc \in Anywhere
  BY DEF Anywhere

\* A command whose renewals are over has none under way.
LEMMA NoRenewal ==
  ASSUME SessionInv, NEW j \in Jobs, job[j].pc \notin {"ask", "leaving"} \/ renewals[j] = <<>>
  PROVE  renewals[j] = <<>> /\ Len(renewals[j]) = 0
<1>1. renewals[j] \in Seq(Renewing(service.issued)) /\ Len(renewals[j]) <= 1 /\ Len(renewals[j]) # 1
  BY CommandFields DEF Sound
<1>2. PICK n \in Nat : n = Len(renewals[j])
  BY <1>1
<1>3. n <= 1 /\ n # 1
  BY <1>1, <1>2
<1>4. n = 0
  BY <1>3
<1>5. Len(renewals[j]) = 0
  BY <1>2, <1>4
<1> QED
  BY <1>1, <1>5

LEMMA ResolveKeeps ==
  ASSUME SessionInv, NEW j \in Jobs, Resolve(j)
  PROVE  SessionInv'
<1> DEFINE c == [job[j] EXCEPT !.ai = @ /\ secret # None, !.pc = IF job[j].kind = "run" THEN "lock" ELSE "ask"]
<1>1. /\ job[j].pc = "resolve" /\ job' = [job EXCEPT ![j] = c]
      /\ UNCHANGED <<store, lock, service, renewals, started, faults, quiet>>
  BY DEF Resolve
<1>2. Sound(job[j], renewals[j], service) /\ job[j].kind \in {"run", "preview"} /\ job[j].kind \in Kinds
  BY <1>1, CommandFields, SessionAssumption DEF Sound, Command, Stages, Deciding
<1>3. c \in Command(service.issued) /\ c.pc \in Stages(c.kind)
  <2>1. job[j] \in Command(service.issued)
    BY CommandFields
  <2>2. c.pc \in Stages(c.kind) /\ c.pc \in Anywhere
    BY <1>2, <2>1 DEF Command, Stages, Anywhere
  <2>3. (job[j].ai /\ secret # None) \in BOOLEAN
    OBVIOUS
  <2> QED
    BY <2>1, <2>2, <2>3 DEF Command
<1>4. Moves(j, c)
  BY <1>1, <1>2, <1>3 DEF Moves, Sound, Command
<1>5. PastLock(c) <=> lock' = j
  BY <1>1, <1>2, CommandFields DEF PastLock, Locked, Command, Sound
<1> QED
  BY <1>1, <1>4, <1>5, MoveKeeps DEF SessionInv, ServiceTyped, StoreTyped, Exclusive, store

LEMMA IdleSound ==
  ASSUME NEW v, v.issued \in Nat
  PROVE  Sound(Idle, <<>>, v) /\ ~PastLock(Idle)
<1>1. Idle \in Command(v.issued)
  BY SessionAssumption DEF Idle, Command, None, Stages, Anywhere
<1>2. <<>> \in Seq(Renewing(v.issued)) /\ Len(<<>>) = 0
  OBVIOUS
<1> QED
  BY <1>1, <1>2 DEF Sound, Idle, Stages, PastLock

\* The command ends, or is killed.
LEMMA EndKeeps ==
  ASSUME SessionInv, NEW j \in Jobs, Ends(j), UNCHANGED <<secret, quiet>>,
         renewals' = [renewals EXCEPT ![j] = <<>>],
         ServiceTyped', StoreTyped', service'.issued = service.issued, service'.live \subseteq service.live
  PROVE  SessionInv'
<1>1. job' = [job EXCEPT ![j] = job'[j]] /\ job'[j] = Idle
  BY DEF Ends, SessionInv, Commands
<1>2. renewals' = [renewals EXCEPT ![j] = renewals'[j]] /\ renewals'[j] = <<>>
  BY DEF SessionInv, Commands
<1>3. service'.issued \in Nat
  BY DEF ServiceTyped, Services
<1>4. Sound(job'[j], renewals'[j], service') /\ ~PastLock(job'[j])
  BY <1>1, <1>2, <1>3, IdleSound
<1>5. /\ lock' \in Jobs \cup {Free} /\ lock' # j
      /\ \A k \in Jobs \ {j} : lock' = k <=> lock = k
  BY SessionAssumption DEF Ends, SessionInv, Exclusive
<1>6. Alone(j)
  BY <1>1, <1>2, <1>3, <1>4, <1>5 DEF Alone, Later
<1>7. job'[j].retired = {} /\ job'[j].pc = "idle" /\ Len(renewals'[j]) = 0 /\ DOMAIN renewals'[j] = {}
  BY <1>1, <1>2 DEF Idle
<1> QED
  BY <1>6, <1>7, QuietStep DEF Comes, Reads

\* The same when no renewal was under way.
LEMMA EndsKeeps ==
  ASSUME SessionInv, NEW j \in Jobs, Ends(j), UNCHANGED <<secret, quiet, renewals>>,
         job[j].pc \notin {"ask", "leaving"} \/ renewals[j] = <<>>,
         ServiceTyped', StoreTyped', service'.issued = service.issued, service'.live \subseteq service.live
  PROVE  SessionInv'
<1>1. renewals[j] = <<>>
  BY NoRenewal
<1>2. renewals' = [renewals EXCEPT ![j] = <<>>]
  BY <1>1 DEF SessionInv, Commands
<1> QED
  BY <1>2, EndKeeps

\* A fault is counted within its bound.
LEMMA FaultCounted ==
  ASSUME SessionInv, Fault
  PROVE  faults' \in 0..MaxFaults
  BY SessionAssumption DEF SessionInv, StoreTyped, Fault

LEMMA EndingsKeep ==
  ASSUME SessionInv, NEW j \in Jobs,
         \/ LockHeld(j) \/ FinishRun(j) \/ LoginFails(j) \/ Choose(j) \/ HostedProblem(j)
         \/ ForgetGoogle(j) \/ Crash(j)
  PROVE  SessionInv'
<1> USE DEF store
<1>1. CASE LockHeld(j)
  BY <1>1, EndsKeeps DEF LockHeld, SessionInv, ServiceTyped, StoreTyped
<1>2. CASE FinishRun(j)
  BY <1>2, EndsKeeps DEF FinishRun, InFlight, SessionInv, ServiceTyped, StoreTyped
<1>3. CASE LoginFails(j)
  BY <1>3, EndsKeeps DEF LoginFails, SessionInv, ServiceTyped, StoreTyped
<1>4. CASE Choose(j)
  BY <1>4, EndsKeeps DEF Choose, Chosen, Deciding, SessionInv, ServiceTyped, StoreTyped
<1>5. CASE ForgetGoogle(j)
  BY <1>5, EndsKeeps DEF ForgetGoogle, SessionInv, ServiceTyped, StoreTyped
<1>6. CASE Crash(j)
  BY <1>6, EndKeeps, FaultCounted DEF Crash, SessionInv, ServiceTyped, StoreTyped
<1>7. CASE HostedProblem(j)
  <2>1. faults' \in 0..MaxFaults
    BY <1>7, FaultCounted DEF HostedProblem, SessionInv, StoreTyped
  <2>2. ServiceTyped' /\ service'.issued = service.issued /\ service'.live = service.live
    BY <1>7 DEF HostedProblem, SessionInv, ServiceTyped, Services
  <2>3. StoreTyped'
    BY <1>7, <2>1, <2>2 DEF HostedProblem, SessionInv, StoreTyped
  <2> QED
    BY <1>7, <2>2, <2>3, EndsKeeps DEF HostedProblem
<1> QED
  BY <1>1, <1>2, <1>3, <1>4, <1>5, <1>6, <1>7

\* A command goes from one place to another.
LEMMA ToKeeps ==
  ASSUME SessionInv, NEW j \in Jobs, NEW pc, To(j, pc),
         pc \in Stages(job[j].kind), pc # "keep", Len(renewals[j]) # 1,
         UNCHANGED <<renewals, secret, quiet>>,
         ServiceTyped', StoreTyped', service'.issued = service.issued, service'.live \subseteq service.live,
         lock' \in Jobs \cup {Free}, \A k \in Jobs \ {j} : lock' = k <=> lock = k,
         (job[j].kind \in Locked /\ pc \notin {"idle", "resolve", "login", "lock"}) <=> lock' = j
  PROVE  SessionInv'
<1> DEFINE c == [job[j] EXCEPT !.pc = pc]
<1>1. job[j] \in Command(service.issued) /\ Sound(job[j], renewals[j], service)
  BY CommandFields
<1>2. pc \in Anywhere
  BY KindsOfPlaces, Placed
<1>3. c \in Command(service.issued) /\ c.pc = pc /\ c.kind = job[j].kind
  BY <1>1, <1>2 DEF Command
<1>4. Moves(j, c)
  BY <1>1, <1>3 DEF Moves, Sound, Command, To
<1>5. PastLock(c) <=> lock' = j
  BY <1>3 DEF PastLock
<1> QED
  BY <1>4, <1>5, MoveKeeps

LEMMA MovesKeep ==
  ASSUME SessionInv, NEW j \in Jobs,
         \/ TakeLock(j) \/ Login(j) \/ SaveAccount(j) \/ Bootstrap(j)
         \/ Revoke(j) \/ RevokeFails(j) \/ CannotRevoke(j)
  PROVE  SessionInv'
<1>1. /\ Sound(job[j], renewals[j], service)
      /\ lock \in Jobs \cup {Free} /\ (PastLock(job[j]) <=> lock = j)
      /\ ServiceTyped /\ StoreTyped
  BY CommandFields DEF SessionInv, Exclusive
<1> USE DEF store
<1>2. CASE TakeLock(j)
  <2>1. AfterLock(job[j].kind) \in Stages(job[j].kind) \ {"keep", "idle", "resolve", "login", "lock"}
    BY <1>2, KindsOfPlaces DEF TakeLock, AfterLock, Stages
  <2>2. job[j].kind \in Locked /\ lock' = j /\ Len(renewals[j]) # 1
    BY <1>2, KindsOfPlaces, NoRenewal DEF TakeLock, Locked
  <2>3. \A k \in Jobs \ {j} : lock' = k <=> lock = k
    BY <1>2, SessionAssumption DEF TakeLock
  <2> QED
    BY <1>1, <1>2, <2>1, <2>2, <2>3, ToKeeps DEF TakeLock, ServiceTyped, StoreTyped
<1>3. CASE Login(j)
  <2>1. job[j].kind = "connect" /\ "lock" \in Stages("connect") /\ Len(renewals[j]) # 1 /\ lock # j
    BY <1>1, <1>3, KindsOfPlaces, NoRenewal DEF Login, Stages, PastLock
  <2> QED
    BY <1>1, <1>3, <2>1, ToKeeps DEF Login, ServiceTyped, StoreTyped
<1>4. CASE SaveAccount(j)
  <2>1. PICK pc \in {"bootstrap", "rules", "no choice"} : To(j, pc)
    BY <1>4 DEF SaveAccount
  <2>2. job[j].kind = "connect" /\ Len(renewals[j]) # 1 /\ lock = j
    <3>1. job[j].pc = "save"
      BY <1>4 DEF SaveAccount
    <3>2. job[j].kind = "connect"
      BY <3>1, KindsOfPlaces
    <3>3. Len(renewals[j]) # 1
      BY <1>1, <3>1 DEF Sound
    <3> QED
      BY <1>1, <3>1, <3>2, <3>3 DEF PastLock, Locked
  <2>4. pc \in Stages("connect")
    BY <2>1 DEF Stages, Deciding
  <2>3. job[j].kind \in Locked /\ pc \notin {"idle", "resolve", "login", "lock", "keep"}
    BY <2>1, <2>2 DEF Locked
  <2> QED
    BY <1>1, <1>4, <2>1, <2>2, <2>3, <2>4, ToKeeps DEF SaveAccount, ServiceTyped, StoreTyped
<1>5. CASE Bootstrap(j)
  <2>1. job[j].kind = "connect" /\ "exchange" \in Stages("connect") /\ Len(renewals[j]) # 1 /\ lock = j
    BY <1>1, <1>5, KindsOfPlaces, NoRenewal DEF Bootstrap, Stages, PastLock, Locked
  <2>2. ServiceTyped' /\ service'.issued = service.issued /\ service'.live = service.live
    BY <1>1, <1>5 DEF Bootstrap, ServiceTyped, Services
  <2>3. StoreTyped'
    BY <1>1, <1>5, <2>2 DEF Bootstrap, StoreTyped
  <2>4. job[j].kind \in Locked
    BY <2>1 DEF Locked
  <2> QED
    BY <1>1, <1>5, <2>1, <2>2, <2>3, <2>4, ToKeeps DEF Bootstrap
<1>6. CASE Revoke(j)
  <2>1. /\ job[j].kind \in {"logout", "disconnect"} /\ "erase" \in Stages(job[j].kind)
        /\ Len(renewals[j]) # 1
    <3>1. job[j].current # None
      <4>1. service.cut \in Nat
        BY <1>1 DEF ServiceTyped, Services
      <4> QED
        BY <1>6, <4>1 DEF Revoke, None
    <3> QED
      BY <1>1, <1>6, <3>1, KindsOfPlaces DEF Revoke, Stages, Sound
  <2>2. ServiceTyped' /\ service'.issued = service.issued /\ service'.live \subseteq service.live
    <3>2. CASE service' = [service EXCEPT !.grant = "revoked"]
      BY <1>1, <3>2 DEF ServiceTyped, Services
    <3>3. CASE service' = [service EXCEPT !.grant = "revoked", !.live = {}, !.cut = service.issued]
      <4>1. service \in Services
        BY <1>1 DEF ServiceTyped
      <4>2. /\ service'.live = {} /\ service'.cut = service.issued /\ service'.issued = service.issued
            /\ service'.grant = "revoked" /\ service' = [grant |-> "revoked", live |-> {},
                                                        cut |-> service.issued, issued |-> service.issued]
        BY <3>3, <4>1 DEF Services
      <4>3. service' \in Services
        BY <4>1, <4>2 DEF Services
      <4>4. service.issued \in Nat
        BY <4>1 DEF Services
      <4> QED
        BY <4>2, <4>3, <4>4 DEF ServiceTyped
    <3> QED
      BY <1>6, <3>2, <3>3 DEF Revoke
  <2>3. StoreTyped'
    BY <1>1, <1>6, <2>2 DEF Revoke, StoreTyped
  <2>4. job[j].kind \in Locked <=> lock = j
    BY <1>1, <1>6 DEF PastLock, Revoke
  <2> QED
    BY <1>1, <1>6, <2>1, <2>2, <2>3, <2>4, ToKeeps DEF Revoke
<1>8. CASE RevokeFails(j)
  <2>1. /\ job[j].kind \in {"logout", "disconnect"} /\ "erase" \in Stages(job[j].kind)
        /\ Len(renewals[j]) # 1
    BY <1>1, <1>8, KindsOfPlaces DEF RevokeFails, Stages, Sound
  <2>2. faults' \in 0..MaxFaults
    BY <1>1, <1>8, FaultCounted DEF RevokeFails, StoreTyped
  <2>3. ServiceTyped' /\ StoreTyped'
    BY <1>1, <1>8, <2>2 DEF RevokeFails, ServiceTyped, StoreTyped
  <2>4. job[j].kind \in Locked <=> lock = j
    BY <1>1, <1>8 DEF PastLock, RevokeFails
  <2> QED
    BY <1>1, <1>8, <2>1, <2>3, <2>4, ToKeeps DEF RevokeFails
<1>7. CASE CannotRevoke(j)
  <2>1. /\ job[j].kind \in {"logout", "disconnect"} /\ "erase" \in Stages(job[j].kind)
        /\ Len(renewals[j]) # 1
    BY <1>1, <1>7, KindsOfPlaces, NoRenewal DEF CannotRevoke, Stages, InFlight
  <2>4. job[j].kind \in Locked <=> lock = j
    BY <1>1, <1>7 DEF PastLock, CannotRevoke
  <2> QED
    BY <1>1, <1>7, <2>1, <2>4, ToKeeps DEF CannotRevoke, ServiceTyped, StoreTyped
<1> QED
  BY <1>2, <1>3, <1>4, <1>5, <1>6, <1>7, <1>8

LEMMA LeaveKeeps ==
  ASSUME SessionInv, NEW j \in Jobs, Leave(j)
  PROVE  SessionInv'
<1> DEFINE c == [job[j] EXCEPT !.pc = IF secret = None THEN "erase" ELSE "leaving", !.ai = TRUE]
<1>1. /\ job[j].pc = "leave" /\ job' = [job EXCEPT ![j] = c]
      /\ UNCHANGED <<store, lock, service, renewals, started, faults, quiet>>
  BY DEF Leave
<1>2. /\ Sound(job[j], renewals[j], service) /\ job[j] \in Command(service.issued)
      /\ job[j].kind \in {"logout", "disconnect"}
  BY <1>1, CommandFields, KindsOfPlaces
<1>3. c \in Command(service.issued) /\ c.pc \in Stages(c.kind) \cap {"erase", "leaving"}
  <2>1. c.kind = job[j].kind /\ c.pc \in {"erase", "leaving"}
    BY <1>2 DEF Command
  <2>2. {"erase", "leaving"} \subseteq Stages(job[j].kind)
    BY <1>2 DEF Stages
  <2>3. c.pc \in Anywhere
    BY <1>2, <2>1, <2>2, Placed
  <2> QED
    BY <1>2, <2>1, <2>2, <2>3 DEF Command
<1>4. Moves(j, c)
  BY <1>1, <1>2, <1>3 DEF Moves, Sound, Command
<1>5. PastLock(c) <=> lock' = j
  BY <1>1, <1>2, <1>3, CommandFields DEF PastLock, Locked, Command
<1> QED
  BY <1>1, <1>4, <1>5, MoveKeeps DEF SessionInv, ServiceTyped, StoreTyped, Exclusive, store

LEMMA AskingKeeps ==
  ASSUME SessionInv, NEW j \in Jobs, Post(j) \/ TokenExpires(j)
  PROVE  SessionInv'
<1>1. /\ Sound(job[j], renewals[j], service) /\ job[j] \in Command(service.issued)
      /\ job[j].kind \in {"run", "preview"} /\ job[j].pc = "ask" /\ Len(renewals[j]) # 1
  BY CommandFields, KindsOfPlaces DEF Sound, Post, TokenExpires
<1>2. MaxAsks \in Nat
  BY SessionAssumption
<1>3. CASE Post(j)
  <2> DEFINE c == [job[j] EXCEPT !.asks = @ + 1, !.stop = IF Honoured(job[j].current) THEN @ ELSE "auth"]
  <2>1. /\ job' = [job EXCEPT ![j] = c] /\ job[j].asks < MaxAsks
        /\ UNCHANGED <<store, lock, service, renewals, started, faults, quiet>>
    BY <1>3 DEF Post
  <2>2. /\ c \in Command(service.issued) /\ c.pc = "ask" /\ c.kind = job[j].kind
        /\ c.stop \in {job[j].stop, "auth"} /\ c.token = job[j].token /\ c.retired = job[j].retired
    <3>1. job[j].asks + 1 \in 0..(MaxAsks + 1)
      <4>1. job[j].asks \in 0..(MaxAsks + 1)
        BY <1>1 DEF Command
      <4> QED
        BY <1>2, <2>1, <4>1
    <3>2. (IF Honoured(job[j].current) THEN job[j].stop ELSE "auth") \in {job[j].stop, "auth"}
      OBVIOUS
    <3> QED
      BY <1>1, <3>1, <3>2 DEF Command
  <2>3. Moves(j, c)
    BY <1>1, <2>1, <2>2 DEF Moves, Sound
  <2>4. PastLock(c) <=> lock' = j
    BY <1>1, <2>1, <2>2, CommandFields DEF PastLock
  <2> QED
    BY <2>1, <2>3, <2>4, MoveKeeps DEF SessionInv, ServiceTyped, StoreTyped, Exclusive, store
<1>4. CASE TokenExpires(j)
  <2> DEFINE c == [job[j] EXCEPT !.current = None]
  <2>1. /\ job' = [job EXCEPT ![j] = c]
        /\ UNCHANGED <<store, lock, service, renewals, started, faults, quiet>>
    BY <1>4 DEF TokenExpires
  <2>2. /\ c \in Command(service.issued) /\ c.pc = "ask" /\ c.kind = job[j].kind
        /\ c.stop = job[j].stop /\ c.token = job[j].token /\ c.retired = job[j].retired
    <3>1. None \in 0..service.issued
      BY CommandFields DEF None
    <3> QED
      BY <1>1, <3>1 DEF Command
  <2>3. Moves(j, c)
    BY <1>1, <2>1, <2>2 DEF Moves, Sound
  <2>4. PastLock(c) <=> lock' = j
    BY <1>1, <2>1, <2>2, CommandFields DEF PastLock
  <2> QED
    BY <2>1, <2>3, <2>4, MoveKeeps DEF SessionInv, ServiceTyped, StoreTyped, Exclusive, store
<1> QED
  BY <1>3, <1>4

(* ---- renewals ---------------------------------------------------------------------- *)

LEMMA BeginRenewalKeeps ==
  ASSUME SessionInv, NEW j \in Jobs, BeginRenewal(j)
  PROVE  SessionInv'
<1> DEFINE c == [job[j] EXCEPT !.asks = @ + 1]
           x == [pc |-> "read", token |-> None, fresh |-> None]
           r == Append(renewals[j], x)
<1>1. /\ job' = [job EXCEPT ![j] = c] /\ renewals' = [renewals EXCEPT ![j] = r]
      /\ job[j].pc \in {"ask", "leaving"} /\ job[j].current = None
      /\ job[j].asks < (IF job[j].pc = "leaving" THEN 1 ELSE MaxAsks) /\ renewals[j] = <<>>
      /\ UNCHANGED <<store, lock, service, started, faults, quiet>>
  BY DEF BeginRenewal, InFlight
<1>2. /\ Sound(job[j], renewals[j], service) /\ job[j] \in Command(service.issued)
      /\ service.issued \in Nat /\ MaxAsks \in Nat
  BY CommandFields, SessionAssumption
<1>3. /\ c \in Command(service.issued) /\ c.pc = job[j].pc /\ c.kind = job[j].kind /\ c.stop = job[j].stop
      /\ c.current = None /\ c.retired = job[j].retired /\ c.token = job[j].token
  <2>1. job[j].asks + 1 \in 0..(MaxAsks + 1)
    <3>1. job[j].asks \in 0..(MaxAsks + 1)
      BY <1>2 DEF Command
    <3>2. CASE job[j].pc = "leaving"
      BY <1>1, <1>2, <3>1, <3>2
    <3>3. CASE job[j].pc # "leaving"
      BY <1>1, <1>2, <3>1, <3>3
    <3> QED
      BY <3>2, <3>3
  <2> QED
    BY <1>1, <1>2, <2>1 DEF Command
<1>4. r \in Seq(Renewing(service.issued)) /\ Len(r) = 1 /\ r[1] = x
  <2>1. x \in Renewing(service.issued)
    BY <1>2 DEF Renewing, None
  <2>2. renewals[j] \in Seq(Renewing(service.issued))
    BY <1>2 DEF Sound
  <2> HIDE DEF x
  <2> QED
    BY <1>1, <2>1, <2>2, FirstRenewal
<1> HIDE DEF c, r
<1>5. job'[j] = c /\ renewals'[j] = r
  BY <1>1 DEF SessionInv, Commands
<1>6. Alone(j)
  <2>1. Sound(c, r, service')
    BY <1>1, <1>2, <1>3, <1>4 DEF Sound
  <2>2. PastLock(c) <=> lock' = j
    BY <1>1, <1>3, CommandFields DEF PastLock
  <2>3. ServiceTyped' /\ StoreTyped' /\ lock' \in Jobs \cup {Free}
    BY <1>1 DEF SessionInv, ServiceTyped, StoreTyped, Exclusive, store
  <2>4. job' = [job EXCEPT ![j] = job'[j]] /\ renewals' = [renewals EXCEPT ![j] = renewals'[j]]
    BY <1>1, <1>5
  <2> QED
    BY <1>1, <1>2, <1>5, <2>1, <2>2, <2>3, <2>4 DEF Alone, Later
<1>7. /\ \A t \in Nat : ~Reads(renewals'[j], t) /\ ~Comes(job'[j], renewals'[j], t)
      /\ \A i \in DOMAIN renewals'[j] : renewals'[j][i].pc = "read"
  <2>1. r[1].pc = "read" /\ DOMAIN r = {1}
    BY <1>4
  <2> QED
    BY <1>1, <1>3, <1>4, <1>5, <2>1 DEF Reads, Comes
<1>8. secret \notin job'[j].retired
  <2>1. ~(Len(renewals[j]) = 1)
    BY <1>1
  <2> QED
    BY <1>3, <1>5, <2>1 DEF SessionInv, Replaced
<1> QED
  BY <1>1, <1>3, <1>5, <1>6, <1>7, <1>8, QuietStep DEF store

\* The command with a renewal under way.
LEMMA UnderWay ==
  ASSUME SessionInv, NEW j \in Jobs, NEW i \in DOMAIN renewals[j]
  PROVE  /\ i = 1 /\ Len(renewals[j]) = 1 /\ RemoveAt(renewals[j], i) = <<>>
         /\ renewals[j][1] \in Renewing(service.issued)
         /\ job[j].pc \in {"ask", "leaving"} /\ job[j].current = None
         /\ job[j].kind # "connect"
<1>1. Sound(job[j], renewals[j], service)
  BY CommandFields
<1>2. renewals[j] \in Seq(Renewing(service.issued)) /\ Len(renewals[j]) <= 1
  BY <1>1 DEF Sound
<1>3. i = 1 /\ Len(renewals[j]) = 1 /\ RemoveAt(renewals[j], i) = <<>>
  BY <1>2, LastRenewal
<1>4. renewals[j][1] \in Renewing(service.issued)
  BY <1>2, <1>3, ElementOfSeq
<1>5. job[j].kind # "connect"
  BY <1>1, <1>3, KindsOfPlaces DEF Sound
<1> QED
  BY <1>1, <1>3, <1>4, <1>5 DEF Sound

\* A renewal ends, and the command is c.
Over(j, c) ==
  /\ job' = [job EXCEPT ![j] = c] /\ renewals' = [renewals EXCEPT ![j] = <<>>]
  /\ c \in Command(service'.issued)
  /\ c.pc = job[j].pc /\ c.kind = job[j].kind /\ c.retired \subseteq job[j].retired
  /\ c.stop = "refused" => /\ c.token \notin c.retired /\ c.token \notin service.live
                           /\ c.token \in 0..service.issued

LEMMA OverAlone ==
  ASSUME SessionInv, NEW j \in Jobs, NEW i \in DOMAIN renewals[j], NEW c, Over(j, c),
         ServiceTyped', StoreTyped', Later(service, service'), lock' = lock
  PROVE  /\ Alone(j) /\ job'[j] = c /\ renewals'[j] = <<>>
         /\ \A t \in Nat : ~Reads(renewals'[j], t) /\ ~Comes(job'[j], renewals'[j], t)
<1>1. /\ job'[j] = c /\ renewals'[j] = <<>>
      /\ job' = [job EXCEPT ![j] = job'[j]] /\ renewals' = [renewals EXCEPT ![j] = renewals'[j]]
  BY DEF Over, SessionInv, Commands
<1>2. Sound(c, <<>>, service')
  <2>1. c.pc \in Stages(c.kind) /\ c.kind # "connect"
    BY CommandFields, UnderWay DEF Over, Sound
  <2>2. c.retired \cap service'.live = {}
    <3>1. service.issued \in Nat /\ job[j].retired \subseteq 1..service.issued
      BY CommandFields DEF Command
    <3>2. service.issued + 1 \notin job[j].retired
      BY <3>1
    <3>3. job[j].retired \cap service.live = {}
      BY CommandFields DEF Sound
    <3> QED
      BY <3>2, <3>3 DEF Later, Over
  <2>3. <<>> \in Seq(Renewing(service'.issued)) /\ Len(<<>>) = 0
    OBVIOUS
  <2>4. c.stop = "refused" => c.token \notin service'.live
    <3>1. service.issued \in Nat /\ service.issued + 1 \notin 0..service.issued
      BY CommandFields
    <3> QED
      BY <3>1 DEF Later, Over
  <2> QED
    BY <2>1, <2>2, <2>3, <2>4 DEF Over, Sound
<1>3. PastLock(c) <=> lock' = j
  BY CommandFields DEF PastLock, Over
<1>4. Alone(j)
  BY <1>1, <1>2, <1>3 DEF Alone, SessionInv, Exclusive
<1>5. c.pc # "keep" /\ Len(<<>>) # 1
  BY UnderWay DEF Over
<1> QED
  BY <1>1, <1>4, <1>5 DEF Reads, Comes

\* It ends without a token that is to be stored.
LEMMA OverKeeps ==
  ASSUME SessionInv, NEW j \in Jobs, NEW i \in DOMAIN renewals[j], NEW c, Over(j, c),
         ServiceTyped', StoreTyped', Later(service, service'), UNCHANGED <<lock, secret, quiet>>,
         renewals[j][1].pc = "store" => renewals[j][1].token \notin c.retired
  PROVE  SessionInv'
<1>1. /\ Alone(j) /\ job'[j] = c /\ renewals'[j] = <<>>
      /\ \A t \in Nat : ~Reads(renewals'[j], t) /\ ~Comes(job'[j], renewals'[j], t)
  BY OverAlone
<1>2. secret \notin job'[j].retired
  BY <1>1 DEF SessionInv, Replaced, Over
<1>3. \A k \in DOMAIN renewals'[j] : renewals'[j][k].pc = "read"
  BY <1>1
<1> QED
  BY <1>1, <1>2, <1>3, QuietStep DEF Over

\* How a renewal leaves the command.
LEMMA RenewedOver ==
  ASSUME SessionInv, NEW j \in Jobs, NEW i \in DOMAIN renewals[j],
         NEW token \in 0..service'.issued, NEW stop \in {"no", "auth"}, Renewed(j, i, token, stop),
         service.issued <= service'.issued, service'.issued \in Nat
  PROVE  \E c : Over(j, c) /\ c.retired = job[j].retired
<1> DEFINE c == [job[j] EXCEPT !.current = IF token = None THEN @ ELSE token,
                               !.stop = IF stop = "no" THEN @ ELSE stop]
<1>1. job' = [job EXCEPT ![j] = c] /\ renewals' = [renewals EXCEPT ![j] = <<>>]
  BY UnderWay DEF Renewed
<1>2. job[j] \in Command(service.issued) /\ service.issued \in Nat
  BY CommandFields
<1>3. /\ c \in Command(service'.issued) /\ c.pc = job[j].pc /\ c.kind = job[j].kind
      /\ c.retired = job[j].retired /\ c.token = job[j].token
      /\ c.stop = "refused" => job[j].stop = "refused"
  <2>1. 0..service.issued \subseteq 0..service'.issued /\ 1..service.issued \subseteq 1..service'.issued
    BY <1>2
  <2>2. (IF token = None THEN job[j].current ELSE token) \in 0..service'.issued
    BY <1>2, <2>1 DEF Command
  <2>3. (IF stop = "no" THEN job[j].stop ELSE stop) \in {job[j].stop, "auth"}
    OBVIOUS
  <2> QED
    BY <1>2, <2>1, <2>2, <2>3 DEF Command
<1>4. job[j].stop = "refused" => /\ job[j].token \notin job[j].retired /\ job[j].token \notin service.live
                                 /\ job[j].token \in 0..service.issued
  BY CommandFields DEF Sound, Command
<1>5. Over(j, c)
  BY <1>1, <1>3, <1>4 DEF Over
<1> QED
  BY <1>3, <1>5

LEMMA ReadStoredKeeps ==
  ASSUME SessionInv, NEW j \in Jobs, NEW i \in DOMAIN renewals[j], ReadStored(j, i)
  PROVE  SessionInv'
<1>1. /\ i = 1 /\ Len(renewals[j]) = 1 /\ renewals[j][1] \in Renewing(service.issued)
      /\ renewals[j][1].pc = "read" /\ UNCHANGED <<secret, account, access, lock, service, started, faults, quiet>>
  BY UnderWay DEF ReadStored, store
<1>2. service.issued \in Nat /\ ServiceTyped' /\ StoreTyped' /\ Later(service, service')
  BY <1>1, CommandFields DEF SessionInv, ServiceTyped, StoreTyped, Later
<1>3. CASE secret = None
  <2>1. Renewed(j, i, None, "auth") /\ None \in 0..service'.issued
    BY <1>1, <1>2, <1>3 DEF ReadStored, None
  <2>2. PICK c : Over(j, c) /\ c.retired = job[j].retired
    BY <1>1, <1>2, <2>1, RenewedOver
  <2> QED
    BY <1>1, <1>2, <2>2, OverKeeps
<1>4. CASE secret # None
  <2> DEFINE x == [renewals[j][1] EXCEPT !.pc = "refresh", !.token = secret]
             r == [renewals[j] EXCEPT ![1] = x]
  <2>1. renewals' = [renewals EXCEPT ![j] = r] /\ job' = job
    BY <1>1, <1>4 DEF ReadStored
  <2>2. x \in Renewing(service.issued) /\ x.pc = "refresh" /\ x.token = secret
    BY <1>1 DEF Renewing, SessionInv, StoreTyped
  <2> HIDE DEF x
  <2>3. r \in Seq(Renewing(service.issued)) /\ Len(r) = 1 /\ r[1] = x
    BY <1>1, <2>2, CommandFields, SameRenewal DEF Sound
  <2> HIDE DEF r
  <2>4. /\ renewals'[j] = r /\ job'[j] = job[j]
        /\ job' = [job EXCEPT ![j] = job'[j]] /\ renewals' = [renewals EXCEPT ![j] = renewals'[j]]
    BY <2>1 DEF SessionInv, Commands
  <2>5. secret \notin job[j].retired
    BY <1>1 DEF SessionInv, Replaced
  <2>6. Sound(job'[j], renewals'[j], service')
    <3>1. Sound(job[j], renewals[j], service)
      BY CommandFields
    <3> QED
      BY <1>1, <2>2, <2>3, <2>4, <2>5, <3>1 DEF Sound
  <2>7. Alone(j)
    BY <1>1, <1>2, <2>4, <2>6, CommandFields DEF Alone, SessionInv, Exclusive
  <2>8. ~quiet
    BY <1>4 DEF SessionInv, Settled
  <2> QED
    BY <1>1, <2>2, <2>3, <2>4, <2>5, <2>7, <2>8, QuietStep DEF Reads, Comes
<1> QED
  BY <1>3, <1>4

LEMMA RefreshRefusedKeeps ==
  ASSUME SessionInv, NEW j \in Jobs, NEW i \in DOMAIN renewals[j], RefreshRefused(j, i)
  PROVE  SessionInv'
<1>1. /\ i = 1 /\ Len(renewals[j]) = 1 /\ renewals[j][1] \in Renewing(service.issued)
      /\ RemoveAt(renewals[j], i) = <<>>
  BY UnderWay
<1> DEFINE c == [job[j] EXCEPT !.stop = "refused", !.token = renewals[j][1].token]
<1>2. /\ renewals[j][1].pc = "refresh" /\ job' = [job EXCEPT ![j] = c]
      /\ renewals' = [renewals EXCEPT ![j] = <<>>]
      /\ UNCHANGED <<secret, account, access, lock, service, started, faults, quiet>>
  BY <1>1 DEF RefreshRefused, store
<1>3. service.issued \in Nat /\ ServiceTyped' /\ StoreTyped' /\ Later(service, service')
  BY <1>2, CommandFields DEF SessionInv, ServiceTyped, StoreTyped, Later
<1>4. /\ c \in Command(service.issued) /\ c.pc = job[j].pc /\ c.kind = job[j].kind
      /\ c.retired = job[j].retired /\ c.token = renewals[j][1].token
  BY <1>1, CommandFields DEF Command, Renewing
<1>5. /\ renewals[j][1].token \notin job[j].retired /\ renewals[j][1].token \notin service.live
      /\ renewals[j][1].token \in 0..service.issued
  BY <1>1, <1>2, CommandFields DEF Sound, Renewing, RefreshRefused, Live
<1>6. Over(j, c)
  BY <1>2, <1>4, <1>5 DEF Over
<1> QED
  BY <1>2, <1>3, <1>6, OverKeeps

\* The service issues one token.
LEMMA IssuedNext ==
  ASSUME ServiceTyped, service.issued < MaxTokens, NEW used \in 0..service.issued, NEW kept \in BOOLEAN,
         service' = Issued(used, kept)
  PROVE  /\ service.issued \in Nat /\ service'.issued = service.issued + 1
         /\ ServiceTyped' /\ Later(service, service')
         /\ ~kept => used \notin service'.live
<1>1. service \in Services /\ service.issued \in Nat /\ service.cut \in Nat /\ MaxTokens \in Nat
  BY SessionAssumption DEF ServiceTyped, Services
<1> DEFINE L == (IF kept THEN service.live ELSE service.live \ {used}) \cup {service.issued + 1}
<1>2. service' = [service EXCEPT !.issued = service.issued + 1, !.live = L]
  BY <1>1 DEF Issued, Services
<1>3. L \subseteq service.live \cup {service.issued + 1} /\ (~kept => used \notin L)
  BY <1>1
<1>4. L \subseteq (service.cut + 1)..(service.issued + 1)
  <2>1. (service.cut + 1)..service.issued \subseteq (service.cut + 1)..(service.issued + 1)
    BY <1>1
  <2>2. service.issued + 1 \in (service.cut + 1)..(service.issued + 1)
    BY <1>1 DEF ServiceTyped
  <2> QED
    BY <1>3, <2>1, <2>2 DEF ServiceTyped
<1>5. L \subseteq Tokens
  BY <1>1, <1>4 DEF Tokens
<1> HIDE DEF L
<1>6. /\ service' \in Services /\ service'.issued = service.issued + 1 /\ service'.live = L
      /\ service'.cut = service.cut
  <2>1. service.issued + 1 \in 0..MaxTokens
    BY <1>1
  <2>2. service' = [grant |-> service.grant, live |-> L, cut |-> service.cut, issued |-> service.issued + 1]
    BY <1>1, <1>2 DEF Services
  <2> QED
    BY <1>1, <1>5, <2>1, <2>2 DEF Services
<1>7. service'.cut <= service'.issued
  BY <1>1, <1>6 DEF ServiceTyped
<1> QED
  BY <1>1, <1>3, <1>4, <1>6, <1>7 DEF ServiceTyped, Later

\* A renewal ends with no token, and its command is c.
LEMMA NothingRenewed ==
  ASSUME SessionInv, NEW j \in Jobs, NEW i \in DOMAIN renewals[j],
         NEW c \in Command(service.issued), job' = [job EXCEPT ![j] = c],
         c.pc = job[j].pc, c.kind = job[j].kind, c.token = job[j].token, c.stop = job[j].stop,
         c.retired \subseteq job[j].retired,
         renewals' = [renewals EXCEPT ![j] = RemoveAt(@, i)],
         service.issued <= service'.issued, service'.issued \in Nat
  PROVE  Over(j, c)
<1>1. job' = [job EXCEPT ![j] = c] /\ renewals' = [renewals EXCEPT ![j] = <<>>]
  BY UnderWay
<1>2. c \in Command(service'.issued)
  <2>1. service.issued \in Nat
    BY CommandFields
  <2>2. 0..service.issued \subseteq 0..service'.issued /\ 1..service.issued \subseteq 1..service'.issued
    BY <2>1
  <2> QED
    BY <2>2 DEF Command
<1>3. job[j].stop = "refused" => /\ job[j].token \notin job[j].retired /\ job[j].token \notin service.live
                                 /\ job[j].token \in 0..service.issued
  BY CommandFields DEF Sound, Command
<1> QED
  BY <1>1, <1>2, <1>3 DEF Over

LEMMA RefreshLostKeeps ==
  ASSUME SessionInv, NEW j \in Jobs, NEW i \in DOMAIN renewals[j], RefreshLost(j, i)
  PROVE  SessionInv'
<1> DEFINE used == renewals[j][1].token
<1>1. /\ i = 1 /\ renewals[j][1] \in Renewing(service.issued) /\ renewals[j][1].pc = "refresh"
      /\ UNCHANGED <<secret, account, access, lock, started, quiet>>
      /\ faults' \in 0..MaxFaults
  BY UnderWay, FaultCounted DEF RefreshLost, store
<1>2. service.issued \in Nat /\ ServiceTyped /\ job[j] \in Command(service.issued)
  BY CommandFields DEF SessionInv
<1>3. \/ /\ UNCHANGED service
         /\ job' = [job EXCEPT ![j].retry = job[j].pc = "ask"]
      \/ /\ used \in service.live /\ service.issued < MaxTokens /\ service' = Issued(used, FALSE)
         /\ job' = [job EXCEPT ![j].retry = job[j].pc = "ask", ![j].lost = @ \cup {used}]
  BY <1>1 DEF RefreshLost, Live
<1>4. /\ ServiceTyped' /\ Later(service, service') /\ service.issued <= service'.issued
      /\ service'.issued \in Nat
  <2>1. CASE UNCHANGED service
    BY <1>2, <2>1 DEF ServiceTyped, Later
  <2>2. CASE service.issued < MaxTokens /\ service' = Issued(used, FALSE)
    <3>1. used \in 0..service.issued
      BY <1>1 DEF Renewing
    <3>2. FALSE \in BOOLEAN
      OBVIOUS
    <3>3. ServiceTyped' /\ Later(service, service') /\ service'.issued = service.issued + 1
      BY <1>2, <2>2, <3>1, <3>2, IssuedNext
    <3> QED
      BY <1>2, <3>3
  <2> QED
    BY <1>3, <2>1, <2>2
<1>5. StoreTyped'
  <2>1. secret \in 0..service'.issued
    BY <1>2, <1>4 DEF SessionInv, StoreTyped
  <2> QED
    BY <1>1, <2>1 DEF SessionInv, StoreTyped
<1>6. renewals' = [renewals EXCEPT ![j] = RemoveAt(@, i)]
  BY DEF RefreshLost
<1>8. \E c : Over(j, c) /\ c.retired = job[j].retired
  <2>1. CASE job' = [job EXCEPT ![j].retry = job[j].pc = "ask"]
    <3> DEFINE c == [job[j] EXCEPT !.retry = job[j].pc = "ask"]
    <3>1. job' = [job EXCEPT ![j] = c]
      BY <2>1
    <3>2. /\ c \in Command(service.issued) /\ c.pc = job[j].pc /\ c.kind = job[j].kind
          /\ c.token = job[j].token /\ c.stop = job[j].stop /\ c.retired = job[j].retired
      BY <1>2 DEF Command
    <3> HIDE DEF c
    <3>3. Over(j, c)
      BY <1>4, <1>6, <3>1, <3>2, NothingRenewed
    <3> QED
      BY <3>2, <3>3
  <2>2. CASE /\ used \in service.live
             /\ job' = [job EXCEPT ![j].retry = job[j].pc = "ask", ![j].lost = @ \cup {used}]
    <3> DEFINE c == [job[j] EXCEPT !.retry = job[j].pc = "ask", !.lost = @ \cup {used}]
    <3>1. job' = [job EXCEPT ![j] = c]
      BY <2>2
    <3>2. used \in 1..service.issued
      <4>1. service.cut \in Nat /\ service.live \subseteq (service.cut + 1)..service.issued
        BY <1>2 DEF ServiceTyped, Services
      <4> QED
        BY <1>2, <2>2, <4>1
    <3> HIDE DEF used
    <3>3. /\ c \in Command(service.issued) /\ c.pc = job[j].pc /\ c.kind = job[j].kind
          /\ c.token = job[j].token /\ c.stop = job[j].stop /\ c.retired = job[j].retired
      BY <1>2, <3>2 DEF Command
    <3> HIDE DEF c
    <3>4. Over(j, c)
      BY <1>4, <1>6, <3>1, <3>3, NothingRenewed
    <3> QED
      BY <3>3, <3>4
  <2> QED
    BY <1>3, <2>1, <2>2
<1>9. PICK c : Over(j, c) /\ c.retired = job[j].retired
  BY <1>8
<1> QED
  BY <1>1, <1>4, <1>5, <1>9, OverKeeps

LEMMA StoreFailsKeeps ==
  ASSUME SessionInv, NEW j \in Jobs, NEW i \in DOMAIN renewals[j], StoreFails(j, i)
  PROVE  SessionInv'
<1> DEFINE used == renewals[j][1].token
           c == [job[j] EXCEPT !.retry = job[j].pc = "ask", !.retired = @ \ {used},
                               !.lost = @ \cup ({used} \cap job[j].retired)]
<1>1. i = 1
  BY UnderWay
<1>2. /\ job' = [job EXCEPT ![j] = c]
      /\ renewals' = [renewals EXCEPT ![j] = RemoveAt(@, i)]
      /\ UNCHANGED <<secret, account, access, lock, service, started, quiet>>
      /\ faults' \in 0..MaxFaults
  BY <1>1, FaultCounted DEF StoreFails, store
<1>3. service.issued \in Nat /\ ServiceTyped' /\ StoreTyped' /\ Later(service, service')
  BY <1>2, CommandFields DEF SessionInv, ServiceTyped, StoreTyped, Later
<1> HIDE DEF used
<1>4. /\ c \in Command(service.issued) /\ c.pc = job[j].pc /\ c.kind = job[j].kind
      /\ c.token = job[j].token /\ c.stop = job[j].stop /\ c.retired = job[j].retired \ {used}
  BY CommandFields DEF Command
<1> HIDE DEF c
<1>5. Over(j, c)
  <2>1. /\ c.retired \subseteq job[j].retired
        /\ service.issued <= service'.issued /\ service'.issued \in Nat
    BY <1>2, <1>3, <1>4
  <2> QED
    BY <1>2, <1>4, <2>1, NothingRenewed
<1>6. renewals[j][1].token \notin c.retired
  BY <1>4 DEF used
<1> QED
  BY <1>2, <1>3, <1>5, <1>6, OverKeeps

(* ---- tokens are issued and stored ------------------------------------------------------ *)

\* Nobody knows a token the service has not issued.
LEMMA TokensIssued ==
  ASSUME SessionInv, NEW j \in Jobs
  PROVE  /\ \A t \in Nat : Comes(job[j], renewals[j], t) \/ Reads(renewals[j], t) => t \in 0..service.issued
         /\ job[j].retired \subseteq 1..service.issued
<1>1. job[j] \in Command(service.issued) /\ Sound(job[j], renewals[j], service)
  BY CommandFields
<1>2. Len(renewals[j]) = 1 => renewals[j][1] \in Renewing(service.issued)
  <2>1. renewals[j] \in Seq(Renewing(service.issued))
    BY <1>1 DEF Sound
  <2> QED
    BY <2>1, ElementOfSeq
<1> QED
  BY <1>1, <1>2 DEF Comes, Reads, Command, Renewing

\* A token is issued to a command, in the place of the one it read or of none.
LEMMA FreshKeeps ==
  ASSUME SessionInv, NEW j \in Jobs, Alone(j), secret' = secret, quiet' = quiet,
         \A t \in Nat : Comes(job'[j], renewals'[j], t) => t = service.issued + 1,
         \A t \in Nat : Reads(renewals'[j], t) => Reads(renewals[j], t),
         \A t \in job'[j].retired : t \in job[j].retired \/ Reads(renewals[j], t),
         secret \in job'[j].retired =>
            /\ Len(renewals'[j]) = 1 /\ renewals'[j][1].pc = "store"
            /\ renewals'[j][1].token = secret /\ renewals'[j][1].fresh # secret,
         quiet => \A i \in DOMAIN renewals'[j] : renewals'[j][i].pc = "read"
  PROVE  SessionInv'
<1>1. /\ Commands' /\ Exclusive'
      /\ \A k \in Jobs \ {j} : job'[k] = job[k] /\ renewals'[k] = renewals[k]
  BY AloneKeeps
<1>2. service.issued \in Nat /\ secret \in 0..service.issued
  BY CommandFields DEF SessionInv, StoreTyped
<1> DEFINE new == service.issued + 1
<1>3. \A k \in Jobs : new \notin job[k].retired /\ ~Reads(renewals[k], new) /\ ~Comes(job[k], renewals[k], new)
  <2>1. new \in Nat /\ new \notin 0..service.issued /\ new \notin 1..service.issued
    BY <1>2
  <2> HIDE DEF new
  <2> QED
    BY <2>1, TokensIssued
<1>4. new # None /\ new # secret
  BY <1>2 DEF None
<1>5. \A t \in Nat : Comes(job'[j], renewals'[j], t) => t = new
  OBVIOUS
<1> HIDE DEF new
<1>6. Apart'
  <2> SUFFICES ASSUME NEW k \in Jobs, NEW t \in Nat, Comes(job'[k], renewals'[k], t)
               PROVE  /\ t # None /\ t # secret
                      /\ \A h \in Jobs : /\ t \notin job'[h].retired /\ ~Reads(renewals'[h], t)
                                         /\ h # k => ~Comes(job'[h], renewals'[h], t)
    BY DEF Apart
  <2>1. CASE k = j
    <3>1. t = new
      BY <1>5, <2>1
    <3>2. new \notin job'[j].retired /\ ~Reads(renewals'[j], new)
      BY <1>3, <3>1
    <3> QED
      BY <1>1, <1>3, <1>4, <2>1, <3>1, <3>2
  <2>2. CASE k # j
    <3>1. Comes(job[k], renewals[k], t)
      BY <1>1, <2>2
    <3>2. /\ t # None /\ t # secret
          /\ \A h \in Jobs : /\ t \notin job[h].retired /\ ~Reads(renewals[h], t)
                             /\ h # k => ~Comes(job[h], renewals[h], t)
      BY <3>1 DEF SessionInv, Apart
    <3>3. t # new
      BY <1>3, <3>1
    <3>4. t \notin job'[j].retired /\ ~Reads(renewals'[j], t) /\ ~Comes(job'[j], renewals'[j], t)
      BY <1>5, <3>2, <3>3
    <3> QED
      BY <1>1, <3>2, <3>4
  <2> QED
    BY <2>1, <2>2
<1>7. Replaced'
  BY <1>1 DEF Replaced, SessionInv
<1>8. Settled'
  BY <1>1 DEF Settled, SessionInv
<1> QED
  BY <1>1, <1>6, <1>7, <1>8 DEF SessionInv, Alone

LEMMA ExchangeKeeps ==
  ASSUME SessionInv, NEW j \in Jobs, Exchange(j)
  PROVE  SessionInv'
<1> DEFINE new == service.issued + 1
           c == [job[j] EXCEPT !.pc = "keep", !.token = new]
<1>1. /\ job[j].pc = "exchange" /\ job' = [job EXCEPT ![j] = c] /\ service.issued < MaxTokens
      /\ service' = Issued(None, TRUE) /\ UNCHANGED <<secret, account, access, lock, renewals, started, faults, quiet>>
  BY DEF Exchange, store
<1>2. /\ Sound(job[j], renewals[j], service) /\ job[j] \in Command(service.issued)
      /\ service.issued \in Nat /\ job[j].kind = "connect"
  BY <1>1, CommandFields, KindsOfPlaces
<1>3. /\ ServiceTyped' /\ Later(service, service') /\ service'.issued = service.issued + 1
  <2>1. None \in 0..service.issued /\ TRUE \in BOOLEAN /\ ServiceTyped
    BY <1>2 DEF None, SessionInv
  <2> QED
    BY <1>1, <2>1, IssuedNext
<1>4. StoreTyped'
  <2>1. secret \in 0..service'.issued
    BY <1>2, <1>3 DEF SessionInv, StoreTyped
  <2> QED
    BY <1>1, <2>1 DEF SessionInv, StoreTyped
<1>5. Sound(job[j], renewals[j], service')
  BY <1>2, <1>3, SoundStays
<1>6. /\ c \in Command(service'.issued) /\ c.pc = "keep" /\ c.kind = "connect" /\ c.retired = job[j].retired
      /\ c.stop = job[j].stop /\ c.token = new
  <2>1. job[j] \in Command(service'.issued) /\ new \in 0..service'.issued
    BY <1>2, <1>3, <1>5 DEF Sound
  <2>2. "keep" \in Anywhere
    BY DEF Anywhere, Stages
  <2> HIDE DEF new
  <2> QED
    BY <1>2, <2>1, <2>2 DEF Command
<1> HIDE DEF new
<1>7. Len(renewals[j]) # 1
  BY <1>1, <1>2 DEF Sound
<1>8. Sound(c, renewals[j], service')
  <2>1. "keep" \in Stages("connect")
    BY DEF Stages
  <2> QED
    BY <1>2, <1>5, <1>6, <1>7, <2>1 DEF Sound
<1> HIDE DEF c
<1>9. /\ job'[j] = c /\ renewals'[j] = renewals[j]
      /\ job' = [job EXCEPT ![j] = job'[j]] /\ renewals' = [renewals EXCEPT ![j] = renewals'[j]]
  BY <1>1 DEF SessionInv, Commands
<1>10. PastLock(c) <=> lock' = j
  BY <1>1, <1>2, <1>6, CommandFields DEF PastLock, Locked
<1>11. Alone(j)
  BY <1>1, <1>3, <1>4, <1>8, <1>9, <1>10 DEF Alone, SessionInv, Exclusive
<1>12. \A t \in Nat : Comes(job'[j], renewals'[j], t) => t = service.issued + 1
  BY <1>6, <1>7, <1>9 DEF Comes, new
<1>13. secret \notin job'[j].retired
  BY <1>6, <1>7, <1>9 DEF SessionInv, Replaced
<1>14. quiet => \A i \in DOMAIN renewals'[j] : renewals'[j][i].pc = "read"
  BY <1>9 DEF SessionInv, Settled
<1> QED
  BY <1>1, <1>6, <1>9, <1>11, <1>12, <1>13, <1>14, FreshKeeps

LEMMA RefreshKeeps ==
  ASSUME SessionInv, NEW j \in Jobs, NEW i \in DOMAIN renewals[j], Refresh(j, i)
  PROVE  SessionInv'
<1> DEFINE used == renewals[j][1].token
<1>1. /\ i = 1 /\ Len(renewals[j]) = 1 /\ renewals[j][1] \in Renewing(service.issued)
      /\ renewals[j][1].pc = "refresh" /\ used \in service.live /\ service.issued \in Nat
      /\ UNCHANGED <<secret, account, access, lock, started, faults, quiet>>
  BY UnderWay, CommandFields DEF Refresh, store, Live
<1>2. Sound(job[j], renewals[j], service) /\ job[j] \in Command(service.issued) /\ used \in 0..service.issued
  BY <1>1, CommandFields DEF Renewing
<1>3. ~quiet /\ secret \notin job[j].retired
  BY <1>1 DEF SessionInv, Settled, Replaced
<1>4. CASE /\ renewals' = [renewals EXCEPT ![j][1].pc = "store", ![j][1].fresh = used]
           /\ UNCHANGED <<service, job>>
  <2> DEFINE x == [renewals[j][1] EXCEPT !.pc = "store", !.fresh = used]
             r == [renewals[j] EXCEPT ![1] = x]
  <2>1. renewals' = [renewals EXCEPT ![j] = r]
    BY <1>1, <1>4
  <2>2. x \in Renewing(service.issued) /\ x.pc = "store" /\ x.token = used /\ x.fresh = used
    BY <1>1 DEF Renewing
  <2> HIDE DEF x
  <2>3. r \in Seq(Renewing(service.issued)) /\ Len(r) = 1 /\ r[1] = x
    BY <1>1, <1>2, <2>2, SameRenewal DEF Sound
  <2> HIDE DEF r
  <2>4. /\ renewals'[j] = r /\ job'[j] = job[j]
        /\ job' = [job EXCEPT ![j] = job'[j]] /\ renewals' = [renewals EXCEPT ![j] = renewals'[j]]
    BY <1>4, <2>1 DEF SessionInv, Commands
  <2>5. Sound(job'[j], renewals'[j], service')
    BY <1>1, <1>2, <1>4, <2>2, <2>3, <2>4 DEF Sound
  <2>6. ServiceTyped' /\ StoreTyped' /\ Later(service, service')
    BY <1>1, <1>4 DEF SessionInv, ServiceTyped, StoreTyped, Later
  <2>7. Alone(j)
    BY <1>1, <2>4, <2>5, <2>6, CommandFields DEF Alone, SessionInv, Exclusive
  <2>8. \A t \in Nat : /\ Comes(job'[j], renewals'[j], t) => Comes(job[j], renewals[j], t)
                       /\ Reads(renewals'[j], t) => Reads(renewals[j], t)
    BY <1>1, <2>2, <2>3, <2>4 DEF Comes, Reads
  <2> QED
    BY <1>1, <1>3, <2>4, <2>7, <2>8, QuietStep
<1>5. ASSUME NEW kept \in BOOLEAN, service.issued < MaxTokens, service' = Issued(used, kept),
             job' = [job EXCEPT ![j].retired = IF kept THEN @ ELSE @ \cup {used}],
             renewals' = [renewals EXCEPT ![j][1].pc = "store", ![j][1].fresh = service.issued + 1]
      PROVE  SessionInv'
  <2> DEFINE new == service.issued + 1
             c == [job[j] EXCEPT !.retired = IF kept THEN @ ELSE @ \cup {used}]
             x == [renewals[j][1] EXCEPT !.pc = "store", !.fresh = new]
             r == [renewals[j] EXCEPT ![1] = x]
  <2>1. job' = [job EXCEPT ![j] = c] /\ renewals' = [renewals EXCEPT ![j] = r]
    BY <1>1, <1>5
  <2>2. /\ ServiceTyped' /\ Later(service, service') /\ service'.issued = new
        /\ ~kept => used \notin service'.live
    BY <1>2, <1>5, IssuedNext DEF SessionInv
  <2>3. StoreTyped'
    <3>1. secret \in 0..service'.issued
      BY <1>1, <2>2 DEF SessionInv, StoreTyped
    <3> QED
      BY <1>1, <3>1 DEF SessionInv, StoreTyped
  <2>4. Sound(job[j], renewals[j], service')
    BY <1>1, <1>2, <2>2, SoundStays
  <2>5. /\ x \in Renewing(service'.issued) /\ x.pc = "store" /\ x.token = used /\ x.fresh = new
        /\ new # used /\ new \in Nat
    <3>1. used \in 0..new /\ new \in 0..new /\ new # used
      BY <1>1, <1>2
    <3>2. new \in 0..service'.issued /\ new \in Nat
      BY <1>1, <2>2, <3>1
    <3>3. renewals[j][1] \in Renewing(service'.issued)
      <4>1. renewals[j] \in Seq(Renewing(service'.issued))
        BY <2>4 DEF Sound
      <4> QED
        BY <1>1, <4>1, ElementOfSeq
    <3> HIDE DEF new
    <3>4. /\ x \in Renewing(service'.issued) /\ x.pc = "store" /\ x.token = renewals[j][1].token
          /\ x.fresh = new
      BY <3>2, <3>3 DEF Renewing
    <3> QED
      BY <3>1, <3>2, <3>4
  <2> HIDE DEF x
  <2>6. r \in Seq(Renewing(service'.issued)) /\ Len(r) = 1 /\ r[1] = x
    BY <1>1, <2>4, <2>5, SameRenewal DEF Sound
  <2> HIDE DEF r
  <2>7. /\ c \in Command(service'.issued) /\ c.pc = job[j].pc /\ c.kind = job[j].kind
        /\ c.stop = job[j].stop /\ c.current = job[j].current /\ c.token = job[j].token
        /\ c.retired = IF kept THEN job[j].retired ELSE job[j].retired \cup {used}
    <3>1. job[j] \in Command(service'.issued)
      BY <2>4 DEF Sound
    <3>2. ~kept => used \in 1..service'.issued
      <4>1. used \in service.live
        BY <1>1
      <4>2. service.cut \in Nat /\ service.live \subseteq (service.cut + 1)..service.issued
        BY DEF SessionInv, ServiceTyped, Services
      <4> QED
        BY <1>1, <2>2, <4>1, <4>2
    <3> HIDE DEF used
    <3> QED
      BY <3>1, <3>2 DEF Command
  <2> HIDE DEF c, new, used
  <2>8. Sound(c, r, service')
    <3>1. c.stop = "refused" => c.token \notin c.retired /\ c.token \notin service'.live
      <4>1. job[j].stop = "refused" => job[j].token # used
        BY <1>1, <1>2 DEF Sound
      <4> QED
        BY <2>4, <2>7, <4>1 DEF Sound
    <3> QED
      BY <1>1, <2>2, <2>4, <2>5, <2>6, <2>7, <3>1 DEF Sound
  <2>9. /\ job'[j] = c /\ renewals'[j] = r
        /\ job' = [job EXCEPT ![j] = job'[j]] /\ renewals' = [renewals EXCEPT ![j] = renewals'[j]]
    BY <2>1 DEF SessionInv, Commands
  <2>10. PastLock(c) <=> lock' = j
    BY <1>1, <2>7, CommandFields DEF PastLock
  <2>11. Alone(j)
    BY <1>1, <2>2, <2>3, <2>8, <2>9, <2>10 DEF Alone, SessionInv, Exclusive
  <2>12. \A t \in Nat : Comes(job'[j], renewals'[j], t) => t = service.issued + 1
    BY <1>1, <1>2, <2>5, <2>6, <2>7, <2>9, UnderWay DEF Comes, new
  <2>13. \A t \in Nat : Reads(renewals'[j], t) => Reads(renewals[j], t)
    BY <1>1, <2>5, <2>6, <2>9 DEF Reads, used
  <2>14. \A t \in job'[j].retired : t \in job[j].retired \/ Reads(renewals[j], t)
    BY <1>1, <2>7, <2>9 DEF Reads, used
  <2>15. secret \in job'[j].retired =>
            /\ Len(renewals'[j]) = 1 /\ renewals'[j][1].pc = "store"
            /\ renewals'[j][1].token = secret /\ renewals'[j][1].fresh # secret
    BY <1>3, <2>5, <2>6, <2>7, <2>9
  <2> QED
    BY <1>1, <1>3, <2>11, <2>12, <2>13, <2>14, <2>15, FreshKeeps
<1> QED
  BY <1>1, <1>4, <1>5 DEF Refresh

\* A command stores the token that was coming; it knows no other any more.
LEMMA StoringKeeps ==
  ASSUME SessionInv, NEW j \in Jobs, Alone(j), NEW t0 \in Nat,
         Comes(job[j], renewals[j], t0), secret' = t0,
         \A t \in Nat : ~Comes(job'[j], renewals'[j], t) /\ ~Reads(renewals'[j], t),
         job'[j].retired = job[j].retired, ~quiet'
  PROVE  SessionInv'
<1>1. /\ Commands' /\ Exclusive'
      /\ \A k \in Jobs \ {j} : job'[k] = job[k] /\ renewals'[k] = renewals[k]
  BY AloneKeeps
<1>2. \A k \in Jobs : /\ t0 \notin job[k].retired
                      /\ k # j => ~Comes(job[k], renewals[k], t0)
  BY DEF SessionInv, Apart
<1>3. Apart'
  <2> SUFFICES ASSUME NEW k \in Jobs, NEW t \in Nat, Comes(job'[k], renewals'[k], t)
               PROVE  /\ t # None /\ t # secret'
                      /\ \A h \in Jobs : /\ t \notin job'[h].retired /\ ~Reads(renewals'[h], t)
                                         /\ h # k => ~Comes(job'[h], renewals'[h], t)
    BY DEF Apart
  <2>1. k # j /\ Comes(job[k], renewals[k], t)
    BY <1>1
  <2>2. /\ t # None
        /\ \A h \in Jobs : /\ t \notin job[h].retired /\ ~Reads(renewals[h], t)
                           /\ h # k => ~Comes(job[h], renewals[h], t)
    BY <2>1 DEF SessionInv, Apart
  <2>3. t # t0
    BY <1>2, <2>1
  <2> QED
    BY <1>1, <2>2, <2>3
<1>4. Replaced'
  BY <1>1, <1>2 DEF Replaced
<1>5. Settled'
  BY DEF Settled
<1> QED
  BY <1>1, <1>3, <1>4, <1>5 DEF SessionInv, Alone

LEMMA KeepSessionKeeps ==
  ASSUME SessionInv, NEW j \in Jobs, KeepSession(j)
  PROVE  SessionInv'
<1> DEFINE c == [job[j] EXCEPT !.pc = "choose"]
<1>1. /\ job[j].pc = "keep" /\ job' = [job EXCEPT ![j] = c] /\ secret' = job[j].token /\ ~quiet'
      /\ quiet' \in BOOLEAN /\ UNCHANGED <<account, access, lock, service, renewals, started, faults>>
  BY DEF KeepSession, To
<1>2. /\ Sound(job[j], renewals[j], service) /\ job[j] \in Command(service.issued)
      /\ service.issued \in Nat /\ job[j].kind = "connect"
  BY <1>1, CommandFields, KindsOfPlaces
<1>3. /\ c \in Command(service.issued) /\ c.pc = "choose" /\ c.kind = "connect" /\ c.retired = job[j].retired
      /\ c.stop = job[j].stop /\ c.token = job[j].token
  <2>1. "choose" \in Anywhere
    BY DEF Anywhere, Stages, Deciding
  <2> QED
    BY <1>2, <2>1 DEF Command
<1> HIDE DEF c
<1>4. Len(renewals[j]) # 1
  BY <1>1, <1>2 DEF Sound
<1>5. Sound(c, renewals[j], service)
  <2>1. "choose" \in Stages("connect")
    BY DEF Stages, Deciding
  <2> QED
    BY <1>2, <1>3, <1>4, <2>1 DEF Sound
<1>6. /\ job'[j] = c /\ renewals'[j] = renewals[j]
      /\ job' = [job EXCEPT ![j] = job'[j]] /\ renewals' = [renewals EXCEPT ![j] = renewals'[j]]
  BY <1>1 DEF SessionInv, Commands
<1>7. PastLock(c) <=> lock' = j
  BY <1>1, <1>2, <1>3, CommandFields DEF PastLock, Locked
<1>8. job[j].token \in 0..service.issued
  BY <1>2 DEF Command
<1>9. ServiceTyped' /\ StoreTyped' /\ Later(service, service')
  BY <1>1, <1>2, <1>8 DEF SessionInv, ServiceTyped, StoreTyped, Later
<1>10. Alone(j)
  BY <1>1, <1>5, <1>6, <1>7, <1>9 DEF Alone, SessionInv, Exclusive
<1>11. Comes(job[j], renewals[j], job[j].token) /\ job[j].token \in Nat
  BY <1>1, <1>2, <1>8 DEF Comes
<1>12. \A t \in Nat : ~Comes(job'[j], renewals'[j], t) /\ ~Reads(renewals'[j], t)
  BY <1>3, <1>4, <1>6 DEF Comes, Reads
<1> QED
  BY <1>1, <1>3, <1>6, <1>10, <1>11, <1>12, StoringKeeps

LEMMA StoreRenewedKeeps ==
  ASSUME SessionInv, NEW j \in Jobs, NEW i \in DOMAIN renewals[j], StoreRenewed(j, i)
  PROVE  SessionInv'
<1>1. /\ i = 1 /\ Len(renewals[j]) = 1 /\ renewals[j][1] \in Renewing(service.issued)
      /\ renewals[j][1].pc = "store" /\ service.issued \in Nat
      /\ secret' = (IF renewals[j][1].fresh # renewals[j][1].token THEN renewals[j][1].fresh ELSE secret)
      /\ Renewed(j, 1, renewals[j][1].fresh, "no")
      /\ UNCHANGED <<account, access, lock, service, started, faults, quiet>>
  BY UnderWay, CommandFields DEF StoreRenewed
<1>2. renewals[j][1].fresh \in 0..service.issued /\ renewals[j][1].fresh \in Nat
  BY <1>1 DEF Renewing
<1>3. ServiceTyped' /\ StoreTyped' /\ Later(service, service')
  BY <1>1, <1>2 DEF SessionInv, ServiceTyped, StoreTyped, Later
<1>4. PICK c : Over(j, c) /\ c.retired = job[j].retired
  BY <1>1, <1>2, RenewedOver
<1>5. /\ Alone(j) /\ job'[j] = c /\ renewals'[j] = <<>>
      /\ \A t \in Nat : ~Reads(renewals'[j], t) /\ ~Comes(job'[j], renewals'[j], t)
  BY <1>1, <1>3, <1>4, OverAlone
<1>6. ~quiet
  BY <1>1 DEF SessionInv, Settled
<1>7. CASE renewals[j][1].fresh # renewals[j][1].token
  <2>1. Comes(job[j], renewals[j], renewals[j][1].fresh)
    BY <1>1, <1>7 DEF Comes
  <2> QED
    BY <1>1, <1>2, <1>4, <1>5, <1>6, <1>7, <2>1, StoringKeeps
<1>8. CASE renewals[j][1].fresh = renewals[j][1].token
  <2>1. secret \notin job[j].retired
    BY <1>8 DEF SessionInv, Replaced
  <2> QED
    BY <1>1, <1>4, <1>5, <1>6, <1>8, <2>1, QuietStep
<1> QED
  BY <1>7, <1>8

LEMMA EraseSessionKeeps ==
  ASSUME SessionInv, NEW j \in Jobs, EraseSession(j)
  PROVE  SessionInv'
<1> DEFINE c == [job[j] EXCEPT !.pc = "forget"]
<1>1. /\ job[j].pc = "erase" /\ job' = [job EXCEPT ![j] = c] /\ secret' = None
      /\ quiet' = (quiet \/ (lock = j /\ ~Overlapped))
      /\ UNCHANGED <<account, access, lock, service, renewals, started, faults>>
  BY DEF EraseSession, To
<1>2. /\ Sound(job[j], renewals[j], service) /\ job[j] \in Command(service.issued)
      /\ service.issued \in Nat /\ job[j].kind \in {"logout", "disconnect"}
  BY <1>1, CommandFields, KindsOfPlaces
<1>3. /\ c \in Command(service.issued) /\ c.pc = "forget" /\ c.kind = job[j].kind /\ c.retired = job[j].retired
      /\ c.stop = job[j].stop /\ c.token = job[j].token
  <2>1. "forget" \in Anywhere
    BY DEF Anywhere, Stages
  <2> QED
    BY <1>2, <2>1 DEF Command
<1> HIDE DEF c
<1>4. Len(renewals[j]) # 1
  BY <1>1, <1>2 DEF Sound
<1>5. Sound(c, renewals[j], service)
  <2>1. "forget" \in Stages(job[j].kind)
    BY <1>2 DEF Stages
  <2> QED
    BY <1>2, <1>3, <1>4, <2>1 DEF Sound
<1>6. /\ job'[j] = c /\ renewals'[j] = renewals[j]
      /\ job' = [job EXCEPT ![j] = job'[j]] /\ renewals' = [renewals EXCEPT ![j] = renewals'[j]]
  BY <1>1 DEF SessionInv, Commands
<1>7. PastLock(c) <=> lock' = j
  BY <1>1, <1>2, <1>3, CommandFields DEF PastLock
<1>8. ServiceTyped' /\ StoreTyped' /\ Later(service, service')
  <2>1. secret' \in 0..service'.issued
    BY <1>1, <1>2 DEF None
  <2>2. quiet' \in BOOLEAN
    BY <1>1 DEF SessionInv, StoreTyped
  <2>3. UNCHANGED <<account, access, lock, service, renewals, started, faults>>
    BY <1>1
  <2> QED
    BY <1>2, <2>1, <2>2, <2>3 DEF SessionInv, ServiceTyped, StoreTyped, Later
<1>9. Alone(j)
  BY <1>1, <1>5, <1>6, <1>7, <1>8 DEF Alone, SessionInv, Exclusive
<1>10. /\ Commands' /\ Exclusive'
       /\ \A k \in Jobs \ {j} : job'[k] = job[k] /\ renewals'[k] = renewals[k]
  BY <1>9, AloneKeeps
<1>11. /\ \A k \in Jobs : job'[k].retired = job[k].retired /\ renewals'[k] = renewals[k]
       /\ \A k \in Jobs : \A t \in Nat : Comes(job'[k], renewals'[k], t) => Comes(job[k], renewals[k], t)
  BY <1>1, <1>3, <1>4, <1>6, <1>10 DEF Comes
<1>12. Apart'
  BY <1>1, <1>11 DEF SessionInv, Apart
<1>13. Replaced'
  <2>1. \A k \in Jobs : None \notin job[k].retired
    <3>1. None \notin 1..service.issued
      BY <1>2 DEF None
    <3> QED
      BY <3>1, TokensIssued
  <2> QED
    BY <1>1, <1>11, <2>1 DEF Replaced
<1>14. Settled'
  <2>1. CASE quiet
    BY <1>1, <1>11, <2>1 DEF SessionInv, Settled
  <2>2. CASE lock = j /\ ~Overlapped
    <3> SUFFICES ASSUME NEW k \in Jobs, NEW i \in DOMAIN renewals[k]
                 PROVE  renewals[k][i].pc = "read"
      BY <1>1, <1>11 DEF Settled
    <3>1. CASE job[k].kind \notin Locked
      BY <2>2, <3>1 DEF Overlapped
    <3>2. CASE job[k].kind \in Locked
      <4>1. Len(renewals[k]) = 1 /\ job[k].pc \in {"ask", "leaving"}
        BY UnderWay
      <4>2. lock = k
        BY <3>2, <4>1, CommandFields DEF PastLock
      <4> QED
        BY <1>4, <2>2, <4>1, <4>2
    <3> QED
      BY <3>1, <3>2
  <2>3. CASE ~quiet'
    BY <2>3 DEF Settled
  <2> QED
    BY <1>1, <2>1, <2>2, <2>3
<1> QED
  BY <1>8, <1>10, <1>12, <1>13, <1>14 DEF SessionInv

(* ---- commands are started -------------------------------------------------------------- *)

LEMMA StartKeeps ==
  ASSUME SessionInv, NEW j \in Jobs, NEW what, NEW choice, Start(j, what, choice)
  PROVE  SessionInv'
<1> DEFINE c == [Idle EXCEPT !.kind = what, !.pc = First(what), !.ai = choice = "hosted"]
<1>1. /\ job[j].pc = "idle" /\ what \in Kinds /\ started < MaxJobs /\ started' = started + 1
      /\ job' = [job EXCEPT ![j] = c]
      /\ UNCHANGED <<secret, account, access, lock, service, renewals, faults, quiet>>
  BY DEF Start, store
<1>2. /\ Sound(job[j], renewals[j], service) /\ service.issued \in Nat
      /\ what \in {"run", "preview", "connect", "logout", "disconnect"}
      /\ MaxJobs \in Nat /\ MaxAsks \in Nat
  BY <1>1, CommandFields, SessionAssumption
<1>3. First(what) \in Stages(what) \cap Anywhere /\ First(what) \notin {"idle", "keep"}
  <2>1. First(what) \in Stages(what) /\ First(what) \notin {"idle", "keep"}
    BY <1>2 DEF First, Stages
  <2> QED
    BY <1>2, <2>1, Placed
<1>4. /\ c \in Command(service.issued) /\ c.kind = what /\ c.pc = First(what) /\ c.stop = "no"
      /\ c.retired = {}
  <2>1. (choice = "hosted") \in BOOLEAN /\ 0 \in 0..service.issued /\ 0 \in 0..(MaxAsks + 1)
    BY <1>2
  <2>2. Idle \in Command(service.issued)
    BY <1>2, IdleSound DEF Sound
  <2> QED
    BY <1>1, <1>3, <2>1, <2>2 DEF Command, Idle
<1> HIDE DEF c
<1>5. Len(renewals[j]) # 1
  BY <1>1, <1>2 DEF Sound
<1>6. Sound(c, renewals[j], service)
  BY <1>2, <1>3, <1>4, <1>5 DEF Sound
<1>7. /\ job'[j] = c /\ renewals'[j] = renewals[j]
      /\ job' = [job EXCEPT ![j] = job'[j]] /\ renewals' = [renewals EXCEPT ![j] = renewals'[j]]
  BY <1>1 DEF SessionInv, Commands
<1>8. PastLock(c) <=> lock' = j
  <2>1. lock # j
    BY <1>1, CommandFields DEF PastLock
  <2>2. ~PastLock(c)
    BY <1>2, <1>4 DEF PastLock, First, Locked
  <2> QED
    BY <1>1, <2>1, <2>2
<1>9. ServiceTyped' /\ StoreTyped' /\ Later(service, service')
  <2>1. started' \in 0..MaxJobs
    BY <1>1, <1>2 DEF SessionInv, StoreTyped
  <2> QED
    BY <1>1, <1>2, <2>1 DEF SessionInv, ServiceTyped, StoreTyped, Later
<1>10. Alone(j)
  BY <1>1, <1>6, <1>7, <1>8, <1>9 DEF Alone, SessionInv, Exclusive
<1>11. \A t \in Nat : /\ ~Comes(job'[j], renewals'[j], t) /\ ~Reads(renewals'[j], t)
  BY <1>3, <1>4, <1>5, <1>7 DEF Comes, Reads
<1>12. quiet => \A i \in DOMAIN renewals'[j] : renewals'[j][i].pc = "read"
  BY <1>7 DEF SessionInv, Settled
<1> QED
  BY <1>1, <1>4, <1>7, <1>10, <1>11, <1>12, QuietStep

LEMMA ChooseAccessKeeps ==
  ASSUME SessionInv, NEW choice \in {"off", "hosted"}, ChooseAccess(choice)
  PROVE  SessionInv'
<1>1. /\ started' \in 0..MaxJobs /\ access' \in {"off", "hosted"}
      /\ UNCHANGED <<secret, account, lock, service, job, renewals, faults, quiet>>
  BY SessionAssumption DEF ChooseAccess, SessionInv, StoreTyped
<1>2. ServiceTyped' /\ StoreTyped'
  BY <1>1 DEF SessionInv, ServiceTyped, StoreTyped
<1>3. Commands' /\ Exclusive' /\ Apart' /\ Replaced' /\ Settled'
  BY <1>1 DEF SessionInv, Commands, Exclusive, Apart, Replaced, Settled
<1> QED
  BY <1>2, <1>3 DEF SessionInv

(* ---- the session's theorems -------------------------------------------------------------- *)

LEMMA StepKeeps ==
  ASSUME SessionInv, NEW j \in Jobs, Step(j)
  PROVE  SessionInv'
<1>1. CASE Renewal(j)
  <2>1. PICK i \in 1..Len(renewals[j]) :
           \/ ReadStored(j, i) \/ Refresh(j, i) \/ RefreshRefused(j, i) \/ RefreshLost(j, i)
           \/ StoreRenewed(j, i) \/ StoreFails(j, i)
    BY <1>1 DEF Renewal
  <2>2. i \in DOMAIN renewals[j]
    BY <2>1 DEF ReadStored, Refresh, RefreshRefused, RefreshLost, StoreRenewed, StoreFails
  <2> QED
    BY <2>1, <2>2, ReadStoredKeeps, RefreshKeeps, RefreshRefusedKeeps, RefreshLostKeeps,
       StoreRenewedKeeps, StoreFailsKeeps
<1>2. CASE Resolve(j) \/ BeginRenewal(j) \/ Post(j) \/ TokenExpires(j) \/ Exchange(j) \/ KeepSession(j)
           \/ Leave(j) \/ EraseSession(j)
  BY <1>2, ResolveKeeps, BeginRenewalKeeps, AskingKeeps, ExchangeKeeps, KeepSessionKeeps, LeaveKeeps,
     EraseSessionKeeps
<1>3. CASE \/ TakeLock(j) \/ Login(j) \/ SaveAccount(j) \/ Bootstrap(j)
           \/ Revoke(j) \/ RevokeFails(j) \/ CannotRevoke(j)
  BY <1>3, MovesKeep
<1>4. CASE LockHeld(j) \/ FinishRun(j) \/ LoginFails(j) \/ Choose(j) \/ HostedProblem(j) \/ ForgetGoogle(j)
  BY <1>4, EndingsKeep
<1> QED
  BY <1>1, <1>2, <1>3, <1>4 DEF Step

LEMMA StutterKeeps ==
  ASSUME SessionInv, UNCHANGED vars
  PROVE  SessionInv'
<1>1. UNCHANGED <<secret, account, access, lock, service, job, renewals, started, faults, quiet>>
  BY DEF vars
<1>2. ServiceTyped' /\ StoreTyped' /\ Commands' /\ Exclusive'
  BY <1>1 DEF SessionInv, ServiceTyped, StoreTyped, Commands, Exclusive
<1>3. Apart' /\ Replaced' /\ Settled'
  BY <1>1 DEF SessionInv, Apart, Replaced, Settled
<1> QED
  BY <1>2, <1>3 DEF SessionInv

LEMMA SessionInit == Init => SessionInv
<1> SUFFICES ASSUME Init PROVE SessionInv
  OBVIOUS
<1>1. /\ lock = Free /\ job = [j \in Jobs |-> Idle] /\ renewals = [j \in Jobs |-> <<>>]
      /\ started = 0 /\ faults = 0 /\ quiet = FALSE
  BY DEF Init
<1>2. ServiceTyped /\ service.issued \in Nat /\ secret \in 0..service.issued
  <2>1. CASE secret = None /\ service = [grant |-> "none", live |-> {}, cut |-> 0, issued |-> 0]
    BY <2>1, SessionAssumption DEF ServiceTyped, Services, None
  <2>2. CASE secret = 1 /\ service = [grant |-> "active", live |-> {1}, cut |-> 0, issued |-> 1]
    <3>1. service \in Services
      BY <2>2, SessionAssumption DEF Services, Tokens
    <3> QED
      BY <2>2, <3>1 DEF ServiceTyped
  <2> QED
    BY <2>1, <2>2 DEF Init
<1>3. StoreTyped
  <2>1. account \in {"none", "row", "in"} /\ access \in {"off", "hosted"}
    BY DEF Init
  <2>2. 0 \in 0..MaxJobs /\ 0 \in 0..MaxFaults
    BY SessionAssumption
  <2> QED
    BY <1>1, <1>2, <2>1, <2>2 DEF StoreTyped
<1>4. Commands
  BY <1>1, <1>2, IdleSound DEF Commands
<1>5. Exclusive
  BY <1>1, <1>2, IdleSound, SessionAssumption DEF Exclusive
<1>6. Apart /\ Replaced /\ Settled
  <2>1. \A j \in Jobs : job[j].retired = {} /\ job[j].pc = "idle" /\ Len(renewals[j]) = 0
    BY <1>1 DEF Idle
  <2> QED
    BY <1>1, <2>1 DEF Apart, Replaced, Settled, Comes
<1> QED
  BY <1>2, <1>3, <1>4, <1>5, <1>6 DEF SessionInv

LEMMA SessionNext ==
  ASSUME SessionInv, Next
  PROVE  SessionInv'
<1>1. CASE \E j \in Jobs : \/ StartConnect(j) \/ StartWork(j) \/ Disconnect(j) \/ StartFromTerminal(j)
                           \/ JobStep(j) \/ Killed(j)
  <2>1. PICK j \in Jobs : \/ StartConnect(j) \/ StartWork(j) \/ Disconnect(j) \/ StartFromTerminal(j)
                         \/ JobStep(j) \/ Killed(j)
    BY <1>1
  <2>2. ASSUME StartConnect(j) \/ StartWork(j) \/ Disconnect(j) \/ StartFromTerminal(j)
        PROVE  \E what, choice : Start(j, what, choice)
    BY <2>2 DEF StartConnect, StartWork, Disconnect, StartFromTerminal, StartFromUi
  <2>3. CASE StartConnect(j) \/ StartWork(j) \/ Disconnect(j) \/ StartFromTerminal(j)
    BY <2>2, <2>3, StartKeeps
  <2>4. CASE JobStep(j)
    BY <2>4, StepKeeps DEF JobStep
  <2>5. CASE Killed(j)
    BY <2>5, EndingsKeep DEF Killed
  <2> QED
    BY <2>1, <2>3, <2>4, <2>5
<1>2. CASE CancelConnect
  BY <1>2, StutterKeeps DEF CancelConnect
<1>3. CASE \E choice \in {"off", "hosted"} : SetAiAccess(choice)
  BY <1>3, ChooseAccessKeeps DEF SetAiAccess
<1> QED
  BY <1>1, <1>2, <1>3 DEF Next

\* The credential store, the service and the commands keep the invariant above, whoever
\* started the commands and however many there are (hosted-session.ts, connect.ts).
THEOREM SessionInvariant == Spec => []SessionInv
<1>1. UiInit => SessionInv
  BY SessionInit DEF UiInit
<1>2. SessionInv /\ [Next]_all => SessionInv'
  BY SessionNext, StutterKeeps DEF all
<1> QED
  BY <1>1, <1>2, PTL DEF Spec

\* A command that is told its session is gone did not replace the token itself, but
\* for one whose successor never came to be stored (hosted-session.ts:205).
THEOREM NotItsOwnDoing == Spec => []NoSelfInflictedStop
<1>1. SessionInv => NoSelfInflictedStop
  BY DEF SessionInv, Commands, Sound, NoSelfInflictedStop
<1> QED
  BY <1>1, SessionInvariant, PTL

\* What a logout erased, with no renewal of a command without the lock past its read,
\* stays erased until a sign-in stores another session (hosted-session.ts:245).
THEOREM LogoutIsFinal == Spec => []LogoutSticks
<1>1. SessionInv => LogoutSticks
  BY DEF SessionInv, Settled, LogoutSticks
<1> QED
  BY <1>1, SessionInvariant, PTL

(* ---- the page --------------------------------------------------------------------------------- *)

\* An operation the page shows, of the kind it names.
Stands(j) ==
  /\ j \in ui
  /\ \/ kind = "connecting" /\ job[j].kind = "connect"
     \/ kind = "previewing" /\ job[j].kind = "preview"
     \/ kind = "running"    /\ job[j].kind = "run"

PageInv ==
  /\ kind \in {"idle", "connecting", "previewing", "running"} /\ config \in {"off", "hosted"}
  /\ ui \subseteq {j \in Jobs : job[j].pc # "idle"}
  /\ cancels \in 0..MaxCancels /\ astray \in BOOLEAN
  /\ Busy => \E j \in Jobs : Stands(j)
  /\ ~astray => /\ ~Busy => Marked = {}
                /\ \A a, b \in Marked : a = b

\* A command that goes on is still of its kind.
LEMMA KindStays ==
  ASSUME SessionInv, NEW j \in Jobs, Step(j)
  PROVE  /\ \A k \in Jobs \ {j} : job'[k] = job[k]
         /\ job'[j].pc # "idle" => job'[j].kind = job[j].kind
<1>1. /\ job = [k \in Jobs |-> job[k]] /\ DOMAIN job = Jobs
      /\ DOMAIN job[j] = {"kind", "pc", "ai", "current", "token", "stop", "retry", "asks", "retired", "lost"}
  BY CommandFields DEF SessionInv, Commands, Command
<1>2. CASE Ends(j)
  BY <1>1, <1>2 DEF Ends, Idle
<1>3. CASE \E pc : To(j, pc)
  BY <1>1, <1>3 DEF To
<1>4. CASE UNCHANGED job
  BY <1>4
<1>5. CASE Resolve(j) \/ BeginRenewal(j) \/ Post(j) \/ TokenExpires(j)
  BY <1>1, <1>5 DEF Resolve, BeginRenewal, Post, TokenExpires
<1>6. CASE Exchange(j) \/ Leave(j)
  <2>1. CASE Exchange(j)
    <3>1. job' = [job EXCEPT ![j].pc = "keep", ![j].token = service.issued + 1]
      BY <2>1 DEF Exchange
    <3> QED
      BY <1>1, <3>1
  <2>2. CASE Leave(j)
    <3>1. job' = [job EXCEPT ![j].pc = IF secret = None THEN "erase" ELSE "leaving", ![j].ai = TRUE]
      BY <2>2 DEF Leave
    <3> QED
      BY <1>1, <3>1
  <2> QED
    BY <1>6, <2>1, <2>2
<1>7. CASE Renewal(j)
  <2>1. PICK i : \/ ReadStored(j, i) \/ Refresh(j, i) \/ RefreshRefused(j, i) \/ RefreshLost(j, i)
                 \/ StoreRenewed(j, i) \/ StoreFails(j, i)
    BY <1>7 DEF Renewal
  <2>2. CASE \E token, stop : Renewed(j, i, token, stop)
    BY <1>1, <2>2 DEF Renewed
  <2>3. CASE ReadStored(j, i) \/ StoreRenewed(j, i)
    BY <1>4, <2>2, <2>3 DEF ReadStored, StoreRenewed
  <2>4. CASE RefreshRefused(j, i)
    BY <1>1, <2>4 DEF RefreshRefused
  <2>6. CASE RefreshLost(j, i)
    <3>1. CASE job' = [job EXCEPT ![j].retry = job[j].pc = "ask"]
      BY <1>1, <3>1
    <3>2. CASE job' = [job EXCEPT ![j].retry = job[j].pc = "ask",
                                  ![j].lost = @ \cup {renewals[j][i].token}]
      BY <1>1, <3>2
    <3> QED
      BY <2>6, <3>1, <3>2 DEF RefreshLost
  <2>7. CASE StoreFails(j, i)
    <3> DEFINE used == renewals[j][i].token
    <3>1. job' = [job EXCEPT ![j].retry = job[j].pc = "ask", ![j].retired = @ \ {used},
                             ![j].lost = @ \cup ({used} \cap job[j].retired)]
      BY <2>7 DEF StoreFails
    <3> HIDE DEF used
    <3> QED
      BY <1>1, <3>1
  <2>5. CASE Refresh(j, i)
    BY <1>1, <1>4, <2>5 DEF Refresh
  <2> QED
    BY <2>1, <2>3, <2>4, <2>5, <2>6, <2>7
<1>8. CASE LockHeld(j) \/ FinishRun(j) \/ LoginFails(j) \/ Choose(j) \/ HostedProblem(j) \/ ForgetGoogle(j)
  BY <1>2, <1>8 DEF LockHeld, FinishRun, LoginFails, Choose, HostedProblem, ForgetGoogle
<1>9. CASE \/ TakeLock(j) \/ Login(j) \/ SaveAccount(j) \/ Bootstrap(j) \/ Revoke(j) \/ RevokeFails(j)
           \/ CannotRevoke(j) \/ KeepSession(j) \/ EraseSession(j)
  BY <1>3, <1>9 DEF TakeLock, Login, SaveAccount, Bootstrap, Revoke, RevokeFails, CannotRevoke,
     KeepSession, EraseSession
<1>10. \/ Resolve(j) \/ BeginRenewal(j) \/ Post(j) \/ TokenExpires(j) \/ Exchange(j) \/ Leave(j)
       \/ Renewal(j)
       \/ LockHeld(j) \/ FinishRun(j) \/ LoginFails(j) \/ Choose(j) \/ HostedProblem(j) \/ ForgetGoogle(j)
       \/ TakeLock(j) \/ Login(j) \/ SaveAccount(j) \/ Bootstrap(j) \/ Revoke(j) \/ RevokeFails(j)
       \/ CannotRevoke(j) \/ KeepSession(j) \/ EraseSession(j)
  BY Zenon DEF Step
<1> QED
  BY <1>5, <1>6, <1>7, <1>8, <1>9, <1>10

LEMMA StartMakes ==
  ASSUME SessionInv, NEW j \in Jobs, NEW what, NEW choice, Start(j, what, choice)
  PROVE  /\ \A k \in Jobs \ {j} : job'[k] = job[k]
         /\ job[j].pc = "idle" /\ job'[j].kind = what /\ job'[j].pc # "idle"
<1>1. /\ job[j].pc = "idle" /\ what \in Kinds
      /\ job' = [job EXCEPT ![j] = [Idle EXCEPT !.kind = what, !.pc = First(what), !.ai = choice = "hosted"]]
  BY DEF Start
<1>2. job = [k \in Jobs |-> job[k]] /\ DOMAIN job = Jobs
  BY DEF SessionInv, Commands
<1>3. First(what) # "idle"
  BY <1>1, SessionAssumption DEF First
<1> QED
  BY <1>1, <1>2, <1>3 DEF Idle

\* The page does not show one more operation, and stands for one of those it shows.
LEMMA StartedKeeps ==
  ASSUME SessionInv, PageInv, NEW j \in Jobs, StartConnect(j) \/ StartWork(j) \/ Disconnect(j)
  PROVE  PageInv'
<1>1. /\ ~Busy /\ kind = "idle" /\ UNCHANGED <<config, cancels, astray>> /\ ui' = ui \cup {j}
      /\ \/ \E choice : kind' = "connecting" /\ Start(j, "connect", choice)
         \/ \E choice : kind' = "running" /\ Start(j, "run", choice)
         \/ \E choice : kind' = "previewing" /\ Start(j, "preview", choice)
         \/ \E choice : kind' = "idle" /\ Start(j, "disconnect", choice)
  BY DEF StartConnect, StartWork, Disconnect, StartFromUi, Busy
<1>2. /\ \A k \in Jobs \ {j} : job'[k] = job[k]
      /\ job[j].pc = "idle" /\ job'[j].pc # "idle"
      /\ \/ kind' = "connecting" /\ job'[j].kind = "connect"
         \/ kind' = "running" /\ job'[j].kind = "run"
         \/ kind' = "previewing" /\ job'[j].kind = "preview"
         \/ kind' = "idle" /\ job'[j].kind = "disconnect"
  BY <1>1, StartMakes
<1>3. j \notin ui /\ ui \subseteq Jobs
  BY <1>2 DEF PageInv
<1>4. Marked' = IF job'[j].kind = "disconnect" THEN Marked ELSE Marked \cup {j}
  BY <1>1, <1>2, <1>3 DEF Marked
<1>5. ~astray => Marked = {}
  BY <1>1 DEF PageInv
<1>6. Busy' => Stands(j)'
  BY <1>1, <1>2 DEF Busy, Stands
<1>7. ~astray' => /\ ~Busy' => Marked' = {}
                  /\ \A a, b \in Marked' : a = b
  BY <1>1, <1>2, <1>4, <1>5 DEF Busy
<1> QED
  BY <1>1, <1>2, <1>3, <1>6, <1>7 DEF PageInv

\* A command of the terminal is none the page shows.
LEMMA OthersKeep ==
  ASSUME SessionInv, PageInv, NEW j \in Jobs, j \notin ui, UNCHANGED uiVars,
         \A k \in Jobs \ {j} : job'[k] = job[k]
  PROVE  PageInv'
<1>1. UNCHANGED <<kind, config, ui, cancels, astray>> /\ ui \subseteq Jobs
  BY DEF uiVars, PageInv
<1>2. \A k \in ui : job'[k] = job[k]
  BY <1>1
<1>3. Marked' = Marked
  BY <1>1, <1>2 DEF Marked
<1>4. Busy' => \E k \in Jobs : Stands(k)'
  BY <1>1, <1>2 DEF Busy, Stands, PageInv
<1> QED
  BY <1>1, <1>2, <1>3, <1>4 DEF PageInv, Busy

\* A command the page started goes on or ends.
LEMMA JobStepKeeps ==
  ASSUME SessionInv, SessionInv', PageInv, NEW j \in Jobs, JobStep(j)
  PROVE  PageInv'
<1>1. /\ \A k \in Jobs \ {j} : job'[k] = job[k]
      /\ job'[j].pc # "idle" => job'[j].kind = job[j].kind
  BY KindStays DEF JobStep
<1>2. CASE j \notin ui
  BY <1>1, <1>2, OthersKeep DEF JobStep, Settle
<1>3. CASE j \in ui /\ job'[j].pc # "idle"
  <2>1. UNCHANGED <<kind, config, ui, cancels, astray>> /\ ui \subseteq Jobs
    BY <1>3 DEF JobStep, Settle, uiVars, PageInv
  <2>2. \A k \in ui : job'[k].kind = job[k].kind /\ job'[k].pc # "idle"
    BY <1>1, <1>3, <2>1 DEF PageInv
  <2>3. Marked' = Marked
    BY <2>1, <2>2 DEF Marked
  <2>4. Busy' => \E k \in Jobs : Stands(k)'
    BY <2>1, <2>2 DEF Busy, Stands, PageInv
  <2> QED
    BY <2>1, <2>2, <2>3, <2>4 DEF PageInv, Busy
<1>4. CASE j \in ui /\ job'[j].pc = "idle"
  <2>1. /\ ui' = ui \ {j} /\ UNCHANGED cancels /\ ui \subseteq Jobs
        /\ astray' = (astray /\ Marked \ {j} # {})
        /\ kind' = IF job[j].kind = "disconnect" THEN kind ELSE "idle"
        /\ config' = IF job[j].kind = "connect" /\ job[j].pc \notin {"login", "lock"} THEN access' ELSE config
    BY <1>4 DEF JobStep, Settle, PageInv
  <2>2. config' \in {"off", "hosted"}
    BY <2>1 DEF PageInv, SessionInv, StoreTyped
  <2>3. \A k \in ui' : job'[k] = job[k] /\ job'[k].pc # "idle" /\ k \in Jobs
    BY <1>1, <2>1 DEF PageInv
  <2>4. Marked' = Marked \ {j}
    BY <2>1, <2>3 DEF Marked
  <2>5. CASE job[j].kind = "disconnect"
    <3>1. kind' = kind
      BY <2>1, <2>5
    <3>2. Marked' = Marked
      BY <2>4, <2>5 DEF Marked
    <3>3. Busy' => \E k \in Jobs : Stands(k)'
      <4> SUFFICES ASSUME Busy PROVE \E k \in Jobs : Stands(k)'
        BY <3>1 DEF Busy
      <4>1. PICK k \in Jobs : Stands(k)
        BY DEF PageInv
      <4>2. k \in ui' /\ job'[k] = job[k]
        BY <2>1, <2>3, <2>5, <4>1 DEF Stands
      <4> QED
        BY <3>1, <4>1, <4>2 DEF Stands
    <3>4. ~astray' => /\ ~Busy' => Marked' = {}
                      /\ \A a, b \in Marked' : a = b
      BY <2>1, <2>4, <3>1, <3>2 DEF PageInv, Busy
    <3>5. astray' \in BOOLEAN
      BY <2>1
    <3> QED
      BY <2>1, <2>2, <2>3, <3>1, <3>3, <3>4, <3>5 DEF PageInv, Busy
  <2>6. CASE job[j].kind # "disconnect"
    <3>1. kind' = "idle" /\ j \in Marked
      BY <1>4, <2>1, <2>6 DEF Marked
    <3>2. ~astray' => Marked' = {}
      BY <2>1, <2>4, <3>1 DEF PageInv
    <3>3. astray' \in BOOLEAN
      BY <2>1
    <3> QED
      BY <2>1, <2>2, <2>3, <3>1, <3>2, <3>3 DEF PageInv, Busy
  <2> QED
    BY <2>5, <2>6
<1> QED
  BY <1>2, <1>3, <1>4

LEMMA PageInit == UiInit => PageInv
<1> SUFFICES ASSUME UiInit PROVE PageInv
  OBVIOUS
<1>1. kind = "idle" /\ config \in {"off", "hosted"} /\ ui = {} /\ cancels = 0 /\ astray = FALSE /\ 0 \in 0..MaxCancels
  BY UiAssumption DEF UiInit, Init
<1>2. Marked = {}
  BY <1>1 DEF Marked
<1> QED
  BY <1>1, <1>2 DEF PageInv, Busy

LEMMA PageNext ==
  ASSUME SessionInv, SessionInv', PageInv, [Next]_all
  PROVE  PageInv'
<1>1. CASE \E j \in Jobs : \/ StartConnect(j) \/ StartWork(j) \/ Disconnect(j) \/ StartFromTerminal(j)
                           \/ JobStep(j) \/ Killed(j)
  <2>1. PICK j \in Jobs : \/ StartConnect(j) \/ StartWork(j) \/ Disconnect(j) \/ StartFromTerminal(j)
                         \/ JobStep(j) \/ Killed(j)
    BY <1>1
  <2>2. CASE StartConnect(j) \/ StartWork(j) \/ Disconnect(j)
    BY <2>2, StartedKeeps
  <2>3. CASE StartFromTerminal(j)
    <3>1. (\E what, choice : Start(j, what, choice)) /\ UNCHANGED uiVars
      BY <2>3 DEF StartFromTerminal
    <3>2. j \notin ui /\ \A k \in Jobs \ {j} : job'[k] = job[k]
      BY <3>1, StartMakes DEF PageInv
    <3> QED
      BY <3>1, <3>2, OthersKeep
  <2>4. CASE JobStep(j)
    BY <2>4, JobStepKeeps
  <2>5. CASE Killed(j)
    <3>1. j \notin ui /\ Ends(j) /\ UNCHANGED uiVars
      BY <2>5 DEF Killed, Crash
    <3>2. \A k \in Jobs \ {j} : job'[k] = job[k]
      BY <3>1 DEF Ends, SessionInv, Commands
    <3> QED
      BY <3>1, <3>2, OthersKeep
  <2> QED
    BY <2>1, <2>2, <2>3, <2>4, <2>5
<1>2. CASE CancelConnect
  <2>1. /\ kind' = "idle" /\ cancels' = cancels + 1 /\ cancels < MaxCancels /\ astray' = TRUE
        /\ UNCHANGED <<job, config, ui>>
    BY <1>2 DEF CancelConnect, vars
  <2> QED
    BY <2>1, UiAssumption DEF PageInv, Busy
<1>3. CASE \E choice \in {"off", "hosted"} : SetAiAccess(choice)
  <2>1. config' \in {"off", "hosted"} /\ UNCHANGED <<job, kind, ui, cancels, astray>>
    BY <1>3 DEF SetAiAccess, ChooseAccess
  <2> QED
    BY <2>1 DEF PageInv, Busy, Stands, Marked
<1>4. CASE UNCHANGED all
  <2>1. UNCHANGED <<job, kind, config, ui, cancels, astray>>
    BY <1>4 DEF all, vars, uiVars
  <2> QED
    BY <2>1 DEF PageInv, Busy, Stands, Marked
<1> QED
  BY <1>1, <1>2, <1>3, <1>4 DEF Next

\* The page and the commands it started (ui/operations.ts).
THEOREM PageInvariant == Spec => [](SessionInv /\ PageInv)
<1>1. UiInit => SessionInv /\ PageInv
  BY SessionInit, PageInit DEF UiInit
<1>2. SessionInv /\ PageInv /\ [Next]_all => (SessionInv /\ PageInv)'
  <2> SUFFICES ASSUME SessionInv, PageInv, [Next]_all PROVE SessionInv' /\ PageInv'
    OBVIOUS
  <2>1. SessionInv'
    BY SessionNext, StutterKeeps DEF all
  <2> QED
    BY <2>1, PageNext
<1> QED
  BY <1>1, <1>2, PTL DEF Spec

\* Every variable keeps its type; the lock is held by exactly the command past its lock
\* step, and nobody holds a token the service has not issued.
THEOREM TypeCorrect == Spec => []TypeOK
<1>1. SessionInv /\ PageInv => TypeOK
  <2> SUFFICES ASSUME SessionInv, PageInv PROVE TypeOK
    OBVIOUS
  <2>1. /\ secret \in 0..service.issued /\ account \in {"none", "row", "in"} /\ access \in {"off", "hosted"}
        /\ lock \in Jobs \cup {Free} /\ service \in Services
        /\ service.live \subseteq (service.cut + 1)..service.issued
        /\ started \in 0..MaxJobs /\ faults \in 0..MaxFaults /\ quiet \in BOOLEAN
    BY DEF SessionInv, StoreTyped, ServiceTyped, Exclusive
  <2>2. ASSUME NEW j \in Jobs
        PROVE  /\ job[j].kind \in Kinds \cup {"none"}
               /\ job[j].current \in 0..service.issued /\ job[j].token \in 0..service.issued
               /\ job[j].stop \in {"no", "auth", "refused"} /\ job[j].retry \in BOOLEAN
               /\ job[j].asks \in 0..(MaxAsks + 1)
    BY CommandFields DEF Command
  <2>3. ASSUME NEW j \in Jobs, NEW i \in DOMAIN renewals[j]
        PROVE  renewals[j][i].token \in 0..service.issued
    BY <2>3, UnderWay DEF Renewing
  <2>4. ASSUME NEW j \in Jobs
        PROVE  job[j].kind \in Locked /\ job[j].pc \notin {"idle", "resolve", "login", "lock"} <=> lock = j
    BY <2>4, CommandFields DEF PastLock
  <2>5. SessionTypeOK
    BY <2>1, <2>2, <2>3, <2>4 DEF SessionTypeOK
  <2> QED
    BY <2>5 DEF TypeOK, PageInv
<1> QED
  BY <1>1, PageInvariant, PTL

\* Unless a sign-in was cancelled since the page last had no work, the page is idle exactly
\* when no sign-in, preview or run of its own is under way, and there is never a second one
\* of these; a disconnect is not among them (ui/operations.ts:58 and 205).
THEOREM PageIsHonest == Spec => []StatusHonest
<1>1. SessionInv /\ PageInv => StatusHonest
  <2> SUFFICES ASSUME SessionInv, PageInv, ~astray
               PROVE  (~Busy <=> Marked = {}) /\ Cardinality(Marked) <= 1
    BY DEF StatusHonest
  <2>1. ~Busy => Marked = {}
    BY DEF PageInv
  <2>2. Busy => Marked # {}
    BY DEF PageInv, Stands, Marked
  <2>3. Cardinality(Marked) <= 1
    <3>1. CASE Marked = {}
      BY <3>1, FS_EmptySet
    <3>2. CASE Marked # {}
      <4>1. PICK a : a \in Marked
        BY <3>2
      <4>2. Marked = {a}
        BY <4>1 DEF PageInv
      <4>3. Cardinality({a}) = 1
        BY FS_Singleton, Zenon
      <4> QED
        BY <4>2, <4>3
    <3> QED
      BY <3>1, <3>2
  <2> QED
    BY <2>1, <2>2, <2>3
<1> QED
  BY <1>1, PageInvariant, PTL

\* Whatever was cancelled, a page that shows an operation has one of that kind under way
\* (ui/operations.ts:123).
THEOREM PageIsNotStuck == Spec => []NeverBusyForNothing
<1>1. PageInv => NeverBusyForNothing
  BY DEF PageInv, Busy, Stands, Marked, NeverBusyForNothing
<1> QED
  BY <1>1, PageInvariant, PTL
=============================================================================
