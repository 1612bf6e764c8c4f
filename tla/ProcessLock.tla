----------------------------- MODULE ProcessLock -----------------------------
(***************************************************************************)
(* The per-account lock of src/core/lock.ts: a file that holds the pid of  *)
(* its holder.  Every file operation of acquire() and release() is a step, *)
(* because other processes run between them; the lock objects of one       *)
(* process do not, because attempt() and release() never yield, and        *)
(* neither does the sleep of the synchronous acquire().                    *)
(*                                                                         *)
(* writeFileSync(path, pid, {flag: "wx"}) is two steps: an exclusive       *)
(* create, which leaves an empty file, and a write to the file it created, *)
(* wherever that file is by then.                                          *)
(***************************************************************************)
EXTENDS Naturals

CONSTANTS
  Lock,        \* ProcessLock objects, of one account
  Pid,         \* process ids
  pidOf,       \* the process an object lives in
  Sync,        \* objects used through acquire(), the others acquireAsync()
  MaxPolls,    \* bound: re-tries before waitMs is over
  MaxRounds,   \* bound: acquisitions in all
  MaxCrashes,  \* bound: processes that die
  NoFile,      \* there is no lock file
  Empty        \* the file was created and not yet written

ASSUME PidAssumption ==
  pidOf \in [Lock -> Pid] /\ NoFile \notin Lock /\ Empty \notin Pid
ASSUME BoundAssumption ==
  MaxPolls \in Nat /\ MaxRounds \in Nat /\ MaxCrashes \in Nat

VARIABLES
  maker,     \* the object that created the file at the path, or NoFile
  text,      \* what that file says: Empty or a pid
  alive,     \* pids of running processes
  pc,        \* where each object is
  seen,      \* the text each object read
  polls,     \* re-tries of this acquisition
  rounds,    \* acquisitions so far
  crashes,   \* processes that died so far
  current,   \* observer: the file each object read is still at the path
  raced,     \* observer: an object unlinked another file than it had read
  torn       \* observer: ... or had read a file before its pid was written

vars == <<maker, text, alive, pc, seen, polls, rounds, crashes, current,
          raced, torn>>

Attempting == {"create", "write", "read", "check", "unlink"}
Releasing  == {"leave", "drop"}
Control    == {"idle", "asleep", "held"} \cup Attempting \cup Releasing
\* The objects whose file must be at the path.
Owning == {"write", "held"} \cup Releasing

\* The types of the lock file, of the processes and of their lock objects.
TypeOK ==
  /\ maker \in Lock \cup {NoFile}
  /\ text \in Pid \cup {Empty}
  /\ alive \in SUBSET Pid
  /\ pc \in [Lock -> Control]
  /\ seen \in [Lock -> Pid \cup {Empty}]
  /\ polls \in [Lock -> Nat] /\ rounds \in Nat /\ crashes \in Nat
  /\ current \in [Lock -> BOOLEAN]
  /\ raced \in BOOLEAN /\ torn \in BOOLEAN

Init ==
  /\ maker = NoFile /\ text = Empty
  /\ alive = Pid
  /\ pc = [i \in Lock |-> "idle"]
  /\ seen = [i \in Lock |-> Empty]
  /\ polls = [i \in Lock |-> 0] /\ rounds = 0 /\ crashes = 0
  /\ current = [i \in Lock |-> FALSE]
  /\ raced = FALSE /\ torn = FALSE

-----------------------------------------------------------------------------
\* An object that keeps its thread to itself.
Running(i) == pc[i] \in Attempting \cup Releasing
              \/ (i \in Sync /\ pc[i] = "asleep")

\* Object i may take a step from control point c.
At(i, c) ==
  /\ pc[i] = c /\ pidOf[i] \in alive
  /\ \A j \in Lock \ {i} : pidOf[j] = pidOf[i] => ~Running(j)

Go(i, c) == pc' = [pc EXCEPT ![i] = c]

\* The path loses its file, whoever made it.
Removed == maker' = NoFile /\ text' = Empty /\ current' = [j \in Lock |-> FALSE]

Acquire(i) ==
  /\ At(i, "idle") /\ rounds < MaxRounds
  /\ rounds' = rounds + 1
  /\ polls' = [polls EXCEPT ![i] = 0]
  /\ Go(i, "create")
  /\ UNCHANGED <<maker, text, alive, seen, crashes, current, raced, torn>>

\* Mutant: the file is opened with "w" instead of "wx".
CreateOver(i) ==
  /\ At(i, "create")
  /\ maker' = i /\ text' = Empty /\ Go(i, "write")
  /\ UNCHANGED <<alive, seen, polls, rounds, crashes, current, raced, torn>>

Create(i) ==
  /\ At(i, "create")
  /\ IF maker = NoFile
       THEN maker' = i /\ text' = Empty /\ Go(i, "write")
       ELSE UNCHANGED <<maker, text>> /\ Go(i, "read")
  /\ UNCHANGED <<alive, seen, polls, rounds, crashes, current, raced, torn>>

Write(i) ==
  /\ At(i, "write")
  /\ text' = IF maker = i THEN pidOf[i] ELSE text
  /\ Go(i, "held")
  /\ UNCHANGED <<maker, alive, seen, polls, rounds, crashes, current, raced,
                 torn>>

\* The write throws (a full disk): the error leaves acquire(), and the empty
\* file stays.
WriteFails(i) ==
  /\ At(i, "write")
  /\ Go(i, "idle")
  /\ UNCHANGED <<maker, text, alive, seen, polls, rounds, crashes, current,
                 raced, torn>>

Read(i) ==
  /\ At(i, "read")
  /\ IF maker = NoFile
       THEN Go(i, "create") /\ UNCHANGED <<seen, current>>
       ELSE /\ seen' = [seen EXCEPT ![i] = text]
            /\ current' = [current EXCEPT ![i] = TRUE]
            /\ Go(i, "check")
  /\ UNCHANGED <<maker, text, alive, polls, rounds, crashes, raced, torn>>

\* Mutant: EPERM, the answer of another user's process, is read as dead.
CheckForeign(i) ==
  /\ At(i, "check")
  /\ Go(i, IF seen[i] # pidOf[i] THEN "unlink"
           ELSE IF polls[i] < MaxPolls THEN "asleep" ELSE "idle")
  /\ UNCHANGED <<maker, text, alive, seen, polls, rounds, crashes, current,
                 raced, torn>>

\* A pid that answers a signal blocks; an empty file and a dead pid are stale.
Check(i) ==
  /\ At(i, "check")
  /\ Go(i, IF seen[i] \notin alive THEN "unlink"
           ELSE IF polls[i] < MaxPolls THEN "asleep" ELSE "idle")
  /\ UNCHANGED <<maker, text, alive, seen, polls, rounds, crashes, current,
                 raced, torn>>

Unlink(i) ==
  /\ At(i, "unlink")
  /\ Removed
  /\ raced' = (raced \/ (maker # NoFile /\ ~current[i]))
  /\ torn' = (torn \/ (/\ maker # NoFile /\ seen[i] = Empty
                       /\ text # Empty \/ pc[maker] = "write"))
  /\ Go(i, "create")
  /\ UNCHANGED <<alive, seen, polls, rounds, crashes>>

\* Mutant: every re-try starts a deadline of its own.
WakeAnew(i) ==
  /\ At(i, "asleep")
  /\ Go(i, "create")
  /\ UNCHANGED <<maker, text, alive, seen, polls, rounds, crashes, current,
                 raced, torn>>

Wake(i) ==
  /\ At(i, "asleep")
  /\ polls' = [polls EXCEPT ![i] = @ + 1]
  /\ Go(i, "create")
  /\ UNCHANGED <<maker, text, alive, seen, rounds, crashes, current, raced,
                 torn>>

Release(i) ==
  /\ At(i, "held")
  /\ Go(i, "leave")
  /\ UNCHANGED <<maker, text, alive, seen, polls, rounds, crashes, current,
                 raced, torn>>

\* release() keeps its hands off a file that is gone or names another process.
ReadOwner(i) ==
  /\ At(i, "leave")
  /\ Go(i, IF maker # NoFile /\ text = pidOf[i] THEN "drop" ELSE "idle")
  /\ UNCHANGED <<maker, text, alive, seen, polls, rounds, crashes, current,
                 raced, torn>>

Drop(i) ==
  /\ At(i, "drop")
  /\ Removed
  /\ Go(i, "idle")
  /\ UNCHANGED <<alive, seen, polls, rounds, crashes, raced, torn>>

\* A process dies with all its objects.  Its pid may be given to a new one.
Crash(p) ==
  /\ p \in alive /\ crashes < MaxCrashes
  /\ crashes' = crashes + 1
  /\ alive' = alive \ {p}
  /\ pc' = [i \in Lock |-> IF pidOf[i] = p THEN "idle" ELSE pc[i]]
  /\ UNCHANGED <<maker, text, seen, polls, rounds, current, raced, torn>>

Start(p) ==
  /\ p \notin alive
  /\ alive' = alive \cup {p}
  /\ UNCHANGED <<maker, text, pc, seen, polls, rounds, crashes, current, raced,
                 torn>>

Step(i) == \/ Create(i) \/ Write(i) \/ WriteFails(i) \/ Read(i) \/ Check(i)
           \/ Unlink(i) \/ Wake(i) \/ ReadOwner(i) \/ Drop(i)

Next == \/ \E i \in Lock : Acquire(i) \/ Step(i) \/ Release(i)
        \/ \E p \in Pid : Crash(p) \/ Start(p)

Spec == Init /\ [][Next]_vars

\* The operating system runs every process that can run.
Fairness == \A i \in Lock : WF_vars(Step(i)) /\ WF_vars(Release(i))

FairSpec == Spec /\ Fairness

-----------------------------------------------------------------------------
\* The one failure the lock exists to prevent: two commands own the account.
MutualExclusion == \A i, j \in Lock : pc[i] = "held" /\ pc[j] = "held" => i = j

\* Two commands never own the account unless an object reclaimed a file it had
\* not read, or had read before its maker wrote the pid: crashes, recycled
\* pids, failed writes and lost races to create do not break the lock.
ExclusiveUnlessRaced == ~raced /\ ~torn => MutualExclusion

\* Why (the inductive invariant).  A running object has a running process;
\* what a file says names its maker; an object that read a file that is still
\* there read what it says, unless it read too early; and the maker of a file
\* that was rightly found stale owns nothing.
Live    == \A i \in Lock : pc[i] # "idle" => pidOf[i] \in alive
Named   == /\ text # Empty => maker # NoFile /\ text = pidOf[maker]
           /\ (maker # NoFile /\ pc[maker] \in {"held"} \cup Releasing)
                => text # Empty
Known   == \A i \in Lock : current[i] =>
             /\ maker # NoFile
             /\ seen[i] # Empty => seen[i] = text
Stale   == \A i \in Lock : (pc[i] = "unlink" /\ current[i] /\ seen[i] # Empty)
             => pc[maker] \notin Owning
OwnFile == ~raced /\ ~torn => \A i \in Lock : pc[i] \in Owning => maker = i

\* All of it (attempt() and release() of lock.ts).
LockInv == TypeOK /\ Live /\ Named /\ Known /\ Stale /\ OwnFile

\* The lock file implements the lock of the account: between the return of
\* acquire() and the end of release() nobody else becomes an owner, unless a file
\* was reclaimed that had not been read, or read before it was written.
Account == INSTANCE AccountLock WITH
  owners  <- {i \in Lock : pc[i] \in {"held"} \cup Releasing},
  excused <- raced \/ torn
OneOwner == Account!Spec

\* No lock file wedges the account: an acquisition always comes to an end,
\* with the lock or with the refusal.
AttemptEnds == \A i \in Lock : pc[i] = "create" ~> pc[i] \in {"held", "idle"}

=============================================================================
