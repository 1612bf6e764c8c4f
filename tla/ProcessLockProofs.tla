-------------------------- MODULE ProcessLockProofs --------------------------
(***************************************************************************)
(* The lock excludes, for any number of processes, lock objects, retries   *)
(* and crashes, as long as no object reclaims a file it has not read, or   *)
(* has read before it was written.                                         *)
(***************************************************************************)
EXTENDS ProcessLock, TLAPS

USE PidAssumption

LEMMA InitInv == Init => LockInv
<1> SUFFICES ASSUME Init PROVE LockInv
  OBVIOUS
<1> USE DEF Init
<1>1. TypeOK
  BY DEF TypeOK, Control
<1>2. Live /\ Named
  BY DEF Live, Named
<1>3. Known /\ Stale
  BY DEF Known, Stale
<1>4. OwnFile
  BY DEF OwnFile, Owning, Releasing
<1> QED BY <1>1, <1>2, <1>3, <1>4 DEF LockInv

\* One step per action; under it one per conjunct of the invariant that the
\* action can disturb.
LEMMA StepInv == LockInv /\ [Next]_vars => LockInv'
<1> SUFFICES ASSUME LockInv, [Next]_vars PROVE LockInv'
  OBVIOUS
<1> USE DEF LockInv
<1>1. ASSUME NEW i \in Lock, Acquire(i) PROVE LockInv'
  <2> USE <1>1 DEF Acquire, At, Go
  <2>1. TypeOK'
    BY BoundAssumption DEF TypeOK, Control, Attempting, Releasing
  <2>2. Live' /\ Named' /\ Known' /\ Stale' /\ OwnFile'
    BY DEF TypeOK, Live, Named, Known, Stale, OwnFile, Owning, Releasing
  <2> QED BY <2>1, <2>2
<1>2. ASSUME NEW i \in Lock, Create(i) PROVE LockInv'
  <2> USE <1>2 DEF Create, At, Go
  <2>1. TypeOK'
    BY DEF TypeOK, Control, Attempting, Releasing
  <2>2. Live'
    BY DEF TypeOK, Live
  <2>3. Named' /\ Known' /\ Stale' /\ OwnFile'
    <3>1. CASE maker = NoFile
      <4>1. \A j \in Lock : ~current[j]
        BY <3>1 DEF Known
      <4> QED BY <3>1, <4>1 DEF TypeOK, Named, Known, Stale, OwnFile, Owning, Releasing
    <3>2. CASE maker # NoFile
      BY <3>2 DEF TypeOK, Named, Known, Stale, OwnFile, Owning, Releasing
    <3> QED BY <3>1, <3>2
  <2> QED BY <2>1, <2>2, <2>3
<1>3. ASSUME NEW i \in Lock, Write(i) PROVE LockInv'
  <2> USE <1>3 DEF Write, At, Go
  <2>1. TypeOK'
    BY DEF TypeOK, Control, Attempting, Releasing
  <2>2. Live'
    BY DEF TypeOK, Live
  <2>3. Named'
    BY DEF TypeOK, Named, Releasing
  <2>4. Known'
    BY DEF TypeOK, Known, Named
  <2>5. Stale' /\ OwnFile'
    BY DEF TypeOK, Stale, OwnFile, Owning, Releasing
  <2> QED BY <2>1, <2>2, <2>3, <2>4, <2>5
<1>4. ASSUME NEW i \in Lock, WriteFails(i) PROVE LockInv'
  <2> USE <1>4 DEF WriteFails, At, Go
  <2>1. TypeOK'
    BY DEF TypeOK, Control, Attempting, Releasing
  <2>2. Live' /\ Named'
    BY DEF TypeOK, Live, Named, Owning, Releasing
  <2>3. Known' /\ Stale'
    BY DEF TypeOK, Known, Stale, Owning, Releasing
  <2>4. OwnFile'
    BY DEF TypeOK, OwnFile, Owning, Releasing
  <2> QED BY <2>1, <2>2, <2>3, <2>4
<1>5. ASSUME NEW i \in Lock, Read(i) PROVE LockInv'
  <2>1. TypeOK'
    <3>1. \/ /\ pc' = [pc EXCEPT ![i] = "create"]
             /\ UNCHANGED <<seen, current>>
          \/ /\ pc' = [pc EXCEPT ![i] = "check"]
             /\ seen' = [seen EXCEPT ![i] = text]
             /\ current' = [current EXCEPT ![i] = TRUE]
      BY <1>5 DEF Read, At, Go
    <3>2. UNCHANGED <<maker, text, alive, polls, rounds, crashes, raced, torn>>
      BY <1>5 DEF Read
    <3>3. pc' \in [Lock -> Control]
      BY <3>1 DEF TypeOK, Control, Attempting
    <3>4. seen' \in [Lock -> Pid \cup {Empty}]
      BY <3>1 DEF TypeOK
    <3>5. current' \in [Lock -> BOOLEAN]
      BY <3>1 DEF TypeOK
    <3> QED BY <3>2, <3>3, <3>4, <3>5 DEF TypeOK
  <2> USE <1>5 DEF Read, At, Go
  <2>2. Live' /\ Named' /\ OwnFile'
    BY DEF TypeOK, Live, Named, OwnFile, Owning, Releasing
  <2>3. Known' /\ Stale'
    BY DEF TypeOK, Known, Stale, Owning, Releasing
  <2> QED BY <2>1, <2>2, <2>3
<1>6. ASSUME NEW i \in Lock, Check(i) PROVE LockInv'
  <2> USE <1>6 DEF Check, At, Go
  <2>1. TypeOK'
    BY DEF TypeOK, Control, Attempting, Releasing
  <2>2. Live' /\ Named' /\ Known' /\ OwnFile'
    BY DEF TypeOK, Live, Named, Known, OwnFile, Owning, Releasing
  <2>3. Stale'
    \* The pid that does not answer is that of the maker, which is idle.
    <3>1. ASSUME seen[i] \notin alive, seen[i] # Empty, current[i]
          PROVE pc[maker] = "idle"
      BY <3>1 DEF TypeOK, Known, Named, Live
    <3> QED BY <3>1 DEF TypeOK, Stale, Known, Owning, Releasing
  <2> QED BY <2>1, <2>2, <2>3
<1>7. ASSUME NEW i \in Lock, Unlink(i) PROVE LockInv'
  <2> USE <1>7 DEF Unlink, At, Go, Removed
  <2>1. TypeOK'
    BY DEF TypeOK, Control, Attempting, Releasing
  <2>2. Live' /\ Named' /\ Known' /\ Stale'
    BY DEF TypeOK, Live, Named, Known, Stale
  <2>3. OwnFile'
    \* Nobody owns the file that is removed.
    <3> SUFFICES ASSUME ~raced', ~torn', NEW j \in Lock, pc'[j] \in Owning
                 PROVE FALSE
      BY DEF OwnFile
    <3>1. j # i /\ pc[j] \in Owning /\ maker = j
      BY DEF TypeOK, OwnFile, Owning, Releasing
    <3>2. current[i]
      BY <3>1 DEF TypeOK
    <3>3. CASE seen[i] = Empty
      BY <3>1, <3>2, <3>3 DEF TypeOK, Named, Owning
    <3>4. CASE seen[i] # Empty
      BY <3>1, <3>2, <3>4 DEF Stale
    <3> QED BY <3>3, <3>4
  <2> QED BY <2>1, <2>2, <2>3
<1>8. ASSUME NEW i \in Lock, Wake(i) PROVE LockInv'
  <2> USE <1>8 DEF Wake, At, Go
  <2>1. TypeOK'
    BY DEF TypeOK, Control, Attempting, Releasing
  <2>2. Live' /\ Named' /\ Known' /\ Stale' /\ OwnFile'
    BY DEF TypeOK, Live, Named, Known, Stale, OwnFile, Owning, Releasing
  <2> QED BY <2>1, <2>2
<1>9. ASSUME NEW i \in Lock, Release(i) PROVE LockInv'
  <2> USE <1>9 DEF Release, At, Go
  <2>1. TypeOK'
    BY DEF TypeOK, Control, Attempting, Releasing
  <2>2. Live' /\ Named' /\ Known' /\ Stale' /\ OwnFile'
    BY DEF TypeOK, Live, Named, Known, Stale, OwnFile, Owning, Releasing
  <2> QED BY <2>1, <2>2
<1>10. ASSUME NEW i \in Lock, ReadOwner(i) PROVE LockInv'
  <2> USE <1>10 DEF ReadOwner, At, Go
  <2>1. TypeOK'
    BY DEF TypeOK, Control, Attempting, Releasing
  <2>2. Live' /\ Named' /\ Known' /\ Stale' /\ OwnFile'
    BY DEF TypeOK, Live, Named, Known, Stale, OwnFile, Owning, Releasing
  <2> QED BY <2>1, <2>2
<1>11. ASSUME NEW i \in Lock, Drop(i) PROVE LockInv'
  <2> USE <1>11 DEF Drop, At, Go, Removed
  <2>1. TypeOK'
    BY DEF TypeOK, Control, Attempting, Releasing
  <2>2. Live' /\ Named' /\ Known' /\ Stale'
    BY DEF TypeOK, Live, Named, Known, Stale
  <2>3. OwnFile'
    BY DEF TypeOK, OwnFile, Owning, Releasing
  <2> QED BY <2>1, <2>2, <2>3
<1>12. ASSUME NEW p \in Pid, Crash(p) PROVE LockInv'
  <2> USE <1>12 DEF Crash
  <2>1. TypeOK'
    BY BoundAssumption DEF TypeOK, Control
  <2>2. Live' /\ Named' /\ Known' /\ Stale' /\ OwnFile'
    BY DEF TypeOK, Live, Named, Known, Stale, OwnFile, Owning, Releasing
  <2> QED BY <2>1, <2>2
<1>13. ASSUME NEW p \in Pid, Start(p) PROVE LockInv'
  <2> USE <1>13 DEF Start
  <2>1. TypeOK'
    BY DEF TypeOK
  <2>2. Live' /\ Named' /\ Known' /\ Stale' /\ OwnFile'
    BY DEF TypeOK, Live, Named, Known, Stale, OwnFile
  <2> QED BY <2>1, <2>2
<1>14. CASE UNCHANGED vars
  BY <1>14 DEF vars, TypeOK, Live, Named, Known, Stale, OwnFile
<1> QED
  BY <1>1, <1>2, <1>3, <1>4, <1>5, <1>6, <1>7, <1>8, <1>9, <1>10, <1>11,
     <1>12, <1>13, <1>14 DEF Next, Step

\* The lock's variables keep their types, and the reason why it excludes is
\* an invariant of every execution.
THEOREM LockInvariant == Spec => []LockInv
  BY InitInv, StepInv, PTL DEF Spec

\* Every variable of the lock keeps its type.
THEOREM TypeCorrect == Spec => []TypeOK
<1>1. LockInv => TypeOK
  BY DEF LockInv
<1> QED BY <1>1, LockInvariant, PTL

\* The commands exclude each other (lock.ts attempt and release) whatever
\* crashes, pid reuse, failed writes and interleavings there are, unless an
\* object unlinked a file it had not read or had read before it was written.
THEOREM Exclusion == Spec => []ExclusiveUnlessRaced
<1>1. LockInv => ExclusiveUnlessRaced
  BY DEF LockInv, OwnFile, ExclusiveUnlessRaced, MutualExclusion, Owning
<1> QED BY <1>1, LockInvariant, PTL

-----------------------------------------------------------------------------
(***************************************************************************)
(* The file implements the lock of the account (AccountLock).  What has to *)
(* be shown is that nobody owns it when a write ends in owning it: the     *)
(* file is then the writer's, and an owner's file is its own (OwnFile).    *)
(***************************************************************************)
Owners == {i \in Lock : pc[i] \in {"held"} \cup Releasing}

LEMMA AccountSteps ==
  /\ Account!Init <=> Owners = {} /\ (raced \/ torn) = FALSE
  /\ \A i \in Lock :
       i \notin Owners /\ (Owners = {} \/ raced \/ torn) /\ Owners' = Owners \cup {i}
         /\ UNCHANGED <<raced, torn>>
       => [Account!Next]_(Account!vars)
  /\ \A S \in SUBSET Owners :
       Owners' = Owners \ S /\ UNCHANGED <<raced, torn>> => [Account!Next]_(Account!vars)
  /\ Owners' = Owners /\ (raced \/ torn => raced' \/ torn') => [Account!Next]_(Account!vars)
<1> USE DEF Owners, Account!vars
<1>1. Account!Init <=> Owners = {} /\ (raced \/ torn) = FALSE
  BY DEF Account!Init
<1>2. ASSUME NEW i \in Lock, i \notin Owners, Owners = {} \/ raced \/ torn,
             Owners' = Owners \cup {i}, UNCHANGED <<raced, torn>>
      PROVE  [Account!Next]_(Account!vars)
  BY <1>2 DEF Account!Next, Account!Take
<1>3. ASSUME NEW S \in SUBSET Owners, Owners' = Owners \ S, UNCHANGED <<raced, torn>>
      PROVE  [Account!Next]_(Account!vars)
  BY <1>3 DEF Account!Next, Account!Give
<1>4. ASSUME Owners' = Owners, raced \/ torn => raced' \/ torn'
      PROVE  [Account!Next]_(Account!vars)
  BY <1>4 DEF Account!Next, Account!Excuse
<1> QED BY <1>1, <1>2, <1>3, <1>4

LEMMA StepAccount == LockInv /\ [Next]_vars => [Account!Next]_(Account!vars)
<1> SUFFICES ASSUME LockInv, [Next]_vars PROVE [Account!Next]_(Account!vars)
  OBVIOUS
<1>0. pc \in [Lock -> Control] /\ OwnFile
  BY DEF LockInv, TypeOK
\* Most steps move an object between control points at which it owns nothing.
<1>1. ASSUME NEW i \in Lock, NEW c, Go(i, c), UNCHANGED <<raced, torn>>,
             i \in Owners <=> c \in {"held"} \cup Releasing
      PROVE  [Account!Next]_(Account!vars)
  <2>1. Owners' = Owners
    BY <1>0, <1>1 DEF Owners, Go
  <2> QED BY <1>1, <2>1, AccountSteps
<1>2. ASSUME NEW i \in Lock, Write(i) PROVE [Account!Next]_(Account!vars)
  <2>1. pc[i] = "write" /\ pc' = [pc EXCEPT ![i] = "held"] /\ UNCHANGED <<raced, torn>>
    BY <1>2 DEF Write, At, Go
  <2>2. i \notin Owners /\ Owners' = Owners \cup {i}
    BY <1>0, <2>1 DEF Owners, Releasing
  <2>3. ASSUME ~raced, ~torn, NEW j \in Owners PROVE FALSE
    <3>1. maker = i
      BY <1>0, <2>1, <2>3 DEF OwnFile, Owning
    <3>2. maker = j
      BY <1>0, <2>3 DEF OwnFile, Owning, Owners
    <3> QED BY <2>2, <2>3, <3>1, <3>2
  <2>4. Owners = {} \/ raced \/ torn
    BY <2>3
  <2> QED BY <2>1, <2>2, <2>4, AccountSteps
<1>3. ASSUME NEW i \in Lock, ReadOwner(i) \/ Drop(i) PROVE [Account!Next]_(Account!vars)
  <2>1. PICK c \in {"drop", "idle"} : /\ pc[i] \in Releasing /\ pc' = [pc EXCEPT ![i] = c]
                                      /\ UNCHANGED <<raced, torn>>
    BY <1>3 DEF ReadOwner, Drop, At, Go, Releasing
  <2>2. \E S \in SUBSET Owners : Owners' = Owners \ S
    <3>1. CASE c = "drop"
      <4>1. Owners' = Owners \ {}
        BY <1>0, <2>1, <3>1 DEF Owners, Releasing
      <4> QED BY <4>1
    <3>2. CASE c = "idle"
      <4>1. Owners' = Owners \ {i} /\ {i} \in SUBSET Owners
        BY <1>0, <2>1, <3>2 DEF Owners, Releasing
      <4> QED BY <4>1
    <3> QED BY <2>1, <3>1, <3>2
  <2> QED BY <2>1, <2>2, AccountSteps
<1>4. ASSUME NEW i \in Lock, Unlink(i) PROVE [Account!Next]_(Account!vars)
  <2>1. Owners' = Owners
    BY <1>0, <1>4 DEF Unlink, At, Go, Owners, Releasing
  <2>2. raced \/ torn => raced' \/ torn'
    BY <1>4 DEF Unlink
  <2> QED BY <2>1, <2>2, AccountSteps
<1>5. ASSUME NEW p \in Pid, Crash(p) PROVE [Account!Next]_(Account!vars)
  <2> DEFINE S == {i \in Owners : pidOf[i] = p}
  <2>1. Owners' = Owners \ S /\ S \in SUBSET Owners
    BY <1>0, <1>5 DEF Crash, Owners, Releasing
  <2>2. UNCHANGED <<raced, torn>>
    BY <1>5 DEF Crash
  <2> QED BY <2>1, <2>2, AccountSteps
<1>6. CASE UNCHANGED vars \/ \E p \in Pid : Start(p)
  <2>1. Owners' = Owners /\ UNCHANGED <<raced, torn>>
    BY <1>6 DEF vars, Start, Owners
  <2> QED BY <2>1, AccountSteps
<1>7. ASSUME NEW i \in Lock,
             Acquire(i) \/ Create(i) \/ WriteFails(i) \/ Read(i) \/ Check(i) \/ Wake(i) \/ Release(i)
      PROVE  [Account!Next]_(Account!vars)
  <2>1. PICK c : Go(i, c) /\ (c \in {"held"} \cup Releasing <=> c = "leave" /\ pc[i] = "held")
                 /\ (pc[i] \in {"held"} \cup Releasing => c = "leave" /\ pc[i] = "held")
    BY <1>7 DEF Acquire, Create, WriteFails, Read, Check, Wake, Release, At, Releasing
  <2>2. UNCHANGED <<raced, torn>>
    BY <1>7 DEF Acquire, Create, WriteFails, Read, Check, Wake, Release
  <2>3. i \in Owners <=> c \in {"held"} \cup Releasing
    BY <2>1 DEF Owners
  <2> QED BY <1>1, <2>1, <2>2, <2>3
<1> QED BY <1>2, <1>3, <1>4, <1>5, <1>6, <1>7 DEF Next, Step

\* The lock file implements the lock of the account (attempt and release of lock.ts)
\* for any number of processes, lock objects, re-tries and crashes.
THEOREM LockImplements == Spec => OneOwner
<1>1. Init => Account!Init
  <2>1. Init => Owners = {} /\ (raced \/ torn) = FALSE
    BY DEF Init, Owners, Releasing
  <2> QED BY <2>1, AccountSteps
<1>2. LockInv /\ [Next]_vars => [Account!Next]_(Account!vars)
  BY StepAccount
<1> QED BY <1>1, <1>2, LockInvariant, PTL DEF Spec, OneOwner, Account!Spec

=============================================================================
