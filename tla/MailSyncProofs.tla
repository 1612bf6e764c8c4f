--------------------------- MODULE MailSyncProofs ---------------------------
(***************************************************************************)
(* Proofs about MailSync.tla, for every set of messages, processes and     *)
(* sessions, every set of commands and every number of failures: the types *)
(* and NoLostMail, through the inductive invariant of MailSyncInv.tla; and *)
(* for every set of commands without the cleanup run, ViewComplete.        *)
(***************************************************************************)
EXTENDS MailSyncInv, TLAPS

LEMMA Ids ==
  /\ Fresh \in Markers /\ IsId(Fresh)
  /\ \A x \in Markers : IsId(x) => x \in SUBSET Msg
  /\ \A x \in Markers, m \in Msg :
       /\ Bump(x, m) \in Markers
       /\ (IsId(Bump(x, m)) <=> IsId(x))
       /\ IsId(x) => Bump(x, m) = x \cup {m}
       /\ Bump(NoMarker, m) = NoMarker
  BY MarkerAssumption DEF Fresh, Markers, IsId, Bump

LEMMA ChangedType ==
  ASSUME TypeOK, NEW m \in Msg, Changed(m)
  PROVE  /\ marker' \in Markers /\ viewMarker' \in Markers
         /\ start' \in Markers /\ fence' \in Markers
         /\ base' \in [Proc -> Markers] /\ snap' \in [Viewer -> Markers]
         /\ unverified' \in SUBSET Msg
  BY Ids DEF TypeOK, Changed

\* The snapshot being loaded may come to keep m.
Kept(v, m) == Retain(v, m) \/ UNCHANGED active

LEMMA RewriteType ==
  ASSUME TypeOK, NEW v \in Viewer, NEW m \in Msg, NEW l \in StoredLabels,
         NEW w \in StoredLabels, Rewrite(m, l, w), Kept(v, m)
  PROVE  /\ mail' \in [Msg -> Mail] /\ row' \in [Msg -> CacheLabels]
         /\ touched' \in [Viewer -> SUBSET Msg] /\ active' \in [Viewer -> SUBSET Msg]
         /\ marker' \in Markers /\ viewMarker' \in Markers
         /\ start' \in Markers /\ fence' \in Markers
         /\ base' \in [Proc -> Markers] /\ snap' \in [Viewer -> Markers]
         /\ unverified' \in SUBSET Msg
         /\ UNCHANGED <<refreshed, ledger, waiting, job, viewer, phase, mode, queue,
                        erased, got, assessed, lost, cut, acts, hit, todo, spoiled,
                        overtaken>>
<1> USE DEF Rewrite, Kept
<1>1. /\ mail' \in [Msg -> Mail] /\ row' \in [Msg -> CacheLabels]
      /\ touched' \in [Viewer -> SUBSET Msg] /\ active' \in [Viewer -> SUBSET Msg]
  BY DEF TypeOK, Mail, CacheLabels, Stamp, Retain
<1>2. CASE Changed(m)
  BY <1>1, <1>2, ChangedType
<1>3. CASE ~Changed(m)
  BY <1>1, <1>3 DEF Unnoticed, TypeOK
<1> QED BY <1>2, <1>3

LEMMA ReleaseType ==
  ASSUME TypeOK, Release
  PROVE  /\ job' \in Jobs /\ viewer' \in Viewer \cup {"none"} /\ phase' \in Phases /\ mode' \in Modes
         /\ start' \in Markers /\ fence' \in Markers /\ queue' \in SUBSET Msg
         /\ erased' \in SUBSET Msg /\ got' \in [Msg -> Fetched]
         /\ assessed' \in SUBSET Msg /\ lost' \in BOOLEAN /\ cut' \in BOOLEAN
         /\ acts' \in SUBSET Msg /\ hit' \in SUBSET Msg
  BY Ids DEF TypeOK, Release, Jobs, Phases, Modes, Markers, NothingFetched, Fetched, CacheLabels

LEMMA TypeStep == TypeOK /\ [Next]_vars => TypeOK'
<1> SUFFICES ASSUME TypeOK, [Next]_vars PROVE TypeOK'
  OBVIOUS
<1> USE DEF store, loads, scratch, loader, observe
<1>1. ASSUME NEW m \in Msg, Deliver(m) PROVE TypeOK'
  BY <1>1, ChangedType DEF Deliver, TypeOK, Mail, StoredLabels, InboxLabels
<1>2. ASSUME NEW m \in Msg, NEW l \in StoredLabels, Relabel(m, l) PROVE TypeOK'
  BY <1>2, ChangedType DEF Relabel, TypeOK, Mail
<1>3. ASSUME NEW m \in Msg, DeleteForever(m) PROVE TypeOK'
  BY <1>3, ChangedType DEF DeleteForever, TypeOK, Mail
<1>4. ASSUME NEW x \in {marker, viewMarker}, Expire(x) PROVE TypeOK'
  BY <1>4, Ids DEF Expire, TypeOK, Markers
<1>5. ASSUME NEW m \in Msg, NEW ok \in BOOLEAN, Fetch(m, ok) PROVE TypeOK'
  BY <1>5 DEF Fetch, Fault, TypeOK, Fetched, CacheLabels
<1>6. ASSUME NEW m \in Msg, FetchGone(m) PROVE TypeOK'
  BY <1>6 DEF FetchGone, TypeOK, Fetched
<1>7. ASSUME NEW m \in Msg, FetchFails(m) PROVE TypeOK'
  BY <1>7 DEF FetchFails, Fault, TypeOK
<1>8. ASSUME NEW p \in Proc, LoadAccount(p) PROVE TypeOK'
  BY <1>8 DEF LoadAccount, TypeOK
<1>9. ASSUME NEW p \in Proc, LockForWork(p) PROVE TypeOK'
  BY <1>9 DEF LockForWork, TypeOK, Jobs, Phases, Markers
<1>10. ASSUME DiscoverCached PROVE TypeOK'
  BY <1>10 DEF DiscoverCached, Select, Backlog, TypeOK, Modes, Phases
<1>11. ASSUME DiscoverHistory PROVE TypeOK'
  BY <1>11, Ids DEF DiscoverHistory, Select, Backlog, ChangedSince, DeletedSince, TypeOK, Modes, Phases
<1>12. ASSUME ReadProfile PROVE TypeOK'
  BY <1>12, Ids DEF ReadProfile, TypeOK, Modes, Phases
<1>13. ASSUME ListInbox PROVE TypeOK'
  BY <1>13 DEF ListInbox, Select, InFolder, TypeOK, Phases
<1>14. ASSUME PlanActions PROVE TypeOK'
  BY <1>14 DEF PlanActions, TypeOK, Phases, Statuses
<1>15. ASSUME StartApplying PROVE TypeOK'
  BY <1>15 DEF StartApplying, TypeOK, Phases, Statuses
<1>16. ASSUME NEW m \in Msg, Mutate(m) PROVE TypeOK'
  BY <1>16, ChangedType DEF Mutate, Unnoticed, TypeOK, Mail, StoredLabels
<1>17. ASSUME RecordResults PROVE TypeOK'
  BY <1>17 DEF RecordResults, Fault, TypeOK, Phases, Statuses
<1>18. ASSUME Checkpoint PROVE TypeOK'
  BY <1>18, ReleaseType DEF Checkpoint, Stamp, NewMarker, TypeOK, Markers, CacheLabels, Fetched, StoredLabels, InboxLabels
<1>19. ASSUME LockForCache PROVE TypeOK'
  BY <1>19, Ids DEF LockForCache, TypeOK, Jobs, Phases
<1>20. ASSUME Flush PROVE TypeOK'
  BY <1>20 DEF Flush, Project, Stamp, TypeOK, CacheLabels, StoredLabels, InboxLabels
<1>21. ASSUME FlushFails PROVE TypeOK'
  BY <1>21 DEF FlushFails, Fault, TypeOK, NothingFetched, Fetched, CacheLabels
<1>22. ASSUME FinishCache PROVE TypeOK'
  BY <1>22, ReleaseType DEF FinishCache, Stamp, TypeOK, CacheLabels
<1>23. ASSUME Uncache PROVE TypeOK'
  BY <1>23 DEF Uncache, Stamp, TypeOK, CacheLabels, Markers
<1>24. ASSUME NEW v \in Viewer, StartSnapshot(v) PROVE TypeOK'
  BY <1>24, Ids DEF StartSnapshot, TypeOK
<1>25. ASSUME NEW v \in Viewer, NEW f \in Folders, ListPage(v, f) PROVE TypeOK'
  BY <1>25 DEF ListPage, InFolder, TypeOK, Jobs, Phases
<1>26. ASSUME FinishPage PROVE TypeOK'
  BY <1>26, ReleaseType DEF FinishPage, Project, Stamp, TypeOK, CacheLabels, StoredLabels, InboxLabels
<1>27. ASSUME NEW v \in Viewer, FinishSnapshot(v) PROVE TypeOK'
  <2> USE <1>27 DEF FinishSnapshot
  <2>1. /\ row' \in [Msg -> CacheLabels] /\ done' \in SUBSET Msg
        /\ marker' \in Markers /\ viewMarker' \in Markers
        /\ refreshed' \in BOOLEAN
    <3>1. CASE Superseded(v)
      BY <3>1 DEF TypeOK
    <3>2. CASE ~Superseded(v)
      <4>1. marker' \in Markers /\ viewMarker' \in Markers
        BY <3>2 DEF TypeOK
      <4>2. row' \in [Msg -> CacheLabels]
        BY <3>2 DEF TypeOK, CacheLabels
      <4> QED BY <3>2, <4>1, <4>2 DEF TypeOK
    <3> QED BY <3>1, <3>2
  <2>2. overtaken' \in SUBSET {"uncache", "prune"}
    BY DEF TypeOK
  <2>3. /\ snap' \in [Viewer -> Markers] /\ active' \in [Viewer -> SUBSET Msg]
        /\ touched' \in [Viewer -> SUBSET Msg]
        /\ spoiled' \in [Viewer -> BOOLEAN]
    BY DEF TypeOK, Markers
  <2> QED BY <2>1, <2>2, <2>3 DEF TypeOK
<1>28. ASSUME NEW v \in Viewer, StopSnapshot(v) PROVE TypeOK'
  BY <1>28 DEF StopSnapshot, TypeOK, Markers
<1>29. ASSUME NEW v \in Viewer, RefreshExpired(v) PROVE TypeOK'
  BY <1>29 DEF RefreshExpired, TypeOK, Markers
<1>30. ASSUME NEW v \in Viewer, StartRefresh(v) PROVE TypeOK'
  BY <1>30, Ids DEF StartRefresh, ChangedSince, DeletedSince, TypeOK, Jobs, Phases
<1>31. ASSUME FinishRefresh PROVE TypeOK'
  BY <1>31, ReleaseType DEF FinishRefresh, Project, Stamp, TypeOK, CacheLabels, StoredLabels, InboxLabels
<1>32. ASSUME NEW v \in Viewer, NEW m \in Msg, NEW l \in StoredLabels,
              NEW w \in StoredLabels, Rewrite(m, l, w), Kept(v, m),
              done' \in KeepingEvaluation(m), faults' \in Nat
       PROVE  TypeOK'
  <2>1. done' \in SUBSET Msg
    BY <1>32 DEF TypeOK, KeepingEvaluation
  <2> QED BY <1>32, <2>1, RewriteType DEF TypeOK
<1>33. ASSUME NEW v \in Viewer, NEW m \in Msg, EditStar(v, m) \/ EditTrash(v, m)
                                              \/ EditMoveIn(v, m) \/ Undo(v, m)
       PROVE  TypeOK'
  <2> USE <1>33
  <2>1. done \ {m} \in KeepingEvaluation(m) /\ faults \in Nat
    BY DEF KeepingEvaluation, TypeOK
  <2>2. CASE EditStar(v, m)
    <3>1. ASSUME NEW w \in StoredLabels, Rewrite(m, mail[m], w), Kept(v, m), done' = done \ {m}, faults' = faults
          PROVE  TypeOK'
      BY <2>1, <3>1, <1>32 DEF Rewrite
    <3>2. CASE \E w \in StoredLabels : Rewrite(m, mail[m], w) /\ Retain(v, m) /\ done' = done \ {m} /\ faults' = faults
      BY <3>1, <3>2 DEF Kept
    <3>3. CASE /\ Retain(v, m) /\ unverified' \in {unverified, unverified \cup {m}}
               /\ UNCHANGED <<mail, store, loads, scratch, snap, todo, spoiled, overtaken, faults>>
      BY <3>3 DEF Retain, TypeOK
    <3> QED BY <2>2, <3>2, <3>3 DEF EditStar
  <2>3. CASE EditTrash(v, m)
    BY <2>1, <2>3, <1>32 DEF EditTrash, Kept, StoredLabels
  <2>4. CASE EditMoveIn(v, m)
    <3>1. faults' \in Nat /\ done' \in KeepingEvaluation(m)
      BY <2>1, <2>4 DEF EditMoveIn, Fault
    <3>2. ASSUME NEW l \in InboxLabels, NEW w \in InboxLabels, Rewrite(m, l, w), Kept(v, m) PROVE TypeOK'
      BY <3>1, <3>2, <1>32 DEF StoredLabels
    <3>3. CASE Rewrite(m, mail[m], "filed") /\ Kept(v, m)
      BY <3>1, <3>3, <1>32 DEF Rewrite, StoredLabels
    <3> QED BY <2>4, <3>2, <3>3 DEF EditMoveIn, Kept
  <2>5. CASE Undo(v, m)
    <3>1. ASSUME NEW was \in StoredLabels, NEW l \in StoredLabels, Rewrite(m, l, was), Kept(v, m) PROVE TypeOK'
      BY <2>1, <2>5, <3>1, <1>32 DEF Undo
    <3> QED BY <2>5, <3>1 DEF Undo, Kept
  <2> QED BY <2>2, <2>3, <2>4, <2>5
<1>34. ASSUME NEW v \in Viewer, NEW m \in Msg, OpenMessage(v, m) PROVE TypeOK'
  <2> USE <1>34 DEF OpenMessage
  <2>1. PICK seen \in {"read", mail[m]} :
          /\ IF seen = "unread" THEN Fault ELSE UNCHANGED faults
          /\ mail' = [mail EXCEPT ![m] = seen]
          /\ IF seen = mail[m] THEN Unnoticed /\ unverified' = unverified \ {m} ELSE Changed(m)
          /\ row' = [row EXCEPT ![m] = seen]
    OBVIOUS
  <2>2. /\ mail' \in [Msg -> Mail] /\ row' \in [Msg -> CacheLabels] /\ faults' \in Nat
    BY <2>1 DEF TypeOK, Mail, CacheLabels, StoredLabels, InboxLabels, Fault
  <2>3. /\ marker' \in Markers /\ viewMarker' \in Markers
        /\ start' \in Markers /\ fence' \in Markers
        /\ base' \in [Proc -> Markers] /\ snap' \in [Viewer -> Markers]
        /\ unverified' \in SUBSET Msg
    <3>1. CASE Changed(m)
      BY <3>1, ChangedType
    <3>2. CASE ~Changed(m)
      BY <2>1, <3>2 DEF Unnoticed, TypeOK
    <3> QED BY <3>1, <3>2
  <2>4. done' \in SUBSET Msg /\ touched' \in [Viewer -> SUBSET Msg]
    <3>1. CASE UNCHANGED <<done, touched>>
      BY <3>1 DEF TypeOK
    <3>2. CASE done' = done \ {m} /\ Stamp({m}, {})
      BY <3>2 DEF TypeOK, Stamp
    <3>3. CASE done' \in KeepingEvaluation(m) /\ UNCHANGED touched
      BY <3>3 DEF TypeOK, KeepingEvaluation
    <3> QED BY <3>1, <3>2, <3>3
  <2>5. active' \in [Viewer -> SUBSET Msg]
    BY DEF Retain, TypeOK
  <2> QED BY <2>2, <2>3, <2>4, <2>5 DEF TypeOK
<1>35. ASSUME RunInSession PROVE TypeOK'
  BY <1>35 DEF RunInSession, TypeOK, Jobs, Phases
<1>36. ASSUME NEW p \in Proc, GiveUp(p) PROVE TypeOK'
  BY <1>36 DEF GiveUp, TypeOK, Markers
<1>37. ASSUME Crash PROVE TypeOK'
  <2>1. /\ snap' \in [Viewer -> Markers] /\ active' \in [Viewer -> SUBSET Msg]
        /\ touched' \in [Viewer -> SUBSET Msg]
        /\ todo' \in [Viewer -> SUBSET Folders]
        /\ spoiled' \in [Viewer -> BOOLEAN]
    BY <1>37 DEF Crash, TypeOK, Markers
  <2> QED BY <1>37, <2>1, ReleaseType DEF Crash, Fault, TypeOK
<1>38. CASE UNCHANGED vars
  BY <1>38 DEF vars, TypeOK
<1> QED
  BY <1>1, <1>2, <1>3, <1>4, <1>5, <1>6, <1>7, <1>8, <1>9, <1>10, <1>11,
     <1>12, <1>13, <1>14, <1>15, <1>16, <1>17, <1>18, <1>19, <1>20, <1>21,
     <1>22, <1>23, <1>24, <1>25, <1>26, <1>27, <1>28, <1>29, <1>30, <1>31,
     <1>32, <1>33, <1>34, <1>35, <1>36, <1>37, <1>38
  DEF Next, Outside, Reading, Working, Caching, Viewing, RowAction

-----------------------------------------------------------------------------
Loose == ReadsTrue /\ Chain /\ Shape
Sound == AllCovered /\ Discovered /\ SnapshotSound

LEMMA SyncParts == SyncInv <=> TypeOK /\ Loose /\ (overtaken = {} => Sound)
  BY DEF SyncInv, Loose, Sound

\* Ids that were held before, or say nothing, are in order as before.
LEMMA ChainKept ==
  ASSUME Chain, Held' \subseteq Held \cup {Fresh, NoMarker, Expired}
  PROVE  Chain'
  BY DEF Chain, Fresh, IsId

LEMMA BumpId ==
  ASSUME NEW m \in Msg, NEW x \in Markers
  PROVE  /\ (IsId(Bump(x, m)) <=> IsId(x))
         /\ IsId(x) => Bump(x, m) = x \cup {m}
         /\ x = NoMarker => Bump(x, m) = NoMarker
<1>1. IsId(Bump(x, m)) <=> IsId(x)
  BY MarkerAssumption DEF Markers, IsId, Bump
<1>2. IsId(x) => Bump(x, m) = x \cup {m}
  BY DEF Bump
<1>3. x = NoMarker => Bump(x, m) = NoMarker
  BY DEF Bump, IsId
<1> QED BY <1>1, <1>2, <1>3

\* x is now known to be followed by the change of m, and is otherwise as old
\* as before.
Grown(x, y, m) == /\ (IsId(y) <=> IsId(x))
                  /\ IsId(x) => y = x \cup {m}
                  /\ x = NoMarker => y = NoMarker

LEMMA ChangedIds ==
  ASSUME TypeOK, NEW m \in Msg, Changed(m)
  PROVE  /\ Grown(marker, marker', m) /\ Grown(viewMarker, viewMarker', m)
         /\ Grown(start, start', m) /\ Grown(fence, fence', m)
         /\ \A p \in Proc : Grown(base[p], base'[p], m)
         /\ \A v \in Viewer : Grown(snap[v], snap'[v], m)
         /\ fence = start => fence' = start'
<1>1. \A x \in Markers : Grown(x, Bump(x, m), m)
  BY BumpId DEF Grown
<1> QED BY <1>1 DEF Changed, TypeOK

LEMMA ChangedReported ==
  ASSUME TypeOK, NEW m \in Msg, Changed(m)
  PROVE  /\ m \in Reported'
         /\ \A k \in Msg : k \in Reported => k \in Reported'
<1>1. ASSUME NEW x, NEW y, Grown(x, y, m)
      PROVE  Has(y, m) /\ \A k \in Msg : Has(x, k) => Has(y, k)
  BY <1>1 DEF Grown, Has
<1>2. m \in Reported'
  BY <1>1, ChangedIds DEF Reported
<1>3. ASSUME NEW k \in Msg, k \in Reported PROVE k \in Reported'
  BY <1>1, <1>3, ChangedIds DEF Reported
<1> QED BY <1>2, <1>3

LEMMA ChangedChain ==
  ASSUME TypeOK, NEW m \in Msg, Changed(m), Chain
  PROVE  Chain'
<1>1. ASSUME NEW y \in Held' PROVE \E x \in Held : Grown(x, y, m)
  BY <1>1, ChangedIds DEF Held
<1>2. ASSUME NEW y1 \in Held', NEW y2 \in Held', IsId(y1), IsId(y2)
      PROVE  y1 \subseteq y2 \/ y2 \subseteq y1
  <2>1. PICK x1 \in Held : Grown(x1, y1, m)
    BY <1>1
  <2>2. PICK x2 \in Held : Grown(x2, y2, m)
    BY <1>1
  <2>3. x1 \subseteq x2 \/ x2 \subseteq x1
    BY <1>2, <2>1, <2>2 DEF Chain, Grown
  <2> QED BY <1>2, <2>1, <2>2, <2>3 DEF Grown
<1> QED BY <1>2 DEF Chain

\* A message changes at Gmail, and what the cache says of it may change too.
LEMMA MailChanged ==
  ASSUME TypeOK, Loose, overtaken = {} => Sound,
         NEW m \in Msg, Changed(m), mail[m] # "gone",
         mail' \in [Msg -> Mail],
         \A k \in Msg \ {m} : /\ mail'[k] = mail[k] /\ row'[k] = row[k]
                             /\ (k \in done' <=> k \in done)
                             /\ (k \in hit' <=> k \in hit),
         \A v \in Viewer : active[v] \subseteq active'[v],
         UNCHANGED <<job, viewer, phase, mode, queue, erased, got, lost, cut,
                     todo, spoiled, overtaken>>
  PROVE  ReadsTrue' /\ Chain' /\ (overtaken' = {} => Sound')
<1>0. \A k \in Msg \ {m} : Current(k) => Current(k)'
  BY DEF Changed, Current
<1>1. Chain'
  BY ChangedChain DEF Loose
<1>2. /\ m \in Reported' /\ m \notin erased
      /\ \A k \in Msg \ {m} : k \in Reported => k \in Reported'
  BY ChangedReported DEF Loose, ReadsTrue
<1>3. ReadsTrue'
  <2> SUFFICES ASSUME NEW k \in Msg
               PROVE  /\ got[k] # "none" /\ got[k] # mail'[k] => k \in Reported'
                      /\ k \in hit' /\ mail'[k] \in InboxLabels => k \in Reported'
                      /\ k \in erased => mail'[k] = "gone"
    BY DEF ReadsTrue, InScope
  <2>1. CASE k = m
    BY <1>2, <2>1
  <2>2. CASE k # m
    BY <1>2, <2>2 DEF Loose, ReadsTrue, InScope
  <2> QED BY <2>1, <2>2
<1>4. ASSUME overtaken = {} PROVE AllCovered'
  <2>1. ASSUME NEW x, NEW y, NEW k \in Msg, Covered(x, k), Grown(x, y, m)
        PROVE  mail'[k] \in InboxLabels /\ IsId(y) => k \in y \/ Current(k)'
    <3>1. CASE k = m
      BY <2>1, <3>1 DEF Grown
    <3>2. CASE k # m
      <4> k \in Msg \ {m}
        BY <3>2
      <4> QED BY <1>0, <2>1 DEF Covered, Grown
    <3> QED BY <3>1, <3>2
  <2> SUFFICES ASSUME NEW k \in Msg
               PROVE  /\ Covered(marker, k)' /\ Covered(viewMarker, k)'
                      /\ Covered(start, k)'
                      /\ \A p \in Proc : Covered(base[p], k)'
    BY DEF AllCovered
  <2>2. /\ Covered(marker, k) /\ Covered(viewMarker, k) /\ Covered(start, k)
        /\ \A p \in Proc : Covered(base[p], k)
    BY <1>4 DEF Sound, AllCovered
  <2>3. /\ Covered(marker, k)'
        /\ Covered(viewMarker, k)'
        /\ Covered(start, k)'
    <3>1. Covered(marker, k)'
      BY <2>1, <2>2, ChangedIds DEF Covered
    <3>2. Covered(viewMarker, k)'
      BY <2>1, <2>2, ChangedIds DEF Covered
    <3>3. Covered(start, k)'
      BY <2>1, <2>2, ChangedIds DEF Covered
    <3> QED BY <3>1, <3>2, <3>3
  <2>4. ASSUME NEW p \in Proc PROVE Covered(base[p], k)'
    BY <2>1, <2>2, ChangedIds DEF Covered
  <2> QED BY <2>3, <2>4
<1>5. ASSUME overtaken = {} PROVE Discovered'
  <2> SUFFICES ASSUME phase \in {"fetch", "planned", "apply", "record"},
                      job \in {"work", "cache", "refresh"}, ~lost, ~cut, IsId(fence'),
                      NEW k \in Msg, mail'[k] \in InboxLabels, k \notin queue,
                      got[k] = "none", k \notin Reported'
               PROVE  /\ job = "refresh" \/ mode \in {"history", "cacheFirst"}
                      /\ k \in fence' \/ Current(k)'
    BY DEF Discovered, InScope
  <2>1. k \in Msg \ {m} /\ k \notin Reported /\ IsId(fence)
    BY <1>2, ChangedIds DEF Grown
  <2>2. InScope(k)
    BY <2>1 DEF InScope
  <2>3. /\ job = "refresh" \/ mode \in {"history", "cacheFirst"}
        /\ k \in fence \/ Current(k)
    BY <1>5, <2>1, <2>2 DEF Sound, Discovered
  <2>4. k \in fence => k \in fence'
    BY <2>1, ChangedIds DEF Grown
  <2> QED BY <1>0, <2>1, <2>3, <2>4
<1>6. ASSUME overtaken = {} PROVE SnapshotSound'
  <2> SUFFICES ASSUME NEW v \in Viewer, IsId(snap'[v]), "inbox" \notin todo[v], ~spoiled[v],
                      NEW k \in Msg \ snap'[v], mail'[k] \in InboxLabels
               PROVE  \/ k \in active'[v] /\ Current(k)'
                      \/ /\ job = "page" /\ viewer = v
                         /\ k \in queue \/ got[k] = mail'[k] \/ lost
    BY DEF SnapshotSound, InScope
  <2>1. k \in Msg \ {m} /\ k \notin snap[v] /\ IsId(snap[v])
    BY ChangedIds DEF Grown
  <2>2. \/ k \in active[v] /\ Current(k)
        \/ /\ job = "page" /\ viewer = v
           /\ k \in queue \/ got[k] = mail[k] \/ lost
    BY <1>6, <2>1 DEF Sound, SnapshotSound, InScope
  <2> QED BY <1>0, <2>1, <2>2
<1> QED BY <1>1, <1>3, <1>4, <1>5, <1>6 DEF Sound

-----------------------------------------------------------------------------
\* The same facts as sets: where the prover must compare two states, a set
\* is easier to carry over than an operator with a parameter.
Scope   == {m \in Msg : InScope(m)}
Present == {m \in Msg : Current(m)}
Trusted == {marker, viewMarker, start} \cup {base[p] : p \in Proc}

LEMMA Coverage ==
  AllCovered <=> (\A x \in Trusted : IsId(x) => Scope \subseteq x \cup Present)
<1>1. ASSUME AllCovered, NEW x \in Trusted, IsId(x) PROVE Scope \subseteq x \cup Present
  BY <1>1 DEF AllCovered, Trusted, Scope, Present, Covered, InScope
<1>2. ASSUME \A x \in Trusted : IsId(x) => Scope \subseteq x \cup Present PROVE AllCovered
  BY <1>2 DEF AllCovered, Trusted, Scope, Present, Covered, InScope
<1> QED BY <1>1, <1>2

LEMMA Reports == Reported = {m \in Msg : \A x \in Held : Has(x, m)}
  BY DEF Reported, Held

\* No id is newer than those that were held.
LEMMA HeldShrinks ==
  ASSUME Held' \subseteq Held \cup {NoMarker, Expired}
  PROVE  Reported \subseteq Reported' /\ (Chain => Chain')
<1>1. Reported' = {m \in Msg : \A x \in Held' : Has(x, m)}
  BY DEF Reported, Held
<1>2. Reported \subseteq Reported'
  BY <1>1, Reports DEF Has, IsId
<1> QED BY <1>2, ChainKept

\* The stored markers still cover the mailbox.
LEMMA TrustKept ==
  ASSUME AllCovered, mail' = mail,
         Trusted' \subseteq Trusted \cup {NoMarker, Expired},
         Present \cap Scope \subseteq Present' \cup Reported
  PROVE  AllCovered'
<1>1. Scope' = Scope
  BY DEF Scope, InScope
<1>2. \A x \in Trusted : IsId(x) => Reported \subseteq x
  BY Reports DEF Trusted, Held, Has
<1>3. ASSUME NEW x \in Trusted', IsId(x) PROVE Scope' \subseteq x \cup Present'
  BY <1>1, <1>2, <1>3, Coverage DEF IsId
<1>4. ASSUME NEW m \in Msg, NEW x \in Trusted', IsId(x), mail'[m] \in InboxLabels
      PROVE  m \in x \/ Current(m)'
  BY <1>3, <1>4 DEF Scope, InScope, Present
<1> QED BY <1>4 DEF AllCovered, Covered, Trusted

\* Another command than a page load writes the cache.
LEMMA SnapshotKept ==
  ASSUME SnapshotSound, mail' = mail, job # "page",
         Present \cap Scope \subseteq Present' \cup Reported,
         UNCHANGED <<snap, active, todo, spoiled>>
  PROVE  SnapshotSound'
<1> SUFFICES ASSUME NEW v \in Viewer, IsId(snap[v]), "inbox" \notin todo[v], ~spoiled[v],
                    NEW m \in Msg \ snap[v], InScope(m)
             PROVE  m \in active[v] /\ Current(m)'
  BY DEF SnapshotSound, InScope
<1>1. m \in active[v] /\ m \in Present /\ m \in Scope
  BY DEF SnapshotSound, Present, Scope
<1>2. m \notin Reported
  BY DEF Reported, Has
<1>3. m \in Present'
  BY <1>1, <1>2
<1> QED BY <1>1, <1>3 DEF Present

Preserved == Loose' /\ (overtaken' = {} => Sound')

\* Gmail and its other clients.
LEMMA ShapeChanged ==
  ASSUME TypeOK, Shape, NEW m \in Msg, Changed(m),
         UNCHANGED <<job, phase, mode, queue, got, cut, acts>>,
         hit' = hit \/ phase = "apply"
  PROVE  Shape'
  BY ChangedIds DEF Shape, Grown

LEMMA OutsidePreserves ==
  ASSUME SyncInv, NEW m \in Msg, Deliver(m) \/ DeleteForever(m) \/ \E l \in StoredLabels : Relabel(m, l)
  PROVE  Preserved
<1>1. /\ Changed(m) /\ mail[m] # "gone" /\ mail' \in [Msg -> Mail]
      /\ \A k \in Msg \ {m} : mail'[k] = mail[k]
      /\ UNCHANGED <<row, done, hit, acts, active, job, viewer, phase, mode, queue,
                     erased, got, lost, cut, todo, spoiled, overtaken>>
  BY DEF Deliver, DeleteForever, Relabel, SyncInv, TypeOK, Mail, StoredLabels,
         InboxLabels, observe
<1>2. Shape'
  BY <1>1, ShapeChanged DEF SyncInv
<1>3. ReadsTrue' /\ Chain' /\ (overtaken' = {} => Sound')
  BY <1>1, SyncParts, MailChanged
<1> QED BY <1>2, <1>3 DEF Preserved, Loose

LEMMA ExpirePreserves ==
  ASSUME SyncInv, NEW x \in {marker, viewMarker}, Expire(x)
  PROVE  Preserved
<1> USE DEF scratch, observe
<1>1. /\ marker' \in {marker, Expired} /\ viewMarker' \in {viewMarker, Expired}
      /\ \A p \in Proc : base'[p] \in {base[p], Expired}
      /\ \A v \in Viewer : snap'[v] \in {snap[v], Expired}
      /\ start' = start /\ fence' = fence
  BY DEF Expire, SyncInv, TypeOK
<1>2. Held' \subseteq Held \cup {Expired} /\ Trusted' \subseteq Trusted \cup {Expired}
  BY <1>1 DEF Held, Trusted
<1>3. Chain' /\ Reported \subseteq Reported'
  BY <1>2, HeldShrinks DEF SyncInv
<1>4. Shape'
  BY DEF Expire, SyncInv, Shape
<1>5. ReadsTrue'
  BY <1>3 DEF Expire, SyncInv, ReadsTrue, InScope
<1>6. Present' = Present
  BY DEF Present, Current, Expire
<1>7. ASSUME overtaken = {} PROVE AllCovered'
  BY <1>2, <1>6, <1>7, TrustKept DEF Expire, SyncInv
<1>8. Discovered'
  BY DEF Expire, Free, SyncInv, Discovered, Shape
<1>9. ASSUME overtaken = {} PROVE SnapshotSound'
  <2> SUFFICES ASSUME NEW v \in Viewer, IsId(snap'[v]), "inbox" \notin todo[v], ~spoiled[v],
                      NEW m \in Msg \ snap'[v], InScope(m)
               PROVE  m \in active[v] /\ Current(m)'
    BY DEF SnapshotSound, InScope, Expire
  <2>1. snap'[v] = snap[v]
    BY <1>1 DEF IsId
  <2> QED BY <1>9, <2>1 DEF SyncInv, SnapshotSound, Expire, Free, Current
<1> QED BY <1>3, <1>4, <1>5, <1>7, <1>8, <1>9 DEF Preserved, Loose, Sound, Expire

\* A step of a command that leaves mailbox, cache and snapshots alone.
LEMMA Quiet ==
  ASSUME SyncInv, UNCHANGED <<mail, row, done, snap, active, todo, spoiled, overtaken, unverified>>,
         Held' \subseteq Held \cup {Fresh, NoMarker, Expired},
         Trusted' \subseteq Trusted \cup {NoMarker, Expired}
  PROVE  /\ Chain' /\ Present' = Present
         /\ overtaken = {} => AllCovered'
         /\ overtaken = {} /\ job # "page" => SnapshotSound'
<1>1. Chain'
  BY ChainKept DEF SyncInv
<1>2. Present' = Present
  BY DEF Present, Current
<1>3. ASSUME overtaken = {} PROVE AllCovered'
  BY <1>2, <1>3, TrustKept DEF SyncInv
<1>4. ASSUME overtaken = {}, job # "page" PROVE SnapshotSound'
  BY <1>2, <1>4, SnapshotKept DEF SyncInv
<1> QED BY <1>1, <1>2, <1>3, <1>4

\* The cleanup run.
LEMMA LoadPreserves ==
  ASSUME SyncInv, NEW p \in Proc, LoadAccount(p) \/ GiveUp(p)
  PROVE  Preserved
<1> USE DEF store, scratch, loader, observe
<1>1. base'[p] \in {marker, NoMarker} /\ \A q \in Proc \ {p} : base'[q] = base[q]
  BY DEF LoadAccount, GiveUp, SyncInv, TypeOK
<1>2. UNCHANGED <<mail, store, scratch, loader, observe>>
  BY DEF LoadAccount, GiveUp
<1>3. Held' \subseteq Held \cup {NoMarker} /\ Trusted' \subseteq Trusted \cup {NoMarker}
  BY <1>1, <1>2 DEF Held, Trusted
<1>4. Chain' /\ (overtaken = {} => AllCovered') /\ Reported \subseteq Reported'
  BY <1>2, <1>3, Quiet, HeldShrinks
<1>5. Shape' /\ ReadsTrue'
  BY <1>2, <1>4 DEF SyncInv, Shape, ReadsTrue, InScope
<1>6. ASSUME overtaken = {} PROVE Discovered'
  BY <1>2, <1>4, <1>6 DEF SyncInv, Discovered, InScope, Current
<1>7. ASSUME overtaken = {} PROVE SnapshotSound'
  BY <1>2, <1>7 DEF SyncInv, SnapshotSound, InScope, Current
<1> QED BY <1>2, <1>4, <1>5, <1>6, <1>7 DEF Preserved, Loose, Sound

LEMMA BeginPreserves ==
  ASSUME SyncInv, (\E p \in Proc : LockForWork(p)) \/ RunInSession
  PROVE  Preserved
<1> USE DEF store, loads, scratch, loader, observe
<1>1. /\ Free /\ job' = "work" /\ phase' = "plan"
      /\ UNCHANGED <<mail, store, mode, fence, queue, erased, got, lost, cut,
                     acts, hit, loader, observe>>
      /\ start' \in Trusted /\ \A p \in Proc : base'[p] \in {base[p], NoMarker}
  BY DEF LockForWork, RunInSession, Trusted, SyncInv, TypeOK
<1>2. Held' \subseteq Held \cup {NoMarker} /\ Trusted' \subseteq Trusted \cup {NoMarker}
  BY <1>1 DEF Held, Trusted
<1>3. /\ Chain' /\ Reported \subseteq Reported'
      /\ overtaken = {} => AllCovered' /\ SnapshotSound'
  BY <1>1, <1>2, Quiet, HeldShrinks DEF Free
<1>4. Shape' /\ ReadsTrue'
  BY <1>1, <1>3 DEF SyncInv, Shape, ReadsTrue, InScope, Free
<1>5. Discovered'
  BY <1>1 DEF Discovered
<1> QED BY <1>1, <1>3, <1>4, <1>5 DEF Preserved, Loose, Sound

LEMMA DiscoverPreserves ==
  ASSUME SyncInv, DiscoverCached \/ DiscoverHistory \/ ReadProfile
  PROVE  Preserved
<1> USE DEF store, loads, scratch, loader, observe
<1>1. /\ job = "work" /\ phase = "plan" /\ fence' \in {start, Fresh}
      /\ job' = "work" /\ phase' \in {"fetch", "list"}
      /\ UNCHANGED <<mail, store, loads, got, lost, start, acts, hit, loader, observe>>
  BY DEF DiscoverCached, DiscoverHistory, ReadProfile
<1>2. /\ Held' \subseteq Held \cup {Fresh}
      /\ Trusted' = Trusted
      /\ got = NothingFetched /\ hit = {} /\ acts = {}
  BY <1>1 DEF Held, Trusted, SyncInv, Shape
<1>3. Chain' /\ (overtaken = {} => AllCovered' /\ SnapshotSound')
  BY <1>1, <1>2, Quiet
<1>4. Shape'
  BY <1>1, <1>2 DEF SyncInv, Shape, DiscoverCached, DiscoverHistory, ReadProfile, TypeOK
<1>5. ReadsTrue'
  BY <1>1, <1>2 DEF SyncInv, ReadsTrue, DiscoverCached, DiscoverHistory, ReadProfile,
                    DeletedSince, NothingFetched
<1>6. ASSUME overtaken = {} PROVE Discovered'
  <2>1. CASE DiscoverCached
    BY <1>1, <1>2, <1>6, <2>1
    DEF SyncInv, Discovered, DiscoverCached, Select, Backlog, AllCovered, Covered, Current, InScope,
        Reported, Has
  <2>2. CASE DiscoverHistory
    BY <1>1, <1>6, <2>2
    DEF SyncInv, Discovered, DiscoverHistory, Select, AllCovered, Covered, Current, InScope,
        ChangedSince, DeletedSince, StoredLabels, InboxLabels
  <2>3. CASE ReadProfile
    BY <2>3 DEF ReadProfile, Discovered
  <2> QED BY <2>1, <2>2, <2>3
<1> QED BY <1>1, <1>3, <1>4, <1>5, <1>6 DEF Preserved, Loose, Sound

LEMMA ListPreserves ==
  ASSUME SyncInv, ListInbox
  PROVE  Preserved
<1> USE DEF store, loads, scratch, loader, observe, ListInbox
<1>1. Held' = Held /\ Trusted' = Trusted
  BY DEF Held, Trusted
<1>2. /\ Chain' /\ Reported \subseteq Reported'
      /\ overtaken = {} => AllCovered' /\ SnapshotSound'
  BY <1>1, Quiet, HeldShrinks
<1>3. Shape' /\ ReadsTrue'
  BY <1>2 DEF SyncInv, Shape, ReadsTrue, InScope
<1>4. Discovered'
  BY DEF Discovered, Select, InFolder, InScope
<1> QED BY <1>2, <1>3, <1>4 DEF Preserved, Loose, Sound

LEMMA FetchPreserves ==
  ASSUME SyncInv, NEW m \in Msg,
         (\E ok \in BOOLEAN : Fetch(m, ok)) \/ FetchGone(m) \/ FetchFails(m)
  PROVE  Preserved
<1> USE DEF store, loads, scratch, loader
<1>1. /\ phase = "fetch" /\ m \in queue /\ queue' = queue \ {m}
      /\ UNCHANGED <<mail, store, loads, job, viewer, phase, mode, start, fence,
                     erased, cut, acts, hit, loader, overtaken, unverified>>
      /\ \/ got' = [got EXCEPT ![m] = mail[m]] /\ mail[m] \in StoredLabels /\ lost' = lost
         \/ got' = [got EXCEPT ![m] = "gone"] /\ mail[m] = "gone" /\ lost' = lost
         \/ got' = got /\ lost' = TRUE
  BY DEF Fetch, FetchGone, FetchFails, observe
<1>2. \A k \in Msg \ {m} : (k \in queue' <=> k \in queue) /\ got'[k] = got[k]
  BY <1>1 DEF SyncInv, TypeOK
<1>3. \/ got'[m] = mail[m] /\ got'[m] # "none" /\ lost' = lost
      \/ got'[m] = got[m] /\ lost'
  BY <1>1 DEF SyncInv, TypeOK, StoredLabels, InboxLabels
<1>4. Held' = Held /\ Trusted' = Trusted
  BY <1>1 DEF Held, Trusted
<1>5. /\ Chain' /\ Reported \subseteq Reported'
      /\ overtaken = {} => AllCovered'
      /\ overtaken = {} /\ job # "page" => SnapshotSound'
  BY <1>1, <1>4, Quiet, HeldShrinks
<1>6. Shape'
  BY <1>1 DEF SyncInv, Shape
<1>7. ReadsTrue'
  <2> SUFFICES ASSUME NEW k \in Msg
               PROVE  got'[k] # "none" /\ got'[k] # mail[k] => k \in Reported'
    BY <1>1, <1>5 DEF SyncInv, ReadsTrue, InScope
  <2> QED BY <1>2, <1>3, <1>5 DEF SyncInv, ReadsTrue
<1>8. ASSUME overtaken = {} PROVE Discovered'
  <2> SUFFICES ASSUME job \in {"work", "cache", "refresh"}, ~lost', ~cut, IsId(fence),
                      NEW k \in Msg, InScope(k), k \notin queue', got'[k] = "none"
               PROVE  \/ k \in Reported'
                      \/ /\ job = "refresh" \/ mode \in {"history", "cacheFirst"}
                         /\ k \in fence \/ Current(k)
    BY <1>1 DEF Discovered, InScope, Current
  <2>1. k # m /\ ~lost
    BY <1>3, <1>1
  <2> QED BY <1>1, <1>2, <1>5, <1>8, <2>1 DEF SyncInv, Discovered
<1>9. ASSUME overtaken = {} PROVE SnapshotSound'
  BY <1>1, <1>2, <1>3, <1>9 DEF SyncInv, SnapshotSound, InScope, Current
<1> QED BY <1>1, <1>5, <1>6, <1>7, <1>8, <1>9 DEF Preserved, Loose, Sound

LEMMA ApplyPreserves ==
  ASSUME SyncInv, PlanActions \/ StartApplying \/ RecordResults
  PROVE  Preserved
<1> USE DEF loads, loader, observe
<1>1. /\ job = "work" /\ job' = "work" /\ queue = {} /\ phase' \in {"planned", "apply", "record"}
      /\ phase \in {"fetch", "planned", "apply"}
      /\ UNCHANGED <<mail, row, done, marker, viewMarker, loads, viewer, mode, start, fence,
                     queue, erased, got, lost, cut, hit, loader, overtaken, unverified>>
  BY DEF PlanActions, StartApplying, RecordResults, SyncInv, Shape
<1>2. Held' = Held /\ Trusted' = Trusted
  BY <1>1 DEF Held, Trusted
<1>3. /\ Chain' /\ Reported \subseteq Reported'
      /\ overtaken = {} => AllCovered' /\ SnapshotSound'
  BY <1>1, <1>2, Quiet, HeldShrinks
<1>4. Shape' /\ ReadsTrue'
  BY <1>1, <1>3 DEF SyncInv, Shape, ReadsTrue, InScope
<1>5. ASSUME overtaken = {} PROVE Discovered'
  BY <1>1, <1>3, <1>5 DEF SyncInv, Discovered, InScope, Current
<1> QED BY <1>1, <1>3, <1>4, <1>5 DEF Preserved, Loose, Sound

LEMMA MutatePreserves ==
  ASSUME SyncInv, NEW m \in Msg, Mutate(m)
  PROVE  Preserved
<1> USE DEF Mutate, observe
<1>1. /\ phase = "apply" /\ mail[m] \in StoredLabels
      /\ mail' = [mail EXCEPT ![m] = "filed"] /\ hit' = hit \cup {m}
      /\ UNCHANGED <<row, done, active, job, viewer, phase, mode, queue, erased,
                     got, lost, cut, acts, todo, spoiled, overtaken>>
  OBVIOUS
<1>2. CASE mail[m] # "filed"
  <2>1. Shape'
    BY <1>1, <1>2, ShapeChanged DEF SyncInv
  <2>2. /\ mail' \in [Msg -> Mail] /\ mail[m] # "gone"
        /\ \A k \in Msg \ {m} : mail'[k] = mail[k] /\ (k \in hit' <=> k \in hit)
    BY <1>1 DEF SyncInv, TypeOK, Mail, StoredLabels, InboxLabels
  <2>3. ReadsTrue' /\ Chain' /\ (overtaken' = {} => Sound')
    BY <1>1, <1>2, <2>2, SyncParts, MailChanged
  <2> QED BY <2>1, <2>3 DEF Preserved, Loose
<1>3. CASE mail[m] = "filed"
  <2>1. UNCHANGED <<mail, marker, viewMarker, base, start, fence, snap, unverified>>
    BY <1>3 DEF Unnoticed, SyncInv, TypeOK
  <2>2. Held' = Held /\ Trusted' = Trusted /\ job = "work"
    BY <1>1, <2>1 DEF Held, Trusted, SyncInv, Shape
  <2>3. /\ Chain' /\ Reported \subseteq Reported'
        /\ overtaken = {} => AllCovered' /\ SnapshotSound'
    BY <1>1, <2>1, <2>2, Quiet, HeldShrinks
  <2>4. Shape'
    BY <1>1, <2>1 DEF SyncInv, Shape
  <2>5. ReadsTrue'
    BY <1>1, <1>3, <2>1, <2>3 DEF SyncInv, ReadsTrue, InScope, InboxLabels
  <2>6. ASSUME overtaken = {} PROVE Discovered'
    BY <1>1, <2>1, <2>3, <2>6 DEF SyncInv, Discovered, InScope, Current
  <2> QED BY <1>1, <2>3, <2>4, <2>5, <2>6 DEF Preserved, Loose, Sound
<1> QED BY <1>2, <1>3

\* What a command writes of its reads is current, unless the message changed
\* since it was read.
LEMMA ProjectWrites ==
  ASSUME TypeOK, ReadsTrue, mail' = mail, NEW scope \in {InboxLabels, StoredLabels},
         Project(scope), NEW m \in Scope \ Reported, m \in Present \/ got[m] # "none"
  PROVE  m \in Present'
<1>1. /\ m \in Msg /\ mail[m] \in InboxLabels /\ m \notin erased
      /\ got[m] = "none" \/ got[m] = mail[m]
  BY DEF Scope, InScope, ReadsTrue, InboxLabels
<1>2. mail[m] \in scope /\ mail[m] # "none"
  BY <1>1 DEF StoredLabels, InboxLabels
<1>3. CASE got[m] = "none"
  <2>1. row'[m] = row[m] /\ (m \in done' => m \in done) /\ (m \in unverified => m \in unverified')
    BY <1>1, <1>3 DEF Project, InboxLabels, StoredLabels
  <2> QED BY <1>1, <1>3, <2>1 DEF Present, Current
<1>4. CASE got[m] = mail[m]
  <2>1. row'[m] = mail[m]
    BY <1>1, <1>2, <1>4 DEF Project
  <2> QED BY <1>1, <2>1 DEF Present, Current
<1> QED BY <1>1, <1>3, <1>4

LEMMA CheckpointWrites ==
  ASSUME TypeOK, ReadsTrue, Checkpoint, NEW m \in Scope \ Reported,
         m \in Present \/ got[m] # "none"
  PROVE  m \in Present'
<1>1. /\ m \in Msg /\ mail[m] \in InboxLabels /\ m \notin erased /\ m \notin hit
      /\ got[m] = "none" \/ got[m] = mail[m]
  BY DEF Scope, InScope, ReadsTrue, InboxLabels
<1>2. CASE got[m] = "none"
  <2>1. /\ row'[m] = row[m] /\ (m \in done' => m \in done) /\ mail' = mail
        /\ m \in unverified => m \in unverified'
    BY <1>1, <1>2 DEF Checkpoint, InboxLabels
  <2> QED BY <1>1, <1>2, <2>1 DEF Present, Current
<1>3. CASE got[m] = mail[m]
  <2>1. row'[m] = mail[m] /\ mail' = mail
    BY <1>1, <1>3 DEF Checkpoint, InboxLabels
  <2> QED BY <1>1, <2>1 DEF Present, Current
<1> QED BY <1>1, <1>2, <1>3

\* A command that completed may certify its fence.
LEMMA Certified ==
  ASSUME AllCovered, Discovered, queue = {}, ~lost, ~cut,
         job \in {"work", "cache", "refresh"},
         phase \in {"fetch", "planned", "apply", "record"}, mail' = mail,
         \A m \in Scope \ Reported : (m \in Present \/ got[m] # "none") => m \in Present',
         Trusted' \subseteq Trusted \cup {fence, NoMarker}
  PROVE  AllCovered'
<1>1. ASSUME NEW m \in Msg, NEW x \in Trusted', IsId(x), InScope(m), m \notin Present'
      PROVE  m \in x
  <2>1. m \in Scope
    BY <1>1 DEF Scope
  <2>2. CASE m \in Reported
    BY <1>1, <2>2, Reports DEF Trusted, Held, Has, IsId
  <2>3. CASE m \notin Reported /\ x \in Trusted
    BY <1>1, <2>1, <2>3, Coverage
  <2>4. CASE m \notin Reported /\ x = fence
    <3>1. got[m] = "none" /\ m \notin Present
      BY <1>1, <2>1, <2>4
    <3>2. ~Current(m)
      BY <3>1, <1>1 DEF Present
    <3> QED BY <1>1, <2>4, <3>1, <3>2 DEF Discovered
  <2> QED BY <1>1, <2>2, <2>3, <2>4 DEF IsId
<1>2. ASSUME NEW m \in Msg, NEW x \in Trusted', IsId(x), mail'[m] \in InboxLabels
      PROVE  m \in x \/ Current(m)'
  BY <1>1, <1>2 DEF InScope, Present
<1> QED BY <1>2 DEF AllCovered, Covered, Trusted

LEMMA CheckpointPreserves ==
  ASSUME SyncInv, Checkpoint
  PROVE  Preserved
<1> USE DEF loads, loader, observe
<1>1. /\ job = "work" /\ phase = "record" /\ queue = {}
      /\ job' = "none" /\ phase' = "none" /\ mode' = "none"
      /\ start' = NoMarker /\ fence' = NoMarker /\ queue' = {} /\ erased' = {}
      /\ got' = NothingFetched /\ ~lost' /\ ~cut' /\ acts' = {} /\ hit' = {}
      /\ UNCHANGED <<mail, viewMarker, loads, loader, overtaken>>
  BY DEF Checkpoint, Release, SyncInv, Shape
<1>2. \/ marker' \in {marker, start}
      \/ marker' = fence /\ ~lost /\ ~cut
  BY DEF Checkpoint, NewMarker
<1>3. Held' \subseteq Held \cup {NoMarker}
  BY <1>1, <1>2 DEF Held
<1>4. Chain'
  BY <1>3, HeldShrinks DEF SyncInv
<1>5. Shape' /\ ReadsTrue' /\ Discovered'
  BY <1>1 DEF Shape, ReadsTrue, Discovered, NothingFetched
<1>6. \A m \in Scope \ Reported : (m \in Present \/ got[m] # "none") => m \in Present'
  BY CheckpointWrites DEF SyncInv
<1>7. ASSUME overtaken = {} PROVE AllCovered'
  <2>1. CASE marker' \in {marker, start}
    <3>1. Trusted' \subseteq Trusted \cup {NoMarker}
      BY <1>1, <2>1 DEF Trusted
    <3> QED BY <1>1, <1>6, <1>7, <3>1, TrustKept DEF SyncInv
  <2>2. CASE marker' = fence /\ ~lost /\ ~cut
    <3>1. Trusted' \subseteq Trusted \cup {fence, NoMarker}
      BY <1>1, <2>2 DEF Trusted
    <3> QED BY <1>1, <1>6, <1>7, <2>2, <3>1, Certified DEF SyncInv
  <2> QED BY <1>2, <2>1, <2>2
<1>8. ASSUME overtaken = {} PROVE SnapshotSound'
  BY <1>1, <1>6, <1>8, SnapshotKept DEF SyncInv
<1> QED BY <1>1, <1>4, <1>5, <1>7, <1>8 DEF Preserved, Loose, Sound

\* `gmail cache` and `gmail uncache`.
LEMMA StartReadPreserves ==
  ASSUME SyncInv, LockForCache \/ \E v \in Viewer : StartRefresh(v)
  PROVE  Preserved
<1> USE DEF store, loads, scratch, loader, observe
<1>1. /\ Free /\ job' \in {"cache", "refresh"} /\ fence' = Fresh
      /\ job' = "cache" => phase' = "list" /\ queue' = queue
      /\ job' = "refresh" => phase' = "fetch"
      /\ UNCHANGED <<mail, store, loads, mode, start, got, lost, cut, acts, hit,
                     loader, overtaken, unverified>>
  BY DEF LockForCache, StartRefresh
<1>2. /\ Held' \subseteq Held \cup {Fresh} /\ Trusted' = Trusted
      /\ got = NothingFetched /\ hit = {}
  BY <1>1 DEF Held, Trusted, SyncInv, Shape, Free
<1>3. Chain' /\ (overtaken = {} => AllCovered' /\ SnapshotSound')
  BY <1>1, <1>2, Quiet DEF Free
<1>4. Shape'
  BY <1>1, <1>2, Ids DEF SyncInv, Shape, Free
<1>5. ReadsTrue'
  BY <1>1, <1>2 DEF SyncInv, ReadsTrue, LockForCache, StartRefresh, DeletedSince, NothingFetched
<1>6. ASSUME overtaken = {} PROVE Discovered'
  <2>1. CASE LockForCache
    BY <2>1 DEF LockForCache, Discovered
  <2>2. ASSUME NEW v \in Viewer, StartRefresh(v) PROVE Discovered'
    BY <1>1, <1>6, <2>2
    DEF SyncInv, Discovered, StartRefresh, AllCovered, Covered, Current, InScope,
        ChangedSince, StoredLabels
  <2> QED BY <2>1, <2>2
<1> QED BY <1>1, <1>3, <1>4, <1>5, <1>6 DEF Preserved, Loose, Sound

LEMMA FlushPreserves ==
  ASSUME SyncInv, Flush
  PROVE  Preserved
<1> USE DEF loads, scratch, loader, observe, Flush
<1>1. Held' = Held /\ Trusted' = Trusted
  BY DEF Held, Trusted
<1>2. Chain' /\ Reported \subseteq Reported'
  BY <1>1, HeldShrinks DEF SyncInv
<1>3. Shape' /\ ReadsTrue'
  BY <1>2 DEF SyncInv, Shape, ReadsTrue, InScope
<1>4. \A m \in Scope \ Reported : (m \in Present \/ got[m] # "none") => m \in Present'
  BY ProjectWrites DEF SyncInv
<1>5. ASSUME overtaken = {} PROVE AllCovered' /\ SnapshotSound'
  BY <1>1, <1>4, <1>5, TrustKept, SnapshotKept DEF SyncInv
<1>6. ASSUME overtaken = {} PROVE Discovered'
  <2>1. mode = "none"
    BY DEF SyncInv, Shape
  <2> QED BY <1>2, <1>6, <2>1 DEF SyncInv, Discovered, InScope
<1> QED BY <1>2, <1>3, <1>5, <1>6 DEF Preserved, Loose, Sound

LEMMA FlushFailsPreserves ==
  ASSUME SyncInv, FlushFails
  PROVE  Preserved
<1> USE DEF store, loads, loader, FlushFails
<1>1. Held' = Held /\ Trusted' = Trusted
  BY DEF Held, Trusted
<1>2. /\ Chain' /\ Reported \subseteq Reported'
      /\ overtaken = {} => AllCovered' /\ SnapshotSound'
  BY <1>1, Quiet, HeldShrinks
<1>3. Shape' /\ ReadsTrue' /\ Discovered'
  BY <1>2 DEF SyncInv, Shape, ReadsTrue, Discovered, InScope, NothingFetched
<1> QED BY <1>2, <1>3 DEF Preserved, Loose, Sound

LEMMA FinishCachePreserves ==
  ASSUME SyncInv, FinishCache
  PROVE  Preserved
<1> USE DEF loads, loader, observe
<1>1. /\ job = "cache" /\ phase = "fetch" /\ queue = {} /\ Flushed
      /\ job' = "none" /\ phase' = "none" /\ mode' = "none"
      /\ start' = NoMarker /\ fence' = NoMarker /\ queue' = {} /\ erased' = {}
      /\ got' = NothingFetched /\ ~lost' /\ ~cut' /\ acts' = {} /\ hit' = {}
      /\ UNCHANGED <<mail, viewMarker, loads, loader, overtaken, unverified>>
  BY DEF FinishCache, Release
<1>2. \/ marker' = fence /\ ~lost /\ ~cut
      \/ UNCHANGED <<marker, row, done>>
  BY DEF FinishCache
<1>3. Held' \subseteq Held \cup {NoMarker}
  BY <1>1, <1>2 DEF Held
<1>4. Chain'
  BY <1>3, HeldShrinks DEF SyncInv
<1>5. Shape' /\ ReadsTrue' /\ Discovered'
  BY <1>1 DEF Shape, ReadsTrue, Discovered, NothingFetched
<1>6. CASE UNCHANGED <<marker, row, done>>
  <2>1. Trusted' \subseteq Trusted \cup {NoMarker} /\ Present' = Present
    BY <1>1, <1>6 DEF Trusted, Present, Current
  <2>2. ASSUME overtaken = {} PROVE AllCovered' /\ SnapshotSound'
    BY <1>1, <2>1, <2>2, TrustKept, SnapshotKept DEF SyncInv
  <2> QED BY <1>1, <1>4, <1>5, <2>2 DEF Preserved, Loose, Sound
<1>7. CASE marker' = fence /\ ~lost /\ ~cut
  <2>1. ASSUME overtaken = {}, NEW m \in Scope \ Reported PROVE m \in Present'
    <3>1. m \in Msg /\ InScope(m)
      BY DEF Scope
    <3>2. CASE got[m] = "none"
      <4>1. mode = "none" /\ IsId(fence)
        BY <1>1 DEF SyncInv, Shape
      <4> QED BY <1>1, <1>7, <2>1, <3>1, <3>2, <4>1 DEF SyncInv, Discovered
    <3>3. CASE got[m] # "none"
      <4>1. got[m] = mail[m] /\ row[m] = mail[m]
        BY <1>1, <2>1, <3>1, <3>3 DEF SyncInv, ReadsTrue, Flushed, InScope
      <4>2. row'[m] = row[m] /\ mail' = mail
        BY <1>7, <3>1, <3>3, <4>1 DEF FinishCache, SyncInv, TypeOK
      <4> QED BY <3>1, <4>1, <4>2 DEF Present, Current, InScope
    <3> QED BY <3>2, <3>3
  <2>2. Trusted' \subseteq Trusted \cup {fence, NoMarker}
    BY <1>1, <1>7 DEF Trusted
  <2>3. ASSUME overtaken = {} PROVE AllCovered' /\ SnapshotSound'
    BY <1>1, <1>7, <2>1, <2>2, <2>3, Certified, SnapshotKept DEF SyncInv
  <2> QED BY <1>1, <1>4, <1>5, <2>3 DEF Preserved, Loose, Sound
<1> QED BY <1>2, <1>6, <1>7

LEMMA UncachePreserves ==
  ASSUME SyncInv, Uncache
  PROVE  Preserved
<1> USE DEF loads, scratch, loader
<1>1. /\ Free /\ marker' = NoMarker /\ viewMarker' = NoMarker
      /\ UNCHANGED <<mail, loads, scratch, loader>>
  BY DEF Uncache
<1>2. Held' \subseteq Held \cup {NoMarker}
  BY <1>1 DEF Held
<1>3. Chain' /\ Reported \subseteq Reported'
  BY <1>2, HeldShrinks DEF SyncInv
<1>4. Shape' /\ ReadsTrue' /\ Discovered'
  BY <1>1, <1>3 DEF SyncInv, Shape, ReadsTrue, Discovered, InScope, Free
<1>5. ASSUME overtaken' = {} PROVE AllCovered' /\ SnapshotSound'
  <2>1. /\ start' = NoMarker
        /\ \A p \in Proc : base'[p] = NoMarker
        /\ \A v \in Viewer : snap'[v] = NoMarker
    BY <1>1, <1>5 DEF Uncache, SyncInv, Shape, Free
  <2> QED BY <1>1, <2>1 DEF AllCovered, SnapshotSound, Covered, IsId
<1> QED BY <1>3, <1>4, <1>5 DEF Preserved, Loose, Sound

\* The view session.
LEMMA StartSnapshotPreserves ==
  ASSUME SyncInv, NEW v \in Viewer, StartSnapshot(v)
  PROVE  Preserved
<1> USE DEF loads, scratch, observe
<1>1. /\ Free /\ got = NothingFetched /\ hit = {} /\ fence = NoMarker
      /\ snap' = [snap EXCEPT ![v] = Fresh] /\ "inbox" \in todo'[v]
      /\ \A w \in Viewer \ {v} : /\ snap'[w] = snap[w] /\ todo'[w] = todo[w]
                                 /\ active'[w] = active[w] /\ spoiled'[w] = spoiled[w]
      /\ UNCHANGED <<mail, row, done, marker, viewMarker, loads, scratch, overtaken, unverified>>
  BY DEF StartSnapshot, Folders, SyncInv, TypeOK, Shape, Free
<1>2. Held' \subseteq Held \cup {Fresh} /\ Trusted' = Trusted
  BY <1>1 DEF Held, Trusted, SyncInv, TypeOK
<1>3. Chain'
  BY <1>2, ChainKept DEF SyncInv
<1>4. Shape' /\ ReadsTrue' /\ Discovered'
  BY <1>1 DEF SyncInv, Shape, ReadsTrue, Discovered, NothingFetched, Free, InScope
<1>5. Present' = Present
  BY <1>1 DEF Present, Current
<1>6. ASSUME overtaken = {} PROVE AllCovered'
  BY <1>1, <1>2, <1>5, <1>6, TrustKept DEF SyncInv
<1>7. ASSUME overtaken = {} PROVE SnapshotSound'
  BY <1>1, <1>7 DEF SyncInv, SnapshotSound, InScope, Current
<1> QED BY <1>1, <1>3, <1>4, <1>6, <1>7 DEF Preserved, Loose, Sound

LEMMA ListPagePreserves ==
  ASSUME SyncInv, NEW v \in Viewer, NEW f \in Folders, ListPage(v, f)
  PROVE  Preserved
<1> USE DEF store, loads, observe
<1>1. /\ Free /\ got = NothingFetched /\ hit = {} /\ fence = NoMarker /\ start = NoMarker
      /\ job' = "page" /\ viewer' = v /\ phase' = "fetch" /\ queue' = InFolder(f)
      /\ todo' = [todo EXCEPT ![v] = @ \ {f}]
      /\ UNCHANGED <<mail, store, loads, mode, start, fence, erased, got, lost, cut, acts,
                     hit, snap, active, spoiled, overtaken, unverified>>
  BY DEF ListPage, SyncInv, Shape, Free
<1>2. Held' = Held /\ Trusted' = Trusted
  BY <1>1 DEF Held, Trusted
<1>3. Chain' /\ Reported \subseteq Reported'
  BY <1>2, HeldShrinks DEF SyncInv
<1>4. Shape' /\ ReadsTrue' /\ Discovered'
  BY <1>1, <1>3 DEF SyncInv, Shape, ReadsTrue, Discovered, NothingFetched, Free, InScope
<1>5. Present' = Present
  BY <1>1 DEF Present, Current
<1>6. ASSUME overtaken = {} PROVE AllCovered'
  BY <1>1, <1>2, <1>5, <1>6, TrustKept DEF SyncInv
<1>7. ASSUME overtaken = {} PROVE SnapshotSound'
  <2> SUFFICES ASSUME NEW w \in Viewer, IsId(snap[w]), "inbox" \notin todo'[w], ~spoiled[w],
                      NEW m \in Msg \ snap[w], InScope(m)
               PROVE  \/ m \in active[w] /\ Current(m)
                      \/ viewer' = w /\ m \in queue'
    BY <1>1 DEF SnapshotSound, InScope, Current
  <2>1. CASE "inbox" \notin todo[w]
    BY <1>1, <1>7, <2>1 DEF SyncInv, SnapshotSound, Free
  <2>2. CASE "inbox" \in todo[w]
    BY <1>1, <2>2 DEF SyncInv, TypeOK, InFolder, InScope
  <2> QED BY <2>1, <2>2
<1> QED BY <1>1, <1>3, <1>4, <1>6, <1>7 DEF Preserved, Loose, Sound

LEMMA FinishPagePreserves ==
  ASSUME SyncInv, FinishPage
  PROVE  Preserved
<1> USE DEF loads, observe
<1>1. /\ job = "page" /\ queue = {} /\ Project(StoredLabels)
      /\ job' = "none" /\ phase' = "none" /\ mode' = "none"
      /\ start' = NoMarker /\ fence' = NoMarker /\ queue' = {} /\ erased' = {}
      /\ got' = NothingFetched /\ ~lost' /\ ~cut' /\ acts' = {} /\ hit' = {}
      /\ UNCHANGED <<mail, marker, viewMarker, loads, snap, todo, overtaken>>
  BY DEF FinishPage, Release
<1>2. Held' \subseteq Held \cup {NoMarker} /\ Trusted' \subseteq Trusted \cup {NoMarker}
  BY <1>1 DEF Held, Trusted
<1>3. Chain' /\ Reported \subseteq Reported'
  BY <1>2, HeldShrinks DEF SyncInv
<1>4. Shape' /\ ReadsTrue' /\ Discovered'
  BY <1>1 DEF Shape, ReadsTrue, Discovered, NothingFetched
<1>5. \A m \in Scope \ Reported : (m \in Present \/ got[m] # "none") => m \in Present'
  BY <1>1, ProjectWrites DEF SyncInv
<1>6. ASSUME overtaken = {} PROVE AllCovered'
  BY <1>1, <1>2, <1>5, <1>6, TrustKept DEF SyncInv
<1>7. ASSUME overtaken = {} PROVE SnapshotSound'
  <2> SUFFICES ASSUME NEW v \in Viewer, IsId(snap[v]), "inbox" \notin todo[v], ~spoiled'[v],
                      NEW m \in Msg \ snap[v], InScope(m)
               PROVE  m \in active'[v] /\ m \in Present'
    BY <1>1 DEF SnapshotSound, InScope, Present
  <2>1. m \in Scope \ Reported
    BY DEF Scope, Reported, Has
  <2>2. /\ ~spoiled[v] /\ active[v] \subseteq active'[v]
        /\ viewer = v => ~lost /\ \A k \in Msg : got[k] \in StoredLabels => k \in active'[v]
    BY DEF FinishPage, SyncInv, TypeOK
  <2>3. \/ m \in active[v] /\ Current(m)
        \/ viewer = v /\ got[m] = mail[m]
    BY <1>1, <1>7, <2>2 DEF SyncInv, SnapshotSound
  <2> QED BY <1>5, <2>1, <2>2, <2>3 DEF Present, InScope, StoredLabels, InboxLabels
<1> QED BY <1>1, <1>3, <1>4, <1>6, <1>7 DEF Preserved, Loose, Sound

LEMMA FinishRefreshPreserves ==
  ASSUME SyncInv, FinishRefresh
  PROVE  Preserved
<1> USE DEF loads, loader, observe
<1>1. /\ job = "refresh" /\ phase = "fetch" /\ queue = {} /\ ~cut /\ Project(StoredLabels)
      /\ job' = "none" /\ phase' = "none" /\ mode' = "none"
      /\ start' = NoMarker /\ fence' = NoMarker /\ queue' = {} /\ erased' = {}
      /\ got' = NothingFetched /\ ~lost' /\ ~cut' /\ acts' = {} /\ hit' = {}
      /\ UNCHANGED <<mail, loads, loader, overtaken>>
  BY DEF FinishRefresh, Release, SyncInv, Shape
<1>2. \/ UNCHANGED <<marker, viewMarker>>
      \/ ~lost /\ viewMarker' = fence /\ marker' \in {marker, fence}
  BY DEF FinishRefresh
<1>3. Held' \subseteq Held \cup {NoMarker}
  BY <1>1, <1>2 DEF Held
<1>4. Chain'
  BY <1>3, HeldShrinks DEF SyncInv
<1>5. Shape' /\ ReadsTrue' /\ Discovered'
  BY <1>1 DEF Shape, ReadsTrue, Discovered, NothingFetched
<1>6. \A m \in Scope \ Reported : (m \in Present \/ got[m] # "none") => m \in Present'
  BY <1>1, ProjectWrites DEF SyncInv
<1>7. ASSUME overtaken = {} PROVE AllCovered'
  <2>1. CASE UNCHANGED <<marker, viewMarker>>
    <3>1. Trusted' \subseteq Trusted \cup {NoMarker}
      BY <1>1, <2>1 DEF Trusted
    <3> QED BY <1>1, <1>6, <1>7, <3>1, TrustKept DEF SyncInv
  <2>2. CASE ~lost /\ viewMarker' = fence /\ marker' \in {marker, fence}
    <3>1. Trusted' \subseteq Trusted \cup {fence, NoMarker}
      BY <1>1, <2>2 DEF Trusted
    <3> QED BY <1>1, <1>6, <1>7, <2>2, <3>1, Certified DEF SyncInv
  <2> QED BY <1>2, <2>1, <2>2
<1>8. ASSUME overtaken = {} PROVE SnapshotSound'
  BY <1>1, <1>6, <1>8, SnapshotKept DEF SyncInv
<1> QED BY <1>1, <1>4, <1>5, <1>7, <1>8 DEF Preserved, Loose, Sound

LEMMA StopSnapshotPreserves ==
  ASSUME SyncInv, NEW v \in Viewer, StopSnapshot(v) \/ RefreshExpired(v)
  PROVE  Preserved
<1> USE DEF loads, scratch, observe
<1>1. /\ Free /\ viewMarker' \in {viewMarker, NoMarker}
      /\ snap'[v] \in {snap[v], NoMarker}
      /\ snap'[v] = snap[v] => active' = active /\ todo' = todo /\ spoiled' = spoiled
      /\ \A w \in Viewer \ {v} : /\ snap'[w] = snap[w] /\ todo'[w] = todo[w]
                                 /\ active'[w] = active[w] /\ spoiled'[w] = spoiled[w]
      /\ UNCHANGED <<mail, row, done, marker, loads, scratch, overtaken, unverified>>
  BY DEF StopSnapshot, RefreshExpired, loader, SyncInv, TypeOK
<1>2. Held' \subseteq Held \cup {NoMarker} /\ Trusted' \subseteq Trusted \cup {NoMarker}
  BY <1>1 DEF Held, Trusted
<1>3. Chain' /\ Reported \subseteq Reported'
  BY <1>2, HeldShrinks DEF SyncInv
<1>4. Shape' /\ ReadsTrue' /\ Discovered'
  BY <1>1, <1>3 DEF SyncInv, Shape, ReadsTrue, Discovered, Free, InScope
<1>5. Present' = Present
  BY <1>1 DEF Present, Current
<1>6. ASSUME overtaken = {} PROVE AllCovered'
  BY <1>1, <1>2, <1>5, <1>6, TrustKept DEF SyncInv
<1>7. ASSUME overtaken = {} PROVE SnapshotSound'
  BY <1>1, <1>7 DEF SyncInv, SnapshotSound, InScope, Current, IsId
<1> QED BY <1>1, <1>3, <1>4, <1>6, <1>7 DEF Preserved, Loose, Sound

\* Pruning is safe under every id that is not later than the snapshot's: a
\* message it did not verify changed after the snapshot began.
LEMMA FinishSnapshotPreserves ==
  ASSUME SyncInv, NEW v \in Viewer, FinishSnapshot(v)
  PROVE  Preserved
<1> USE DEF loads, scratch
<1>1. /\ Free /\ snap[v] # NoMarker /\ todo[v] = {} /\ snap'[v] = NoMarker
      /\ \A w \in Viewer \ {v} : /\ snap'[w] = snap[w]
                                 /\ active'[w] = active[w] /\ spoiled'[w] = spoiled[w]
      /\ UNCHANGED <<mail, loads, scratch, todo, unverified>>
  BY DEF FinishSnapshot, SyncInv, TypeOK
<1>2. \/ UNCHANGED <<row, done, marker, viewMarker, overtaken>>
      \/ /\ ~spoiled[v] /\ viewMarker' = snap[v] /\ marker' \in {marker, snap[v]}
         /\ overtaken' = {} => \A x \in InUse : ~Later(x, snap[v])
         /\ \A m \in active[v] : row'[m] = row[m] /\ (m \in done' => m \in done)
         /\ overtaken' = {} => overtaken = {}
  BY DEF FinishSnapshot, Superseded, SyncInv, TypeOK
<1>3. /\ Held' \subseteq Held \cup {NoMarker}
      /\ Trusted' \subseteq Trusted \cup {snap[v]} \cup {NoMarker}
  BY <1>1, <1>2 DEF Held, Trusted
<1>4. Chain' /\ Reported \subseteq Reported'
  BY <1>3, HeldShrinks DEF SyncInv
<1>5. Shape' /\ ReadsTrue' /\ Discovered'
  BY <1>1, <1>4 DEF SyncInv, Shape, ReadsTrue, Discovered, Free, InScope
<1>6. CASE UNCHANGED <<row, done, marker, viewMarker, overtaken>>
  <2>1. Present' = Present /\ Trusted' = Trusted
    BY <1>1, <1>6 DEF Present, Current, Trusted
  <2>2. ASSUME overtaken = {} PROVE AllCovered'
    BY <1>1, <2>1, <2>2, TrustKept DEF SyncInv
  <2>3. ASSUME overtaken = {} PROVE SnapshotSound'
    BY <1>1, <1>6, <2>3 DEF SyncInv, SnapshotSound, InScope, Current, IsId, Free
  <2> QED BY <1>4, <1>5, <1>6, <2>2, <2>3 DEF Preserved, Loose, Sound
<1>7. CASE /\ ~spoiled[v] /\ viewMarker' = snap[v] /\ marker' \in {marker, snap[v]}
           /\ overtaken' = {} => \A x \in InUse : ~Later(x, snap[v])
           /\ \A m \in active[v] : row'[m] = row[m] /\ (m \in done' => m \in done)
           /\ overtaken' = {} => overtaken = {}
  <2>1. ASSUME overtaken' = {}, NEW m \in Msg, InScope(m), IsId(snap[v]), m \notin snap[v]
        PROVE  m \in active[v] /\ m \in Present'
    <3>1. m \in active[v] /\ Current(m)
      BY <1>1, <1>7, <2>1 DEF SyncInv, SnapshotSound, Free
    <3> QED BY <1>1, <1>7, <3>1 DEF Present, Current
  <2>2. ASSUME overtaken' = {}, NEW x \in InUse, IsId(x)
        PROVE  IsId(snap[v]) /\ snap[v] \subseteq x
    <3>1. ~Later(x, snap[v])
      BY <1>7, <2>2
    <3>2. IsId(snap[v])
      BY <1>1, <2>2, <3>1 DEF Later, IsId
    <3>3. x \subseteq snap[v] \/ snap[v] \subseteq x
      BY <2>2, <3>2 DEF SyncInv, Chain, Held, InUse
    <3> QED BY <2>2, <3>1, <3>2, <3>3 DEF Later, IsId
  <2>3. ASSUME overtaken' = {}, NEW m \in Msg, NEW x \in Trusted', IsId(x), InScope(m), m \notin x
        PROVE  m \in Present'
    <3>1. x \in InUse \/ x = snap[v]
      BY <1>1, <1>7, <2>3 DEF Trusted, InUse, SyncInv, Shape, Free, IsId
    <3> QED BY <2>1, <2>2, <2>3, <3>1
  <2>4. ASSUME overtaken' = {} PROVE AllCovered'
    <3>1. ASSUME NEW m \in Msg, NEW x \in Trusted', IsId(x), mail'[m] \in InboxLabels
          PROVE  m \in x \/ Current(m)'
      BY <1>1, <2>3, <2>4, <3>1 DEF InScope, Present
    <3> QED BY <3>1 DEF AllCovered, Covered, Trusted
  <2>5. ASSUME overtaken' = {} PROVE SnapshotSound'
    <3> SUFFICES ASSUME NEW w \in Viewer \ {v}, IsId(snap[w]), "inbox" \notin todo[w], ~spoiled[w],
                        NEW m \in Msg \ snap[w], InScope(m)
                 PROVE  m \in active[w] /\ m \in Present'
      BY <1>1 DEF SnapshotSound, InScope, Present, IsId
    <3>1. m \in active[w]
      BY <1>1, <1>7, <2>5 DEF SyncInv, SnapshotSound, Free
    <3>2. m \notin snap[v] /\ IsId(snap[v])
      BY <2>2, <2>5 DEF InUse
    <3> QED BY <2>1, <2>5, <3>1, <3>2
  <2> QED BY <1>4, <1>5, <2>4, <2>5 DEF Preserved, Loose, Sound
<1> QED BY <1>2, <1>6, <1>7

\* A row is rewritten and the mailbox stays as it is.
LEMMA RowPreserves ==
  ASSUME SyncInv, NEW m \in Msg, Free, mail' = mail, Unnoticed,
         \A k \in Msg \ {m} : /\ row'[k] = row[k] /\ (k \in done' <=> k \in done)
                             /\ (k \in unverified' <=> k \in unverified),
         m \in Present \cap Scope => m \in Present',
         \A w \in Viewer : active[w] \subseteq active'[w],
         UNCHANGED <<hit, acts, job, viewer, phase, mode, queue, erased, got,
                     lost, cut, todo, spoiled, overtaken>>
  PROVE  Preserved
<1> USE DEF Unnoticed
<1>1. Held' = Held /\ Trusted' = Trusted
  BY DEF Held, Trusted
<1>2. Chain' /\ Reported \subseteq Reported'
  BY <1>1, HeldShrinks DEF SyncInv
<1>3. Shape' /\ ReadsTrue' /\ Discovered'
  BY <1>2 DEF SyncInv, Shape, ReadsTrue, Discovered, InScope, Free
<1>4. Present \cap Scope \subseteq Present'
  <2> SUFFICES ASSUME NEW k \in Present \cap Scope, k # m PROVE k \in Present'
    OBVIOUS
  <2> QED BY DEF Present, Current
<1>5. ASSUME overtaken = {} PROVE AllCovered'
  BY <1>1, <1>4, <1>5, TrustKept DEF SyncInv
<1>6. ASSUME overtaken = {} PROVE SnapshotSound'
  <2> SUFFICES ASSUME NEW w \in Viewer, IsId(snap[w]), "inbox" \notin todo[w], ~spoiled[w],
                      NEW k \in Msg \ snap[w], InScope(k)
               PROVE  k \in active'[w] /\ k \in Present'
    BY DEF SnapshotSound, InScope, Present
  <2>1. k \in active[w] /\ Current(k)
    BY <1>6 DEF SyncInv, SnapshotSound, Free
  <2> QED BY <1>4, <2>1 DEF Present, Scope
<1> QED BY <1>2, <1>3, <1>5, <1>6 DEF Preserved, Loose, Sound

\* What the row actions have in common: only m is touched,
OnlyFor(m) ==
  /\ Free /\ mail' \in [Msg -> Mail]
  /\ \A k \in Msg \ {m} : /\ mail'[k] = mail[k] /\ row'[k] = row[k]
                          /\ (k \in done' <=> k \in done)
                          /\ (k \in unverified' <=> k \in unverified)
  /\ \A w \in Viewer : /\ active[w] \subseteq active'[w]
                       /\ active'[w] \subseteq active[w] \cup {m}
                       /\ touched'[w] \subseteq touched[w] \cup {m}
  /\ UNCHANGED <<waiting, hit, acts, job, viewer, phase, mode, queue, erased, got,
                 lost, cut, todo, spoiled, overtaken>>

Verbatim(m) == row'[m] = mail[m] /\ mail[m] \in StoredLabels

\* and where Gmail had nothing to change its row is true or not verified.
Reflected(m) ==
  \/ Changed(m) /\ mail[m] \in StoredLabels /\ mail'[m] \in StoredLabels
  \/ /\ mail' = mail /\ Unnoticed /\ mail[m] # "new"
     /\ \/ m \in unverified'
        \/ Verbatim(m)

LEMMA OthersKept ==
  ASSUME TypeOK, NEW m \in Msg, Changed(m) \/ unverified' \in {unverified \ {m}, unverified \cup {m}}
  PROVE  \A k \in Msg \ {m} : k \in unverified' <=> k \in unverified
  BY DEF Changed

LEMMA RewriteSteps ==
  ASSUME TypeOK, NEW v \in Viewer, NEW m \in Msg, NEW l \in StoredLabels,
         NEW w \in StoredLabels, Rewrite(m, l, w), Kept(v, m), done' \in KeepingEvaluation(m)
  PROVE  OnlyFor(m) /\ Reflected(m)
<1>1. /\ Free /\ mail[m] \in StoredLabels /\ mail' = [mail EXCEPT ![m] = l]
      /\ row' = [row EXCEPT ![m] = w] /\ Stamp({m}, {}) /\ (Retain(v, m) \/ UNCHANGED active)
      /\ UNCHANGED <<waiting, job, viewer, phase, mode, queue, erased, got, lost, cut,
                     acts, hit, todo, spoiled, overtaken>>
      /\ \/ Changed(m)
         \/ l = mail[m] /\ Unnoticed /\ unverified' = IF w = l THEN unverified \ {m}
                                                     ELSE unverified \cup {m}
  BY DEF Rewrite, Kept
<1>2. /\ mail' \in [Msg -> Mail] /\ mail'[m] = l /\ row'[m] = w
      /\ \A k \in Msg \ {m} : mail'[k] = mail[k] /\ row'[k] = row[k]
  BY <1>1 DEF TypeOK, Mail
<1>3. \A w2 \in Viewer : /\ active[w2] \subseteq active'[w2]
                         /\ active'[w2] \subseteq active[w2] \cup {m}
                         /\ touched'[w2] \subseteq touched[w2] \cup {m}
  BY <1>1 DEF Stamp, Retain, TypeOK
<1>4. \A k \in Msg \ {m} : k \in unverified' <=> k \in unverified
  BY <1>1, OthersKept
<1>5. \A k \in Msg \ {m} : k \in done' <=> k \in done
  BY DEF KeepingEvaluation
<1>6. OnlyFor(m)
  BY <1>1, <1>2, <1>3, <1>4, <1>5 DEF OnlyFor
<1>7. CASE Changed(m)
  BY <1>1, <1>2, <1>6, <1>7 DEF Reflected
<1>8. CASE ~Changed(m)
  <2>1. mail' = mail /\ mail[m] # "new"
    BY <1>1, <1>8 DEF TypeOK, StoredLabels, InboxLabels
  <2>2. CASE w = l
    BY <1>1, <1>2, <1>6, <1>8, <2>1, <2>2 DEF Reflected, Verbatim
  <2>3. CASE w # l
    BY <1>1, <1>6, <1>8, <2>1, <2>3 DEF Reflected
  <2> QED BY <2>2, <2>3
<1> QED BY <1>7, <1>8

LEMMA RowActions ==
  ASSUME TypeOK, NEW v \in Viewer, NEW m \in Msg, RowAction(v, m)
  PROVE  OnlyFor(m) /\ Reflected(m)
<1>1. done \ {m} \in KeepingEvaluation(m)
  BY DEF KeepingEvaluation
<1>2. CASE EditStar(v, m)
  <2>1. ASSUME NEW w \in StoredLabels, Rewrite(m, mail[m], w), Kept(v, m), done' = done \ {m}
        PROVE  OnlyFor(m) /\ Reflected(m)
    BY <1>1, <2>1, RewriteSteps DEF Rewrite
  <2>2. CASE /\ Free /\ mail[m] # "new" /\ Retain(v, m)
             /\ unverified' = IF row[m] = mail[m] THEN unverified ELSE unverified \cup {m}
             /\ UNCHANGED <<mail, store, loads, scratch, snap, todo, spoiled, overtaken, faults>>
    <3>1. \A w \in Viewer : active[w] \subseteq active'[w] /\ active'[w] \subseteq active[w] \cup {m}
      BY <2>2 DEF Retain, TypeOK
    <3>2. UNCHANGED <<mail, row, done, touched, waiting, hit, acts, job, viewer, phase, mode,
                      queue, erased, got, lost, cut, todo, spoiled, overtaken, marker,
                      viewMarker, base, start, fence, snap>>
      BY <2>2 DEF store, loads, scratch
    <3>3. OnlyFor(m)
      BY <2>2, <3>1, <3>2 DEF OnlyFor, TypeOK
    <3>4. row[m] = mail[m] => Verbatim(m)
      BY <3>2 DEF Verbatim, TypeOK, CacheLabels, Mail, StoredLabels, InboxLabels
    <3>5. Reflected(m)
      BY <2>2, <3>2, <3>4 DEF Reflected, Unnoticed
    <3> QED BY <3>3, <3>5
  <2>3. CASE \E w \in StoredLabels : Rewrite(m, mail[m], w) /\ Retain(v, m) /\ done' = done \ {m}
    BY <2>1, <2>3 DEF Kept
  <2> QED BY <1>2, <2>2, <2>3 DEF EditStar
<1>3. CASE EditTrash(v, m)
  BY <1>1, <1>3, RewriteSteps DEF EditTrash, Kept, StoredLabels
<1>4. CASE EditMoveIn(v, m)
  <2>1. ASSUME NEW l \in InboxLabels, NEW w \in InboxLabels, Rewrite(m, l, w), Kept(v, m)
        PROVE  OnlyFor(m) /\ Reflected(m)
    BY <1>1, <1>4, <2>1, RewriteSteps DEF EditMoveIn, StoredLabels
  <2>2. CASE Rewrite(m, mail[m], "filed") /\ Kept(v, m)
    BY <1>1, <1>4, <2>2, RewriteSteps DEF EditMoveIn, Rewrite, StoredLabels
  <2> QED BY <1>4, <2>1, <2>2 DEF EditMoveIn, Kept
<1>5. CASE Undo(v, m)
  <2>1. ASSUME NEW was \in StoredLabels, NEW l \in StoredLabels, Rewrite(m, l, was), Kept(v, m)
        PROVE  OnlyFor(m) /\ Reflected(m)
    BY <1>5, <2>1, RewriteSteps DEF Undo
  <2> QED BY <1>5, <2>1 DEF Undo, Kept
<1>6. CASE OpenMessage(v, m)
  <2> USE <1>6 DEF OpenMessage
  <2>1. PICK seen \in {"read", mail[m]} :
          /\ mail' = [mail EXCEPT ![m] = seen]
          /\ IF seen = mail[m] THEN Unnoticed /\ unverified' = unverified \ {m} ELSE Changed(m)
          /\ row' = [row EXCEPT ![m] = seen]
          /\ IF row[m] = seen THEN UNCHANGED <<done, touched>>
             ELSE \/ done' = done \ {m} /\ Stamp({m}, {})
                  \/ done' \in KeepingEvaluation(m) /\ UNCHANGED touched
    OBVIOUS
  <2>2. /\ mail[m] \in StoredLabels /\ mail[m] # "new" /\ seen \in StoredLabels
        /\ mail' \in [Msg -> Mail] /\ mail'[m] = seen /\ row'[m] = seen
        /\ \A k \in Msg \ {m} : mail'[k] = mail[k] /\ row'[k] = row[k]
    BY <2>1 DEF TypeOK, Mail, StoredLabels, InboxLabels
  <2>3. \A w \in Viewer : active[w] \subseteq active'[w] /\ active'[w] \subseteq active[w] \cup {m}
    BY DEF Retain, TypeOK
  <2>4. \A k \in Msg \ {m} : k \in done' <=> k \in done
    BY <2>1 DEF KeepingEvaluation
  <2>5. \A w \in Viewer : touched'[w] \subseteq touched[w] \cup {m}
    BY <2>1 DEF Stamp, TypeOK
  <2>6. \A k \in Msg \ {m} : k \in unverified' <=> k \in unverified
    BY <2>1, OthersKept
  <2>7. OnlyFor(m)
    BY <2>2, <2>3, <2>4, <2>5, <2>6 DEF OnlyFor
  <2>8. CASE Changed(m)
    BY <2>2, <2>7, <2>8 DEF Reflected
  <2>9. CASE ~Changed(m)
    <3>1. mail' = mail /\ Unnoticed
      BY <2>1, <2>9 DEF TypeOK
    <3> QED BY <2>2, <2>7, <3>1 DEF Reflected, Verbatim
  <2> QED BY <2>8, <2>9
<1> QED BY <1>2, <1>3, <1>4, <1>5, <1>6 DEF RowAction

LEMMA EditPreserves ==
  ASSUME SyncInv, NEW v \in Viewer, NEW m \in Msg, RowAction(v, m)
  PROVE  Preserved
<1>1. OnlyFor(m) /\ Reflected(m)
  BY RowActions DEF SyncInv
<1>2. CASE Changed(m) /\ mail[m] \in StoredLabels
  <2>1. /\ mail[m] # "gone" /\ mail' \in [Msg -> Mail]
        /\ \A k \in Msg \ {m} : /\ mail'[k] = mail[k] /\ row'[k] = row[k]
                                /\ (k \in done' <=> k \in done)
        /\ \A w \in Viewer : active[w] \subseteq active'[w]
        /\ UNCHANGED <<hit, acts, job, viewer, phase, mode, queue, erased, got, lost, cut,
                       todo, spoiled, overtaken>>
    BY <1>1, <1>2 DEF OnlyFor, StoredLabels, InboxLabels
  <2>2. Shape'
    BY <1>2, <2>1, ShapeChanged DEF SyncInv
  <2>3. ReadsTrue' /\ Chain' /\ (overtaken' = {} => Sound')
    BY <1>2, <2>1, SyncParts, MailChanged
  <2> QED BY <2>2, <2>3 DEF Preserved, Loose
<1>3. CASE /\ mail' = mail /\ Unnoticed
           /\ m \in unverified' \/ Verbatim(m)
  <2>1. m \in Present \cap Scope => m \in Present'
    BY <1>3 DEF Present, Scope, Current, InScope, Verbatim
  <2> QED BY <1>1, <1>3, <2>1, RowPreserves DEF OnlyFor
<1> QED BY <1>1, <1>2, <1>3 DEF Reflected

LEMMA CrashPreserves ==
  ASSUME SyncInv, Crash
  PROVE  Preserved
<1> USE DEF loads, loader
<1>1. /\ job' = "none" /\ phase' = "none" /\ mode' = "none"
      /\ start' = NoMarker /\ fence' = NoMarker /\ queue' = {} /\ erased' = {}
      /\ got' = NothingFetched /\ ~lost' /\ ~cut' /\ acts' = {} /\ hit' = {}
      /\ UNCHANGED <<mail, row, done, marker, viewMarker, base, overtaken, unverified>>
  BY DEF Crash, Release
<1>2. /\ \A w \in Viewer \ {viewer} :
           /\ snap'[w] = snap[w] /\ todo'[w] = todo[w]
           /\ active'[w] = active[w] /\ spoiled'[w] = spoiled[w]
      /\ \/ UNCHANGED <<snap, todo, active, spoiled>> /\ job # "page"
         \/ \A w \in Viewer : w = viewer => snap'[w] = NoMarker
  BY DEF Crash, SyncInv, TypeOK
<1>3. Held' \subseteq Held \cup {NoMarker} /\ Trusted' \subseteq Trusted \cup {NoMarker}
  BY <1>1, <1>2 DEF Held, Trusted
<1>4. Chain'
  BY <1>3, HeldShrinks DEF SyncInv
<1>5. Shape' /\ ReadsTrue' /\ Discovered'
  BY <1>1 DEF Shape, ReadsTrue, Discovered, NothingFetched
<1>6. Present' = Present
  BY <1>1 DEF Present, Current
<1>7. ASSUME overtaken = {} PROVE AllCovered'
  BY <1>1, <1>3, <1>6, <1>7, TrustKept DEF SyncInv
<1>8. ASSUME overtaken = {} PROVE SnapshotSound'
  BY <1>1, <1>2, <1>8 DEF SyncInv, SnapshotSound, InScope, Current, IsId
<1> QED BY <1>1, <1>4, <1>5, <1>7, <1>8 DEF Preserved, Loose, Sound

-----------------------------------------------------------------------------
LEMMA InitSync == Init => SyncInv
<1> SUFFICES ASSUME Init PROVE SyncInv
  OBVIOUS
<1>1. TypeOK
  BY BoundAssumption DEF Init, TypeOK, Mail, CacheLabels, StoredLabels, InboxLabels, Markers,
     Statuses, Jobs, Phases, Modes, NothingFetched, Fetched
<1>2. Shape /\ Chain /\ ReadsTrue
  BY DEF Init, Shape, Chain, Held, IsId, ReadsTrue, NothingFetched
<1>3. AllCovered /\ Discovered /\ SnapshotSound
  BY DEF Init, AllCovered, Covered, Discovered, SnapshotSound, IsId
<1> QED BY <1>1, <1>2, <1>3 DEF SyncInv

LEMMA SyncStep == SyncInv /\ [Next]_vars => SyncInv'
<1> SUFFICES ASSUME SyncInv, [Next]_vars PROVE SyncInv'
  OBVIOUS
<1>1. TypeOK'
  BY TypeStep DEF SyncInv
<1>2. ASSUME Next PROVE Preserved
  <2>1. ASSUME Outside PROVE Preserved
    BY <2>1, OutsidePreserves, ExpirePreserves DEF Outside
  <2>2. ASSUME Reading PROVE Preserved
    BY <2>2, FetchPreserves DEF Reading
  <2>3. ASSUME Working PROVE Preserved
    BY <2>3, LoadPreserves, BeginPreserves, DiscoverPreserves, ListPreserves,
       ApplyPreserves, MutatePreserves, CheckpointPreserves DEF Working
  <2>4. ASSUME Caching PROVE Preserved
    BY <2>4, StartReadPreserves, FlushPreserves, FlushFailsPreserves,
       FinishCachePreserves, UncachePreserves DEF Caching
  <2>5. ASSUME Viewing PROVE Preserved
    BY <2>5, StartSnapshotPreserves, FinishSnapshotPreserves, StopSnapshotPreserves,
       ListPagePreserves, StartReadPreserves, BeginPreserves, EditPreserves DEF Viewing
  <2> QED BY <1>2, <2>1, <2>2, <2>3, <2>4, <2>5, FinishPagePreserves,
             FinishRefreshPreserves, LoadPreserves, CrashPreserves DEF Next
<1>3. ASSUME UNCHANGED vars PROVE Preserved
  <2>1. Held' = Held /\ Trusted' = Trusted /\ Reported' = Reported
    BY <1>3 DEF vars, Held, Trusted, Reported, Has, IsId
  <2>2. Loose'
    BY <1>3, <2>1 DEF vars, SyncInv, Loose, ReadsTrue, Chain, Shape, InScope
  <2>3. ASSUME overtaken = {} PROVE AllCovered' /\ Discovered' /\ SnapshotSound'
    BY <1>3, <2>1, <2>3 DEF vars, SyncInv, AllCovered, Covered, Discovered, SnapshotSound,
       InScope, Current
  <2> QED BY <1>3, <2>2, <2>3 DEF vars, Preserved, Sound
<1>4. Preserved
  BY <1>2, <1>3
<1> QED BY <1>1, <1>4 DEF Preserved, Loose, Sound, SyncInv

\* The working memory of the commands and what they store keep their shape.
THEOREM TypeCorrect == Spec => []TypeOK
<1>1. Init => TypeOK
  BY InitSync DEF SyncInv
<1>2. TypeOK /\ [Next]_vars => TypeOK'
  BY TypeStep
<1> QED BY <1>1, <1>2, PTL DEF Spec

\* Whatever the commands read, they certify only what the cache holds or the
\* history will still report.
THEOREM SyncInvariant == Spec => []SyncInv
  BY InitSync, SyncStep, PTL DEF Spec

\* A run that trusts the stored marker finds every message of Inbox and Spam
\* that was never assessed as it is now.
THEOREM NoMailIsLost == Spec => []NoLostMail
<1>1. SyncInv => NoLostMail
  BY DEF SyncInv, NoLostMail, AllCovered
<1> QED BY <1>1, SyncInvariant, PTL

-----------------------------------------------------------------------------
(***************************************************************************)
(* What the view is promised.  A cleanup run evicts the rows of filed mail *)
(* (work.ts:976), so ViewComplete is a statement about all the other       *)
(* commands: the sessions of the view, `gmail cache` and `gmail uncache`.  *)
(*                                                                         *)
(* Right are the messages that are shown where they are, Settled those     *)
(* that a pruning may spare; both but for the rows no session verified.    *)
(***************************************************************************)
Right   == {m \in Msg : row[m] = Shown(m) \/ m \in unverified}
Settled == {m \in Msg : mail[m] \in StoredLabels \/ row[m] = "none" \/ m \in unverified}
Seen    == {m \in Msg : got[m] = mail[m]}

NoRun == waiting = {} /\ job # "work" /\ base = [p \in Proc |-> NoMarker]

Unborn == \A m \in Msg : mail[m] = "new" => row[m] = "none" /\ got[m] = "none"

\* `gmail cache` listed the Inbox: what has left it since is reported.
CacheReads ==
  job = "cache" =>
    \A m \in Msg : /\ m \in queue => m \in Scope \cup Reported
                   /\ got[m] = "filed" => m \in Reported
                   /\ got[m] # "gone"

ViewFits == overtaken = {} /\ IsId(viewMarker) => Msg \subseteq viewMarker \cup Right

\* A refresh looks at what changed, and the rest is as it should be.
RefreshFits ==
  overtaken = {} /\ job = "refresh" /\ ~lost =>
    Msg \subseteq fence \cup queue \cup erased \cup Seen \cup Right

\* What a snapshot verified, or spares because it was written since, is there.
Verified ==
  \A v \in Viewer : IsId(snap[v]) => active[v] \cup touched[v] \subseteq snap[v] \cup Settled

\* The messages of the folders that are not in F.
FolderFor(l) == IF l \in InboxLabels THEN "inbox" ELSE "filed"
Beyond(F, M) == {m \in Msg : M[m] \in StoredLabels /\ FolderFor(M[m]) \notin F}

\* A page of v's snapshot is being loaded.
Coming(v) == IF job = "page" /\ viewer = v THEN (IF lost THEN Msg ELSE queue \cup Seen) ELSE {}

\* A snapshot that has listed a folder has seen what did not change.
SnapshotFits ==
  overtaken = {} =>
    \A v \in Viewer : IsId(snap[v]) /\ ~spoiled[v] =>
      Beyond(todo[v], mail) \subseteq snap[v] \cup (active[v] \cap Right) \cup Coming(v)

ViewInv == /\ NoRun /\ Unborn /\ CacheReads
           /\ ViewFits /\ RefreshFits /\ Verified /\ SnapshotFits

\* What is reported is in every id.
LEMMA ReportedIsHeld == \A x \in Held : IsId(x) => Reported \subseteq x
  BY Reports DEF Has

\* The rows and the mailbox stay as they are.
LEMMA SameRows ==
  ASSUME mail' = mail, row' = row, unverified' = unverified
  PROVE  Right' = Right /\ Settled' = Settled
<1>1. Settled' = Settled
  BY DEF Settled
<1>2. Right' = Right
  BY DEF Right, Shown
<1> QED BY <1>1, <1>2

-----------------------------------------------------------------------------
\* A message changes at Gmail, and with it perhaps its row.
LEMMA ViewMailChanged ==
  ASSUME SyncInv, ViewInv, NEW m \in Msg, Changed(m), mail'[m] # "new", mail[m] # "gone",
         \A k \in Msg \ {m} : mail'[k] = mail[k] /\ row'[k] = row[k],
         \A v \in Viewer : /\ active[v] \subseteq active'[v]
                           /\ active'[v] \subseteq active[v] \cup {m}
                           /\ touched'[v] \subseteq touched[v] \cup {m},
         UNCHANGED <<waiting, job, viewer, phase, queue, erased, got, lost, todo, spoiled, overtaken>>
  PROVE  ViewInv'
<1>1. TypeOK
  BY DEF SyncInv
<1>2. /\ m \in Reported'
      /\ \A k \in Msg : k \in Reported => k \in Reported'
  BY <1>1, ChangedReported
<1>3. \A k \in Msg \ {m} : /\ k \in Right => k \in Right'
                           /\ k \in Settled => k \in Settled'
                           /\ k \in Seen => k \in Seen'
                           /\ k \in Scope => k \in Scope'
  BY DEF Changed, Right, Shown, Settled, Seen, Scope, InScope
<1>5. NoRun'
  <2>1. \A p \in Proc : base'[p] = NoMarker
    BY Ids DEF Changed, ViewInv, NoRun
  <2>2. base' = [p \in Proc |-> NoMarker]
    BY <2>1 DEF Changed
  <2> QED BY <2>2 DEF ViewInv, NoRun
<1>6. Unborn'
  <2> SUFFICES ASSUME NEW k \in Msg, mail'[k] = "new" PROVE row'[k] = "none" /\ got'[k] = "none"
    BY DEF Unborn
  <2> QED BY DEF ViewInv, Unborn
<1>7. CacheReads'
  <2> SUFFICES ASSUME job = "cache", NEW k \in Msg
               PROVE  /\ k \in queue => k \in Scope' \cup Reported'
                      /\ got[k] = "filed" => k \in Reported'
                      /\ got[k] # "gone"
    BY DEF CacheReads
  <2> QED BY <1>2, <1>3 DEF ViewInv, CacheReads
<1>9. ViewFits'
  <2> SUFFICES ASSUME overtaken = {}, IsId(viewMarker'), NEW k \in Msg PROVE k \in viewMarker' \cup Right'
    BY DEF ViewFits
  <2>1. IsId(viewMarker) /\ viewMarker' = viewMarker \cup {m}
    BY <1>1, ChangedIds DEF Grown
  <2> QED BY <1>3, <2>1 DEF ViewInv, ViewFits
<1>10. RefreshFits'
  <2> SUFFICES ASSUME overtaken = {}, job = "refresh", ~lost, NEW k \in Msg
               PROVE  k \in fence' \cup queue \cup erased \cup Seen' \cup Right'
    BY DEF RefreshFits
  <2>1. fence' = fence \cup {m}
    BY <1>1, ChangedIds DEF SyncInv, Shape, Grown
  <2>2. k \in fence \cup queue \cup erased \cup Seen \cup Right
    BY DEF ViewInv, RefreshFits
  <2> QED BY <1>3, <2>1, <2>2
<1>11. Verified'
  <2> SUFFICES ASSUME NEW v \in Viewer, IsId(snap'[v]), NEW k \in active'[v] \cup touched'[v]
               PROVE  k \in snap'[v] \cup Settled'
    BY DEF Verified
  <2>1. IsId(snap[v]) /\ snap'[v] = snap[v] \cup {m}
    BY <1>1, ChangedIds DEF Grown
  <2>2. CASE k = m
    BY <2>1, <2>2
  <2>3. CASE k # m
    <3>1. k \in active[v] \cup touched[v] /\ k \in Msg
      BY <1>1, <2>3 DEF TypeOK
    <3> QED BY <1>3, <2>1, <2>3, <3>1 DEF ViewInv, Verified
  <2> QED BY <2>2, <2>3
<1>12. SnapshotFits'
  <2> SUFFICES ASSUME overtaken = {}, NEW v \in Viewer, IsId(snap'[v]), ~spoiled[v],
                      NEW k \in Beyond(todo[v], mail')
               PROVE  k \in snap'[v] \cup (active'[v] \cap Right') \cup Coming(v)'
    BY DEF SnapshotFits
  <2>1. IsId(snap[v]) /\ snap'[v] = snap[v] \cup {m}
    BY <1>1, ChangedIds DEF Grown
  <2>2. CASE k = m
    BY <2>1, <2>2
  <2>3. CASE k # m
    <3>1. k \in Msg \ {m} /\ k \in Beyond(todo[v], mail)
      BY <2>3 DEF Beyond
    <3>2. k \in snap[v] \cup (active[v] \cap Right) \cup Coming(v)
      BY <2>1, <3>1 DEF ViewInv, SnapshotFits
    <3>3. k \in Coming(v) => k \in Coming(v)'
      BY <1>3, <3>1 DEF Coming
    <3> QED BY <1>3, <2>1, <3>1, <3>2, <3>3
  <2> QED BY <2>2, <2>3
<1> QED BY <1>5, <1>6, <1>7, <1>9, <1>10, <1>11, <1>12 DEF ViewInv

\* The ids shrink, or say nothing; rows, mailbox and the reads stay.
LEMMA ViewIdsKept ==
  ASSUME SyncInv, ViewInv,
         UNCHANGED <<mail, row, unverified, overtaken, waiting, base>>,
         viewMarker' \in {viewMarker, NoMarker, Expired},
         \A v \in Viewer :
            \/ ~IsId(snap'[v])
            \/ /\ snap'[v] = snap[v] /\ active'[v] = active[v] /\ touched'[v] \subseteq touched[v]
               /\ todo'[v] = todo[v] /\ spoiled'[v] = spoiled[v]
               /\ Coming(v) = {}
  PROVE  ViewFits' /\ Verified' /\ SnapshotFits'
<1>1. Right' = Right /\ Settled' = Settled
  BY SameRows
<1>2. ViewFits'
  BY <1>1 DEF ViewInv, ViewFits, IsId
<1>3. Verified'
  BY <1>1 DEF ViewInv, Verified
<1>4. SnapshotFits'
  <2> SUFFICES ASSUME overtaken = {}, NEW v \in Viewer, IsId(snap'[v]), ~spoiled'[v]
               PROVE  Beyond(todo'[v], mail) \subseteq snap'[v] \cup (active'[v] \cap Right)
    BY <1>1 DEF SnapshotFits
  <2>1. Beyond(todo[v], mail) \subseteq snap[v] \cup (active[v] \cap Right) \cup Coming(v)
    BY DEF ViewInv, SnapshotFits
  <2> QED BY <2>1
<1> QED BY <1>2, <1>3, <1>4

LEMMA ViewExpire ==
  ASSUME SyncInv, ViewInv, NEW x \in {marker, viewMarker}, Expire(x)
  PROVE  ViewInv'
<1> USE DEF scratch, observe
<1>1. /\ viewMarker' \in {viewMarker, Expired}
      /\ \A v \in Viewer : snap'[v] \in {snap[v], Expired}
      /\ base' = [p \in Proc |-> NoMarker]
      /\ job = "none" /\ job' = "none"
      /\ UNCHANGED <<mail, row, unverified, touched, waiting, active, todo, spoiled, overtaken, got>>
  <2>1. /\ viewMarker' \in {viewMarker, Expired}
        /\ \A v \in Viewer : snap'[v] \in {snap[v], Expired}
    BY DEF Expire, SyncInv, TypeOK
  <2>2. base = [p \in Proc |-> NoMarker] /\ ~IsId(NoMarker)
    BY DEF ViewInv, NoRun, IsId
  <2>3. base' = [p \in Proc |-> NoMarker]
    BY <2>2 DEF Expire
  <2> QED BY <2>1, <2>3 DEF Expire, Free
<1>2. base' = base
  BY <1>1 DEF ViewInv, NoRun
<1>3. ViewFits' /\ Verified' /\ SnapshotFits'
  BY <1>1, <1>2, ViewIdsKept DEF IsId, Coming
<1> QED BY <1>1, <1>2, <1>3 DEF ViewInv, NoRun, Unborn, CacheReads, RefreshFits

\* A command begins: it has read nothing yet.
LEMMA ViewBegin ==
  ASSUME SyncInv, ViewInv, LockForCache \/ \E v \in Viewer : StartRefresh(v) \/ StartSnapshot(v)
  PROVE  ViewInv'
<1> USE DEF store, loads, scratch, loader, observe
<1>1. /\ Free /\ job = "none" /\ queue = {} /\ got = NothingFetched
      /\ UNCHANGED <<mail, row, unverified, got, waiting, base, viewMarker, overtaken>>
  BY DEF LockForCache, StartRefresh, StartSnapshot, SyncInv, Shape, Free
<1>2. Right' = Right /\ Settled' = Settled
  BY <1>1, SameRows
<1>3. Unborn' /\ ViewFits'
  BY <1>1, <1>2 DEF ViewInv, Unborn, ViewFits
<1>4. CASE LockForCache
  <2>1. /\ job' = "cache" /\ fence' = {} /\ queue' = {}
        /\ UNCHANGED <<touched, snap, active, todo, spoiled>>
    BY <1>1, <1>4 DEF LockForCache, Fresh
  <2>2. Verified' /\ SnapshotFits'
    BY <1>1, <1>2, <2>1 DEF ViewInv, Verified, SnapshotFits, Coming
  <2> QED BY <1>1, <1>2, <1>3, <2>1, <2>2
          DEF ViewInv, NoRun, CacheReads, RefreshFits, NothingFetched
<1>5. ASSUME NEW v \in Viewer, StartRefresh(v) PROVE ViewInv'
  <2>1. /\ job' = "refresh" /\ IsId(viewMarker) /\ queue' = ChangedSince(viewMarker)
        /\ erased' = DeletedSince(viewMarker) /\ fence' = {}
        /\ UNCHANGED <<touched, snap, active, todo, spoiled>>
    BY <1>5 DEF StartRefresh, Fresh
  <2>2. Verified' /\ SnapshotFits'
    BY <1>1, <1>2, <2>1 DEF ViewInv, Verified, SnapshotFits, Coming
  <2>3. ASSUME overtaken = {}, NEW m \in Msg PROVE m \in queue' \cup erased' \cup Right
    <3>1. CASE m \notin viewMarker
      BY <2>1, <2>3, <3>1 DEF ViewInv, ViewFits
    <3>2. CASE m \in viewMarker /\ mail[m] # "new"
      BY <2>1, <3>2 DEF ChangedSince, DeletedSince, SyncInv, TypeOK, Mail
    <3>3. CASE mail[m] = "new"
      BY <3>3 DEF ViewInv, Unborn, Right, Shown, StoredLabels, InboxLabels
    <3> QED BY <3>1, <3>2, <3>3
  <2>4. RefreshFits'
    BY <1>1, <1>2, <2>3 DEF RefreshFits
  <2> QED BY <1>1, <1>3, <2>1, <2>2, <2>4 DEF ViewInv, NoRun, CacheReads
<1>6. ASSUME NEW v \in Viewer, StartSnapshot(v) PROVE ViewInv'
  <2>1. /\ job' = "none" /\ active'[v] = {} /\ touched'[v] = {} /\ todo'[v] = Folders
        /\ \A w \in Viewer \ {v} : /\ snap'[w] = snap[w] /\ active'[w] = active[w]
                                   /\ touched'[w] = touched[w] /\ todo'[w] = todo[w]
                                   /\ spoiled'[w] = spoiled[w]
    BY <1>1, <1>6 DEF StartSnapshot, SyncInv, TypeOK
  <2>2. Verified'
    BY <1>2, <2>1 DEF ViewInv, Verified
  <2>3. SnapshotFits'
    <3> SUFFICES ASSUME overtaken = {}, NEW w \in Viewer, IsId(snap'[w]), ~spoiled'[w]
                 PROVE  Beyond(todo'[w], mail) \subseteq snap'[w] \cup (active'[w] \cap Right)
      BY <1>1, <1>2 DEF SnapshotFits
    <3>1. CASE w = v
      BY <2>1, <3>1 DEF Beyond, Folders, FolderFor
    <3>2. CASE w # v
      BY <1>1, <2>1, <3>2 DEF ViewInv, SnapshotFits, Coming
    <3> QED BY <3>1, <3>2
  <2> QED BY <1>1, <1>3, <2>1, <2>2, <2>3 DEF ViewInv, NoRun, CacheReads, RefreshFits
<1> QED BY <1>4, <1>5, <1>6

LEMMA ViewList ==
  ASSUME SyncInv, ViewInv, ListInbox \/ \E v \in Viewer, f \in Folders : ListPage(v, f)
  PROVE  ViewInv'
<1> USE DEF store, loads, scratch, loader, observe
<1>1. /\ got = NothingFetched /\ job # "refresh" /\ job' # "refresh"
      /\ UNCHANGED <<mail, row, unverified, touched, got, waiting, base, marker, viewMarker, start,
                     fence, snap, active, spoiled, overtaken>>
  BY DEF ListInbox, ListPage, Free, SyncInv, Shape
<1>2. /\ Right' = Right /\ Settled' = Settled
      /\ Held' = Held /\ Scope' = Scope
  BY <1>1, SameRows DEF Held, Scope, InScope
<1>3. Unborn' /\ ViewFits' /\ Verified' /\ RefreshFits'
  BY <1>1, <1>2 DEF ViewInv, Unborn, ViewFits, Verified, RefreshFits
<1>4. CASE ListInbox
  <2>1. job = "cache" /\ job' = "cache" /\ todo' = todo
    BY <1>4 DEF ListInbox, ViewInv, NoRun
  <2>2. queue' \subseteq Scope
    BY <1>4 DEF ListInbox, Select, InFolder, Scope, InScope
  <2>3. CacheReads'
    BY <1>1, <1>2, <2>1, <2>2 DEF CacheReads, NothingFetched
  <2>4. SnapshotFits'
    BY <1>1, <1>2, <2>1 DEF ViewInv, SnapshotFits, Coming
  <2> QED BY <1>1, <1>2, <1>3, <2>1, <2>3, <2>4 DEF ViewInv, NoRun
<1>5. ASSUME NEW v \in Viewer, NEW f \in Folders, ListPage(v, f) PROVE ViewInv'
  <2>1. /\ job = "none" /\ job' = "page" /\ viewer' = v /\ queue' = InFolder(f)
        /\ todo'[v] = todo[v] \ {f} /\ \A w \in Viewer \ {v} : todo'[w] = todo[w]
    BY <1>5 DEF ListPage, Free, SyncInv, TypeOK
  <2>2. SnapshotFits'
    <3> SUFFICES ASSUME overtaken = {}, NEW w \in Viewer, IsId(snap[w]), ~spoiled[w],
                        NEW m \in Beyond(todo'[w], mail)
                 PROVE  m \in snap[w] \cup (active[w] \cap Right) \cup Coming(w)'
      BY <1>1, <1>2 DEF SnapshotFits
    <3>1. CASE m \in Beyond(todo[w], mail)
      BY <1>1, <2>1, <3>1 DEF ViewInv, SnapshotFits, Coming
    <3>2. CASE m \notin Beyond(todo[w], mail)
      <4>1. w = v /\ FolderFor(mail[m]) = f /\ mail[m] \in StoredLabels /\ m \in Msg
        BY <2>1, <3>2 DEF Beyond
      <4>2. m \in queue'
        BY <2>1, <4>1 DEF InFolder, FolderFor, StoredLabels
      <4> QED BY <2>1, <4>1, <4>2 DEF Coming
    <3> QED BY <3>1, <3>2
  <2> QED BY <1>1, <1>3, <2>1, <2>2 DEF ViewInv, NoRun, CacheReads
<1> QED BY <1>4, <1>5

LEMMA ViewFetch ==
  ASSUME SyncInv, ViewInv, NEW m \in Msg,
         (\E ok \in BOOLEAN : Fetch(m, ok)) \/ FetchGone(m) \/ FetchFails(m)
  PROVE  ViewInv'
<1> USE DEF store, loads, scratch, loader
<1>1. /\ phase = "fetch" /\ m \in queue /\ queue' = queue \ {m}
      /\ UNCHANGED <<mail, store, loads, job, viewer, phase, mode, start, fence,
                     erased, cut, acts, hit, loader, overtaken, unverified>>
      /\ \/ got' = [got EXCEPT ![m] = mail[m]] /\ mail[m] \in StoredLabels /\ lost' = lost
         \/ got' = [got EXCEPT ![m] = "gone"] /\ mail[m] = "gone" /\ lost' = lost
            /\ job \notin {"work", "cache"}
         \/ got' = got /\ lost' = TRUE
  BY DEF Fetch, FetchGone, FetchFails, observe
<1>2. \A k \in Msg \ {m} : (k \in queue' <=> k \in queue) /\ got'[k] = got[k]
  BY <1>1 DEF SyncInv, TypeOK
<1>3. \/ got'[m] = mail[m] /\ lost' = lost /\ mail[m] \in StoredLabels
      \/ got'[m] = mail[m] /\ lost' = lost /\ mail[m] = "gone" /\ job # "cache"
      \/ got'[m] = got[m] /\ lost'
  BY <1>1 DEF SyncInv, TypeOK
<1>4. /\ Right' = Right /\ Settled' = Settled
      /\ Held' = Held /\ Scope' = Scope
  BY <1>1, SameRows DEF Held, Scope, InScope
<1>5. Reported' = Reported
  <2>1. Reported' = {k \in Msg : \A x \in Held' : Has(x, k)}
    BY DEF Reported, Held
  <2> QED BY <1>4, <2>1, Reports
<1>6. ViewFits' /\ Verified' /\ NoRun'
  BY <1>1, <1>4 DEF ViewInv, ViewFits, Verified, NoRun
<1>7. Unborn'
  <2> SUFFICES ASSUME NEW k \in Msg, mail[k] = "new" PROVE row[k] = "none" /\ got'[k] = "none"
    BY <1>1 DEF Unborn
  <2>1. row[k] = "none" /\ got[k] = "none"
    BY DEF ViewInv, Unborn
  <2>2. CASE k = m
    BY <1>3, <2>1, <2>2 DEF StoredLabels, InboxLabels
  <2>3. CASE k # m
    BY <1>2, <2>1, <2>3
  <2> QED BY <2>2, <2>3, <2>1
<1>8. CacheReads'
  <2> SUFFICES ASSUME job = "cache", NEW k \in Msg
               PROVE  /\ k \in queue' => k \in Scope \cup Reported
                      /\ got'[k] = "filed" => k \in Reported
                      /\ got'[k] # "gone"
    BY <1>1, <1>4, <1>5 DEF CacheReads
  <2>1. /\ k \in queue => k \in Scope \cup Reported
        /\ got[k] = "filed" => k \in Reported
        /\ got[k] # "gone"
    BY DEF ViewInv, CacheReads
  <2>2. CASE k # m
    BY <1>2, <2>1, <2>2
  <2>3. CASE k = m
    <3>1. m \in Scope => mail[m] # "filed"
      BY DEF Scope, InScope, InboxLabels
    <3> QED BY <1>1, <1>3, <2>1, <2>3, <3>1 DEF StoredLabels, InboxLabels
  <2> QED BY <2>2, <2>3
<1>9. \A k \in Msg : k \in Seen \cup queue => k \in Seen' \cup queue' \/ lost'
  <2> SUFFICES ASSUME NEW k \in Msg, k \in Seen \cup queue, ~lost' PROVE k \in Seen' \cup queue'
    OBVIOUS
  <2>1. CASE k # m
    BY <1>1, <1>2, <2>1 DEF Seen
  <2>2. CASE k = m
    BY <1>1, <1>3, <2>2 DEF Seen
  <2> QED BY <2>1, <2>2
<1>10. lost => lost'
  BY <1>3
<1>11. RefreshFits'
  BY <1>1, <1>4, <1>9, <1>10 DEF ViewInv, RefreshFits
<1>12. SnapshotFits'
  <2> SUFFICES ASSUME overtaken = {}, NEW v \in Viewer, IsId(snap[v]), ~spoiled[v],
                      NEW k \in Beyond(todo[v], mail)
               PROVE  k \in snap[v] \cup (active[v] \cap Right) \cup Coming(v)'
    BY <1>1, <1>4 DEF SnapshotFits
  <2>1. k \in snap[v] \cup (active[v] \cap Right) \cup Coming(v) /\ k \in Msg
    BY DEF ViewInv, SnapshotFits, Beyond
  <2>2. k \in Coming(v) => k \in Coming(v)'
    BY <1>1, <1>9, <1>10, <2>1 DEF Coming
  <2> QED BY <2>1, <2>2
<1> QED BY <1>6, <1>7, <1>8, <1>11, <1>12 DEF ViewInv

-----------------------------------------------------------------------------
\* A command writes its reads: what did not change since then is shown as it is.
LEMMA ProjectFits ==
  ASSUME SyncInv, ViewInv, NEW scope, Project(scope), mail' = mail,
         (job = "cache" /\ scope = InboxLabels) \/ (job # "cache" /\ scope = StoredLabels),
         NEW m \in Msg \ Reported
  PROVE  /\ m \in Right \/ m \in erased \/ got[m] # "none" => m \in Right'
         /\ m \in Settled => m \in Settled'
         /\ got[m] \in scope => m \in Settled'
<1>1. /\ got[m] = "none" \/ got[m] = mail[m]
      /\ m \in erased => mail[m] = "gone"
      /\ got[m] \in Fetched
  BY DEF SyncInv, ReadsTrue, TypeOK
<1>2. job = "cache" => got[m] # "filed" /\ got[m] # "gone"
  BY DEF ViewInv, CacheReads
<1>3. got[m] \in scope => m \in Settled'
  BY <1>1 DEF Settled, StoredLabels, InboxLabels
<1>4. ASSUME m \in erased PROVE m \in Right'
  <2>1. row'[m] = "none" /\ mail'[m] = "gone"
    BY <1>1, <1>4 DEF Project
  <2> QED BY <2>1 DEF Right, Shown, StoredLabels, InboxLabels
<1>5. ASSUME m \notin erased, got[m] # "none" PROVE m \in Right'
  <2>1. got[m] = mail[m]
    BY <1>1, <1>5
  <2>2. CASE got[m] \in scope
    <3>1. row'[m] = got[m] /\ got[m] \in StoredLabels
      BY <1>5, <2>2 DEF Project, StoredLabels
    <3> QED BY <2>1, <3>1 DEF Right, Shown
  <2>3. CASE got[m] \notin scope
    <3>1. row'[m] = "none" /\ got[m] \notin StoredLabels
      BY <1>1, <1>2, <1>5, <2>3 DEF Project, StoredLabels, InboxLabels, Fetched, CacheLabels
    <3> QED BY <2>1, <3>1 DEF Right, Shown
  <2> QED BY <2>2, <2>3
<1>6. ASSUME m \notin erased, got[m] = "none"
      PROVE  row'[m] = row[m] /\ (m \in unverified => m \in unverified')
  <2>1. got[m] \notin scope
    BY <1>6 DEF StoredLabels, InboxLabels
  <2> QED BY <1>6, <2>1 DEF Project
<1>7. m \in Right => m \in Right'
  BY <1>4, <1>5, <1>6 DEF Right, Shown
<1>8. m \in Settled => m \in Settled'
  <2>1. m \in Right' => m \in Settled'
    BY DEF Right, Settled, Shown
  <2> QED BY <1>4, <1>5, <1>6, <2>1 DEF Settled
<1> QED BY <1>3, <1>4, <1>5, <1>7, <1>8

\* The rows change, under ids that do not grow, and nothing is verified that
\* is not there.
LEMMA ViewRowsWritten ==
  ASSUME SyncInv, ViewInv, mail' = mail, overtaken' = overtaken,
         \A m \in Msg \ Reported : /\ m \in Settled => m \in Settled'
                                   /\ overtaken = {} /\ m \in Right => m \in Right',
         \A v \in Viewer : /\ touched'[v] \subseteq touched[v] \cup Reported \cup Settled'
                           /\ active'[v] = active[v],
         UNCHANGED <<snap, todo, spoiled>>, job # "page"
  PROVE  /\ viewMarker' = viewMarker => ViewFits'
         /\ Verified' /\ SnapshotFits'
<1>1. \A x \in Held : IsId(x) => Reported \subseteq x
  BY ReportedIsHeld
<1>5. ASSUME viewMarker' = viewMarker PROVE ViewFits'
  BY <1>1, <1>5 DEF ViewInv, ViewFits, Held
<1>6. \A v \in Viewer : snap[v] \in Held
  BY DEF Held
<1>7. Verified'
  <2> SUFFICES ASSUME NEW v \in Viewer, IsId(snap[v]), NEW m \in active[v] \cup touched'[v]
               PROVE  m \in snap[v] \cup Settled'
    BY DEF Verified
  <2>1. m \in Reported => m \in snap[v]
    BY <1>1, <1>6
  <2>2. m \in active[v] \cup touched[v] => m \in snap[v] \cup Settled
    BY DEF ViewInv, Verified
  <2>3. Settled \subseteq Msg
    BY DEF Settled
  <2> QED BY <2>1, <2>2, <2>3
<1>8. SnapshotFits'
  <2> SUFFICES ASSUME overtaken = {}, NEW v \in Viewer, IsId(snap[v]), ~spoiled[v],
                      NEW m \in Beyond(todo[v], mail)
               PROVE  m \in snap[v] \cup (active[v] \cap Right')
    BY DEF SnapshotFits
  <2>1. m \in snap[v] \cup (active[v] \cap Right) /\ m \in Msg
    BY DEF ViewInv, SnapshotFits, Coming, Beyond
  <2>2. m \in Reported => m \in snap[v]
    BY <1>1, <1>6
  <2> QED BY <2>1, <2>2
<1> QED BY <1>5, <1>7, <1>8

LEMMA ViewFlush ==
  ASSUME SyncInv, ViewInv, Flush
  PROVE  ViewInv'
<1> USE DEF loads, scratch, loader, observe
<1>1. /\ job = "cache" /\ Project(InboxLabels) /\ mail' = mail /\ overtaken' = overtaken
      /\ UNCHANGED <<waiting, base, marker, viewMarker, start, job, fence, queue, got, snap, active, todo, spoiled>>
  BY DEF Flush
<1>2. \A m \in Msg \ Reported : /\ m \in Right \/ m \in erased \/ got[m] # "none" => m \in Right'
                                /\ m \in Settled => m \in Settled'
                                /\ got[m] \in InboxLabels => m \in Settled'
  BY <1>1, ProjectFits
<1>3. \A v \in Viewer : touched'[v] \subseteq touched[v] \cup Reported \cup Settled'
  <2> SUFFICES ASSUME NEW v \in Viewer, NEW m \in touched'[v], m \notin touched[v], m \notin Reported
               PROVE  m \in Settled'
    OBVIOUS
  <2>1. m \in Msg /\ got[m] \in InboxLabels
    BY <1>1 DEF Project, Stamp
  <2> QED BY <1>2, <2>1
<1>4. ViewFits' /\ Verified' /\ SnapshotFits'
  BY <1>1, <1>2, <1>3, ViewRowsWritten
<1>5. Held' = Held /\ Scope' = Scope
  BY <1>1 DEF Held, Scope, InScope
<1>6. Reported' = Reported
  <2>1. Reported' = {k \in Msg : \A x \in Held' : Has(x, k)}
    BY DEF Reported, Held
  <2> QED BY <1>5, <2>1, Reports
<1>7. Unborn'
  <2> SUFFICES ASSUME NEW m \in Msg, mail[m] = "new" PROVE row'[m] = "none" /\ got[m] = "none"
    BY <1>1 DEF Unborn
  <2>1. row[m] = "none" /\ got[m] = "none"
    BY DEF ViewInv, Unborn
  <2> QED BY <1>1, <2>1 DEF Project, InboxLabels
<1> QED BY <1>1, <1>4, <1>5, <1>6, <1>7 DEF ViewInv, NoRun, CacheReads, RefreshFits

LEMMA ViewFlushFails ==
  ASSUME SyncInv, ViewInv, FlushFails
  PROVE  ViewInv'
<1> USE DEF store, loads, scratch, loader
<1>1. /\ job = "cache" /\ got' = NothingFetched
      /\ UNCHANGED <<mail, row, unverified, touched, marker, viewMarker, waiting, base, job, start, fence,
                     queue, snap, active, todo, spoiled, overtaken>>
  BY DEF FlushFails
<1>2. /\ Right' = Right /\ Settled' = Settled
      /\ Held' = Held /\ Scope' = Scope
  BY <1>1, SameRows DEF Held, Scope, InScope
<1>3. Reported' = Reported
  <2>1. Reported' = {k \in Msg : \A x \in Held' : Has(x, k)}
    BY DEF Reported, Held
  <2> QED BY <1>2, <2>1, Reports
<1>4. ViewFits' /\ Verified' /\ SnapshotFits'
  BY <1>1, <1>2 DEF ViewInv, ViewFits, Verified, SnapshotFits, Coming
<1> QED BY <1>1, <1>2, <1>3, <1>4
        DEF ViewInv, NoRun, Unborn, CacheReads, RefreshFits, NothingFetched

\* What the owner of the lock forgets on release.
LEMMA ViewReleased ==
  ASSUME ViewInv, Release, mail' = mail, \A m \in Msg : mail[m] = "new" => row'[m] = "none",
         UNCHANGED <<waiting, base>>
  PROVE  NoRun' /\ Unborn' /\ CacheReads' /\ RefreshFits'
  BY DEF ViewInv, NoRun, Release, Unborn, CacheReads, RefreshFits, NothingFetched

LEMMA ViewFinishCache ==
  ASSUME SyncInv, ViewInv, FinishCache
  PROVE  ViewInv'
<1> USE DEF loads, loader, observe
<1>1. /\ job = "cache" /\ phase = "fetch" /\ queue = {} /\ Flushed /\ Release /\ mail' = mail
      /\ overtaken' = overtaken /\ viewMarker' = viewMarker
      /\ UNCHANGED <<waiting, base, snap, active, todo, spoiled, unverified>>
  BY DEF FinishCache
<1>2. \A m \in Msg : /\ row'[m] \in {row[m], "none"}
                     /\ row'[m] # row[m] => got[m] = "none" /\ row[m] \in InboxLabels /\ ~lost /\ ~cut
  BY DEF FinishCache
<1>3. \A m \in Msg \ Reported : /\ m \in Settled => m \in Settled'
                                /\ overtaken = {} /\ m \in Right => m \in Right'
  <2> SUFFICES ASSUME NEW m \in Msg \ Reported, row'[m] = "none", row'[m] # row[m], m \notin unverified
               PROVE  /\ m \in Settled'
                      /\ overtaken = {} => m \notin Right
    BY <1>1, <1>2 DEF Settled, Right, Shown
  <2>1. m \in Settled'
    BY DEF Settled
  <2>2. ASSUME overtaken = {}, m \in Right PROVE FALSE
    <3>1. got[m] = "none" /\ InScope(m) /\ ~lost /\ ~cut
      BY <1>2, <2>2 DEF Right, Shown, InScope, InboxLabels, StoredLabels
    <3>2. IsId(fence) /\ mode = "none"
      BY <1>1 DEF SyncInv, Shape
    <3> QED BY <1>1, <2>2, <3>1, <3>2 DEF SyncInv, Discovered
  <2> QED BY <2>1, <2>2
<1>4. \A v \in Viewer : touched'[v] \subseteq touched[v]
  BY DEF FinishCache, Stamp
<1>5. ViewFits' /\ Verified' /\ SnapshotFits'
  BY <1>1, <1>3, <1>4, ViewRowsWritten
<1>7. \A m \in Msg : mail[m] = "new" => row'[m] = "none"
  BY <1>2 DEF ViewInv, Unborn
<1> QED BY <1>1, <1>5, <1>7, ViewReleased DEF ViewInv

LEMMA ViewFinishRefresh ==
  ASSUME SyncInv, ViewInv, FinishRefresh
  PROVE  ViewInv'
<1> USE DEF loads, loader, observe
<1>1. /\ job = "refresh" /\ queue = {} /\ Project(StoredLabels) /\ Release /\ mail' = mail
      /\ overtaken' = overtaken /\ UNCHANGED <<waiting, base, snap, active, todo, spoiled>>
      /\ IsId(fence)
  BY DEF FinishRefresh, SyncInv, Shape
<1>2. \A m \in Msg \ Reported : /\ m \in Right \/ m \in erased \/ got[m] # "none" => m \in Right'
                                /\ m \in Settled => m \in Settled'
                                /\ got[m] \in StoredLabels => m \in Settled'
  BY <1>1, ProjectFits
<1>3. \A v \in Viewer : touched'[v] \subseteq touched[v] \cup Reported \cup Settled'
  <2> SUFFICES ASSUME NEW v \in Viewer, NEW m \in touched'[v], m \notin touched[v], m \notin Reported
               PROVE  m \in Settled'
    OBVIOUS
  <2>1. m \in Msg /\ got[m] \in StoredLabels
    BY <1>1 DEF Project, Stamp
  <2> QED BY <1>2, <2>1
<1>4. /\ viewMarker' = viewMarker => ViewFits'
      /\ Verified' /\ SnapshotFits'
  BY <1>1, <1>2, <1>3, ViewRowsWritten
<1>5. ViewFits'
  <2>1. CASE viewMarker' = viewMarker
    BY <1>4, <2>1
  <2>2. CASE ~lost /\ viewMarker' = fence
    <3>1. ASSUME overtaken = {}, NEW m \in Msg, m \notin fence PROVE m \in Right'
      <4>1. m \notin Reported
        BY <1>1, <3>1 DEF Reported, Has
      <4>2. m \in erased \cup Seen \cup Right
        BY <1>1, <2>2, <3>1 DEF ViewInv, RefreshFits
      <4>3. m \in Seen => got[m] # "none"
        BY DEF Seen, SyncInv, TypeOK, Mail, StoredLabels, InboxLabels
      <4> QED BY <1>2, <4>1, <4>2, <4>3
    <3> QED BY <1>1, <2>2, <3>1 DEF ViewFits
  <2> QED BY <2>1, <2>2 DEF FinishRefresh
<1>6. \A m \in Msg : mail[m] = "new" => row'[m] = "none"
  <2> SUFFICES ASSUME NEW m \in Msg, mail[m] = "new" PROVE row'[m] = "none"
    OBVIOUS
  <2>1. row[m] = "none" /\ got[m] = "none"
    BY DEF ViewInv, Unborn
  <2> QED BY <1>1, <2>1 DEF Project, StoredLabels, InboxLabels
<1> QED BY <1>1, <1>4, <1>5, <1>6, ViewReleased DEF ViewInv

LEMMA ViewFinishPage ==
  ASSUME SyncInv, ViewInv, FinishPage
  PROVE  ViewInv'
<1> USE DEF loads
<1>1. /\ job = "page" /\ job' = "none" /\ queue = {} /\ Project(StoredLabels) /\ Release /\ mail' = mail
      /\ UNCHANGED <<marker, viewMarker, waiting, base, snap, todo, overtaken>>
  BY DEF FinishPage, observe, Release
<1>2. \A m \in Msg \ Reported : /\ m \in Right \/ m \in erased \/ got[m] # "none" => m \in Right'
                                /\ m \in Settled => m \in Settled'
                                /\ got[m] \in StoredLabels => m \in Settled'
  BY <1>1, ProjectFits
<1>3. \A v \in Viewer :
        /\ active[v] \subseteq active'[v]
        /\ active'[v] \cup touched'[v]
             \subseteq active[v] \cup touched[v] \cup {m \in Msg : got[m] \in StoredLabels}
        /\ viewer = v => {m \in Msg : got[m] \in StoredLabels} \subseteq active'[v]
        /\ spoiled'[v] = (spoiled[v] \/ (viewer = v /\ lost))
  BY DEF FinishPage, Project, Stamp, SyncInv, TypeOK
<1>4. \A x \in Held : IsId(x) => Reported \subseteq x
  BY ReportedIsHeld
<1>7. \A v \in Viewer : snap[v] \in Held
  BY DEF Held
<1>8. ViewFits'
  BY <1>1, <1>2, <1>4 DEF ViewInv, ViewFits, Held
<1>9. Verified'
  <2> SUFFICES ASSUME NEW v \in Viewer, IsId(snap[v]), NEW m \in active'[v] \cup touched'[v]
               PROVE  m \in snap[v] \cup Settled'
    BY <1>1 DEF Verified
  <2>1. m \in Reported => m \in snap[v]
    BY <1>4, <1>7
  <2>2. CASE m \in active[v] \cup touched[v]
    <3>1. m \in snap[v] \cup Settled
      BY <2>2 DEF ViewInv, Verified
    <3> QED BY <1>2, <2>1, <3>1 DEF Settled
  <2>3. CASE m \in Msg /\ got[m] \in StoredLabels
    BY <1>2, <2>1, <2>3
  <2> QED BY <1>3, <2>2, <2>3
<1>10. SnapshotFits'
  <2> SUFFICES ASSUME overtaken = {}, NEW v \in Viewer, IsId(snap[v]), ~spoiled'[v],
                      NEW m \in Beyond(todo[v], mail)
               PROVE  m \in snap[v] \cup (active'[v] \cap Right')
    BY <1>1 DEF SnapshotFits
  <2>1. m \in Reported => m \in snap[v]
    BY <1>4, <1>7
  <2>2. /\ m \in snap[v] \cup (active[v] \cap Right) \cup Coming(v)
        /\ m \in Msg /\ mail[m] \in StoredLabels
    BY <1>3 DEF ViewInv, SnapshotFits, Beyond
  <2>3. m \in Coming(v) => viewer = v /\ got[m] = mail[m]
    BY <1>1, <1>3 DEF Coming, Seen
  <2>4. CASE m \in active[v] \cap Right
    BY <1>2, <1>3, <2>1, <2>2, <2>4
  <2>5. CASE m \in Coming(v)
    <3>1. got[m] # "none" /\ m \in active'[v]
      BY <1>3, <2>2, <2>3, <2>5 DEF StoredLabels, InboxLabels
    <3> QED BY <1>2, <2>1, <2>2, <3>1
  <2> QED BY <2>2, <2>4, <2>5
<1>11. \A m \in Msg : mail[m] = "new" => row'[m] = "none"
  <2> SUFFICES ASSUME NEW m \in Msg, mail[m] = "new" PROVE row'[m] = "none"
    OBVIOUS
  <2>1. row[m] = "none" /\ got[m] = "none"
    BY DEF ViewInv, Unborn
  <2> QED BY <1>1, <2>1 DEF Project, StoredLabels, InboxLabels
<1> QED BY <1>1, <1>8, <1>9, <1>10, <1>11, ViewReleased DEF ViewInv

\* A finished snapshot prunes what it did not verify, and what is left of the
\* messages it has nothing to report of is as it should be.
LEMMA ViewFinishSnapshot ==
  ASSUME SyncInv, ViewInv, NEW v \in Viewer, FinishSnapshot(v)
  PROVE  ViewInv'
<1> USE DEF loads, scratch
<1>1. /\ job = "none" /\ todo[v] = {} /\ snap'[v] = NoMarker
      /\ \A w \in Viewer \ {v} : /\ snap'[w] = snap[w] /\ active'[w] = active[w]
                                 /\ touched'[w] = touched[w] /\ spoiled'[w] = spoiled[w]
      /\ UNCHANGED <<mail, unverified, waiting, base, job, viewer, start, fence, queue, got, todo>>
  BY DEF FinishSnapshot, Free, SyncInv, TypeOK
<1>2. NoRun' /\ CacheReads' /\ RefreshFits'
  BY <1>1 DEF ViewInv, NoRun, CacheReads, RefreshFits
<1>3. ~IsId(NoMarker)
  BY DEF IsId
<1>4. CASE UNCHANGED <<row, marker, viewMarker, overtaken>>
  <2>1. Unborn'
    BY <1>1, <1>4 DEF ViewInv, Unborn
  <2> QED BY <1>1, <1>2, <1>3, <1>4, <2>1, ViewIdsKept DEF ViewInv, Coming
<1>5. CASE /\ ~spoiled[v] /\ viewMarker' = snap[v] /\ marker' \in {marker, snap[v]}
           /\ overtaken' = {} => overtaken = {} /\ \A x \in InUse : ~Later(x, snap[v])
           /\ row' = [m \in Msg |-> IF row[m] # "none" /\ m \notin active[v] /\ m \notin touched[v]
                                    THEN "none" ELSE row[m]]
  <2>1. \A m \in Msg : row'[m] = IF row[m] # "none" /\ m \notin active[v] /\ m \notin touched[v]
                                 THEN "none" ELSE row[m]
    BY <1>5
  <2>2. Unborn'
    BY <1>1, <2>1 DEF ViewInv, Unborn
  <2>3. Settled \subseteq Settled'
    BY <1>1, <2>1 DEF Settled
  <2>5. ASSUME overtaken' = {}, IsId(snap[v]), NEW m \in Msg, m \notin snap[v] PROVE m \in Right'
    <3>1. CASE mail[m] \in StoredLabels
      <4>1. m \in Beyond(todo[v], mail)
        BY <1>1, <3>1 DEF Beyond
      <4>2. m \in active[v] \cap Right
        BY <1>1, <1>5, <2>5, <4>1 DEF ViewInv, SnapshotFits, Coming
      <4> QED BY <1>1, <2>1, <4>2 DEF Right, Shown
    <3>2. CASE mail[m] \notin StoredLabels
      <4>1. m \in active[v] \cup touched[v] => m \in Settled
        BY <2>5 DEF ViewInv, Verified
      <4>2. m \in unverified \/ row'[m] = "none"
        BY <2>1, <3>2, <4>1 DEF Settled
      <4> QED BY <1>1, <3>2, <4>2 DEF Right, Shown
    <3> QED BY <3>1, <3>2
  <2>7. ViewFits'
    BY <1>5, <2>5 DEF ViewFits
  <2>8. Verified'
    <3> SUFFICES ASSUME NEW w \in Viewer \ {v}, IsId(snap[w])
                 PROVE  active[w] \cup touched[w] \subseteq snap[w] \cup Settled'
      BY <1>1, <1>3 DEF Verified
    <3> QED BY <2>3 DEF ViewInv, Verified
  <2>9. SnapshotFits'
    <3> SUFFICES ASSUME overtaken' = {}, NEW w \in Viewer \ {v}, IsId(snap[w]), ~spoiled[w],
                        NEW m \in Beyond(todo[w], mail)
                 PROVE  m \in snap[w] \cup (active[w] \cap Right')
      BY <1>1, <1>3 DEF SnapshotFits
    <3>1. m \in snap[w] \cup (active[w] \cap Right) /\ m \in Msg
      BY <1>1, <1>5 DEF ViewInv, SnapshotFits, Coming, Beyond
    <3>2. IsId(snap[v]) /\ snap[v] \subseteq snap[w]
      <4>1. ~Later(snap[w], snap[v])
        BY <1>5 DEF InUse
      <4>2. snap[v] # NoMarker
        BY DEF FinishSnapshot
      <4>3. IsId(snap[v])
        BY <4>1, <4>2 DEF Later, IsId
      <4>4. snap[w] \subseteq snap[v] \/ snap[v] \subseteq snap[w]
        BY <4>3 DEF SyncInv, Chain, Held
      <4> QED BY <4>1, <4>3, <4>4 DEF Later, IsId
    <3> QED BY <2>5, <3>1, <3>2
  <2> QED BY <1>2, <2>2, <2>7, <2>8, <2>9 DEF ViewInv
<1>6. CASE Superseded(v)
  BY <1>4, <1>6 DEF FinishSnapshot
<1>7. CASE ~Superseded(v)
  BY <1>5, <1>7 DEF FinishSnapshot, Superseded, SyncInv, TypeOK
<1> QED BY <1>6, <1>7

LEMMA ViewStop ==
  ASSUME SyncInv, ViewInv, NEW v \in Viewer, StopSnapshot(v) \/ RefreshExpired(v)
  PROVE  ViewInv'
<1> USE DEF loads, scratch, observe
<1>1. /\ job = "none" /\ viewMarker' \in {viewMarker, NoMarker}
      /\ ~IsId(NoMarker)
      /\ UNCHANGED <<mail, row, unverified, waiting, base, job, viewer, start, fence, queue, got, overtaken>>
  BY DEF StopSnapshot, RefreshExpired, Free, IsId
<1>2. \A w \in Viewer : \/ ~IsId(snap'[w])
                        \/ /\ snap'[w] = snap[w] /\ active'[w] = active[w] /\ touched'[w] \subseteq touched[w]
                           /\ todo'[w] = todo[w] /\ spoiled'[w] = spoiled[w]
  BY <1>1 DEF StopSnapshot, RefreshExpired, loader, SyncInv, TypeOK
<1>3. ViewFits' /\ Verified' /\ SnapshotFits'
  BY <1>1, <1>2, ViewIdsKept DEF Coming
<1> QED BY <1>1, <1>3 DEF ViewInv, NoRun, Unborn, CacheReads, RefreshFits

LEMMA ViewCrash ==
  ASSUME SyncInv, ViewInv, Crash
  PROVE  ViewInv'
<1> USE DEF loads, loader
<1>1. /\ Release /\ UNCHANGED <<mail, row, unverified, viewMarker, waiting, base, overtaken>>
  BY DEF Crash
<1>2. \A w \in Viewer : \/ ~IsId(snap'[w])
                        \/ /\ snap'[w] = snap[w] /\ active'[w] = active[w] /\ touched'[w] \subseteq touched[w]
                           /\ todo'[w] = todo[w] /\ spoiled'[w] = spoiled[w]
                           /\ Coming(w) = {}
  BY DEF Crash, SyncInv, TypeOK, IsId, Coming
<1>3. ViewFits' /\ Verified' /\ SnapshotFits'
  BY <1>1, <1>2, ViewIdsKept
<1>4. \A m \in Msg : mail[m] = "new" => row'[m] = "none"
  BY <1>1 DEF ViewInv, Unborn
<1> QED BY <1>1, <1>3, <1>4, ViewReleased DEF ViewInv

LEMMA ViewUncache ==
  ASSUME SyncInv, ViewInv, Uncache
  PROVE  ViewInv'
<1> USE DEF loads, scratch, loader
<1>1. /\ job = "none" /\ row' = [m \in Msg |-> "none"] /\ viewMarker' = NoMarker
      /\ overtaken' = {} => \A v \in Viewer : snap[v] = NoMarker
      /\ \A v \in Viewer : touched'[v] = {}
      /\ ~IsId(NoMarker)
      /\ UNCHANGED <<mail, waiting, base, job, viewer, start, fence, queue, got, snap, active, todo, spoiled>>
  BY DEF Uncache, Free, Stamp, IsId, SyncInv, TypeOK
<1>2. Msg \subseteq Settled'
  BY <1>1 DEF Settled
<1>3. Verified'
  <2>1. \A v \in Viewer : active[v] \subseteq Msg
    BY DEF SyncInv, TypeOK
  <2> QED BY <1>1, <1>2, <2>1 DEF Verified
<1>4. SnapshotFits' /\ ViewFits'
  BY <1>1 DEF SnapshotFits, ViewFits
<1> QED BY <1>1, <1>3, <1>4 DEF ViewInv, NoRun, Unborn, CacheReads, RefreshFits

\* A row action that changed nothing at Gmail leaves a row that is right, or
\* that no session verified.
LEMMA ViewEdit ==
  ASSUME SyncInv, ViewInv, NEW v \in Viewer, NEW m \in Msg, RowAction(v, m)
  PROVE  ViewInv'
<1>1. OnlyFor(m) /\ Reflected(m)
  BY RowActions DEF SyncInv
<1>2. CASE Changed(m) /\ mail[m] \in StoredLabels /\ mail'[m] \in StoredLabels
  <2>1. mail[m] # "gone" /\ mail'[m] # "new"
    BY <1>2 DEF StoredLabels, InboxLabels
  <2> QED BY <1>1, <1>2, <2>1, ViewMailChanged DEF OnlyFor
<1>3. CASE /\ mail' = mail /\ Unnoticed /\ mail[m] # "new"
           /\ m \in unverified' \/ Verbatim(m)
  <2>1. UNCHANGED <<marker, viewMarker, base, start, fence, snap>>
    BY <1>3 DEF Unnoticed
  <2>2. m \in Right' /\ m \in Settled'
    BY <1>3 DEF Right, Settled, Shown, Verbatim
  <2>3. Right \subseteq Right' /\ Settled \subseteq Settled'
    BY <1>1, <2>2 DEF OnlyFor, Right, Settled, Shown
  <2>5. ViewFits'
    BY <1>1, <2>1, <2>3 DEF OnlyFor, ViewInv, ViewFits
  <2>6. Verified'
    BY <1>1, <2>1, <2>2, <2>3 DEF OnlyFor, ViewInv, Verified
  <2>7. SnapshotFits'
    <3> SUFFICES ASSUME overtaken = {}, NEW w \in Viewer, IsId(snap[w]), ~spoiled[w]
                 PROVE  Beyond(todo[w], mail) \subseteq snap[w] \cup (active'[w] \cap Right')
      BY <1>1, <1>3, <2>1 DEF OnlyFor, SnapshotFits
    <3>1. Beyond(todo[w], mail) \subseteq snap[w] \cup (active[w] \cap Right)
      BY <1>1 DEF OnlyFor, ViewInv, SnapshotFits, Coming, Free
    <3>2. active[w] \subseteq active'[w]
      BY <1>1 DEF OnlyFor
    <3> QED BY <2>3, <3>1, <3>2
  <2>8. Unborn'
    BY <1>1, <1>3 DEF OnlyFor, ViewInv, Unborn
  <2> QED BY <1>1, <2>1, <2>5, <2>6, <2>7, <2>8
          DEF OnlyFor, ViewInv, NoRun, CacheReads, RefreshFits, Free
<1> QED BY <1>1, <1>2, <1>3 DEF Reflected

LEMMA ViewStep ==
  ASSUME "work" \notin Commands, SyncInv, ViewInv, [Next]_vars
  PROVE  ViewInv'
<1>1. ASSUME Outside PROVE ViewInv'
  <2>1. ASSUME NEW m \in Msg, Deliver(m) \/ DeleteForever(m) \/ \E l \in StoredLabels : Relabel(m, l)
        PROVE  ViewInv'
    <3>1. /\ Changed(m) /\ mail[m] # "gone" /\ mail'[m] # "new"
          /\ \A k \in Msg \ {m} : mail'[k] = mail[k]
          /\ UNCHANGED <<row, active, touched, waiting, job, viewer, phase, queue, erased, got, lost,
                         todo, spoiled, overtaken>>
      BY <2>1 DEF Deliver, DeleteForever, Relabel, SyncInv, TypeOK, StoredLabels, InboxLabels, observe
    <3> QED BY <3>1, ViewMailChanged
  <2> QED BY <1>1, <2>1, ViewExpire DEF Outside
<1>2. ASSUME Reading PROVE ViewInv'
  BY <1>2, ViewFetch DEF Reading
<1>3. ASSUME Working PROVE ViewInv'
  <2>1. job # "work" /\ waiting = {} /\ phase \notin {"planned", "apply", "record"}
    BY DEF ViewInv, NoRun, SyncInv, Shape
  <2>2. ListInbox
    BY <1>3, <2>1 DEF Working, LoadAccount, LockForWork, DiscoverCached, DiscoverHistory, ReadProfile,
       PlanActions, StartApplying, Mutate, RecordResults, Checkpoint
  <2> QED BY <2>2, ViewList
<1>4. ASSUME Caching PROVE ViewInv'
  BY <1>4, ViewBegin, ViewFlush, ViewFlushFails, ViewFinishCache, ViewUncache DEF Caching
<1>5. ASSUME Viewing PROVE ViewInv'
  BY <1>5, ViewBegin, ViewFinishSnapshot, ViewStop, ViewList, ViewEdit DEF Viewing, RunInSession
<1>6. ASSUME NEW p \in Proc, GiveUp(p) PROVE ViewInv'
  BY <1>6 DEF GiveUp, ViewInv, NoRun
<1>7. ASSUME UNCHANGED vars PROVE ViewInv'
  <2>1. /\ Right' = Right /\ Settled' = Settled
        /\ Held' = Held /\ Scope' = Scope /\ Reported' = Reported
    BY <1>7, SameRows DEF vars, Held, Scope, InScope, Reported, Has, IsId
  <2>2. \A v \in Viewer : Coming(v)' = Coming(v)
    BY <1>7 DEF vars, Coming, Seen
  <2>3. NoRun' /\ Unborn' /\ CacheReads'
    BY <1>7, <2>1 DEF vars, ViewInv, NoRun, Unborn, CacheReads
  <2>4. ViewFits' /\ Verified'
    BY <1>7, <2>1 DEF vars, ViewInv, ViewFits, Verified
  <2>5. RefreshFits'
    BY <1>7, <2>1 DEF vars, ViewInv, RefreshFits, Seen
  <2>6. SnapshotFits'
    BY <1>7, <2>1, <2>2 DEF vars, ViewInv, SnapshotFits
  <2> QED BY <2>3, <2>4, <2>5, <2>6 DEF ViewInv
<1> QED BY <1>1, <1>2, <1>3, <1>4, <1>5, <1>6, <1>7, ViewFinishPage, ViewFinishRefresh, ViewCrash DEF Next

LEMMA InitView == Init => ViewInv
<1> SUFFICES ASSUME Init PROVE ViewInv
  OBVIOUS
<1>1. /\ waiting = {} /\ job = "none" /\ base = [p \in Proc |-> NoMarker]
      /\ viewMarker = NoMarker /\ ~IsId(NoMarker)
      /\ \A v \in Viewer : snap[v] = NoMarker
      /\ \A m \in Msg : row[m] = "none" /\ got[m] = "none"
  BY DEF Init, IsId, NothingFetched
<1> QED BY <1>1 DEF ViewInv, NoRun, Unborn, CacheReads, ViewFits,
                    RefreshFits, Verified, SnapshotFits

\* As long as nobody runs a cleanup beside the view, what did not change since its
\* marker is shown where it is, and nothing else is shown, whatever snapshots,
\* refreshes, uncaches, crashes and row actions interleave; but for the rows that a
\* row action last wrote, or kept, while Gmail had nothing to change.
THEOREM ViewIsComplete ==
  ASSUME "work" \notin Commands
  PROVE  Spec => []ViewComplete
<1>1. SyncInv /\ ViewInv /\ [Next]_vars => (SyncInv /\ ViewInv)'
  BY SyncStep, ViewStep
<1>2. ViewInv => ViewComplete
  BY DEF ViewInv, ViewFits, Right, ViewComplete
<1> QED BY InitSync, InitView, <1>1, <1>2, PTL DEF Spec
=============================================================================
