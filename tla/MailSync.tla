------------------------------ MODULE MailSync ------------------------------
(***************************************************************************)
(* How the local cache of a mailbox, the two Gmail history markers and the *)
(* action ledger are kept consistent with a mailbox that changes all the   *)
(* time: `gmail` (src/commands/work.ts over core/orchestrator.ts), `gmail  *)
(* cache`, `gmail uncache` and the `gmail view` session (view-sync.ts,     *)
(* view-cache.ts and the row actions of commands/view.ts).                 *)
(*                                                                         *)
(* A Gmail history id is modelled by what it lets its holder still learn:  *)
(* the set of messages that changed after it.  Every change of a message   *)
(* adds the message to every history id held anywhere, a fresh id is the   *)
(* empty set, and one id is greater than another when strictly fewer       *)
(* changes follow it.  Ids older than Gmail's retention are Expired.       *)
(*                                                                         *)
(* At most one command at a time owns the account lock (ProcessLock.tla),  *)
(* so the memory of the owner is kept in one set of variables; what a      *)
(* process reads before it owns the lock is kept per process.              *)
(***************************************************************************)
EXTENDS Naturals, FiniteSets

CONSTANTS
  Msg,         \* Gmail message ids
  Proc,        \* processes that may run `gmail`, each one run at a time
  Viewer,      \* `gmail view` sessions
  Commands,    \* the commands that are used
  MaxFaults,   \* bound on read, write and classifier failures and crashes
  NoMarker,    \* SQL NULL: no history id stored
  Expired      \* a stored id for which history.list answers 404

AllCommands == {"work", "cache", "uncache", "refresh", "snapshot", "edit"}

ASSUME MarkerAssumption ==
  /\ \A S \in SUBSET Msg : S # NoMarker /\ S # Expired
  /\ NoMarker # Expired
ASSUME BoundAssumption == MaxFaults \in Nat
ASSUME CommandAssumption == Commands \subseteq AllCommands

VARIABLES
  mail,        \* Gmail: where each message is, and whether it is read
  row,         \* SQLite messages: the label snapshot of each row
  done,        \* rows whose evaluation completed under the current versions
  touched,     \* per viewer: rows with processedAt >= its snapshot's start
  marker,      \* SQLite accounts.history_marker
  viewMarker,  \* SQLite settings.viewHistoryMarker
  refreshed,   \* a refresh time is stored, so the cache can be "fresh"
  ledger,      \* SQLite actions: status of the message's Gmail mutation
  waiting,     \* processes that loaded the account and wait for the lock
  base,        \* account.historyMarker as such a process loaded it
  job,         \* the command that owns the account lock
  viewer,      \* the session that refreshes or loads a page
  phase,       \* where that command is
  mode,        \* how the work run discovered its messages
  start,       \* the work run's own copy of the marker it loaded
  fence,       \* the history id the command will store if all goes well
  queue,       \* message stubs still to be fetched
  erased,      \* ids that history reported deleted
  got,         \* labels fetched for each message
  assessed,    \* messages whose evaluation completed in this run
  lost,        \* some read failed
  cut,         \* --limit left something out
  acts,        \* messages whose mutation is planned or in flight
  hit,         \* messages whose mutation Gmail accepted
  snap,        \* per viewer: history id of the snapshot being loaded
  active,      \* per viewer: ids that snapshot verified
  todo,        \* per viewer: folders that snapshot has not loaded
  spoiled,     \* per viewer: a read of that snapshot failed
  overtaken,   \* observer: what a command did under a history id in use
  unverified,  \* observer: messages whose row a session last wrote, or kept,
               \* from its screen while Gmail had nothing to change
  faults       \* failures so far

store   == <<row, done, touched, marker, viewMarker, refreshed, ledger>>
loads   == <<waiting, base>>
scratch == <<job, viewer, phase, mode, start, fence, queue, erased, got,
             assessed, lost, cut, acts, hit>>
loader  == <<snap, active, todo, spoiled>>
observe == <<overtaken, unverified, faults>>
vars == <<mail, row, done, touched, marker, viewMarker, refreshed, ledger,
          waiting, base, job, viewer, phase, mode, start, fence, queue, erased,
          got, assessed, lost, cut, acts, hit, snap, active, todo, spoiled,
          overtaken, unverified, faults>>

-----------------------------------------------------------------------------
\* INBOX and SPAM, the two input streams of a cleanup run, are one location
\* with two label sets; Archive and Trash are the location "filed".
InboxLabels  == {"unread", "read"}
StoredLabels == InboxLabels \cup {"filed"}
Mail         == StoredLabels \cup {"new", "gone"}
CacheLabels  == StoredLabels \cup {"none"}
Fetched      == CacheLabels \cup {"gone"}
Folders      == {"inbox", "filed"}
InFolder(f)  == {m \in Msg : mail[m] \in (IF f = "inbox" THEN InboxLabels
                                          ELSE {"filed"})}

Markers    == {NoMarker, Expired} \cup SUBSET Msg
IsId(x)    == x # NoMarker /\ x # Expired
Bump(x, m) == IF IsId(x) THEN x \cup {m} ELSE x
Fresh      == {}

\* historyIdGreaterThan, on ids that are both present.
Later(x, y) == /\ IsId(x) /\ y # NoMarker
               /\ y # Expired => x \subseteq y /\ x # y

Jobs     == {"none", "work", "cache", "refresh", "page"}
Phases   == {"none", "plan", "list", "fetch", "planned", "apply", "record"}
Modes    == {"none", "full", "history", "cacheFirst"}
Statuses == {"none", "planned", "applying", "applied", "failed_retryable",
             "unknown_no_retry"}

\* The types of the stored and the working state.
TypeOK ==
  /\ mail \in [Msg -> Mail]
  /\ row \in [Msg -> CacheLabels]
  /\ done \in SUBSET Msg
  /\ touched \in [Viewer -> SUBSET Msg]
  /\ marker \in Markers
  /\ viewMarker \in Markers
  /\ refreshed \in BOOLEAN
  /\ ledger \in [Msg -> Statuses]
  /\ waiting \in SUBSET Proc
  /\ base \in [Proc -> Markers]
  /\ job \in Jobs
  /\ viewer \in Viewer \cup {"none"}
  /\ phase \in Phases
  /\ mode \in Modes
  /\ start \in Markers
  /\ fence \in Markers
  /\ queue \in SUBSET Msg
  /\ erased \in SUBSET Msg
  /\ got \in [Msg -> Fetched]
  /\ assessed \in SUBSET Msg
  /\ lost \in BOOLEAN
  /\ cut \in BOOLEAN
  /\ acts \in SUBSET Msg
  /\ hit \in SUBSET Msg
  /\ snap \in [Viewer -> Markers]
  /\ active \in [Viewer -> SUBSET Msg]
  /\ todo \in [Viewer -> SUBSET Folders]
  /\ spoiled \in [Viewer -> BOOLEAN]
  /\ overtaken \in SUBSET {"uncache", "prune"}
  /\ unverified \in SUBSET Msg
  /\ faults \in Nat

NothingFetched == [m \in Msg |-> "none"]

Init ==
  /\ mail \in [Msg -> {"new", "unread"}]
  /\ row = [m \in Msg |-> "none"]
  /\ done = {} /\ touched = [v \in Viewer |-> {}]
  /\ marker = NoMarker /\ viewMarker = NoMarker /\ refreshed = FALSE
  /\ ledger = [m \in Msg |-> "none"]
  /\ waiting = {} /\ base = [p \in Proc |-> NoMarker]
  /\ job = "none" /\ viewer = "none" /\ phase = "none" /\ mode = "none"
  /\ start = NoMarker /\ fence = NoMarker
  /\ queue = {} /\ erased = {} /\ got = NothingFetched /\ assessed = {}
  /\ lost = FALSE /\ cut = FALSE /\ acts = {} /\ hit = {}
  /\ snap = [v \in Viewer |-> NoMarker] /\ active = [v \in Viewer |-> {}]
  /\ todo = [v \in Viewer |-> {}] /\ spoiled = [v \in Viewer |-> FALSE]
  /\ overtaken = {} /\ unverified = {} /\ faults = 0

\* The owner lets go of the account lock and forgets its working memory.
Release ==
  /\ job' = "none" /\ viewer' = "none" /\ phase' = "none" /\ mode' = "none"
  /\ start' = NoMarker /\ fence' = NoMarker
  /\ queue' = {} /\ erased' = {} /\ got' = NothingFetched /\ assessed' = {}
  /\ lost' = FALSE /\ cut' = FALSE /\ acts' = {} /\ hit' = {}

Fault == faults < MaxFaults /\ faults' = faults + 1

Free == job = "none"

\* processedAt := now for the rows S, and the rows D are deleted.
Stamp(S, D) ==
  touched' = [v \in Viewer |-> IF snap[v] = NoMarker THEN {}
                               ELSE (touched[v] \cup S) \ D]

-----------------------------------------------------------------------------
(* Gmail and its other clients.  Every history id held anywhere gets to    *)
(* know about the change.                                                  *)

Changed(m) ==
  /\ unverified' = unverified \ {m}
  /\ marker' = Bump(marker, m)
  /\ viewMarker' = Bump(viewMarker, m)
  /\ base' = [p \in Proc |-> Bump(base[p], m)]
  /\ start' = Bump(start, m)
  /\ fence' = Bump(fence, m)
  /\ snap' = [v \in Viewer |-> Bump(snap[v], m)]

\* A write that changed nothing leaves no trace in the history.
Unnoticed == UNCHANGED <<marker, viewMarker, base, start, fence, snap>>

Deliver(m) ==
  /\ mail[m] = "new"
  /\ mail' = [mail EXCEPT ![m] = "unread"]
  /\ Changed(m)
  /\ UNCHANGED <<row, done, touched, refreshed, ledger, waiting, job, viewer,
                 phase, mode, queue, erased, got, assessed, lost, cut, acts,
                 hit, active, todo, spoiled, overtaken,
                 faults>>

Relabel(m, l) ==
  /\ mail[m] \in StoredLabels /\ l \in StoredLabels /\ l # mail[m]
  /\ mail' = [mail EXCEPT ![m] = l]
  /\ Changed(m)
  /\ UNCHANGED <<row, done, touched, refreshed, ledger, waiting, job, viewer,
                 phase, mode, queue, erased, got, assessed, lost, cut, acts,
                 hit, active, todo, spoiled, overtaken,
                 faults>>

DeleteForever(m) ==
  /\ mail[m] \in StoredLabels
  /\ mail' = [mail EXCEPT ![m] = "gone"]
  /\ Changed(m)
  /\ UNCHANGED <<row, done, touched, refreshed, ledger, waiting, job, viewer,
                 phase, mode, queue, erased, got, assessed, lost, cut, acts,
                 hit, active, todo, spoiled, overtaken,
                 faults>>

\* Gmail forgets the history up to some stored id, and with it every older one.
Expire(x) ==
  LET Aged(y) == IF IsId(y) /\ x \subseteq y THEN Expired ELSE y IN
  /\ Free /\ IsId(x)
  /\ marker' = Aged(marker)
  /\ viewMarker' = Aged(viewMarker)
  /\ base' = [p \in Proc |-> Aged(base[p])]
  /\ snap' = [v \in Viewer |-> Aged(snap[v])]
  /\ UNCHANGED <<mail, row, done, touched, refreshed, ledger, waiting,
                 scratch, active, todo, spoiled, observe>>

-----------------------------------------------------------------------------
(* A cleanup run.                                                          *)

\* runWork resolves the account, and with it account.historyMarker, before
\* it acquires the lock.
LoadAccount(p) ==
  /\ "work" \in Commands /\ p \notin waiting
  /\ waiting' = waiting \cup {p}
  /\ base' = [base EXCEPT ![p] = marker]
  /\ UNCHANGED <<mail, store, scratch, loader, observe>>

\* The lock stayed busy for DEFAULT_LOCK_WAIT_MS.
GiveUp(p) ==
  /\ p \in waiting /\ ~Free
  /\ waiting' = waiting \ {p}
  /\ base' = [base EXCEPT ![p] = NoMarker]
  /\ UNCHANGED <<mail, store, scratch, loader, observe>>

LockForWork(p) ==
  /\ Free /\ p \in waiting
  /\ job' = "work" /\ phase' = "plan"
  /\ start' = base[p]
  /\ waiting' = waiting \ {p}
  /\ base' = [base EXCEPT ![p] = NoMarker]
  /\ UNCHANGED <<mail, store, viewer, mode, fence, queue, erased, got,
                 assessed, lost, cut, acts, hit, loader, observe>>

\* The run a view session starts: it owns the lock already when it loads the
\* account.
RunInSession ==
  /\ {"work", "edit"} \subseteq Commands /\ Free
  /\ job' = "work" /\ phase' = "plan"
  /\ start' = marker
  /\ UNCHANGED <<mail, store, loads, viewer, mode, fence, queue, erased, got,
                 assessed, lost, cut, acts, hit, loader, observe>>

\* Mutant: only the failed writes are taken up again.
FailedWrites == {m \in Msg : ledger[m] = "failed_retryable"}

\* selectCachedBacklogStubs plus listRetryableMessageStubs.
Backlog == {m \in Msg : row[m] \in InboxLabels /\ m \notin done}
           \cup {m \in Msg : ledger[m] = "failed_retryable"}

ChangedSince(x) == {m \in x : mail[m] \in StoredLabels}
DeletedSince(x) == {m \in x : mail[m] = "gone"}

\* --limit keeps some of the queue; what it leaves out makes the scan cut.
Select(all) ==
  \E kept \in SUBSET all :
    /\ kept # {} \/ all = {}
    /\ queue' = kept
    /\ cut' = (kept # all)

\* preferCache: no history request, the marker is carried through.
DiscoverCached ==
  /\ job = "work" /\ phase = "plan"
  /\ start # NoMarker /\ Backlog # {} /\ refreshed
  /\ mode' = "cacheFirst" /\ phase' = "fetch"
  /\ fence' = start
  /\ Select(Backlog)
  /\ UNCHANGED <<mail, store, loads, job, viewer, start, erased, got,
                 assessed, lost, acts, hit, loader, observe>>

DiscoverHistory ==
  /\ job = "work" /\ phase = "plan"
  /\ IsId(start)
  /\ mode' = "history" /\ phase' = "fetch"
  /\ fence' = Fresh
  /\ erased' = DeletedSince(start)
  /\ Select((Backlog \ DeletedSince(start)) \cup ChangedSince(start))
  /\ UNCHANGED <<mail, store, loads, job, viewer, start, got, assessed, lost,
                 acts, hit, loader, observe>>

\* No marker, or history.list answered 404: read the profile's history id,
\* then list Inbox and Spam.
ReadProfile ==
  /\ job = "work" /\ phase = "plan"
  /\ ~IsId(start)
  /\ mode' = "full" /\ phase' = "list"
  /\ fence' = Fresh
  /\ UNCHANGED <<mail, store, loads, job, viewer, start, queue, erased, got,
                 assessed, lost, cut, acts, hit, loader, observe>>

ListInbox ==
  /\ job \in {"work", "cache"} /\ phase = "list"
  /\ phase' = "fetch"
  /\ Select(InFolder("inbox"))
  /\ UNCHANGED <<mail, store, loads, job, viewer, mode, start, fence, erased,
                 got, assessed, lost, acts, hit, loader, observe>>

\* messages.get of one queued message, which is assessed under the labels it
\* had then; `ok` is false when the classifier was unavailable.
Fetch(m, ok) ==
  /\ phase = "fetch" /\ m \in queue
  /\ mail[m] \in StoredLabels
  /\ queue' = queue \ {m}
  /\ got' = [got EXCEPT ![m] = mail[m]]
  /\ IF job = "work" /\ mail[m] \in InboxLabels /\ ok
       THEN assessed' = assessed \cup {m} ELSE UNCHANGED assessed
  /\ IF ok THEN UNCHANGED faults ELSE job = "work" /\ Fault
  /\ UNCHANGED <<mail, store, loads, job, viewer, phase, mode, start, fence,
                 erased, lost, cut, acts, hit, loader, overtaken,
                 unverified>>

\* A deleted message answers 404: view evicts it, a cleanup run and
\* `gmail cache` count a failed read.
FetchGone(m) ==
  /\ phase = "fetch" /\ m \in queue
  /\ mail[m] = "gone"
  /\ queue' = queue \ {m}
  /\ IF job \in {"work", "cache"}
       THEN lost' = TRUE /\ UNCHANGED got
       ELSE got' = [got EXCEPT ![m] = "gone"] /\ UNCHANGED lost
  /\ UNCHANGED <<mail, store, loads, job, viewer, phase, mode, start, fence,
                 erased, assessed, cut, acts, hit, loader, observe>>

FetchFails(m) ==
  /\ phase = "fetch" /\ m \in queue
  /\ Fault
  /\ queue' = queue \ {m}
  /\ lost' = TRUE
  /\ UNCHANGED <<mail, store, loads, job, viewer, phase, mode, start, fence,
                 erased, got, assessed, cut, acts, hit, loader, overtaken,
                 unverified>>

\* The scan is over.  Actions a crash left `applying` become
\* unknown_no_retry, and the messages the policy acts on are (re)planned:
\* every status but the terminal `applied` goes back to `planned`.
PlanActions ==
  /\ job = "work" /\ phase = "fetch" /\ queue = {}
  /\ \E A \in SUBSET {m \in Msg : got[m] \in InboxLabels} :
       /\ acts' = A
       /\ ledger' = [m \in Msg |->
            IF m \in A /\ ledger[m] # "applied" THEN "planned"
            ELSE IF ledger[m] = "applying" THEN "unknown_no_retry"
            ELSE ledger[m]]
  /\ phase' = "planned"
  /\ UNCHANGED <<mail, row, done, touched, marker, viewMarker, refreshed,
                 loads, job, viewer, mode, start, fence, queue, erased, got,
                 assessed, lost, cut, hit, loader, observe>>

StartApplying ==
  /\ job = "work" /\ phase = "planned"
  /\ ledger' = [m \in Msg |-> IF m \in acts THEN "applying" ELSE ledger[m]]
  /\ phase' = "apply"
  /\ UNCHANGED <<mail, row, done, touched, marker, viewMarker, refreshed,
                 loads, job, viewer, mode, start, fence, queue, erased, got,
                 assessed, lost, cut, acts, hit, loader, observe>>

\* Gmail applies the mutation that moves m out of Inbox and Spam.
Mutate(m) ==
  /\ phase = "apply" /\ m \in acts \ hit
  /\ mail[m] \in StoredLabels
  /\ mail' = [mail EXCEPT ![m] = "filed"]
  /\ hit' = hit \cup {m}
  /\ IF mail[m] = "filed" THEN Unnoticed /\ UNCHANGED unverified
                           ELSE Changed(m)
  /\ UNCHANGED <<row, done, touched, refreshed, ledger, waiting, job, viewer,
                 phase, mode, queue, erased, got, assessed, lost, cut, acts,
                 active, todo, spoiled, overtaken, faults>>

\* The batches have answered; what did not succeed is failed_retryable.
RecordResults ==
  /\ phase = "apply"
  /\ IF \A m \in acts \ hit : mail[m] = "gone" THEN UNCHANGED faults ELSE Fault
  /\ ledger' = [m \in Msg |-> IF m \in hit THEN "applied"
                              ELSE IF m \in acts THEN "failed_retryable"
                              ELSE ledger[m]]
  /\ phase' = "record"
  /\ UNCHANGED <<mail, row, done, touched, marker, viewMarker, refreshed,
                 loads, job, viewer, mode, start, fence, queue, erased, got,
                 assessed, lost, cut, acts, hit, loader, overtaken,
                 unverified>>

\* Mutant: a failed read is forgotten.
MarkerDespiteLoss == IF cut THEN NoMarker ELSE fence
\* What the scan earned: null for a cut scan and for a full scan with a
\* failed read, the old marker for an incremental scan with a failed read.
NewMarker == IF cut \/ (lost /\ mode = "full") THEN NoMarker
             ELSE IF lost THEN start ELSE fence

\* persistCheckpoint: one transaction, then the lock is released.
Checkpoint ==
  LET kept    == {m \in Msg : got[m] \in InboxLabels}
      evicted == erased \cup {m \in Msg : got[m] = "filed"} IN
  /\ job = "work" /\ phase = "record"
  /\ row' = [m \in Msg |-> IF m \in evicted THEN "none"
                           ELSE IF m \in hit THEN "filed"
                           ELSE IF m \in kept THEN got[m] ELSE row[m]]
  /\ done' = (done \ (evicted \cup kept)) \cup (kept \cap assessed)
  /\ unverified' = unverified \ (evicted \cup kept \cup hit)
  /\ Stamp(kept, evicted)
  /\ marker' = IF NewMarker = NoMarker THEN marker ELSE NewMarker
  /\ Release
  /\ UNCHANGED <<mail, viewMarker, refreshed, ledger, loads, loader, overtaken,
                 faults>>

-----------------------------------------------------------------------------
(* `gmail cache` and `gmail uncache`.                                      *)

LockForCache ==
  /\ "cache" \in Commands /\ Free
  /\ job' = "cache" /\ phase' = "list"
  /\ fence' = Fresh
  /\ UNCHANGED <<mail, store, loads, viewer, mode, start, queue, erased, got,
                 assessed, lost, cut, acts, hit, loader, observe>>

\* projectHydratedCacheMessage over the fetched messages: a row keeps its
\* evaluation and its processedAt only under unchanged labels; a message
\* outside `scope` loses its row, and so does one history reported deleted.
Project(scope) ==
  LET hydrated == {m \in Msg : got[m] \in scope}
      dropped  == erased \cup {m \in Msg : got[m] # "none" /\ got[m] \notin scope}
      same     == {m \in hydrated : row[m] = got[m]} IN
  /\ row' = [m \in Msg |-> IF m \in dropped THEN "none"
                           ELSE IF m \in hydrated THEN got[m] ELSE row[m]]
  /\ done' = done \ ((hydrated \ same) \cup dropped)
  /\ unverified' = unverified \ (hydrated \cup dropped)
  /\ Stamp(hydrated \ same, dropped)

\* flushCache writes what was fetched so far, fifty results at a time.
Flush ==
  /\ job = "cache" /\ phase = "fetch"
  /\ Project(InboxLabels)
  /\ UNCHANGED <<mail, marker, viewMarker, refreshed, ledger, loads, scratch,
                 loader, overtaken, faults>>

\* A failed transaction stores none of the pending rows.
FlushFails ==
  /\ job = "cache" /\ phase = "fetch" /\ got # NothingFetched
  /\ Fault
  /\ got' = NothingFetched
  /\ lost' = TRUE
  /\ UNCHANGED <<mail, store, loads, job, viewer, phase, mode, start, fence,
                 queue, erased, assessed, cut, acts, hit, loader, overtaken,
                 unverified>>

Flushed == \A m \in Msg : /\ got[m] \in InboxLabels => row[m] = got[m]
                          /\ got[m] = "filed" => row[m] = "none"

\* Only a complete snapshot removes the Inbox rows it did not see and earns
\* its history id as the marker.
FinishCache ==
  LET complete == ~lost /\ ~cut
      stale    == {m \in Msg : row[m] \in InboxLabels /\ got[m] = "none"} IN
  /\ job = "cache" /\ phase = "fetch" /\ queue = {} /\ Flushed
  /\ IF complete
       THEN /\ row' = [m \in Msg |-> IF m \in stale THEN "none" ELSE row[m]]
            /\ done' = done \ stale
            /\ Stamp({}, stale)
            /\ marker' = fence
       ELSE UNCHANGED <<row, done, touched, marker>>
  /\ refreshed' = TRUE
  /\ Release
  /\ UNCHANGED <<mail, viewMarker, ledger, loads, loader, observe>>

\* One transaction under the lock.  The refresh time of the view is deleted,
\* that of `gmail cache` is not.
Uncache ==
  /\ "uncache" \in Commands /\ Free
  /\ row' = [m \in Msg |-> "none"]
  /\ done' = {}
  /\ Stamp({}, Msg)
  /\ marker' = NoMarker /\ viewMarker' = NoMarker
  /\ refreshed' \in {refreshed, FALSE}
  /\ overtaken' = IF \/ \E p \in Proc : base[p] # NoMarker
                     \/ \E v \in Viewer : snap[v] # NoMarker
                   THEN overtaken \cup {"uncache"} ELSE overtaken
  /\ unverified' = {}
  /\ UNCHANGED <<mail, ledger, loads, scratch, loader, faults>>

-----------------------------------------------------------------------------
(* A `gmail view` session.                                                 *)

\* ensureProfile: the snapshot's history id and start time.  The session
\* looked for a marker before; another one may have stored it meanwhile.
StartSnapshot(v) ==
  /\ "snapshot" \in Commands /\ Free
  /\ snap[v] = NoMarker
  /\ viewMarker = NoMarker \/ Viewer # {v}
  /\ snap' = [snap EXCEPT ![v] = Fresh]
  /\ active' = [active EXCEPT ![v] = {}]
  /\ touched' = [touched EXCEPT ![v] = {}]
  /\ todo' = [todo EXCEPT ![v] = Folders]
  /\ spoiled' = [spoiled EXCEPT ![v] = FALSE]
  /\ UNCHANGED <<mail, row, done, marker, viewMarker, refreshed, ledger,
                 loads, scratch, observe>>

\* loadNextPage: one lock acquisition per chunk; here a folder is one chunk.
ListPage(v, f) ==
  /\ Free /\ snap[v] # NoMarker /\ f \in todo[v]
  /\ job' = "page" /\ viewer' = v /\ phase' = "fetch"
  /\ queue' = InFolder(f)
  /\ todo' = [todo EXCEPT ![v] = @ \ {f}]
  /\ UNCHANGED <<mail, store, loads, mode, start, fence, erased, got,
                 assessed, lost, cut, acts, hit, snap, active, spoiled,
                 observe>>

FinishPage ==
  /\ job = "page" /\ phase = "fetch" /\ queue = {}
  /\ Project(StoredLabels)
  /\ active' = [active EXCEPT ![viewer] =
                  @ \cup {m \in Msg : got[m] \in StoredLabels}]
  /\ spoiled' = [spoiled EXCEPT ![viewer] = @ \/ lost]
  /\ Release
  /\ UNCHANGED <<mail, marker, viewMarker, refreshed, ledger, loads, snap,
                 todo, overtaken, faults>>

\* History ids that someone may still certify or scan from.
InUse == {marker} \cup {base[p] : p \in Proc} \cup {snap[v] : v \in Viewer}

\* Some read of the snapshot failed, or another view certified one as new.
Superseded(v) ==
  spoiled[v] \/ (viewMarker # NoMarker /\ ~Later(snap[v], viewMarker))

\* finalizeCompleteSnapshot
FinishSnapshot(v) ==
  LET stale == {m \in Msg : /\ row[m] # "none"
                            /\ m \notin active[v] /\ m \notin touched[v]} IN
  /\ Free /\ snap[v] # NoMarker /\ todo[v] = {}
  /\ IF Superseded(v)
       THEN UNCHANGED <<row, done, marker, viewMarker, refreshed, overtaken>>
       ELSE /\ row' = [m \in Msg |-> IF m \in stale THEN "none" ELSE row[m]]
            /\ done' = done \ stale
            /\ viewMarker' = snap[v]
            /\ marker' = IF marker = NoMarker \/ Later(snap[v], marker)
                           THEN snap[v] ELSE marker
            /\ refreshed' = TRUE
            /\ overtaken' = IF \E x \in InUse : Later(x, snap[v])
                              THEN overtaken \cup {"prune"} ELSE overtaken
  /\ snap' = [snap EXCEPT ![v] = NoMarker]
  /\ active' = [active EXCEPT ![v] = {}]
  /\ touched' = [touched EXCEPT ![v] = {}]
  /\ spoiled' = [spoiled EXCEPT ![v] = FALSE]
  /\ UNCHANGED <<mail, ledger, loads, scratch, todo, unverified, faults>>

\* The session stops its loader: it ends, or the user asks for a refresh.
StopSnapshot(v) ==
  /\ Free /\ snap[v] # NoMarker
  /\ snap' = [snap EXCEPT ![v] = NoMarker]
  /\ active' = [active EXCEPT ![v] = {}]
  /\ touched' = [touched EXCEPT ![v] = {}]
  /\ todo' = [todo EXCEPT ![v] = {}]
  /\ spoiled' = [spoiled EXCEPT ![v] = FALSE]
  /\ UNCHANGED <<mail, row, done, marker, viewMarker, refreshed, ledger,
                 loads, scratch, observe>>

\* refreshViewCache against an expired id only deletes the view marker.
RefreshExpired(v) ==
  /\ "refresh" \in Commands /\ Free /\ snap[v] = NoMarker
  /\ viewMarker = Expired
  /\ viewMarker' = NoMarker
  /\ UNCHANGED <<mail, row, done, touched, marker, refreshed, ledger, loads,
                 scratch, loader, observe>>

StartRefresh(v) ==
  /\ "refresh" \in Commands /\ Free /\ snap[v] = NoMarker
  /\ IsId(viewMarker)
  /\ job' = "refresh" /\ viewer' = v /\ phase' = "fetch"
  /\ fence' = Fresh
  /\ queue' = ChangedSince(viewMarker)
  /\ erased' = DeletedSince(viewMarker)
  /\ UNCHANGED <<mail, store, loads, mode, start, got, assessed, lost, cut,
                 acts, hit, loader, observe>>

\* Mutant: the fence moves although a read failed.
FinishRefreshDespiteLoss ==
  /\ job = "refresh" /\ phase = "fetch" /\ queue = {}
  /\ Project(StoredLabels)
  /\ viewMarker' = fence
  /\ marker' = IF marker = NoMarker \/ Later(fence, marker) THEN fence ELSE marker
  /\ refreshed' = TRUE
  /\ Release
  /\ UNCHANGED <<mail, ledger, loads, loader, overtaken, faults>>

\* Mutant: the id is read when the refresh is over.
FinishRefreshLate ==
  /\ job = "refresh" /\ phase = "fetch" /\ queue = {}
  /\ Project(StoredLabels)
  /\ viewMarker' = IF lost THEN viewMarker ELSE Fresh
  /\ marker' = IF lost THEN marker ELSE Fresh
  /\ refreshed' = TRUE
  /\ Release
  /\ UNCHANGED <<mail, ledger, loads, loader, overtaken, faults>>

FinishRefresh ==
  /\ job = "refresh" /\ phase = "fetch" /\ queue = {}
  /\ Project(StoredLabels)
  /\ IF lost THEN UNCHANGED <<marker, viewMarker>>
     ELSE /\ viewMarker' = fence
          /\ marker' = IF marker = NoMarker \/ Later(fence, marker)
                         THEN fence ELSE marker
  /\ refreshed' = TRUE
  /\ Release
  /\ UNCHANGED <<mail, ledger, loads, loader, overtaken, faults>>

(* A row action works on the record its session read when it last drew the *)
(* list (view.ts:348), not on the row as it is under the lock: the row may *)
(* have been rewritten or removed since.  A session may have waited at its *)
(* prompt since before any change, so that record is any the message had;  *)
(* the undo of a delete works on the record captured by that delete.  A    *)
(* row action that fails after Gmail did its work writes nothing: that is  *)
(* Relabel, the work of another client.                                    *)

\* The captured record has an evaluation only if some run stored one.
KeepingEvaluation(m) ==
  {done \ {m}} \cup (IF "work" \in Commands THEN {done \cup {m}} ELSE {})

Retain(v, m) ==
  active' = IF snap[v] = NoMarker THEN active
            ELSE [active EXCEPT ![v] = @ \cup {m}]

\* Gmail moves m to l, or has nothing to change; the row is replaced by the
\* captured record under the labels w, without its evaluation.
Rewrite(m, l, w) ==
  /\ "edit" \in Commands /\ Free
  /\ mail[m] \in StoredLabels
  /\ mail' = [mail EXCEPT ![m] = l]
  /\ \/ Changed(m)
     \/ /\ l = mail[m] /\ Unnoticed
        /\ unverified' = IF w = l THEN unverified \ {m}
                         ELSE unverified \cup {m}
  /\ row' = [row EXCEPT ![m] = w]
  /\ Stamp({m}, {})
  /\ UNCHANGED <<refreshed, ledger, waiting, job, viewer, phase, mode, queue,
                 erased, got, assessed, lost, cut, acts, hit, todo, spoiled,
                 overtaken>>

\* openMessage: a live read that marks the message read, and projects it over
\* its row; over the captured record, and its evaluation, if the row is gone.
OpenMessage(v, m) ==
  /\ "edit" \in Commands /\ Free
  /\ mail[m] \in StoredLabels
  /\ \E seen \in {"read", mail[m]} :
       /\ mail[m] # "unread" => seen = mail[m]
       /\ IF seen = "unread" THEN Fault ELSE UNCHANGED faults
       /\ mail' = [mail EXCEPT ![m] = seen]
       /\ IF seen = mail[m] THEN Unnoticed /\ unverified' = unverified \ {m}
                            ELSE Changed(m)
       /\ row' = [row EXCEPT ![m] = seen]
       /\ IF row[m] = seen
            THEN UNCHANGED <<done, touched>>
            ELSE \/ done' = done \ {m} /\ Stamp({m}, {})
                 \/ /\ row[m] = "none"
                    /\ done' \in KeepingEvaluation(m) /\ UNCHANGED touched
  /\ Retain(v, m)
  /\ UNCHANGED <<refreshed, ledger, waiting, job, viewer, phase, mode, queue,
                 erased, got, assessed, lost, cut, acts, hit, todo, spoiled,
                 overtaken>>

\* setCachedStar: the location is left alone, a message that carries the star
\* already is only retained.
EditStar(v, m) ==
  \/ /\ \E w \in StoredLabels : Rewrite(m, mail[m], w)
     /\ done' = done \ {m} /\ Retain(v, m) /\ UNCHANGED faults
  \/ /\ "edit" \in Commands /\ Free /\ snap[v] # NoMarker /\ mail[m] # "new"
     /\ Retain(v, m)
     /\ unverified' = IF row[m] = mail[m] THEN unverified ELSE unverified \cup {m}
     /\ UNCHANGED <<mail, store, loads, scratch, snap, todo, spoiled,
                    overtaken, faults>>

\* trashCached
EditTrash(v, m) ==
  /\ Rewrite(m, "filed", "filed")
  /\ done' = done \ {m} /\ Retain(v, m) /\ UNCHANGED faults

\* moveCachedToInbox: out of the Trash, and then into the Inbox; the second
\* request may fail after the first, and the list does not retain the id then.
EditMoveIn(v, m) ==
  /\ \/ /\ \E l, w \in InboxLabels :
             /\ mail[m] \in InboxLabels => l = mail[m]
             /\ Rewrite(m, l, w)
        /\ Retain(v, m) /\ UNCHANGED faults
     \/ /\ Rewrite(m, mail[m], "filed")
        /\ Retain(v, m) \/ UNCHANGED active
        /\ Fault
  /\ done' = done \ {m}

\* ;u puts the labels of the record captured by the delete back on the message
\* and that record, with the evaluation it may have, back in the cache.
Undo(v, m) ==
  /\ \E was, l \in StoredLabels :
       /\ was = "unread" => l = "unread"
       /\ was = "read" => l \in InboxLabels
       /\ (was = "read" /\ mail[m] \in InboxLabels) \/ was = "filed" => l = mail[m]
       /\ Rewrite(m, l, was)
  /\ done' \in KeepingEvaluation(m)
  /\ Retain(v, m) /\ UNCHANGED faults

-----------------------------------------------------------------------------
\* The owner of the lock dies; the next command reclaims its lock file.
Crash ==
  /\ ~Free /\ Fault
  /\ Release
  /\ IF job \in {"refresh", "page"}
       THEN /\ snap' = [snap EXCEPT ![viewer] = NoMarker]
            /\ active' = [active EXCEPT ![viewer] = {}]
            /\ touched' = [touched EXCEPT ![viewer] = {}]
            /\ todo' = [todo EXCEPT ![viewer] = {}]
            /\ spoiled' = [spoiled EXCEPT ![viewer] = FALSE]
       ELSE UNCHANGED <<loader, touched>>
  /\ UNCHANGED <<mail, row, done, marker, viewMarker, refreshed, ledger,
                 loads, overtaken,
                 unverified>>

Outside == \/ \E m \in Msg : \/ Deliver(m) \/ DeleteForever(m)
                             \/ \E l \in StoredLabels : Relabel(m, l)
           \/ \E x \in {marker, viewMarker} : Expire(x)

RowAction(v, m) == \/ OpenMessage(v, m) \/ EditStar(v, m) \/ EditTrash(v, m)
                   \/ EditMoveIn(v, m) \/ Undo(v, m)

Disturbs == \/ Uncache
            \/ \E v \in Viewer, m \in Msg : RowAction(v, m)

Reading == \E m \in Msg : \/ \E ok \in BOOLEAN : Fetch(m, ok)
                          \/ FetchGone(m) \/ FetchFails(m)

Working == \/ \E p \in Proc : LoadAccount(p) \/ LockForWork(p)
           \/ DiscoverCached \/ DiscoverHistory \/ ReadProfile \/ ListInbox
           \/ PlanActions \/ StartApplying
           \/ \E m \in Msg : Mutate(m)
           \/ RecordResults \/ Checkpoint

Caching == LockForCache \/ Flush \/ FlushFails \/ FinishCache \/ Uncache

Viewing == \/ RunInSession
           \/ \E v \in Viewer :
                \/ StartSnapshot(v) \/ FinishSnapshot(v) \/ StopSnapshot(v)
                \/ \E f \in Folders : ListPage(v, f)
                \/ StartRefresh(v) \/ RefreshExpired(v)
                \/ \E m \in Msg : RowAction(v, m)

Next == \/ Outside \/ Reading \/ Working \/ Caching \/ Viewing
        \/ FinishPage \/ FinishRefresh
        \/ \E p \in Proc : GiveUp(p)
        \/ Crash

Spec == Init /\ [][Next]_vars

\* A process that holds the lock runs on, and the user keeps running `gmail`,
\* time and again without --limit and when the cache is no longer fresh.
Fairness ==
  /\ \A p \in Proc : WF_vars(LoadAccount(p)) /\ SF_vars(LockForWork(p))
  /\ SF_vars(DiscoverHistory /\ ~cut') /\ SF_vars(ListInbox /\ job = "work" /\ ~cut')
  /\ WF_vars(DiscoverCached \/ DiscoverHistory \/ ReadProfile \/ ListInbox)
  /\ WF_vars(\E m \in Msg : Fetch(m, TRUE) \/ FetchGone(m))
  /\ WF_vars(PlanActions \/ StartApplying \/ RecordResults \/ Checkpoint)
  /\ \A m \in Msg : WF_vars(Mutate(m))
  /\ WF_vars(FinishCache) /\ WF_vars(Flush) /\ WF_vars(FinishPage \/ FinishRefresh)

FairSpec == Spec /\ Fairness

-----------------------------------------------------------------------------
\* A message in Inbox or Spam is either still to be reported by the history
\* after x, or its row is there, to be assessed or assessed as it is now,
\* unless a session put its own record in the place of that row.
Current(m)    == \/ row[m] \in InboxLabels /\ (m \in done => row[m] = mail[m])
                 \/ m \in unverified
Covered(x, m) == (IsId(x) /\ mail[m] \in InboxLabels) => (m \in x \/ Current(m))

\* No mail is skipped: a run that trusts the stored history marker finds
\* every message of Inbox and Spam that was never assessed as it is now
\* (the checkpoints of work.ts, cache.ts, view-sync.ts and view-cache.ts),
\* unless a command pulled the rows from under a history id in use or a
\* session replaced the row by the record on its screen.
NoLostMail == overtaken = {} => \A m \in Msg : Covered(marker, m)

\* What a view that knows everything would show of m.
Shown(m) == IF mail[m] \in StoredLabels THEN mail[m] ELSE "none"

\* The view's marker is a promise about all four folders: what did not change
\* after it is shown where it is, and nothing else is shown (view-sync.ts,
\* view-cache.ts finalizeCompleteSnapshot), except a row that a row action
\* last wrote, or kept from the pruning, without Gmail's word for it.
ViewComplete ==
  (overtaken = {} /\ IsId(viewMarker)) =>
    \A m \in Msg \ (viewMarker \cup unverified) : row[m] = Shown(m)

\* Once nobody but `gmail` touches the mailbox and its cache, every message in
\* Inbox or Spam is assessed as it is, whatever was cut off, failed or crashed
\* before; unless an uncache overtook a waiting run (orchestrator.ts:849), or
\* a session put its own record in the place of the row (view.ts:348).
EverythingAssessed ==
  (<>[][~Outside /\ ~Disturbs /\ ~LockForCache]_vars /\ [](overtaken = {})) =>
    \A m \in Msg : <>[](mail[m] \in InboxLabels =>
                        (m \in done /\ row[m] = mail[m]) \/ m \in unverified)

=============================================================================
