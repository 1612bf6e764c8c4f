# gmail-agent-cli: a TLA+ model

`gmail-agent-cli` cleans a mailbox: it reads new mail, has it assessed, and
trashes, labels, archives or puts it into the calendar. Everything it knows
between two commands is in one SQLite database, one lock file per account, the
credential store of the operating system and, for the publisher's AI service,
two documents at the gateway. The modules here model how those survive
concurrent commands, failing requests, lost answers and crashes. TLC checks them
on small instances; TLAPS proves every safety property of theirs for all values of
the constants.

## 1. Inventory

| Component | State it keeps | Operations | Who it talks to | What makes it correct | Modelled |
|---|---|---|---|---|---|
| Account lock (`core/lock.ts`) | a file with a pid; `acquired` per object | `acquire`, `acquireAsync`, `release` | every command | at most one owner; every attempt ends | yes |
| Mailbox synchronisation (`commands/work.ts`, `core/orchestrator.ts`, `commands/cache.ts`, `commands/uncache.ts`, `gmail/scanner.ts`) | `accounts.history_marker`, `messages` rows, assessments, retryable actions | full, incremental and cache-first scans, hydration, checkpoint, reset | Gmail, the lock, the view | no message between marker and rows; everything is assessed in the end | partly |
| View session (`commands/view.ts`, `gmail/view-sync.ts`, `commands/view-commands.ts`) | `view_history_marker`, the rows, and in memory the drawn list, selection, read view, `lastTrashed` | refresh, navigate, select, delete, star, move, undo, open, run a cleanup | Gmail, the rows of `gmail` | what is shown is what Gmail has or what the next refresh repairs; an action is for the rows the user meant | partly |
| Progressive view loader (`gmail/view-cache.ts`) | the pump, per-folder progress and demand, waiters, a queue | `ensureFolder`, `startBackground`, `stop`, pages, snapshot | screen, lock, Gmail | nobody who waits is forgotten; the snapshot ends | partly |
| Action ledger, mutations, calendar events (`state/repositories/runs.ts`, `gmail/executor.ts`, `calendar/idempotency.ts`) | `actions`, `calendar_links`, events under deterministic ids | plan, reconcile, mark, send, insert, record | Gmail, Google Calendar | the ledger tells what happened; no mail is filed for an event that does not exist | partly |
| Policy and label threshold (`core/policy.ts`, `core/orchestrator.ts`, `gmail/custom-labels.ts`) | `label_candidates`, votes | decide, protect, count votes, create labels | ledger, rules, sent index | a replied thread is not trashed unasked; one vote per message | partly |
| Rules and the commands that make them (`rules/*`, `commands/add.ts`, `spam.ts`, `important.ts`, `category.ts`) | `rule_groups` | match, create; a run creates some itself | policy | a rule speaks only for what it names | partly |
| Sent index (`gmail/sent-index.ts`) | high-water mark, thread ids | top up from the Sent folder | policy | a stored mark covers every older thread | partly |
| Retry and rate limiter (`core/api-retry.ts`, `core/concurrency.ts`) | token bucket, serial queue, minute window, cooldown | acquire, back off, slow down, recover | all Google calls | budget never exceeded; every call ends | yes |
| AI access and classifiers (`ai/*`, `core/ai-access.ts`) | the choice in the configuration | choose, assess, map the answer | gateway, OpenAI | see hosted session and policy | partly |
| Authentication and hosted session (`auth/*`, `core/connect.ts`, `core/onboarding.ts`) | Google token, hosted refresh token, account row | sign in, renew, log out, disconnect | token service, gateway | a session does not end itself; a logout stays one | partly |
| UI server (`ui/operations.ts`, `ui/server.ts`) | one `RunState` | connect, cancel, preview, work, disconnect | everything above | the page tells what is under way | partly |
| AI gateway (`gateway/src`) | the consent receipt, usage windows | bootstrap, classify, draft, revoke | OpenAI, clients | allowance kept; no text without consent | partly |
| Compose, unsubscribe, undo, configuration, rendering | little or none | – | – | see section 8 | no |

What is hard in this code: several processes and, inside a view session, several
asynchronous tasks share rows and two history markers that move independently;
the account (and the marker) is read *before* the lock is awaited; Gmail's
mailbox changes during every scan; Gmail and Calendar act although the answer is
lost; a process may die between any two statements; the lock itself is built
from several system calls; the loader hand-makes its wake-ups; a row action
writes from records read long before; one-time tokens are renewed by commands
that share no lock; and every promise about mail rests on what several runs
leave to each other (marks, votes, rules). Each hazard is listed with its line
in `PROJECT.json`.

## 2. Modules and how they correspond to the code

| Module | Models | Used by |
|---|---|---|
| `ProcessLock` | `core/lock.ts`, one step per system call | `MCProcessLock`, `ProcessLockProofs` |
| `AccountLock` | abstract: what a command takes the lock for | `ProcessLock` (refinement) |
| `MailSync` | cleanup, cache, uncache, view refresh, view snapshot and row edits over one database | `MailSyncInv`, `MCMailSync`, `MailSyncProofs` |
| `MailSyncInv` | the inductive invariant of `MailSync` | `MCMailSync`, `MailSyncProofs` |
| `ViewSession` | one session of `gmail view`: list, selection, row actions, undo, read view | `MCViewSession`, `ViewProofs` |
| `ViewLoader` | the scheduling of `ProgressiveViewCache` and `ViewOperationCoordinator` | `MCViewLoader`, `ViewProofs` |
| `ActionLedger` | the writing half of a run: ledger, mutations, events | `MCActionLedger`, `ActionLedgerProofs` |
| `Policy` | the decision about one message, as operators: rules, assessment, policy, gates | `Triage` |
| `SentIndex` | the sent-mail index and its top-up | `Triage` |
| `ReplyProtection` | abstract: what the reply check promises | `Triage` (refinement) |
| `Triage` | runs from decision to checkpoint, votes, labels, rules, and the commands that change them | `MCTriage`, `TriageProofs` |
| `RateLimiter` | `GoogleApiRateLimiter`, `withApiRetry`, the worker pool | `MCRateLimiter`, `RateLimiterProofs` |
| `HostedSession` | the hosted AI session on one computer, over all commands that touch it | `UiOperations` |
| `UiOperations` | the browser front-end over `HostedSession` | `MCUiOperations`, `UiOperationsProofs` |
| `Gateway` | the publisher's gateway for one user | `MCGateway`, `GatewayProofs` |

`PROJECT.json` maps each definition to its lines. The modules compose along these
interfaces. `MailSync`, `Triage`, `ViewLoader` and `HostedSession` use the lock by
its promise, one owner at a time (`Free`/`job` in `MailSync`); `AccountLock`
states that promise, and `ProcessLock` implements it and says when. `MailSync`
takes a snapshot page by page in any order; `ViewLoader` says in which order, and
that it goes on. In `MailSync` a row action writes from any record a session may
have on its screen, which is all that the other commands can tell of it;
`ViewSession` has the screen, and tells which record it is. `MailSync` has one
mutation per message and its status; `ActionLedger` refines that phase into trash,
calendar and label writes. `Triage` takes any set of messages for a run's scan,
because which ones it reads is `MailSync`'s subject, and one write per message,
because what becomes of it is `ActionLedger`'s. `Triage` EXTENDS `Policy` and
`SentIndex`, `UiOperations` EXTENDS `HostedSession`: there the composition is a
module.

**ProcessLock.** `pc[i]` is where lock object `i` is between two system calls:
`create` (`open` with `wx`), `write` (the pid), `read`, `check` (`kill(pid, 0)`),
`unlink`, `asleep`, then `held` and the three calls of `release`. Two objects may
share a process, as those of a view session do; a process dies and its pid may be
given to a new one. `torn` and `raced` are observers: they remember that an
object judged a file it read while it was still empty, or unlinked a file that
was not the one it had read.

**MailSync.** A Gmail history id is the *set of messages that changed since*: a
fresh id is `{}`, every change adds its message to all older ids (`Bump`), and
`Expired` is an id Gmail no longer answers for. With that, "the history from the
stored marker" is the marker itself, ids are ordered by inclusion (`Later`,
`historyIdGreaterThan`), and no counter is needed. `row` is a cached label
snapshot (Inbox and Spam, read or not; filed, for Archive and Trash; none), `done`
the rows whose assessment is valid. `OpenMessage`, `EditStar`, `EditTrash`,
`EditMoveIn` and `Undo` are the row actions of a session: one may have waited at
its prompt while others refreshed, so the record it writes has any labels the
message may have had, whatever the row is by then, and an undo also brings back
the assessment of its record. If Gmail had nothing to change, no history will
report the message; such a row, when its labels are not Gmail's, and a row that a
session spared from the pruning of a snapshot though it is not as Gmail has it,
are `unverified` until Gmail's word is stored again (an observer). `waiting` and
`base` hold what each process loaded before it got the lock. A command is a
sequence of actions under `job`: `LoadAccount`, `LockForWork`, one of
`DiscoverCached`, `DiscoverHistory`, `ReadProfile`+`ListInbox`, a `Fetch` per
message, `PlanActions`, `StartApplying`, `Mutate`, `RecordResults`, `Checkpoint`.
The mailbox changes between any two of them.

**ViewSession.** `shown` is `all` as the last redraw read it, `row` the database,
`mail` Gmail; every row action takes its record from `shown` and writes the row
it derives from that record, which is the code's `trashCached`, `setCachedStar`
and `moveCachedToInbox` with the record as argument (`Trash`, `Star`, `Move`).
`Answers` are the ways their one or two requests can end. `reported` is what the
history since the view's marker would report. Each exclusive section is one step:
under the lock nothing of this program runs beside it. `buried` remembers a row
that an action put over a newer one without changing anything at Gmail, `meant`
the messages that were under the rows when the user selected them, `steady` that
the page has not gained or lost a row since, `was` the labels the messages of the
last delete had before it.

**ViewLoader.** `pump` is the position of the one running pump, `turn` the
coordinator's promise chain, `inside` that its head has the account lock, `caller`
the callers of `ensureFolder` with what they `want`. JavaScript's
run-to-completion is `Quiet`: promise continuations run before the next timer or
answer. `whenComplete`, which only tests call, `setPageSize` and the optional
timeout of `ensureFolder` are left out; without the timeout `EnsureReturns` is
the stronger claim.

**ActionLedger.** A row is named by message and what `deterministicActionKey`
hashes. A payload of an event stands for its hash; a re-assessed message may get
another one under the same event id. `phase` is the place in `runWork`;
`answer` what Google said; `did` (an observer) what Gmail accepted. A failed
request may have been carried out. Loops that only mark rows are one step: a
crash within such a loop leaves a mixture that is also reached by a crash before
or after it for another message. The messages of one `batchModify` get
independent answers, which includes the common one.

**Policy, SentIndex, Triage.** A message is its *traits*: what the classifier says
of it, who sent it, what its headers prove, whether its text is high-risk. Rules
are flat: a rule is one matcher with its action and its authentication binding
(the commands make no other groups). `PolicyDecision`, `AfterReplyCheck` and
`AfterEventCheck` are `evaluateMessagePolicy` and the gates of `finalizeOutcome`,
in the code's order. `pass` is the top-up of the sent index: it is begun by the
first message about to be trashed, reads the Sent folder a page at a time while
the user sends, trashes and restores mail, and its answer is shared by the run.
`run` is a cleanup: `deciding` (messages in any order, as the concurrent tasks
finish), then the rules made of the run's own decisions and the label threshold
(`Plan`), label creation, the trash and the label writes, and the checkpoint
that counts the votes. `setting` fixes at the start which commands the user gives
in a behaviour and what the messages are, so that one run covers several
scenarios without their product. `reasonCodes` of the rules and the sender's own
address (`isFromUser`) are left out; the 90-day cleanup cannot be reached, since
the mapping never gives the confidence it asks for.

**RateLimiter.** `queue` is the promise chain of `acquire`, `stage[c]` where a call
is between two awaits, `timer[c]` the time until its sleep ends. Times are ages
and remaining times, so that time needs no bound; quota is counted in units of
which several make a token, so that refilling by fractions is exact. The pool of
`mapWithConcurrency` is `next` and `dead`; its calls share an abort signal, a
call outside of it (`Solo`) has none. `wave` (an observer) tells the calls
admitted since the last slowdown (present) from those before it (past) and from
those that were in flight when the pace recovered (across).

**HostedSession, UiOperations.** A job is one command with its process memory;
`renewals[j]` are the calls of `renew()` under way in it, each with its own place
between reading the stored token, exchanging it and storing the successor. Refresh
tokens are numbered in the order of issue; the service may keep or retire the
token it exchanges (both are allowed to it). An answer, or the write of the
successor, may be lost; whoever waited asks again with the stored token, as `post`
does. `retired[j]` (an observer) has the tokens that command `j` exchanged for one
it stored or will store, `lost[j]` those whose successor it never stored. Locked
commands hold the account lock; previews and a disconnect from the browser do not.
`kind` is the page's `RunState`, `ui` the jobs it started; a cancelled sign-in is
forgotten, not stopped; `astray` remembers one until the page has no work left.
`Marked` are the operations that set the state, all but the disconnect, which
looks at it only. A sign-in that is followed by a run is modelled as the two
commands.

**Gateway.** Every await of a request is a step. `usage[w]` is the counter of a
window with its index. A request fixes the windows of a transaction before it
starts it (`at`), and the transaction may commit after those of requests that came
later: `Reserve` and `Release` use `at`, never the clock, and `made` is the moment
its reservation was counted at. `forgotten[w][k]` (an observer) counts the
reservations of window `k` that its count has lost, because a late transaction
took the document to another window and a later one brought it back; `late[w][k]`
(an observer) counts refunds that came off window `k` although their request was
counted in another. `covered` remembers whether a receipt for the disclosure a
request was served under was active at some moment of the request.

## 3. Properties

* `NoLostMail`: a message of Inbox or Spam is either still reported by the
  history after the stored marker, or has a row that is to be assessed, or is
  assessed as it is. It takes several commands to break: a marker stored too
  early, a row removed too late. `EverythingAssessed` is its liveness half.
* `ViewComplete`: what did not change since the view's marker is shown where it
  is, in all folders, and nothing else is shown; but for rows that a session
  wrote, or kept, without Gmail's word (`unverified`; section 6 has how they
  arise). Both other properties of `MailSync` make the same exception.
* `StaleIsReported`: a row that differs from Gmail is one the next refresh will
  read again, whatever row actions failed half way, lost an answer or wrote from
  an old record. `SelectionIsMeant`: a bare row action is for messages the user
  selected. `UndoRestores`: an undo that reports no failure has restored all of
  the delete.
* `OneOwner`, `AttemptEnds` for the lock: the lock file implements `AccountLock`,
  one owner at a time from the return of `acquire` to the end of `release` or of
  the process, up to the two ways to reclaim a file wrongly. It takes an
  object that judges a file and another that owns the next one.
* `EnsureReturns`, `StopReturns`, `SnapshotFinishes`, `ForegroundServed` for the
  loader: the lost wake-ups, hangs and starvation its comments speak of.
* `AppliedWasDone`, `FiledOnlyWithEvent`, `WriteAhead`, `LinkTruthful` for the
  ledger.
* `RepliesProtected`: the sent index, the shared answer and the gate implement
  `ReplyProtection`, which speaks of the mail that was there from the question to
  the answer. `IndexComplete`: no thread with listed sent mail is missing
  behind the mark, except mail that was hidden when its page was read.
  `VotesCounted`, `LabelsEarned` for the label threshold.
* `BudgetKept`, `NoBurstAfterSlowdown`, `CallsEnd` for the limiter, and
  `OneSlowdownPerWave`: a call admitted before the last slowdown does not cause
  another one, unless the pace recovered while it was in flight (section 6 says
  why the exception).
* `NoSelfInflictedStop`: a command that is told its session is gone has not put
  another token in the place of the one it used; if it retired that token itself,
  the successor was lost with the answer or with a failed write. It is what the
  single flight of renewals is for. `LogoutSticks`, `StatusHonest`,
  `NeverBusyForNothing`.
* `AllowanceKept`: a window's provider calls exceed its allowance at most by what
  its count has `forgotten` and by misplaced refunds (`late`); section 6 says why
  both are needed. `NothingCarriedOver`, `NoCallWithoutConsent` for the gateway.

The inductive invariants `LockInv`, `SyncInv`, `LedgerInv` and `LoaderInv` are
checked by runs as well; they contain the type invariants of their modules, as
`Stored` is part of the invariant proved of `ViewSession`. `LimiterOK` adds to the
limiter's types what its pool and its queue are (section 5).

## 4. Runs

| Run | Instance | States | Shows |
|---|---|---|---|
| `Lock` | 3 lock objects in 2 processes, 4 acquisitions, 1 poll, 1 crash | 160 k | proof invariant, the refinement of `AccountLock` up to the two races, every acquisition ends |
| `Viewing` | 2 view sessions with refreshes, snapshots and row edits, `gmail uncache`, 1 message, 1 fault | 1 M | `ViewComplete` although snapshots and refreshes overtake each other and edits write from old records, proof invariant |
| `Assessed` | `gmail`, `gmail cache`, row edits and runs of a view session, 1 message, 1 fault, fairness | 360 k | `NoLostMail`; every message is assessed in the end |
| `Session` | 2 messages, pages of 1 or 2, 1 change beside the session, 2 row actions and any undo, 1 failed request | 1 M | stale rows are reported, selections are meant, undo restores |
| `Loader` | 2 folders (2 and 1 pages), 1 caller, 2 calls, 1 action, lock contention | 380 k | proof invariant, the four liveness properties |
| `Ledger` | 2 messages, 2 payloads, 2 runs, 2 faults | 2.3 M | four properties and the proof invariant |
| `Triage` | 2 messages in 2 threads, 7 settings, 2 sent messages on pages of 1, thresholds of 2 | 1 M | the refinement of `ReplyProtection`, index, votes, labels |
| `Limiter` | a pool of 2 for 3 calls (one with 2 attempts), 1 call outside, 2 faults, an abort at any point, fairness | 1 M | types, pool and queue, budget, pace, every call ends |
| `Hosted` | 2 commands at a time, 3 started, 3 tokens, 2 requests each, 1 fault, 1 cancellation | 1.3 M | session, logout and page state |
| `Gateway` | 3 concurrent requests, 4 in all, windows of 1 and 2 minutes allowing 2 and 3, 3 changes | 1.2 M | allowance up to misplaced refunds and lost counts, consent |
| `LockTorn` | 2 objects, no crash | violation | an empty file is taken for a stale one |
| `AutoRule` | the instance of `Triage`, 1 sent message | violation | a rule made by a cleanup bypasses the reply check |

**Bounds and why they are enough.** One message is enough for `NoLostMail` and
`ViewComplete` because both are statements about one message at a time and
messages interact only through the markers and `--limit`; the proof of `SyncInv`
has no bound, and with it `NoLostMail` holds also of the mixtures of commands that
no run has: all of them at once, or `gmail uncache` beside a waiting `gmail`. One
fault gives every position of one failed read, failed write, expired marker or
crash. Two view sessions are what overtaking takes, and a session at its prompt
while another one refreshes. The constraint `Promised` of `Viewing`
leaves out the steps into `overtaken`, after which the invariants claim nothing but
types and order. Three lock objects are a holder, an attempt
that judges it and one that intervenes, and two of them in one process. The
loader's two folders and two calls allow a demand for another folder at every
point of the first; one retry is one round of the contention loop and the budget
running out after it. Two runs are a crashed or failing one and its successor; two
payloads are an event and its correction. In `Session` two messages make a page
with a neighbour, a delete of two with one failure, and two pages; two actions are
one to go stale and one to use the stale record, and the proof of
`StaleIsReported` has no bound. In `Triage` the code's thresholds (10 votes, 3
messages) become 2, which keeps what matters: one is not enough, and one run alone
may or may not reach it; a page of one stub makes a pass of two pages, between
which the user writes. In `Limiter` three calls for two workers make a worker take
a second item, also after the other one has ended with a rejection, and the call
outside gives a wave another one admitted before the slowdown. Two jobs are a
command and its disturber, the third started one the sign-in after it. Two windows
of different length and three requests let one request start, roll over and be
refunded while others fill the next window.

`CHECK_DEADLOCK FALSE` is set where the system really stops: all acquisitions,
calls, commands or requests of the bound are used up.

**Fairness.** `AttemptEnds` assumes that the operating system runs each process;
polling itself is bounded by its deadline. The loader's properties assume that
timers run out, that requests to Google end (they have timeouts) and that a
foreground action ends; nothing is assumed of the other process, which may own
the lock for ever, nor of the user. `CallsEnd` assumes that time passes, promise
continuations run, the workers of the pool go on and requests end; not that
anybody aborts, nor that requests succeed. `EverythingAssessed` assumes that a
process holding the lock goes on, that the user keeps running `gmail`, again and
again without `--limit` (hence `~cut'`) and when the cache is no longer fresh,
and that another run does not starve it of the lock for ever; strong fairness
there is the assumption on the user, not on the code. The property itself is for
behaviours in which from some time on nobody but `gmail` touches the mailbox and
its cache: somebody who runs `gmail cache` for ever can keep the lock from it, and
a command that rewrites rows asks for a new assessment each time.

**Refinement.** `AccountLock` knows owners only: somebody becomes one when there is
none, and one stops, or all of a process at once. `OneOwner == Account!Spec` maps
the objects between the return of `acquire` and the end of `release` to `owners`;
the creation of the file, what is read of it, the sleeps and the reclaiming of a
file rightly found stale are stutters. `excused` is `raced \/ torn`.

`ReplyProtection` knows sent mail and its threads only: a run asks once, the
answer holds at least the threads of the mail that was there from the question to
the answer, and until the run ends only threads outside the answer lose a message
to Trash without the user's rule. `RepliesProtected == Promise!Spec` maps the
sent folder, the pass with its mark and pages, and the outcomes of the run to it:
a pass that fails half way, a mark from an earlier run, mail sent between two
pages and the answer shared by concurrent messages are all stutters or steps of
the abstract specification.

## 5. What is proved

Every safety property that a run checks is also a theorem. The theorems hold for
every value of the constants under the assumptions the modules name; where a proof
needs more than that, the theorem says so (`"work" \notin Commands`).

| Module | Theorems |
|---|---|
| `ProcessLockProofs` | `TypeCorrect`, `LockInvariant`, `Exclusion`, `LockImplements` |
| `MailSyncProofs` | `TypeCorrect`, `SyncInvariant`, `NoMailIsLost`, `ViewIsComplete` |
| `ActionLedgerProofs` | `TypeCorrect`, `LedgerInvariant`, `LinksAreTrue`, `FilingNeedsEvent`, `MarkedAhead`, `AppliedIsDone` |
| `ViewProofs` | `StoresTyped`, `StaleRowsAreReported`, `UndoGivesBack`, `ActsOnWhatWasMeant`; of the loader `LoaderSafe` |
| `TriageProofs` | `TypeCorrect`, `TriageInvariant`, `MarkCertifies`, `CountsVotes`, `LabelsAreEarned`, `Protection` |
| `RateLimiterProofs` | `LimiterInvariant`, `LimiterSafe`, `WithinBudget`, `BurstIsGone`, `WaveSlowsOnce` |
| `UiOperationsProofs` | `TypeCorrect`, `SessionInvariant`, `NotItsOwnDoing`, `LogoutIsFinal`, `PageInvariant`, `PageIsHonest`, `PageIsNotStuck` |
| `GatewayProofs` | `TypeCorrect`, `ConsentPrecedesCalls`, `AllowanceInvariant`, `AllowanceHolds`, `NothingIsCarriedOver` |

Assumed of the constants, besides numbers being numbers and names being
different: messages, calls and requests are finite sets; there is a token to be
issued (`MaxTokens` at least 1); the minute budget and the burst hold at least
one token, and every interval divides the units of a token (the code counts in
fractions, the model in units small enough to be exact). `api-retry.ts:491`
makes the budget at least 275 tokens.

**Lock.** `LockInv` is inductive: what a file says names its maker (`Named`); an
object that has read the file that is still there has read what it says, unless
it read before the write (`Known`); the maker of a file rightly judged stale owns
nothing (`Stale`); an owner is the maker of the file (`OwnFile`). Two owners
would both be the maker. `OwnFile` is guarded by `~raced /\ ~torn`: `LockTorn`
shows that the second guard is needed without any crash. The first one is needed
as well: an attempt that judged a file stale unlinks whatever is at the path by
then, also the file that another reclaimer has just created. `LockImplements` is
the refinement: the only step that makes an owner is the write of the pid, and
before it the file is the writer's, so by `OwnFile` nobody else owns it.

**Synchronisation.** `NoLostMail` is not inductive: a run in progress will store
a marker and rows that are not in the database yet. `SyncInv` adds that the
history ids in use form a chain (`Chain`), that what was read is true up to the
changes recorded since the fence (`ReadsTrue`, `SnapshotSound`), that what a
discovery left out is covered by the marker the run would store (`Discovered`),
and that every id a run may still store covers every message (`AllCovered`). Of a
row action it needs only that it disturbs one message, which is then reported by
every id, or has Gmail's labels in its row, or is `unverified` (`RowActions`).
`overtaken` collects the two cases that pull rows from under an id in use (a
waiting run overtaken by `gmail uncache`, a prune overtaken by a newer `gmail
cache`); both are in section 6.

**What the view shows.** `ViewComplete` needs more: `ViewInv`, which is inductive
on top of `SyncInv` when no cleanup run is about. Messages are sorted by what
their row is worth: `Right` (as Gmail has it, or excused by `unverified`), or at
least `Settled` (in a folder of Gmail, or without a row). A marker stands for all
messages outside of it being right (`ViewFits`); a refresh in progress has every
other message reported, seen or removed (`RefreshFits`); a snapshot knows of every
message in a folder it has listed that it changed since, was verified by it, or
is still on the page being loaded (`SnapshotFits`); and what it verified or
spares is there when it prunes (`Verified`). Because ids are sets, each of these
is a union that must contain `Msg`. `gmail cache` has to be taken in: what has left
the Inbox since it listed it is reported (`CacheReads`). A row action is the same
argument as for `SyncInv`: Gmail's change bumps every id, Gmail's own answer makes
the row right, and the rest is `unverified`. With a cleanup run the theorem would
be false: its eviction is in section 6 (`work.ts:976`), so it assumes `"work"
\notin Commands`, as the run `Viewing` does.

**Ledger.** `LedgerInv` says for each phase which rows are `applying`, that an
`ok` was earned, and that a message handled without failure has its event. From it
follow that a link that says applied is true, that no message is filed for an
event that was not created, that Google is never changed behind the ledger's back,
and that no row, labels apart, becomes applied unless Google has carried it out
(`AppliedIsDone`: the only steps that write `applied` read an `ok`, and the rows
marked in the same step are those of the request it answers). Assumed: payloads
are distinct from the names of actions and of calendar states; bounds are
naturals.

**View session.** The invariant is `Stored /\ StaleIsReported`. `Stored` is needed
because the labels of a record must be labels before they are written, and
because what `;u` holds must not be in Trash. The step from one state to the next
is an argument about one message and one command (`Sound`): if the command
changes Gmail's labels, the history reports the message; if it does not, the row
is written only from the captured record, and either that buried a newer row,
which `buried` remembers, or the record was the row, and then the code computes
the same labels from it as Gmail computes from its own. `Sound` is a lemma for
each of the four operations, the half-finished move included, and the list and
the read view use the same lemmas.

Undo: `Restorable` says of each message of the last delete that the record
which an undo starts from has all of Gmail's labels but Trash, as long as
nobody else touched the message; an attempt that fails half way leaves that so,
whichever of its two requests was carried out. Selection: that an index of the
selection is a row of the page (`SelectionInv`) is not enough, the message under
it must stay the same. Where a message is on its page depends on the messages of
that page alone (`PlaceOnPage`): the messages before the page fill whole pages,
and if one of them went, the first of the page would have to move up. So as long
as the page holds the same messages (`steady`), each is in its old row
(`SamePage`).

**Loader.** `LoaderInv` is inductive as it stands. `Coordinated`: whoever is inside
the session's slot is the head of its queue, and no other process owns the lock;
the pump is in the queue at most once, and nowhere unless it waits for an
operation; its re-tries count one acquisition and never exceed the budget.
`Remembered`: nobody sleeps, or is about to, while no pump runs. What wakes a
sleeper is the pump alone, so this is the safety half of `EnsureReturns`. It
holds because the demand of a folder covers whoever waits for it (`Covered`), so
what a waiter has not got is work (`UnmetIsWork`), and work starts the pump
(`kick`) or keeps it from ending (`finally`). `Ended`: after `stop` nothing raises
work, and when it has returned no pump runs. `Certified`: a page is read only of a
folder that has one left, because the folder taken is loadable whichever of the
three ways `nextFolder` found it (`NextFolderFacts`, with the round robin by
`FirstFromFacts`); and only a snapshot of all pages with no failed read ends
certified. Assumed: the folders are listed once each, and each has a page.

**Sent index and cleanup.** `TriageInv` has three parts. `MarkInv`: sent mail at or
below the mark has its thread in the table, unless it was hidden when its page
was read. `PassInv`: while a pass pages down, what is still listed at or above
its page token and older than something found has been found, and so has all
mail owed to the run down there; so when a pass reaches the mark, or the end,
everything below its newest find is known. `RunInv`: nobody is trashed unasked
before the answer (`Gated`); the votes of the run are new ones for every category
it counts (`Apart`), which keeps counts and voters in step across a crash between
them; and what is about to become a label has its votes (`Planned`).
`Protection` is the refinement, step by step: sending, trashing and restoring
mail are `UserWrites`, the first message about to be trashed is `Ask`, the last
page is `Answer`, a decision is `Expose` of its thread, the end or death of the
run is `Forget`; every other step leaves what the promise sees as it is.

**Limiter.** `LimiterInv`: the admissions remembered are those of the window, the
oldest first, so that dropping the first ones drops what is over (`Budgeted`); a
call of the present wave goes at the present pace or a faster one, one of a past
wave at a faster one, unless the pace is the slowest there is (`Waved`); and
tokens, units spent since the slowdown and the credit of the next refill never
exceed one token plus what the time outside of cooldowns is worth at the fastest
pace (`Earned`). The sum of the admissions is a library fold. Its value is found
without the library's induction theorems, which need operators as parameters: a
set of numbers has a least member (`LeastExists`), so a set that holds 0 and
with every k its successor holds all (`UpTo`); with that, the function the fold
recurs over exists (`FoldExists`), and prefixes, suffixes and appended admissions
add up as they should.

`LimiterSafe` adds the bounds of the bucket, the pool and the queue: the calls of
the pool under way and the workers that ended with a rejection are together at
most `Limit`, and nothing ahead of `next` has been begun (`PoolOK`); a call is in
the promise chain of `acquire` exactly while it waits there, and once, and only
the head of the chain sleeps (`QueueOK`). The calls under way are counted as a
set, so each step is shown to move at most one call into the set or out of it. The
backoff is a power of two, of which the provers know nothing but what the library
says of subsets: `2 ^ n` is the number of subsets of `1..n`, hence a natural
(`PowerIsNat`).

**Hosted session and page.** `SessionInv`: a command has at most one renewal under
way, and no token then (`Sound`); a token that is to be stored is known to the
command that will store it alone (`Apart`); so the token in the store is retired
only by a command that is about to store its successor (`Replaced`) or has lost it
(`lost`), and a command told that its token is invalid did not put another one in
its place; the lock is held by exactly the command past its lock step
(`Exclusive`); after a logout no renewal is past its read (`Settled`). `PageInv`
adds that a busy page has an operation of the very kind it shows, and, while no
cancelled sign-in is about (`~astray`), that the operations that set its state are
at most one and there exactly when it is busy.

**Gateway.** A request passes `Authorize` because the receipt is current at that
moment; the receipt was so already when the request arrived, or was made so
since, and both are what `covered` remembers (`Current`). The quota, the clock and
the provider leave it alone, so a request at the provider was covered
(`Authorized`). The allowance is a count of requests: what was paid for in a
window, plus the requests that were counted in it and may still be paid for, is
at most the reservations made in it, and at most the counter if the document is at
the window, and the limit otherwise, plus what the count has forgotten and the
refunds that came off the wrong window (`Reckoned`). The clock plays no part but
that no transaction uses a moment to come (`Stamped`): the windows in use may come
back in any order.

**Only model-checked:** all liveness (`AttemptEnds`, `EverythingAssessed`,
`CallsEnd`, the four of the loader), which needs fairness and ENABLED, and the two
runs that expect a violation, whose counterexamples are the result.

## 6. Disagreements between the code and what it says

Shown by runs: `LockTorn` and `AutoRule` (see "findings" in `PROJECT.json`).
Noticed while modelling, without a run:

* `lock.ts:185`: a recycled pid makes `acquire` refuse although no holder lives.
* `work.ts:310`: the account is loaded before the lock is awaited, so a run that
  waited for `gmail uncache` scans incrementally from the cleared marker, against
  `uncache.ts:23-25` ("falls back to a full snapshot").
* `view-cache.ts:648`: a finished snapshot spares rows with a newer `processedAt`,
  but `cache-projection.ts:65` keeps the old `processedAt` of a row it verified
  under unchanged labels, so a row a newer `gmail cache` verified can be pruned
  while the marker that cache stored stays (`cache.ts:263`).
* `accounts.ts:103`: a run that waited for the lock can store an older marker
  over a newer one; `NoLostMail` survives it, since older markers cover more.
* `runs.ts:211`: a write cut off by a crash becomes `unknown_no_retry` and is not
  rehydrated; a failed write of a message deleted since is rehydrated for ever.
* `work.ts:590`: a row reconciled to `unknown_no_retry`, "never retried
  automatically", is re-claimed by `upsertPlanned` in the same run when its
  message is decided upon again.
* `work.ts:846`: a label that could not be resolved is left out of the mutation,
  but its row is marked applied when the rest succeeds, against `work.ts:814-815`
  ("so the ledger says what actually happened").
* `work.ts:976`: a run that started before a view refresh evicts rows of filed
  messages that the refresh cached.
* `policy.ts:211`: the explicit important rule is said to star regardless of the
  AI, but the branches for promotions and native Spam return before it.
  `authFailedImportantRule` asks for review and lets a trash stand.
* `sent-index.ts`: sent mail that was in Trash when a pass went by and is restored
  later stays below the mark and is never indexed.
* `view.ts:355`: selected indexes are dropped only beyond the end of a shorter
  page; a row that comes in above them shifts them to other messages (hence
  `steady` in `SelectionIsMeant`).
* `view.ts:796` and the row actions: a record read long before can be put over a
  newer row when Gmail had nothing to change, also over one that a refresh of
  another session has just put right; no refresh repairs that row until the message
  changes again (`buried` in `ViewSession`, `unverified` in `MailSync`).
* `view.ts:1500`: a star that is there already retains the id for the snapshot
  being loaded, without any answer of Gmail, though `view-cache.ts:365-370` keeps
  ids "just verified or changed": the snapshot then spares the row of a message
  that was deleted before it began (`unverified`).
* `api-retry.ts:351` and `392`: "failures from requests admitted at the old pace
  are one pressure wave", but what decides is the pace alone. If others of the
  wave succeed and the pace recovers to half the interval or less, as three batch
  reads of 50 do, two of its failures slow down one after the other (hence
  `across` in `OneSlowdownPerWave`; TLC finds it with two calls more than
  `Limiter` has).
* `sent-index.ts:10-12`: the set "has to be complete before the first message can
  be trashed". A thread whose only sent mail is trashed while a pass goes by, and
  that is written in again meanwhile above the pages already read, is missing
  (hence the promise about mail in `ReplyProtection`).
* `ui/operations.ts:58-63`: "one operation at a time" does not hold after a
  cancelled sign-in, which goes on beside the next one; nor beside a disconnect,
  which checks that the page is idle and does not mark it (`operations.ts:205-210`):
  a run or a sign-in can be started while it is under way.
* `hosted-client.ts:88-101`, `hosted-session.ts:217` and `226-231`: if the answer to
  a renewal is lost, or the rotated token cannot be stored, the command asks again
  with the token it has just retired, is refused, and tells the user that the
  session is gone (hence the exception in `NoSelfInflictedStop`).
* `hosted-session.ts:245-248`: the local secret is erased "either way", but a
  renewal under way in a command without the lock stores its successor.
* `quota.ts:8-11`: the limit is said to hold however many requests run at once.
  But the windows are fixed before the transaction (`app.ts:175`, `quota.ts:57`): one
  of an older minute that commits after one of a newer minute takes the document
  back, and the next request of the newer minute starts its count anew. And a refund
  made in a later window comes off that window (`quota.ts:99`).
* `entitlements.ts:50-52`: a block holds against a new consent, but
  `revokeEntitlement` overwrites "blocked", and `recordConsent` reads the status
  and sets it without a transaction.

## 7. Plan

Done: every module of section 2 and the proofs of section 5. What is left, in
this order:

1. Compose and send (one send per confirmation), and the unsubscribe step of
   `gmail spam`.
2. An abstract specification of one atomic insertion into the calendar, refined by
   `ActionLedger`; what it would promise is now said by `AppliedWasDone`,
   `LinkTruthful` and `FiledOnlyWithEvent`.

## 8. Not modelled, and why

Dry runs (they write nothing); in `ViewSession` unread mail, messages deleted for
ever, filters and search (they narrow a folder), the cursor, composing and
replying; `gmail undo`, which is not a registered command
(`docs/commands.md:349`); removing rules (no public command does); the
unsubscribe step of `gmail spam` (`spam.ts:250-328`); prompts, schemas, drafts
and writing style; the browser login, which succeeds or fails; HTTP, rendering
and configuration (input and output without state of their own). A sign-in resets
the history marker of an account row that exists; `MailSync` has no sign-in. A
crash of the UI process is not modelled, one of its commands is; liveness of the
page is not checked. A folder is one chunk in `MailSync`; its pages are in
`ViewLoader`. A deleted calendar event answers 404, as `idempotency.ts` assumes;
an event that Google returns as cancelled is not modelled. Runs of `Triage` read
any subset of Inbox and Spam. There is one account throughout.
