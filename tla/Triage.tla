------------------------------- MODULE Triage -------------------------------
(***************************************************************************)
(* `gmail` from the messages it read to what it does with them, over many  *)
(* runs: the decision on each message with its reply check (Policy,        *)
(* SentIndex), the votes that earn a topical label, the spam rules a run   *)
(* makes by itself, and the writes, in src/src/core/orchestrator.ts and    *)
(* src/src/commands/work.ts; with `gmail add`, `gmail category` and the    *)
(* part of `gmail uncache` that clears votes.                              *)
(*                                                                         *)
(* Which messages a run reads is MailSync's subject; here it is any set of *)
(* messages of Inbox and Spam.  What the ledger records of the writes is   *)
(* ActionLedger's.  All commands hold the account lock, so a command never *)
(* meets a run; the user and Gmail are not bound by it.                    *)
(***************************************************************************)
EXTENDS Policy, SentIndex, TLC

CONSTANTS
    Msg,            \* messages of the mailbox
    ThreadOf,       \* the thread of each message
    Settings,       \* the behaviours of this instance: see Setting
    MinLabelVotes,  \* MIN_LABEL_BATCH_SIZE (10)
    MinRuleVotes    \* MIN_AUTOMATIC_SPAM_RULE_MESSAGES (3)

\* A behaviour fixes what each message is like, what the user does beside cleaning up, and
\* whether cleanups are asked to archive.  An instance is a set of such settings, so that not
\* everything has to happen in one state space.
CommandNames == {"send", "move", "spam", "important", "category", "label", "uncache"}
Setting == [trait : [Msg -> Trait], commands : SUBSET CommandNames, archive : BOOLEAN]

ASSUME TriageConstants ==
    /\ IsFiniteSet(Msg) /\ ThreadOf \in [Msg -> Thread] /\ Settings \subseteq Setting
    /\ MinLabelVotes \in Nat \ {0} /\ MinRuleVotes \in Nat \ {0}

VARIABLES
    setting,    \* the setting of this behaviour
    place,      \* the Gmail folder each message is in
    rules,      \* rule_groups: the stored matchers
    labels,     \* categories Gmail has a user label for
    votes,      \* label_candidate_votes: who voted for a category
    count,      \* label_candidates.pending_count
    run         \* the cleanup in progress

vars == <<sentVars, setting, place, rules, labels, votes, count, run>>

trait == setting.trait
Places == {"inbox", "spam", "archive", "trash"}
NoOutcome == Decision({}, "undecided")
NoRun ==
    [pc |-> "idle", scope |-> {}, failed |-> {},
     at |-> [m \in Msg |-> "none"],         \* labelIdsAtSnapshot: the folder it was read in
     outcome |-> [m \in Msg |-> NoOutcome],
     bulk |-> {},                           \* rule candidates
     known |-> {},                          \* labelIdByName
     fresh |-> [c \in Category |-> {}],     \* newlyVotedMessageIds
     updated |-> {}]                        \* categories with a LabelCandidateUpdate

RunPcs == {"idle", "deciding", "labelling", "trashing", "modifying", "checkpoint"}

TypeOK ==
    /\ SentTypeOK
    /\ setting \in Settings /\ place \in [Msg -> Places]
    /\ rules \subseteq Rule /\ labels \subseteq Category
    /\ votes \in [Category -> SUBSET Msg] /\ count \in [Category -> 0..Cardinality(Msg)]
    /\ run.pc \in RunPcs /\ run.scope \subseteq Msg /\ run.known \subseteq Category
    /\ run.updated \subseteq Category /\ run.fresh \in [Category -> SUBSET Msg]
    /\ run.bulk \subseteq run.scope

Init ==
    /\ SentInit
    /\ setting \in Settings
    /\ place \in [Msg -> {"inbox", "spam"}]
    /\ rules = {} /\ labels = {}
    /\ votes = [c \in Category |-> {}] /\ count = [c \in Category |-> 0]
    /\ run = NoRun

Idle == run.pc = "idle"
ActiveMail == {m \in Msg : place[m] \in {"inbox", "spam"}}

(***************************************************************************)
(* Reading and deciding.                                                   *)
(***************************************************************************)
\* failed: the messages the classifier will give no usable answer for.
StartRun(scope, failed) ==
    /\ Idle /\ scope # {}
    /\ run' = [NoRun EXCEPT !.pc = "deciding", !.scope = scope,
                            !.failed = failed,
                            !.known = labels,
                            !.at = [m \in Msg |-> IF m \in scope THEN place[m] ELSE "none"]]
    /\ UNCHANGED <<sentVars, setting, place, rules, labels, votes, count>>

Undecided == {m \in run.scope : run.outcome[m] = NoOutcome}
InputOf(m) == PolicyInput(rules, trait[m], run.at[m],
                          IF m \in run.failed THEN "failed" ELSE "given", setting.archive)
GateOpen == pass.pc \in {"loaded", "failed"}

\* The first message that needs the reply check starts the pass; all wait for it.
AskReplies(m) ==
    /\ run.pc = "deciding" /\ m \in Undecided
    /\ NeedsReplyCheck(InputOf(m))
    /\ BeginPass
    /\ UNCHANGED <<setting, place, rules, labels, votes, count, run>>

Decide(m) ==
    /\ run.pc = "deciding" /\ m \in Undecided
    /\ LET in == InputOf(m)
           outcome == Outcome(rules, in, trait[m], ReplyAnswer(ThreadOf[m])) IN
       /\ NeedsReplyCheck(in) => GateOpen
       /\ run' = [run EXCEPT !.outcome[m] = outcome,
                             !.bulk = IF BulkCandidate(in, trait[m], outcome)
                                      THEN @ \cup {m} ELSE @]
    /\ UNCHANGED <<sentVars, setting, place, rules, labels, votes, count>>

\* A page of the pass, or its failure.
ReplyPage == (ReadPage \/ PassFails) /\ UNCHANGED <<setting, place, rules, labels, votes, count, run>>

(***************************************************************************)
(* The label threshold: a category's votes are those of earlier runs and   *)
(* the messages that propose it now and did not before; it is applied when *)
(* its label exists or the votes suffice, and left out otherwise.          *)
(***************************************************************************)
Proposers(c) == {m \in run.scope : Act("label", c) \in run.outcome[m].actions}
\* A plausible bug, for a mutant: a message reconciled again votes again.
VotesAgain(c) == Proposers(c)
NewVotes(c) == Proposers(c) \ votes[c]
Cumulative(c) == count[c] + Cardinality(run.fresh[c])
Proposed == {c \in Category : Proposers(c) # {}}
Eligible(c) == c \in run.known \/ count[c] + Cardinality(NewVotes(c)) >= MinLabelVotes

CategoryLabels(decision) == {a \in decision.actions : a.type = "label" /\ a.why \in Category}

Threshold(decision) ==
    Decision(decision.actions \ {a \in CategoryLabels(decision) : ~Eligible(a.why)}, decision.review)

Plan ==
    /\ run.pc = "deciding" /\ Undecided = {} /\ pass.pc # "paging"
    /\ LET voters == [m \in run.bulk |-> SourceIdentity(trait[m])] IN
       rules' = rules \cup [action : {"spam"}, auto : {TRUE},
                            key : AutomaticKeys(rules, voters, MinRuleVotes)]
    /\ LET updated == Proposed \ run.known IN
       run' = [run EXCEPT !.pc = "labelling", !.updated = updated,
                          !.fresh = [c \in Category |-> IF c \in updated THEN NewVotes(c) ELSE {}],
                          !.outcome = [m \in Msg |-> IF m \in run.scope THEN Threshold(@[m]) ELSE @[m]]]
    /\ UNCHANGED <<sentVars, setting, place, labels, votes, count>>

(***************************************************************************)
(* The writes.  A label that cannot be created is left out; 409 means it   *)
(* is there, and it is adopted.                                            *)
(***************************************************************************)
Needed == UNION {{a.why : a \in CategoryLabels(run.outcome[m])} : m \in run.scope}

ResolveLabels(made) ==
    /\ run.pc = "labelling" /\ made \subseteq Needed \ run.known
    /\ labels' = labels \cup made
    /\ run' = [run EXCEPT !.pc = "trashing", !.known = @ \cup made]
    /\ UNCHANGED <<sentVars, setting, place, rules, votes, count>>

Move(moved, to) == place' = [m \in Msg |-> IF m \in moved THEN to ELSE place[m]]

TrashMail(done) ==
    /\ run.pc = "trashing"
    /\ done \subseteq {m \in run.scope : Trashes(run.outcome[m])}
    /\ Move(done, "trash")
    /\ run' = [run EXCEPT !.pc = "modifying"]
    /\ UNCHANGED <<sentVars, setting, rules, labels, votes, count>>

ArchiveMail(done) ==
    /\ run.pc = "modifying"
    /\ done \subseteq {m \in run.scope : /\ \E a \in run.outcome[m].actions : a.type = "archive"
                                         /\ place[m] = "inbox"}
    /\ Move(done, "archive")
    /\ run' = [run EXCEPT !.pc = "checkpoint"]
    /\ UNCHANGED <<sentVars, setting, rules, labels, votes, count>>

\* The checkpoint's share of the votes, in the transaction that ends the run.
Resolved(c) == Cumulative(c) >= MinLabelVotes /\ c \in run.known
Checkpoint ==
    /\ run.pc = "checkpoint"
    /\ count' = [c \in Category |-> IF c \notin run.updated THEN count[c]
                                    ELSE IF Resolved(c) THEN 0 ELSE Cumulative(c)]
    /\ votes' = [c \in Category |-> IF c \notin run.updated THEN votes[c]
                                    ELSE IF Resolved(c) THEN {} ELSE votes[c] \cup run.fresh[c]]
    /\ run' = NoRun
    /\ DropPass
    /\ UNCHANGED <<setting, place, rules, labels>>

\* The process dies, is interrupted, or an error ends the run before its checkpoint.
Crash ==
    /\ ~Idle
    /\ run' = NoRun
    /\ DropPass
    /\ UNCHANGED <<setting, place, rules, labels, votes, count>>

(***************************************************************************)
(* gmail add, category and uncache.                                        *)
(***************************************************************************)
KeysOf(found) == {SourceIdentity(trait[m]) : m \in found}
\* Rules are only ever added.
NewRules(action, keys) == rules \cup [action : {action}, auto : {FALSE}, key : keys]

\* gmail add spam: the public command lets the new rule override an important one.
AddSpam(found, done) ==
    /\ Idle /\ found # {} /\ found \subseteq ActiveMail /\ done \subseteq found
    /\ rules' = NewRules("spam", KeysOf(found))
    /\ Move(done, "trash")
    /\ UNCHANGED <<sentVars, setting, labels, votes, count, run>>

\* gmail add important: bound to the authentication of the first message of each
\* identity; an identity whose sample passes none gets no rule.
AddImportant(found) ==
    \E sample \in [KeysOf(found) -> found] :
    LET bound == {k \in KeysOf(found) : trait[sample[k]].aligned} IN
    /\ Idle /\ found # {} /\ \A m \in found : place[m] = "inbox"
    /\ \A k \in KeysOf(found) : SourceIdentity(trait[sample[k]]) = k
    /\ bound # {} /\ ~Conflicts(rules, "important", bound)
    /\ rules' = NewRules("important", bound)
    /\ UNCHANGED <<sentVars, setting, place, labels, votes, count, run>>

\* gmail category, and the user making a label in Gmail.
MakeLabel(c) ==
    /\ c \notin labels
    /\ labels' = labels \cup {c}
    /\ UNCHANGED <<sentVars, setting, place, rules, votes, count, run>>

RemoveLabel(c) ==
    /\ c \in labels
    /\ labels' = labels \ {c}
    /\ UNCHANGED <<sentVars, setting, place, rules, votes, count, run>>

\* A plausible bug, for a mutant: the counts are cleared, the voters are not.
UncacheCountsOnly ==
    /\ Idle
    /\ count' = [c \in Category |-> 0]
    /\ UNCHANGED <<sentVars, setting, place, rules, labels, votes, run>>

Uncache ==
    /\ Idle
    /\ votes' = [c \in Category |-> {}] /\ count' = [c \in Category |-> 0]
    /\ UNCHANGED <<sentVars, setting, place, rules, labels, run>>

\* The user rescues, restores, or reports a message in Gmail.
UserMoves(m, to) ==
    /\ <<place[m], to>> \in {<<"spam", "inbox">>, <<"trash", "inbox">>,
                             <<"archive", "inbox">>, <<"inbox", "spam">>}
    /\ Move({m}, to)
    /\ UNCHANGED <<sentVars, setting, rules, labels, votes, count, run>>

User ==
    \/ "send" \in setting.commands /\ UserSends /\ UNCHANGED <<setting, place, rules, labels, votes, count, run>>
    \/ "move" \in setting.commands /\ \E m \in Msg, to \in {"inbox", "spam"} : UserMoves(m, to)
    \/ "spam" \in setting.commands /\ \E found \in SUBSET ActiveMail : \E done \in SUBSET found : AddSpam(found, done)
    \/ "important" \in setting.commands /\ \E found \in SUBSET ActiveMail : AddImportant(found)
    \/ "category" \in setting.commands /\ Idle /\ \E c \in Category : MakeLabel(c)
    \/ "label" \in setting.commands /\ \E c \in Category : MakeLabel(c) \/ RemoveLabel(c)
    \/ "uncache" \in setting.commands /\ Uncache

Cleanup ==
    \/ \E scope \in SUBSET ActiveMail : \E failed \in SUBSET scope :
           StartRun(scope, failed)
    \/ \E m \in Msg : AskReplies(m) \/ Decide(m)
    \/ ReplyPage
    \/ Plan
    \/ \E made \in SUBSET Category : ResolveLabels(made)
    \/ \E done \in SUBSET Msg : TrashMail(done) \/ ArchiveMail(done)
    \/ Checkpoint
    \/ Crash

Next == Cleanup \/ User

Spec == Init /\ [][Next]_vars
-----------------------------------------------------------------------------
(***************************************************************************)
(* Hazard: the mark, pages read while mail is sent, and a pass that fails  *)
(* (sent-index.ts:47).  The index and the gate implement ReplyProtection:  *)
(* between the answer and the end of the run, no thread of mail that was    *)
(* there from the question to the answer loses a message without a rule.   *)
(***************************************************************************)
UnaskedTrash(m) ==
    \E a \in run.outcome[m].actions : a.type = "trash" /\ a.why # "explicit_spam_rule"

WithThreads(ids) == {<<i, sent[i].thread>> : i \in ids}
Promise == INSTANCE ReplyProtection WITH
    Mail <- 1..MaxSent,
    replied <- WithThreads(Written(sent)),
    owed <- WithThreads(owed),
    answered <- pass.pc = "loaded",
    answer <- IF pass.pc = "loaded" THEN pass.known ELSE {},
    exposed <- {ThreadOf[m] : m \in {n \in run.scope : UnaskedTrash(n)}}

RepliesProtected == Promise!Spec

\* Hazard: votes accumulate over runs, crashes and label clean-ups
\* (orchestrator.ts:990, work.ts:908): the stored count is the number of stored voters.
VotesCounted == \A c \in Category : count[c] = Cardinality(votes[c])

\* A cleanup creates a topical label only when MinLabelVotes distinct messages, voters of
\* earlier runs and proposers of this one, asked for it (orchestrator.ts:1004).
LabelsEarned ==
    [][\A c \in labels' \ labels :
          run.pc = "labelling" /\ run'.pc = "trashing"
          => Cardinality(votes[c] \cup run.fresh[c]) >= MinLabelVotes]_vars

\* sent-index.ts:10-12: the set of replied threads "gates every AI-derived Trash action": a
\* message that only rules made by a cleanup itself speak against, in a thread the user wrote
\* in, is not decided for Trash.
CaughtByAutoRule(m) ==
    LET matched == {rule \in rules : MatcherResult(rule, trait[m]) = "matched"} IN
    matched # {} /\ \A rule \in matched : rule.auto

AutoRulesSpareReplies ==
    [][\A m \in Msg :
          run.outcome[m] = NoOutcome /\ Trashes(run'.outcome[m]) /\ CaughtByAutoRule(m)
          => ThreadOf[m] \notin Replied(sent)]_vars
=============================================================================
