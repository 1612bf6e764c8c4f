------------------------------- MODULE Policy -------------------------------
(***************************************************************************)
(* What `gmail` decides about one message: matching the user's rules       *)
(* (src/src/rules), mapping the classifier's tag to an assessment          *)
(* (src/src/ai/assessment-mapping.ts), the deterministic action policy     *)
(* (src/src/core/policy.ts) and the gates around it in finalizeOutcome     *)
(* (src/src/core/orchestrator.ts).  Everything here is a pure function of  *)
(* the message, the rules and the answer of the reply check.               *)
(*                                                                         *)
(* A message is reduced to its traits: what the classifier says of it      *)
(* (tag, event, category), what its headers prove (aligned: a passing      *)
(* aligned DKIM or DMARC result), who sent it (from, and list when it has  *)
(* a List-ID), whether the text is of a high-risk transactional kind, and  *)
(* whether it carries a bulk header and was read.                          *)
(*                                                                         *)
(* The 90-day cleanup is left out: it asks for a routine message with      *)
(* confidence 0.8, and the mapping gives routine mail confidence 0.        *)
(***************************************************************************)
EXTENDS Naturals, FiniteSets

CONSTANTS
    Identity,       \* sender addresses and List-IDs rules can name
    NoList,         \* the List-ID of a message that has none
    Category,       \* topical categories the classifier can propose
    NoCategory      \* no category proposed

ASSUME PolicyConstants == NoList \notin Identity /\ NoCategory \notin Category

Trait == [tag : {"spam", "suspicious", "important", "other"},
          event : {"none", "sound", "unsound"},
          category : Category \cup {NoCategory},
          risky : BOOLEAN, aligned : BOOLEAN, bulk : BOOLEAN, read : BOOLEAN,
          list : Identity \cup {NoList}, from : Identity]

(***************************************************************************)
(* Rules.  A stored group is the set of its matchers, any of which         *)
(* matches; a rule is one matcher of a group.  Important rules are bound   *)
(* to an aligned authentication result, spam rules are not.  "auto" tells  *)
(* the rules a cleanup made by itself from those the user asked for.       *)
(***************************************************************************)
Rule == [action : {"spam", "important"}, key : Identity, auto : BOOLEAN]

Bound(rule) == rule.action = "important"

MatcherResult(rule, t) ==
    IF rule.key \notin {t.list, t.from} THEN "no_match"
    ELSE IF Bound(rule) /\ ~t.aligned THEN "auth_failed" ELSE "matched"

Matched(rules, action, t) ==
    \E rule \in rules : rule.action = action /\ MatcherResult(rule, t) = "matched"

\* A matching spam rule wins over a matching important one.
ExplicitRule(rules, t) ==
    IF Matched(rules, "spam", t) THEN "spam"
    ELSE IF Matched(rules, "important", t) THEN "important" ELSE "none"

AuthFailedImportantRule(rules, t) ==
    /\ ExplicitRule(rules, t) # "spam"
    /\ \E rule \in rules : /\ rule.action = "important"
                           /\ MatcherResult(rule, t) = "auth_failed"

\* A plausible bug, for a mutant: the sender is not fallen back to.
ListIdentity(t) == t.list
\* The identity a rule made from this message is about: the list, else the sender.
SourceIdentity(t) == IF t.list # NoList THEN t.list ELSE t.from

Conflicts(rules, action, keys) ==
    \E rule \in rules : rule.action # action /\ rule.key \in keys

HighRiskSignal(t) == t.aligned /\ t.risky

(***************************************************************************)
(* The assessment of a message.  usable is FALSE when the classifier was   *)
(* not asked or gave no usable answer.                                     *)
(***************************************************************************)
NoAssessment == [usable |-> FALSE, kind |-> "unknown", event |-> "none", category |-> NoCategory]

Assessment(t) ==
    [usable |-> TRUE,
     kind |-> CASE t.tag = "spam" -> "promotion"
                [] t.tag = "suspicious" -> "suspicious"
                [] t.tag = "important" -> "personal_important"
                [] OTHER -> "personal_routine",
     event |-> IF t.tag = "suspicious" THEN "none" ELSE t.event,
     category |-> IF t.tag = "suspicious" THEN NoCategory ELSE t.category]

(***************************************************************************)
(* evaluateMessagePolicy.  An action is its type and the reason it is      *)
(* planned for; label actions name the category as the reason.             *)
(***************************************************************************)
Act(type, why) == [type |-> type, why |-> why]
Decision(actions, review) == [actions |-> actions, review |-> review]
TrashOnly(why) == Decision({Act("trash", why)}, "no")
Trashes(decision) == \E a \in decision.actions : a.type = "trash"

StarAndMark(why) == {Act("star", why), Act("mark_important", why)}

AssessedActions(in) ==
    LET a == in.assessment IN
    IF ~a.usable \/ a.kind = "suspicious" THEN {}
    ELSE (IF ~in.protected /\ a.kind = "personal_important"
          THEN StarAndMark("ai_importance") ELSE {})
         \cup (IF a.event # "none" THEN {Act("calendar_create", "ai_event")} ELSE {})
         \cup (IF a.category # NoCategory THEN {Act("label", a.category)} ELSE {})

RuleActions(in, planned) ==
    IF in.rule # "important" THEN {}
    ELSE {a \in StarAndMark("explicit_important_rule") : \A b \in planned : b.type # a.type}

ArchiveRead(in) ==
    IF in.archive /\ in.read /\ in.inInbox THEN {Act("archive", "read_non_trash")} ELSE {}

PolicyReview(in) ==
    IF ~in.protected /\ in.unavailable THEN "assessment_unavailable"
    ELSE IF ~in.assessment.usable THEN "no"
    ELSE IF ~in.protected /\ in.assessment.kind = "promotion" /\ in.highRisk
         THEN "authenticated_high_risk_veto"
    ELSE IF in.assessment.kind = "suspicious" THEN "ai_suspicious" ELSE "no"

PromotionalTrash(in) ==
    /\ in.assessment.usable /\ in.assessment.kind = "promotion"
    /\ ~in.protected /\ ~in.highRisk

PolicyDecision(in) ==
    IF in.rule = "spam"
    THEN IF in.protected /\ ~in.override
         THEN Decision({}, "protected_message_conflicts_with_spam_rule")
         ELSE TrashOnly("explicit_spam_rule")
    ELSE IF in.native
    THEN IF in.protected THEN Decision({}, "protected_native_spam_conflict")
         ELSE TrashOnly("native_spam")
    ELSE IF PromotionalTrash(in) THEN TrashOnly("ai_promotion")
    ELSE LET planned == AssessedActions(in) IN
         Decision(planned \cup RuleActions(in, planned) \cup ArchiveRead(in), PolicyReview(in))

(***************************************************************************)
(* finalizeOutcome.  place is where the message was when it was read       *)
(* ("inbox" or "spam"), answer what the classifier did ("given", "failed") *)
(* and reply what the reply check says: "no", "yes", or "failed" when it   *)
(* could not be answered.                                                  *)
(***************************************************************************)
Bypassed(rules, t, place) == ExplicitRule(rules, t) = "spam" \/ place = "spam"

PolicyInput(rules, t, place, answer, archive) ==
    LET assessment == IF answer = "given" /\ ~Bypassed(rules, t, place)
                      THEN Assessment(t) ELSE NoAssessment IN
    [rule |-> ExplicitRule(rules, t),
     override |-> ExplicitRule(rules, t) = "spam",
     native |-> place = "spam", inInbox |-> place = "inbox", read |-> t.read,
     assessment |-> assessment,
     unavailable |-> answer = "failed" /\ ~Bypassed(rules, t, place),
     protected |-> assessment.event # "none",
     highRisk |-> HighRiskSignal(t),
     archive |-> archive]

\* Only a Trash the user's own rule did not ask for has to pass the reply check.
NeedsReplyCheck(in) ==
    in.rule # "spam" /\ ~in.protected /\ Trashes(PolicyDecision(in))

AfterReplyCheck(in, reply) ==
    LET protected == PolicyDecision([in EXCEPT !.protected = TRUE]) IN
    IF ~NeedsReplyCheck(in) \/ reply = "no" THEN PolicyDecision(in)
    ELSE IF reply = "yes" THEN protected
    ELSE Decision(protected.actions, "thread_reply_check_failed")

\* An event whose date or quoted evidence does not stand up is not created;
\* one that does brings the Calendar label and leaves the Inbox.
AfterEventCheck(in, decision) ==
    LET create == Act("calendar_create", "ai_event") IN
    IF create \notin decision.actions THEN decision
    ELSE IF in.assessment.event = "unsound"
    THEN Decision(decision.actions \ {create},
                  IF decision.review = "no" THEN "event_validation_failed" ELSE decision.review)
    ELSE Decision(decision.actions \cup {Act("label", "calendar_label:Calendar")}
                  \cup (IF \E a \in decision.actions : a.type = "archive" THEN {}
                        ELSE {Act("archive", "calendar_archive")}),
                  decision.review)

Outcome(rules, in, t, reply) ==
    LET decision == AfterEventCheck(in, AfterReplyCheck(in, reply)) IN
    IF AuthFailedImportantRule(rules, t)
    THEN Decision(decision.actions, "important_rule_auth_failed") ELSE decision

\* An unread bulk message the classifier had trashed counts towards an automatic rule.
BulkCandidate(in, t, decision) ==
    /\ in.assessment.usable /\ in.assessment.kind = "promotion"
    /\ ~in.protected /\ ~in.native /\ in.rule = "none" /\ ~in.read
    /\ decision.review = "no" /\ Trashes(decision)
    /\ ~in.highRisk /\ t.bulk

(***************************************************************************)
(* createAutomaticSpamRules: the keys enough of this run's messages share, *)
(* unless a rule is there already or an important one names the key.       *)
(***************************************************************************)
AutomaticKeys(rules, voters, atLeast) ==
    {k \in Identity :
        /\ Cardinality({m \in DOMAIN voters : voters[m] = k}) >= atLeast
        /\ \A rule \in rules : ~(rule.action = "spam" /\ rule.key = k)
        /\ ~Conflicts(rules, "spam", {k})}
=============================================================================
