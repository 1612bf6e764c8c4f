---------------------------- MODULE TriageProofs ----------------------------
(***************************************************************************)
(* What TriageProofs establishes for any mailbox, policy and settings: the *)
(* mark certifies every older message, the index and the gate implement    *)
(* ReplyProtection, votes are counted and labels are earned.               *)
(*                                                                         *)
(* The argument about a pass (PassInv): every message at or above the page *)
(* token that is still listed, and older than something found, was found,  *)
(* or came back after it was passed over and is missed.                    *)
(***************************************************************************)
EXTENDS Triage, FiniteSetTheorems, WellFoundedInduction, TLAPS

(***************************************************************************)
(* Bounded sets of numbers have a least and a greatest member.             *)
(***************************************************************************)
\* Any nonempty set of numbers has a least one.
LEMMA LeastExists ==
  ASSUME NEW S \in SUBSET Nat, S # {}
  PROVE  \E x \in S : \A y \in S : x <= y
<1> DEFINE R == {p \in Nat \X Nat : p[1] < p[2]}
<1>1. IsWellFoundedOn(R, Nat)
  BY NatLessThanWellFounded DEF OpToRel
<1>2. PICK x \in S : \A y \in S : <<y, x>> \notin R
  <2> HIDE DEF R
  <2> QED
    BY <1>1, WFMin
<1>3. ASSUME NEW y \in S PROVE x <= y
  <2>1. <<y, x>> \notin R
    BY <1>2
  <2>2. ~(y < x)
    BY <2>1
  <2> QED
    BY <2>2
<1> QED
  BY <1>3

\* Any nonempty set of numbers with a bound has a greatest one.
LEMMA GreatestExists ==
  ASSUME NEW n \in Nat, NEW S \in SUBSET (0..n), S # {}
  PROVE  \E x \in S : \A y \in S : y <= x
<1> DEFINE D == {k \in Nat : \E y \in S : k = n - y}
<1>1. D \in SUBSET Nat
  OBVIOUS
<1>2. D # {}
  <2>1. PICK y \in S : TRUE
    OBVIOUS
  <2>2. n - y \in D
    OBVIOUS
  <2> QED
    BY <2>2
<1>3. PICK d \in D : \A e \in D : d <= e
  <2> HIDE DEF D
  <2> QED
    BY <1>1, <1>2, LeastExists
<1>4. PICK x \in S : d = n - x
  BY <1>3
<1>5. ASSUME NEW y \in S PROVE y <= x
  <2>1. n - y \in D
    OBVIOUS
  <2>2. n - x <= n - y
    BY <2>1, <1>3, <1>4
  <2> QED
    BY <2>2
<1> QED
  BY <1>5

-----------------------------------------------------------------------------
(***************************************************************************)
(* The pages of a pass.                                                    *)
(***************************************************************************)
\* The mail that is listed, or hidden after the page it is on was read.
Present(mail) == {i \in DOMAIN mail : mail[i].state # "gone" /\ ~mail[i].missed}

MarkInv == \A i \in 1..mark : i \in Present(sent) => sent[i].thread \in indexed

PassInv ==
  /\ pass.pc # "paging" => owed = {}
  /\ pass.pc = "paging" =>
       /\ pass.known = indexed /\ pass.found \subseteq Ids
       /\ \A i \in Present(sent) :
             i >= pass.next /\ (\E f \in pass.found : i <= f) => i \in pass.found
       /\ owed \subseteq Written(sent)
       /\ \A i \in owed : i >= pass.next => i \in pass.found

SentInv == SentTypeOK /\ MarkInv /\ PassInv

LEMMA IdsAreNumbers ==
  ASSUME SentTypeOK
  PROVE  /\ Len(sent) \in Nat /\ Ids = 1..Len(sent)
         /\ \A i \in Ids : i \in Nat /\ i <= MaxSent /\ i > 0 /\ sent[i].thread \in Thread
<1> DEFINE S == [thread : Thread, state : {"listed", "hidden", "gone"}, missed : BOOLEAN]
<1>1. sent \in Seq(S) /\ Len(sent) <= MaxSent
  BY DEF SentTypeOK
<1>2. Len(sent) \in Nat /\ Ids = 1..Len(sent) /\ \A i \in Ids : sent[i] \in S
  <2> HIDE DEF S
  <2> QED
    BY <1>1 DEF Ids
<1> QED
  BY <1>1, <1>2, SentIndexConstants

\* A set of sent mail has a newest and an oldest member, and Newest and Oldest name them.
LEMMA NewestIsNewest ==
  ASSUME SentTypeOK, NEW ids \in SUBSET Ids, ids # {}
  PROVE  /\ Newest(ids) \in ids /\ Oldest(ids) \in ids
         /\ \A i \in ids : i <= Newest(ids) /\ Oldest(ids) <= i
<1>1. Len(sent) \in Nat /\ ids \in SUBSET (0..Len(sent)) /\ ids \in SUBSET Nat
  BY IdsAreNumbers
<1>2. \E i \in ids : \A j \in ids : j <= i
  BY <1>1, GreatestExists
<1>3. \E i \in ids : \A j \in ids : i <= j
  BY <1>1, LeastExists
<1> QED
  BY <1>2, <1>3 DEF Newest, Oldest

\* A page is a newest part of what is left: what is listed above a member is a member.
LEMMA PageIsUpward ==
  ASSUME SentTypeOK, NEW n \in Nat, NEW i \in Page(n), NEW j \in Below(n), j > i
  PROVE  j \in Page(n)
<1> DEFINE Above(k) == {l \in Below(n) : l > k}
<1>1. Below(n) \in SUBSET Ids
  BY DEF Below, Listed
<1>2. IsFiniteSet(Above(i))
  <2>1. IsFiniteSet(1..Len(sent)) /\ Above(i) \in SUBSET (1..Len(sent))
    BY <1>1, IdsAreNumbers, FS_Interval
  <2> QED
    BY <2>1, FS_Subset
<1>3. Above(j) \in SUBSET Above(i)
  BY <1>1, IdsAreNumbers DEF Page
<1>4. Cardinality(Above(j)) <= Cardinality(Above(i))
      /\ Cardinality(Above(j)) \in Nat /\ Cardinality(Above(i)) \in Nat
  BY <1>2, <1>3, FS_Subset, FS_CardinalityType
<1>5. Cardinality(Above(i)) < PageSize
  BY DEF Page
<1>6. Cardinality(Above(j)) < PageSize
  BY <1>4, <1>5, SentIndexConstants
<1> QED
  BY <1>6 DEF Page

\* A page of something is not empty.
LEMMA PageHasMail ==
  ASSUME SentTypeOK, NEW n \in Nat, Below(n) # {}
  PROVE  Page(n) # {}
<1>1. Below(n) \in SUBSET Ids
  BY DEF Below, Listed
<1>2. PICK i \in Below(n) : \A j \in Below(n) : j <= i
  BY <1>1, NewestIsNewest
<1>3. {j \in Below(n) : j > i} = {}
  BY <1>1, <1>2, IdsAreNumbers
<1>4. i \in Page(n)
  BY <1>3, FS_EmptySet, SentIndexConstants DEF Page
<1> QED
  BY <1>4

\* What a page, or the page before the last page's end, leaves out is below the mark.
LEMMA PageFinds ==
  ASSUME SentTypeOK, NEW n \in Nat, NEW i \in Written(sent), i < n,
         (Page(n) = Below(n)) \/ mark \in Page(n) \/ i >= Oldest(Page(n))
  PROVE  i \in UpToStop(Page(n)) \/ (mark \in Page(n) /\ i <= mark)
<1>1. i \in Below(n) /\ i \in Ids /\ i \in Nat
  BY IdsAreNumbers DEF Written, Below, Listed, Ids
<1>2. Page(n) \in SUBSET Ids /\ \A j \in Page(n) : j \in Nat
  BY IdsAreNumbers DEF Page, Below, Listed
<1>3. CASE mark \in Page(n)
  <2>1. i > mark => i \in Page(n)
    BY <1>1, <1>3, PageIsUpward
  <2> QED
    BY <2>1, <1>1, <1>2, <1>3 DEF UpToStop
<1>4. CASE mark \notin Page(n)
  <2>1. Page(n) # {}
    BY <1>1, PageHasMail
  <2>2. Oldest(Page(n)) \in Page(n)
    BY <1>2, <2>1, NewestIsNewest
  <2>3. i > Oldest(Page(n)) => i \in Page(n)
    BY <1>1, <2>2, PageIsUpward
  <2>4. i \in Page(n)
    BY <1>1, <1>2, <1>4, <2>2, <2>3
  <2> QED
    BY <1>4, <2>4 DEF UpToStop
<1> QED
  BY <1>3, <1>4

\* Reading a page changes no thread and no state, and what becomes missed was hidden.
LEMMA PassedOverKeeps ==
  ASSUME SentTypeOK, NEW page, sent' = PassedOver(page), LastPage(page) \/ Oldest(page) \in Nat
  PROVE  /\ sent' \in Seq([thread : Thread, state : {"listed", "hidden", "gone"}, missed : BOOLEAN])
         /\ Len(sent') = Len(sent) /\ DOMAIN sent' = Ids
         /\ \A i \in Ids : sent'[i].thread = sent[i].thread /\ sent'[i].state = sent[i].state
         /\ Written(sent') = Written(sent)
         /\ Present(sent') \subseteq Present(sent)
         /\ \A i \in Present(sent') :
               i >= (IF LastPage(page) THEN 1 ELSE Oldest(page)) /\ i < pass.next => i \in Written(sent)
<1> DEFINE S == [thread : Thread, state : {"listed", "hidden", "gone"}, missed : BOOLEAN]
           low == IF LastPage(page) THEN 1 ELSE Oldest(page)
<1>1. Len(sent) \in Nat /\ Ids = 1..Len(sent) /\ \A i \in Ids : sent[i] \in S
  <2> HIDE DEF low, S
  <2>1. Len(sent) \in Nat /\ Ids = 1..Len(sent) /\ sent \in Seq(S)
    BY IdsAreNumbers DEF SentTypeOK, S
  <2> QED
    BY <2>1 DEF Ids
<1>2. sent' = [i \in Ids |-> IF i \in low..(pass.next - 1) /\ sent[i].state = "hidden"
                             THEN [sent[i] EXCEPT !.missed = TRUE] ELSE sent[i]]
  BY DEF PassedOver
<1>3. \A i \in Ids : /\ sent'[i] \in S
                     /\ sent'[i].thread = sent[i].thread /\ sent'[i].state = sent[i].state
                     /\ sent'[i].missed = sent[i].missed \/ sent[i].state = "hidden"
  <2> HIDE DEF low
  <2> TAKE i \in Ids
  <2>1. sent'[i] = sent[i] \/ (sent'[i] = [sent[i] EXCEPT !.missed = TRUE] /\ sent[i].state = "hidden")
    BY <1>2
  <2>2. sent[i] \in S
    BY <1>1
  <2> QED
    BY <2>1, <2>2
<1>4. DOMAIN sent' = Ids
  BY <1>2
<1>5. sent' \in [1..Len(sent) -> S]
  <2> HIDE DEF low, S
  <2> QED
    BY <1>1, <1>2, <1>3
<1>6. sent' \in Seq(S) /\ Len(sent') = Len(sent)
  <2> HIDE DEF S
  <2> QED
    BY <1>1, <1>5
<1>7. Written(sent') = Written(sent)
  <2>1. \A i \in Ids : sent'[i].state = "listed" /\ ~sent'[i].missed
                       <=> sent[i].state = "listed" /\ ~sent[i].missed
    BY <1>3
  <2> QED
    BY <1>4, <2>1 DEF Written, Ids
<1>8. Present(sent') \subseteq Present(sent)
  BY <1>2, <1>3, <1>4 DEF Present, Ids
<1>9. ASSUME NEW i \in Present(sent'), i >= low, i < pass.next
      PROVE  i \in Written(sent)
  <2>1. i \in Ids /\ ~sent'[i].missed /\ sent'[i].state # "gone"
    BY <1>4 DEF Present
  <2>2. ASSUME sent[i].state = "hidden" PROVE FALSE
    <3>1. i \in low..(pass.next - 1)
      BY <1>1, <1>9, <2>1, IdsAreNumbers DEF SentTypeOK, PassType
    <3>2. sent'[i] = [sent[i] EXCEPT !.missed = TRUE]
      BY <1>2, <2>1, <2>2, <3>1
    <3> QED
      BY <1>1, <2>1, <3>2
  <2>3. sent[i].state = "listed" /\ ~sent[i].missed
    BY <1>1, <1>3, <2>1, <2>2
  <2> QED
    BY <2>1, <2>3 DEF Written, Ids
<1> QED
  BY <1>3, <1>4, <1>6, <1>7, <1>8, <1>9

\* What the rest of the run may take from a page that was read.
LEMMA ReadPageFound ==
  ASSUME SentInv, ReadPage, NEW found,
         found = pass.found \cup UpToStop(Page(pass.next))
  PROVE  /\ found \in SUBSET Ids
         /\ UpToStop(Page(pass.next)) \in SUBSET Below(pass.next)
         /\ pass.pc = "paging" /\ pass.next \in Nat
         /\ sent' = PassedOver(Page(pass.next))
  BY IdsAreNumbers DEF SentInv, PassInv, ReadPage, SentTypeOK, PassType, UpToStop, Page, Below, Listed

LEMMA LastPageKeeps ==
  ASSUME SentInv, ReadPage, LastPage(Page(pass.next))
  PROVE  /\ SentInv' /\ pass'.pc = "loaded" /\ owed' = {}
         /\ pass'.known \in SUBSET Thread /\ Written(sent') = Written(sent)
         /\ \A i \in Ids : sent'[i].thread = sent[i].thread
         /\ \A i \in owed : sent[i].thread \in pass'.known
<1> DEFINE page == Page(pass.next)
           found == pass.found \cup UpToStop(page)
<1>1. /\ found \in SUBSET Ids /\ UpToStop(page) \in SUBSET Below(pass.next)
      /\ pass.pc = "paging" /\ pass.next \in Nat /\ sent' = PassedOver(page)
  BY ReadPageFound
<1>2. Persist(found)
  BY DEF ReadPage
<1> HIDE DEF found
<1>3. /\ sent' \in Seq([thread : Thread, state : {"listed", "hidden", "gone"}, missed : BOOLEAN])
      /\ Len(sent') = Len(sent) /\ DOMAIN sent' = Ids
      /\ \A i \in Ids : sent'[i].thread = sent[i].thread /\ sent'[i].state = sent[i].state
      /\ Written(sent') = Written(sent) /\ Present(sent') \subseteq Present(sent)
      /\ \A i \in Present(sent') : i >= 1 /\ i < pass.next => i \in Written(sent)
  BY <1>1, PassedOverKeeps DEF SentInv
<1>4. ThreadsOf(found) \in SUBSET Thread
  BY <1>1, IdsAreNumbers DEF ThreadsOf, SentInv
<1>5. mark' \in 0..Len(sent)
  BY <1>1, <1>2, NewestIsNewest, IdsAreNumbers DEF Persist, SentInv, SentTypeOK
<1>6. SentTypeOK'
  <2>1. pass' = [pass EXCEPT !.pc = "loaded", !.found = {}, !.next = MaxSent + 1,
                             !.known = pass.known \cup ThreadsOf(found)]
    BY <1>2 DEF Persist
  <2>2. pass' \in PassType
    <3>1. pass \in PassType /\ MaxSent + 1 \in 1..(MaxSent + 1) /\ {} \in SUBSET (1..MaxSent)
      BY SentIndexConstants DEF SentInv, SentTypeOK
    <3>2. pass.known \cup ThreadsOf(found) \in SUBSET Thread
      BY <3>1, <1>4 DEF PassType
    <3> QED
      BY <2>1, <3>1, <3>2 DEF PassType
  <2> QED
    BY <1>2, <1>3, <1>4, <1>5, <2>2 DEF Persist, SentInv, SentTypeOK, Ids
<1>7. ASSUME NEW i \in Written(sent), i < pass.next
      PROVE  i \in UpToStop(page) \/ (i <= mark /\ sent[i].thread \in indexed)
  <2>1. i \in UpToStop(page) \/ (mark \in page /\ i <= mark)
    BY <1>1, <1>7, PageFinds DEF SentInv, LastPage
  <2>2. i <= mark => i \in 1..mark /\ sent[i].thread \in indexed
    BY IdsAreNumbers DEF SentInv, MarkInv, SentTypeOK, Written, Present, Ids
  <2> QED
    BY <2>1, <2>2
<1>8. MarkInv'
  <2> SUFFICES ASSUME NEW i \in 1..mark', i \in Present(sent')
               PROVE  sent[i].thread \in indexed'
    BY <1>3 DEF MarkInv, Present, Ids
  <2>1. i \in Ids /\ i \in Nat /\ i >= 1 /\ i \in Present(sent)
    BY <1>3, IdsAreNumbers DEF Present, Ids, SentInv
  <2>2. CASE found = {}
    <3>1. mark' = mark
      BY <1>2, <2>2 DEF Persist
    <3> QED
      BY <1>2, <2>1, <3>1 DEF Persist, SentInv, MarkInv
  <2>3. CASE found # {} /\ i >= pass.next
    <3>1. mark' = Newest(found) /\ Newest(found) \in found /\ Newest(found) \in Nat
      BY <1>1, <1>2, <2>3, NewestIsNewest, IdsAreNumbers DEF Persist, SentInv
    <3>2. i <= Newest(found)
      BY <3>1, <2>1
    <3>3. Newest(found) \in pass.found
      <4>1. ASSUME Newest(found) \in Below(pass.next) PROVE FALSE
        BY <1>1, <2>1, <2>3, <3>1, <3>2, <4>1 DEF Below
      <4> QED
        BY <4>1, <1>1, <3>1 DEF found
    <3>4. i \in pass.found
      BY <1>1, <2>1, <2>3, <3>2, <3>3 DEF SentInv, PassInv
    <3> QED
      BY <1>2, <3>4 DEF Persist, ThreadsOf, found
  <2>4. CASE i < pass.next
    <3>1. i \in UpToStop(page) \/ sent[i].thread \in indexed
      BY <1>3, <1>7, <2>1, <2>4
    <3> QED
      BY <1>2, <3>1 DEF Persist, ThreadsOf, found
  <2> QED
    BY <1>1, <2>1, <2>2, <2>3, <2>4
<1>9. pass'.pc = "loaded" /\ owed' = {} /\ pass'.known = pass.known \cup ThreadsOf(found)
  BY <1>2 DEF Persist, SentInv, SentTypeOK, PassType
<1>10. ASSUME NEW i \in owed
       PROVE  sent[i].thread \in pass'.known
  <2>1. i \in Written(sent) /\ i \in Nat
    BY <1>1, <1>10, IdsAreNumbers DEF SentInv, PassInv, Written, Ids
  <2>2. CASE i >= pass.next
    <3>1. i \in found
      BY <1>1, <1>10, <2>2 DEF SentInv, PassInv, found
    <3> QED
      BY <1>9, <3>1 DEF ThreadsOf
  <2>3. CASE i < pass.next
    <3>1. i \in found \/ sent[i].thread \in indexed
      BY <1>7, <2>1, <2>3 DEF found
    <3> QED
      BY <1>1, <1>9, <3>1 DEF ThreadsOf, SentInv, PassInv
  <2> QED
    BY <1>1, <2>1, <2>2, <2>3
<1>11. pass'.known \in SUBSET Thread
  BY <1>6 DEF SentTypeOK, PassType
<1> QED
  BY <1>3, <1>6, <1>8, <1>9, <1>10, <1>11 DEF SentInv, PassInv

LEMMA NextPageKeeps ==
  ASSUME SentInv, ReadPage, ~LastPage(Page(pass.next))
  PROVE  /\ SentInv' /\ pass'.pc = "paging"
         /\ pass'.known = pass.known /\ owed' = owed /\ Written(sent') = Written(sent)
         /\ \A i \in Ids : sent'[i].thread = sent[i].thread
<1> DEFINE page == Page(pass.next)
           found == pass.found \cup UpToStop(page)
<1>1. /\ found \in SUBSET Ids /\ UpToStop(page) \in SUBSET Below(pass.next)
      /\ pass.pc = "paging" /\ pass.next \in Nat /\ sent' = PassedOver(page)
  BY ReadPageFound
<1>2. pass' = [pass EXCEPT !.found = found, !.next = Oldest(page)] /\ UNCHANGED <<indexed, mark, owed>>
  BY DEF ReadPage
<1>3. mark \notin page /\ UpToStop(page) = page
  BY DEF LastPage, UpToStop
<1> HIDE DEF found
<1>4. page # {} /\ page \in SUBSET Ids
  BY <1>1, PageHasMail DEF LastPage, Page, Below, Listed, SentInv
<1>5. Oldest(page) \in page /\ \A i \in page : Oldest(page) <= i
  BY <1>4, NewestIsNewest DEF SentInv
<1>6. Oldest(page) \in 1..MaxSent /\ Oldest(page) < pass.next /\ Oldest(page) \in Nat
  BY <1>1, <1>3, <1>4, <1>5, IdsAreNumbers, SentIndexConstants DEF SentInv, Below
<1>7. /\ sent' \in Seq([thread : Thread, state : {"listed", "hidden", "gone"}, missed : BOOLEAN])
      /\ Len(sent') = Len(sent) /\ DOMAIN sent' = Ids
      /\ \A i \in Ids : sent'[i].thread = sent[i].thread /\ sent'[i].state = sent[i].state
      /\ Written(sent') = Written(sent) /\ Present(sent') \subseteq Present(sent)
      /\ \A i \in Present(sent') : i >= Oldest(page) /\ i < pass.next => i \in Written(sent)
  BY <1>1, <1>6, PassedOverKeeps DEF SentInv
<1>8. found \in SUBSET (1..MaxSent)
  BY <1>1, IdsAreNumbers, SentIndexConstants DEF SentInv
<1>9. pass' \in PassType /\ pass'.pc = "paging" /\ pass'.known = pass.known
      /\ pass'.found = found /\ pass'.next = Oldest(page)
  <2>1. pass \in PassType /\ Oldest(page) \in 1..(MaxSent + 1)
    BY <1>6, SentIndexConstants DEF SentInv, SentTypeOK
  <2> QED
    BY <1>1, <1>2, <1>8, <2>1 DEF PassType
<1>10. SentTypeOK'
  BY <1>2, <1>7, <1>9 DEF SentInv, SentTypeOK, Ids
<1>11. MarkInv'
  BY <1>2, <1>7 DEF SentInv, MarkInv, Present, Ids
<1>12. ASSUME NEW i \in Written(sent), i >= Oldest(page), i < pass.next
       PROVE  i \in found
  <2>1. i \in UpToStop(page)
    BY <1>1, <1>3, <1>12, PageFinds DEF SentInv
  <2> QED
    BY <2>1 DEF found
<1>13. PassInv'
  <2>1. ASSUME NEW i \in Present(sent'), i >= Oldest(page), \E f \in found : i <= f
        PROVE  i \in found
    <3>1. i \in Ids /\ i \in Nat /\ i \in Present(sent)
      BY <1>7, IdsAreNumbers DEF Present, Ids, SentInv
    <3>2. CASE i < pass.next
      BY <1>7, <1>12, <2>1, <3>2
    <3>3. CASE i >= pass.next
      <4>1. PICK f \in found : i <= f
        BY <2>1
      <4>2. f \in pass.found
        <5>1. ASSUME f \in Below(pass.next) PROVE FALSE
          BY <1>1, <3>1, <3>3, <4>1, <5>1, IdsAreNumbers DEF Below, SentInv
        <5> QED
          BY <1>1, <4>1, <5>1 DEF found
      <4>3. i \in pass.found
        BY <1>1, <3>1, <3>3, <4>1, <4>2 DEF SentInv, PassInv
      <4> QED
        BY <4>3 DEF found
    <3> QED
      BY <1>1, <3>1, <3>2, <3>3
  <2>2. ASSUME NEW i \in owed, i >= Oldest(page)
        PROVE  i \in found
    <3>1. i \in Written(sent) /\ i \in Nat
      BY <1>1, <2>2, IdsAreNumbers DEF SentInv, PassInv, Written, Ids
    <3>2. CASE i < pass.next
      BY <1>12, <2>2, <3>1, <3>2
    <3>3. CASE i >= pass.next
      BY <1>1, <2>2, <3>3 DEF SentInv, PassInv, found
    <3> QED
      BY <1>1, <3>1, <3>2, <3>3
  <2>3. pass'.known = indexed' /\ pass'.found \subseteq Ids'
    BY <1>1, <1>2, <1>7, <1>9 DEF SentInv, PassInv, Ids
  <2>4. owed' \subseteq Written(sent')
    BY <1>1, <1>2, <1>7 DEF SentInv, PassInv
  <2> QED
    BY <1>2, <1>7, <1>9, <2>1, <2>2, <2>3, <2>4 DEF PassInv
<1> QED
  BY <1>2, <1>7, <1>9, <1>10, <1>11, <1>13 DEF SentInv

\* Whatever the user does to sent mail, old mail keeps its thread and does not come back unseen.
LEMMA ChangeSentKeeps ==
  ASSUME SentInv, NEW mail, ChangeSent(mail),
         mail \in Seq([thread : Thread, state : {"listed", "hidden", "gone"}, missed : BOOLEAN]),
         Len(mail) <= MaxSent, Ids \subseteq DOMAIN mail,
         \A i \in Ids : mail[i].thread = sent[i].thread,
         \A i \in Ids : i \in Present(mail) => i \in Present(sent)
  PROVE  /\ SentInv' /\ pass' = pass /\ owed' = owed \cap Written(sent')
         /\ \A i \in Ids : i \in Ids' /\ sent'[i].thread = sent[i].thread
<1>1. sent' = mail /\ owed' = owed \cap Written(mail) /\ UNCHANGED <<indexed, mark, pass>>
  BY DEF ChangeSent
<1>2. Len(mail) \in Nat /\ DOMAIN mail = 1..Len(mail) /\ Len(mail) >= Len(sent)
  <2>1. Len(mail) \in Nat /\ DOMAIN mail = 1..Len(mail) /\ Len(sent) \in Nat /\ Ids = 1..Len(sent)
    BY IdsAreNumbers DEF SentInv
  <2> QED
    BY <2>1
<1>3. SentTypeOK'
  BY <1>1, <1>2, IdsAreNumbers DEF SentInv, SentTypeOK, Written, Ids
<1>4. MarkInv'
  BY <1>1, IdsAreNumbers DEF SentInv, MarkInv, SentTypeOK
<1>5. PassInv'
  <2>1. pass.pc # "paging" => owed' = {}
    BY <1>1 DEF SentInv, PassInv
  <2>2. ASSUME pass.pc = "paging", NEW i \in Present(mail), i >= pass.next,
               \E f \in pass.found : i <= f
        PROVE  i \in pass.found
    <3>1. i \in Ids
      BY <1>2, <2>2, IdsAreNumbers DEF SentInv, PassInv, Present
    <3> QED
      BY <2>2, <3>1 DEF SentInv, PassInv
  <2> QED
    BY <1>1, <2>1, <2>2 DEF SentInv, PassInv, Ids
<1> QED
  BY <1>1, <1>3, <1>4, <1>5 DEF SentInv, Ids

LEMMA UserSendsKeeps ==
  ASSUME SentInv, UserSends
  PROVE  /\ SentInv' /\ pass' = pass /\ owed' = owed \cap Written(sent')
         /\ \A i \in Ids : i \in Ids' /\ sent'[i].thread = sent[i].thread
<1> DEFINE S == [thread : Thread, state : {"listed", "hidden", "gone"}, missed : BOOLEAN]
<1>1. sent \in Seq(S) /\ Len(sent) \in Nat /\ Ids = 1..Len(sent) /\ Len(sent) <= MaxSent
  BY IdsAreNumbers DEF SentInv, SentTypeOK
<1>2. ASSUME NEW t \in Thread, SendMail(t)
      PROVE  \E mail \in Seq(S) :
               /\ ChangeSent(mail) /\ Len(mail) <= MaxSent /\ Ids \subseteq DOMAIN mail
               /\ \A i \in Ids : mail[i] = sent[i]
  <2> DEFINE new == [thread |-> t, state |-> "listed", missed |-> FALSE]
  <2>1. new \in S /\ ChangeSent(Append(sent, new)) /\ Len(sent) < MaxSent
    BY <1>2 DEF SendMail
  <2>2. /\ Append(sent, new) \in Seq(S) /\ Len(Append(sent, new)) = Len(sent) + 1
        /\ DOMAIN Append(sent, new) = 1..(Len(sent) + 1)
        /\ \A i \in 1..Len(sent) : Append(sent, new)[i] = sent[i]
    <3> HIDE DEF S, new
    <3> QED
      BY <1>1, <2>1
  <2> HIDE DEF S, new
  <2>3. Ids \subseteq DOMAIN Append(sent, new) /\ Len(Append(sent, new)) <= MaxSent
    BY <1>1, <2>1, <2>2, SentIndexConstants
  <2>4. \A i \in Ids : Append(sent, new)[i] = sent[i]
    BY <1>1, <2>2
  <2> QED
    BY <2>1, <2>2, <2>3, <2>4
<1>3. ASSUME NEW i \in Ids, NEW state \in {"listed", "hidden", "gone"},
             ChangeSent([sent EXCEPT ![i].state = state]), sent[i].state # "gone"
      PROVE  \E mail \in Seq(S) :
               /\ ChangeSent(mail) /\ Len(mail) = Len(sent) /\ DOMAIN mail = Ids
               /\ \A j \in Ids : /\ mail[j].thread = sent[j].thread
                                 /\ j \in Present(mail) => j \in Present(sent)
  <2> DEFINE mail == [sent EXCEPT ![i].state = state]
  <2>1. \A j \in Ids : sent[j] \in S
    <3> HIDE DEF S
    <3> QED
      BY <1>1
  <2>2. DOMAIN mail = Ids /\ \A j \in Ids : mail[j] = IF j = i THEN [sent[i] EXCEPT !.state = state]
                                                    ELSE sent[j]
    BY <1>1 DEF Ids
  <2>3. \A j \in Ids : /\ mail[j] \in S /\ mail[j].thread = sent[j].thread
                       /\ mail[j].missed = sent[j].missed
                       /\ mail[j].state # "gone" => sent[j].state # "gone"
    <3> HIDE DEF mail
    <3> TAKE j \in Ids
    <3>1. sent[i] \in S /\ sent[j] \in S
      BY <2>1
    <3> QED
      BY <1>3, <2>2, <3>1
  <2>4. mail \in [1..Len(sent) -> S]
    <3> HIDE DEF S
    <3> QED
      BY <1>1, <2>3
  <2>5. mail \in Seq(S) /\ Len(mail) = Len(sent)
    <3> HIDE DEF S, mail
    <3> QED
      BY <1>1, <2>4
  <2>6. \A j \in Ids : j \in Present(mail) => j \in Present(sent)
    <3> HIDE DEF mail
    <3> QED
      BY <2>2, <2>3 DEF Present, Ids
  <2> QED
    BY <1>3, <2>2, <2>3, <2>5, <2>6
<1> HIDE DEF S
<1>4. CASE \E t \in Thread : SendMail(t)
  <2>1. PICK mail \in Seq(S) : /\ ChangeSent(mail) /\ Len(mail) <= MaxSent /\ Ids \subseteq DOMAIN mail
                               /\ \A i \in Ids : mail[i] = sent[i]
    BY <1>2, <1>4
  <2>2. \A i \in Ids : mail[i].thread = sent[i].thread /\ (i \in Present(mail) => i \in Present(sent))
    BY <2>1 DEF Present, Ids
  <2> QED
    BY <2>1, <2>2, ChangeSentKeeps DEF S
<1>5. CASE \E i \in Ids : TrashSent(i) \/ RestoreSent(i) \/ DeleteSent(i)
  <2>1. PICK i \in Ids : TrashSent(i) \/ RestoreSent(i) \/ DeleteSent(i)
    BY <1>5
  <2>2. \E state \in {"listed", "hidden", "gone"} :
           ChangeSent([sent EXCEPT ![i].state = state]) /\ sent[i].state # "gone"
    BY <2>1 DEF TrashSent, RestoreSent, DeleteSent
  <2>3. PICK mail \in Seq(S) :
               /\ ChangeSent(mail) /\ Len(mail) = Len(sent) /\ DOMAIN mail = Ids
               /\ \A j \in Ids : /\ mail[j].thread = sent[j].thread
                                 /\ j \in Present(mail) => j \in Present(sent)
    BY <1>3, <2>2
  <2> QED
    BY <1>1, <2>3, ChangeSentKeeps DEF S
<1> QED
  BY <1>4, <1>5 DEF UserSends

\* A pass begins, fails, or is dropped with the run.
LEMMA PassEndsKeep ==
  ASSUME SentInv, BeginPass \/ PassFails \/ DropPass
  PROVE  SentInv' /\ UNCHANGED <<sent, indexed, mark>>
<1> USE DEF SentInv, MarkInv
<1>1. NoPass \in PassType /\ NoPass.pc = "idle" /\ NoPass.found = {} /\ NoPass.next = MaxSent + 1
  BY SentIndexConstants DEF NoPass, PassType
<1>2. CASE BeginPass
  <2>1. pass' \in PassType /\ pass'.pc = "paging" /\ pass'.known = indexed
        /\ pass'.found = {} /\ pass'.next = MaxSent + 1
    BY <1>1, <1>2 DEF BeginPass, PassType, SentTypeOK
  <2>2. owed' = Written(sent) /\ UNCHANGED <<sent, indexed, mark>>
    BY <1>2 DEF BeginPass
  <2>3. SentTypeOK'
    BY <2>1, <2>2 DEF SentTypeOK, Written, Ids
  <2>4. \A i \in Ids : i < MaxSent + 1
    BY IdsAreNumbers, SentIndexConstants
  <2>5. PassInv'
    BY <2>1, <2>2, <2>4, IdsAreNumbers, SentIndexConstants DEF PassInv, Written, Present, Ids
  <2> QED
    BY <2>2, <2>3, <2>5 DEF Present
<1>3. CASE PassFails
  <2>1. pass' \in PassType /\ pass'.pc = "failed"
    BY <1>1, <1>3 DEF PassFails, PassType
  <2> QED
    BY <1>3, <2>1 DEF PassFails, SentTypeOK, PassInv, Ids, Present
<1>4. CASE DropPass
  BY <1>1, <1>4 DEF DropPass, SentTypeOK, PassInv, Ids, Present
<1> QED
  BY <1>2, <1>3, <1>4

LEMMA SentUnchanged ==
  ASSUME SentInv, UNCHANGED sentVars
  PROVE  SentInv'
  BY DEF SentInv, sentVars, SentTypeOK, MarkInv, PassInv, Ids, Present, Written

LEMMA SentInitially ==
  ASSUME SentInit
  PROVE  SentInv
<1>1. NoPass \in PassType /\ NoPass.pc = "idle"
  BY SentIndexConstants DEF NoPass, PassType
<1> QED
  BY <1>1, SentIndexConstants DEF SentInit, SentInv, SentTypeOK, MarkInv, PassInv, Ids

-----------------------------------------------------------------------------
(***************************************************************************)
(* The policy.                                                             *)
(***************************************************************************)
Reasons == {"explicit_spam_rule", "native_spam", "ai_promotion", "ai_importance", "ai_event",
            "explicit_important_rule", "read_non_trash", "calendar_label:Calendar", "calendar_archive"}
Actions == [type : {"trash", "star", "mark_important", "calendar_create", "label", "archive"},
            why : Reasons \cup Category]
Reviews == {"no", "undecided", "protected_message_conflicts_with_spam_rule",
            "protected_native_spam_conflict", "assessment_unavailable",
            "authenticated_high_risk_veto", "ai_suspicious", "thread_reply_check_failed",
            "event_validation_failed", "important_rule_auth_failed"}
Decisions == [actions : SUBSET Actions, review : Reviews]

\* A Trash the user's own rule did not ask for is planned for unprotected messages only.
LEMMA PolicyTrash ==
  ASSUME NEW in, NEW a \in PolicyDecision(in).actions, a.type = "trash",
         a.why # "explicit_spam_rule"
  PROVE  in.rule # "spam" /\ ~in.protected
<1>1. in.rule # "spam"
  BY DEF PolicyDecision, TrashOnly, Decision, Act
<1>2. ASSUME in.protected PROVE FALSE
  <2>1. a \in AssessedActions(in) \cup RuleActions(in, AssessedActions(in)) \cup ArchiveRead(in)
    BY <1>1, <1>2 DEF PolicyDecision, PromotionalTrash, Decision
  <2>2. a.type # "trash"
    BY <2>1 DEF AssessedActions, RuleActions, ArchiveRead, StarAndMark, Act
  <2> QED
    BY <2>2
<1> QED
  BY <1>1, <1>2

\* An outcome with such a Trash passed the reply check (orchestrator.ts finalizeOutcome).
LEMMA OutcomeTrash ==
  ASSUME NEW rs, NEW t, NEW at, NEW answer, NEW archive, NEW reply, NEW in,
         in = PolicyInput(rs, t, at, answer, archive),
         NEW a \in Outcome(rs, in, t, reply).actions, a.type = "trash",
         a.why # "explicit_spam_rule"
  PROVE  NeedsReplyCheck(in) /\ reply = "no"
<1> DEFINE decision == AfterReplyCheck(in, reply)
           protected == [in EXCEPT !.protected = TRUE]
<1>1. a \in decision.actions
  <2>1. a \in AfterEventCheck(in, decision).actions
    BY DEF Outcome, Decision
  <2> HIDE DEF decision
  <2> QED
    BY <2>1 DEF AfterEventCheck, Decision, Act
<1>2. protected.protected = TRUE
  BY DEF PolicyInput
<1>3. ASSUME a \in PolicyDecision(protected).actions PROVE FALSE
  <2> HIDE DEF protected
  <2> QED
    BY <1>2, <1>3, PolicyTrash
<1>4. ~NeedsReplyCheck(in) \/ reply = "no"
  BY <1>1, <1>3 DEF AfterReplyCheck, Decision
<1>5. a \in PolicyDecision(in).actions
  BY <1>1, <1>4 DEF AfterReplyCheck
<1>6. NeedsReplyCheck(in)
  BY <1>5, PolicyTrash DEF NeedsReplyCheck, Trashes
<1> QED
  BY <1>4, <1>6

\* What the policy decides is a set of actions and a review reason.
LEMMA PolicyTyped ==
  ASSUME NEW in, in.assessment.category \in Category \cup {NoCategory}
  PROVE  PolicyDecision(in) \in Decisions
<1> USE DEF Actions, Reasons, Reviews, Decisions, Decision, Act
<1>1. \A why \in {"explicit_spam_rule", "native_spam", "ai_promotion"} : TrashOnly(why) \in Decisions
  BY DEF TrashOnly
<1>2. AssessedActions(in) \in SUBSET Actions
  BY DEF AssessedActions, StarAndMark
<1>3. \A planned : RuleActions(in, planned) \in SUBSET Actions
  BY DEF RuleActions, StarAndMark
<1>4. ArchiveRead(in) \in SUBSET Actions
  BY DEF ArchiveRead
<1>5. PolicyReview(in) \in Reviews
  BY DEF PolicyReview
<1> QED
  BY <1>1, <1>2, <1>3, <1>4, <1>5 DEF PolicyDecision

LEMMA OutcomeTyped ==
  ASSUME NEW rs, NEW t \in Trait, NEW at, NEW answer, NEW archive, NEW reply, NEW in,
         in = PolicyInput(rs, t, at, answer, archive)
  PROVE  Outcome(rs, in, t, reply) \in Decisions
<1>1. in.assessment.category \in Category \cup {NoCategory}
  BY DEF PolicyInput, Assessment, NoAssessment, Trait
<1>2. [in EXCEPT !.protected = TRUE].assessment = in.assessment
  BY DEF PolicyInput
<1>3. PolicyDecision(in) \in Decisions /\ PolicyDecision([in EXCEPT !.protected = TRUE]) \in Decisions
  BY <1>1, <1>2, PolicyTyped
<1>4. AfterReplyCheck(in, reply) \in Decisions
  BY <1>3 DEF AfterReplyCheck, Decisions, Decision, Reviews
<1>5. \A decision \in Decisions : AfterEventCheck(in, decision) \in Decisions
  BY DEF AfterEventCheck, Decisions, Decision, Actions, Act, Reasons, Reviews
<1> QED
  BY <1>4, <1>5 DEF Outcome, Decisions, Decision, Reviews

-----------------------------------------------------------------------------
(***************************************************************************)
(* The runs.  Planned is why a label a run makes is earned, Apart why the  *)
(* checkpoint counts right, Gated why the answer comes first.              *)
(***************************************************************************)
Runs == [pc : RunPcs, scope : SUBSET Msg, failed : SUBSET Msg, at : [Msg -> Places \cup {"none"}],
         outcome : [Msg -> Decisions], bulk : SUBSET Msg,
         known : SUBSET Category, fresh : [Category -> SUBSET Msg], updated : SUBSET Category]

Typed ==
  /\ setting \in Settings /\ place \in [Msg -> Places]
  /\ rules \subseteq Rule /\ labels \subseteq Category
  /\ votes \in [Category -> SUBSET Msg] /\ count \in [Category -> Nat]
  /\ run \in Runs /\ run.bulk \subseteq run.scope

Rested == Idle => run = NoRun
Gated == pass.pc # "loaded" => \A m \in run.scope : ~UnaskedTrash(m)
Apart == run.pc \notin {"idle", "deciding"} => \A c \in run.updated : run.fresh[c] \cap votes[c] = {}
Planned ==
  run.pc = "labelling" => \A c \in Needed \ run.known :
                             Cardinality(votes[c] \cup run.fresh[c]) >= MinLabelVotes

RunInv == Typed /\ Rested /\ Gated /\ VotesCounted /\ Apart /\ Planned
TriageInv == SentInv /\ RunInv

LEMMA SettingTyped ==
  ASSUME Typed
  PROVE  trait \in [Msg -> Trait] /\ \A m \in Msg : SourceIdentity(trait[m]) \in Identity
<1>1. setting \in Setting
  BY TriageConstants DEF Typed
<1>2. trait \in [Msg -> Trait]
  BY <1>1 DEF Setting, trait
<1> QED
  BY <1>2 DEF SourceIdentity, Trait

LEMMA NoRunTyped == NoRun \in Runs /\ NoRun.pc = "idle" /\ NoRun.scope = {} /\ NoRun.bulk = {}
<1>1. NoOutcome \in Decisions
  BY DEF NoOutcome, Decision, Decisions, Reviews
<1> QED
  BY <1>1 DEF NoRun, Runs, RunPcs

LEMMA InitRun == Init => TriageInv
<1> SUFFICES ASSUME Init PROVE TriageInv
  OBVIOUS
<1>1. SentInv
  BY SentInitially DEF Init
<1>2. Typed
  BY NoRunTyped DEF Init, Typed, Places
<1>3. Rested /\ Gated /\ Apart /\ Planned
  BY NoRunTyped DEF Init, Rested, Gated, Apart, Planned
<1>4. VotesCounted
  BY FS_EmptySet DEF Init, VotesCounted
<1> QED
  BY <1>1, <1>2, <1>3, <1>4 DEF TriageInv, RunInv

\* What leaves the run, the votes and the pass alone.
LEMMA OthersKeep ==
  ASSUME TriageInv, UNCHANGED <<sentVars, setting, votes, count, run>>,
         place' \in [Msg -> Places], rules' \subseteq Rule, labels' \subseteq Category
  PROVE  TriageInv'
<1>1. SentInv'
  BY SentUnchanged DEF TriageInv
<1>2. pass' = pass
  BY DEF sentVars
<1>3. Typed'
  BY DEF TriageInv, RunInv, Typed
<1>4. run' = run /\ votes' = votes /\ count' = count
  OBVIOUS
<1>5. Rested'
  BY <1>4 DEF TriageInv, RunInv, Rested, Idle, NoRun
<1>6. Gated'
  BY <1>2, <1>4 DEF TriageInv, RunInv, Gated, UnaskedTrash
<1>7. VotesCounted' /\ Apart'
  BY <1>4 DEF TriageInv, RunInv, VotesCounted, Apart
<1>8. Planned'
  BY <1>4 DEF TriageInv, RunInv, Planned, Needed
<1> QED
  BY <1>1, <1>3, <1>5, <1>6, <1>7, <1>8 DEF TriageInv, RunInv

\* The end of a run, in whatever way.
LEMMA EndKeeps ==
  ASSUME TriageInv, DropPass, run' = NoRun, UNCHANGED <<setting, place, rules, labels>>,
         votes' \in [Category -> SUBSET Msg], count' \in [Category -> Nat], VotesCounted'
  PROVE  TriageInv'
<1>1. SentInv'
  BY PassEndsKeep DEF TriageInv
<1>2. Typed'
  BY NoRunTyped DEF TriageInv, RunInv, Typed
<1>3. Rested' /\ Gated' /\ Apart' /\ Planned'
  BY NoRunTyped DEF Rested, Gated, Apart, Planned, NoRun, NoOutcome
<1> QED
  BY <1>1, <1>2, <1>3 DEF TriageInv, RunInv

LEMMA StartRunKeeps ==
  ASSUME TriageInv, NEW scope \in SUBSET ActiveMail, NEW failed \in SUBSET scope,
         StartRun(scope, failed)
  PROVE  TriageInv' /\ \A m \in run'.scope : ~UnaskedTrash(m)'
<1>1. SentInv' /\ pass' = pass
  BY SentUnchanged DEF TriageInv, StartRun, sentVars
<1>2. run' = [NoRun EXCEPT !.pc = "deciding", !.scope = scope, !.failed = failed, !.known = labels,
                           !.at = [m \in Msg |-> IF m \in scope THEN place[m] ELSE "none"]]
  BY DEF StartRun
<1>3. scope \in SUBSET Msg /\ failed \in SUBSET Msg /\ labels \in SUBSET Category
      /\ [m \in Msg |-> IF m \in scope THEN place[m] ELSE "none"] \in [Msg -> Places \cup {"none"}]
  BY DEF ActiveMail, TriageInv, RunInv, Typed
<1>4. run' \in Runs /\ run'.pc = "deciding" /\ run'.bulk = NoRun.bulk /\ run'.outcome = NoRun.outcome
      /\ run'.scope = scope
  BY <1>2, <1>3, NoRunTyped DEF Runs, RunPcs
<1>5. \A m \in scope : ~UnaskedTrash(m)'
  BY <1>3, <1>4 DEF UnaskedTrash, NoRun, NoOutcome, Decision
<1>6. Typed'
  BY <1>3, <1>4, NoRunTyped DEF StartRun, TriageInv, RunInv, Typed
<1>7. VotesCounted'
  BY DEF StartRun, TriageInv, RunInv, VotesCounted
<1> QED
  BY <1>1, <1>4, <1>5, <1>6, <1>7 DEF TriageInv, RunInv, Rested, Idle, Gated, Apart, Planned

LEMMA DecideKeeps ==
  ASSUME TriageInv, NEW m \in Msg, Decide(m)
  PROVE  /\ TriageInv' /\ UNCHANGED sentVars /\ run'.scope = run.scope /\ m \in run.scope
         /\ ~UnaskedTrash(m)
         /\ \A n \in Msg \ {m} : UnaskedTrash(n)' <=> UnaskedTrash(n)
         /\ UnaskedTrash(m)' => pass.pc = "loaded" /\ ThreadOf[m] \notin pass.known
<1> DEFINE in == InputOf(m)
           outcome == Outcome(rules, in, trait[m], ReplyAnswer(ThreadOf[m]))
           bulk == IF BulkCandidate(in, trait[m], outcome)
                   THEN run.bulk \cup {m} ELSE run.bulk
<1>1. /\ run.pc = "deciding" /\ m \in run.scope /\ run.outcome[m] = NoOutcome
      /\ NeedsReplyCheck(in) => GateOpen
      /\ run' = [run EXCEPT !.outcome[m] = outcome, !.bulk = bulk]
      /\ UNCHANGED <<sentVars, setting, place, rules, labels, votes, count>>
  BY DEF Decide, Undecided
<1>2. outcome \in Decisions
  BY SettingTyped, OutcomeTyped DEF TriageInv, RunInv, InputOf
<1>3. UnaskedTrash(m)' => pass.pc = "loaded" /\ ThreadOf[m] \notin pass.known
  <2>1. run'.outcome[m] = outcome
    BY <1>1 DEF TriageInv, RunInv, Typed, Runs
  <2>2. UnaskedTrash(m)' => NeedsReplyCheck(in) /\ ReplyAnswer(ThreadOf[m]) = "no"
    BY <2>1, OutcomeTrash DEF UnaskedTrash, InputOf
  <2> QED
    BY <1>1, <2>2 DEF GateOpen, ReplyAnswer
<1> HIDE DEF in, outcome
<1>4. /\ run'.outcome = [run.outcome EXCEPT ![m] = outcome] /\ run'.scope = run.scope
      /\ run'.pc = run.pc /\ run'.updated = run.updated /\ run'.fresh = run.fresh
      /\ run'.known = run.known /\ run'.bulk = bulk
  <2> HIDE DEF bulk
  <2> QED
    BY <1>1 DEF TriageInv, RunInv, Typed, Runs
<1>5. bulk \in SUBSET Msg /\ bulk \subseteq run.scope
  BY <1>1 DEF TriageInv, RunInv, Typed, Runs
<1>6. run' \in Runs
  <2>1. [run.outcome EXCEPT ![m] = outcome] \in [Msg -> Decisions]
    BY <1>2 DEF TriageInv, RunInv, Typed, Runs
  <2> HIDE DEF bulk
  <2> QED
    BY <1>1, <1>5, <2>1 DEF TriageInv, RunInv, Typed, Runs
<1> HIDE DEF bulk
<1>7. \A n \in Msg \ {m} : UnaskedTrash(n)' <=> UnaskedTrash(n)
  BY <1>4 DEF UnaskedTrash, TriageInv, RunInv, Typed, Runs
<1>8. ~UnaskedTrash(m)
  BY <1>1 DEF UnaskedTrash, NoOutcome, Decision
<1>9. SentInv' /\ UNCHANGED sentVars /\ pass' = pass
  BY <1>1, SentUnchanged DEF TriageInv, sentVars
<1>10. Typed'
  BY <1>1, <1>4, <1>5, <1>6 DEF TriageInv, RunInv, Typed
<1>11. Gated'
  BY <1>3, <1>4, <1>6, <1>7, <1>9 DEF TriageInv, RunInv, Gated, Typed, Runs
<1>12. VotesCounted' /\ Rested' /\ Apart' /\ Planned'
  BY <1>1, <1>4 DEF TriageInv, RunInv, VotesCounted, Rested, Idle, Apart, Planned
<1> QED
  BY <1>1, <1>3, <1>4, <1>7, <1>8, <1>9, <1>10, <1>11, <1>12 DEF TriageInv, RunInv

\* The steps of the pass leave everything else alone.
LEMMA PassKeeps ==
  ASSUME TriageInv, BeginPass \/ ReadPage \/ PassFails,
         UNCHANGED <<setting, place, rules, labels, votes, count, run>>
  PROVE  TriageInv'
<1>1. SentInv'
  BY PassEndsKeep, LastPageKeeps, NextPageKeeps DEF TriageInv
<1>2. Typed'
  BY DEF TriageInv, RunInv, Typed
<1>3. Rested' /\ VotesCounted' /\ Apart'
  BY DEF TriageInv, RunInv, Rested, Idle, NoRun, VotesCounted, Apart
<1>4. Planned'
  BY DEF TriageInv, RunInv, Planned, Needed
<1>5. pass.pc # "loaded"
  BY DEF BeginPass, ReadPage, PassFails
<1>6. Gated'
  BY <1>5 DEF TriageInv, RunInv, Gated, UnaskedTrash
<1> QED
  BY <1>1, <1>2, <1>3, <1>4, <1>6 DEF TriageInv, RunInv

\* Sets without a common member add up.
LEMMA DisjointUnion ==
  ASSUME NEW S, NEW T, IsFiniteSet(S), IsFiniteSet(T), S \cap T = {}
  PROVE  Cardinality(S \cup T) = Cardinality(S) + Cardinality(T)
<1>1. Cardinality(S) \in Nat /\ Cardinality(T) \in Nat
  BY FS_CardinalityType
<1>2. Cardinality(S \cap T) = 0
  BY FS_EmptySet
<1>3. Cardinality(S \cup T) = Cardinality(S) + Cardinality(T) - Cardinality(S \cap T)
  BY FS_Union
<1> QED
  BY <1>1, <1>2, <1>3

\* The votes of any category are a finite set.
LEMMA VotesFinite ==
  ASSUME Typed, NEW c \in Category
  PROVE  /\ IsFiniteSet(votes[c]) /\ IsFiniteSet(run.fresh[c]) /\ IsFiniteSet(NewVotes(c))
         /\ IsFiniteSet(votes[c] \cup run.fresh[c])
         /\ Cardinality(votes[c]) \in Nat /\ Cardinality(run.fresh[c]) \in Nat
<1>1. votes[c] \in SUBSET Msg /\ run.fresh[c] \in SUBSET Msg /\ NewVotes(c) \in SUBSET Msg
  BY DEF Typed, Runs, NewVotes, Proposers
<1> QED
  BY <1>1, FS_Subset, FS_CardinalityType, TriageConstants

\* The label threshold removes label actions only.
LEMMA ThresholdOnlyLabels ==
  ASSUME NEW decision \in Decisions
  PROVE  /\ Threshold(decision) \in Decisions
         /\ Threshold(decision).actions \subseteq decision.actions
         /\ \A a \in decision.actions : a.type # "label" => a \in Threshold(decision).actions
         /\ \A a \in CategoryLabels(Threshold(decision)) : Eligible(a.why)
  BY DEF Threshold, CategoryLabels, Decision, Decisions

LEMMA PlanKeeps ==
  ASSUME TriageInv, Plan
  PROVE  /\ TriageInv' /\ run'.scope = run.scope
         /\ \A m \in run.scope : UnaskedTrash(m)' <=> UnaskedTrash(m)
<1> DEFINE updated == Proposed \ run.known
           fresh == [c \in Category |-> IF c \in updated THEN NewVotes(c) ELSE {}]
           outcome == [m \in Msg |-> IF m \in run.scope THEN Threshold(run.outcome[m])
                                     ELSE run.outcome[m]]
           voters == [m \in run.bulk |-> SourceIdentity(trait[m])]
<1>1. /\ run.pc = "deciding"
      /\ run' = [run EXCEPT !.pc = "labelling", !.updated = updated, !.fresh = fresh,
                            !.outcome = outcome]
      /\ UNCHANGED <<sentVars, setting, place, labels, votes, count>>
      /\ rules' = rules \cup [action : {"spam"}, auto : {TRUE},
                              key : AutomaticKeys(rules, voters, MinRuleVotes)]
  BY DEF Plan
<1>2. run \in Runs /\ run.outcome \in [Msg -> Decisions]
  BY DEF TriageInv, RunInv, Typed, Runs
<1>3. updated \in SUBSET Category /\ fresh \in [Category -> SUBSET Msg]
  BY <1>2 DEF Proposed, NewVotes, Proposers, Runs
<1>4. outcome \in [Msg -> Decisions]
  BY <1>2, ThresholdOnlyLabels
<1>5. \A m \in run.scope : outcome[m] = Threshold(run.outcome[m])
  BY <1>2 DEF Runs
<1> HIDE DEF updated, fresh, outcome
<1>6. /\ run' \in Runs /\ run'.scope = run.scope /\ run'.known = run.known /\ run'.bulk = run.bulk
      /\ run'.updated = updated /\ run'.fresh = fresh /\ run'.outcome = outcome
      /\ run'.pc = "labelling"
  BY <1>1, <1>2, <1>3, <1>4 DEF Runs, RunPcs
<1>7. SentInv' /\ pass' = pass
  BY <1>1, SentUnchanged DEF TriageInv, sentVars
<1>8. Typed'
  <2>1. rules' \subseteq Rule
    <3> HIDE DEF voters
    <3> QED
      BY <1>1 DEF Rule, AutomaticKeys, TriageInv, RunInv, Typed
  <2> QED
    BY <1>1, <1>6, <2>1 DEF TriageInv, RunInv, Typed
<1>9. \A m \in run.scope : UnaskedTrash(m)' <=> UnaskedTrash(m)
  <2> TAKE m \in run.scope
  <2>1. run.outcome[m] \in Decisions /\ run'.outcome[m] = Threshold(run.outcome[m])
    BY <1>2, <1>5, <1>6 DEF Runs
  <2> QED
    BY <2>1, ThresholdOnlyLabels DEF UnaskedTrash
<1>10. Rested' /\ Gated' /\ VotesCounted'
  BY <1>1, <1>6, <1>7, <1>9 DEF TriageInv, RunInv, Rested, Idle, Gated, VotesCounted
<1>11. \A c \in updated : fresh[c] = NewVotes(c) /\ c \in Category
  BY <1>3 DEF fresh
<1>12. Apart'
  BY <1>1, <1>6, <1>11 DEF Apart, NewVotes
<1>13. Planned'
  <2> SUFFICES ASSUME NEW c \in Needed', c \notin run.known
               PROVE  Cardinality(votes[c] \cup fresh[c]) >= MinLabelVotes
    BY <1>1, <1>6 DEF Planned
  <2>1. PICK m \in run.scope : \E a \in CategoryLabels(outcome[m]) : a.why = c
    BY <1>6 DEF Needed, CategoryLabels
  <2>2. PICK a \in CategoryLabels(outcome[m]) : a.why = c
    BY <2>1
  <2>3. run.outcome[m] \in Decisions /\ outcome[m] = Threshold(run.outcome[m])
    BY <1>2, <1>5 DEF Runs
  <2>4. a \in run.outcome[m].actions /\ a = Act("label", c) /\ Eligible(c) /\ c \in Category
    BY <2>2, <2>3, ThresholdOnlyLabels DEF CategoryLabels, Decisions, Actions, Act
  <2>5. c \in updated
    BY <2>1, <2>4 DEF updated, Proposed, Proposers
  <2>6. count[c] + Cardinality(NewVotes(c)) >= MinLabelVotes
    BY <2>4 DEF Eligible
  <2>7. Cardinality(votes[c] \cup NewVotes(c)) = count[c] + Cardinality(NewVotes(c))
    <3>1. IsFiniteSet(votes[c]) /\ IsFiniteSet(NewVotes(c)) /\ votes[c] \cap NewVotes(c) = {}
      BY <2>4, VotesFinite DEF NewVotes, TriageInv, RunInv
    <3>2. Cardinality(votes[c] \cup NewVotes(c)) = Cardinality(votes[c]) + Cardinality(NewVotes(c))
      BY <3>1, DisjointUnion
    <3> QED
      BY <2>4, <3>2 DEF TriageInv, RunInv, VotesCounted
  <2> QED
    BY <1>11, <2>5, <2>6, <2>7
<1> QED
  BY <1>6, <1>7, <1>8, <1>9, <1>10, <1>12, <1>13 DEF TriageInv, RunInv

\* The writes between the plan and the checkpoint.
LEMMA WriteKeeps ==
  ASSUME TriageInv, NEW made \in SUBSET Category, NEW done \in SUBSET Msg,
         ResolveLabels(made) \/ TrashMail(done) \/ ArchiveMail(done)
  PROVE  /\ TriageInv' /\ UNCHANGED sentVars /\ run'.scope = run.scope
         /\ \A m \in run.scope : UnaskedTrash(m)' <=> UnaskedTrash(m)
<1>1. UNCHANGED <<sentVars, setting, rules, votes, count>>
  BY DEF ResolveLabels, TrashMail, ArchiveMail
<1>2. /\ run' \in Runs /\ run'.scope = run.scope /\ run'.bulk = run.bulk
      /\ run'.updated = run.updated /\ run'.fresh = run.fresh /\ run'.outcome = run.outcome
      /\ run.pc \notin {"idle", "deciding"} /\ run'.pc \notin {"idle", "deciding", "labelling"}
  <2>1. run \in Runs
    BY DEF TriageInv, RunInv, Typed
  <2>2. CASE ResolveLabels(made)
    <3>1. run' = [run EXCEPT !.pc = "trashing", !.known = @ \cup made] /\ run.pc = "labelling"
      BY <2>2 DEF ResolveLabels
    <3> QED
      BY <2>1, <3>1 DEF Runs, RunPcs
  <2>3. CASE TrashMail(done)
    <3>1. run' = [run EXCEPT !.pc = "modifying"] /\ run.pc = "trashing"
      BY <2>3 DEF TrashMail
    <3> QED
      BY <2>1, <3>1 DEF Runs, RunPcs
  <2>4. CASE ArchiveMail(done)
    <3>1. run' = [run EXCEPT !.pc = "checkpoint"] /\ run.pc = "modifying"
      BY <2>4 DEF ArchiveMail
    <3> QED
      BY <2>1, <3>1 DEF Runs, RunPcs
  <2> QED
    BY <2>2, <2>3, <2>4
<1>3. place' \in [Msg -> Places] /\ labels' \subseteq Category
  BY DEF ResolveLabels, TrashMail, ArchiveMail, Move, TriageInv, RunInv, Typed, Places
<1>4. SentInv' /\ pass' = pass
  BY <1>1, SentUnchanged DEF TriageInv, sentVars
<1>5. Typed'
  BY <1>1, <1>2, <1>3 DEF TriageInv, RunInv, Typed
<1>6. \A m \in run.scope : UnaskedTrash(m)' <=> UnaskedTrash(m)
  BY <1>2 DEF UnaskedTrash
<1>7. Rested' /\ Gated' /\ VotesCounted' /\ Apart' /\ Planned'
  BY <1>1, <1>2, <1>4, <1>6
     DEF TriageInv, RunInv, Rested, Idle, Gated, VotesCounted, Apart, Planned
<1> QED
  BY <1>1, <1>2, <1>4, <1>5, <1>6, <1>7 DEF TriageInv, RunInv

LEMMA CheckpointKeeps ==
  ASSUME TriageInv, Checkpoint
  PROVE  TriageInv'
<1>1. Typed /\ VotesCounted /\ Apart /\ run.pc = "checkpoint"
  BY DEF TriageInv, RunInv, Checkpoint
<1>2. ASSUME NEW c \in Category
      PROVE  /\ votes'[c] \in SUBSET Msg /\ count'[c] \in Nat /\ count'[c] = Cardinality(votes'[c])
  <2>1. votes[c] \in SUBSET Msg /\ run.fresh[c] \in SUBSET Msg
        /\ count[c] = Cardinality(votes[c]) /\ count[c] \in Nat
    BY <1>1 DEF Typed, Runs, VotesCounted
  <2>2. CASE c \notin run.updated
    BY <2>1, <2>2 DEF Checkpoint
  <2>3. CASE c \in run.updated /\ Resolved(c)
    BY <2>3, FS_EmptySet DEF Checkpoint
  <2>4. CASE c \in run.updated /\ ~Resolved(c)
    <3>1. count'[c] = count[c] + Cardinality(run.fresh[c]) /\ votes'[c] = votes[c] \cup run.fresh[c]
      BY <2>4 DEF Checkpoint, Cumulative
    <3>2. votes[c] \cap run.fresh[c] = {}
      BY <1>1, <2>4 DEF Apart
    <3>3. Cardinality(votes[c] \cup run.fresh[c]) = Cardinality(votes[c]) + Cardinality(run.fresh[c])
      BY <1>1, <3>2, VotesFinite, DisjointUnion
    <3> QED
      BY <1>1, <2>1, <3>1, <3>3, VotesFinite
  <2> QED
    BY <2>2, <2>3, <2>4
<1>3. votes' \in [Category -> SUBSET Msg] /\ count' \in [Category -> Nat] /\ VotesCounted'
  <2>1. DOMAIN votes' = Category /\ DOMAIN count' = Category
    BY DEF Checkpoint
  <2>2. votes' = [c \in Category |-> votes'[c]] /\ count' = [c \in Category |-> count'[c]]
    BY DEF Checkpoint
  <2> QED
    BY <1>2, <2>1, <2>2 DEF VotesCounted
<1> QED
  BY <1>3, EndKeeps DEF Checkpoint

LEMMA CrashKeeps ==
  ASSUME TriageInv, Crash
  PROVE  TriageInv'
<1>1. VotesCounted'
  BY DEF Crash, TriageInv, RunInv, VotesCounted
<1> QED
  BY <1>1, EndKeeps DEF Crash, TriageInv, RunInv, Typed

LEMMA UncacheKeeps ==
  ASSUME TriageInv, Uncache
  PROVE  TriageInv'
<1>1. run = NoRun /\ run' = run
  BY DEF Uncache, Idle, TriageInv, RunInv, Rested
<1>2. SentInv' /\ pass' = pass
  BY SentUnchanged DEF TriageInv, Uncache, sentVars
<1>3. Typed'
  BY DEF Uncache, TriageInv, RunInv, Typed
<1>4. VotesCounted'
  BY FS_EmptySet DEF Uncache, VotesCounted
<1>5. Rested' /\ Gated' /\ Apart' /\ Planned'
  BY <1>1, NoRunTyped DEF Rested, Gated, Apart, Planned
<1> QED
  BY <1>2, <1>3, <1>4, <1>5 DEF TriageInv, RunInv

LEMMA UserSendsKeepsRun ==
  ASSUME TriageInv, UserSends, UNCHANGED <<setting, place, rules, labels, votes, count, run>>
  PROVE  TriageInv'
<1>1. SentInv' /\ pass' = pass
  BY UserSendsKeeps DEF TriageInv
<1>2. Typed'
  BY DEF TriageInv, RunInv, Typed
<1>3. Rested' /\ VotesCounted' /\ Apart'
  BY DEF TriageInv, RunInv, Rested, Idle, NoRun, VotesCounted, Apart
<1>4. Planned'
  BY DEF TriageInv, RunInv, Planned, Needed
<1>5. Gated'
  BY <1>1 DEF TriageInv, RunInv, Gated, UnaskedTrash
<1> QED
  BY <1>1, <1>2, <1>3, <1>4, <1>5 DEF TriageInv, RunInv

\* The commands and the user in Gmail, which touch folders, rules and labels only.
RulesAndFolders ==
  \/ \E m \in Msg, to \in {"inbox", "spam"} : UserMoves(m, to)
  \/ \E found \in SUBSET ActiveMail : \E done \in SUBSET found : AddSpam(found, done)
  \/ \E found \in SUBSET ActiveMail : AddImportant(found)
  \/ \E c \in Category : MakeLabel(c) \/ RemoveLabel(c)

LEMMA CommandKeeps ==
  ASSUME TriageInv, RulesAndFolders
  PROVE  /\ TriageInv' /\ UNCHANGED <<sentVars, run, votes, count>>
<1>1. Typed
  BY DEF TriageInv, RunInv
<1>2. \A moved, to : to \in Places /\ Move(moved, to) => place' \in [Msg -> Places]
  BY <1>1 DEF Move, Typed
<1>3. \A found \in SUBSET Msg : KeysOf(found) \in SUBSET Identity
  BY <1>1, SettingTyped DEF KeysOf
<1>4. \A action \in {"spam", "important"}, keys \in SUBSET Identity :
         NewRules(action, keys) \subseteq Rule
  BY <1>1 DEF NewRules, Rule, Typed
<1>5. ActiveMail \subseteq Msg
  BY DEF ActiveMail
<1>6. CASE \E m \in Msg, to \in {"inbox", "spam"} : UserMoves(m, to)
  <2>1. PICK m \in Msg, to \in {"inbox", "spam"} : UserMoves(m, to)
    BY <1>6
  <2>2. place' \in [Msg -> Places]
    BY <1>2, <2>1 DEF UserMoves, Places
  <2>3. UNCHANGED <<sentVars, setting, rules, labels, votes, count, run>>
    BY <2>1 DEF UserMoves
  <2> QED
    BY <1>1, <2>2, <2>3, OthersKeep DEF Typed
<1>7. CASE \E found \in SUBSET ActiveMail : \E done \in SUBSET found : AddSpam(found, done)
  <2>1. PICK found \in SUBSET ActiveMail : \E done \in SUBSET found : AddSpam(found, done)
    BY <1>7
  <2>2. place' \in [Msg -> Places] /\ rules' \subseteq Rule
    BY <1>2, <1>3, <1>4, <1>5, <2>1 DEF AddSpam, Places
  <2>3. UNCHANGED <<sentVars, setting, labels, votes, count, run>>
    BY <2>1 DEF AddSpam
  <2> QED
    BY <1>1, <2>2, <2>3, OthersKeep DEF Typed
<1>8. CASE \E found \in SUBSET ActiveMail : AddImportant(found)
  <2>1. PICK found \in SUBSET ActiveMail : AddImportant(found)
    BY <1>8
  <2>2. rules' \subseteq Rule
    <3>1. PICK bound \in SUBSET KeysOf(found) : rules' = NewRules("important", bound)
      BY <2>1 DEF AddImportant
    <3>2. bound \in SUBSET Identity
      BY <1>3, <1>5, <3>1
    <3> QED
      BY <1>4, <3>1, <3>2
  <2>3. UNCHANGED <<sentVars, setting, place, labels, votes, count, run>>
    BY <2>1 DEF AddImportant
  <2> QED
    BY <1>1, <2>2, <2>3, OthersKeep DEF Typed
<1>9. CASE \E c \in Category : MakeLabel(c) \/ RemoveLabel(c)
  <2>1. /\ labels' \subseteq Category
        /\ UNCHANGED <<sentVars, setting, place, rules, votes, count, run>>
    BY <1>1, <1>9 DEF MakeLabel, RemoveLabel, Typed
  <2> QED
    BY <1>1, <2>1, OthersKeep DEF Typed
<1> QED
  BY <1>6, <1>7, <1>8, <1>9 DEF RulesAndFolders

\* The steps by kind, as the proofs below take them.
LEMMA StepCases ==
  ASSUME Next
  PROVE  \/ \E scope \in SUBSET ActiveMail : \E failed \in SUBSET scope : StartRun(scope, failed)
         \/ \E m \in Msg : AskReplies(m)
         \/ \E m \in Msg : Decide(m)
         \/ ReplyPage
         \/ Plan
         \/ \E made \in SUBSET Category, done \in SUBSET Msg :
               ResolveLabels(made) \/ TrashMail(done) \/ ArchiveMail(done)
         \/ Checkpoint
         \/ Crash
         \/ UserSends /\ UNCHANGED <<setting, place, rules, labels, votes, count, run>>
         \/ RulesAndFolders
         \/ Uncache
<1>1. CASE Cleanup
  BY <1>1 DEF Cleanup
<1>2. CASE User
  BY <1>2 DEF User, RulesAndFolders
<1> QED
  BY <1>1, <1>2 DEF Next

LEMMA StepRun == TriageInv /\ [Next]_vars => TriageInv'
<1> SUFFICES ASSUME TriageInv, [Next]_vars PROVE TriageInv'
  OBVIOUS
<1>1. CASE \E m \in Msg : AskReplies(m)
  BY <1>1, PassKeeps DEF AskReplies
<1>2. CASE ReplyPage
  BY <1>2, PassKeeps DEF ReplyPage
<1>3. CASE UNCHANGED vars
  BY <1>3, OthersKeep DEF vars, TriageInv, RunInv, Typed
<1> QED
  BY <1>1, <1>2, <1>3, StepCases, StartRunKeeps, DecideKeeps, PlanKeeps, WriteKeeps,
     CheckpointKeeps, CrashKeeps, UserSendsKeepsRun, CommandKeeps, UncacheKeeps

-----------------------------------------------------------------------------
(***************************************************************************)
(* The theorems.                                                           *)
(***************************************************************************)
\* The reasons hold in every execution.
THEOREM TriageInvariant == Spec => []TriageInv
  BY InitRun, StepRun, PTL DEF Spec

\* Every variable keeps its type, rules name identities, and no count exceeds the mailbox.
THEOREM TypeCorrect == Spec => []TypeOK
<1>1. TriageInv => TypeOK
  <2> SUFFICES ASSUME TriageInv PROVE TypeOK
    OBVIOUS
  <2>1. ASSUME NEW c \in Category PROVE count[c] \in 0..Cardinality(Msg)
    <3>1. count[c] = Cardinality(votes[c]) /\ votes[c] \in SUBSET Msg
      BY DEF TriageInv, RunInv, VotesCounted, Typed
    <3> QED
      BY <3>1, FS_Subset, FS_CardinalityType, TriageConstants
  <2>2. count \in [Category -> 0..Cardinality(Msg)]
    BY <2>1 DEF TriageInv, RunInv, Typed
  <2>3. run \in Runs /\ run.bulk \subseteq run.scope
    BY DEF TriageInv, RunInv, Typed
  <2> QED
    BY <2>2, <2>3 DEF TypeOK, TriageInv, RunInv, Typed, SentInv, Runs
<1> QED
  BY <1>1, TriageInvariant, PTL

\* The mark certifies every older message (sent-index.ts:47-70), whatever pages failed, runs
\* crashed and mail came and went.
THEOREM MarkCertifies == Spec => []IndexComplete
<1>1. TriageInv => IndexComplete
  BY IdsAreNumbers DEF TriageInv, SentInv, SentTypeOK, MarkInv, IndexComplete, Present, Ids
<1> QED
  BY <1>1, TriageInvariant, PTL

\* The stored count of a category is the number of its stored voters (orchestrator.ts:990,
\* work.ts:908).
THEOREM CountsVotes == Spec => []VotesCounted
<1>1. TriageInv => VotesCounted
  BY DEF TriageInv, RunInv
<1> QED
  BY <1>1, TriageInvariant, PTL

\* A cleanup makes a topical label only when enough messages asked for it
\* (orchestrator.ts:1004).
THEOREM LabelsAreEarned == Spec => LabelsEarned
<1> DEFINE Earned == \A c \in labels' \ labels :
                        run.pc = "labelling" /\ run'.pc = "trashing"
                        => Cardinality(votes[c] \cup run.fresh[c]) >= MinLabelVotes
<1>1. TriageInv /\ [Next]_vars => [Earned]_vars
  <2> SUFFICES ASSUME TriageInv, Next, run.pc = "labelling", run'.pc = "trashing",
                      NEW c \in labels' \ labels
               PROVE  Cardinality(votes[c] \cup run.fresh[c]) >= MinLabelVotes
    OBVIOUS
  <2>1. \E made \in SUBSET Category : ResolveLabels(made)
    <3>1. run \in Runs
      BY DEF TriageInv, RunInv, Typed
    <3>2. CASE \E m \in Msg : Decide(m)
      BY <3>2 DEF Decide
    <3>3. CASE \E made \in SUBSET Category, done \in SUBSET Msg :
                  ResolveLabels(made) \/ TrashMail(done) \/ ArchiveMail(done)
      BY <3>3 DEF TrashMail, ArchiveMail
    <3> QED
      BY <3>1, <3>2, <3>3, StepCases, CommandKeeps, NoRunTyped
         DEF StartRun, Idle, AskReplies, ReplyPage, Plan, Checkpoint, Crash, Uncache
  <2>2. c \in Needed \ run.known
    BY <2>1 DEF ResolveLabels
  <2> QED
    BY <2>2 DEF TriageInv, RunInv, Planned
<1> QED
  BY <1>1, TriageInvariant, PTL DEF Spec, LabelsEarned

-----------------------------------------------------------------------------
(***************************************************************************)
(* The refinement: each step is a step of ReplyProtection, or none.        *)
(***************************************************************************)
Exposed == {ThreadOf[m] : m \in {n \in run.scope : UnaskedTrash(n)}}
Answer == IF pass.pc = "loaded" THEN pass.known ELSE {}

\* What the promise sees, with names of its own.
LEMMA PromiseSees ==
  Promise!vars = <<WithThreads(Written(sent)), WithThreads(owed), pass.pc = "loaded", Answer, Exposed>>
  BY DEF Promise!vars, Exposed, Answer

\* Mail that keeps its thread is the same pair after the step.
LEMMA PairsKept ==
  ASSUME NEW ids \in SUBSET Ids, \A i \in Ids : sent'[i].thread = sent[i].thread
  PROVE  {<<i, sent'[i].thread>> : i \in ids} = WithThreads(ids)
  BY DEF WithThreads

\* Steps that leave the pass alone and expose no thread are none of the promise's.
LEMMA Stutter ==
  ASSUME UNCHANGED sentVars, Exposed' = Exposed
  PROVE  UNCHANGED Promise!vars
  BY DEF sentVars, Promise!vars, Exposed, Answer, WithThreads, Written

LEMMA InitPromise == Init => Promise!Init
<1> SUFFICES ASSUME Init PROVE Promise!Init
  OBVIOUS
<1>1. Written(sent) = {}
  BY DEF Init, SentInit, Written
<1>2. WithThreads(Written(sent)) = {} /\ WithThreads(owed) = {}
  BY <1>1 DEF WithThreads, Init, SentInit
<1>3. pass.pc = "idle" /\ Exposed = {}
  BY NoRunTyped DEF Init, SentInit, NoPass, Exposed
<1> QED
  BY <1>2, <1>3 DEF Promise!Init, Exposed

LEMMA UserWritesStep ==
  ASSUME TriageInv, UserSends, run' = run
  PROVE  Promise!UserWrites
<1>1. /\ SentInv' /\ pass' = pass /\ owed' = owed \cap Written(sent')
      /\ \A i \in Ids : i \in Ids' /\ sent'[i].thread = sent[i].thread
  BY UserSendsKeeps DEF TriageInv
<1>2. WithThreads(Written(sent))' \in SUBSET ((1..MaxSent) \X Thread)
  <2>1. \A i \in Ids' : i \in 1..MaxSent /\ sent'[i].thread \in Thread
    <3> DEFINE S == [thread : Thread, state : {"listed", "hidden", "gone"}, missed : BOOLEAN]
    <3>1. sent' \in Seq(S) /\ Len(sent') <= MaxSent
      BY <1>1 DEF SentInv, SentTypeOK
    <3>2. Ids' = 1..Len(sent') /\ Len(sent') \in Nat /\ \A i \in Ids' : sent'[i] \in S
      <4> HIDE DEF S
      <4> QED
        BY <3>1 DEF Ids
    <3> QED
      BY <3>1, <3>2, SentIndexConstants
  <2> QED
    BY <2>1 DEF WithThreads, Written, Ids
<1>3. WithThreads(owed)' = WithThreads(owed) \cap WithThreads(Written(sent))'
  <2>1. owed \subseteq Ids
    BY DEF TriageInv, SentInv, SentTypeOK
  <2> QED
    BY <1>1, <2>1 DEF WithThreads
<1>4. Exposed' = Exposed
  BY DEF Exposed, UnaskedTrash
<1> QED
  BY <1>1, <1>2, <1>3, <1>4 DEF Promise!UserWrites, Exposed

LEMMA AskStep ==
  ASSUME TriageInv, BeginPass, run' = run
  PROVE  Promise!Ask
<1>1. pass.pc = "idle" /\ pass'.pc = "paging" /\ owed' = Written(sent) /\ sent' = sent
  BY DEF BeginPass, NoPass
<1>2. Exposed' = Exposed
  BY DEF Exposed, UnaskedTrash
<1> QED
  BY <1>1, <1>2 DEF Promise!Ask, Exposed, WithThreads

LEMMA PageStep ==
  ASSUME TriageInv, ReadPage, run' = run
  PROVE  Promise!Answer \/ UNCHANGED Promise!vars
<1>1. pass.pc = "paging"
  BY DEF ReadPage
<1>2. Exposed' = Exposed
  BY DEF Exposed, UnaskedTrash
<1>3. owed \subseteq Ids /\ Written(sent) \subseteq Ids
  BY DEF TriageInv, SentInv, SentTypeOK, Written, Ids
<1>4. CASE LastPage(Page(pass.next))
  <2>1. /\ pass'.pc = "loaded" /\ owed' = {} /\ pass'.known \in SUBSET Thread
        /\ \A i \in owed : sent[i].thread \in pass'.known
        /\ Written(sent') = Written(sent) /\ \A i \in Ids : sent'[i].thread = sent[i].thread
    BY <1>4, LastPageKeeps DEF TriageInv
  <2>2. WithThreads(Written(sent))' = WithThreads(Written(sent)) /\ WithThreads(owed)' = {}
    BY <1>3, <2>1, PairsKept DEF WithThreads
  <2>3. {p[2] : p \in WithThreads(owed)} \subseteq pass'.known
    BY <2>1 DEF WithThreads
  <2> QED
    BY <1>1, <1>2, <2>1, <2>2, <2>3 DEF Promise!Answer, Exposed
<1>5. CASE ~LastPage(Page(pass.next))
  <2>1. /\ pass'.pc = "paging" /\ owed' = owed
        /\ Written(sent') = Written(sent) /\ \A i \in Ids : sent'[i].thread = sent[i].thread
    BY <1>5, NextPageKeeps DEF TriageInv
  <2>2. /\ WithThreads(Written(sent))' = WithThreads(Written(sent))
        /\ WithThreads(owed)' = WithThreads(owed)
    BY <1>3, <2>1, PairsKept DEF WithThreads
  <2> QED
    BY <1>1, <1>2, <2>1, <2>2 DEF Promise!vars, Exposed
<1> QED
  BY <1>4, <1>5

LEMMA ForgetStep ==
  ASSUME TriageInv, (PassFails /\ run' = run) \/ (DropPass /\ run' = NoRun)
  PROVE  Promise!Forget
<1>1. sent' = sent /\ owed' = {} /\ pass'.pc # "loaded"
  BY DEF PassFails, DropPass, NoPass
<1>2. Exposed' = {}
  <2>1. CASE PassFails /\ run' = run
    BY <2>1 DEF PassFails, TriageInv, RunInv, Gated, Exposed, UnaskedTrash
  <2>2. CASE run' = NoRun
    BY <2>2, NoRunTyped DEF Exposed
  <2> QED
    BY <2>1, <2>2
<1> QED
  BY <1>1, <1>2 DEF Promise!Forget, Exposed, WithThreads

LEMMA DecideStep ==
  ASSUME TriageInv, NEW m \in Msg, Decide(m)
  PROVE  (\E t \in Thread : Promise!Expose(t)) \/ UNCHANGED Promise!vars
<1>1. /\ UNCHANGED sentVars /\ run'.scope = run.scope /\ m \in run.scope /\ ~UnaskedTrash(m)
      /\ \A n \in Msg \ {m} : UnaskedTrash(n)' <=> UnaskedTrash(n)
      /\ UnaskedTrash(m)' => pass.pc = "loaded" /\ ThreadOf[m] \notin pass.known
  BY DecideKeeps
<1>2. run.scope \subseteq Msg
  BY DEF TriageInv, RunInv, Typed, Runs
<1>3. CASE UnaskedTrash(m)'
  <2>1. Exposed' = Exposed \cup {ThreadOf[m]}
    BY <1>1, <1>2, <1>3 DEF Exposed
  <2>2. ThreadOf[m] \in Thread
    BY TriageConstants
  <2>3. Promise!Expose(ThreadOf[m])
    BY <1>1, <1>3, <2>1 DEF Promise!Expose, Exposed, sentVars, WithThreads
  <2> QED
    BY <2>2, <2>3
<1>4. CASE ~UnaskedTrash(m)'
  <2>1. Exposed' = Exposed
    BY <1>1, <1>2, <1>4 DEF Exposed
  <2> QED
    BY <1>1, <2>1, Stutter
<1> QED
  BY <1>3, <1>4

LEMMA StepPromise ==
  ASSUME TriageInv, [Next]_vars
  PROVE  [Promise!Next]_(Promise!vars)
<1>1. CASE \E scope \in SUBSET ActiveMail : \E failed \in SUBSET scope : StartRun(scope, failed)
  <2>1. Exposed' = {} /\ UNCHANGED sentVars
    BY <1>1, StartRunKeeps DEF Exposed, StartRun
  <2>2. Exposed = {}
    BY <1>1, NoRunTyped DEF StartRun, TriageInv, RunInv, Rested, Exposed
  <2> QED
    BY <2>1, <2>2, Stutter
<1>2. CASE \E m \in Msg : AskReplies(m)
  BY <1>2, AskStep DEF AskReplies, Promise!Next
<1>3. CASE \E m \in Msg : Decide(m)
  BY <1>3, DecideStep DEF Promise!Next
<1>4. CASE ReplyPage
  BY <1>4, PageStep, ForgetStep DEF ReplyPage, Promise!Next
<1>5. CASE Plan
  <2>1. Exposed' = Exposed /\ UNCHANGED sentVars
    BY <1>5, PlanKeeps DEF Exposed, Plan
  <2> QED
    BY <2>1, Stutter
<1>6. CASE \E made \in SUBSET Category, done \in SUBSET Msg :
              ResolveLabels(made) \/ TrashMail(done) \/ ArchiveMail(done)
  <2>1. Exposed' = Exposed /\ UNCHANGED sentVars
    BY <1>6, WriteKeeps DEF Exposed
  <2> QED
    BY <2>1, Stutter
<1>7. CASE Checkpoint \/ Crash
  BY <1>7, ForgetStep DEF Checkpoint, Crash, Promise!Next
<1>8. CASE UserSends /\ UNCHANGED <<setting, place, rules, labels, votes, count, run>>
  BY <1>8, UserWritesStep DEF Promise!Next
<1>9. CASE RulesAndFolders \/ Uncache \/ UNCHANGED vars
  <2>1. UNCHANGED <<sentVars, run>>
    BY <1>9, CommandKeeps DEF Uncache, vars
  <2>2. Exposed' = Exposed
    BY <2>1 DEF Exposed, UnaskedTrash
  <2> QED
    BY <2>1, <2>2, Stutter
<1> QED
  BY <1>1, <1>2, <1>3, <1>4, <1>5, <1>6, <1>7, <1>8, <1>9, StepCases

\* The index and the gate before a Trash implement ReplyProtection: from the answer to the end
\* of a run, no thread of mail that was there from the question to the answer loses a message
\* to Trash without the user's rule (sent-index.ts:47, orchestrator.ts finalizeOutcome).
THEOREM Protection == Spec => RepliesProtected
<1>1. TriageInv /\ [Next]_vars => [Promise!Next]_(Promise!vars)
  BY StepPromise
<1> QED
  BY <1>1, InitPromise, TriageInvariant, PTL DEF Spec, RepliesProtected, Promise!Spec
=============================================================================
