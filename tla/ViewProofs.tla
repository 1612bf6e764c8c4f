----------------------------- MODULE ViewProofs -----------------------------
(***************************************************************************)
(* The two halves of `gmail view`, each for all values of its constants.   *)
(* What a session promises: no row action loses track of a message         *)
(* (StaleIsReported), an undo gives back what the delete found             *)
(* (UndoRestores), and an action without rows is for messages the user     *)
(* selected (SelectionIsMeant). What its background loader promises:       *)
(* LoaderInv.                                                              *)
(*                                                                         *)
(* The first argument is about one message and one command. If Gmail's     *)
(* labels change, the history reports the message. If they do not, the row *)
(* is written only from the record c that was captured: over a newer row   *)
(* that is remembered in buried, and over c itself it keeps the row right, *)
(* because the code makes the same labels of c as Gmail makes of its own   *)
(* (Sound). The second is that a message of the last delete which nothing  *)
(* else has changed is in Trash, or has been given back already            *)
(* (Restorable). The third is about pages: where a message is on its page  *)
(* depends on the messages of the page alone (PlaceOnPage).                *)
(*                                                                         *)
(* The loader's invariant is inductive as a whole: a page is read only of  *)
(* a folder that has one left (Certified) because the folder chosen is     *)
(* loadable (NextFolderFacts), and nobody sleeps while the loader is idle  *)
(* (Remembered) because what a waiter lacks is a demand, and a demand is   *)
(* work (UnmetIsWork).                                                     *)
(***************************************************************************)
EXTENDS ViewSession, ViewLoader, FiniteSetTheorems, WellFoundedInduction, TLAPS

\* Any nonempty set of numbers has a least one.
LEMMA LeastExists ==
  ASSUME NEW S \in SUBSET Nat, S # {}
  PROVE  \E x \in S : \A y \in S : x <= y
<1> DEFINE R == {p \in Nat \X Nat : p[1] < p[2]}
<1>1. IsWellFoundedOn(R, Nat)
  BY NatLessThanWellFounded DEF OpToRel
<1>2. PICK x \in S : \A y \in S : <<y, x>> \notin R
  <2> HIDE DEF R
  <2> QED
    BY <1>1, WFMin
<1>3. ASSUME NEW y \in S PROVE x <= y
  <2>1. <<y, x>> \notin R
    BY <1>2
  <2>2. ~(y < x)
    BY <2>1
  <2> QED
    BY <2>2
<1> QED
  BY <1>3

-----------------------------------------------------------------------------
LabelOrNone == {NoRow} \cup SUBSET Label

\* What a command may do to a message with labels g whose row is expected to be c.
Sound(R, g, c) ==
  /\ R.mail \in SUBSET Label /\ R.row \in LabelOrNone
  /\ R.row # NoRow => c # NoRow
  /\ R.row # NoRow /\ c = g /\ R.mail = g => R.row = R.mail

\* Deleting leaves row and Gmail alike (trashCached).
LEMMA TrashSound ==
  ASSUME NEW g \in SUBSET Label, NEW c \in SUBSET Label, NEW a
  PROVE  Sound(Trash(c, g, a), g, c)
<1>1. Trashed(g) \in SUBSET Label /\ Trashed(c) \in SUBSET Label
  BY DEF Trashed, Label
<1>2. c # NoRow
  BY SessionConstants DEF SessionConstants
<1>3. CASE a = "ok"
  BY <1>1, <1>2, <1>3 DEF Sound, Trash, Result, LabelOrNone
<1>4. CASE a = "lost"
  BY <1>1, <1>2, <1>4 DEF Sound, Trash, Failed, Result, LabelOrNone
<1>5. CASE a \notin {"ok", "lost"}
  BY <1>1, <1>2, <1>5 DEF Sound, Trash, Failed, Result, LabelOrNone
<1> QED
  BY <1>3, <1>4, <1>5

\* So does starring (setCachedStar).
LEMMA StarSound ==
  ASSUME NEW g \in SUBSET Label, NEW c \in SUBSET Label, NEW a, NEW on \in BOOLEAN
  PROVE  Sound(Star(c, g, a, on), g, c)
<1>1. Starring(g, on) \in SUBSET Label /\ Starring(c, on) \in SUBSET Label
  BY DEF Starring, Label
<1>2. c # NoRow
  BY SessionConstants DEF SessionConstants
<1>3. CASE a = "ok"
  BY <1>1, <1>2, <1>3 DEF Sound, Star, Result, LabelOrNone
<1>4. CASE a = "lost"
  BY <1>1, <1>2, <1>4 DEF Sound, Star, Failed, Result, LabelOrNone
<1>5. CASE a \notin {"ok", "lost"}
  BY <1>1, <1>2, <1>5 DEF Sound, Star, Failed, Result, LabelOrNone
<1> QED
  BY <1>3, <1>4, <1>5

\* So does a move to the Inbox, also half way (moveCachedToInbox).
LEMMA MoveSound ==
  ASSUME NEW g \in SUBSET Label, NEW c \in SUBSET Label, NEW a
  PROVE  Sound(Move(c, g, a), g, c)
<1> DEFINE U == g \ ({"TRASH"} \cap c)
<1>1. /\ U \in SUBSET Label /\ Inboxed(U, c) \in SUBSET Label /\ Inboxed(g, c) \in SUBSET Label
      /\ (c \ {"SPAM", "TRASH"}) \cup {"INBOX"} \in SUBSET Label /\ c \ {"TRASH"} \in SUBSET Label
  BY DEF Inboxed, Label
<1>2. c # NoRow
  BY SessionConstants DEF SessionConstants
<1>3. CASE FolderOf(c) = "inbox" \/ a = "refused"
  BY <1>1, <1>2, <1>3 DEF Sound, Move, Failed, Result, LabelOrNone
<1>4. CASE ~(FolderOf(c) = "inbox" \/ a = "refused") /\ a = "ok"
  <2>1. Move(c, g, a) = Result(Inboxed(U, c), (c \ {"SPAM", "TRASH"}) \cup {"INBOX"}, TRUE)
    BY <1>4 DEF Move
  <2>2. c = g => Inboxed(U, c) = (c \ {"SPAM", "TRASH"}) \cup {"INBOX"}
    BY DEF Inboxed
  <2> QED
    BY <1>1, <1>2, <2>1, <2>2 DEF Sound, Result, LabelOrNone
<1>5. CASE ~(FolderOf(c) = "inbox" \/ a = "refused") /\ a # "ok" /\ FolderOf(c) # "trash"
  BY <1>1, <1>2, <1>5 DEF Sound, Move, Failed, Result, LabelOrNone
<1>6. CASE ~(FolderOf(c) = "inbox" \/ a = "refused") /\ a # "ok" /\ FolderOf(c) = "trash"
  <2>1. Move(c, g, a) = Result(IF a = "lost" THEN Inboxed(U, c) ELSE U, c \ {"TRASH"}, FALSE)
    BY <1>6 DEF Move
  <2>2. "TRASH" \in c
    BY <1>6 DEF FolderOf
  <2>3. c = g => U = c \ {"TRASH"} /\ Inboxed(U, c) # g
    BY <2>2 DEF Inboxed
  <2> QED
    BY <1>1, <1>2, <2>1, <2>3 DEF Sound, Result, LabelOrNone
<1> QED
  BY <1>3, <1>4, <1>5, <1>6

\* An undo restores what the delete made of its record (";u", untrashMessage).
LEMMA UntrashSound ==
  ASSUME NEW g \in SUBSET Label, NEW c \in SUBSET (Label \ {"TRASH"}), NEW a
  PROVE  Sound(Untrash(c, g, a), g, Trashed(c))
<1>1. /\ Trashed(c) \in SUBSET Label /\ c \in SUBSET Label
      /\ (g \ {"TRASH"}) \cup c \in SUBSET Label /\ g \ {"TRASH"} \in SUBSET Label
  BY DEF Trashed, Label
<1>2. Trashed(c) # NoRow
  BY <1>1, SessionConstants DEF SessionConstants
<1>3. CASE a = "refused"
  BY <1>1, <1>2, <1>3 DEF Sound, Untrash, Failed, Result, LabelOrNone
<1>4. CASE a = "half"
  BY <1>1, <1>2, <1>4 DEF Sound, Untrash, Failed, Result, LabelOrNone
<1>5. CASE a \notin {"refused", "half"}
  <2>1. Untrash(c, g, a) = Result((g \ {"TRASH"}) \cup c, IF a = "ok" THEN c ELSE NoRow, a = "ok")
    BY <1>5 DEF Untrash
  <2>2. g = Trashed(c) => (g \ {"TRASH"}) \cup c = c
    BY DEF Trashed
  <2> QED
    BY <1>1, <1>2, <2>1, <2>2 DEF Sound, Result, LabelOrNone
<1> QED
  BY <1>3, <1>4, <1>5

-----------------------------------------------------------------------------
IInv == Stored /\ StaleIsReported

\* A command whose every result is sound keeps the invariant's part about the
\* stores.
LEMMA ActedKeeps ==
  ASSUME IInv, NEW E, NEW over, NEW a, Acted(E, over, a),
         \A m \in Msg : m \in DOMAIN E => Sound(E[m], mail[m], over[m])
  PROVE  /\ mail' \in [Msg -> SUBSET Label] /\ row' \in [Msg -> LabelOrNone]
         /\ StaleIsReported'
<1> DEFINE D == DOMAIN E
           changed == {m \in D : E[m].mail # mail[m]}
<1>1. /\ mail' = [m \in Msg |-> IF m \in D THEN E[m].mail ELSE mail[m]]
      /\ row' = [m \in Msg |-> IF m \in D /\ E[m].row # NoRow THEN E[m].row ELSE row[m]]
      /\ reported' = reported \cup changed
      /\ buried' = (buried \ changed)
                   \cup {m \in D \ changed : E[m].row # NoRow /\ row[m] # over[m]}
  BY DEF Acted
<1>2. mail' \in [Msg -> SUBSET Label] /\ row' \in [Msg -> LabelOrNone]
  <2>1. \A m \in Msg : m \in D => E[m].mail \in SUBSET Label /\ E[m].row \in LabelOrNone
    BY DEF Sound
  <2>2. mail \in [Msg -> SUBSET Label] /\ row \in [Msg -> LabelOrNone]
    BY DEF IInv, Stored, LabelOrNone
  <2> QED
    BY <1>1, <2>1, <2>2
<1>3. ASSUME NEW m \in Msg
      PROVE  row'[m] \in {NoRow, mail'[m]} \/ m \in reported' \cup buried'
  <2> USE <1>1
  <2>1. row[m] \in {NoRow, mail[m]} \/ m \in reported \cup buried
    BY DEF IInv, StaleIsReported
  <2>2. CASE m \in changed
    BY <2>2
  <2>3. CASE m \notin D
    BY <2>1, <2>3
  <2>4. CASE m \in D /\ m \notin changed
    <3>1. mail'[m] = mail[m] /\ E[m].mail = mail[m]
      BY <2>4
    <3>2. CASE E[m].row = NoRow
      BY <2>1, <2>4, <3>1, <3>2
    <3>3. CASE E[m].row # NoRow /\ row[m] # over[m]
      BY <2>4, <3>3
    <3>4. CASE E[m].row # NoRow /\ row[m] = over[m]
      <4>1. row'[m] = E[m].row /\ row[m] # NoRow /\ (row[m] = mail[m] => E[m].row = mail[m])
        BY <2>4, <3>1, <3>4 DEF Sound
      <4> QED
        BY <2>1, <2>4, <3>1, <4>1
    <3> QED
      BY <3>2, <3>3, <3>4
  <2> QED
    BY <2>2, <2>3, <2>4
<1> QED
  BY <1>2, <1>3 DEF StaleIsReported

\* The records ;u keeps are those of the delete, or still those of the last one.
LEMMA RememberKeeps ==
  ASSUME Stored, NEW C, NEW E, DOMAIN E \subseteq Msg, Remember(C, E),
         \A m \in DOMAIN E : C[m] \in SUBSET (Label \ {"TRASH"})
  PROVE  DOMAIN last' \subseteq Msg /\ \A m \in DOMAIN last' : last'[m] \in SUBSET (Label \ {"TRASH"})
<1> DEFINE done == {m \in DOMAIN E : E[m].ok}
<1>1. CASE done = {}
  BY <1>1 DEF Remember, Stored
<1>2. CASE done # {}
  <2>1. last' = [m \in done |-> C[m]]
    BY <1>2 DEF Remember
  <2> QED
    BY <2>1
<1> QED
  BY <1>1, <1>2

\* Every redraw shows rows.
LEMMA DrawnKeeps ==
  ASSUME NEW f, NEW p, NEW s, NEW sel, Redraw(f, p, s, sel) \/ Draw(f, p, s, sel),
         row' \in [Msg -> LabelOrNone]
  PROVE  shown' \in [Msg -> LabelOrNone]
  BY DEF Redraw, Draw

LEMMA NotTrash ==
  ASSUME NEW c \in SUBSET Label, FolderOf(c) # "trash"
  PROVE  c \in SUBSET (Label \ {"TRASH"})
  BY DEF FolderOf

-----------------------------------------------------------------------------
\* In the beginning every row is as Gmail has it.
LEMMA InitHolds == Init => IInv
<1> SUFFICES ASSUME Init PROVE IInv
  OBVIOUS
<1>1. mail \in [Msg -> SUBSET Label]
  BY DEF Init, Label
<1>2. PICK C \in SUBSET Msg : row = [m \in Msg |-> IF m \in C THEN mail[m] ELSE NoRow]
  BY DEF Init
<1>3. row \in [Msg -> {NoRow} \cup SUBSET Label] /\ \A m \in Msg : row[m] \in {NoRow, mail[m]}
  BY <1>1, <1>2
<1>4. shown = row /\ reading = NoRow /\ last = NoUndo
  BY DEF Init
<1> QED
  BY <1>1, <1>3, <1>4 DEF IInv, Stored, StaleIsReported, NoUndo

\* Steps beside the session.
LEMMA OutsideKeeps ==
  ASSUME IInv, NEW m \in Msg, Relabel(m) \/ Cleanup(m) \/ Load(m)
  PROVE  IInv'
<1> USE DEF IInv, Stored, StaleIsReported
<1>1. UNCHANGED <<shown, reading, last>>
  BY DEF Relabel, Cleanup, Load, screen
<1>2. CASE Relabel(m)
  <2>1. PICK l \in SUBSET Label : mail' = [mail EXCEPT ![m] = l]
    BY <1>2 DEF Relabel, Label, Trashed
  <2>2. row' = row /\ reported' = reported \cup {m} /\ buried' = buried
    BY <1>2 DEF Relabel
  <2> QED
    BY <1>1, <2>1, <2>2
<1>3. CASE Cleanup(m)
  <2>1. PICK l \in SUBSET Label :
          mail' = [mail EXCEPT ![m] = l] /\ row' = [row EXCEPT ![m] = l]
    BY <1>3 DEF Cleanup, Label, Trashed
  <2>2. reported' = reported \cup {m} /\ buried' = buried \ {m}
    BY <1>3 DEF Cleanup
  <2> QED
    BY <1>1, <2>1, <2>2
<1>4. CASE Load(m)
  BY <1>1, <1>4 DEF Load
<1> QED
  BY <1>2, <1>3, <1>4

LEMMA RefreshKeeps == IInv /\ Refresh => IInv'
  BY DEF Refresh, Refreshed, screen, IInv, Stored, StaleIsReported

\* Commands of the list that write nothing, and u.
LEMMA LookKeeps ==
  ASSUME IInv, Redrawn \/ Update \/ Back \/ (\E sel : Select(sel)) \/ (\E f, p, s : Navigate(f, p, s))
  PROVE  IInv'
<1>1. CASE Update
  <2>1. /\ row' = [m \in Msg |-> IF m \in reported THEN mail[m] ELSE row[m]]
        /\ reported' = {} /\ buried' = buried \ reported /\ mail' = mail
        /\ UNCHANGED <<reading, last>> /\ shown' = row'
    BY <1>1 DEF Update, Refreshed, Redraw, Draw
  <2> QED
    BY <2>1 DEF IInv, Stored, StaleIsReported
<1>2. CASE ~Update
  <2>1. UNCHANGED <<mail, row, reported, buried, last>> /\ shown' = row'
    BY <1>2 DEF Redrawn, Back, BackToList, Select, Navigate, Redraw, Draw, store
  <2>2. reading' \in {reading, NoRow}
    BY <1>2 DEF Redrawn, Back, BackToList, Select, Navigate
  <2> QED
    BY <2>1, <2>2 DEF IInv, Stored, StaleIsReported
<1> QED
  BY <1>1, <1>2

\* Opening a message reads it anew.
LEMMA ReadKeeps ==
  ASSUME IInv, NEW m \in Msg, Read(m)
  PROVE  IInv'
  BY DEF IInv, Stored, StaleIsReported, Read, screen

-----------------------------------------------------------------------------
\* The rows of the page were drawn.
LEMMA DrawnAreRows == Stored => \A m \in Drawn : m \in Msg /\ shown[m] \in SUBSET Label
  BY DEF Stored, Drawn, Items, Rows

\* Row actions of the list.
LEMMA RowActionKeeps ==
  ASSUME IInv, NEW T, Delete(T) \/ StarRows(T) \/ MoveToInbox(T)
  PROVE  IInv'
<1>1. Stored
  BY DEF IInv
<1>2. \A m \in T : m \in Msg /\ shown[m] \in SUBSET Label
  BY <1>1, DrawnAreRows DEF Delete, StarRows, MoveToInbox, Asked
<1>3. \A m \in Msg : mail[m] \in SUBSET Label
  BY <1>1 DEF Stored
<1>4. Redraw(folder, page, size, {}) /\ UNCHANGED reading
  BY DEF Delete, StarRows, MoveToInbox
<1>5. CASE Delete(T)
  <2> DEFINE D == Deletable(T)
  <2>1. PICK a \in AnswersFor(D) :
          Acted(DeleteFrom(shown, D, a), shown, a) /\ Remember(shown, DeleteFrom(shown, D, a))
    BY <1>5 DEF Delete
  <2>2. D \subseteq Msg /\ \A m \in D : shown[m] \in SUBSET (Label \ {"TRASH"})
    BY <1>2, NotTrash DEF Deletable
  <2>3. DOMAIN DeleteFrom(shown, D, a) = D
    BY DEF DeleteFrom
  <2>4. \A m \in D : Sound(DeleteFrom(shown, D, a)[m], mail[m], shown[m])
    <3>1. \A m \in D : Sound(Trash(shown[m], mail[m], a[m]), mail[m], shown[m])
      BY <1>3, <2>2, TrashSound
    <3> QED
      BY <3>1 DEF DeleteFrom
  <2>5. mail' \in [Msg -> SUBSET Label] /\ row' \in [Msg -> LabelOrNone] /\ StaleIsReported'
    BY <2>1, <2>3, <2>4, ActedKeeps
  <2>6. DOMAIN last' \subseteq Msg /\ \A m \in DOMAIN last' : last'[m] \in SUBSET (Label \ {"TRASH"})
    BY <1>1, <2>1, <2>2, <2>3, RememberKeeps
  <2>7. shown' \in [Msg -> LabelOrNone]
    BY <1>4, <2>5, DrawnKeeps
  <2> QED
    BY <1>1, <1>4, <2>5, <2>6, <2>7 DEF IInv, Stored, LabelOrNone
<1>6. CASE StarRows(T)
  <2> DEFINE on == \E m \in T : "STARRED" \notin shown[m]
             D  == {m \in T : Starring(shown[m], on) # shown[m]}
  <2>1. PICK a \in AnswersFor(D) : Acted(StarFrom(shown, D, a, on), shown, a)
    BY <1>6 DEF StarRows
  <2>2. DOMAIN StarFrom(shown, D, a, on) = D
    BY DEF StarFrom
  <2>3. \A m \in D : Sound(StarFrom(shown, D, a, on)[m], mail[m], shown[m])
    <3>1. \A m \in D : Sound(Star(shown[m], mail[m], a[m], on), mail[m], shown[m])
      BY <1>2, <1>3, StarSound
    <3> QED
      BY <3>1 DEF StarFrom
  <2>4. mail' \in [Msg -> SUBSET Label] /\ row' \in [Msg -> LabelOrNone] /\ StaleIsReported'
    BY <2>1, <2>2, <2>3, ActedKeeps
  <2>5. shown' \in [Msg -> LabelOrNone]
    BY <1>4, <2>4, DrawnKeeps
  <2>6. UNCHANGED last
    BY <1>6 DEF StarRows
  <2> QED
    BY <1>1, <1>4, <2>4, <2>5, <2>6 DEF IInv, Stored, LabelOrNone
<1>7. CASE MoveToInbox(T)
  <2>1. PICK a \in AnswersFor(T) : Acted(MoveFrom(shown, T, a), shown, a)
    BY <1>7 DEF MoveToInbox
  <2>2. DOMAIN MoveFrom(shown, T, a) = T
    BY DEF MoveFrom
  <2>3. \A m \in T : Sound(MoveFrom(shown, T, a)[m], mail[m], shown[m])
    <3>1. \A m \in T : Sound(Move(shown[m], mail[m], a[m]), mail[m], shown[m])
      BY <1>2, <1>3, MoveSound
    <3> QED
      BY <3>1 DEF MoveFrom
  <2>4. mail' \in [Msg -> SUBSET Label] /\ row' \in [Msg -> LabelOrNone] /\ StaleIsReported'
    BY <2>1, <2>2, <2>3, ActedKeeps
  <2>5. shown' \in [Msg -> LabelOrNone]
    BY <1>4, <2>4, DrawnKeeps
  <2>6. UNCHANGED last
    BY <1>7 DEF MoveToInbox
  <2> QED
    BY <1>1, <1>4, <2>4, <2>5, <2>6 DEF IInv, Stored, LabelOrNone
<1> QED
  BY <1>5, <1>6, <1>7

\* ;u expects the row the delete wrote.
LEMMA UndoKeeps == IInv /\ Undo => IInv'
<1> SUFFICES ASSUME IInv, Undo PROVE IInv'
  OBVIOUS
<1> DEFINE D == DOMAIN last
           over == [m \in D |-> Trashed(last[m])]
           E(a) == [m \in D |-> Untrash(last[m], mail[m], a[m])]
<1>1. Stored
  BY DEF IInv
<1>2. PICK a \in AnswersFor(D) : Acted(E(a), over, a) /\ last' \in {NoUndo, last}
  BY DEF Undo
<1>3. DOMAIN E(a) = D
  OBVIOUS
<1>4. \A m \in D : Sound(E(a)[m], mail[m], over[m])
  <2>1. \A m \in D : mail[m] \in SUBSET Label /\ last[m] \in SUBSET (Label \ {"TRASH"})
    BY <1>1 DEF Stored
  <2>2. \A m \in D : Sound(Untrash(last[m], mail[m], a[m]), mail[m], Trashed(last[m]))
    BY <2>1, UntrashSound
  <2> QED
    BY <2>2
<1>5. mail' \in [Msg -> SUBSET Label] /\ row' \in [Msg -> LabelOrNone] /\ StaleIsReported'
  <2> HIDE DEF E, over
  <2> QED
    BY <1>2, <1>3, <1>4, ActedKeeps
<1>6. shown' \in [Msg -> LabelOrNone] /\ UNCHANGED reading
  BY <1>5, DrawnKeeps DEF Undo
<1>7. DOMAIN last' \subseteq Msg /\ \A m \in DOMAIN last' : last'[m] \in SUBSET (Label \ {"TRASH"})
  BY <1>1, <1>2 DEF Stored, NoUndo
<1> QED
  BY <1>1, <1>5, <1>6, <1>7 DEF IInv, Stored, LabelOrNone

-----------------------------------------------------------------------------
\* An action of the read view goes back to the list or stays with the record
\* it made.
LEMMA ReaderKeeps ==
  ASSUME Stored, ~Listing, NEW E, DOMAIN E = {reading.at}, E[reading.at].row \in LabelOrNone,
         row' \in [Msg -> LabelOrNone], BackToList \/ Stay(E)
  PROVE  /\ shown' \in [Msg -> LabelOrNone]
         /\ reading' \in {NoRow} \cup [at : Msg, labels : SUBSET Label]
<1>1. reading \in [at : Msg, labels : SUBSET Label] /\ shown \in [Msg -> LabelOrNone]
  BY DEF Stored, Listing, LabelOrNone
<1>2. CASE BackToList
  BY <1>2, DrawnKeeps DEF BackToList
<1>3. CASE Stay(E)
  <2>1. shown' = shown
    BY <1>3 DEF Stay, screen
  <2>2. reading' = [reading EXCEPT !.labels = IF E[reading.at].row = NoRow THEN @ ELSE E[reading.at].row]
    BY <1>3 DEF Stay
  <2>3. (IF E[reading.at].row = NoRow THEN reading.labels ELSE E[reading.at].row) \in SUBSET Label
    BY <1>1 DEF LabelOrNone
  <2> QED
    BY <1>1, <2>1, <2>2, <2>3
<1> QED
  BY <1>2, <1>3

LEMMA ReadActionKeeps ==
  ASSUME IInv, ReadDelete \/ ReadStar \/ ReadMove
  PROVE  IInv'
<1> DEFINE at == reading.at
<1>1. Stored /\ ~Listing
  BY DEF IInv, ReadDelete, ReadStar, ReadMove
<1>2. at \in Msg /\ reading.labels \in SUBSET Label /\ mail[at] \in SUBSET Label
  BY <1>1 DEF Stored, Listing
<1>3. DOMAIN Here = {at} /\ Here[at] = reading.labels
  BY DEF Here
<1>4. CASE ReadDelete
  <2>1. PICK a \in AnswersFor({at}) :
          LET E == DeleteFrom(Here, {at}, a)
          IN  Acted(E, Here, a) /\ Remember(Here, E) /\ (BackToList \/ Stay(E))
    BY <1>4 DEF ReadDelete
  <2> DEFINE E == DeleteFrom(Here, {at}, a)
  <2>2. DOMAIN E = {at} /\ E[at] = Trash(reading.labels, mail[at], a[at])
    BY <1>3 DEF DeleteFrom
  <2>3. Sound(E[at], mail[at], Here[at])
    BY <1>2, <1>3, <2>2, TrashSound
  <2>4. reading.labels \in SUBSET (Label \ {"TRASH"})
    BY <1>2, <1>4, NotTrash DEF ReadDelete
  <2> HIDE DEF E
  <2>5. mail' \in [Msg -> SUBSET Label] /\ row' \in [Msg -> LabelOrNone] /\ StaleIsReported'
    BY <2>1, <2>2, <2>3, ActedKeeps DEF E
  <2>6. DOMAIN last' \subseteq Msg /\ \A m \in DOMAIN last' : last'[m] \in SUBSET (Label \ {"TRASH"})
    BY <1>1, <1>2, <1>3, <2>1, <2>2, <2>4, RememberKeeps DEF E
  <2>7. shown' \in [Msg -> LabelOrNone] /\ reading' \in {NoRow} \cup [at : Msg, labels : SUBSET Label]
    BY <1>1, <2>1, <2>2, <2>3, <2>5, ReaderKeeps DEF Sound, E
  <2> QED
    BY <2>5, <2>6, <2>7 DEF IInv, Stored, LabelOrNone
<1>5. CASE ReadStar
  <2>1. PICK a \in AnswersFor({at}) :
          LET E == StarFrom(Here, {at}, a, "STARRED" \notin reading.labels)
          IN  Acted(E, Here, a) /\ Stay(E)
    BY <1>5 DEF ReadStar
  <2> DEFINE on == "STARRED" \notin reading.labels
             E == StarFrom(Here, {at}, a, on)
  <2>2. DOMAIN E = {at} /\ E[at] = Star(reading.labels, mail[at], a[at], on)
    BY <1>3 DEF StarFrom
  <2>3. Sound(E[at], mail[at], Here[at])
    BY <1>2, <1>3, <2>2, StarSound
  <2> HIDE DEF E
  <2>4. mail' \in [Msg -> SUBSET Label] /\ row' \in [Msg -> LabelOrNone] /\ StaleIsReported'
    BY <2>1, <2>2, <2>3, ActedKeeps DEF E
  <2>5. shown' \in [Msg -> LabelOrNone] /\ reading' \in {NoRow} \cup [at : Msg, labels : SUBSET Label]
    BY <1>1, <2>1, <2>2, <2>3, <2>4, ReaderKeeps DEF Sound, E
  <2>6. UNCHANGED last
    BY <1>5 DEF ReadStar
  <2> QED
    BY <1>1, <2>4, <2>5, <2>6 DEF IInv, Stored, LabelOrNone
<1>6. CASE ReadMove
  <2>1. PICK a \in AnswersFor({at}) :
          LET E == MoveFrom(Here, {at}, a)
          IN  Acted(E, Here, a) /\ (BackToList \/ Stay(E))
    BY <1>6 DEF ReadMove
  <2> DEFINE E == MoveFrom(Here, {at}, a)
  <2>2. DOMAIN E = {at} /\ E[at] = Move(reading.labels, mail[at], a[at])
    BY <1>3 DEF MoveFrom
  <2>3. Sound(E[at], mail[at], Here[at])
    BY <1>2, <1>3, <2>2, MoveSound
  <2> HIDE DEF E
  <2>4. mail' \in [Msg -> SUBSET Label] /\ row' \in [Msg -> LabelOrNone] /\ StaleIsReported'
    BY <2>1, <2>2, <2>3, ActedKeeps DEF E
  <2>5. shown' \in [Msg -> LabelOrNone] /\ reading' \in {NoRow} \cup [at : Msg, labels : SUBSET Label]
    BY <1>1, <2>1, <2>2, <2>3, <2>4, ReaderKeeps DEF Sound, E
  <2>6. UNCHANGED last
    BY <1>6 DEF ReadMove
  <2> QED
    BY <1>1, <2>4, <2>5, <2>6 DEF IInv, Stored, LabelOrNone
<1> QED
  BY <1>4, <1>5, <1>6

-----------------------------------------------------------------------------
LEMMA StepKeeps == IInv /\ [Next]_vars => IInv'
<1> SUFFICES ASSUME IInv, [Next]_vars PROVE IInv'
  OBVIOUS
<1>1. CASE UNCHANGED vars
  BY <1>1 DEF vars, IInv, Stored, StaleIsReported
<1>2. CASE \E m \in Msg : Relabel(m) \/ Cleanup(m) \/ Load(m)
  BY <1>2, OutsideKeeps
<1>3. CASE Refresh
  BY <1>3, RefreshKeeps
<1>4. CASE \E m \in Msg : Open(m) \/ Turn(m)
  BY <1>4, ReadKeeps DEF Open, Turn
<1>5. CASE \/ Redrawn \/ Update \/ Back
           \/ \E f \in Folders, s \in Size : \E p \in 0..LastPage(row, f, s) : Navigate(f, p, s)
           \/ \E sel \in SUBSET (0..Cardinality(Msg) - 1) : Select(sel)
  BY <1>5, LookKeeps
<1>6. CASE Undo
  BY <1>6, UndoKeeps
<1>7. CASE \E T \in SUBSET Msg : Delete(T) \/ StarRows(T) \/ MoveToInbox(T)
  BY <1>7, RowActionKeeps
<1>8. CASE ReadDelete \/ ReadStar \/ ReadMove
  BY <1>8, ReadActionKeeps
<1> QED
  BY <1>1, <1>2, <1>3, <1>4, <1>5, <1>6, <1>7, <1>8 DEF Next

\* The labels the session's stores, screen, read view and undo hold are well
\* typed, and nothing ;u restores was in Trash before the delete (view.ts:471).
THEOREM StoresTyped == Spec => []Stored
<1>1. IInv => Stored
  BY DEF IInv
<1> QED
  BY <1>1, InitHolds, StepKeeps, PTL DEF Spec

\* A row that differs from Gmail is one the next refresh will read again,
\* whatever row actions failed half way or were made from old records; except
\* where a record was put over a newer row and Gmail had nothing to change.
THEOREM StaleRowsAreReported == Spec => []StaleIsReported
<1>1. IInv => StaleIsReported
  BY DEF IInv
<1> QED
  BY <1>1, InitHolds, StepKeeps, PTL DEF Spec

-----------------------------------------------------------------------------
(***************************************************************************)
(* ;u gives back what the delete found.  While a record of the last delete *)
(* is known to have been right and nobody else touched the message, Gmail  *)
(* holds no label the record does not have, but for TRASH: that is so      *)
(* after the delete and after every attempt that failed half way.          *)
(***************************************************************************)
Restorable ==
  \A m \in DOMAIN last : was[m] = NoRow \/ (was[m] = last[m] /\ mail[m] \ {"TRASH"} \subseteq last[m])

\* Nothing is deleted and nothing undone, and what changes in Gmail is forgotten.
LEMMA ForgottenKeeps ==
  ASSUME Stored, Restorable, last' = last, Forget \/ UNCHANGED <<mail, was>>
  PROVE  Restorable'
<1>1. \A m \in DOMAIN last : m \in Msg
  BY DEF Stored
<1>2. \A m \in DOMAIN last : was'[m] = NoRow \/ (was'[m] = was[m] /\ mail'[m] = mail[m])
  <2>1. CASE Forget
    BY <1>1, <2>1 DEF Forget
  <2>2. CASE UNCHANGED <<mail, was>>
    BY <2>2
  <2> QED
    BY <2>1, <2>2
<1> QED
  BY <1>2 DEF Restorable

LEMMA DeleteRestorable ==
  ASSUME Stored, Restorable, NEW C, NEW D \in SUBSET Msg, NEW a,
         Acted(DeleteFrom(C, D, a), C, a), Remember(C, DeleteFrom(C, D, a)),
         \A m \in D : C[m] \in SUBSET Label
  PROVE  Restorable' /\ (last' = NoUndo => last = NoUndo)
<1> DEFINE E == DeleteFrom(C, D, a)
           done == {m \in DOMAIN E : E[m].ok}
<1>1. DOMAIN E = D /\ \A m \in D : E[m] = Trash(C[m], mail[m], a[m])
  BY DEF DeleteFrom
<1>2. mail' = [m \in Msg |-> IF m \in D THEN E[m].mail ELSE mail[m]]
  BY <1>1 DEF Acted
<1>3. /\ last' = IF done = {} THEN last ELSE [m \in done |-> C[m]]
      /\ was' = [m \in Msg |-> IF m \in done /\ mail[m] = C[m] THEN mail[m]
                               ELSE IF done # {} \/ mail'[m] # mail[m] THEN NoRow ELSE was[m]]
  BY DEF Remember
<1>4. ASSUME NEW m \in done PROVE E[m].mail = Trashed(mail[m])
  BY <1>1, <1>4 DEF Trash, Result, Failed
<1>5. done \subseteq Msg
  BY <1>1
<1> HIDE DEF E
<1>6. CASE done = {}
  <2>1. \A m \in DOMAIN last : m \in Msg
    BY DEF Stored
  <2>2. \A m \in DOMAIN last : was'[m] = NoRow \/ (was'[m] = was[m] /\ mail'[m] = mail[m])
    BY <1>3, <1>6, <2>1
  <2> QED
    BY <1>3, <1>6, <2>2 DEF Restorable
<1>7. CASE done # {}
  <2>1. last' = [m \in done |-> C[m]]
    BY <1>3, <1>7
  <2>2. ASSUME NEW m \in done
        PROVE  was'[m] = NoRow \/ (was'[m] = C[m] /\ mail'[m] \ {"TRASH"} \subseteq C[m])
    <3>1. CASE mail[m] = C[m]
      <4>1. was'[m] = C[m]
        BY <1>3, <1>5, <3>1
      <4>2. mail'[m] = Trashed(mail[m])
        BY <1>1, <1>2, <1>4, <1>5
      <4> QED
        BY <3>1, <4>1, <4>2 DEF Trashed
    <3>2. CASE mail[m] # C[m]
      BY <1>3, <1>5, <1>7, <3>2
    <3> QED
      BY <3>1, <3>2
  <2>3. DOMAIN last' = done
    BY <2>1
  <2>4. last' # NoUndo
    BY <1>7, <2>3 DEF NoUndo
  <2> HIDE DEF done
  <2> QED
    BY <2>1, <2>2, <2>3, <2>4 DEF Restorable
<1> QED
  BY <1>6, <1>7

\* What an undo that went through leaves of a message.
Restored(m) == was[m] = NoRow \/ (mail'[m] = was[m] /\ row'[m] = was[m])

LEMMA UndoRestorable ==
  ASSUME Stored, Restorable, Undo
  PROVE  Restorable' /\ (last' = NoUndo => \A m \in DOMAIN last : Restored(m))
<1> DEFINE D == DOMAIN last
           E(a) == [m \in D |-> Untrash(last[m], mail[m], a[m])]
<1>1. PICK a \in AnswersFor(D) :
        /\ Acted(E(a), [m \in D |-> Trashed(last[m])], a)
        /\ last' = IF \A m \in D : E(a)[m].ok THEN NoUndo ELSE last
  BY DEF Undo
<1>2. /\ D # {} /\ was' = [m \in Msg |-> IF last' = NoUndo THEN NoRow ELSE was[m]]
      /\ D \subseteq Msg /\ \A m \in D : last[m] \in SUBSET (Label \ {"TRASH"})
  BY DEF Undo, Stored
<1>3. last # NoUndo
  BY <1>2 DEF NoUndo
<1>4. /\ mail' = [m \in Msg |-> IF m \in D THEN E(a)[m].mail ELSE mail[m]]
      /\ row' = [m \in Msg |-> IF m \in D /\ E(a)[m].row # NoRow THEN E(a)[m].row ELSE row[m]]
  BY <1>1 DEF Acted
<1>5. ASSUME NEW m \in D
      PROVE  /\ mail'[m] = Untrash(last[m], mail[m], a[m]).mail
             /\ E(a)[m].ok = Untrash(last[m], mail[m], a[m]).ok
             /\ row'[m] = IF Untrash(last[m], mail[m], a[m]).row # NoRow
                         THEN Untrash(last[m], mail[m], a[m]).row ELSE row[m]
  BY <1>2, <1>4
<1> HIDE DEF E
<1>6. ASSUME NEW m \in D
      PROVE  mail'[m] \in {mail[m], mail[m] \ {"TRASH"}, (mail[m] \ {"TRASH"}) \cup last[m]}
  BY <1>5 DEF Untrash, Result, Failed
<1>7. ASSUME NEW m \in D, E(a)[m].ok
      PROVE  mail'[m] = (mail[m] \ {"TRASH"}) \cup last[m] /\ row'[m] = last[m]
  <2>1. Untrash(last[m], mail[m], a[m]) = Result((mail[m] \ {"TRASH"}) \cup last[m], last[m], TRUE)
    BY <1>5, <1>7 DEF Untrash, Result, Failed
  <2>2. last[m] # NoRow
    <3>1. last[m] \in SUBSET Label
      BY <1>2
    <3> QED
      BY <3>1, SessionConstants
  <2> QED
    BY <1>5, <2>1, <2>2 DEF Result
<1>8. CASE last' = NoUndo
  <2>1. \A m \in D : E(a)[m].ok
    BY <1>1, <1>3, <1>8
  <2>2. ASSUME NEW m \in D PROVE Restored(m)
    <3>1. was[m] = NoRow \/ (was[m] = last[m] /\ mail[m] \ {"TRASH"} \subseteq last[m])
      BY DEF Restorable
    <3> QED
      BY <1>7, <2>1, <3>1 DEF Restored
  <2> QED
    BY <1>8, <2>2 DEF Restorable, NoUndo
<1>9. CASE last' # NoUndo
  <2>1. last' = last
    BY <1>1, <1>9
  <2>2. ASSUME NEW m \in D
        PROVE  was'[m] = NoRow \/ (was'[m] = last[m] /\ mail'[m] \ {"TRASH"} \subseteq last[m])
    <3>1. was'[m] = was[m]
      BY <1>2, <1>9
    <3>2. mail[m] \ {"TRASH"} \subseteq last[m] => mail'[m] \ {"TRASH"} \subseteq last[m]
      BY <1>2, <1>6
    <3> QED
      BY <3>1, <3>2 DEF Restorable
  <2> QED
    BY <1>9, <2>1, <2>2 DEF Restorable
<1> QED
  BY <1>8, <1>9

\* Only ;u empties the record of the last delete.
LEMMA UndoStep ==
  ASSUME Stored, Restorable, [Next]_vars
  PROVE  /\ Restorable'
         /\ last # NoUndo /\ last' = NoUndo => \A m \in DOMAIN last : Restored(m)
<1>1. CASE UNCHANGED vars
  BY <1>1, ForgottenKeeps DEF vars
<1>2. CASE \E m \in Msg : Relabel(m) \/ Cleanup(m) \/ Load(m) \/ Open(m) \/ Turn(m)
  BY <1>2, ForgottenKeeps DEF Relabel, Cleanup, Load, Open, Turn, Read
<1>3. CASE Refresh \/ Redrawn \/ Update \/ Back
  BY <1>3, ForgottenKeeps DEF Refresh, Refreshed, Redrawn, Update, Back, store
<1>4. CASE \/ \E f \in Folders, s \in Size : \E p \in 0..LastPage(row, f, s) : Navigate(f, p, s)
           \/ \E sel \in SUBSET (0..Cardinality(Msg) - 1) : Select(sel)
  BY <1>4, ForgottenKeeps DEF Navigate, Select, store
<1>5. CASE Undo
  BY <1>5, UndoRestorable
<1>6. CASE \E T \in SUBSET Msg : StarRows(T) \/ MoveToInbox(T)
  BY <1>6, ForgottenKeeps DEF StarRows, MoveToInbox
<1>7. CASE ReadStar \/ ReadMove
  BY <1>7, ForgottenKeeps DEF ReadStar, ReadMove
<1>8. CASE \E T \in SUBSET Msg : Delete(T)
  <2>1. PICK T \in SUBSET Msg : Delete(T)
    BY <1>8
  <2>2. PICK a : /\ Acted(DeleteFrom(shown, Deletable(T), a), shown, a)
                 /\ Remember(shown, DeleteFrom(shown, Deletable(T), a))
    BY <2>1 DEF Delete
  <2>3. Deletable(T) \in SUBSET Msg /\ \A m \in Deletable(T) : shown[m] \in SUBSET Label
    BY <2>1, DrawnAreRows DEF Delete, Asked, Deletable
  <2> QED
    BY <2>2, <2>3, DeleteRestorable
<1>9. CASE ReadDelete
  <2>1. PICK a : /\ Acted(DeleteFrom(Here, {reading.at}, a), Here, a)
                 /\ Remember(Here, DeleteFrom(Here, {reading.at}, a))
    BY <1>9 DEF ReadDelete
  <2>2. reading \in [at : Msg, labels : SUBSET Label]
    BY <1>9 DEF ReadDelete, Listing, Stored
  <2>3. {reading.at} \in SUBSET Msg /\ \A m \in {reading.at} : Here[m] \in SUBSET Label
    BY <2>2 DEF Here
  <2> QED
    BY <2>1, <2>3, DeleteRestorable
<1> QED
  BY <1>1, <1>2, <1>3, <1>4, <1>5, <1>6, <1>7, <1>8, <1>9 DEF Next

\* An undo that reports no failure gives back what the delete found, whatever failed in
\* the attempts before; unless the record was out of date or someone else changed the
\* message since (view.ts:781).
THEOREM UndoGivesBack == Spec => UndoRestores
<1>1. Init => IInv /\ Restorable
  <2>1. Init => Restorable
    BY DEF Init, Restorable, NoUndo
  <2> QED
    BY <2>1, InitHolds
<1>2. IInv /\ Restorable /\ [Next]_vars => (IInv /\ Restorable)'
  <2>1. IInv => Stored
    BY DEF IInv
  <2> QED
    BY <2>1, StepKeeps, UndoStep
<1>3. IInv /\ Restorable /\ [Next]_vars =>
        [last # NoUndo /\ last' = NoUndo =>
          \A m \in DOMAIN last : was[m] = NoRow \/ (mail'[m] = was[m] /\ row'[m] = was[m])]_vars
  <2>1. IInv => Stored
    BY DEF IInv
  <2> QED
    BY <2>1, UndoStep DEF Restored
<1> QED
  BY <1>1, <1>2, <1>3, PTL DEF Spec, UndoRestores

-----------------------------------------------------------------------------
(***************************************************************************)
(* A selected row stands for the message it was selected for.  A page is   *)
(* full of places: the newest message on it has the first one, and the     *)
(* place of any other on the page is the number of newer messages there.   *)
(* So as long as the page shows the same messages each is in its old row.  *)
(***************************************************************************)
LEMMA PlaceType ==
  ASSUME NEW R \in SUBSET Msg, NEW m
  PROVE  /\ Place(R, m) \in Nat /\ IsFiniteSet({x \in R : x > m})
         /\ R \subseteq Nat /\ IsFiniteSet(R)
<1>1. IsFiniteSet(R) /\ R \subseteq Nat
  BY SessionConstants, FS_Subset
<1>2. {x \in R : x > m} \in SUBSET R
  OBVIOUS
<1>3. IsFiniteSet({x \in R : x > m})
  BY <1>1, <1>2, FS_Subset
<1> QED
  BY <1>1, <1>3, FS_CardinalityType DEF Place

\* The newer of two messages comes first.
LEMMA NewerFirst ==
  ASSUME NEW R \in SUBSET Msg, NEW m \in R, NEW x \in R, x > m
  PROVE  Place(R, x) < Place(R, m)
<1> DEFINE S == {z \in R : z > m}
           T == {z \in R : z > x}
<1>1. IsFiniteSet(S) /\ IsFiniteSet(T) /\ m \in Nat /\ x \in Nat /\ R \subseteq Nat
  BY PlaceType
<1>2. T \in SUBSET S /\ T # S
  <2>1. ASSUME NEW z \in T PROVE z \in S
    <3>1. z \in Nat /\ z > x /\ z \in R
      BY <1>1
    <3>2. z > m
      BY <1>1, <3>1
    <3> QED
      BY <3>1, <3>2
  <2>2. x \in S /\ x \notin T
    BY <1>1
  <2> QED
    BY <2>1, <2>2
<1> HIDE DEF S, T
<1>3. Cardinality(T) <= Cardinality(S) /\ Cardinality(T) # Cardinality(S)
  BY <1>1, <1>2, FS_Subset
<1>4. Cardinality(T) \in Nat /\ Cardinality(S) \in Nat
  BY <1>1, FS_CardinalityType
<1>5. Cardinality(T) < Cardinality(S)
  BY <1>3, <1>4
<1> QED
  BY <1>5 DEF Place, S, T

\* Every message but the newest has another in the place before it.
LEMMA PlaceBefore ==
  ASSUME NEW R \in SUBSET Msg, NEW m \in R, Place(R, m) # 0
  PROVE  \E z \in R : z > m /\ Place(R, z) = Place(R, m) - 1
<1> DEFINE S == {x \in R : x > m}
<1>1. IsFiniteSet(S) /\ S \in SUBSET Nat /\ m \in Nat /\ R \subseteq Nat
  BY PlaceType
<1>2. S # {}
  BY FS_EmptySet DEF Place
<1>3. PICK z \in S : \A y \in S : z <= y
  <2> HIDE DEF S
  <2> QED
    BY <1>1, <1>2, LeastExists
<1> DEFINE T == {x \in R : x > z}
<1>4. S = T \cup {z} /\ z \notin T /\ z \in R
  <2>1. z \in Nat /\ z > m /\ z \in R
    BY <1>1, <1>3
  <2>2. ASSUME NEW x \in R PROVE x \in S <=> x \in T \cup {z}
    <3>1. x \in Nat
      BY <1>1
    <3>2. x > z => x > m
      BY <1>1, <2>1, <3>1
    <3>3. x > m => x > z \/ x = z
      BY <1>3, <2>1, <3>1
    <3> QED
      BY <2>1, <3>2, <3>3
  <2>3. z \notin T
    BY <2>1
  <2> QED
    BY <2>1, <2>2, <2>3
<1>5. IsFiniteSet(T) /\ Cardinality(T) \in Nat
  BY PlaceType DEF Place
<1> HIDE DEF S, T
<1>6. Cardinality(S) = Cardinality(T) + 1
  BY <1>4, <1>5, FS_AddElement
<1>7. Cardinality(T) = Cardinality(S) - 1
  BY <1>5, <1>6
<1>8. z > m
  BY <1>3 DEF S
<1> QED
  BY <1>4, <1>7, <1>8 DEF Place, S, T

\* The messages of R on page p, in pages of s.
OnPage(R, p, s) == {m \in R : Place(R, m) \div s = p}

\* The newest message of a page has the page's first place.
LEMMA HeadOfPage ==
  ASSUME NEW R \in SUBSET Msg, NEW s \in Nat \ {0}, NEW p, OnPage(R, p, s) # {}
  PROVE  \E y \in OnPage(R, p, s) : Place(R, y) % s = 0 /\ \A x \in OnPage(R, p, s) : Place(R, y) <= Place(R, x)
<1> DEFINE I == OnPage(R, p, s)
           P == {k \in Nat : \E x \in I : k = Place(R, x)}
<1>1. I \subseteq R /\ \A x \in I : Place(R, x) \in P /\ Place(R, x) \in Nat
  BY PlaceType DEF OnPage
<1>2. PICK k \in P : \A n \in P : k <= n
  <2>1. P \in SUBSET Nat /\ P # {}
    BY <1>1
  <2> HIDE DEF P
  <2> QED
    BY <2>1, LeastExists
<1>3. PICK y \in I : k = Place(R, y)
  BY <1>2
<1>4. \A x \in I : Place(R, y) <= Place(R, x)
  BY <1>1, <1>2, <1>3
<1>5. Place(R, y) % s = 0
  <2> SUFFICES ASSUME Place(R, y) % s # 0 PROVE FALSE
    OBVIOUS
  <2>1. Place(R, y) \in Nat /\ Place(R, y) # 0
    BY <1>1
  <2>2. PICK z \in R : Place(R, z) = Place(R, y) - 1
    BY <1>1, <2>1, PlaceBefore
  <2>3. (Place(R, y) - 1) \div s = Place(R, y) \div s
    BY <2>1
  <2>4. z \in I
    BY <2>2, <2>3 DEF OnPage
  <2> HIDE DEF I
  <2>5. Place(R, y) <= Place(R, y) - 1
    BY <1>4, <2>2, <2>4
  <2> QED
    BY <2>1, <2>5
<1> QED
  BY <1>3, <1>4, <1>5

\* Division keeps the order.
LEMMA DivisionIsMonotone ==
  ASSUME NEW a \in Nat, NEW b \in Nat, NEW s \in Nat \ {0}, a <= b
  PROVE  a \div s <= b \div s
OBVIOUS

LEMMA SamePageOffset ==
  ASSUME NEW a \in Nat, NEW d \in Nat, NEW s \in Nat \ {0}, a % s = 0, (a + d) \div s = a \div s
  PROVE  (a + d) % s = d
OBVIOUS

\* Messages of R above m up to y, where y comes before m.
LEMMA PlacesBetween ==
  ASSUME NEW R \in SUBSET Msg, NEW m \in R, NEW y \in R, y >= m
  PROVE  LET B == {x \in R : x > m /\ x <= y}
         IN  IsFiniteSet(B) /\ Place(R, m) = Place(R, y) + Cardinality(B)
<1> DEFINE B == {x \in R : x > m /\ x <= y}
           T == {x \in R : x > y}
           S == {x \in R : x > m}
<1>1. IsFiniteSet(S) /\ IsFiniteSet(T) /\ m \in Nat /\ y \in Nat /\ R \subseteq Nat
  BY PlaceType
<1>2. S = T \cup B /\ T \cap B = {}
  <2>1. ASSUME NEW x \in R
        PROVE  /\ x \in S <=> x \in T \cup B
               /\ ~(x \in T /\ x \in B)
    <3>1. x \in Nat
      BY <1>1
    <3>2. x > y => x > m
      BY <1>1, <3>1
    <3>3. x > m => x > y \/ x <= y
      BY <1>1, <3>1
    <3>4. ~(x > y /\ x <= y)
      BY <1>1, <3>1
    <3> QED
      BY <3>2, <3>3, <3>4
  <2> QED
    BY <2>1
<1> HIDE DEF S, T, B
<1>3. B \in SUBSET S
  BY <1>2
<1>4. IsFiniteSet(B)
  BY <1>1, <1>3, FS_Subset
<1>5. Cardinality(T \cap B) = 0
  BY <1>2, FS_EmptySet
<1>6. Cardinality(S) = Cardinality(T) + Cardinality(B) - Cardinality(T \cap B)
  BY <1>1, <1>2, <1>4, FS_Union
<1>7. Cardinality(T) \in Nat /\ Cardinality(B) \in Nat
  BY <1>1, <1>4, FS_CardinalityType
<1>8. Cardinality(S) = Cardinality(T) + Cardinality(B)
  BY <1>5, <1>6, <1>7
<1> QED
  BY <1>4, <1>8 DEF Place, S, T, B

\* A message's place on the page is the number of newer messages on the page.
LEMMA PlaceOnPage ==
  ASSUME NEW R \in SUBSET Msg, NEW s \in Nat \ {0}, NEW p, NEW m \in OnPage(R, p, s)
  PROVE  Place(R, m) % s = Cardinality({x \in OnPage(R, p, s) : x > m})
<1> DEFINE I == OnPage(R, p, s)
<1>1. PICK y \in I : Place(R, y) % s = 0 /\ \A x \in I : Place(R, y) <= Place(R, x)
  BY HeadOfPage
<1>2. m \in R /\ y \in R /\ R \subseteq Nat /\ I \subseteq R /\ m \in Nat /\ y \in Nat
  BY PlaceType DEF OnPage
<1>3. ASSUME NEW x \in I PROVE x <= y
  <2>1. x \in R /\ x \in Nat /\ Place(R, x) \in Nat /\ Place(R, y) \in Nat
    BY <1>2, PlaceType
  <2>2. x > y => Place(R, x) < Place(R, y)
    BY <1>2, <2>1, NewerFirst
  <2> HIDE DEF I
  <2>3. Place(R, y) <= Place(R, x)
    BY <1>1
  <2> QED
    BY <1>2, <2>1, <2>2, <2>3
<1> DEFINE B == {x \in R : x > m /\ x <= y}
<1>4. IsFiniteSet(B) /\ Place(R, m) = Place(R, y) + Cardinality(B)
  <2>1. y >= m
    BY <1>2, <1>3
  <2> QED
    BY <1>2, <2>1, PlacesBetween
<1>5. Cardinality(B) \in Nat /\ Place(R, y) \in Nat /\ Place(R, m) \in Nat
  <2> HIDE DEF B
  <2> QED
    BY <1>2, <1>4, PlaceType, FS_CardinalityType
<1>6. Place(R, y) \div s = p /\ Place(R, m) \div s = p
  BY DEF OnPage
<1>7. Place(R, m) % s = Cardinality(B)
  <2> HIDE DEF B, I
  <2> DEFINE a == Place(R, y)
             d == Cardinality(B)
  <2>1. a \in Nat /\ d \in Nat /\ a % s = 0 /\ (a + d) \div s = a \div s
    BY <1>1, <1>4, <1>5, <1>6
  <2> HIDE DEF a, d
  <2>2. (a + d) % s = d
    BY <2>1, SamePageOffset
  <2> QED
    BY <1>4, <2>2 DEF a, d
<1>8. B = {x \in I : x > m}
  <2>1. ASSUME NEW x \in R, x > m, x <= y PROVE x \in I
    <3>1. x \in Nat /\ Place(R, x) \in Nat
      BY <1>2, PlaceType
    <3>2. Place(R, x) < Place(R, m)
      BY <1>2, <2>1, NewerFirst
    <3>3. x = y \/ Place(R, y) < Place(R, x)
      <4>1. x = y \/ y > x
        BY <1>2, <2>1, <3>1
      <4> QED
        BY <1>2, <4>1, NewerFirst
    <3>4. x = y \/ Place(R, x) \div s = p
      <4> SUFFICES ASSUME x # y PROVE Place(R, x) \div s = p
        OBVIOUS
      <4> DEFINE k == Place(R, x)
      <4>1. k \in Nat /\ Place(R, y) <= k /\ k <= Place(R, m)
        BY <1>5, <3>1, <3>2, <3>3
      <4> HIDE DEF k
      <4>2. Place(R, y) \div s <= k \div s /\ k \div s <= Place(R, m) \div s
        BY <1>5, <4>1, DivisionIsMonotone
      <4>3. k \div s \in Nat /\ p \in Nat
        BY <1>5, <1>6, <4>1
      <4>4. k \div s = p
        BY <1>6, <4>2, <4>3
      <4> QED
        BY <4>4 DEF k
    <3> QED
      BY <3>4 DEF OnPage
  <2> QED
    BY <1>2, <1>3, <2>1
<1> QED
  BY <1>7, <1>8

-----------------------------------------------------------------------------
\* The page, as OnPage has it.
LEMMA ItemsOnPage ==
  ASSUME NEW rows, NEW f, NEW p, NEW s
  PROVE  /\ Rows(rows, f) \in SUBSET Msg
         /\ Items(rows, f, p, s) = OnPage(Rows(rows, f), p, s)
  BY DEF Rows, Items, OnPage

LEMMA LastPageType ==
  ASSUME NEW rows, NEW f, NEW s \in Nat \ {0}
  PROVE  LastPage(rows, f, s) \in Nat
<1> DEFINE n == Cardinality(Rows(rows, f))
<1>1. n \in Nat
  BY ItemsOnPage, PlaceType, FS_CardinalityType
<1> HIDE DEF n
<1>2. n # 0 => (n - 1) \div s \in Nat
  <2> SUFFICES ASSUME n # 0 PROVE (n - 1) \div s \in Nat
    OBVIOUS
  <2>1. n - 1 \in Nat
    BY <1>1
  <2> QED
    BY <2>1
<1>3. LastPage(rows, f, s) = IF n = 0 THEN 0 ELSE (n - 1) \div s
  BY DEF LastPage, n
<1> QED
  BY <1>2, <1>3

\* No message is on a page behind the last.
LEMMA NothingBehind ==
  ASSUME NEW rows, NEW f, NEW s \in Nat \ {0}, NEW p \in Nat, p > LastPage(rows, f, s)
  PROVE  Items(rows, f, p, s) = {}
<1> DEFINE R == Rows(rows, f)
           n == Cardinality(R)
<1> SUFFICES ASSUME NEW m \in R, Place(R, m) \div s = p PROVE FALSE
  BY DEF Items
<1>1. R \in SUBSET Msg /\ IsFiniteSet(R) /\ m \in Nat /\ Place(R, m) \in Nat
  BY ItemsOnPage, PlaceType
<1> DEFINE S == {x \in R : x > m}
<1>2. Cardinality(S) <= n /\ Cardinality(S) # n
  <2>1. S \in SUBSET R /\ m \notin S
    BY <1>1
  <2>2. S # R
    BY <2>1
  <2> HIDE DEF S, R
  <2> QED
    BY <1>1, <2>1, <2>2, FS_Subset
<1>3. n \in Nat
  BY <1>1, FS_CardinalityType
<1>4. Place(R, m) <= n /\ Place(R, m) # n
  BY <1>2 DEF Place
<1>5. LastPage(rows, f, s) = IF n = 0 THEN 0 ELSE (n - 1) \div s
  BY DEF LastPage
<1> DEFINE k == Place(R, m)
<1>6. k \in Nat /\ k <= n /\ k # n /\ k \div s = p
  BY <1>1, <1>4
<1> HIDE DEF k, n
<1>7. n # 0 /\ n - 1 \in Nat /\ k <= n - 1
  BY <1>3, <1>6
<1>8. k \div s <= (n - 1) \div s
  BY <1>6, <1>7, DivisionIsMonotone
<1>9. (n - 1) \div s \in Nat
  BY <1>7
<1> QED
  BY <1>5, <1>6, <1>7, <1>8, <1>9

-----------------------------------------------------------------------------
\* The page and its size are numbers, and the selection is of rows of the page.
SelectionInv ==
  /\ size \in Nat \ {0} /\ page \in Nat
  /\ selection \in SUBSET Nat /\ \A i \in selection : i < Cardinality(Drawn)
  /\ SelectionIsMeant

\* A redraw that shows the same messages shows each in its row.
LEMMA SamePage ==
  ASSUME NEW sel \in SUBSET Nat, \A i \in sel : i < Cardinality(Drawn),
         size \in Nat \ {0}, page \in Nat,
         Draw(folder, page, size, sel), Unmoved
  PROVE  RowsAt(selection)' \subseteq RowsAt(sel)
<1> DEFINE R == Rows(shown, folder)
           Q == Rows(row', folder)
<1>1. /\ shown' = row' /\ folder' = folder /\ size' = size
      /\ selection' \in SUBSET sel
  BY DEF Draw
<1>2. CASE page > LastPage(row', folder, size)
  <2>1. Drawn = {}
    BY <1>2, NothingBehind DEF Unmoved
  <2>2. sel = {}
    <3>1. Cardinality(Drawn) = 0
      BY <2>1, FS_EmptySet
    <3> QED
      BY <3>1
  <2>3. selection' = {}
    BY <1>1, <2>2
  <2> QED
    BY <2>3 DEF RowsAt
<1>3. CASE ~(page > LastPage(row', folder, size))
  <2>1. page' = page
    BY <1>3 DEF Draw
  <2>2. Items(row', folder, page, size) = Drawn
    BY DEF Unmoved
  <2>3. Drawn' = Items(row', folder, page, size)
    BY <1>1, <2>1 DEF Drawn
  <2>4. OnPage(Q, page, size) = OnPage(R, page, size)
    BY <2>2, ItemsOnPage DEF Drawn
  <2>5. ASSUME NEW m \in OnPage(R, page, size)
        PROVE  Place(Q, m) % size = Place(R, m) % size
    <3>1. Q \in SUBSET Msg /\ R \in SUBSET Msg
      BY ItemsOnPage
    <3> HIDE DEF Q, R
    <3>2. Place(R, m) % size = Cardinality({x \in OnPage(R, page, size) : x > m})
      BY <3>1, PlaceOnPage
    <3>3. Place(Q, m) % size = Cardinality({x \in OnPage(Q, page, size) : x > m})
      BY <2>4, <3>1, PlaceOnPage
    <3> QED
      BY <2>4, <3>2, <3>3
  <2>6. Drawn = OnPage(R, page, size)
    BY ItemsOnPage DEF Drawn
  <2>7. RowsAt(selection)' = {m \in Drawn' : Place(Q, m) % size \in selection'}
    BY <1>1 DEF RowsAt
  <2> QED
    BY <1>1, <2>2, <2>3, <2>5, <2>6, <2>7 DEF RowsAt
<1> QED
  BY <1>2, <1>3

\* Every redraw leaves numbers, and a selection of rows of the page.
LEMMA DrawTypes ==
  ASSUME NEW f, NEW p \in Nat, NEW s \in Nat \ {0}, NEW sel \in SUBSET Nat, Draw(f, p, s, sel)
  PROVE  /\ size' \in Nat \ {0} /\ page' \in Nat
         /\ selection' \in SUBSET Nat /\ \A i \in selection' : i < Cardinality(Drawn')
<1>1. size' = s /\ shown' = row' /\ folder' = f
  BY DEF Draw
<1>2. page' \in Nat
  BY LastPageType DEF Draw
<1>3. selection' = {i \in sel : i < Cardinality(Items(row', f, page', s))}
  BY DEF Draw
<1>4. Drawn' = Items(row', f, page', s)
  BY <1>1 DEF Drawn
<1> QED
  BY <1>1, <1>2, <1>3, <1>4

\* A redraw without a selection.
LEMMA Deselected ==
  ASSUME NEW f, NEW p \in Nat, NEW s \in Nat \ {0}, Redraw(f, p, s, {})
  PROVE  SelectionInv'
<1>1. Draw(f, p, s, {})
  BY DEF Redraw
<1>2. selection' = {}
  BY <1>1 DEF Draw
<1>3. RowsAt(selection)' = {}
  BY <1>2 DEF RowsAt
<1> QED
  BY <1>1, <1>3, DrawTypes DEF SelectionInv, SelectionIsMeant

\* A redraw that keeps the selection as far as the page goes.
LEMMA SelectionKept ==
  ASSUME SelectionInv, Redraw(folder, page, size, selection)
  PROVE  SelectionInv'
<1>1. Draw(folder, page, size, selection)
  BY DEF Redraw
<1>2. SelectionIsMeant'
  <2>1. CASE selection' = {}
    <3>1. RowsAt(selection)' = {}
      BY <2>1 DEF RowsAt
    <3> QED
      BY <3>1 DEF SelectionIsMeant
  <2>2. CASE selection' # {}
    <3> SUFFICES ASSUME steady' PROVE RowsAt(selection)' \subseteq meant'
      BY DEF SelectionIsMeant
    <3>1. meant' = meant /\ steady /\ Unmoved
      BY <2>2 DEF Redraw
    <3>2. RowsAt(selection) \subseteq meant
      BY <3>1 DEF SelectionInv, SelectionIsMeant
    <3>3. RowsAt(selection)' \subseteq RowsAt(selection)
      BY <1>1, <3>1, SamePage DEF SelectionInv
    <3> QED
      BY <3>1, <3>2, <3>3
  <2> QED
    BY <2>1, <2>2
<1> QED
  BY <1>1, <1>2, DrawTypes DEF SelectionInv

\* A new selection.
LEMMA SelectedAnew ==
  ASSUME SelectionInv, NEW sel \in SUBSET Nat, Select(sel)
  PROVE  SelectionInv'
<1>1. Draw(folder, page, size, sel)
  BY DEF Select
<1>2. \A i \in sel : i < Cardinality(Drawn)
  <2>1. Cardinality(Drawn) \in Nat
    <3>1. Drawn \in SUBSET Msg
      BY ItemsOnPage DEF Drawn, OnPage
    <3> QED
      BY <3>1, PlaceType, FS_CardinalityType
  <2>2. sel \subseteq 0..Cardinality(Drawn) - 1
    BY DEF Select
  <2> QED
    BY <2>1, <2>2
<1>3. SelectionIsMeant'
  <2>1. CASE selection' = {}
    <3>1. RowsAt(selection)' = {}
      BY <2>1 DEF RowsAt
    <3> QED
      BY <3>1 DEF SelectionIsMeant
  <2>2. CASE selection' # {}
    <3> SUFFICES ASSUME steady' PROVE RowsAt(selection)' \subseteq meant'
      BY DEF SelectionIsMeant
    <3>1. meant' = RowsAt(sel) /\ Unmoved
      BY <2>2 DEF Select
    <3>2. RowsAt(selection)' \subseteq RowsAt(sel)
      BY <1>1, <1>2, <3>1, SamePage DEF SelectionInv
    <3> QED
      BY <3>1, <3>2
  <2> QED
    BY <2>1, <2>2
<1> QED
  BY <1>1, <1>3, DrawTypes DEF SelectionInv

\* Whatever leaves the screen alone.
LEMMA ScreenKept ==
  ASSUME SelectionInv, UNCHANGED screen
  PROVE  SelectionInv'
<1>1. Drawn' = Drawn /\ RowsAt(selection)' = RowsAt(selection)
  BY DEF screen, Drawn, RowsAt
<1> QED
  BY <1>1 DEF SelectionInv, SelectionIsMeant, screen

LEMMA SelectionStep ==
  ASSUME SelectionInv, [Next]_vars
  PROVE  SelectionInv'
<1> USE DEF SelectionInv
<1>1. CASE UNCHANGED vars
  BY <1>1, ScreenKept DEF vars, screen
<1>2. CASE \E m \in Msg : Relabel(m) \/ Cleanup(m) \/ Load(m) \/ Open(m) \/ Turn(m)
  BY <1>2, ScreenKept DEF Relabel, Cleanup, Load, Open, Turn, Read
<1>3. CASE Refresh
  BY <1>3, ScreenKept DEF Refresh
<1>4. CASE Redrawn
  BY <1>4, SelectionKept DEF Redrawn
<1>5. CASE Update
  <2>1. CASE page = 0
    BY <1>5, <2>1, SelectionKept DEF Update
  <2>2. CASE page # 0
    BY <1>5, <2>2, Deselected DEF Update
  <2> QED
    BY <2>1, <2>2
<1>6. CASE Undo
  BY <1>6, SelectionKept DEF Undo
<1>7. ASSUME BackToList PROVE SelectionInv'
  BY <1>7, SelectionKept, Deselected DEF BackToList
<1>8. CASE Back
  BY <1>7, <1>8 DEF Back
<1>9. CASE ReadDelete
  BY <1>7, <1>9, ScreenKept DEF ReadDelete, Stay
<1>10. CASE ReadStar
  BY <1>10, ScreenKept DEF ReadStar, Stay
<1>11. CASE ReadMove
  BY <1>7, <1>11, ScreenKept DEF ReadMove, Stay
<1>12. CASE \E f \in Folders, s \in Size : \E p \in 0..LastPage(row, f, s) : Navigate(f, p, s)
  <2>1. PICK f \in Folders, s \in Size : \E p \in 0..LastPage(row, f, s) : Navigate(f, p, s)
    BY <1>12
  <2>2. s \in Nat \ {0}
    BY SessionConstants
  <2>3. PICK p \in 0..LastPage(row, f, s) : Navigate(f, p, s)
    BY <2>1
  <2>4. p \in Nat
    BY <2>2, LastPageType
  <2> QED
    BY <2>2, <2>3, <2>4, Deselected DEF Navigate
<1>13. CASE \E sel \in SUBSET (0..Cardinality(Msg) - 1) : Select(sel)
  <2>1. Cardinality(Msg) \in Nat
    BY SessionConstants, FS_CardinalityType
  <2>2. PICK sel \in SUBSET (0..Cardinality(Msg) - 1) : Select(sel)
    BY <1>13
  <2>3. sel \in SUBSET Nat
    BY <2>1
  <2> QED
    BY <2>2, <2>3, SelectedAnew
<1>14. CASE \E T \in SUBSET Msg : Delete(T) \/ StarRows(T) \/ MoveToInbox(T)
  BY <1>14, Deselected DEF Delete, StarRows, MoveToInbox
<1> QED
  BY <1>1, <1>2, <1>3, <1>4, <1>5, <1>6, <1>8, <1>9, <1>10, <1>11, <1>12, <1>13, <1>14 DEF Next

\* As long as no row comes into the page or leaves it, an action without rows is for
\* messages the user selected (view.ts:282, view.ts:355).
THEOREM ActsOnWhatWasMeant == Spec => []SelectionIsMeant
<1>1. Init => SelectionInv
  <2> SUFFICES ASSUME Init PROVE SelectionInv
    OBVIOUS
  <2>1. selection = {} /\ page = 0 /\ size \in Size
    BY DEF Init
  <2>2. size \in Nat \ {0}
    BY <2>1, SessionConstants
  <2>3. RowsAt(selection) = {}
    BY <2>1 DEF RowsAt
  <2> QED
    BY <2>1, <2>2, <2>3 DEF SelectionInv, SelectionIsMeant
<1>2. SelectionInv /\ [Next]_vars => SelectionInv'
  BY SelectionStep
<1>3. SelectionInv => SelectionIsMeant
  BY DEF SelectionInv
<1> QED
  BY <1>1, <1>2, <1>3, PTL DEF Spec

-----------------------------------------------------------------------------
(***************************************************************************)
(* The background loader: the folder it turns to.                          *)
(***************************************************************************)
Turns == Seq(Operations \cup {"action"})

LEMMA OrderFacts ==
  /\ Order \in Seq(Folder) /\ Len(Order) \in Nat \ {0} /\ DOMAIN Order = 1..Len(Order)
  /\ Order[1] \in Folder /\ NoFolder \notin Folder
  /\ \A k \in 1..Len(Order) : Order[k] \in Folder
  /\ \A f \in Folder : \E k \in 1..Len(Order) : f = Order[k]
<1>1. Order \in Seq(Folder) /\ Order # <<>> /\ NoFolder \notin Folder
  BY PagesAssumption
<1>2. Len(Order) \in Nat \ {0} /\ DOMAIN Order = 1..Len(Order)
  BY <1>1
<1> QED BY <1>1, <1>2 DEF Folder, Range

\* Turning by any number of places passes each place.
LEMMA Turning ==
  ASSUME NEW n \in Nat \ {0}, NEW i \in 1..n, NEW p \in 1..n
  PROVE  \E k \in 1..n : ((i + k - 2) % n) + 1 = p
<1>1. \A a \in 0..(n - 1) : a % n = a /\ (a + n) % n = a
  OBVIOUS
<1>2. CASE i <= p
  <2>1. p - i + 1 \in 1..n /\ i + (p - i + 1) - 2 = p - 1 /\ p - 1 \in 0..(n - 1)
    BY <1>2
  <2>2. ((i + (p - i + 1) - 2) % n) + 1 = p
    BY <1>1, <2>1
  <2> QED BY <2>1, <2>2
<1>3. CASE i > p
  <2>1. p - i + 1 + n \in 1..n /\ i + (p - i + 1 + n) - 2 = (p - 1) + n /\ p - 1 \in 0..(n - 1)
    BY <1>3
  <2>2. ((i + (p - i + 1 + n) - 2) % n) + 1 = p
    BY <1>1, <2>1
  <2> QED BY <2>1, <2>2
<1> QED BY <1>2, <1>3

LEMMA FirstFromFacts ==
  ASSUME NEW i \in 1..Len(Order), NEW S \in SUBSET Folder, S # {}
  PROVE  FirstFrom(i, S) \in S
<1> DEFINE At(k) == Order[((i + k - 2) % Len(Order)) + 1]
           T == {k \in 1..Len(Order) : At(k) \in S}
           First(k) == At(k) \in S /\ \A j \in 1..(k - 1) : At(j) \notin S
<1>1. T # {}
  <2>1. PICK f \in S, p \in 1..Len(Order) : f = Order[p]
    BY OrderFacts
  <2>2. PICK k \in 1..Len(Order) : ((i + k - 2) % Len(Order)) + 1 = p
    BY OrderFacts, Turning
  <2> QED BY <2>1, <2>2
<1>2. T \in SUBSET Nat
  BY OrderFacts
<1>3. PICK k \in T : \A j \in T : k <= j
  <2> HIDE DEF T
  <2> QED BY <1>1, <1>2, LeastExists
<1>4. k \in DOMAIN Order /\ First(k)
  <2>1. k \in 1..Len(Order) /\ Len(Order) \in Nat /\ At(k) \in S
    BY OrderFacts
  <2>2. ASSUME NEW j \in 1..(k - 1) PROVE At(j) \notin S
    <3>1. j \in 1..Len(Order) /\ ~(k <= j)
      BY <2>1
    <3>2. j \notin T
      BY <1>3, <3>1
    <3> HIDE DEF At
    <3> QED BY <3>1, <3>2
  <2> QED BY <2>1, <2>2, OrderFacts
<1>5. FirstFrom(i, S) = At(CHOOSE m \in DOMAIN Order : First(m))
  BY DEF FirstFrom
<1> HIDE DEF First
<1>6. First(CHOOSE m \in DOMAIN Order : First(m))
  BY <1>4
<1> QED BY <1>5, <1>6 DEF First

LEMMA NextFolderFacts ==
  ASSUME TypeOK
  PROVE  /\ NextFolder \in Folder \cup {NoFolder}
         /\ NextFolder # NoFolder => Loadable(NextFolder)
<1> DEFINE rest == {f \in Folder : background /\ Loadable(f)}
<1>1. priority \in Folder /\ rr \in 1..Len(Order) /\ 1 \in 1..Len(Order)
  BY OrderFacts DEF TypeOK
<1>2. Demanded \in SUBSET Folder /\ rest \in SUBSET Folder
  BY DEF Demanded
<1>3. Demanded # {} => FirstFrom(1, Demanded) \in Demanded
  BY <1>1, <1>2, FirstFromFacts
<1>4. rest # {} => FirstFrom(rr, rest) \in rest
  <2> HIDE DEF rest
  <2> QED BY <1>1, <1>2, FirstFromFacts
<1>5. \A f \in Demanded \cup rest : f \in Folder /\ Loadable(f)
  BY DEF Demanded, NeedsDemand
<1>6. NextFolder = IF priority \in Demanded THEN priority
                   ELSE IF Demanded # {} THEN FirstFrom(1, Demanded)
                   ELSE IF rest # {} THEN FirstFrom(rr, rest)
                   ELSE NoFolder
  BY DEF NextFolder
<1> HIDE DEF rest
<1> QED BY <1>3, <1>4, <1>5, <1>6

\* The place of the round robin after any folder.
LEMMA NextPlace ==
  ASSUME NEW g
  PROVE  PlaceAfter(g) \in DOMAIN Order
<1> DEFINE I == {i \in 1..Len(Order) : Order[i] = g}
           k == SelectInSeq(Order, LAMBDA f : f = g)
<1>1. k = IF I # {} THEN Min(I) ELSE 0
  BY DEF SelectInSeq
<1>2. I \in SUBSET Nat
  BY OrderFacts
<1>3. I # {} => Min(I) \in I
  <2> HIDE DEF I
  <2> QED BY <1>2, LeastExists DEF Min
<1>4. k \in Nat
  BY <1>1, <1>2, <1>3
<1> HIDE DEF k
<1>5. \A n \in Nat \ {0} : (k % n) + 1 \in 1..n
  BY <1>4
<1> QED BY <1>5, OrderFacts DEF k, PlaceAfter

-----------------------------------------------------------------------------
(* Its types.                                                              *)

\* A folder with a page, and a demand for whoever waits.
Ready ==
  /\ TypeOK /\ Certified
  /\ \A c \in Caller : want[c].rows <= target[want[c].folder]

LEMMA RecountType ==
  ASSUME cached \in [Folder -> Nat], NEW g, NEW l, Recount(g, l)
  PROVE  cached' \in [Folder -> Nat]
<1>1. \A f \in Folder : (IF f = g /\ f # l /\ cached[f] < MaxRows THEN cached[f] + 1
                         ELSE IF f = l /\ f # g /\ cached[f] > 0 THEN cached[f] - 1
                         ELSE cached[f]) \in Nat
  OBVIOUS
<1> QED BY <1>1 DEF Recount

LEMMA FailTypes ==
  ASSUME TypeOK, Fail
  PROVE  /\ fatal' = TRUE /\ blocked' \in SUBSET Folder /\ failed' \in SUBSET Folder
         /\ pump' = IF pump = "chunk" THEN "loaded" ELSE "settled"
BY DEF TypeOK, Fail

LEMMA LoaderTypes == Ready /\ [LoaderNext]_loaderVars => TypeOK'
<1> SUFFICES ASSUME Ready, [LoaderNext]_loaderVars PROVE TypeOK'
  OBVIOUS
<1> USE DEF folders, demand, callers, Silent, Operations, Pump
<1>0. TypeOK /\ Order[1] \in Folder
  BY OrderFacts DEF Ready
<1>n. caller \in [Caller -> {"out", "ready", "waiting"}]
      /\ (Notify => caller' \in [Caller -> {"out", "ready", "waiting"}])
  BY <1>0 DEF TypeOK, Turns, Notify
<1>b. turn \in Turns /\ polls \in Nat
  BY <1>0 DEF TypeOK, Turns
<1>a. \A t \in Turns, op \in Operations \cup {"action"} : Append(t, op) \in Turns
  <2> HIDE DEF Operations
  <2> QED BY DEF Turns
<1>t. turn # <<>> => Tail(turn) \in Turns
  <2> HIDE DEF Operations
  <2> QED BY <1>b DEF Turns
<1>1. CASE UNCHANGED loaderVars
  BY <1>0, <1>1 DEF loaderVars, TypeOK, Turns
<1>2. ASSUME NEW c \in Caller, NEW f \in Folder, NEW n \in 1..MaxRows, EnsureFolder(c, f, n)
      PROVE  TypeOK'
  <2>1. n \in Nat
    BY BoundAssumption
  <2>2. target' = [target EXCEPT ![f] = IF n > @ THEN n ELSE @]
        /\ limit' = [limit EXCEPT ![f] = IF target'[f] > @ THEN target'[f] ELSE @]
    BY <1>2 DEF EnsureFolder
  <2>3. target' \in [Folder -> Nat]
    BY <1>0, <2>1, <2>2 DEF TypeOK, Turns
  <2>4. limit' \in [Folder -> Nat]
    BY <1>0, <2>2, <2>3 DEF TypeOK, Turns
  <2>5. /\ caller' = [caller EXCEPT ![c] = "ready"]
        /\ want' = [want EXCEPT ![c] = [folder |-> f, rows |-> n]]
        /\ priority' = f /\ calls' = calls + 1 /\ pump' \in {pump, "top"}
        /\ UNCHANGED <<folders, rr, background, stopped, finished, fatal, profile,
                 loading, serving, polls, turn, inside, other, stopping, actions>>
    BY <1>2 DEF EnsureFolder, Kick
  <2>6. want' \in [Caller -> [folder : Folder, rows : Nat]]
        /\ caller' \in [Caller -> {"out", "ready", "waiting"}]
    BY <1>0, <2>1, <2>5 DEF TypeOK, Turns
  <2>7. calls' \in Nat /\ pump' \in Pump /\ priority' \in Folder
    BY <1>0, <2>5 DEF TypeOK
  <2>8. UNCHANGED <<folders, rr, background, stopped, finished, fatal, profile,
                    loading, serving, polls, turn, inside, other, stopping, actions>>
    BY <2>5
  <2> QED BY <1>0, <2>3, <2>4, <2>6, <2>7, <2>8 DEF TypeOK
<1>3. ASSUME NEW c \in Caller, Recheck(c) PROVE TypeOK'
  <2>1. Nothing \in [folder : Folder, rows : Nat]
    BY <1>0 DEF Nothing
  <2>2. want' = want \/ want' = [want EXCEPT ![c] = Nothing]
    BY <1>3 DEF Recheck
  <2>3. want' \in [Caller -> [folder : Folder, rows : Nat]]
    BY <1>0, <2>1, <2>2 DEF TypeOK, Turns
  <2>4. caller' \in [Caller -> {"out", "ready", "waiting"}]
    BY <1>0, <1>3 DEF Recheck, TypeOK, Turns
  <2> QED BY <1>0, <1>3, <2>3, <2>4 DEF Recheck, TypeOK, Turns
<1>4. CASE StartBackground
  <2>1. background' = TRUE /\ pump' \in {pump, "top"}
        /\ UNCHANGED <<folders, demand, rr, stopped, finished, fatal, profile, loading,
                 serving, polls, turn, inside, other, callers, calls, actions>>
    BY <1>4 DEF StartBackground, Kick
  <2>2. background' \in BOOLEAN /\ pump' \in Pump
    BY <1>0, <2>1 DEF TypeOK
  <2> QED BY <1>0, <2>1, <2>2 DEF TypeOK
<1>5. CASE Stop
  BY <1>0, <1>n, <1>5 DEF Stop, TypeOK, Turns
<1>6. CASE StopEnds
  BY <1>0, <1>6 DEF StopEnds, TypeOK, Turns
<1>7. CASE Top
  <2>1. rr' \in DOMAIN Order
    <3>1. rr' = rr \/ rr' = PlaceAfter(NextFolder)
      BY <1>7 DEF Top
    <3> QED BY <1>0, <3>1, NextPlace DEF TypeOK, Turns
  <2>2. loading' \in Folder /\ serving' \in BOOLEAN /\ finished' \in BOOLEAN
    BY <1>0, <1>7, NextFolderFacts DEF Top, TypeOK, NeedsDemand, Loadable, Complete
  <2>3. pump' \in Pump /\ (turn' = turn \/ (turn' = Append(turn, pump') /\ pump' \in Operations))
    BY <1>0, <1>7 DEF Top, TypeOK, Turns
  <2>4. turn' \in Turns
    BY <1>a, <1>b, <2>3
  <2>5. caller' \in [Caller -> {"out", "ready", "waiting"}]
    BY <1>7, <1>n DEF Top
  <2>6. /\ UNCHANGED <<folders, demand, background, stopped, fatal, profile, polls,
                       inside, other, want, stopping, calls, actions>>
    BY <1>7 DEF Top
  <2> QED BY <1>0, <2>1, <2>2, <2>3, <2>4, <2>5, <2>6 DEF TypeOK, Turns
<1>8. CASE Loaded
  BY <1>0, <1>n, <1>8 DEF Loaded, TypeOK, Turns
<1>9. CASE PauseEnds
  BY <1>0, <1>9 DEF PauseEnds, TypeOK, Turns
<1>10. CASE Settle
  BY <1>0, <1>n, <1>10 DEF Settle, TypeOK, Turns
<1>11. CASE Enter
  BY <1>0, <1>11 DEF Enter, TypeOK, Turns
<1>f. ASSUME Fail, turn' \in Turns, polls' \in Nat,
             inside' \in BOOLEAN, other' \in BOOLEAN,
             caller' \in [Caller -> {"out", "ready", "waiting"}]
      PROVE  TypeOK'
  <2>1. UNCHANGED <<left, listed, cached, demand, rr, background, stopped, finished,
                    profile, loading, serving, want, stopping, calls, actions>>
    BY <1>f DEF Fail
  <2> QED BY <1>0, <1>f, <2>1, FailTypes DEF TypeOK, Turns
<1>12. CASE Refuse
  BY <1>0, <1>n, <1>t, <1>f, <1>12 DEF Refuse, MyTurn, TypeOK, Turns
<1>13. CASE Busy
  <2>1. polls' \in Nat /\ turn' \in Turns
    BY <1>b, <1>t, <1>13 DEF Busy, MyTurn
  <2>2. caller' \in [Caller -> {"out", "ready", "waiting"}]
    BY <1>n, <1>13 DEF Busy
  <2>3. UNCHANGED <<folders, demand, rr, background, stopped, finished, fatal,
                 profile, pump, loading, serving, inside, other, want, stopping,
                 calls, actions>>
    BY <1>13 DEF Busy
  <2> QED BY <1>0, <2>1, <2>2, <2>3 DEF TypeOK, Turns
<1>14. CASE Retry
  <2>1. turn' \in Turns
    BY <1>a, <1>b, <1>14 DEF Retry, Sleeping
  <2> QED BY <1>0, <1>14, <2>1 DEF Retry, TypeOK, Turns
<1>15. CASE RetryAborted
  BY <1>0, <1>f, <1>15 DEF RetryAborted, TypeOK, Turns
<1>16. CASE ProfileRead
  <2>1. Append(Tail(turn), "chunk") \in Turns
    BY <1>a, <1>t, <1>16 DEF ProfileRead, MyTurn
  <2> QED BY <1>0, <1>16, <2>1 DEF ProfileRead, TypeOK, Turns
<1>17. CASE PageRead
  <2>0. pump = "chunk" /\ left' = [left EXCEPT ![loading] = @ - 1]
    BY <1>17 DEF PageRead
  <2>1. left[loading] \in Nat \ {0} /\ loading \in Folder
    <3>1. Loadable(loading)
      BY <2>0 DEF Ready, Certified
    <3> QED BY <1>0, <3>1 DEF TypeOK, Loadable, Complete
  <2>2. left' \in [Folder -> Nat]
    <3>1. left \in [Folder -> Nat]
      BY <1>0 DEF TypeOK
    <3>2. left[loading] - 1 \in Nat
      BY <2>1
    <3> QED BY <2>0, <2>1, <3>1, <3>2
  <2>3. listed' \in [Folder -> Nat] /\ failed' \in SUBSET Folder /\ cached' \in [Folder -> Nat]
    <3>1. listed' = listed \/ listed' = [listed EXCEPT ![loading] = @ + 1]
      BY <1>17 DEF PageRead
    <3>2. failed' = failed \/ failed' = failed \cup {loading}
      BY <1>17 DEF PageRead
    <3>3. cached' = cached \/ \E g, l \in Folder \cup {NoFolder} : Recount(g, l)
      BY <1>17, <2>1 DEF PageRead
    <3>4. cached' \in [Folder -> Nat]
      BY <1>0, <3>3, RecountType DEF TypeOK, Turns
    <3>5. listed \in [Folder -> Nat] /\ failed \in SUBSET Folder
      BY <1>0 DEF TypeOK
    <3>6. listed' \in [Folder -> Nat]
      BY <2>1, <3>1, <3>5
    <3> QED BY <2>1, <3>2, <3>4, <3>5, <3>6
  <2>4. /\ inside' = FALSE /\ pump' = "loaded" /\ turn' = Tail(turn) /\ turn # <<>>
        /\ UNCHANGED <<blocked, demand, rr, background, stopped, finished, fatal,
                 profile, loading, serving, polls, other, callers, calls, actions>>
    BY <1>17 DEF PageRead, MyTurn
  <2> QED BY <1>0, <1>t, <2>2, <2>3, <2>4 DEF TypeOK, Turns
<1>18. CASE Finalized
  BY <1>0, <1>n, <1>t, <1>18 DEF Finalized, MyTurn, TypeOK, Turns
<1>19. CASE OperationFails
  BY <1>0, <1>n, <1>t, <1>f, <1>19 DEF OperationFails, MyTurn, TypeOK, Turns
<1>20. CASE Press
  <2>1. turn' \in Turns
    BY <1>a, <1>b, <1>20 DEF Press
  <2>2. actions' \in Nat
    BY <1>0, <1>20 DEF Press, TypeOK
  <2>3. UNCHANGED <<folders, demand, rr, background, stopped, finished, fatal,
                    profile, pump, loading, serving, polls, inside, other, callers, calls>>
    BY <1>20 DEF Press
  <2> QED BY <1>0, <2>1, <2>2, <2>3 DEF TypeOK, Turns
<1>21. CASE BeginAction
  BY <1>0, <1>21 DEF BeginAction, TypeOK, Turns
<1>22. CASE RefuseAction
  BY <1>0, <1>t, <1>22 DEF RefuseAction, Foreground, TypeOK, Turns
<1>23. CASE EndAction
  <2>1. cached' \in [Folder -> Nat]
    BY <1>0, <1>23, RecountType DEF EndAction, TypeOK, Turns
  <2> QED BY <1>0, <1>t, <1>23, <2>1 DEF EndAction, Foreground, TypeOK, Turns
<1>24. CASE OtherCommand
  BY <1>0, <1>24 DEF OtherCommand, TypeOK, Turns
<1> QED BY <1>1, <1>2, <1>3, <1>4, <1>5, <1>6, <1>7, <1>8, <1>9, <1>10, <1>11, <1>12,
           <1>13, <1>14, <1>15, <1>16, <1>17, <1>18, <1>19, <1>20, <1>21, <1>22, <1>23, <1>24
        DEF LoaderNext, Loader, Gmail, Action
-----------------------------------------------------------------------------
(* What is read and certified, and who is remembered.                      *)

LEMMA LoaderCertifies == Ready /\ [LoaderNext]_loaderVars => Certified'
<1> SUFFICES ASSUME Ready, [LoaderNext]_loaderVars PROVE Certified'
  OBVIOUS
<1> USE DEF folders, demand, callers
<1>0. TypeOK /\ Certified
  BY DEF Ready
<1> USE DEF Certified, Loadable, Complete, AllComplete
<1>1. ASSUME UNCHANGED <<left, listed, blocked, failed, fatal, profile, loading, finished>>,
             pump' \in {pump, "none", "top", "loaded", "paused", "settled"}
      PROVE  Certified'
  BY <1>0, <1>1
<1>2. CASE UNCHANGED loaderVars
  BY <1>1, <1>2 DEF loaderVars
<1>3. ASSUME NEW c \in Caller, NEW f \in Folder, NEW n \in 1..MaxRows, EnsureFolder(c, f, n)
      PROVE  Certified'
  BY <1>1, <1>3 DEF EnsureFolder, Kick
<1>r. ASSUME NEW c \in Caller, Recheck(c) PROVE Certified'
  BY <1>1, <1>r DEF Recheck
<1>4. CASE StartBackground \/ Stop \/ StopEnds
  BY <1>1, <1>4 DEF StartBackground, Stop, StopEnds, Kick
<1>5. CASE Loaded \/ PauseEnds \/ Settle \/ Enter \/ Busy \/ Retry
  BY <1>1, <1>5 DEF Loaded, PauseEnds, Settle, Enter, Busy, Retry
<1>6. CASE Press \/ BeginAction \/ RefuseAction \/ EndAction \/ OtherCommand
  BY <1>1, <1>6 DEF Press, BeginAction, RefuseAction, EndAction, OtherCommand
<1>7. CASE Top
  <2>1. UNCHANGED <<left, listed, blocked, failed, fatal, profile>>
    BY <1>7 DEF Top
  <2>2. CASE ~stopped /\ NextFolder # NoFolder
    <3>1. /\ loading' = NextFolder /\ finished' = finished
          /\ pump' = IF profile THEN "chunk" ELSE "profile"
      BY <1>7, <2>2 DEF Top
    <3>2. Loadable(NextFolder)
      BY <1>0, <2>2, NextFolderFacts
    <3> QED BY <1>0, <2>1, <3>1, <3>2 DEF TypeOK
  <2>3. CASE ~(~stopped /\ NextFolder # NoFolder)
    <3>1. \/ pump' = "settled" /\ finished' = finished
          \/ pump' = "settled" /\ finished' = TRUE /\ AllComplete
          \/ pump' = "final" /\ finished' = finished /\ AllComplete /\ failed = {}
      BY <1>7, <2>3 DEF Top
    <3> QED BY <1>0, <2>1, <3>1
  <2> QED BY <2>2, <2>3
<1>8. CASE Fail
  <2>1. /\ fatal' = TRUE
        /\ \/ /\ pump = "chunk" /\ pump' = "loaded"
              /\ blocked' = blocked \cup {loading} /\ failed' = failed \cup {loading}
           \/ pump' = "settled" /\ UNCHANGED <<blocked, failed>>
        /\ UNCHANGED <<left, listed, profile, loading, finished>>
    BY <1>8 DEF Fail
  <2> QED BY <1>0, <2>1
<1>9. CASE ProfileRead
  BY <1>0, <1>9 DEF ProfileRead
<1>10. CASE PageRead
  <2>1. /\ pump = "chunk" /\ pump' = "loaded"
        /\ left' = [left EXCEPT ![loading] = @ - 1]
        /\ listed' = listed \/ listed' = [listed EXCEPT ![loading] = @ + 1]
        /\ failed' = failed \/ failed' = failed \cup {loading}
        /\ UNCHANGED <<blocked, fatal, profile, loading, finished>>
    BY <1>10 DEF PageRead
  <2>2. left[loading] # 0 /\ loading \in Folder /\ left \in [Folder -> Nat]
        /\ listed \in [Folder -> Nat] /\ Pages \in [Folder -> Nat \ {0}]
    BY <1>0, <2>1, PagesAssumption DEF TypeOK
  <2>3. ~finished
    BY <1>0, <2>2
  <2>4. \A f \in Folder : left'[f] + listed'[f] <= Pages[f]
    BY <1>0, <2>1, <2>2
  <2>5. blocked' \subseteq failed' /\ (blocked' # {} => fatal')
    BY <1>0, <2>1
  <2>6. pump' = "loaded" /\ ~finished'
    BY <2>1, <2>3
  <2>7. \E f \in Folder : left[f] # 0
    BY <2>2
  <2> QED BY <1>0, <2>1, <2>4, <2>5, <2>6
<1>11. CASE Finalized
  BY <1>0, <1>11 DEF Finalized
<1>12. CASE Refuse \/ RetryAborted \/ OperationFails
  BY <1>8, <1>12 DEF Refuse, RetryAborted, OperationFails
<1> HIDE DEF folders, demand, callers, Certified, Loadable, Complete, AllComplete
<1> QED BY <1>2, <1>3, <1>4, <1>5, <1>6, <1>7, <1>9, <1>10, <1>11, <1>12, <1>r
        DEF LoaderNext, Loader, Gmail, Action

\* Whoever waits is covered by the demand of the folder.
Covered == \A c \in Caller : want[c].rows <= target[want[c].folder]

LEMMA LoaderCovers == Ready /\ [LoaderNext]_loaderVars => Covered'
<1> SUFFICES ASSUME Ready, [LoaderNext]_loaderVars PROVE Covered'
  OBVIOUS
<1> USE DEF folders, demand, callers
<1>0. TypeOK /\ Covered
  BY DEF Ready, Covered
<1>1. CASE UNCHANGED <<want, target>>
  BY <1>0, <1>1 DEF Covered
<1>2. ASSUME NEW c \in Caller, NEW f \in Folder, NEW n \in 1..MaxRows, EnsureFolder(c, f, n)
      PROVE  Covered'
  <2>1. want' = [want EXCEPT ![c] = [folder |-> f, rows |-> n]]
        /\ target' = [target EXCEPT ![f] = IF n > @ THEN n ELSE @]
    BY <1>2 DEF EnsureFolder
  <2>2. n \in Nat /\ target \in [Folder -> Nat]
        /\ want \in [Caller -> [folder : Folder, rows : Nat]]
    <3>1. n \in Nat
      BY BoundAssumption
    <3> QED BY <1>0, <3>1 DEF TypeOK
  <2>3. \A g \in Folder : target'[g] \in Nat /\ target[g] <= target'[g]
    BY <2>1, <2>2
  <2>4. n <= target'[f]
    BY <2>1, <2>2
  <2>5. ASSUME NEW d \in Caller PROVE want'[d].rows <= target'[want'[d].folder]
    <3>1. CASE d = c
      BY <2>1, <2>2, <2>4, <3>1
    <3>2. CASE d # c
      <4>1. want'[d] = want[d] /\ want[d].folder \in Folder /\ want[d].rows \in Nat
        BY <2>1, <2>2, <3>2
      <4>2. want[d].rows <= target[want[d].folder]
        BY <1>0 DEF Covered
      <4> QED BY <2>2, <2>3, <4>1, <4>2
    <3> QED BY <3>1, <3>2
  <2> QED BY <2>5 DEF Covered
<1>3. ASSUME NEW c \in Caller, Recheck(c) PROVE Covered'
  <2>1. target' = target /\ (want' = want \/ want' = [want EXCEPT ![c] = Nothing])
    BY <1>3 DEF Recheck
  <2>2. target[Order[1]] \in Nat /\ Nothing.rows = 0 /\ Nothing.folder = Order[1]
    BY <1>0, OrderFacts DEF Nothing, TypeOK
  <2>3. want \in [Caller -> [folder : Folder, rows : Nat]]
    BY <1>0 DEF TypeOK
  <2> HIDE DEF Nothing
  <2>4. ASSUME NEW d \in Caller PROVE want'[d].rows <= target'[want'[d].folder]
    <3>1. want'[d] = want[d] \/ want'[d] = Nothing
      BY <2>1, <2>3
    <3> QED BY <1>0, <2>1, <2>2, <3>1 DEF Covered
  <2> QED BY <2>4 DEF Covered
<1>4. ASSUME ~UNCHANGED <<want, target>>
      PROVE  \E c \in Caller : \/ Recheck(c)
                               \/ \E f \in Folder, n \in 1..MaxRows : EnsureFolder(c, f, n)
  BY <1>4 DEF LoaderNext, Loader, Gmail, Action, Top, Loaded, PauseEnds, Settle, Enter, Refuse,
    Busy, Retry, RetryAborted, ProfileRead, PageRead, Finalized, OperationFails, Fail,
    BeginAction, RefuseAction, EndAction, StartBackground, Stop, StopEnds, Press,
    OtherCommand, loaderVars
<1> QED BY <1>1, <1>2, <1>3, <1>4

\* What a waiter has not got is work for the pump.
LEMMA UnmetIsWork ==
  ASSUME TypeOK, Covered
  PROVE  \A c \in Caller : Unmet(c) => HasWork
<1> SUFFICES ASSUME NEW c \in Caller, Unmet(c) PROVE HasWork
  OBVIOUS
<1> DEFINE f == want[c].folder
<1>1. f \in Folder /\ cached[f] \in Nat /\ want[c].rows \in Nat /\ target[f] \in Nat
  BY DEF TypeOK
<1>2. cached[f] < target[f]
  BY <1>1 DEF Unmet, Covered
<1>3. f \in Demanded
  BY <1>1, <1>2 DEF Unmet, Demanded, NeedsDemand
<1> QED BY <1>3 DEF Unmet, HasWork

LEMMA UnmetIsWorkNext ==
  ASSUME TypeOK', Covered'
  PROVE  \A c \in Caller : Unmet(c)' => HasWork'
<1> SUFFICES ASSUME NEW c \in Caller, Unmet(c)' PROVE HasWork'
  OBVIOUS
<1> DEFINE f == want'[c].folder
<1>1. f \in Folder /\ cached'[f] \in Nat /\ want'[c].rows \in Nat /\ target'[f] \in Nat
  BY DEF TypeOK
<1>2. cached'[f] < target'[f]
  BY <1>1 DEF Unmet, Covered
<1>3. f \in Demanded'
  BY <1>1, <1>2 DEF Unmet, Demanded, NeedsDemand, Loadable, Complete
<1> QED BY <1>3 DEF Unmet, HasWork

LEMMA LoaderRemembers ==
  Ready /\ Remembered /\ [LoaderNext]_loaderVars => Remembered'
<1> SUFFICES ASSUME Ready, Remembered, [LoaderNext]_loaderVars, pump' = "none",
                    NEW d \in Caller
             PROVE  caller'[d] # "waiting" /\ ~(caller'[d] = "ready" /\ Unmet(d)')
  BY DEF Remembered
<1> USE DEF folders, demand, callers
<1>0. TypeOK /\ Covered /\ TypeOK' /\ Covered' /\ caller \in [Caller -> {"out", "ready", "waiting"}]
  BY LoaderTypes, LoaderCovers DEF Ready, Covered, TypeOK
<1> DEFINE Goal == caller'[d] # "waiting" /\ ~(caller'[d] = "ready" /\ Unmet(d)')
<1>1. ASSUME UNCHANGED <<left, listed, cached, blocked, limit, stopped, fatal, want>>
      PROVE  Unmet(d)' <=> Unmet(d)
  BY <1>1 DEF Unmet, Loadable, Complete
<1>2. pump = "none" => caller[d] # "waiting" /\ ~(caller[d] = "ready" /\ Unmet(d))
  BY DEF Remembered
<1>3. ASSUME UNCHANGED <<left, listed, cached, blocked, limit, stopped, fatal, want, caller, pump>>
      PROVE  Goal
  BY <1>1, <1>2, <1>3
<1>4. ASSUME NEW c \in Caller, NEW f \in Folder, NEW n \in 1..MaxRows, EnsureFolder(c, f, n)
      PROVE  Goal
  <2>1. pump = "none" /\ ~HasWork' /\ caller' = [caller EXCEPT ![c] = "ready"]
    BY <1>4 DEF EnsureFolder, Kick
  <2>2. ~Unmet(d)'
    BY <1>0, <2>1, UnmetIsWorkNext
  <2> QED BY <1>0, <1>2, <2>1, <2>2
<1>5. ASSUME NEW c \in Caller, Recheck(c) PROVE Goal
  <2>1. pump = "none" /\ caller[c] = "ready" /\ ~Unmet(c)
    <3>1. pump = "none" /\ caller[c] = "ready"
      BY <1>5 DEF Recheck
    <3> QED BY <3>1 DEF Remembered
  <2>2. /\ caller' = [caller EXCEPT ![c] = "out"] /\ want' = [want EXCEPT ![c] = Nothing]
        /\ UNCHANGED <<left, listed, cached, blocked, limit, stopped, fatal>>
    BY <1>5, <2>1 DEF Recheck
  <2>3. CASE d = c
    BY <1>0, <2>2, <2>3
  <2>4. CASE d # c
    <3>1. caller'[d] = caller[d] /\ want'[d] = want[d]
      BY <1>0, <2>2, <2>4 DEF TypeOK
    <3>2. Unmet(d)' <=> Unmet(d)
      BY <2>2, <3>1 DEF Unmet, Loadable, Complete
    <3> QED BY <1>2, <2>1, <3>1, <3>2
  <2> QED BY <2>3, <2>4
<1>6. CASE StartBackground
  <2>1. pump = "none"
    BY <1>6 DEF StartBackground, Kick
  <2> QED BY <1>3, <1>6, <2>1 DEF StartBackground
<1>7. CASE Stop
  <2>1. stopped' = TRUE /\ Notify
    BY <1>7 DEF Stop
  <2> QED BY <1>0, <2>1 DEF Notify, Unmet
<1>8. CASE Settle
  <2>1. ~HasWork /\ Notify
        /\ UNCHANGED <<left, listed, cached, blocked, limit, stopped, fatal, want>>
    BY <1>8 DEF Settle
  <2>2. ~Unmet(d)'
    BY <1>0, <1>1, <2>1, UnmetIsWork
  <2> QED BY <1>0, <2>1, <2>2 DEF Notify
<1>9. CASE EndAction
  <2>1. pump = "none" /\ UNCHANGED caller /\ caller[d] # "ready"
    BY <1>9 DEF EndAction, Quiet
  <2> QED BY <1>2, <2>1
<1>10. CASE UNCHANGED loaderVars \/ StopEnds \/ Press \/ BeginAction \/ RefuseAction \/ OtherCommand
  BY <1>3, <1>10 DEF loaderVars, StopEnds, Press, BeginAction, RefuseAction, OtherCommand
<1>11. ~Top /\ ~Loaded /\ ~PauseEnds /\ ~Fail /\ ~ProfileRead /\ ~PageRead /\ ~Finalized
  BY DEF Top, Loaded, PauseEnds, Fail, ProfileRead, PageRead, Finalized
<1>12. ~Enter /\ ~Busy /\ ~Retry
  BY DEF Enter, Busy, Retry, MyTurn, Sleeping, Operations
<1> QED BY <1>4, <1>5, <1>6, <1>7, <1>8, <1>9, <1>10, <1>11, <1>12
        DEF LoaderNext, Loader, Gmail, Action, Refuse, RetryAborted, OperationFails

LEMMA LoaderEnds == TypeOK /\ Ended /\ [LoaderNext]_loaderVars => Ended'
<1> SUFFICES ASSUME TypeOK, Ended, [LoaderNext]_loaderVars PROVE Ended'
  OBVIOUS
<1> USE DEF folders, demand, callers, Ended
<1>1. ASSUME UNCHANGED <<stopped, stopping, background>>, pump = "none" => pump' = "none"
      PROVE  Ended'
  BY <1>1
<1>2. ASSUME NEW c \in Caller, NEW f \in Folder, NEW n \in 1..MaxRows, EnsureFolder(c, f, n)
      PROVE  Ended'
  <2>1. UNCHANGED <<stopped, stopping, background>>
        /\ pump' = IF pump = "none" /\ HasWork' THEN "top" ELSE pump
    BY <1>2 DEF EnsureFolder, Kick
  <2>2. stopped => ~HasWork'
    BY <2>1 DEF HasWork
  <2> QED BY <2>1, <2>2
<1>3. ASSUME NEW c \in Caller, Recheck(c) PROVE Ended'
  BY <1>1, <1>3 DEF Recheck
<1>4. CASE StartBackground
  BY <1>4 DEF StartBackground, TypeOK
<1>5. CASE Stop
  BY <1>5 DEF Stop
<1>6. CASE StopEnds
  BY <1>6 DEF StopEnds
<1>7. CASE \/ UNCHANGED loaderVars \/ Press \/ BeginAction \/ RefuseAction \/ EndAction
           \/ OtherCommand
  BY <1>1, <1>7 DEF loaderVars, Press, BeginAction, RefuseAction, EndAction, OtherCommand
<1>8. CASE Top \/ Loaded \/ PauseEnds \/ Settle
  BY <1>1, <1>8 DEF Top, Loaded, PauseEnds, Settle
<1>9. ASSUME MyTurn \/ Sleeping, UNCHANGED <<stopped, stopping, background>> PROVE Ended'
  BY <1>1, <1>9 DEF MyTurn, Sleeping, Operations
<1>10. CASE \/ Enter \/ Refuse \/ Busy \/ Retry \/ RetryAborted \/ ProfileRead \/ PageRead
            \/ Finalized \/ OperationFails
  BY <1>9, <1>10 DEF Enter, Refuse, Busy, Retry, RetryAborted, ProfileRead, PageRead,
    Finalized, OperationFails, Fail
<1> QED BY <1>2, <1>3, <1>4, <1>5, <1>6, <1>7, <1>8, <1>10 DEF LoaderNext, Loader, Gmail, Action
-----------------------------------------------------------------------------
(* The one slot of the session.                                            *)

\* The queue holds foreground actions and at most once the operation p.
Orderly(t, p) ==
  /\ \A i \in DOMAIN t : t[i] \in {"action", p}
  /\ \A i, j \in DOMAIN t : t[i] = t[j] /\ i # j => t[i] = "action"

Free(t) == \A i \in DOMAIN t : t[i] = "action"

LEMMA TurnFacts ==
  ASSUME NEW t \in Turns
  PROVE  /\ Len(t) \in Nat /\ DOMAIN t = 1..Len(t)
         /\ \A i \in DOMAIN t : t[i] \in Operations \cup {"action"}
BY DEF Turns

LEMMA OrderlyAppend ==
  ASSUME NEW t \in Turns, NEW p, NEW q, Free(t) \/ (Orderly(t, p) /\ q = "action")
  PROVE  Orderly(Append(t, q), IF q = "action" THEN p ELSE q)
<1>1. Len(t) \in Nat /\ DOMAIN t = 1..Len(t)
  BY TurnFacts
<1>2. /\ DOMAIN Append(t, q) = 1..(Len(t) + 1) /\ Append(t, q)[Len(t) + 1] = q
      /\ \A i \in 1..Len(t) : Append(t, q)[i] = t[i]
  BY DEF Turns
<1>3. \A i \in 1..(Len(t) + 1) : i \in 1..Len(t) \/ i = Len(t) + 1
  BY <1>1
<1> QED BY <1>1, <1>2, <1>3 DEF Orderly, Free

LEMMA OrderlyTail ==
  ASSUME NEW t \in Turns, NEW p, Orderly(t, p), t # <<>>
  PROVE  Orderly(Tail(t), p) /\ (p # "action" /\ Head(t) = p => Free(Tail(t)))
<1>1. Len(t) \in Nat /\ DOMAIN t = 1..Len(t) /\ Len(t) >= 1 /\ Head(t) = t[1]
  BY TurnFacts DEF Turns
<1>2. DOMAIN Tail(t) = 1..(Len(t) - 1) /\ \A i \in 1..(Len(t) - 1) : Tail(t)[i] = t[i + 1]
  BY <1>1 DEF Turns
<1>3. \A i \in 1..(Len(t) - 1) : i + 1 \in DOMAIN t /\ 1 \in DOMAIN t /\ i + 1 # 1
  BY <1>1
<1>4. \A i, j \in 1..(Len(t) - 1) : i # j => i + 1 # j + 1
  BY <1>1
<1> QED BY <1>1, <1>2, <1>3, <1>4 DEF Orderly, Free

LEMMA FreeFacts ==
  ASSUME NEW t \in Turns
  PROVE  /\ \A p : Free(t) => Orderly(t, p)
         /\ \A p : Orderly(t, p) /\ p \notin Operations => Free(t)
         /\ \A p : Orderly(t, p) /\ ~Contains(t, p) => Free(t)
<1>1. ASSUME NEW p, Orderly(t, p), p \notin Operations PROVE Free(t)
  BY <1>1, TurnFacts DEF Orderly, Free
<1>2. ASSUME NEW p, Orderly(t, p), ~Contains(t, p) PROVE Free(t)
  BY <1>2, TurnFacts DEF Orderly, Free, Contains
<1>3. ASSUME NEW p, Free(t) PROVE Orderly(t, p)
  BY <1>3 DEF Orderly, Free
<1> QED BY <1>1, <1>2, <1>3

\* Whoever joins the queue leaves its head where it is.
LEMMA HeadStays ==
  ASSUME NEW t \in Turns
  PROVE  \A op \in Operations \cup {"action"} :
           Append(t, op) # <<>> /\ (t # <<>> => Head(Append(t, op)) = Head(t))
<1> DEFINE S == Operations \cup {"action"}
<1> HIDE DEF S
<1>1. ASSUME NEW op \in S, t \in Seq(S)
      PROVE  Append(t, op) # <<>> /\ (t # <<>> => Head(Append(t, op)) = Head(t))
  <2>1. Append(t, op) \in Seq(S) /\ Len(Append(t, op)) = Len(t) + 1 /\ Len(t) \in Nat
    BY <1>1
  <2>2. t # <<>> => Head(t) = t[1] /\ Append(t, op)[1] = t[1]
    BY <1>1
  <2>3. Append(t, op) # <<>> /\ Head(Append(t, op)) = Append(t, op)[1]
    BY <2>1
  <2> QED BY <2>2, <2>3
<1> QED BY <1>1 DEF Turns, S

LEMMA LoaderCoordinates == Ready /\ Coordinated /\ [LoaderNext]_loaderVars => Coordinated'
<1> SUFFICES ASSUME Ready, Coordinated, [LoaderNext]_loaderVars PROVE Coordinated'
  OBVIOUS
<1> USE DEF folders, demand, callers
<1>0. /\ TypeOK /\ turn \in Turns /\ polls \in Nat /\ MaxPolls \in Nat
      /\ pump \in Pump /\ inside \in BOOLEAN /\ other \in BOOLEAN
  BY BoundAssumption DEF Ready, TypeOK, Turns
<1>1. /\ inside => turn # <<>> /\ ~other
      /\ Orderly(turn, pump)
      /\ polls <= MaxPolls /\ (polls > 0 => pump \in Operations /\ ~(MyTurn /\ inside))
  BY DEF Coordinated, Orderly
<1>2. ASSUME inside' => turn' # <<>> /\ ~other', Orderly(turn', pump'),
             polls' <= MaxPolls, polls' > 0 => pump' \in Operations /\ ~(MyTurn' /\ inside')
      PROVE  Coordinated'
  BY <1>2 DEF Coordinated, Orderly
<1> HIDE DEF Coordinated
<1>m. MyTurn => /\ turn # <<>> /\ Head(turn) = pump /\ pump \in Operations /\ pump # "action"
                /\ Free(Tail(turn)) /\ Tail(turn) \in Turns
  <2>1. turn # <<>> => Tail(turn) \in Turns
    BY <1>0 DEF Turns
  <2> QED BY <1>0, <1>1, <2>1, OrderlyTail DEF MyTurn, Operations
<1>p. pump \notin Operations => Free(turn) /\ polls = 0
  BY <1>0, <1>1, FreeFacts
<1>3. ASSUME UNCHANGED <<inside, turn, other, polls>>,
             pump' = pump \/ (pump \notin Operations /\ pump' \notin Operations)
      PROVE  Coordinated'
  <2>1. Orderly(turn', pump')
    BY <1>0, <1>1, <1>3, <1>p, FreeFacts
  <2> QED BY <1>0, <1>1, <1>2, <1>3, <2>1 DEF MyTurn
<1>4. CASE UNCHANGED loaderVars
  BY <1>3, <1>4 DEF loaderVars
<1>5. ASSUME NEW c \in Caller, NEW f \in Folder, NEW n \in 1..MaxRows, EnsureFolder(c, f, n)
      PROVE  Coordinated'
  BY <1>3, <1>5 DEF EnsureFolder, Kick, Operations
<1>r. ASSUME NEW c \in Caller, Recheck(c) PROVE Coordinated'
  BY <1>3, <1>r DEF Recheck
<1>6. CASE \/ StartBackground \/ Stop \/ StopEnds \/ Loaded \/ PauseEnds \/ Settle
  BY <1>3, <1>6 DEF StartBackground, Stop, StopEnds, Kick, Loaded, PauseEnds, Settle, Operations
<1>7. CASE Top
  <2>1. /\ pump = "top" /\ UNCHANGED <<inside, other, polls>>
        /\ \/ turn' = turn /\ pump' = "settled"
           \/ turn' = Append(turn, pump') /\ pump' \in Operations
    BY <1>7 DEF Top, Operations
  <2>2. Free(turn) /\ polls = 0
    BY <1>p, <2>1 DEF Operations
  <2>3. Orderly(turn', pump')
    BY <1>0, <2>1, <2>2, FreeFacts, OrderlyAppend DEF Operations
  <2>4. inside' => turn' # <<>>
    BY <1>0, <1>1, <2>1 DEF Turns
  <2> QED BY <1>0, <1>1, <1>2, <2>1, <2>2, <2>3, <2>4
<1>8. CASE Enter
  <2>1. MyTurn /\ inside' = TRUE /\ polls' = 0 /\ ~other /\ UNCHANGED <<turn, pump, other>>
    BY <1>8 DEF Enter
  <2> QED BY <1>0, <1>1, <1>2, <1>m, <2>1
<1>9. ASSUME MyTurn, turn' = Tail(turn), inside' = FALSE, polls' \in Nat, polls' <= MaxPolls,
             pump' \in Operations \/ polls' = 0
      PROVE  Coordinated'
  <2>1. Orderly(turn', pump')
    BY <1>m, <1>9, FreeFacts
  <2> QED BY <1>2, <1>9, <2>1
<1>10. CASE Refuse
  <2>1. MyTurn /\ turn' = Tail(turn) /\ inside' = FALSE /\ polls' = 0
    BY <1>0, <1>10 DEF Refuse
  <2>2. polls' \in Nat /\ polls' <= MaxPolls
    BY <1>0, <2>1
  <2> QED BY <1>9, <2>1, <2>2
<1>11. CASE Busy
  <2>1. inside' = FALSE /\ polls' \in Nat /\ polls' <= MaxPolls
    BY <1>0, <1>11 DEF Busy
  <2>2. MyTurn /\ turn' = Tail(turn) /\ pump' = pump
    BY <1>11 DEF Busy
  <2>3. pump' \in Operations
    BY <1>m, <2>2
  <2> QED BY <1>9, <2>1, <2>2, <2>3
<1>s. Sleeping => Free(turn) /\ pump \in Operations
  BY <1>0, <1>1, FreeFacts DEF Sleeping
<1>a. turn # <<>> /\ Free(turn) => Head(turn) = "action"
  <2>1. turn # <<>> => Head(turn) = turn[1] /\ 1 \in DOMAIN turn
    BY <1>0 DEF Turns
  <2> QED BY <2>1 DEF Free
<1>h. \A op \in Operations \cup {"action"} :
        Append(turn, op) # <<>> /\ (turn # <<>> => Head(Append(turn, op)) = Head(turn))
  BY <1>0, HeadStays
<1>12. CASE Retry
  <2>1. Free(turn) /\ pump \in Operations /\ turn' = Append(turn, pump)
        /\ UNCHANGED <<polls, inside, other, pump>>
    BY <1>12, <1>s DEF Retry
  <2>2. Orderly(turn', pump')
    BY <1>0, <2>1, OrderlyAppend DEF Operations
  <2>3. inside' => Head(turn') = "action"
    BY <1>1, <1>a, <1>h, <2>1
  <2> QED BY <1>0, <1>1, <1>2, <1>h, <2>1, <2>2, <2>3 DEF MyTurn, Operations
<1>13. CASE RetryAborted
  <2>1. Free(turn) /\ polls' = 0 /\ UNCHANGED <<turn, inside, other>>
    BY <1>13, <1>s DEF RetryAborted
  <2>2. Orderly(turn', pump')
    BY <1>0, <2>1, FreeFacts
  <2> QED BY <1>0, <1>1, <1>2, <2>1, <2>2
<1>14. CASE ProfileRead
  <2>1. /\ MyTurn /\ inside' = FALSE /\ pump' = "chunk" /\ polls' = polls /\ polls = 0
        /\ turn' = Append(Tail(turn), "chunk")
    BY <1>0, <1>1, <1>14 DEF ProfileRead
  <2>2. Orderly(turn', pump')
    BY <1>m, <2>1, OrderlyAppend
  <2> QED BY <1>0, <1>2, <2>1, <2>2
<1>15. CASE PageRead \/ Finalized \/ OperationFails
  <2>1. MyTurn /\ turn' = Tail(turn) /\ inside' = FALSE /\ polls' = polls /\ polls = 0
    BY <1>0, <1>1, <1>15 DEF PageRead, Finalized, OperationFails
  <2>2. polls' \in Nat /\ polls' <= MaxPolls /\ polls' = 0
    BY <1>0, <2>1
  <2> QED BY <1>9, <2>1, <2>2
<1>16. CASE Press
  <2>1. turn' = Append(turn, "action") /\ UNCHANGED <<pump, polls, inside, other>>
    BY <1>16 DEF Press
  <2>2. Orderly(turn', pump')
    BY <1>0, <1>1, <2>1, OrderlyAppend
  <2>3. MyTurn' /\ inside' => MyTurn /\ inside
    BY <1>1, <1>h, <2>1 DEF MyTurn
  <2> QED BY <1>0, <1>1, <1>2, <1>h, <2>1, <2>2, <2>3
<1>17. CASE BeginAction
  <2>1. Foreground /\ ~other /\ UNCHANGED <<pump, polls, turn, other>>
    BY <1>17 DEF BeginAction
  <2> QED BY <1>0, <1>1, <1>2, <2>1 DEF Foreground, MyTurn, Operations
<1>18. CASE RefuseAction \/ EndAction
  <2>1. /\ Foreground /\ turn' = Tail(turn) /\ inside' = FALSE
        /\ UNCHANGED <<pump, polls, other>>
    BY <1>0, <1>18 DEF RefuseAction, EndAction
  <2>2. Orderly(turn', pump')
    BY <1>0, <1>1, <2>1, OrderlyTail DEF Foreground
  <2> QED BY <1>0, <1>1, <1>2, <2>1, <2>2
<1>19. CASE OtherCommand
  <2>1. ~inside /\ UNCHANGED <<pump, polls, turn, inside>>
    BY <1>19 DEF OtherCommand
  <2>2. Orderly(turn', pump') /\ (inside' => turn' # <<>> /\ ~other')
    BY <1>1, <2>1
  <2>3. polls' <= MaxPolls /\ (polls' > 0 => pump' \in Operations /\ ~(MyTurn' /\ inside'))
    BY <1>1, <2>1
  <2> QED BY <1>2, <2>2, <2>3
<1> HIDE DEF folders, demand, callers
<1> QED BY <1>4, <1>5, <1>6, <1>7, <1>8, <1>10, <1>11, <1>12, <1>13, <1>14, <1>15, <1>16, <1>17,
           <1>18, <1>19, <1>r
        DEF LoaderNext, Loader, Gmail, Action

-----------------------------------------------------------------------------
LEMMA InitLoader == LoaderInit => LoaderInv
<1> SUFFICES ASSUME LoaderInit PROVE LoaderInv
  OBVIOUS
<1>1. /\ Order[1] \in Folder /\ 1 \in DOMAIN Order /\ Pages \in [Folder -> Nat \ {0}]
      /\ MaxPolls \in Nat
  BY OrderFacts, PagesAssumption, BoundAssumption
<1>2. TypeOK
  <2>1. Nothing \in [folder : Folder, rows : Nat]
    BY <1>1 DEF Nothing
  <2>2. want \in [Caller -> [folder : Folder, rows : Nat]]
    BY <2>1 DEF LoaderInit
  <2>3. cached \in [Folder -> Nat] /\ left \in [Folder -> Nat]
    BY <1>1 DEF LoaderInit
  <2>4. turn \in Seq(Operations \cup {"action"})
    BY DEF LoaderInit
  <2> HIDE DEF Operations
  <2> QED BY <1>1, <2>2, <2>3, <2>4 DEF LoaderInit, TypeOK, Pump
<1>3. Coordinated
  BY <1>1 DEF LoaderInit, Coordinated
<1>4. Remembered /\ Ended
  BY DEF LoaderInit, Remembered, Ended
<1>5. Certified
  <2>1. \E f \in Folder : left[f] # 0
    BY <1>1 DEF LoaderInit
  <2>2. \A f \in Folder : left[f] + listed[f] <= Pages[f]
    BY <1>1 DEF LoaderInit
  <2> QED BY <1>1, <2>1, <2>2 DEF LoaderInit, Certified, AllComplete, Complete
<1>6. Covered
  BY <1>1 DEF LoaderInit, Covered, Nothing
<1> QED BY <1>2, <1>3, <1>4, <1>5, <1>6 DEF LoaderInv, Covered

\* The loader keeps its counts and its place; the session's slot has one owner,
\* the head of the queue; nobody is left asleep by an idle loader; a stopped
\* loader stays stopped; and only a complete snapshot is certified.
THEOREM LoaderSafe == LoaderSpec => []LoaderInv
<1>1. LoaderInv /\ [LoaderNext]_loaderVars => LoaderInv'
  <2> SUFFICES ASSUME LoaderInv, [LoaderNext]_loaderVars PROVE LoaderInv'
    OBVIOUS
  <2>1. Ready /\ Coordinated /\ Remembered /\ Ended
    BY DEF Ready, LoaderInv
  <2>2. TypeOK' /\ Covered'
    BY <2>1, LoaderTypes, LoaderCovers
  <2>3. Coordinated' /\ Certified'
    BY <2>1, LoaderCoordinates, LoaderCertifies
  <2>4. Remembered' /\ Ended'
    BY <2>1, LoaderRemembers, LoaderEnds DEF Ready
  <2> QED BY <2>2, <2>3, <2>4 DEF LoaderInv, Covered
<1> QED BY <1>1, InitLoader, PTL DEF LoaderSpec
=============================================================================
