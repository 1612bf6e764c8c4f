----------------------------- MODULE ViewSession -----------------------------
(***************************************************************************)
(* One session of `gmail view` at its list and in its read view            *)
(* (src/src/commands/view.ts): the rows it drew, the selection, the row    *)
(* actions, the quick undo, and what they leave in Gmail and in the cache  *)
(* while the background loader, other gmail processes and other mail       *)
(* clients go on.                                                          *)
(*                                                                         *)
(* The session acts on the records of the last redraw, not on the rows as  *)
(* they are by then.  Every exclusive section is one step: nothing of this *)
(* program runs beside it, and what another client does to a message       *)
(* between two of its requests it could have done before or after them.    *)
(*                                                                         *)
(* Gmail's history is kept as the set of messages it reports since the     *)
(* view's marker; how markers move is MailSync's subject, and so are       *)
(* unread mail, deleted mail and assessments.  Filters and search only     *)
(* narrow a folder and are left out, as is the cursor: an action without   *)
(* rows acts on the selection, or on any one row.                          *)
(***************************************************************************)
EXTENDS Naturals, FiniteSets

CONSTANTS
  Msg,         \* messages, numbered by date
  Size,        \* page sizes
  NoRow,       \* a message that is not cached; nothing written, nothing read
  MaxOutside,  \* bound: changes by other clients and other commands
  MaxActs,     \* bound: changes by this session
  MaxFaults    \* bound: commands with a failed request

Label == {"INBOX", "SPAM", "TRASH", "STARRED"}
Folders == {"inbox", "archive", "trash", "spam"}

ASSUME SessionConstants ==
  /\ Msg \subseteq Nat /\ IsFiniteSet(Msg) /\ Size \subseteq Nat \ {0} /\ \A l \in SUBSET Label : NoRow # l
  /\ {MaxOutside, MaxActs, MaxFaults} \subseteq Nat

VARIABLES
  mail,       \* Gmail: the labels of each message
  row,        \* SQLite messages: the label snapshot of each row
  reported,   \* messages Gmail's history reports since the view's marker
  shown,      \* the rows as the last redraw read them
  folder,     \* activeFolder
  page,       \* the page drawn, the first is 0
  size,       \* pageSize
  selection,  \* rows of the page selected for a bare row action
  reading,    \* the message in the read view and its record
  last,       \* lastTrashed: the records of the last delete
  meant,      \* observer: the messages the user selected
  steady,     \* observer: since then no row came into or left the page
  was,        \* observer: labels of the messages of the last delete before it
  buried,     \* observer: rows put back to an older record without a trace in Gmail
  outsides, acts, faults

store  == <<mail, row, reported>>
screen == <<shown, folder, page, size, selection, meant, steady>>
bounds == <<outsides, acts, faults>>
vars   == <<mail, row, reported, shown, folder, page, size, selection, reading,
            last, meant, steady, was, buried, outsides, acts, faults>>

-----------------------------------------------------------------------------
\* folderForLabelSnapshot
FolderOf(l) == IF "TRASH" \in l THEN "trash" ELSE IF "SPAM" \in l THEN "spam"
               ELSE IF "INBOX" \in l THEN "inbox" ELSE "archive"

\* What deleting makes of labels, at Gmail as in the cache.
Trashed(l) == (l \ {"INBOX", "SPAM"}) \cup {"TRASH"}

\* The rows of a folder, and the place of each, the newest first, from 0.
Rows(rows, f)     == {m \in Msg : rows[m] # NoRow /\ FolderOf(rows[m]) = f}
Place(R, m)    == Cardinality({x \in R : x > m})

\* pageItems, and the last page there is.
Items(rows, f, p, s) == LET R == Rows(rows, f) IN {m \in R : Place(R, m) \div s = p}
LastPage(rows, f, s) == LET n == Cardinality(Rows(rows, f)) IN IF n = 0 THEN 0 ELSE (n - 1) \div s

Drawn    == Items(shown, folder, page, size)
RowsAt(I) == {m \in Drawn : Place(Rows(shown, folder), m) % size \in I}

NoUndo  == [m \in {} |-> {}]
Listing == reading = NoRow

Init ==
  /\ mail = [m \in Msg |-> {"INBOX"}]
  /\ row \in {[m \in Msg |-> IF m \in C THEN mail[m] ELSE NoRow] : C \in SUBSET Msg}
  /\ reported = {} /\ shown = row
  /\ folder = "inbox" /\ page = 0 /\ size \in Size
  /\ selection = {} /\ reading = NoRow /\ last = NoUndo
  /\ meant = {} /\ steady = TRUE /\ was = [m \in Msg |-> NoRow] /\ buried = {}
  /\ outsides = 0 /\ acts = 0 /\ faults = 0

-----------------------------------------------------------------------------
(***************************************************************************)
(* Beside the session.                                                     *)
(***************************************************************************)
Outside == outsides < MaxOutside /\ outsides' = outsides + 1
Forget  == was' = [m \in Msg |-> IF mail'[m] # mail[m] THEN NoRow ELSE was[m]]

\* Another client files, restores, reports, deletes or stars a message.
Relabel(m) ==
  /\ Outside
  /\ \E l \in {mail[m] \ {"INBOX"}, (mail[m] \ {"SPAM", "TRASH"}) \cup {"INBOX"},
               (mail[m] \ {"INBOX"}) \cup {"SPAM"}, Trashed(mail[m]), mail[m] \cup {"STARRED"}} :
       l # mail[m] /\ mail' = [mail EXCEPT ![m] = l]
  /\ reported' = reported \cup {m}
  /\ Forget
  /\ UNCHANGED <<row, screen, reading, last, buried, acts, faults>>

\* A cleanup, in another process or as a command of this list, trashes,
\* archives or stars a message it read, and its row with it.
Cleanup(m) ==
  /\ Outside /\ FolderOf(mail[m]) \in {"inbox", "spam"}
  /\ \E l \in {Trashed(mail[m]), mail[m] \ {"INBOX"}, mail[m] \cup {"STARRED"}} :
       /\ l # mail[m]
       /\ mail' = [mail EXCEPT ![m] = l] /\ row' = [row EXCEPT ![m] = l]
  /\ reported' = reported \cup {m} /\ buried' = buried \ {m}
  /\ Forget
  /\ UNCHANGED <<screen, reading, last, acts, faults>>

\* The background loader or gmail cache reads a message anew.
Load(m) ==
  /\ row[m] # mail[m]
  /\ row' = [row EXCEPT ![m] = mail[m]] /\ buried' = buried \ {m}
  /\ UNCHANGED <<mail, reported, screen, reading, last, was, bounds>>

\* refreshViewCache: the reported messages are read, and the marker moves on.
Refreshed ==
  /\ row' = [m \in Msg |-> IF m \in reported THEN mail[m] ELSE row[m]]
  /\ reported' = {} /\ buried' = buried \ reported
  /\ UNCHANGED mail

\* Another session refreshes.
Refresh == reported # {} /\ Refreshed /\ UNCHANGED <<screen, reading, last, was, bounds>>

-----------------------------------------------------------------------------
(***************************************************************************)
(* The list.  Every command ends in a redraw, which reads the rows anew,   *)
(* keeps the page within the folder and drops selected rows the page does  *)
(* not have any more.                                                      *)
(***************************************************************************)
Draw(f, p, s, sel) ==
  /\ shown' = row' /\ folder' = f /\ size' = s
  /\ page' = LET end == LastPage(row', f, s) IN IF p > end THEN end ELSE p
  /\ selection' = {i \in sel : i < Cardinality(Items(row', f, page', s))}

Unmoved == Items(row', folder, page, size) = Drawn
Redraw(f, p, s, sel) ==
  /\ Draw(f, p, s, sel)
  /\ steady' = (selection' = {} \/ (steady /\ Unmoved))
  /\ meant' = IF selection' = {} THEN {} ELSE meant

\* A command that is refused, fails, or is not one.
Redrawn ==
  /\ Listing /\ UNCHANGED store
  /\ Redraw(folder, page, size, selection)
  /\ UNCHANGED <<reading, last, was, buried, bounds>>

\* A plausible bug, for a mutant: the selection is kept.
NavigateOnly(f, p, s) ==
  /\ Listing /\ UNCHANGED store
  /\ Redraw(f, p, s, selection)
  /\ UNCHANGED <<reading, last, was, buried, bounds>>

\* The folder keys, n, p, esc, [, ], + and -: rememberView, restoreView.
Navigate(f, p, s) ==
  /\ Listing /\ UNCHANGED store
  /\ Redraw(f, p, s, {})
  /\ UNCHANGED <<reading, last, was, buried, bounds>>

\* Shift and an arrow, or row numbers without an action.
Select(sel) ==
  /\ Listing /\ UNCHANGED store
  /\ sel # {} /\ sel \subseteq 0..Cardinality(Drawn) - 1
  /\ Draw(folder, page, size, sel)
  /\ meant' = RowsAt(sel) /\ steady' = (selection' = {} \/ Unmoved)
  /\ UNCHANGED <<reading, last, was, buried, bounds>>

\* u: the selection is dropped only with the page.
Update ==
  /\ Listing /\ Refreshed
  /\ Redraw(folder, 0, size, IF page = 0 THEN selection ELSE {})
  /\ UNCHANGED <<reading, last, was, bounds>>

-----------------------------------------------------------------------------
(***************************************************************************)
(* What one row action does to one message: the labels at Gmail, g, become *)
(* mail; the row becomes row, from the record c, unless that is NoRow; and *)
(* the caller is told ok.  A request is refused, or carried out and its    *)
(* answer lost; of two requests the second may be refused.                 *)
(***************************************************************************)
Answers == {"ok", "refused", "lost", "half"}

Result(g, r, ok) == [mail |-> g, row |-> r, ok |-> ok]
Failed(g) == Result(g, NoRow, FALSE)

\* A plausible bug, for a mutant: the row moves before Gmail agrees.
TrashLocally(c, g, a) == IF a \in {"ok", "lost"} THEN Result(Trashed(g), Trashed(c), a = "ok")
                         ELSE Result(g, Trashed(c), FALSE)

\* trashCached.
Trash(c, g, a) == IF a = "ok" THEN Result(Trashed(g), Trashed(c), TRUE)
                  ELSE Failed(IF a = "lost" THEN Trashed(g) ELSE g)

Starring(l, on) == IF on THEN l \cup {"STARRED"} ELSE l \ {"STARRED"}

\* setCachedStar, of a record that is not already so.
Star(c, g, a, on) ==
  IF a = "ok" THEN Result(Starring(g, on), Starring(c, on), TRUE)
  ELSE Failed(IF a = "lost" THEN Starring(g, on) ELSE g)

\* The second request of a move adds INBOX, and takes SPAM off a record that had it.
Inboxed(l, c) == (l \ ({"SPAM"} \cap c)) \cup {"INBOX"}

\* moveCachedToInbox: a record in Trash takes two requests, the first of which
\* is not taken back when the second fails.
Move(c, g, a) ==
  LET untrashed == g \ ({"TRASH"} \cap c)
  IN  IF FolderOf(c) = "inbox" \/ a = "refused" THEN Failed(g)
      ELSE IF a = "ok" THEN Result(Inboxed(untrashed, c), (c \ {"SPAM", "TRASH"}) \cup {"INBOX"}, TRUE)
      ELSE IF FolderOf(c) # "trash" THEN Failed(IF a = "lost" THEN Inboxed(g, c) ELSE g)
      ELSE Result(IF a = "lost" THEN Inboxed(untrashed, c) ELSE untrashed, c \ {"TRASH"}, FALSE)

\* A plausible bug, for a mutant: the labels before the delete are not restored.
UntrashOnly(c, g, a) ==
  IF a = "refused" THEN Failed(g)
  ELSE Result(g \ {"TRASH"}, IF a = "ok" THEN c ELSE NoRow, a = "ok")

\* ;u for one record: untrashMessage removes TRASH, then adds the labels of before.
Untrash(c, g, a) ==
  IF a = "refused" THEN Failed(g)
  ELSE IF a = "half" THEN Failed(g \ {"TRASH"})
  ELSE Result((g \ {"TRASH"}) \cup c, IF a = "ok" THEN c ELSE NoRow, a = "ok")

\* The answers to the requests for a set of messages.
AnswersFor(T) ==
  {a \in [T -> Answers] : Cardinality({m \in T : a[m] # "ok"}) <= MaxFaults - faults}

\* A command for the messages of E: what Gmail and the rows become.  The row
\* of m is expected to be over[m]; that it is another by then, and that Gmail
\* has nothing to report of the command, is what buried remembers.
Acted(E, over, a) ==
  LET D == DOMAIN E
      changed == {m \in D : E[m].mail # mail[m]}
  IN  /\ faults' = faults + Cardinality({m \in D : a[m] # "ok"})
      /\ mail' = [m \in Msg |-> IF m \in D THEN E[m].mail ELSE mail[m]]
      /\ row' = [m \in Msg |-> IF m \in D /\ E[m].row # NoRow THEN E[m].row ELSE row[m]]
      /\ reported' = reported \cup changed
      /\ buried' = (buried \ changed)
                   \cup {m \in D \ changed : E[m].row # NoRow /\ row[m] # over[m]}
      /\ UNCHANGED outsides

Act == acts < MaxActs /\ acts' = acts + 1

\* The requests of the three row actions, from the records C of the messages T.
DeleteFrom(C, T, a) == [m \in T |-> Trash(C[m], mail[m], a[m])]
MoveFrom(C, T, a)   == [m \in T |-> Move(C[m], mail[m], a[m])]
StarFrom(C, T, a, on) == [m \in T |-> Star(C[m], mail[m], a[m], on)]

\* What ;u needs of a delete: the records before it, if anything was deleted.
Remember(C, E) ==
  LET done == {m \in DOMAIN E : E[m].ok}
  IN  /\ last' = IF done = {} THEN last ELSE [m \in done |-> C[m]]
      /\ was' = [m \in Msg |-> IF m \in done /\ mail[m] = C[m] THEN mail[m]
                               ELSE IF done # {} \/ mail'[m] # mail[m] THEN NoRow ELSE was[m]]

-----------------------------------------------------------------------------
(***************************************************************************)
(* Row actions, for the rows of the selection or for rows given by number. *)
(* They go on after a failure, and they drop the selection.                *)
(***************************************************************************)
Asked(T) == Listing /\ Act /\ T # {} /\ T \subseteq Drawn

Deletable(T) == {m \in T : FolderOf(shown[m]) # "trash"}

\* d and dd.
Delete(T) ==
  LET D == Deletable(T)
  IN  /\ Asked(T) /\ D # {}
      /\ \E a \in AnswersFor(D) :
           /\ Acted(DeleteFrom(shown, D, a), shown, a)
           /\ Remember(shown, DeleteFrom(shown, D, a))
      /\ Redraw(folder, page, size, {})
      /\ UNCHANGED reading

\* s: unstar if all of them are starred; the others need no request.
StarRows(T) ==
  LET on == \E m \in T : "STARRED" \notin shown[m]
      D  == {m \in T : Starring(shown[m], on) # shown[m]}
  IN  /\ Asked(T)
      /\ \E a \in AnswersFor(D) : Acted(StarFrom(shown, D, a, on), shown, a)
      /\ Forget /\ Redraw(folder, page, size, {})
      /\ UNCHANGED <<reading, last>>

\* i: not for rows of the Inbox.
MoveToInbox(T) ==
  /\ Asked(T) /\ folder # "inbox"
  /\ \E a \in AnswersFor(T) : Acted(MoveFrom(shown, T, a), shown, a)
  /\ Forget /\ Redraw(folder, page, size, {})
  /\ UNCHANGED <<reading, last>>

\* ;u: all records of the last delete, and all again if one of them failed.
Undo ==
  LET D == DOMAIN last
  IN  /\ Listing /\ D # {}
      /\ \E a \in AnswersFor(D) :
           LET E == [m \in D |-> Untrash(last[m], mail[m], a[m])]
           IN  /\ Acted(E, [m \in D |-> Trashed(last[m])], a)
               /\ last' = IF \A m \in D : E[m].ok THEN NoUndo ELSE last
      /\ was' = [m \in Msg |-> IF last' = NoUndo THEN NoRow ELSE was[m]]
      /\ Redraw(folder, page, size, selection)
      /\ UNCHANGED <<reading, acts>>

-----------------------------------------------------------------------------
(***************************************************************************)
(* The read view: it acts on the record it read from Gmail on opening.     *)
(***************************************************************************)
Read(m) ==
  /\ reading' = [at |-> m, labels |-> mail[m]]
  /\ row' = [row EXCEPT ![m] = mail[m]] /\ buried' = buried \ {m}
  /\ UNCHANGED <<mail, reported, screen, last, was, bounds>>

Open(m) == Listing /\ m \in Drawn /\ Read(m)

\* The next or the previous message of the folder as it was drawn.
Turn(m) ==
  /\ ~Listing /\ m \in Rows(shown, folder)
  /\ LET here == Place(Rows(shown, folder), reading.at)
         there == Place(Rows(shown, folder), m)
     IN  there = here + 1 \/ here = there + 1
  /\ Read(m)

\* Opened with Enter, the selection is kept; with a row action, dropped.
BackToList == reading' = NoRow /\ \E s \in {selection, {}} : Redraw(folder, page, size, s)

Back ==
  /\ ~Listing /\ UNCHANGED store /\ BackToList
  /\ UNCHANGED <<last, was, buried, bounds>>

Here == [m \in {reading.at} |-> reading.labels]
Stay(E) == /\ reading' = [reading EXCEPT !.labels = IF E[reading.at].row = NoRow THEN @ ELSE E[reading.at].row]
           /\ UNCHANGED screen

ReadDelete ==
  /\ ~Listing /\ Act /\ FolderOf(reading.labels) # "trash"
  /\ \E a \in AnswersFor({reading.at}) :
       LET E == DeleteFrom(Here, {reading.at}, a)
       IN  /\ Acted(E, Here, a) /\ Remember(Here, E)
           /\ IF E[reading.at].ok THEN BackToList ELSE Stay(E)

ReadStar ==
  /\ ~Listing
  /\ \E a \in AnswersFor({reading.at}) :
       LET E == StarFrom(Here, {reading.at}, a, "STARRED" \notin reading.labels)
       IN  Acted(E, Here, a) /\ Stay(E)
  /\ Forget /\ Act /\ UNCHANGED last

ReadMove ==
  /\ ~Listing /\ FolderOf(reading.labels) # "inbox"
  /\ \E a \in AnswersFor({reading.at}) :
       LET E == MoveFrom(Here, {reading.at}, a)
       IN  Acted(E, Here, a) /\ IF E[reading.at].ok THEN BackToList ELSE Stay(E)
  /\ Forget /\ Act /\ UNCHANGED last

-----------------------------------------------------------------------------
Next ==
  \/ \E m \in Msg : Relabel(m) \/ Cleanup(m) \/ Load(m) \/ Open(m) \/ Turn(m)
  \/ Refresh \/ Redrawn \/ Update \/ Undo \/ Back \/ ReadDelete \/ ReadStar \/ ReadMove
  \/ \E f \in Folders, s \in Size : \E p \in 0..LastPage(row, f, s) : Navigate(f, p, s)
  \/ \E sel \in SUBSET (0..Cardinality(Msg) - 1) : Select(sel)
  \/ \E T \in SUBSET Msg : Delete(T) \/ StarRows(T) \/ MoveToInbox(T)

Spec == Init /\ [][Next]_vars

-----------------------------------------------------------------------------
\* Types: what the stores, the screen, the read view and ;u hold are labels, and
\* what ;u would restore was not in Trash.
Stored ==
  /\ mail \in [Msg -> SUBSET Label]
  /\ row \in [Msg -> {NoRow} \cup SUBSET Label]
  /\ shown \in [Msg -> {NoRow} \cup SUBSET Label]
  /\ reading \in {NoRow} \cup [at : Msg, labels : SUBSET Label]
  /\ DOMAIN last \subseteq Msg /\ \A m \in DOMAIN last : last[m] \in SUBSET (Label \ {"TRASH"})

\* A row that differs from Gmail is one Gmail's history still reports, so that
\* the next refresh repairs it, however many row actions failed half way, whose
\* answers were lost, or which were made from a record read long before
\* (view.ts:1579, view.ts:1631); except where a record was put over a newer row
\* by a command that changed nothing in Gmail (view.ts:796).
StaleIsReported ==
  \A m \in Msg : row[m] \in {NoRow, mail[m]} \/ m \in reported \cup buried

\* An undo that reports no failure gives every message of the last delete the
\* labels it had before it, at Gmail and in its row, whatever failed in the
\* attempts before; unless the record was out of date when it was deleted, or
\* something else has changed the message since (view.ts:271, view.ts:811).
UndoRestores ==
  [][last # NoUndo /\ last' = NoUndo =>
       \A m \in DOMAIN last : was[m] = NoRow \/ (mail'[m] = was[m] /\ row'[m] = was[m])]_vars

\* While no row comes into the page or leaves it, an action without rows is for
\* messages the user selected, whatever folders, pages, page sizes, read
\* messages and failed commands lie in between (view.ts:282, view.ts:355).
SelectionIsMeant ==
  steady => RowsAt(selection) \subseteq meant
=============================================================================
