----------------------------- MODULE MailSyncInv -----------------------------
(***************************************************************************)
(* Why no mail is lost: the inductive invariant behind NoLostMail.         *)
(*                                                                         *)
(* A message that changes is added to every history id held anywhere, so   *)
(* whatever was read about a message before the change cannot make any     *)
(* checkpoint promise too much: the message is still to be reported to     *)
(* every holder (Reported).  What is left are messages that did not change *)
(* since they were read, and those are in the cache as they are.           *)
(***************************************************************************)
EXTENDS MailSync

InScope(m)  == mail[m] \in InboxLabels
Has(x, m)   == IsId(x) => m \in x

\* The messages that every history id held anywhere still reports.
Reported ==
  {m \in Msg : /\ Has(marker, m) /\ Has(viewMarker, m)
               /\ Has(start, m) /\ Has(fence, m)
               /\ \A p \in Proc : Has(base[p], m)
               /\ \A v \in Viewer : Has(snap[v], m)}

\* History ids are totally ordered.
Held  == {marker, viewMarker, start, fence}
         \cup {base[p] : p \in Proc} \cup {snap[v] : v \in Viewer}
Chain == \A x, y \in {id \in Held : IsId(id)} : x \subseteq y \/ y \subseteq x

\* What the memory of the lock's owner looks like in each command and phase.
Shape ==
  /\ job = "none" => /\ phase = "none" /\ fence = NoMarker
                     /\ queue = {} /\ got = NothingFetched
  /\ job # "work" => mode = "none" /\ start = NoMarker /\ hit = {} /\ acts = {}
  /\ job \in {"refresh", "page"} => phase = "fetch"
  /\ job \notin {"work", "cache"} => ~cut
  /\ job = "page" => fence = NoMarker
  /\ job \in {"cache", "refresh"} => IsId(fence)
  /\ phase \in {"none", "plan", "list"} =>
       queue = {} /\ got = NothingFetched /\ hit = {} /\ acts = {}
  /\ phase \in {"planned", "apply", "record"} => job = "work" /\ queue = {}
  /\ (job = "work" /\ phase # "plan") => mode # "none"
  /\ mode = "cacheFirst" => fence = start
  /\ (job = "work" /\ mode = "full") => ~IsId(start)

\* The stored and the loaded markers cover the mailbox.
AllCovered ==
  \A m \in Msg :
    /\ Covered(marker, m) /\ Covered(viewMarker, m) /\ Covered(start, m)
    /\ \A p \in Proc : Covered(base[p], m)

\* What was read of a message is true or known to be out of date.
ReadsTrue ==
  \A m \in Msg :
    /\ got[m] # "none" /\ got[m] # mail[m] => m \in Reported
    /\ m \in hit /\ InScope(m) => m \in Reported
    /\ m \in erased => mail[m] = "gone"

\* A listing or a history missed only what has changed since, and a scan of
\* the history also what is in the cache as it is.
Discovered ==
  (/\ phase \in {"fetch", "planned", "apply", "record"}
   /\ job \in {"work", "cache", "refresh"} /\ ~lost /\ ~cut /\ IsId(fence)) =>
    \A m \in Msg :
      (InScope(m) /\ m \notin queue /\ got[m] = "none") =>
        m \in Reported \/ ((job = "refresh" \/ mode \in {"history", "cacheFirst"})
                        /\ (m \in fence \/ Current(m)))

\* A snapshot that has listed the Inbox has seen what did not change since it
\* began.
SnapshotSound ==
  \A v \in Viewer :
    (IsId(snap[v]) /\ "inbox" \notin todo[v] /\ ~spoiled[v]) =>
      \A m \in Msg \ snap[v] : InScope(m) =>
        \/ m \in active[v] /\ Current(m)
        \/ /\ job = "page" /\ viewer = v
           /\ m \in queue \/ got[m] = mail[m] \/ lost

\* The inductive invariant: what a command read, or a snapshot verified, is
\* true or still to be reported, so every id it may certify covers the mailbox
\* (work.ts, cache.ts, view-sync.ts, view-cache.ts checkpoints).
SyncInv == /\ TypeOK /\ Shape /\ Chain /\ ReadsTrue
           /\ overtaken = {} => AllCovered /\ Discovered /\ SnapshotSound

=============================================================================
