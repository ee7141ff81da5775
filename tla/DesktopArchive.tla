---------------------------- MODULE DesktopArchive ----------------------------
(***************************************************************************)
(* Archiving and restoring threads in the desktop's inbox (screens/        *)
(* Inbox.tsx): the optimistic override of a row, its request to the hub,   *)
(* the replica that catches up, and the ways to take a write back - the    *)
(* toast's button and the undo stack of z and Cmd-Z.                       *)
(*                                                                         *)
(* A write is named by its number, and so is the UndoEntry made for it: a  *)
(* later entry has a greater number, so the undo stack is a set.           *)
(***************************************************************************)
EXTENDS Naturals, FiniteSets, SequencesExt

CONSTANTS
  Rows,         \* the threads, in the inbox's order
  Nobody,       \* no thread
  MaxArchives,  \* bound on the requests
  UndoMax,      \* UNDO_STACK_MAX
  Reorders,     \* whether the hub may serve two requests of a thread in either order
  MaxArchiveFaults  \* bound on requests that fail

Threads == ToSet(Rows)

ASSUME ArchiveAssumption ==
  /\ Rows \in Seq(Threads) /\ IsInjective(Rows)
  /\ Nobody \notin Threads
  /\ MaxArchives \in Nat /\ UndoMax \in Nat /\ MaxArchiveFaults \in Nat
  /\ Reorders \in BOOLEAN

VARIABLES
  server,    \* where the hub has the thread: threads.archived_at
  replica,   \* where Zero's copy has it
  override,  \* pendingArchive
  leaving,   \* leavingIds
  undoStack,
  requests,  \* the writes, as they were sent and as far as they got
  note,      \* what the toast offers: to undo or to retry a write, 0 for nothing
  view, selected,
  bulk,      \* archiveAll: the ids its question named
  archiveFaults

archiveVars == <<server, replica, override, leaving, undoStack, requests, note,
                 view, selected, bulk, archiveFaults>>

Places == {"inbox", "archived"}
Other(p) == IF p = "inbox" THEN "archived" ELSE "inbox"

ArchiveInit ==
  /\ server = [t \in Threads |-> "inbox"] /\ replica = server
  /\ override = [t \in Threads |-> "none"]
  /\ leaving = {}
  /\ undoStack = {} /\ requests = <<>>
  /\ note = [action |-> "none", write |-> 0]
  /\ view = "inbox" /\ selected = Nobody
  /\ bulk = {}
  /\ archiveFaults = 0

-----------------------------------------------------------------------------
(* What is on screen.                                                       *)

ShownIn(t) == IF override[t] = "none" THEN replica[t] ELSE override[t]

RowIds == {t \in Threads : t \in leaving \/ ShownIn(t) = view}

Above(t, s) == \E i, j \in DOMAIN Rows : i < j /\ Rows[i] = t /\ Rows[j] = s

\* The archived list goes by the time of archiving, so any row may be the next.
NeighbourAfter(t, next) ==
  LET others == RowIds \ {t}
      below == {r \in others : Above(t, r)}
  IN  \/ (t \notin RowIds \/ others = {}) /\ next = Nobody
      \/ /\ t \in RowIds /\ next \in others
         /\ view = "inbox" =>
              IF below # {} THEN next \in below /\ \A r \in below : ~Above(r, next)
                            ELSE \A r \in others : ~Above(next, r)

-----------------------------------------------------------------------------
(* toggle(): the override and the request at once, and an entry for it.    *)

Newest(entries) == {e \in entries : Cardinality({f \in entries : f > e}) < UndoMax}

UndoStackAfter(new, undoes) ==
  IF undoes = 0 THEN Newest(undoStack \cup new) ELSE undoStack \ {undoes}

Toggle(ids, to, undoes) ==
  LET n == Len(requests)
  IN  /\ n + Len(ids) <= MaxArchives
      /\ leaving' = leaving \cup ToSet(ids)
      /\ override' = [t \in Threads |-> IF t \in ToSet(ids) THEN to ELSE override[t]]
      /\ requests' = requests \o
           [k \in DOMAIN ids |-> [pc |-> "sent", id |-> ids[k], to |-> to, undoes |-> undoes]]
      /\ undoStack' = UndoStackAfter(n + 1 .. n + Len(ids), undoes)
      /\ note' = [action |-> "undo", write |-> n + Len(ids)]
      /\ UNCHANGED <<server, replica, view, archiveFaults>>

\* e, u and a row's own button.  An open question covers the list and holds the focus:
\* only Cmd-Z and the toast are within reach.
ArchiveAndAdvance(t) ==
  /\ bulk = {}
  /\ Toggle(<<t>>, Other(view), 0)
  /\ IF t = selected THEN NeighbourAfter(t, selected') ELSE UNCHANGED selected
  /\ UNCHANGED bulk

PressArchive == selected # Nobody /\ ArchiveAndAdvance(selected)
PressRowButton(t) == t \in RowIds /\ ArchiveAndAdvance(t)

Undo(entry) ==
  /\ Toggle(<<requests[entry].id>>, Other(requests[entry].to), entry)
  /\ selected' = requests[entry].id
  /\ UNCHANGED bulk

PressUndo == \E e \in undoStack : (\A f \in undoStack : f <= e) /\ Undo(e)
PressToastUndo == note.action = "undo" /\ Undo(note.write)

\* Retry passes what the failed toggle was given, the entry it took back included.
PressRetry ==
  LET w == requests[note.write]
  IN  /\ note.action = "retry"
      /\ Toggle(<<w.id>>, w.to, w.undoes)
      /\ IF w.undoes # 0 THEN selected' = w.id ELSE UNCHANGED selected
      /\ UNCHANGED bulk

AskArchiveAll ==
  /\ view = "inbox" /\ RowIds # {} /\ bulk = {}
  /\ bulk' = RowIds
  /\ UNCHANGED <<server, replica, override, leaving, undoStack, requests, note, view, selected,
                 archiveFaults>>

\* The ids are sent in the order of the list.
Listings(ids) ==
  {s \in [1 .. Cardinality(ids) -> ids] : \A i, j \in DOMAIN s : i < j => Above(s[i], s[j])}

ConfirmArchiveAll(yes) ==
  /\ bulk # {}
  /\ bulk' = {}
  /\ IF yes
       THEN \E ids \in Listings(bulk) : Toggle(ids, "archived", 0)
       ELSE UNCHANGED <<server, replica, override, leaving, undoStack, requests, note, view,
                        archiveFaults>>
  /\ UNCHANGED selected

-----------------------------------------------------------------------------
(* A request: the hub's UPDATE, whose answer changes nothing, or the catch. *)

InOrder(n) == \A m \in 1 .. n - 1 : requests[m].id = requests[n].id => requests[m].pc # "sent"

SetThreadArchived(n) ==
  /\ requests[n].pc = "sent"
  /\ Reorders \/ InOrder(n)
  /\ server' = [server EXCEPT ![requests[n].id] = requests[n].to]
  /\ requests' = [requests EXCEPT ![n].pc = "applied"]
  /\ UNCHANGED <<replica, override, leaving, undoStack, note, view, selected,
                 bulk, archiveFaults>>

RolledBackToOther(n) == [override EXCEPT ![requests[n].id] = Other(requests[n].to)]

RolledBack(n) == [override EXCEPT ![requests[n].id] = "none"]

\* The hub is not reached, refuses, or its answer is lost.
RequestFails(n) ==
  /\ requests[n].pc \in {"sent", "applied"}
  /\ Reorders \/ InOrder(n)
  /\ archiveFaults < MaxArchiveFaults /\ archiveFaults' = archiveFaults + 1
  /\ requests' = [requests EXCEPT ![n].pc = "failed"]
  /\ override' = RolledBack(n)
  /\ leaving' = leaving \ {requests[n].id}
  /\ undoStack' = undoStack \ {n}
  /\ note' = [action |-> "retry", write |-> n]
  /\ UNCHANGED <<server, replica, view, selected, bulk>>

-----------------------------------------------------------------------------
(* The replica moves; the rows are made anew, and the effect that watches  *)
(* them drops the overrides that the replica has reached.                  *)

Replicate(changed) ==
  LET rows == [t \in Threads |-> IF t \in changed THEN server[t] ELSE replica[t]]
  IN  /\ replica' = rows
      /\ override' = [t \in Threads |-> IF override[t] = rows[t] THEN "none" ELSE override[t]]
      /\ UNCHANGED <<server, leaving, undoStack, requests, note, view, selected,
                     bulk, archiveFaults>>

LeaveEnds(t) ==
  /\ t \in leaving
  /\ leaving' = leaving \ {t}
  /\ UNCHANGED <<server, replica, override, undoStack, requests, note, view,
                 selected, bulk, archiveFaults>>

ToastGoes ==
  /\ note.action # "none"
  /\ note' = [action |-> "none", write |-> 0]
  /\ UNCHANGED <<server, replica, override, leaving, undoStack, requests, view, selected, bulk,
                 archiveFaults>>

Select(t) ==
  /\ bulk = {} /\ t \in RowIds /\ t # selected
  /\ selected' = t
  /\ UNCHANGED <<server, replica, override, leaving, undoStack, requests, note,
                 view, bulk, archiveFaults>>

SwitchView ==
  /\ bulk = {} /\ view' = Other(view)
  /\ UNCHANGED <<server, replica, override, leaving, undoStack, requests, note, selected, bulk,
                 archiveFaults>>

-----------------------------------------------------------------------------
Press ==
  \/ PressArchive \/ PressUndo \/ PressToastUndo \/ PressRetry
  \/ AskArchiveAll \/ SwitchView \/ ToastGoes
  \/ \E yes \in BOOLEAN : ConfirmArchiveAll(yes)
  \/ \E t \in Threads : PressRowButton(t) \/ Select(t)

ArchiveNext ==
  \/ Press
  \/ \E n \in DOMAIN requests : SetThreadArchived(n) \/ RequestFails(n)
  \/ \E changed \in SUBSET Threads : Replicate(changed)
  \/ \E t \in Threads : LeaveEnds(t)

ArchiveSpec == ArchiveInit /\ [][ArchiveNext]_archiveVars

-----------------------------------------------------------------------------
(* Properties.                                                             *)

Quiet ==
  /\ \A n \in DOMAIN requests : requests[n].pc # "sent"
  /\ replica = server

(* When no request is under way and the replica has caught up, every row   *)
(* is where the hub has it: no override outlives the writes that made it,  *)
(* whatever failed and in whatever order.                                  *)
ScreenAgrees == Quiet => \A t \in Threads : ShownIn(t) = server[t]
=============================================================================
