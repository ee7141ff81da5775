---------------------------- MODULE DesktopProofs ----------------------------
(***************************************************************************)
(* Theorems about what the desktop shows: its rows, its settings and the   *)
(* layout of its shell.                                                    *)
(*                                                                         *)
(* A row shows what was asked of it until the replica has caught up (the   *)
(* override), so once nothing is under way it must show what the hub has   *)
(* (ScreenAgrees), whichever requests failed on the way.  The invariant    *)
(* that shows it, ArchiveInv, ties the three together by way of the latest *)
(* request of the thread: an override is what that request asks for and    *)
(* the request has not failed (Backed), and once it is applied the hub has *)
(* what it asked for (Reached) - which holds because the requests of a     *)
(* thread are served in their order (InTurn).                              *)
(***************************************************************************)
EXTENDS DesktopArchive, DesktopSettings, DesktopShell, FiniteSetTheorems, SequenceTheorems,
  TLAPS

-----------------------------------------------------------------------------
(* The types of archiving.                                                 *)

Requests ==
  [pc : {"sent", "applied", "failed"}, id : Threads, to : Places, undoes : Nat]

ArchiveTypeOK ==
  /\ server \in [Threads -> Places] /\ replica \in [Threads -> Places]
  /\ override \in [Threads -> Places \cup {"none"}]
  /\ leaving \subseteq Threads
  /\ requests \in Seq(Requests)
  /\ undoStack \subseteq DOMAIN requests
  /\ note \in [action : {"none", "undo", "retry"}, write : Nat]
  /\ note.action # "none" => note.write \in DOMAIN requests
  /\ view \in Places /\ selected \in Threads \cup {Nobody}
  /\ bulk \subseteq Threads
  /\ archiveFaults \in Nat

(* What the type says of a request.                                        *)
LEMMA RequestFields ==
  ASSUME ArchiveTypeOK
  PROVE  /\ DOMAIN requests = 1 .. Len(requests) /\ Len(requests) \in Nat
         /\ \A n \in DOMAIN requests :
              /\ requests[n].pc \in {"sent", "applied", "failed"}
              /\ requests[n].id \in Threads /\ requests[n].to \in Places
              /\ requests[n].undoes \in Nat
<1>1. requests \in Seq(Requests) /\ DOMAIN requests = 1 .. Len(requests)
  BY DEF ArchiveTypeOK
<1>2. \A n \in DOMAIN requests : requests[n] \in Requests
  BY <1>1
<1> QED
  BY <1>1, <1>2 DEF Requests

(* The other place is a place.                                             *)
LEMMA OtherPlace == \A p \in Places : Other(p) \in Places
BY DEF Other, Places

(* The list on screen is made of threads, and so is what follows in it.    *)
LEMMA Neighbours ==
  ASSUME NEW t, NEW next, NeighbourAfter(t, next)
  PROVE  next \in Threads \cup {Nobody}
BY DEF NeighbourAfter, RowIds

(* There are finitely many threads.                                        *)
LEMMA ThreadsFinite == IsFiniteSet(Threads)
<1>1. Rows \in [1 .. Len(Rows) -> Threads] /\ Len(Rows) \in Nat
  BY ArchiveAssumption
<1>2. Threads = {Rows[i] : i \in 1 .. Len(Rows)}
  BY <1>1 DEF Threads, ToSet
<1>3. Rows \in Surjection(1 .. Len(Rows), Threads)
  BY <1>1, <1>2 DEF Surjection
<1>4. IsFiniteSet(1 .. Len(Rows))
  BY <1>1, FS_Interval
<1> QED
  BY <1>3, <1>4, FS_Surjection

(* No thread is above itself.                                              *)
LEMMA NotAboveItself == \A t \in Threads : ~Above(t, t)
<1> Rows \in Seq(Threads) /\ IsInjective(Rows)
  BY ArchiveAssumption
<1> QED
  BY DEF Above, IsInjective

(* A frozen list of threads is sent one by one, each of them once.         *)
LEMMA ListingsAreLists ==
  ASSUME NEW S \in SUBSET Threads, S # {}, NEW s \in Listings(S)
  PROVE  /\ s \in Seq(Threads) /\ Len(s) >= 1
         /\ \A i, j \in DOMAIN s : s[i] = s[j] => i = j
<1>1. IsFiniteSet(S)
  BY ThreadsFinite, FS_Subset
<1>2. Cardinality(S) \in Nat /\ Cardinality(S) # 0
  BY <1>1, FS_CardinalityType, FS_EmptySet
<1>3. s \in [1 .. Cardinality(S) -> S] /\ \A i, j \in DOMAIN s : i < j => Above(s[i], s[j])
  BY DEF Listings
<1>4. s \in Seq(Threads) /\ Len(s) = Cardinality(S) /\ DOMAIN s = 1 .. Cardinality(S)
  <2>1. s \in [1 .. Cardinality(S) -> Threads]
    BY <1>3
  <2> QED
    BY <2>1, <1>2, SeqDef, LenProperties
<1>5. ASSUME NEW i \in DOMAIN s, NEW j \in DOMAIN s, s[i] = s[j]
      PROVE  i = j
  <2>1. i \in Nat /\ j \in Nat /\ s[i] \in Threads
    BY <1>3, <1>4
  <2>2. ~Above(s[i], s[j])
    BY <2>1, <1>5, NotAboveItself
  <2>3. ~Above(s[j], s[i])
    BY <2>1, <1>5, NotAboveItself
  <2> QED
    BY <2>1, <2>2, <2>3, <1>3
<1> QED
  BY <1>2, <1>4, <1>5

(* A toggle appends one request for each of its threads.                   *)
LEMMA ToggleSends ==
  ASSUME ArchiveTypeOK, NEW ids \in Seq(Threads), NEW to \in Places, NEW undoes \in Nat,
         Toggle(ids, to, undoes)
  PROVE  /\ requests' \in Seq(Requests)
         /\ Len(requests') = Len(requests) + Len(ids)
         /\ \A m \in DOMAIN requests : requests'[m] = requests[m]
         /\ \A m \in DOMAIN requests' \ DOMAIN requests :
              \E k \in DOMAIN ids :
                /\ m = Len(requests) + k
                /\ requests'[m] = [pc |-> "sent", id |-> ids[k], to |-> to, undoes |-> undoes]
<1> DEFINE new == [k \in DOMAIN ids |-> [pc |-> "sent", id |-> ids[k], to |-> to, undoes |-> undoes]]
<1>1. requests \in Seq(Requests)
  BY DEF ArchiveTypeOK
<1>2. Len(ids) \in Nat /\ DOMAIN ids = 1 .. Len(ids) /\ \A k \in DOMAIN ids : ids[k] \in Threads
  OBVIOUS
<1>3. new \in [1 .. Len(ids) -> Requests]
  BY <1>2 DEF Requests
<1>4. new \in Seq(Requests) /\ Len(new) = Len(ids)
  <2> HIDE DEF new
  <2> QED
    BY <1>2, <1>3, SeqDef, LenProperties
<1>5. requests' = requests \o new
  BY DEF Toggle
<1>6. \A k \in DOMAIN ids :
        new[k] = [pc |-> "sent", id |-> ids[k], to |-> to, undoes |-> undoes]
  OBVIOUS
<1> HIDE DEF new
<1>7. /\ requests' \in Seq(Requests)
      /\ Len(requests') = Len(requests) + Len(ids)
      /\ \A m \in 1 .. Len(requests) + Len(new) :
           requests'[m] = IF m <= Len(requests) THEN requests[m] ELSE new[m - Len(requests)]
  <2>1. /\ requests \o new \in Seq(Requests)
        /\ Len(requests \o new) = Len(requests) + Len(new)
        /\ \A m \in 1 .. Len(requests) + Len(new) :
             (requests \o new)[m] = IF m <= Len(requests) THEN requests[m] ELSE new[m - Len(requests)]
    BY <1>1, <1>4, ConcatProperties
  <2> QED
    BY <2>1, <1>4, <1>5
<1>8. /\ DOMAIN requests = 1 .. Len(requests) /\ Len(requests) \in Nat
      /\ DOMAIN requests' = 1 .. Len(requests) + Len(ids)
  BY <1>1, <1>7
<1>9. \A m \in DOMAIN requests : requests'[m] = requests[m]
  BY <1>2, <1>4, <1>7, <1>8
<1>10. ASSUME NEW m \in DOMAIN requests' \ DOMAIN requests
       PROVE  \E k \in DOMAIN ids :
                /\ m = Len(requests) + k
                /\ requests'[m] = [pc |-> "sent", id |-> ids[k], to |-> to, undoes |-> undoes]
  <2>1. m - Len(requests) \in DOMAIN ids /\ m = Len(requests) + (m - Len(requests))
    BY <1>2, <1>8
  <2>2. requests'[m] = new[m - Len(requests)]
    BY <1>2, <1>4, <1>7, <1>8
  <2> QED
    BY <2>1, <2>2, <1>6
<1> QED
  BY <1>7, <1>9, <1>10

(* A toggle keeps the types.                                               *)
LEMMA ToggleTypes ==
  ASSUME ArchiveTypeOK, NEW ids \in Seq(Threads), Len(ids) >= 1, NEW to \in Places,
         NEW undoes \in Nat, Toggle(ids, to, undoes),
         selected' \in Threads \cup {Nobody}, bulk' \subseteq Threads
  PROVE  ArchiveTypeOK'
<1>1. /\ requests' \in Seq(Requests)
      /\ Len(requests') = Len(requests) + Len(ids)
  BY ToggleSends
<1>2. /\ Len(requests) \in Nat /\ Len(ids) \in Nat
      /\ DOMAIN requests = 1 .. Len(requests)
      /\ DOMAIN requests' = 1 .. Len(requests) + Len(ids)
  BY <1>1 DEF ArchiveTypeOK
<1>3. ToSet(ids) \subseteq Threads
  BY DEF ToSet
<1>4. /\ leaving' \subseteq Threads
      /\ override' \in [Threads -> Places \cup {"none"}]
  BY <1>3 DEF Toggle, ArchiveTypeOK
<1>5. undoStack' \subseteq DOMAIN requests'
  <2>1. /\ undoStack' = UndoStackAfter(Len(requests) + 1 .. Len(requests) + Len(ids), undoes)
        /\ undoStack \subseteq DOMAIN requests
    BY DEF Toggle, ArchiveTypeOK
  <2>2. undoStack' \subseteq undoStack \cup (Len(requests) + 1 .. Len(requests) + Len(ids))
    BY <2>1 DEF UndoStackAfter, Newest
  <2> QED
    BY <2>1, <2>2, <1>2
<1>6. /\ note' = [action |-> "undo", write |-> Len(requests) + Len(ids)]
      /\ Len(requests) + Len(ids) \in DOMAIN requests'
  BY <1>2 DEF Toggle
<1>7. UNCHANGED <<server, replica, view, archiveFaults>>
  BY DEF Toggle
<1> QED
  BY <1>1, <1>2, <1>4, <1>5, <1>6, <1>7 DEF ArchiveTypeOK

(* The answer to a request, and a request that fails, touch that request.  *)
LEMMA AnswersTypes ==
  ASSUME ArchiveTypeOK, NEW n \in DOMAIN requests, NEW to \in {"sent", "applied", "failed"},
         requests' = [requests EXCEPT ![n].pc = to]
  PROVE  /\ requests' \in Seq(Requests) /\ DOMAIN requests' = DOMAIN requests
         /\ \A m \in DOMAIN requests :
              /\ requests'[m].id = requests[m].id /\ requests'[m].to = requests[m].to
              /\ requests'[m].pc = IF m = n THEN to ELSE requests[m].pc
<1>1. requests \in Seq(Requests) /\ DOMAIN requests = 1 .. Len(requests)
  BY DEF ArchiveTypeOK
<1> DEFINE r == [requests[n] EXCEPT !.pc = to]
<1>2. requests[n] \in Requests
  BY <1>1
<1>3. r \in Requests /\ r.pc = to /\ r.id = requests[n].id /\ r.to = requests[n].to
  BY <1>2 DEF Requests
<1>4. requests' = [requests EXCEPT ![n] = r]
  OBVIOUS
<1> HIDE DEF r
<1>5. /\ requests' \in Seq(Requests) /\ Len(requests') = Len(requests)
      /\ \A m \in 1 .. Len(requests) : requests'[m] = IF m = n THEN r ELSE requests[m]
  BY <1>1, <1>3, <1>4, ExceptSeq
<1> QED
  BY <1>1, <1>3, <1>5

(* The presses that write nothing.                                         *)
Browses ==
  \/ AskArchiveAll \/ SwitchView \/ ToastGoes \/ ConfirmArchiveAll(FALSE)
  \/ \E t \in Threads : Select(t)

(* Every press at the inbox toggles some threads, each of them once, or    *)
(* writes nothing.                                                         *)
LEMMA PressToggles ==
  ASSUME ArchiveTypeOK, Press
  PROVE  \/ Browses
         \/ \E ids \in Seq(Threads), to \in Places, undoes \in Nat :
              /\ Toggle(ids, to, undoes) /\ Len(ids) >= 1
              /\ \A i, j \in DOMAIN ids : ids[i] = ids[j] => i = j
              /\ selected' \in Threads \cup {Nobody} /\ bulk' \subseteq Threads
<1>1. ASSUME NEW t \in Threads, NEW to \in Places, NEW undoes \in Nat, Toggle(<<t>>, to, undoes),
             selected' \in Threads \cup {Nobody}, bulk' \subseteq Threads
      PROVE  \E ids \in Seq(Threads), p \in Places, u \in Nat :
               /\ Toggle(ids, p, u) /\ Len(ids) >= 1
               /\ \A i, j \in DOMAIN ids : ids[i] = ids[j] => i = j
               /\ selected' \in Threads \cup {Nobody} /\ bulk' \subseteq Threads
  <2>1. /\ <<t>> \in Seq(Threads) /\ Len(<<t>>) >= 1
        /\ \A i, j \in DOMAIN <<t>> : <<t>>[i] = <<t>>[j] => i = j
    OBVIOUS
  <2> QED
    BY <1>1, <2>1
<1>2. /\ \A n \in DOMAIN requests :
           requests[n].id \in Threads /\ requests[n].to \in Places /\ requests[n].undoes \in Nat
      /\ DOMAIN requests \subseteq Nat
  BY RequestFields DEF ArchiveTypeOK
<1>3. ASSUME NEW t \in Threads, ArchiveAndAdvance(t)
      PROVE  /\ Toggle(<<t>>, Other(view), 0)
             /\ selected' \in Threads \cup {Nobody} /\ bulk' \subseteq Threads
  BY <1>3, Neighbours DEF ArchiveAndAdvance, ArchiveTypeOK
<1>4. ASSUME NEW e \in DOMAIN requests, Undo(e)
      PROVE  /\ Toggle(<<requests[e].id>>, Other(requests[e].to), e)
             /\ selected' \in Threads \cup {Nobody} /\ bulk' \subseteq Threads
  BY <1>2, <1>4 DEF Undo, ArchiveTypeOK
<1> USE OtherPlace
<1>5. CASE PressArchive
  BY <1>1, <1>3, <1>5 DEF PressArchive, ArchiveTypeOK
<1>6. CASE PressUndo
  <2>1. PICK e \in undoStack : Undo(e)
    BY <1>6 DEF PressUndo
  <2>2. e \in DOMAIN requests
    BY DEF ArchiveTypeOK
  <2> QED
    BY <2>1, <2>2, <1>1, <1>2, <1>4
<1>7. CASE PressToastUndo
  <2>1. Undo(note.write) /\ note.write \in DOMAIN requests
    BY <1>7 DEF PressToastUndo, ArchiveTypeOK
  <2> QED
    BY <2>1, <1>1, <1>2, <1>4
<1>8. CASE PressRetry
  <2>1. /\ note.write \in DOMAIN requests
        /\ Toggle(<<requests[note.write].id>>, requests[note.write].to, requests[note.write].undoes)
    BY <1>8 DEF PressRetry, ArchiveTypeOK
  <2>2. selected' \in Threads \cup {Nobody} /\ bulk' \subseteq Threads
    BY <1>2, <1>8, <2>1 DEF PressRetry, ArchiveTypeOK
  <2> QED
    BY <2>1, <2>2, <1>1, <1>2
<1>9. CASE AskArchiveAll \/ SwitchView \/ ToastGoes \/ \E t \in Threads : Select(t)
  BY <1>9 DEF Browses
<1>10. ASSUME NEW yes \in BOOLEAN, ConfirmArchiveAll(yes)
       PROVE  \/ Browses
              \/ \E ids \in Seq(Threads), to \in Places, undoes \in Nat :
                   /\ Toggle(ids, to, undoes) /\ Len(ids) >= 1
                   /\ \A i, j \in DOMAIN ids : ids[i] = ids[j] => i = j
                   /\ selected' \in Threads \cup {Nobody} /\ bulk' \subseteq Threads
  <2>1. CASE ~yes
    <3>1. yes = FALSE
      BY <2>1
    <3> QED
      BY <1>10, <3>1 DEF Browses
  <2>2. CASE yes
    <3>1. PICK ids \in Listings(bulk) : Toggle(ids, "archived", 0)
      BY <1>10, <2>2 DEF ConfirmArchiveAll
    <3>2. bulk \in SUBSET Threads /\ bulk # {}
      BY <1>10 DEF ConfirmArchiveAll, ArchiveTypeOK
    <3>3. /\ ids \in Seq(Threads) /\ Len(ids) >= 1
          /\ \A i, j \in DOMAIN ids : ids[i] = ids[j] => i = j
      BY <3>2, ListingsAreLists
    <3>4. selected' \in Threads \cup {Nobody} /\ bulk' \subseteq Threads
      BY <1>10 DEF ConfirmArchiveAll, ArchiveTypeOK
    <3>5. "archived" \in Places /\ 0 \in Nat
      BY DEF Places
    <3> QED
      BY <3>1, <3>3, <3>4, <3>5
  <2> QED
    BY <2>1, <2>2
<1>11. CASE \E t \in Threads : PressRowButton(t)
  <2>1. PICK t \in Threads : ArchiveAndAdvance(t)
    BY <1>11 DEF PressRowButton
  <2>2. Other(view) \in Places /\ 0 \in Nat
    BY DEF ArchiveTypeOK
  <2> QED
    BY <2>1, <2>2, <1>1, <1>3
<1> QED
  BY <1>5, <1>6, <1>7, <1>8, <1>9, <1>10, <1>11 DEF Press

(* A press keeps the types.                                                *)
LEMMA PressTypes ==
  ASSUME ArchiveTypeOK, Press
  PROVE  ArchiveTypeOK'
<1>1. CASE \E ids \in Seq(Threads), to \in Places, undoes \in Nat :
             /\ Toggle(ids, to, undoes) /\ Len(ids) >= 1
             /\ \A i, j \in DOMAIN ids : ids[i] = ids[j] => i = j
             /\ selected' \in Threads \cup {Nobody} /\ bulk' \subseteq Threads
  BY <1>1, ToggleTypes
<1>2. CASE Browses
  <2>1. CASE AskArchiveAll
    BY <2>1 DEF AskArchiveAll, ArchiveTypeOK, RowIds
  <2>2. CASE SwitchView
    BY <2>2, OtherPlace DEF SwitchView, ArchiveTypeOK
  <2>3. CASE ToastGoes
    BY <2>3 DEF ToastGoes, ArchiveTypeOK
  <2>4. CASE \E t \in Threads : Select(t)
    BY <2>4 DEF Select, ArchiveTypeOK
  <2>5. CASE ConfirmArchiveAll(FALSE)
    BY <2>5 DEF ConfirmArchiveAll, ArchiveTypeOK
  <2> QED
    BY <1>2, <2>1, <2>2, <2>3, <2>4, <2>5 DEF Browses
<1> QED
  BY <1>1, <1>2, PressToggles

(* Every step keeps the types.                                             *)
LEMMA ArchiveTypesKept ==
  ASSUME ArchiveTypeOK, ArchiveNext
  PROVE  ArchiveTypeOK'
<1>1. /\ requests \in Seq(Requests) /\ DOMAIN requests = 1 .. Len(requests)
      /\ \A n \in DOMAIN requests : requests[n].id \in Threads /\ requests[n].to \in Places
  BY RequestFields DEF ArchiveTypeOK
<1>2. ASSUME NEW n \in DOMAIN requests, SetThreadArchived(n)
      PROVE  ArchiveTypeOK'
  <2>1. requests' \in Seq(Requests) /\ DOMAIN requests' = DOMAIN requests
    BY <1>2, AnswersTypes DEF SetThreadArchived
  <2>2. server' \in [Threads -> Places]
    BY <1>1, <1>2 DEF SetThreadArchived, ArchiveTypeOK
  <2> QED
    BY <1>2, <2>1, <2>2 DEF SetThreadArchived, ArchiveTypeOK
<1>3. ASSUME NEW n \in DOMAIN requests, RequestFails(n)
      PROVE  ArchiveTypeOK'
  <2>1. requests' \in Seq(Requests) /\ DOMAIN requests' = DOMAIN requests
    BY <1>3, AnswersTypes DEF RequestFails
  <2>2. override' \in [Threads -> Places \cup {"none"}]
    BY <1>1, <1>3 DEF RequestFails, RolledBack, ArchiveTypeOK
  <2>3. note' = [action |-> "retry", write |-> n] /\ n \in Nat
    BY <1>1, <1>3 DEF RequestFails
  <2>4. /\ leaving' \subseteq Threads /\ undoStack' \subseteq DOMAIN requests
        /\ archiveFaults' \in Nat
        /\ UNCHANGED <<server, replica, view, selected, bulk>>
    BY <1>3 DEF RequestFails, ArchiveTypeOK
  <2> QED
    BY <2>1, <2>2, <2>3, <2>4 DEF ArchiveTypeOK
<1>4. ASSUME NEW changed \in SUBSET Threads, Replicate(changed)
      PROVE  ArchiveTypeOK'
  BY <1>4 DEF Replicate, ArchiveTypeOK
<1>5. ASSUME NEW t \in Threads, LeaveEnds(t)
      PROVE  ArchiveTypeOK'
  BY <1>5 DEF LeaveEnds, ArchiveTypeOK
<1> QED
  BY <1>2, <1>3, <1>4, <1>5, PressTypes DEF ArchiveNext

(* Every variable of archiving keeps its type, in whatever order requests  *)
(* are served.                                                             *)
THEOREM ArchiveTypeCorrect == ArchiveSpec => []ArchiveTypeOK
<1>1. ArchiveInit => ArchiveTypeOK
  BY DEF ArchiveInit, ArchiveTypeOK, Places
<1>2. ArchiveTypeOK /\ [ArchiveNext]_archiveVars => ArchiveTypeOK'
  <2>1. ASSUME ArchiveTypeOK, UNCHANGED archiveVars
        PROVE  ArchiveTypeOK'
    BY <2>1 DEF archiveVars, ArchiveTypeOK
  <2> QED
    BY <2>1, ArchiveTypesKept
<1> QED
  BY <1>1, <1>2, PTL DEF ArchiveSpec

-----------------------------------------------------------------------------
(* The screen agrees with the hub.                                         *)

(* No later request is about the same thread.                              *)
Latest(n) == \A m \in DOMAIN requests : requests[m].id = requests[n].id => m <= n

(* The requests of a thread are served, or fail, in their order.           *)
InTurn ==
  \A m, n \in DOMAIN requests :
    m < n /\ requests[m].id = requests[n].id /\ requests[n].pc # "sent" => requests[m].pc # "sent"

(* The hub has what the latest request of a thread asked for, once served. *)
Reached ==
  \A n \in DOMAIN requests :
    Latest(n) /\ requests[n].pc = "applied" => server[requests[n].id] = requests[n].to

(* An override is what the latest request of its thread asks for, and that *)
(* request has not failed.                                                 *)
Backed ==
  \A t \in Threads : override[t] # "none" =>
    \E n \in DOMAIN requests :
      /\ requests[n].id = t /\ Latest(n)
      /\ requests[n].pc # "failed" /\ requests[n].to = override[t]

ArchiveInv == ArchiveTypeOK /\ InTurn /\ Reached /\ Backed

(* What the old requests were, they are after a toggle; the new ones are   *)
(* under way, and each is the latest of its thread.                        *)
LEMMA ToggleKeeps ==
  ASSUME ArchiveInv, NEW ids \in Seq(Threads), Len(ids) >= 1, NEW to \in Places,
         NEW undoes \in Nat, Toggle(ids, to, undoes),
         \A i, j \in DOMAIN ids : ids[i] = ids[j] => i = j
  PROVE  InTurn' /\ Reached' /\ Backed'
<1> USE DEF ArchiveInv
<1> DEFINE L == Len(requests)
<1>1. /\ L \in Nat /\ Len(ids) \in Nat /\ DOMAIN ids = 1 .. Len(ids)
      /\ DOMAIN requests = 1 .. L
  BY DEF ArchiveTypeOK
<1>2. /\ Len(requests') = L + Len(ids) /\ requests' \in Seq(Requests)
      /\ \A m \in DOMAIN requests : requests'[m] = requests[m]
      /\ \A m \in DOMAIN requests' \ DOMAIN requests :
           \E k \in DOMAIN ids :
             /\ m = L + k
             /\ requests'[m] = [pc |-> "sent", id |-> ids[k], to |-> to, undoes |-> undoes]
  BY ToggleSends
<1>3. DOMAIN requests' = 1 .. L + Len(ids)
  BY <1>1, <1>2
<1>4. \A k \in DOMAIN ids :
        /\ L + k \in DOMAIN requests' \ DOMAIN requests
        /\ requests'[L + k].id = ids[k] /\ requests'[L + k].to = to
        /\ requests'[L + k].pc = "sent"
  <2> TAKE k \in DOMAIN ids
  <2>1. L + k \in DOMAIN requests' \ DOMAIN requests
    BY <1>1, <1>3
  <2>2. PICK j \in DOMAIN ids :
          /\ L + k = L + j
          /\ requests'[L + k] = [pc |-> "sent", id |-> ids[j], to |-> to, undoes |-> undoes]
    BY <1>2, <2>1
  <2>3. j = k
    BY <1>1, <2>2
  <2> QED
    BY <2>1, <2>2, <2>3
<1>5. /\ UNCHANGED server
      /\ override' = [t \in Threads |-> IF t \in ToSet(ids) THEN to ELSE override[t]]
  BY DEF Toggle
<1> HIDE DEF L
<1>6. \A m \in DOMAIN requests' : m \in DOMAIN requests \/ \E k \in DOMAIN ids : m = L + k
  BY <1>2
<1>7. DOMAIN requests \subseteq DOMAIN requests'
  BY <1>1, <1>3
<1>8. InTurn'
  <2> SUFFICES ASSUME NEW m \in DOMAIN requests', NEW n \in DOMAIN requests',
                      m < n, requests'[m].id = requests'[n].id, requests'[n].pc # "sent"
               PROVE  requests'[m].pc # "sent"
    BY DEF InTurn
  <2>1. n \in DOMAIN requests
    BY <1>4, <1>6
  <2>2. m \in DOMAIN requests
    BY <1>1, <1>3, <2>1
  <2> QED
    BY <2>1, <2>2, <1>2 DEF InTurn
<1>9. \A n \in DOMAIN requests : Latest(n)' => Latest(n)
  BY <1>2, <1>7 DEF Latest
<1>10. Reached'
  <2> SUFFICES ASSUME NEW n \in DOMAIN requests', Latest(n)', requests'[n].pc = "applied"
               PROVE  server'[requests'[n].id] = requests'[n].to
    BY DEF Reached
  <2>1. n \in DOMAIN requests
    BY <1>4, <1>6
  <2> QED
    BY <2>1, <1>2, <1>5, <1>9 DEF Reached
<1>11. ASSUME NEW t \in Threads, override'[t] # "none"
       PROVE  \E n \in DOMAIN requests' :
                /\ requests'[n].id = t /\ Latest(n)'
                /\ requests'[n].pc # "failed" /\ requests'[n].to = override'[t]
  <2>1. CASE t \in ToSet(ids)
    <3>1. PICK k \in DOMAIN ids : ids[k] = t
      BY <2>1 DEF ToSet
    <3> PICK n \in DOMAIN requests' : n = L + k
      BY <1>4
    <3>2. ASSUME NEW m \in DOMAIN requests', requests'[m].id = requests'[n].id
          PROVE  m <= n
      <4>1. CASE m \in DOMAIN requests
        BY <4>1, <1>1
      <4>2. CASE \E j \in DOMAIN ids : m = L + j
        BY <4>2, <3>1, <3>2, <1>1, <1>4
      <4> QED
        BY <4>1, <4>2, <1>6
    <3>3. Latest(n)'
      BY <3>2 DEF Latest
    <3>4. override'[t] = to
      BY <2>1, <1>5
    <3> QED
      BY <3>1, <3>3, <3>4, <1>4
  <2>2. CASE t \notin ToSet(ids)
    <3>1. override'[t] = override[t]
      BY <2>2, <1>5
    <3>2. PICK n \in DOMAIN requests :
            /\ requests[n].id = t /\ Latest(n)
            /\ requests[n].pc # "failed" /\ requests[n].to = override[t]
      BY <3>1, <1>11 DEF Backed
    <3>3. \A k \in DOMAIN ids : ids[k] # t
      BY <2>2 DEF ToSet
    <3>4. ASSUME NEW m \in DOMAIN requests', requests'[m].id = requests'[n].id
          PROVE  m <= n
      <4>1. m \in DOMAIN requests
        BY <3>2, <3>3, <3>4, <1>2, <1>4, <1>6
      <4> QED
        BY <4>1, <3>2, <3>4, <1>2 DEF Latest
    <3>5. Latest(n)'
      BY <3>4 DEF Latest
    <3> QED
      BY <3>1, <3>2, <3>5, <1>2, <1>7
  <2> QED
    BY <2>1, <2>2
<1>12. Backed'
  BY <1>11 DEF Backed
<1> QED
  BY <1>8, <1>10, <1>12

(* The answer to a request that is its thread's turn.                      *)
LEMMA AnswerKeeps ==
  ASSUME ArchiveInv, ~Reorders, NEW n \in DOMAIN requests, SetThreadArchived(n)
  PROVE  InTurn' /\ Reached' /\ Backed'
<1> USE DEF ArchiveInv
<1>1. /\ requests[n].pc = "sent" /\ UNCHANGED override
      /\ server' = [server EXCEPT ![requests[n].id] = requests[n].to]
      /\ \A m \in 1 .. n - 1 : requests[m].id = requests[n].id => requests[m].pc # "sent"
  BY DEF SetThreadArchived, InOrder
<1>2. /\ DOMAIN requests' = DOMAIN requests
      /\ \A m \in DOMAIN requests :
           /\ requests'[m].id = requests[m].id /\ requests'[m].to = requests[m].to
           /\ requests'[m].pc = IF m = n THEN "applied" ELSE requests[m].pc
  BY AnswersTypes DEF SetThreadArchived
<1>3. /\ DOMAIN requests = 1 .. Len(requests) /\ Len(requests) \in Nat
      /\ server \in [Threads -> Places]
  BY RequestFields DEF ArchiveTypeOK
<1>4. requests[n].id \in Threads
  BY RequestFields
<1>5. \A m \in DOMAIN requests : Latest(m)' <=> Latest(m)
  BY <1>2 DEF Latest
<1>6. InTurn'
  BY <1>1, <1>2, <1>3 DEF InTurn
<1>7. Reached'
  <2> SUFFICES ASSUME NEW m \in DOMAIN requests, Latest(m), requests'[m].pc = "applied"
               PROVE  server'[requests[m].id] = requests[m].to
    BY <1>2, <1>5 DEF Reached
  <2>1. CASE m = n
    BY <2>1, <1>1, <1>3, <1>4
  <2>2. CASE m # n
    <3>1. requests[m].pc = "applied" /\ server[requests[m].id] = requests[m].to
      BY <2>2, <1>2 DEF Reached
    <3>2. requests[m].id # requests[n].id
      BY <3>1, <2>2, <1>1, <1>3 DEF InTurn, Latest
    <3> QED
      BY <3>1, <3>2, <1>1, <1>3
  <2> QED
    BY <2>1, <2>2
<1>8. Backed'
  <2> SUFFICES ASSUME NEW t \in Threads, override[t] # "none"
               PROVE  \E m \in DOMAIN requests :
                        /\ requests'[m].id = t /\ Latest(m)'
                        /\ requests'[m].pc # "failed" /\ requests'[m].to = override[t]
    BY <1>1, <1>2 DEF Backed
  <2>1. PICK m \in DOMAIN requests :
          /\ requests[m].id = t /\ Latest(m)
          /\ requests[m].pc # "failed" /\ requests[m].to = override[t]
    BY DEF Backed
  <2> QED
    BY <2>1, <1>2, <1>5
<1> QED
  BY <1>6, <1>7, <1>8

(* A request that fails in its thread's turn takes the override with it.   *)
LEMMA FailureKeeps ==
  ASSUME ArchiveInv, ~Reorders, NEW n \in DOMAIN requests, RequestFails(n)
  PROVE  InTurn' /\ Reached' /\ Backed'
<1> USE DEF ArchiveInv
<1>1. /\ UNCHANGED server
      /\ override' = [override EXCEPT ![requests[n].id] = "none"]
      /\ \A m \in 1 .. n - 1 : requests[m].id = requests[n].id => requests[m].pc # "sent"
  BY DEF RequestFails, InOrder, RolledBack
<1>2. /\ DOMAIN requests' = DOMAIN requests
      /\ \A m \in DOMAIN requests :
           /\ requests'[m].id = requests[m].id /\ requests'[m].to = requests[m].to
           /\ requests'[m].pc = IF m = n THEN "failed" ELSE requests[m].pc
  BY AnswersTypes DEF RequestFails
<1>3. DOMAIN requests = 1 .. Len(requests) /\ Len(requests) \in Nat
  BY DEF ArchiveTypeOK
<1>4. override \in [Threads -> Places \cup {"none"}] /\ requests[n].id \in Threads
  BY RequestFields DEF ArchiveTypeOK
<1>5. \A m \in DOMAIN requests : Latest(m)' <=> Latest(m)
  BY <1>2 DEF Latest
<1>6. InTurn'
  BY <1>1, <1>2, <1>3 DEF InTurn
<1>7. Reached'
  BY <1>1, <1>2, <1>5 DEF Reached
<1>8. Backed'
  <2> SUFFICES ASSUME NEW t \in Threads, override'[t] # "none"
               PROVE  \E m \in DOMAIN requests :
                        /\ requests'[m].id = t /\ Latest(m)'
                        /\ requests'[m].pc # "failed" /\ requests'[m].to = override'[t]
    BY <1>2 DEF Backed
  <2>1. t # requests[n].id /\ override'[t] = override[t]
    BY <1>1, <1>4
  <2>2. PICK m \in DOMAIN requests :
          /\ requests[m].id = t /\ Latest(m)
          /\ requests[m].pc # "failed" /\ requests[m].to = override[t]
    BY <2>1 DEF Backed
  <2> QED
    BY <2>1, <2>2, <1>2, <1>5
<1> QED
  BY <1>6, <1>7, <1>8

(* The invariant is kept by every step, if the hub serves a thread's       *)
(* requests in their order.                                                *)
LEMMA ArchiveInvKept ==
  ASSUME ArchiveInv, ~Reorders, [ArchiveNext]_archiveVars
  PROVE  ArchiveInv'
<1>1. ArchiveTypeOK'
  <2>1. CASE UNCHANGED archiveVars
    BY <2>1 DEF archiveVars, ArchiveInv, ArchiveTypeOK
  <2> QED
    BY <2>1, ArchiveTypesKept DEF ArchiveInv
<1>2. ASSUME UNCHANGED <<server, override, requests>>
      PROVE  InTurn' /\ Reached' /\ Backed'
  BY <1>2 DEF ArchiveInv, InTurn, Reached, Backed, Latest
<1>3. CASE Press
  <2>1. ArchiveTypeOK
    BY DEF ArchiveInv
  <2>2. CASE Browses
    <3>1. UNCHANGED <<server, override, requests>>
      BY <2>2 DEF Browses, AskArchiveAll, SwitchView, ToastGoes, ConfirmArchiveAll, Select
    <3> QED
      BY <3>1, <1>1, <1>2 DEF ArchiveInv
  <2>3. CASE \E ids \in Seq(Threads), to \in Places, undoes \in Nat :
               /\ Toggle(ids, to, undoes) /\ Len(ids) >= 1
               /\ \A i, j \in DOMAIN ids : ids[i] = ids[j] => i = j
               /\ selected' \in Threads \cup {Nobody} /\ bulk' \subseteq Threads
    BY <2>3, <1>1, ToggleKeeps DEF ArchiveInv
  <2> QED
    BY <1>3, <2>1, <2>2, <2>3, PressToggles
<1>4. ASSUME NEW n \in DOMAIN requests, SetThreadArchived(n) \/ RequestFails(n)
      PROVE  ArchiveInv'
  BY <1>1, <1>4, AnswerKeeps, FailureKeeps DEF ArchiveInv
<1>5. ASSUME NEW changed \in SUBSET Threads, Replicate(changed)
      PROVE  ArchiveInv'
  <2>1. /\ UNCHANGED <<server, requests>>
        /\ \A t \in Threads : override'[t] # "none" => override'[t] = override[t]
    BY <1>5 DEF Replicate
  <2>2. InTurn' /\ Reached'
    BY <2>1 DEF ArchiveInv, InTurn, Reached, Latest
  <2>3. Backed'
    BY <2>1 DEF ArchiveInv, Backed, Latest
  <2> QED
    BY <1>1, <2>2, <2>3 DEF ArchiveInv
<1>6. ASSUME NEW t \in Threads, LeaveEnds(t)
      PROVE  ArchiveInv'
  BY <1>1, <1>2, <1>6 DEF LeaveEnds, ArchiveInv
<1>7. CASE UNCHANGED archiveVars
  BY <1>1, <1>2, <1>7 DEF archiveVars, ArchiveInv
<1> QED
  BY <1>3, <1>4, <1>5, <1>6, <1>7 DEF ArchiveNext

(* The invariant of archiving: overrides are backed by the latest request  *)
(* of their thread, and what was served last is what the hub has.          *)
THEOREM ArchiveInvariant == ~Reorders => (ArchiveSpec => []ArchiveInv)
<1> SUFFICES ASSUME ~Reorders
             PROVE  ArchiveSpec => []ArchiveInv
  OBVIOUS
<1>1. ArchiveInit => ArchiveInv
  BY DEF ArchiveInit, ArchiveInv, ArchiveTypeOK, InTurn, Reached, Backed, Places
<1>2. ArchiveInv /\ [ArchiveNext]_archiveVars => ArchiveInv'
  BY ArchiveInvKept
<1> QED
  BY <1>1, <1>2, PTL DEF ArchiveSpec

(* Once no request is under way and the replica has caught up, every row   *)
(* shows what the hub has, whichever requests failed, were undone or were  *)
(* tried again: for any list of threads, any number of requests and        *)
(* failures, if the hub serves the requests of a thread in their order.    *)
THEOREM ScreenFollowsHub == ~Reorders => (ArchiveSpec => []ScreenAgrees)
<1>1. ArchiveInv => ScreenAgrees
  <2> SUFFICES ASSUME ArchiveInv, Quiet, NEW t \in Threads
               PROVE  ShownIn(t) = server[t]
    BY DEF ScreenAgrees
  <2>1. CASE override[t] = "none"
    BY <2>1 DEF Quiet, ShownIn
  <2>2. CASE override[t] # "none"
    <3>1. PICK n \in DOMAIN requests :
            /\ requests[n].id = t /\ Latest(n)
            /\ requests[n].pc # "failed" /\ requests[n].to = override[t]
      BY <2>2 DEF ArchiveInv, Backed
    <3>2. requests[n].pc \in {"sent", "applied", "failed"}
      BY RequestFields DEF ArchiveInv
    <3>3. requests[n].pc = "applied"
      BY <3>1, <3>2 DEF Quiet
    <3>4. server[t] = override[t]
      BY <3>1, <3>3 DEF ArchiveInv, Reached
    <3> QED
      BY <2>2, <3>4 DEF ShownIn
  <2> QED
    BY <2>1, <2>2
<1> QED
  BY <1>1, ArchiveInvariant, PTL

-----------------------------------------------------------------------------
(* The types of the Settings screen.                                       *)

Values == IF setting \in Lists THEN SUBSET (Entries \cup Foreign) ELSE {0, 1}

Saves ==
  [value : Values, clears : BOOLEAN, mounted : BOOLEAN,
   pc : {"sent", "upserted", "stored", "done", "failed"}]

(* A text fits its setting, and only a switch and the kill switch ask.     *)
Drafts ==
  CASE setting \in {"allowlist", "delegation"} -> Entries \cup {NoEntry}
    [] setting = "field" -> {0, 1, NoEntry}
    [] OTHER -> {NoEntry}

Questions ==
  CASE setting = "autonomy" -> Entries \cup {NoEntry}
    [] setting = "kill" -> {"stop", NoEntry}
    [] OTHER -> {NoEntry}

SettingsTypeOK ==
  /\ setting \in Lists \cup {"field", "switch", "kill"}
  /\ saved \in Values /\ value \in Values /\ meant \in Values
  /\ phase \in {"away", "loading", "ready", "error"}
  /\ typed \in Drafts /\ asking \in Questions
  /\ reads \in [pc : {"none", "asked", "answered", "failed"}, value : Values]
  /\ saves \in Seq(Saves)
  /\ alert \in BOOLEAN /\ audited \subseteq DOMAIN saves
  /\ settingActs \in Nat /\ settingFaults \in Nat

(* What the screen keeps of a value that it writes back.                   *)
Kept(v) == IF setting \in {"allowlist", "delegation"} THEN v \ Foreign ELSE v

(* What the type says of a save.                                           *)
LEMMA SaveFields ==
  ASSUME SettingsTypeOK
  PROVE  /\ DOMAIN saves = 1 .. Len(saves) /\ Len(saves) \in Nat
         /\ \A n \in DOMAIN saves :
              /\ saves[n] \in Saves /\ saves[n].value \in Values
              /\ saves[n].clears \in BOOLEAN /\ saves[n].mounted \in BOOLEAN
              /\ saves[n].pc \in {"sent", "upserted", "stored", "done", "failed"}
<1>1. saves \in Seq(Saves) /\ DOMAIN saves = 1 .. Len(saves)
  BY DEF SettingsTypeOK
<1>2. \A n \in DOMAIN saves : saves[n] \in Saves
  BY <1>1
<1> QED
  BY <1>1, <1>2 DEF Saves

(* A write adds a save that carries the whole value.                       *)
LEMMA WriteAdds ==
  ASSUME SettingsTypeOK, NEW whole \in Values, NEW edited, NEW clears \in BOOLEAN,
         Write(whole, edited, clears)
  PROVE  /\ saves' \in Seq(Saves) /\ DOMAIN saves' = 1 .. Len(saves) + 1
         /\ Len(saves') = Len(saves) + 1
         /\ \A n \in DOMAIN saves : saves'[n] = saves[n]
         /\ saves'[Len(saves) + 1] =
              [value |-> whole, clears |-> clears, mounted |-> TRUE, pc |-> "sent"]
<1> DEFINE s == [value |-> whole, clears |-> clears, mounted |-> TRUE, pc |-> "sent"]
<1>1. s \in Saves
  BY DEF Saves
<1>2. saves' = Append(saves, s) /\ saves \in Seq(Saves)
  BY DEF Write, SettingsTypeOK
<1> HIDE DEF s
<1>3. /\ saves' \in Seq(Saves) /\ Len(saves') = Len(saves) + 1
      /\ \A n \in 1 .. Len(saves) : saves'[n] = saves[n]
      /\ saves'[Len(saves) + 1] = s
  BY <1>1, <1>2, AppendProperties
<1> QED
  BY <1>3, SaveFields DEF s

(* An edit writes a value that relates to the one on screen as what was    *)
(* meant relates to what was meant before, or it writes nothing.           *)
Edit ==
  \/ \E e \in Entries : PressSwitch(e) \/ RemoveEntry(e)
  \/ \E e \in Entries \cup {0, 1} : TypeDraft(e)
  \/ PressKill \/ Confirm \/ Flip \/ AddDraft \/ SaveField

Edits(whole, edited, clears) ==
  /\ Write(whole, edited, clears)
  /\ Kept(value) = Kept(meant) => Kept(whole) = Kept(edited)

TouchesNothing ==
  UNCHANGED <<setting, saved, phase, value, reads, saves, alert, audited, meant, settingFaults>>

(* Taking an entry out of a list, or putting one in, is an edit.           *)
LEMMA ListEdits ==
  ASSUME SettingsTypeOK, setting \in Lists, NEW e \in Entries
  PROVE  /\ Without(e) => \E whole, edited \in Values, clears \in BOOLEAN :
                            Edits(whole, edited, clears)
         /\ \A c \in BOOLEAN : With(e, c) => \E whole, edited \in Values, clears \in BOOLEAN :
                                               Edits(whole, edited, clears)
<1>1. /\ value \subseteq Entries \cup Foreign /\ meant \subseteq Entries \cup Foreign
      /\ Values = SUBSET (Entries \cup Foreign)
  BY DEF SettingsTypeOK, Values
<1>2. /\ Understood \ {e} \in Values /\ meant \ {e} \in Values
      /\ Understood \cup {e} \in Values /\ meant \cup {e} \in Values
  BY <1>1 DEF Understood
<1>3. Kept(value) = Kept(meant) =>
        /\ Kept(Understood \ {e}) = Kept(meant \ {e})
        /\ Kept(Understood \cup {e}) = Kept(meant \cup {e})
  BY DEF Kept, Understood
<1> QED
  BY <1>2, <1>3 DEF Without, With, Edits

(* A value that is set is an edit, whatever it was before.                 *)
LEMMA Sets ==
  ASSUME NEW v \in Values, Becomes(v)
  PROVE  \E whole, edited \in Values, clears \in BOOLEAN : Edits(whole, edited, clears)
BY DEF Becomes, Edits

(* Every edit of the person is one in this sense, and leaves a text and a  *)
(* question that fit.                                                      *)
LEMMA EditsEdit ==
  ASSUME SettingsTypeOK, Edit
  PROVE  /\ MayEdit /\ typed' \in Drafts /\ asking' \in Questions
         /\ \/ TouchesNothing
            \/ \E whole, edited \in Values, clears \in BOOLEAN : Edits(whole, edited, clears)
<1>1. typed \in Drafts /\ asking \in Questions /\ value \in Values /\ NoEntry \in Questions
  BY DEF SettingsTypeOK, Questions
<1>2. ASSUME NEW e \in Entries, PressSwitch(e)
      PROVE  /\ MayEdit /\ typed' \in Drafts /\ asking' \in Questions
             /\ \/ TouchesNothing
                \/ \E whole, edited \in Values, clears \in BOOLEAN : Edits(whole, edited, clears)
  <2>1. setting = "autonomy" /\ setting \in Lists /\ MayEdit
    BY <1>2 DEF PressSwitch, Lists
  <2>2. CASE e \in value
    BY <1>1, <1>2, <2>1, <2>2, ListEdits DEF PressSwitch
  <2>3. CASE e \notin value
    BY <1>1, <1>2, <2>1, <2>3 DEF PressSwitch, TouchesNothing, Questions
  <2> QED
    BY <2>2, <2>3
<1>3. ASSUME NEW e \in Entries, RemoveEntry(e)
      PROVE  /\ MayEdit /\ typed' \in Drafts /\ asking' \in Questions
             /\ \E whole, edited \in Values, clears \in BOOLEAN : Edits(whole, edited, clears)
  BY <1>1, <1>3, ListEdits DEF RemoveEntry, Lists
<1>4. ASSUME NEW e \in Entries \cup {0, 1}, TypeDraft(e)
      PROVE  MayEdit /\ typed' \in Drafts /\ asking' \in Questions /\ TouchesNothing
  BY <1>1, <1>4 DEF TypeDraft, TouchesNothing, Drafts
<1>5. CASE PressKill
  <2>1. setting = "kill" /\ MayEdit /\ 0 \in Values
    BY <1>5 DEF PressKill, Values, Lists
  <2>2. CASE value = 1
    BY <1>1, <1>5, <2>1, <2>2, Sets DEF PressKill
  <2>3. CASE value # 1
    BY <1>1, <1>5, <2>1, <2>3 DEF PressKill, TouchesNothing, Questions
  <2> QED
    BY <2>1, <2>2, <2>3
<1>6. CASE Confirm
  <2>1. MayEdit /\ asking # NoEntry /\ asking' = NoEntry /\ typed' = typed
    BY <1>6 DEF Confirm
  <2>2. CASE setting = "kill"
    <3>1. Becomes(1) /\ 1 \in Values
      BY <1>6, <2>2 DEF Confirm, Values, Lists
    <3> QED
      BY <1>1, <2>1, <3>1, Sets
  <2>3. CASE setting # "kill"
    <3>1. With(asking, FALSE) /\ setting = "autonomy" /\ asking \in Entries
      BY <1>1, <1>6, <2>1, <2>3 DEF Confirm, Questions
    <3> QED
      BY <1>1, <2>1, <3>1, ListEdits DEF Lists
  <2> QED
    BY <2>2, <2>3
<1>7. CASE Flip
  <2>1. /\ MayEdit /\ Becomes(1 - value) /\ 1 - value \in Values
        /\ UNCHANGED <<typed, asking>>
    BY <1>1, <1>7 DEF Flip, Values, Lists
  <2> QED
    BY <1>1, <2>1, Sets
<1>8. CASE AddDraft
  <2>1. /\ MayEdit /\ setting \in {"allowlist", "delegation"} /\ setting \in Lists
        /\ typed \in Entries /\ asking' = asking
    BY <1>1, <1>8 DEF AddDraft, Lists, Drafts
  <2>2. typed' \in Drafts
    BY <1>1, <1>8, <2>1 DEF AddDraft, Drafts
  <2>3. CASE typed \in Understood
    BY <1>1, <1>8, <2>1, <2>2, <2>3 DEF AddDraft, TouchesNothing
  <2>4. CASE typed \notin Understood
    <3>1. With(typed, setting = "allowlist") /\ (setting = "allowlist") \in BOOLEAN
      BY <1>8, <2>4 DEF AddDraft
    <3> QED
      BY <1>1, <2>1, <2>2, <3>1, ListEdits
  <2> QED
    BY <2>3, <2>4
<1>9. CASE SaveField
  <2>1. /\ MayEdit /\ Becomes(typed) /\ typed \in Values
        /\ UNCHANGED <<typed, asking>>
    BY <1>1, <1>9 DEF SaveField, Drafts, Values, Lists
  <2> QED
    BY <1>1, <2>1, Sets
<1> QED
  BY <1>2, <1>3, <1>4, <1>5, <1>6, <1>7, <1>8, <1>9 DEF Edit

(* A save that gets on, or is lost, stays the save it was.                 *)
LEMMA SaveMoves ==
  ASSUME SettingsTypeOK, NEW n \in DOMAIN saves,
         NEW to \in {"sent", "upserted", "stored", "done", "failed"},
         saves' = [saves EXCEPT ![n].pc = to], UNCHANGED setting
  PROVE  /\ saves' \in Seq(Saves') /\ DOMAIN saves' = DOMAIN saves /\ Len(saves') = Len(saves)
         /\ \A m \in DOMAIN saves :
              /\ saves'[m].value = saves[m].value /\ saves'[m].mounted = saves[m].mounted
              /\ saves'[m].pc = IF m = n THEN to ELSE saves[m].pc
<1> DEFINE r == [saves[n] EXCEPT !.pc = to]
<1>1. r \in Saves /\ r.pc = to /\ r.value = saves[n].value /\ r.mounted = saves[n].mounted
  BY SaveFields DEF Saves
<1>2. saves' = [saves EXCEPT ![n] = r] /\ saves \in Seq(Saves)
  BY DEF SettingsTypeOK
<1> HIDE DEF r
<1>3. /\ saves' \in Seq(Saves) /\ Len(saves') = Len(saves)
      /\ \A m \in 1 .. Len(saves) : saves'[m] = IF m = n THEN r ELSE saves[m]
  BY <1>1, <1>2, SaveFields, ExceptSeq
<1>4. Saves' = Saves
  BY DEF Saves, Values
<1> QED
  BY <1>1, <1>3, <1>4, SaveFields

(* An edit keeps the types.                                                *)
LEMMA EditTypes ==
  ASSUME SettingsTypeOK, Edit
  PROVE  SettingsTypeOK'
<1>1. MayEdit /\ typed' \in Drafts /\ asking' \in Questions
  BY EditsEdit
<1>2. settingActs' \in Nat
  BY <1>1 DEF MayEdit, Touch, SettingsTypeOK
<1>3. CASE TouchesNothing
  BY <1>1, <1>2, <1>3
     DEF TouchesNothing, SettingsTypeOK, Values, Saves, Drafts, Questions
<1>4. ASSUME NEW whole \in Values, NEW edited \in Values, NEW clears \in BOOLEAN,
             Edits(whole, edited, clears)
      PROVE  SettingsTypeOK'
  <2>1. Write(whole, edited, clears)
    BY <1>4 DEF Edits
  <2>2. saves' \in Seq(Saves) /\ DOMAIN saves' = 1 .. Len(saves) + 1
    BY <2>1, WriteAdds
  <2>3. meant' = edited /\ UNCHANGED <<setting, saved, phase, value, reads, alert, audited, settingFaults>>
    BY <2>1 DEF Write
  <2>4. Values' = Values /\ Saves' = Saves /\ Drafts' = Drafts /\ Questions' = Questions
    BY <2>3 DEF Values, Saves, Drafts, Questions
  <2>5. audited \subseteq DOMAIN saves'
    BY <2>2, SaveFields DEF SettingsTypeOK
  <2> QED
    BY <1>1, <1>2, <2>2, <2>3, <2>4, <2>5 DEF SettingsTypeOK
<1> QED
  BY <1>3, <1>4, EditsEdit

(* The screen comes, reads and goes: the types are kept.                   *)
LEMMA MountTypes ==
  ASSUME SettingsTypeOK,
         OpenSettings \/ GetAllSettings \/ FetchFails \/ ReadsArrive \/ CancelQuestion
  PROVE  SettingsTypeOK'
<1>1. UNCHANGED <<setting, saved, saves, audited>>
  BY DEF OpenSettings, GetAllSettings, FetchFails, ReadsArrive, CancelQuestion
<1>2. Values' = Values /\ Saves' = Saves /\ Drafts' = Drafts /\ Questions' = Questions
  BY <1>1 DEF Values, Saves, Drafts, Questions
<1>3. Default \in Values /\ NoEntry \in Drafts /\ NoEntry \in Questions
  BY DEF Default, Values, Lists, Drafts, Questions
<1>4. NoReads = [pc |-> "none", value |-> Default]
  BY DEF NoReads
<1>5. NoReads \in [pc : {"none", "asked", "answered", "failed"}, value : Values]
  BY <1>3, <1>4
<1>6. CASE OpenSettings
  <2>1. reads' \in [pc : {"none", "asked", "answered", "failed"}, value : Values]
    BY <1>5, <1>6 DEF OpenSettings
  <2>2. /\ value' = Default /\ typed' = NoEntry /\ asking' = NoEntry /\ phase' = "loading"
        /\ alert' = FALSE /\ settingActs' = settingActs + 1 /\ UNCHANGED <<meant, settingFaults>>
    BY <1>6 DEF OpenSettings, Touch
  <2>3. settingActs' \in Nat
    BY <2>2 DEF SettingsTypeOK
  <2>4. value' \in Values /\ typed' \in Drafts /\ asking' \in Questions
    BY <1>3, <2>2
  <2> QED
    BY <1>1, <1>2, <2>1, <2>2, <2>3, <2>4 DEF SettingsTypeOK
<1>7. CASE GetAllSettings
  BY <1>1, <1>2, <1>7 DEF GetAllSettings, SettingsTypeOK
<1>8. CASE FetchFails
  <2>1. reads' \in [pc : {"none", "asked", "answered", "failed"}, value : Values]
    <3>1. [NoReads EXCEPT !.pc = "failed"] = [pc |-> "failed", value |-> Default]
      BY <1>4
    <3>2. reads' \in {[pc |-> "failed", value |-> Default], [pc |-> "answered", value |-> Default]}
      BY <1>8, <3>1 DEF FetchFails, FailedReads
    <3> QED
      BY <1>3, <3>2
  <2> QED
    BY <1>1, <1>2, <1>8, <2>1 DEF FetchFails, SettingFault, SettingsTypeOK
<1>9. CASE ReadsArrive
  <2>1. reads.value \in Values
    BY DEF SettingsTypeOK
  <2>2. setting = "field" => reads.value \in Drafts
    BY <2>1 DEF Drafts, Values, Lists
  <2>3. typed' \in Drafts /\ value' \in Values /\ meant' \in Values
    BY <1>9, <2>1, <2>2 DEF ReadsArrive, SettingsTypeOK
  <2>4. reads' \in [pc : {"none", "asked", "answered", "failed"}, value : Values]
    BY <1>5, <1>9 DEF ReadsArrive
  <2> QED
    BY <1>1, <1>2, <1>9, <2>3, <2>4 DEF ReadsArrive, SettingsTypeOK
<1>10. CASE CancelQuestion
  BY <1>1, <1>2, <1>3, <1>10 DEF CancelQuestion, SettingsTypeOK
<1> QED
  BY <1>6, <1>7, <1>8, <1>9, <1>10

(* When the screen goes, the saves are no longer its own.                  *)
LEMMA LeaveMoves ==
  ASSUME SettingsTypeOK, LeaveSettings
  PROVE  /\ saves' \in Seq(Saves) /\ DOMAIN saves' = DOMAIN saves
         /\ \A m \in DOMAIN saves : saves'[m].pc = saves[m].pc
<1>1. saves' = [n \in 1 .. Len(saves) |-> [saves[n] EXCEPT !.mounted = FALSE]]
  BY SaveFields DEF LeaveSettings
<1>2. \A n \in 1 .. Len(saves) :
        /\ [saves[n] EXCEPT !.mounted = FALSE] \in Saves
        /\ [saves[n] EXCEPT !.mounted = FALSE].pc = saves[n].pc
  BY SaveFields DEF Saves
<1>3. saves' \in [1 .. Len(saves) -> Saves]
  BY <1>1, <1>2
<1>4. saves' \in Seq(Saves) /\ DOMAIN saves' = 1 .. Len(saves)
  BY <1>3, SaveFields, SeqDef
<1> QED
  BY <1>1, <1>2, <1>4, SaveFields

(* The hub's part, and the other writers: the types are kept.              *)
LEMMA HubTypes ==
  ASSUME SettingsTypeOK, NEW n \in DOMAIN saves,
         Upsert(n) \/ Audit(n) \/ SaveAnswered(n) \/ SaveFails(n)
  PROVE  SettingsTypeOK'
<1>1. /\ UNCHANGED <<setting, phase, asking, reads, meant, settingActs>>
      /\ \E to \in {"sent", "upserted", "stored", "done", "failed"} :
           saves' = [saves EXCEPT ![n].pc = to]
  BY DEF Upsert, Audit, SaveAnswered, SaveFails, screenVars
<1>2. Values' = Values /\ Drafts' = Drafts /\ Questions' = Questions
  BY <1>1 DEF Values, Drafts, Questions
<1>3. saves' \in Seq(Saves') /\ DOMAIN saves' = DOMAIN saves
  BY <1>1, SaveMoves
<1>4. saves[n].value \in Values /\ saves[n].mounted \in BOOLEAN
  BY SaveFields
<1>5. CASE Upsert(n)
  BY <1>1, <1>2, <1>3, <1>4, <1>5 DEF Upsert, screenVars, SettingsTypeOK
<1>6. CASE Audit(n)
  BY <1>1, <1>2, <1>3, <1>6 DEF Audit, screenVars, SettingsTypeOK
<1>7. CASE SaveAnswered(n)
  <2>1. setting = "field" => saves[n].value \in Drafts
    BY <1>4 DEF Drafts, Values, Lists
  <2>2. NoEntry \in Drafts
    BY DEF Drafts
  <2>3. typed' \in Drafts /\ value' \in Values
    BY <1>4, <1>7, <2>1, <2>2 DEF SaveAnswered, Accepted, SettingsTypeOK
  <2> QED
    BY <1>1, <1>2, <1>3, <1>7, <2>3 DEF SaveAnswered, SettingsTypeOK
<1>8. CASE SaveFails(n)
  BY <1>1, <1>2, <1>3, <1>4, <1>8 DEF SaveFails, SettingFault, screenVars, SettingsTypeOK
<1> QED
  BY <1>5, <1>6, <1>7, <1>8

(* Every step keeps the types.                                             *)
LEMMA SettingsTypesKept ==
  ASSUME SettingsTypeOK, SettingsNext
  PROVE  SettingsTypeOK'
<1>1. CASE Edit
  BY <1>1, EditTypes
<1>2. CASE OpenSettings \/ GetAllSettings \/ FetchFails \/ ReadsArrive \/ CancelQuestion
  BY <1>2, MountTypes
<1>3. CASE LeaveSettings
  <2>1. saves' \in Seq(Saves) /\ DOMAIN saves' = DOMAIN saves
    BY <1>3, LeaveMoves
  <2>2. UNCHANGED setting
    BY <1>3 DEF LeaveSettings
  <2>3. Values' = Values /\ Saves' = Saves /\ Drafts' = Drafts /\ Questions' = Questions
    BY <2>2 DEF Values, Saves, Drafts, Questions
  <2>4. reads' \in [pc : {"none", "asked", "answered", "failed"}, value : Values]
    BY <1>3 DEF LeaveSettings, NoReads, Default, Values, Lists
  <2> QED
    BY <1>3, <2>1, <2>3, <2>4 DEF LeaveSettings, SettingsTypeOK
<1>4. ASSUME NEW n \in DOMAIN saves, Upsert(n) \/ Audit(n) \/ SaveAnswered(n) \/ SaveFails(n)
      PROVE  SettingsTypeOK'
  BY <1>4, HubTypes
<1>5. ASSUME NEW e \in Entries, OtherWrites(e)
      PROVE  SettingsTypeOK'
  <2>1. UNCHANGED <<setting, screenVars, saves, alert, audited, settingFaults>>
    BY <1>5 DEF OtherWrites
  <2>2. Values' = Values /\ Saves' = Saves /\ Drafts' = Drafts /\ Questions' = Questions
    BY <2>1 DEF Values, Saves, Drafts, Questions
  <2>3. saved' \in Values /\ meant' \in Values /\ settingActs' \in Nat
    BY <1>5 DEF OtherWrites, Touch, SettingsTypeOK, Values
  <2> QED
    BY <2>1, <2>2, <2>3 DEF screenVars, SettingsTypeOK
<1> QED
  BY <1>1, <1>2, <1>3, <1>4, <1>5 DEF SettingsNext, Edit

(* Every variable of the Settings screen keeps its type, for any entries   *)
(* and whether or not the person waits or is alone.                        *)
THEOREM SettingsTypeCorrect == SettingsSpec => []SettingsTypeOK
<1>1. SettingsInit => SettingsTypeOK
  <2> SUFFICES ASSUME SettingsInit
               PROVE  SettingsTypeOK
    OBVIOUS
  <2>1. saved \in Values /\ value \in Values /\ meant \in Values /\ Default \in Values
    BY DEF SettingsInit, Values, Default, Lists
  <2>2. typed \in Drafts /\ asking \in Questions
    BY DEF SettingsInit, Drafts, Questions
  <2>3. reads \in [pc : {"none", "asked", "answered", "failed"}, value : Values]
    BY <2>1 DEF SettingsInit, NoReads
  <2>4. saves \in Seq(Saves) /\ audited \subseteq DOMAIN saves
    BY DEF SettingsInit
  <2> QED
    BY <2>1, <2>2, <2>3, <2>4 DEF SettingsInit, SettingsTypeOK
<1>2. SettingsTypeOK /\ [SettingsNext]_settingVars => SettingsTypeOK'
  <2>1. ASSUME SettingsTypeOK, UNCHANGED settingVars
        PROVE  SettingsTypeOK'
    BY <2>1
       DEF settingVars, screenVars, SettingsTypeOK, Values, Saves, Drafts, Questions
  <2> QED
    BY <2>1, SettingsTypesKept
<1> QED
  BY <1>1, <1>2, PTL DEF SettingsSpec

-----------------------------------------------------------------------------
(* Edits are kept.                                                         *)

UnderWay == \E n \in DOMAIN saves : Out(saves[n])

(* While the screen loads, what it was answered is what the hub has.       *)
Loads ==
  /\ reads.pc # "none" => phase = "loading"
  /\ reads.pc = "answered" => reads.value = saved

(* A save under way is the only one, its screen is up, and it carries what *)
(* was meant; from the upsert on the hub has it.                           *)
Carries ==
  \A n \in DOMAIN saves : Out(saves[n]) =>
    /\ n = Len(saves) /\ phase = "ready" /\ ~alert /\ saves[n].mounted
    /\ Kept(saves[n].value) = Kept(meant)
    /\ saves[n].pc # "sent" => saved = saves[n].value

(* Otherwise the screen, the hub and what was meant are the same.          *)
Agrees ==
  phase = "ready" /\ ~alert /\ ~UnderWay => Kept(saved) = Kept(meant) /\ Kept(value) = Kept(saved)

SettingsInv == SettingsTypeOK /\ Loads /\ Carries /\ Agrees

(* What is kept depends on the setting only.                               *)
LEMMA KeptStays ==
  ASSUME UNCHANGED setting
  PROVE  /\ Kept(saved)' = Kept(saved') /\ Kept(meant)' = Kept(meant')
         /\ Kept(value)' = Kept(value')
BY DEF Kept

(* An edit of a person who waits finds the three the same, and its save is *)
(* the only one under way.                                                 *)
LEMMA EditKeeps ==
  ASSUME SettingsInv, Patient, Edit
  PROVE  Loads' /\ Carries' /\ Agrees'
<1> USE DEF SettingsInv
<1>1. phase = "ready" /\ ~alert /\ ~UnderWay
  BY EditsEdit DEF MayEdit, UnderWay
<1>2. Kept(saved) = Kept(meant) /\ Kept(value) = Kept(saved)
  BY <1>1 DEF Agrees
<1>3. CASE TouchesNothing
  BY <1>3 DEF TouchesNothing, Loads, Carries, Agrees, UnderWay, Kept, Out
<1>4. ASSUME NEW whole \in Values, NEW edited \in Values, NEW clears \in BOOLEAN,
             Edits(whole, edited, clears)
      PROVE  Loads' /\ Carries' /\ Agrees'
  <2>1. Write(whole, edited, clears) /\ Kept(whole) = Kept(edited)
    BY <1>2, <1>4 DEF Edits
  <2>2. /\ DOMAIN saves' = 1 .. Len(saves) + 1 /\ Len(saves') = Len(saves) + 1
        /\ \A n \in DOMAIN saves : saves'[n] = saves[n]
        /\ saves'[Len(saves) + 1] =
             [value |-> whole, clears |-> clears, mounted |-> TRUE, pc |-> "sent"]
    BY <2>1, WriteAdds
  <2>3. meant' = edited /\ UNCHANGED <<setting, saved, phase, value, reads, alert>>
    BY <2>1 DEF Write
  <2>4. DOMAIN saves = 1 .. Len(saves) /\ Len(saves) \in Nat
    BY SaveFields
  <2>5. Loads'
    BY <2>3 DEF Loads
  <2>6. PICK l \in DOMAIN saves' : l = Len(saves) + 1
    BY <2>2, <2>4
  <2>7. \A n \in DOMAIN saves' : Out(saves'[n]) => n = l
    BY <1>1, <2>2, <2>4, <2>6 DEF UnderWay
  <2>8. Kept(saves[l].value)' = Kept(meant)'
    <3>1. saves'[l].value = whole
      BY <2>2, <2>6
    <3>2. Kept(saves[l].value)' = Kept(whole) /\ Kept(meant)' = Kept(edited)
      BY <3>1, <2>3 DEF Kept
    <3> QED
      BY <3>2, <2>1
  <2>9. Carries'
    BY <1>1, <2>2, <2>3, <2>6, <2>7, <2>8 DEF Carries, Out
  <2>10. UnderWay'
    BY <2>2, <2>6 DEF UnderWay, Out
  <2>11. Agrees'
    BY <2>10 DEF Agrees
  <2> QED
    BY <2>5, <2>9, <2>11
<1> QED
  BY <1>3, <1>4, EditsEdit

(* A save that gets on.                                                    *)
LEMMA SaveKeeps ==
  ASSUME SettingsInv, NEW n \in DOMAIN saves,
         Upsert(n) \/ Audit(n) \/ SaveAnswered(n) \/ SaveFails(n)
  PROVE  Loads' /\ Carries' /\ Agrees'
<1> USE DEF SettingsInv
<1>1. Out(saves[n])
  BY DEF Upsert, Audit, SaveAnswered, SaveFails, Out
<1>2. /\ n = Len(saves) /\ phase = "ready" /\ ~alert /\ saves[n].mounted
      /\ Kept(saves[n].value) = Kept(meant)
      /\ saves[n].pc # "sent" => saved = saves[n].value
  BY <1>1 DEF Carries
<1>3. PICK to \in {"sent", "upserted", "stored", "done", "failed"} :
        /\ saves' = [saves EXCEPT ![n].pc = to]
        /\ to \in {"upserted", "stored"} => UNCHANGED <<value, alert>> /\ saved' = saves[n].value
        /\ to = "done" => UNCHANGED <<saved, alert>> /\ value' = saves[n].value
                          /\ saves[n].pc = "stored"
        /\ to = "failed" => alert' = TRUE
        /\ to \in {"upserted", "stored", "done", "failed"}
  BY <1>2 DEF Upsert, Audit, SaveAnswered, SaveFails, Accepted, screenVars
<1>4. UNCHANGED <<setting, phase, reads, meant>>
  BY DEF Upsert, Audit, SaveAnswered, SaveFails, screenVars
<1>5. /\ DOMAIN saves' = DOMAIN saves /\ Len(saves') = Len(saves)
      /\ \A m \in DOMAIN saves :
           /\ saves'[m].value = saves[m].value /\ saves'[m].mounted = saves[m].mounted
           /\ saves'[m].pc = IF m = n THEN to ELSE saves[m].pc
  BY <1>3, <1>4, SaveMoves
<1>6. \A m \in DOMAIN saves : Out(saves[m]) => m = n
  BY <1>2 DEF Carries
<1>7. \A m \in DOMAIN saves : Out(saves'[m]) => m = n /\ to \in {"upserted", "stored"}
  BY <1>3, <1>5, <1>6 DEF Out
<1>8. Loads'
  BY <1>2, <1>4 DEF Loads
<1>9. ASSUME NEW m \in DOMAIN saves, Out(saves'[m])
      PROVE  /\ m = Len(saves') /\ phase' = "ready" /\ ~alert' /\ saves'[m].mounted
             /\ Kept(saves[m].value)' = Kept(meant)'
             /\ saved' = saves'[m].value
  <2>1. m = n /\ to \in {"upserted", "stored"}
    BY <1>7, <1>9
  <2> QED
    <3>1. Kept(saves[m].value)' = Kept(saves[n].value) /\ Kept(meant)' = Kept(meant)
      BY <2>1, <1>4, <1>5 DEF Kept
    <3>2. m = Len(saves') /\ phase' = "ready" /\ ~alert' /\ saves'[m].mounted
      <4>1. alert' = alert /\ saves'[m].mounted = saves[n].mounted
        BY <2>1, <1>3, <1>5
      <4>2. m = Len(saves') /\ phase' = "ready"
        BY <2>1, <1>2, <1>4, <1>5
      <4> QED
        BY <4>1, <4>2, <1>2
    <3>3. saved' = saves'[m].value
      BY <2>1, <1>3, <1>5
    <3> QED
      BY <3>1, <3>2, <3>3, <1>2
<1>10. Carries'
  BY <1>5, <1>9 DEF Carries
<1>11. Agrees'
  <2>1. CASE to = "done"
    BY <2>1, <1>2, <1>3, <1>4 DEF Agrees, Kept
  <2>2. CASE to = "failed"
    BY <2>2, <1>3 DEF Agrees
  <2>3. CASE to \in {"upserted", "stored"}
    <3>1. UnderWay'
      BY <2>3, <1>5 DEF UnderWay, Out
    <3> QED
      BY <3>1 DEF Agrees
  <2> QED
    BY <2>1, <2>2, <2>3, <1>3
<1> QED
  BY <1>8, <1>10, <1>11

(* The screen comes, reads, and goes.                                      *)
LEMMA MountKeeps ==
  ASSUME SettingsInv, Patient, ReadsAnswer,
         \/ OpenSettings \/ GetAllSettings \/ FetchFails \/ ReadsArrive \/ CancelQuestion
         \/ LeaveSettings
  PROVE  Loads' /\ Carries' /\ Agrees'
<1> USE DEF SettingsInv
<1>1. phase # "ready" => \A n \in DOMAIN saves : ~Out(saves[n])
  BY DEF Carries
<1>2. CASE OpenSettings
  BY <1>1, <1>2 DEF OpenSettings, NoReads, Loads, Carries, Agrees
<1>3. CASE GetAllSettings
  BY <1>1, <1>3 DEF GetAllSettings, Loads, Carries, Agrees
<1>4. CASE FetchFails
  <2>1. reads'.pc = "failed" /\ phase = "loading"
    BY <1>4 DEF FetchFails, FailedReads, NoReads, Loads
  <2>2. UNCHANGED <<setting, saved, phase, value, saves, alert, meant>>
    BY <1>4 DEF FetchFails
  <2> QED
    BY <1>1, <2>1, <2>2 DEF Loads, Carries, Agrees
<1>5. CASE ReadsArrive
  <2>1. /\ phase = "loading" /\ reads'.pc = "none"
        /\ UNCHANGED <<setting, saved, saves, alert>>
    BY <1>5 DEF ReadsArrive, Loads, NoReads
  <2>2. \A n \in DOMAIN saves : ~Out(saves[n])
    BY <1>1, <2>1
  <2>3. phase' = "ready" => value' = saved /\ meant' = saved
    BY <1>5, <2>2 DEF ReadsArrive, Loads
  <2>4. Loads' /\ Carries'
    BY <2>1, <2>2 DEF Loads, Carries
  <2>5. Agrees'
    BY <2>1, <2>3 DEF Agrees, Kept
  <2> QED
    BY <2>4, <2>5
<1>6. CASE CancelQuestion
  BY <1>6 DEF CancelQuestion, Loads, Carries, Agrees, UnderWay, Kept, Out
<1>7. CASE LeaveSettings
  <2>1. \A n \in DOMAIN saves : ~Out(saves[n])
    BY <1>7 DEF LeaveSettings
  <2>2. DOMAIN saves' = DOMAIN saves /\ \A n \in DOMAIN saves : saves'[n].pc = saves[n].pc
    BY <1>7, LeaveMoves
  <2>3. \A n \in DOMAIN saves' : ~Out(saves'[n])
    BY <2>1, <2>2 DEF Out
  <2>4. phase' = "away" /\ reads'.pc = "none"
    BY <1>7 DEF LeaveSettings, NoReads
  <2> QED
    BY <2>3, <2>4 DEF Loads, Carries, Agrees
<1> QED
  BY <1>2, <1>3, <1>4, <1>5, <1>6, <1>7

(* The invariant of Settings, for a person who waits for reads and         *)
(* answers, is alone, and whose reads are answered: a save carries what    *)
(* was meant, and when none is under way hub and screen have it.           *)
THEOREM SettingsInvariant ==
  Patient /\ Alone /\ ReadsAnswer => (SettingsSpec => []SettingsInv)
<1> SUFFICES ASSUME Patient, Alone, ReadsAnswer
             PROVE  SettingsSpec => []SettingsInv
  OBVIOUS
<1>1. SettingsInit => Loads /\ Carries /\ Agrees
  BY DEF SettingsInit, NoReads, Loads, Carries, Agrees
<1>2. ASSUME SettingsInv, SettingsNext
      PROVE  Loads' /\ Carries' /\ Agrees'
  <2>1. CASE Edit
    BY <1>2, <2>1, EditKeeps
  <2>2. CASE \/ OpenSettings \/ GetAllSettings \/ FetchFails \/ ReadsArrive \/ CancelQuestion
             \/ LeaveSettings
    BY <1>2, <2>2, MountKeeps
  <2>3. ASSUME NEW n \in DOMAIN saves, Upsert(n) \/ Audit(n) \/ SaveAnswered(n) \/ SaveFails(n)
        PROVE  Loads' /\ Carries' /\ Agrees'
    BY <1>2, <2>3, SaveKeeps
  <2>4. ASSUME NEW e \in Entries, OtherWrites(e)
        PROVE  Loads' /\ Carries' /\ Agrees'
    <3>1. phase = "away" /\ \A n \in DOMAIN saves : ~Out(saves[n])
      BY <2>4 DEF OtherWrites
    <3>2. UNCHANGED <<setting, phase, reads, saves, alert>>
      BY <2>4 DEF OtherWrites, screenVars
    <3> QED
      BY <1>2, <3>1, <3>2 DEF SettingsInv, Loads, Carries, Agrees
  <2> QED
    BY <1>2, <2>1, <2>2, <2>3, <2>4 DEF SettingsNext, Edit
<1>3. Loads /\ Carries /\ Agrees /\ UNCHANGED settingVars => Loads' /\ Carries' /\ Agrees'
  <2> SUFFICES ASSUME Loads, Carries, Agrees, UNCHANGED settingVars
               PROVE  Loads' /\ Carries' /\ Agrees'
    OBVIOUS
  <2>1. UNCHANGED <<setting, saved, phase, value, reads, saves, alert, meant>>
    BY DEF settingVars, screenVars
  <2>2. Loads'
    BY <2>1 DEF Loads
  <2>3. Carries'
    BY <2>1 DEF Carries, Kept
  <2>4. Agrees'
    BY <2>1 DEF Agrees, UnderWay, Kept
  <2> QED
    BY <2>2, <2>3, <2>4
<1>4. SettingsTypeOK /\ Loads /\ Carries /\ Agrees /\ [SettingsNext]_settingVars
        => Loads' /\ Carries' /\ Agrees'
  BY <1>2, <1>3 DEF SettingsInv
<1>5. SettingsInv <=> SettingsTypeOK /\ Loads /\ Carries /\ Agrees
  BY DEF SettingsInv
<1> QED
  BY <1>1, <1>4, <1>5, SettingsTypeCorrect, PTL DEF SettingsSpec

(* Although every save sends the whole value that the screen shows, when   *)
(* no save is under way and none failed the hub has what the edits made of *)
(* its own value, and the screen shows it: for any lists of entries and    *)
(* any number of edits, failures and visits of the screen.                 *)
THEOREM SettingsKeepEdits ==
  Patient /\ Alone /\ ReadsAnswer => (SettingsSpec => []EditsAreKept)
<1>1. SettingsInv => EditsAreKept
  BY DEF SettingsInv, Agrees, EditsAreKept, Understood, UnderWay, Kept
<1> QED
  BY <1>1, SettingsInvariant, PTL

-----------------------------------------------------------------------------
(* The shell: the last gesture wins.                                       *)

Layouts == [collapsed : BOOLEAN, width : Widths]
Puts == [key : {"collapsed"}, value : BOOLEAN] \cup [key : {"width"}, value : Widths]

LayoutTypes ==
  /\ layout \in Layouts /\ hubLayout \in Layouts
  /\ restore \in [at : {"asked", "answered", "done"}, layout : Layouts]
  /\ puts \in Seq(Puts)
  /\ arranged \in BOOLEAN
  /\ chosen \in [collapsed : SUBSET BOOLEAN, width : SUBSET Widths]

SearchTypes ==
  /\ gen \in Nat
  /\ results \in [of : Nat, loading : BOOLEAN]
  /\ timer \in Nat /\ ask.query \in Nat /\ shellActs \in Nat
  /\ searches \subseteq [gen : Nat, query : Nat]

(* What was chosen is arranged, so no restored layout replaces it.         *)
Arranged ==
  \A key \in {"collapsed", "width"} :
    chosen[key] # {} => arranged /\ layout[key] \in chosen[key]

(* A search of the current generation is about the query asked last, and   *)
(* what is shown is that, unless its answer is awaited.                    *)
Current ==
  /\ \A r \in searches : r.gen <= gen /\ (r.gen = gen => r.query = asked)
  /\ LatestAnswerIsShown

ShellInv == LayoutTypes /\ SearchTypes /\ Arranged /\ Current

(* A gesture that arranges the layout marks it as arranged.                *)
LEMMA ArrangingKeeps ==
  ASSUME LayoutTypes, Arranged, NEW key \in {"collapsed", "width"}, NEW v,
         [key |-> key, value |-> v] \in Puts,
         Arranges(key, v), UNCHANGED <<hubLayout, restore>>
  PROVE  LayoutTypes' /\ Arranged'
<1>1. /\ layout' = [layout EXCEPT ![key] = v] /\ arranged' = TRUE
      /\ chosen' = [chosen EXCEPT ![key] = {v}]
      /\ puts' = Append(puts, [key |-> key, value |-> v])
  BY DEF Arranges, Remember
<1>2. puts' \in Seq(Puts)
  BY <1>1, AppendProperties DEF LayoutTypes
<1>3. CASE key = "collapsed"
  <2>1. v \in BOOLEAN
    BY <1>3 DEF Puts
  <2>2. layout' \in Layouts /\ layout'.collapsed = v /\ layout'.width = layout.width
    BY <1>1, <1>3, <2>1 DEF LayoutTypes, Layouts
  <2>3. /\ chosen' \in [collapsed : SUBSET BOOLEAN, width : SUBSET Widths]
        /\ chosen'.collapsed = {v} /\ chosen'.width = chosen.width
    BY <1>1, <1>3, <2>1 DEF LayoutTypes
  <2> QED
    BY <1>1, <1>2, <2>2, <2>3 DEF LayoutTypes, Arranged
<1>4. CASE key = "width"
  <2>1. v \in Widths
    BY <1>4 DEF Puts
  <2>2. layout' \in Layouts /\ layout'.width = v /\ layout'.collapsed = layout.collapsed
    BY <1>1, <1>4, <2>1 DEF LayoutTypes, Layouts
  <2>3. /\ chosen' \in [collapsed : SUBSET BOOLEAN, width : SUBSET Widths]
        /\ chosen'.width = {v} /\ chosen'.collapsed = chosen.collapsed
    BY <1>1, <1>4, <2>1 DEF LayoutTypes
  <2> QED
    BY <1>1, <1>2, <2>2, <2>3 DEF LayoutTypes, Arranged
<1> QED
  BY <1>3, <1>4

(* The steps that arrange nothing, and those that search for nothing.      *)
LEMMA LayoutRests ==
  ASSUME LayoutTypes, Arranged, UNCHANGED <<layout, hubLayout, restore, puts, arranged, chosen>>
  PROVE  LayoutTypes' /\ Arranged'
BY DEF LayoutTypes, Arranged

LEMMA SearchRests ==
  ASSUME SearchTypes, Current, UNCHANGED <<gen, asked, searches, results, hits>>,
         timer' \in Nat, ask'.query \in Nat, shellActs' \in Nat
  PROVE  SearchTypes' /\ Current'
BY DEF SearchTypes, Current, LatestAnswerIsShown

(* The layout is kept by every step.                                       *)
LEMMA LayoutKept ==
  ASSUME LayoutTypes, Arranged, ShellNext
  PROVE  LayoutTypes' /\ Arranged'
<1>1. ASSUME Toggles
      PROVE  LayoutTypes' /\ Arranged'
  <2>1. [key |-> "collapsed", value |-> ~layout.collapsed] \in Puts
    BY DEF LayoutTypes, Layouts, Puts
  <2> QED
    BY <1>1, <2>1, ArrangingKeeps DEF Toggles
<1>2. CASE OnWidthCommit \/ OnReset
  <2>1. PICK w \in Widths : Arranges("width", w) /\ UNCHANGED <<hubLayout, restore>>
    BY <1>2 DEF OnWidthCommit, OnReset, Widths
  <2>2. [key |-> "width", value |-> w] \in Puts
    BY DEF Puts
  <2> QED
    BY <2>1, <2>2, ArrangingKeeps
<1>3. CASE SettingIsStored
  <2>1. PICK i \in DOMAIN puts :
          /\ puts' = SubSeq(puts, 1, i - 1) \o SubSeq(puts, i + 1, Len(puts))
          /\ \/ hubLayout' = [hubLayout EXCEPT ![puts[i].key] = puts[i].value]
             \/ UNCHANGED hubLayout
    BY <1>3 DEF SettingIsStored
  <2>2. puts \in Seq(Puts) /\ DOMAIN puts = 1 .. Len(puts) /\ Len(puts) \in Nat
    BY DEF LayoutTypes
  <2>3. puts[i] \in Puts
    BY <2>2
  <2>4. hubLayout' \in Layouts
    BY <2>1, <2>3 DEF LayoutTypes, Layouts, Puts
  <2>5. SubSeq(puts, 1, i - 1) \in Seq(Puts) /\ SubSeq(puts, i + 1, Len(puts)) \in Seq(Puts)
    BY <2>2
  <2>6. puts' \in Seq(Puts)
    BY <2>1, <2>5, ConcatProperties
  <2>7. UNCHANGED <<layout, restore, arranged, chosen>>
    BY <1>3 DEF SettingIsStored
  <2> QED
    BY <2>4, <2>6, <2>7 DEF LayoutTypes, Arranged
<1>4. CASE HubReadsSettings
  <2>1. restore' \in [at : {"asked", "answered", "done"}, layout : Layouts]
    <3>1. PICK l \in {hubLayout, Shipped} : restore' = [at |-> "answered", layout |-> l]
      BY <1>4 DEF HubReadsSettings
    <3>2. Shipped \in Layouts /\ hubLayout \in Layouts
      BY DEF LayoutTypes, Layouts, Shipped, Widths
    <3> QED
      BY <3>1, <3>2
  <2>2. UNCHANGED <<layout, hubLayout, puts, arranged, chosen>>
    BY <1>4 DEF HubReadsSettings
  <2> QED
    BY <2>1, <2>2 DEF LayoutTypes, Arranged
<1>5. CASE Restore
  <2>1. restore' \in [at : {"asked", "answered", "done"}, layout : Layouts]
    BY <1>5 DEF Restore, Layouts, Shipped, Widths
  <2>2. layout' \in Layouts /\ (arranged => layout' = layout)
    BY <1>5 DEF Restore, LayoutTypes
  <2>3. UNCHANGED <<hubLayout, puts, arranged, chosen>>
    BY <1>5 DEF Restore
  <2> QED
    BY <2>1, <2>2, <2>3 DEF LayoutTypes, Arranged
<1>6. CASE RunCommand
  <2>1. CASE UNCHANGED layoutVars
    BY <2>1, LayoutRests DEF layoutVars
  <2> QED
    BY <1>1, <1>6, <2>1 DEF RunCommand
<1>7. CASE OnPaneToggle
  BY <1>1, <1>7 DEF OnPaneToggle
<1>8. ASSUME UNCHANGED <<layout, hubLayout, restore, puts, arranged, chosen>>
      PROVE  LayoutTypes' /\ Arranged'
  BY <1>8, LayoutRests
<1>9. CASE \/ OpenRow \/ OpenPerson \/ OpenThreadFromPerson \/ OpenQueue
           \/ GoTo \/ ClosePane \/ OnPaneDismiss \/ Resize \/ Drag \/ OnWidthCancel
  BY <1>8, <1>9
     DEF OpenRow, OpenPerson, OpenThreadFromPerson, OpenQueue, GoTo, ClosePane, OnPaneDismiss,
         Resize, Drag, OnWidthCancel, layoutVars
<1>10. CASE \/ CommandKey \/ TypeQuery \/ CloseAsk \/ AskIsGone \/ RunSearch \/ SearchAnswered
            \/ SearchFails \/ OpenHit \/ ApprovalsChange
  BY <1>8, <1>10
     DEF CommandKey, TypeQuery, CloseAsk, AskIsGone, RunSearch, SearchAnswered, SearchFails,
         OpenHit, ApprovalsChange, layoutVars
<1> QED
  BY <1>2, <1>3, <1>4, <1>5, <1>6, <1>7, <1>9, <1>10 DEF ShellNext

(* What the ask bar shows is kept by every step.                           *)
LEMMA SearchKept ==
  ASSUME SearchTypes, Current, ShellNext
  PROVE  SearchTypes' /\ Current'
<1>1. ASSUME UNCHANGED <<gen, asked, searches, results, hits>>,
             UNCHANGED <<ask, timer>>, shellActs' \in Nat
      PROVE  SearchTypes' /\ Current'
  BY <1>1, SearchRests DEF SearchTypes
<1>2. Act => shellActs' \in Nat
  BY DEF Act, SearchTypes
<1>3. shellActs \in Nat /\ timer \in Nat /\ ask.query \in Nat /\ gen \in Nat
  BY DEF SearchTypes
<1>4. CASE \/ OpenRow \/ OpenPerson \/ OpenThreadFromPerson \/ OpenQueue
           \/ GoTo \/ ClosePane \/ OnPaneDismiss \/ Resize \/ Drag \/ OnPaneToggle \/ OnReset
           \/ ApprovalsChange
  BY <1>1, <1>2, <1>4
     DEF OpenRow, OpenPerson, OpenThreadFromPerson, OpenQueue, GoTo, ClosePane, OnPaneDismiss,
         Resize, Drag, OnPaneToggle, OnReset, ApprovalsChange, askVars
<1>5. CASE OnWidthCommit \/ OnWidthCancel \/ SettingIsStored \/ HubReadsSettings \/ Restore
  BY <1>1, <1>3, <1>5
     DEF OnWidthCommit, OnWidthCancel, SettingIsStored, HubReadsSettings, Restore, askVars
<1>6. ASSUME ClosesAsk, UNCHANGED <<gen, asked, searches, results, hits>>, shellActs' \in Nat
      PROVE  SearchTypes' /\ Current'
  <2>1. ask'.query = ask.query /\ timer' = 0
    BY <1>6 DEF ClosesAsk
  <2> QED
    BY <1>3, <1>6, <2>1, SearchRests
<1>7. CASE CloseAsk \/ OpenHit \/ RunCommand
  BY <1>2, <1>6, <1>7 DEF CloseAsk, OpenHit, RunCommand
<1>8. CASE CommandKey
  <2>1. ask'.query = ask.query /\ timer' \in {0, ask.query}
    BY <1>8 DEF CommandKey
  <2>2. UNCHANGED <<gen, asked, searches, results, hits>> /\ shellActs' \in Nat
    BY <1>2, <1>8 DEF CommandKey
  <2> QED
    BY <1>3, <2>1, <2>2, SearchRests
<1>9. CASE TypeQuery
  <2>1. ask'.query \in {0, shellActs + 1} /\ timer' \in {0, shellActs + 1}
    BY <1>9 DEF TypeQuery
  <2>2. UNCHANGED <<gen, asked, searches, results, hits>> /\ shellActs' \in Nat
    BY <1>2, <1>9 DEF TypeQuery
  <2> QED
    BY <1>3, <2>1, <2>2, SearchRests
<1>10. CASE AskIsGone
  BY <1>3, <1>10, SearchRests DEF AskIsGone
<1>11. CASE RunSearch
  <2>1. /\ timer' = 0 /\ gen' = gen + 1 /\ asked' = timer
        /\ searches' = searches \cup {[gen |-> gen + 1, query |-> timer]}
        /\ results' = [results EXCEPT !.loading = TRUE]
        /\ UNCHANGED <<ask, hits, shellActs>>
    BY <1>11 DEF RunSearch
  <2>2. results' \in [of : Nat, loading : BOOLEAN] /\ results'.of = results.of /\ results'.loading
    BY <2>1 DEF SearchTypes
  <2>3. searches' \subseteq [gen : Nat, query : Nat]
    BY <1>3, <2>1 DEF SearchTypes
  <2>4. \A r \in searches' : r.gen <= gen' /\ (r.gen = gen' => r.query = asked')
    BY <1>3, <2>1 DEF SearchTypes, Current
  <2> QED
    BY <1>3, <2>1, <2>2, <2>3, <2>4 DEF SearchTypes, Current, LatestAnswerIsShown
<1>12. CASE SearchAnswered
  <2>1. PICK r \in searches : SearchReply(r)
    BY <1>12 DEF SearchAnswered
  <2>2. UNCHANGED <<ask, timer, gen, asked, shellActs>> /\ searches' = searches \ {r}
    BY <1>12, <2>1 DEF SearchAnswered, SearchReply
  <2>3. r.query \in Nat
    BY DEF SearchTypes
  <2>4. CASE r.gen = gen
    <3>1. results' = [of |-> r.query, loading |-> FALSE] /\ hits' = r.query /\ r.query = asked
      BY <2>1, <2>4 DEF SearchReply, Current
    <3> QED
      BY <2>2, <2>3, <3>1 DEF SearchTypes, Current, LatestAnswerIsShown
  <2>5. CASE r.gen # gen
    BY <2>1, <2>2, <2>5 DEF SearchReply, SearchTypes, Current, LatestAnswerIsShown
  <2> QED
    BY <2>4, <2>5
<1>13. CASE SearchFails
  <2>1. /\ searches' \subseteq searches /\ results' \in {NoResults, results}
        /\ UNCHANGED <<ask, timer, gen, asked, hits, shellActs>>
    BY <1>13 DEF SearchFails
  <2>2. results' \in [of : Nat, loading : BOOLEAN] /\ (results'.of = 0 \/ results' = results)
    <3>1. NoResults \in [of : Nat, loading : BOOLEAN] /\ NoResults.of = 0
      BY DEF NoResults
    <3> QED
      BY <2>1, <3>1 DEF SearchTypes
  <2>3. SearchTypes'
    BY <2>1, <2>2 DEF SearchTypes
  <2>4. LatestAnswerIsShown'
    BY <2>1, <2>2 DEF Current, LatestAnswerIsShown
  <2> QED
    BY <2>1, <2>3, <2>4 DEF Current
<1> QED
  BY <1>4, <1>5, <1>7, <1>8, <1>9, <1>10, <1>11, <1>12, <1>13 DEF ShellNext

(* The invariant of the shell: what was chosen is marked as arranged, and  *)
(* the current search is about what was asked last.                        *)
THEOREM ShellInvariant == ShellSpec => []ShellInv
<1>1. ShellInit => ShellInv
  <2> SUFFICES ASSUME ShellInit
               PROVE  ShellInv
    OBVIOUS
  <2>1. LayoutTypes
    <3>1. /\ Shipped \in Layouts /\ hubLayout \in Layouts
          /\ restore = [at |-> "asked", layout |-> Shipped]
      BY DEF ShellInit, Layouts, Shipped, Widths
    <3>2. restore \in [at : {"asked", "answered", "done"}, layout : Layouts]
      BY <3>1
    <3>3. chosen \in [collapsed : SUBSET BOOLEAN, width : SUBSET Widths]
      <4>1. chosen = [collapsed |-> {}, width |-> {}]
        BY DEF ShellInit
      <4>2. {} \in SUBSET BOOLEAN /\ {} \in SUBSET Widths
        OBVIOUS
      <4> QED
        BY <4>1, <4>2
    <3>4. puts = <<>> /\ arranged = FALSE /\ layout = Shipped
      BY DEF ShellInit
    <3>5. puts \in Seq(Puts)
      BY <3>4
    <3>6. arranged \in BOOLEAN
      BY <3>4
    <3> QED
      BY <3>1, <3>2, <3>3, <3>4, <3>5, <3>6 DEF LayoutTypes
  <2>2. SearchTypes
    BY DEF ShellInit, SearchTypes, NoResults
  <2>3. Arranged /\ Current
    BY DEF ShellInit, Arranged, Current, LatestAnswerIsShown, NoResults
  <2> QED
    BY <2>1, <2>2, <2>3 DEF ShellInv
<1>2. ShellInv /\ [ShellNext]_shellVars => ShellInv'
  <2>1. ASSUME ShellInv, UNCHANGED shellVars
        PROVE  ShellInv'
    <3>1. /\ UNCHANGED <<layout, hubLayout, restore, puts, arranged, chosen>>
          /\ UNCHANGED <<gen, asked, searches, results, hits, ask, timer, shellActs>>
      BY <2>1 DEF shellVars, layoutVars, askVars
    <3>2. LayoutTypes' /\ Arranged'
      BY <2>1, <3>1, LayoutRests DEF ShellInv
    <3>3. SearchTypes' /\ Current'
      BY <2>1, <3>1, SearchRests DEF ShellInv, SearchTypes
    <3> QED
      BY <3>2, <3>3 DEF ShellInv
  <2> QED
    BY <2>1, LayoutKept, SearchKept DEF ShellInv
<1> QED
  BY <1>1, <1>2, PTL DEF ShellSpec

(* The last gesture wins: the layout a person chose is never replaced by   *)
(* the one the hub had stored, whenever that arrives, and the answer shown *)
(* is to the query asked last, in whatever order answers come - for any    *)
(* number of gestures, searches and failures, at any width.                *)
THEOREM GestureStands == ShellSpec => []LastGestureWins
<1>1. ShellInv => LastGestureWins
  BY DEF ShellInv, Arranged, Current, LastGestureWins, LayoutIsTheUsers
<1> QED
  BY <1>1, ShellInvariant, PTL

=============================================================================
