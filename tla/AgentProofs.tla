----------------------------- MODULE AgentProofs -----------------------------
(***************************************************************************)
(* Theorems about the agents' work: the import of their terminal sessions, *)
(* the turns that share a host's one child process, and the loops.         *)
(*                                                                         *)
(* Import: the items of a thread lie in order because the job stores a     *)
(* transcript from its first turn on, so that the turns before its own are *)
(* in, whichever import stored them.                                       *)
(*                                                                         *)
(* Turns: a turn is never told of another's because every turn that will   *)
(* be notified is still in the adapter's table; of the turns that share a  *)
(* session there are at least as many in the table as will be notified.    *)
(*                                                                         *)
(* Loops: the rows of a call fit its place in runLoopSpec(), attempt by    *)
(* attempt; an item that has failed too often stays so, because the row a  *)
(* call overwrites is never a failed one.                                  *)
(***************************************************************************)
EXTENDS TerminalImport, RuntimeTurns, AgentLoops, FiniteSetTheorems, SequenceTheorems, TLAPS

-----------------------------------------------------------------------------
(* The import: a thread reads in order.                                    *)

\* The job and the items are records of their fields.
JobIsRecord == job = [pc |-> job.pc, hosts |-> job.hosts, page |-> job.page, turn |-> job.turn]

ItemTypes ==
  /\ clock \in Nat
  /\ \A i \in items :
       /\ i = [of |-> i.of, turn |-> i.turn, at |-> i.at]
       /\ i.turn \in Nat \ {0} /\ i.at \in Nat /\ i.at < clock

\* The job stores a transcript from its beginning: the turns before its own are
\* there, whether it or an import before it has stored them.
EarlierAreIn ==
  job.pc = "turn" =>
    /\ job.turn \in Nat \ {0}
    /\ \A n \in 1 .. job.turn - 1 : \E j \in items : j.of = Head(job.page).of /\ j.turn = n

ImportInv == JobIsRecord /\ ItemTypes /\ EarlierAreIn /\ ThreadReadsInOrder

\* The job where it has left a host or a session.
LEMMA NextHostIsRecord ==
  /\ NextHost = [pc |-> NextHost.pc, hosts |-> NextHost.hosts, page |-> NextHost.page,
                 turn |-> NextHost.turn]
  /\ NextHost.pc # "turn"
BY DEF NextHost, NoImport

\* The same of a session.
LEMMA NextSessionIsRecord ==
  ASSUME JobIsRecord
  PROVE  /\ NextSession = [pc |-> NextSession.pc, hosts |-> NextSession.hosts,
                           page |-> NextSession.page, turn |-> NextSession.turn]
         /\ NextSession.pc # "turn"
<1>1. CASE Tail(job.page) = <<>>
  BY <1>1, NextHostIsRecord DEF NextSession
<1>2. CASE Tail(job.page) # <<>>
  BY <1>2 DEF NextSession, JobIsRecord
<1> QED
  BY <1>1, <1>2

\* Steps that store nothing and leave the session they are in.
LEMMA ImportRests ==
  ASSUME ImportInv, UNCHANGED items, clock' \in Nat, clock' >= clock,
         JobIsRecord', job'.pc = "turn" => job' = job \/ job'.turn = 1
  PROVE  ImportInv'
<1>1. ItemTypes'
  BY DEF ImportInv, ItemTypes
<1>2. ThreadReadsInOrder'
  BY DEF ImportInv, ThreadReadsInOrder
<1>3. EarlierAreIn'
  <2>1. CASE job' = job
    BY <2>1 DEF ImportInv, EarlierAreIn
  <2>2. CASE job'.pc = "turn" /\ job'.turn = 1
    BY <2>2 DEF EarlierAreIn
  <2> QED
    BY <2>1, <2>2 DEF EarlierAreIn
<1> QED
  BY <1>1, <1>2, <1>3 DEF ImportInv

\* A turn that is stored comes after those before it, and before none.
LEMMA StoreKeeps ==
  ASSUME ImportInv, WriteAgentItem
  PROVE  ImportInv'
<1> DEFINE f == Head(job.page).of
           n == job.turn
<1>1. n \in Nat \ {0} /\ \A k \in 1 .. n - 1 : \E j \in items : j.of = f /\ j.turn = k
  BY DEF ImportInv, EarlierAreIn, WriteAgentItem
<1>2. items' = Merged(f, n) /\ clock' = (IF items' = items THEN clock ELSE clock + 1)
  BY DEF WriteAgentItem
<1>3. \/ job' = [job EXCEPT !.turn = @ + 1]
      \/ job' = NextSession
  BY DEF WriteAgentItem
<1> HIDE DEF f, n
<1>4. JobIsRecord'
  <2>1. CASE job' = NextSession
    BY <2>1, NextSessionIsRecord DEF ImportInv, JobIsRecord
  <2>2. CASE job' = [job EXCEPT !.turn = @ + 1]
    BY <2>2 DEF ImportInv, JobIsRecord
  <2> QED
    BY <1>3, <2>1, <2>2
<1>5. \E j \in items' : j.of = f /\ j.turn = n
  <2>1. CASE \E i \in items : i.of = f /\ i.turn = n
    BY <1>2, <2>1 DEF Merged
  <2>2. CASE ~\E i \in items : i.of = f /\ i.turn = n
    <3>1. [of |-> f, turn |-> n, at |-> clock] \in items'
      BY <1>2, <2>2 DEF Merged
    <3> QED
      BY <3>1
  <2> QED
    BY <2>1, <2>2
<1>6. items \subseteq items' /\ clock \in Nat
  BY <1>2 DEF Merged, ImportInv, ItemTypes
<1>7. EarlierAreIn'
  <2>1. CASE job' = NextSession
    BY <2>1, NextSessionIsRecord DEF ImportInv, EarlierAreIn
  <2>2. CASE job' = [job EXCEPT !.turn = @ + 1]
    <3>1. job'.turn = n + 1 /\ job'.page = job.page
      BY <2>2 DEF ImportInv, JobIsRecord, n
    <3>2. Head(job'.page).of = f
      BY <3>1 DEF f
    <3>3. \A k \in 1 .. n : \E j \in items' : j.of = f /\ j.turn = k
      <4> SUFFICES ASSUME NEW k \in 1 .. n
                   PROVE  \E j \in items' : j.of = f /\ j.turn = k
        OBVIOUS
      <4>1. k = n \/ k \in 1 .. n - 1
        BY <1>1
      <4> QED
        BY <4>1, <1>1, <1>5, <1>6
    <3> QED
      BY <1>1, <3>1, <3>2, <3>3 DEF EarlierAreIn
  <2> QED
    BY <1>3, <2>1, <2>2
<1>8. CASE \E i \in items : i.of = f /\ i.turn = n
  <2>1. items' = items /\ clock' = clock
    BY <1>2, <1>8 DEF Merged
  <2>2. ItemTypes' /\ ThreadReadsInOrder'
    BY <2>1 DEF ImportInv, ItemTypes, ThreadReadsInOrder
  <2> QED
    BY <1>4, <1>7, <2>2 DEF ImportInv
<1>9. CASE ~\E i \in items : i.of = f /\ i.turn = n
  <2> DEFINE e == [of |-> f, turn |-> n, at |-> clock]
  <2>1. items' = items \cup {e} /\ e \notin items
    BY <1>2, <1>9 DEF Merged
  <2>2. clock' = clock + 1
    BY <2>1, <1>2
  <2>3. e.of = f /\ e.turn = n /\ e.at = clock /\ e = [of |-> e.of, turn |-> e.turn, at |-> e.at]
    OBVIOUS
  <2> HIDE DEF e
  <2>4. ItemTypes'
    BY <1>1, <1>6, <2>1, <2>2, <2>3 DEF ImportInv, ItemTypes
  <2>5. \A j \in items : j.of = f => j.turn < n /\ j.at < clock
    <3> SUFFICES ASSUME NEW j \in items, j.of = f
                 PROVE  j.turn < n /\ j.at < clock
      OBVIOUS
    <3>1. j.turn \in Nat /\ j.at < clock /\ j.turn # n
      BY <1>9 DEF ImportInv, ItemTypes
    <3>2. ~(n < j.turn)
      <4>1. ASSUME n < j.turn PROVE FALSE
        <5>1. n \in 1 .. j.turn - 1
          BY <4>1, <3>1, <1>1
        <5> QED
          BY <5>1, <1>9 DEF ImportInv, ThreadReadsInOrder
      <4> QED
        BY <4>1
    <3> QED
      BY <3>1, <3>2, <1>1
  <2>6. \A i, j \in items' : j.of = i.of => (i.turn < j.turn <=> i.at < j.at)
    <3> SUFFICES ASSUME NEW i \in items', NEW j \in items', j.of = i.of
                 PROVE  i.turn < j.turn <=> i.at < j.at
      OBVIOUS
    <3>1. CASE i \in items /\ j \in items
      BY <3>1 DEF ImportInv, ThreadReadsInOrder
    <3>2. CASE i = e /\ j = e
      BY <3>2, <2>3, <1>1, <1>6
    <3>3. CASE i \in items /\ j = e
      BY <3>3, <2>3, <2>5
    <3>4. CASE i = e /\ j \in items
      <4>1. j.turn < n /\ j.at < clock /\ j.turn \in Nat /\ j.at \in Nat
        BY <3>4, <2>3, <2>5 DEF ImportInv, ItemTypes
      <4> QED
        BY <4>1, <3>4, <2>3, <1>1, <1>6
    <3> QED
      BY <2>1, <3>1, <3>2, <3>3, <3>4
  <2>7. \A i \in items' : \A k \in 1 .. i.turn - 1 : \E j \in items' : j.of = i.of /\ j.turn = k
    <3> SUFFICES ASSUME NEW i \in items', NEW k \in 1 .. i.turn - 1
                 PROVE  \E j \in items' : j.of = i.of /\ j.turn = k
      OBVIOUS
    <3>1. CASE i = e
      BY <3>1, <2>3, <1>1, <1>6
    <3>2. CASE i \in items
      BY <3>2, <1>6 DEF ImportInv, ThreadReadsInOrder
    <3> QED
      BY <2>1, <3>1, <3>2
  <2>8. ThreadReadsInOrder'
    BY <2>6, <2>7 DEF ThreadReadsInOrder
  <2> QED
    BY <1>4, <1>7, <2>4, <2>8 DEF ImportInv
<1> QED
  BY <1>8, <1>9

\* The inductive invariant of the import: the job stores every transcript from
\* its first turn on.
THEOREM ImportInvariant == ImportSpec => []ImportInv
<1>1. ImportInit => ImportInv
  BY DEF ImportInit, ImportInv, JobIsRecord, ItemTypes, EarlierAreIn, ThreadReadsInOrder, NoImport
<1>2. ImportInv /\ [ImportNext]_importVars => ImportInv'
  <2> SUFFICES ASSUME ImportInv, [ImportNext]_importVars
               PROVE  ImportInv'
    OBVIOUS
  <2>1. clock \in Nat /\ JobIsRecord
    BY DEF ImportInv, ItemTypes
  <2>2. CASE UNCHANGED importVars
    <3>1. UNCHANGED <<items, clock, job>>
      BY <2>2 DEF importVars
    <3> QED
      BY <3>1, <2>1, ImportRests DEF JobIsRecord
  <2>3. ASSUME NEW f \in Transcripts, WriteTurn(f)
        PROVE  ImportInv'
    <3>1. UNCHANGED <<items, job>> /\ clock' = clock + 1
      BY <2>3 DEF WriteTurn
    <3> QED
      BY <3>1, <2>1, ImportRests DEF JobIsRecord
  <2>4. CASE RunTerminalImport
    <3> DEFINE j == NoImport
    <3>1. j = [pc |-> j.pc, hosts |-> j.hosts, page |-> j.page, turn |-> j.turn]
      BY DEF NoImport
    <3>2. UNCHANGED <<items, clock>> /\ job' = [j EXCEPT !.pc = "host", !.hosts = Hosts]
      BY <2>4 DEF RunTerminalImport
    <3> HIDE DEF j
    <3>3. JobIsRecord' /\ job'.pc # "turn"
      BY <3>1, <3>2 DEF JobIsRecord
    <3> QED
      BY <3>2, <3>3, <2>1, ImportRests
  <2>5. CASE ScanHost
    <3>1. UNCHANGED <<items, clock>>
      BY <2>5 DEF ScanHost
    <3>2. PICK page : job' = IF page = <<>> THEN NextHost
                             ELSE [job EXCEPT !.pc = "session", !.page = page]
      BY <2>5 DEF ScanHost
    <3>3. JobIsRecord' /\ job'.pc # "turn"
      BY <3>2, <2>1, NextHostIsRecord DEF JobIsRecord
    <3> QED
      BY <3>1, <3>3, <2>1, ImportRests
  <2>6. CASE ScanFails
    <3>1. UNCHANGED <<items, clock>> /\ job' = NextHost
      BY <2>6 DEF ScanFails
    <3> QED
      BY <3>1, <2>1, NextHostIsRecord, ImportRests DEF JobIsRecord
  <2>7. CASE EnsureSession
    <3>1. UNCHANGED <<items, clock>>
          /\ (job' = NoImport \/ job' = [job EXCEPT !.pc = "turn", !.turn = 1])
      BY <2>7 DEF EnsureSession
    <3>2. JobIsRecord' /\ (job'.pc = "turn" => job'.turn = 1)
      <4>1. CASE job' = NoImport
        BY <4>1 DEF JobIsRecord, NoImport
      <4>2. CASE job' = [job EXCEPT !.pc = "turn", !.turn = 1]
        BY <4>2, <2>1 DEF JobIsRecord
      <4> QED
        BY <3>1, <4>1, <4>2
    <3> QED
      BY <3>1, <3>2, <2>1, ImportRests
  <2>8. CASE WriteAgentItem
    BY <2>8, StoreKeeps
  <2>9. CASE JobEnds
    <3>1. UNCHANGED <<items, clock>> /\ job' = NoImport
      BY <2>9 DEF JobEnds
    <3>2. JobIsRecord' /\ job'.pc # "turn"
      BY <3>1 DEF JobIsRecord, NoImport
    <3> QED
      BY <3>1, <3>2, <2>1, ImportRests
  <2> QED
    BY <2>2, <2>3, <2>4, <2>5, <2>6, <2>7, <2>8, <2>9 DEF ImportNext
<1> QED
  BY <1>1, <1>2, PTL DEF ImportSpec

\* ThreadReadsInOrder: the turns of a transcript come in their order, once each
\* and none left out, however scans, jobs and faults follow one another.
THEOREM ImportsReadInOrder == ImportSpec => []ThreadReadsInOrder
<1>1. ImportInv => ThreadReadsInOrder
  BY DEF ImportInv
<1> QED
  BY <1>1, ImportInvariant, PTL

-----------------------------------------------------------------------------
(* Turns on one child: each ends once, and none is given another's notices. *)

Noticed == [notice : Notices, turn : Turns]

\* How a turn ends: an end takes it out of the adapter's table, or settles it.
EndsAreCounted ==
  /\ active \subseteq Turns /\ settled \subseteq Delegated
  /\ ends \in [Turns -> Nat]
  /\ child \in [Turns -> {"none", "asked", "open", "closed", "dead"}]
  /\ \A t \in active : child[t] # "none"
  /\ \A t \in Turns : ends[t] <= 1
  /\ \A t \in Delegated : t \notin settled => ends[t] = 0
  /\ \A t \in Dispatched : t \in active \/ child[t] = "none" => ends[t] = 0

\* What stands in the pipe: a completion is the last word on its turn.
PipeInOrder ==
  /\ pipe \in Seq(Noticed)
  /\ \A i \in 1 .. Len(pipe) : child[pipe[i].turn] # "none"
  /\ \A i \in 1 .. Len(pipe) : pipe[i].notice = "turn.completed" =>
       /\ child[pipe[i].turn] \in {"closed", "dead"}
       /\ \A j \in 1 .. Len(pipe) : pipe[j].turn = pipe[i].turn => j <= i

HasBegun(t) == child[t] # "none"
BegunTurns == {t \in Turns : HasBegun(t)}

\* The adapter will still be given a notification of the turn, or may be.
Owing(t) ==
  \/ child[t] \in {"asked", "open"}
  \/ \E i \in 1 .. Len(pipe) : pipe[i].turn = t /\ pipe[i].notice # "answer"

OwingDispatched == {t \in Dispatched : Owing(t)}

\* As long as no turn was cancelled, a turn that will be notified is there to be
\* told.  The dispatched ones share a session, so one of them may take the end of
\* another: they are only counted.
ListenersWait ==
  /\ \A t \in Delegated : Owing(t) => t \in active
  /\ Cardinality(OwingDispatched) <= Cardinality(active \cap Dispatched)

Bound ==
  /\ threadId \in [Turns -> Sessions \cup {NoThread}]
  /\ sessionId \in [Sessions -> Sessions \cup {NoThread}]

BoundToOwn ==
  /\ \A t \in Turns : threadId[t] \in {NoThread, SessionOf(t)}
  /\ \A s \in Sessions : sessionId[s] \in {NoThread, s}

NoneIsMistold == cancelled = {} => strays = {} /\ BoundToOwn /\ ListenersWait

TurnsInv ==
  EndsAreCounted /\ PipeInOrder /\ IsFiniteSet(BegunTurns) /\ Bound /\ NoneIsMistold

-----------------------------------------------------------------------------
\* What the child says stands after all it said before.
LEMMA Said ==
  ASSUME NEW t \in Turns, NEW notices \in Seq(Notices), pipe \in Seq(Noticed), Say(t, notices)
  PROVE  /\ pipe' \in Seq(Noticed) /\ Len(pipe') = Len(pipe) + Len(notices)
         /\ \A i \in 1 .. Len(pipe) : pipe'[i] = pipe[i]
         /\ \A i \in 1 .. Len(pipe') : i > Len(pipe) =>
              /\ pipe'[i].turn = t /\ pipe'[i].notice = notices[i - Len(pipe)]
              /\ i - Len(pipe) \in 1 .. Len(notices)
<1> DEFINE more == [i \in 1 .. Len(notices) |-> [notice |-> notices[i], turn |-> t]]
<1>1. Len(notices) \in Nat /\ Len(pipe) \in Nat
  OBVIOUS
<1>2. \A i \in 1 .. Len(notices) : notices[i] \in Notices
  OBVIOUS
<1>3. more \in [1 .. Len(notices) -> Noticed]
  BY <1>2 DEF Noticed
<1>4. more \in Seq(Noticed) /\ Len(more) = Len(notices)
  BY <1>1, <1>3
<1>5. \A i \in 1 .. Len(notices) : more[i].turn = t /\ more[i].notice = notices[i]
  OBVIOUS
<1>6. pipe' = pipe \o more
  BY DEF Say
<1> HIDE DEF more
<1>7. pipe' \in Seq(Noticed) /\ Len(pipe') = Len(pipe) + Len(notices)
  <2>1. /\ pipe \o more \in Seq(Noticed) /\ Len(pipe \o more) = Len(pipe) + Len(more)
    BY <1>4, ConcatProperties
  <2> QED
    BY <1>4, <1>6, <2>1
<1>8. \A i \in 1 .. Len(pipe) : pipe'[i] = pipe[i]
  <2> TAKE i \in 1 .. Len(pipe)
  <2>1. i \in 1 .. Len(pipe) + Len(more)
    BY <1>1, <1>4
  <2> QED
    BY <1>1, <1>4, <1>6, <2>1, ConcatProperties
<1>9. \A i \in 1 .. Len(pipe') : i > Len(pipe) =>
        i - Len(pipe) \in 1 .. Len(notices) /\ pipe'[i] = more[i - Len(pipe)]
  BY <1>1, <1>4, <1>6, <1>7
<1> QED
  BY <1>5, <1>7, <1>8, <1>9

\* Whatever stands in the pipe is about a turn.
LEMMA Heard ==
  ASSUME pipe \in Seq(Noticed)
  PROVE  \A i \in 1 .. Len(pipe) : pipe[i].turn \in Turns
<1>1. \A i \in 1 .. Len(pipe) : pipe[i] \in Noticed
  OBVIOUS
<1> QED
  BY <1>1 DEF Noticed

\* What is read was the first.
LEMMA Read ==
  ASSUME pipe \in Seq(Noticed), pipe # <<>>, pipe' = Tail(pipe)
  PROVE  /\ Head(pipe) = pipe[1] /\ Head(pipe) \in Noticed /\ 1 \in 1 .. Len(pipe)
         /\ pipe' \in Seq(Noticed) /\ Len(pipe') = Len(pipe) - 1
         /\ Len(pipe) \in Nat
         /\ \A i \in 1 .. Len(pipe') : i + 1 \in 1 .. Len(pipe) /\ pipe'[i] = pipe[i + 1]
OBVIOUS

\* Reading keeps the order of the pipe, and leaves nobody owing who was not.
LEMMA ReadKeeps ==
  ASSUME PipeInOrder, pipe # <<>>, pipe' = Tail(pipe), UNCHANGED child
  PROVE  /\ PipeInOrder'
         /\ \A t \in Turns : Owing(t)' => Owing(t)
         /\ \A t \in Turns : t = Head(pipe).turn /\ Head(pipe).notice = "turn.completed" =>
                             ~Owing(t)'
<1>1. /\ Head(pipe) = pipe[1] /\ Head(pipe) \in Noticed /\ 1 \in 1 .. Len(pipe)
      /\ pipe' \in Seq(Noticed) /\ Len(pipe') = Len(pipe) - 1 /\ Len(pipe) \in Nat
      /\ \A i \in 1 .. Len(pipe') : i + 1 \in 1 .. Len(pipe) /\ pipe'[i] = pipe[i + 1]
  BY Read DEF PipeInOrder
<1>2. \A i \in 1 .. Len(pipe') : child'[pipe'[i].turn] # "none"
  BY <1>1 DEF PipeInOrder
<1>3. ASSUME NEW i \in 1 .. Len(pipe'), pipe'[i].notice = "turn.completed"
      PROVE  /\ child'[pipe'[i].turn] \in {"closed", "dead"}
             /\ \A j \in 1 .. Len(pipe') : pipe'[j].turn = pipe'[i].turn => j <= i
  <2>1. /\ i + 1 \in 1 .. Len(pipe) /\ pipe'[i] = pipe[i + 1]
        /\ pipe[i + 1].notice = "turn.completed"
    BY <1>1, <1>3
  <2>2. /\ child[pipe[i + 1].turn] \in {"closed", "dead"}
        /\ \A k \in 1 .. Len(pipe) : pipe[k].turn = pipe[i + 1].turn => k <= i + 1
    BY <2>1 DEF PipeInOrder
  <2>3. ASSUME NEW j \in 1 .. Len(pipe'), pipe'[j].turn = pipe'[i].turn
        PROVE  j <= i
    <3>1. j + 1 \in 1 .. Len(pipe) /\ pipe[j + 1].turn = pipe[i + 1].turn
      BY <1>1, <2>1, <2>3
    <3>2. j + 1 <= i + 1
      BY <2>2, <3>1
    <3> QED
      BY <1>1, <3>2
  <2> QED
    BY <2>1, <2>2, <2>3
<1>4. PipeInOrder'
  BY <1>1, <1>2, <1>3 DEF PipeInOrder
<1>5. \A t \in Turns : Owing(t)' => Owing(t)
  BY <1>1 DEF Owing
<1>6. ASSUME NEW t \in Turns, t = Head(pipe).turn, Head(pipe).notice = "turn.completed"
      PROVE  ~Owing(t)'
  <2>1. /\ child[pipe[1].turn] \in {"closed", "dead"}
        /\ \A k \in 1 .. Len(pipe) : pipe[k].turn = pipe[1].turn => k <= 1
    BY <1>1, <1>6 DEF PipeInOrder
  <2>2. \A i \in 1 .. Len(pipe') : pipe'[i].turn # t
    BY <1>1, <1>6, <2>1
  <2> QED
    BY <1>1, <1>6, <2>1, <2>2 DEF Owing
<1> QED
  BY <1>4, <1>5, <1>6

\* Where the same turns have begun and no more owe, the listeners wait.
LEMMA ListenersStay ==
  ASSUME TurnsInv, cancelled = {}, UNCHANGED active,
         \A t \in Turns : Owing(t)' => Owing(t)
  PROVE  ListenersWait'
<1>1. ListenersWait /\ Delegated \subseteq Turns /\ Dispatched \subseteq Turns
  BY DEF TurnsInv, NoneIsMistold, Turns
<1>2. OwingDispatched' \subseteq OwingDispatched
  BY <1>1 DEF OwingDispatched
<1>3. OwingDispatched \subseteq BegunTurns
  <2> SUFFICES ASSUME NEW t \in Dispatched, Owing(t)
               PROVE  child[t] # "none"
    BY <1>1 DEF OwingDispatched, BegunTurns, HasBegun
  <2> QED
    BY DEF Owing, TurnsInv, PipeInOrder
<1>4. IsFiniteSet(OwingDispatched)
  BY <1>3, FS_Subset DEF TurnsInv
<1>5. IsFiniteSet(active \cap Dispatched)
  BY FS_Subset DEF TurnsInv, EndsAreCounted, BegunTurns, HasBegun
<1>6. /\ Cardinality(OwingDispatched') \in Nat /\ Cardinality(OwingDispatched) \in Nat
      /\ Cardinality(OwingDispatched') <= Cardinality(OwingDispatched)
      /\ Cardinality(active \cap Dispatched) \in Nat
  BY <1>2, <1>4, <1>5, FS_Subset, FS_CardinalityType
<1>7. Cardinality(OwingDispatched') <= Cardinality(active' \cap Dispatched)
  BY <1>1, <1>6 DEF ListenersWait
<1> QED
  BY <1>1, <1>7 DEF ListenersWait

-----------------------------------------------------------------------------
\* Steps that end no turn and bind none keep how turns ended.
LEMMA EndsRest ==
  ASSUME EndsAreCounted, UNCHANGED <<settled, ends>>, active' \subseteq active,
         child' \in [Turns -> {"none", "asked", "open", "closed", "dead"}],
         \A t \in Turns : child[t] # "none" <=> child'[t] # "none"
  PROVE  EndsAreCounted' /\ BegunTurns' = BegunTurns
<1>1. Delegated \subseteq Turns /\ Dispatched \subseteq Turns
  BY DEF Turns
<1>2. \A t \in active' : child'[t] # "none"
  BY DEF EndsAreCounted
<1>3. \A t \in Dispatched : t \in active' \/ child'[t] = "none" => ends'[t] = 0
  BY <1>1 DEF EndsAreCounted
<1>4. EndsAreCounted'
  BY <1>2, <1>3 DEF EndsAreCounted
<1> QED
  BY <1>4 DEF BegunTurns, HasBegun

\* A turn starts: once, bound as its session is, and it is listened for.
LEMMA StartKeeps ==
  ASSUME TurnsInv, NEW t \in Turns, StartTurn(t)
  PROVE  TurnsInv'
<1>1. /\ Delegated \subseteq Turns /\ Dispatched \subseteq Turns
      /\ SessionOf(t) \in Sessions /\ child[t] = "none"
  BY DEF Turns, Sessions, SessionOf, StartTurn
<1>2. /\ UNCHANGED <<sessionId, settled, ends, strays, cancelled, pipe>>
      /\ active' = active \cup {t} /\ t \notin active
      /\ child' \in [Turns -> {"none", "asked", "open", "closed", "dead"}]
      /\ child'[t] \in {"asked", "dead"}
      /\ \A u \in Turns : u # t => child'[u] = child[u]
  BY <1>1 DEF StartTurn, sinks, TurnsInv, EndsAreCounted
<1>3. EndsAreCounted'
  BY <1>1, <1>2 DEF TurnsInv, EndsAreCounted
<1>4. \A i \in 1 .. Len(pipe) : pipe[i].turn \in Turns /\ pipe[i].turn # t
  BY <1>1, Heard DEF TurnsInv, PipeInOrder
<1>5. PipeInOrder'
  BY <1>2, <1>4 DEF TurnsInv, PipeInOrder
<1>6. IsFiniteSet(BegunTurns')
  <2>1. BegunTurns' = BegunTurns \cup {t}
    BY <1>2 DEF BegunTurns, HasBegun
  <2> QED
    BY <2>1, FS_AddElement DEF TurnsInv
<1>7. Bound'
  BY <1>1, <1>2 DEF StartTurn, TurnsInv, Bound
<1>8. \A u \in Turns : u # t => (Owing(u)' <=> Owing(u))
  BY <1>2 DEF Owing
<1>9. ASSUME cancelled' = {}
      PROVE  strays' = {} /\ BoundToOwn' /\ ListenersWait'
  <2>1. strays = {} /\ BoundToOwn /\ ListenersWait
    BY <1>2, <1>9 DEF TurnsInv, NoneIsMistold
  <2>2. BoundToOwn'
    BY <1>1, <1>2, <2>1 DEF StartTurn, TurnsInv, Bound, BoundToOwn
  <2>3. \A u \in Delegated : Owing(u)' => u \in active'
    BY <1>1, <1>2, <1>8, <2>1 DEF ListenersWait
  <2>4. CASE t \in Delegated
    <3>1. \A u \in Dispatched : Owing(u)' <=> Owing(u)
      BY <1>1, <1>8, <2>4, TurnsAssumption DEF TurnsAssumption
    <3>2. OwingDispatched' = OwingDispatched
      BY <3>1 DEF OwingDispatched
    <3>3. active' \cap Dispatched = active \cap Dispatched
      BY <1>2, <2>4, TurnsAssumption DEF TurnsAssumption
    <3> QED
      BY <1>2, <2>1, <2>2, <2>3, <3>2, <3>3 DEF ListenersWait
  <2>5. CASE t \in Dispatched
    <3>1. OwingDispatched' \subseteq OwingDispatched \cup {t}
      BY <1>1, <1>8 DEF OwingDispatched
    <3>2. active' \cap Dispatched = (active \cap Dispatched) \cup {t}
      BY <1>2, <2>5
    <3>3. OwingDispatched \subseteq BegunTurns /\ active \cap Dispatched \subseteq BegunTurns
      BY <1>1 DEF OwingDispatched, BegunTurns, HasBegun, Owing, TurnsInv, PipeInOrder, EndsAreCounted
    <3>4. IsFiniteSet(OwingDispatched) /\ IsFiniteSet(active \cap Dispatched)
      BY <3>3, FS_Subset DEF TurnsInv
    <3>5. /\ Cardinality(OwingDispatched \cup {t}) <= Cardinality(OwingDispatched) + 1
          /\ IsFiniteSet(OwingDispatched \cup {t})
          /\ Cardinality(OwingDispatched) \in Nat
      <4>1. CASE t \in OwingDispatched
        <5>1. OwingDispatched \cup {t} = OwingDispatched
          BY <4>1
        <5>2. \A n \in Nat : n <= n + 1
          OBVIOUS
        <5> QED
          BY <3>4, <5>1, <5>2, FS_CardinalityType
      <4>2. CASE t \notin OwingDispatched
        <5>1. Cardinality(OwingDispatched) \in Nat
          BY <3>4, FS_CardinalityType
        <5>2. Cardinality(OwingDispatched \cup {t}) = Cardinality(OwingDispatched) + 1
              /\ IsFiniteSet(OwingDispatched \cup {t})
          BY <3>4, <4>2, FS_AddElement
        <5> QED
          BY <5>1, <5>2
      <4> QED
        BY <4>1, <4>2
    <3>6. Cardinality(OwingDispatched') <= Cardinality(OwingDispatched \cup {t})
      BY <3>1, <3>5, FS_Subset
    <3>7. Cardinality(active' \cap Dispatched) = Cardinality(active \cap Dispatched) + 1
      BY <1>2, <3>2, <3>4, FS_AddElement
    <3>8. Cardinality(OwingDispatched') \in Nat /\ Cardinality(OwingDispatched \cup {t}) \in Nat
          /\ Cardinality(active \cap Dispatched) \in Nat
      BY <3>1, <3>4, <3>5, FS_Subset, FS_CardinalityType
    <3>9. Cardinality(OwingDispatched') <= Cardinality(active' \cap Dispatched)
      BY <2>1, <3>5, <3>6, <3>7, <3>8 DEF ListenersWait
    <3> QED
      BY <1>2, <2>1, <2>2, <2>3, <3>9 DEF ListenersWait
  <2> QED
    BY <2>4, <2>5 DEF Turns
<1> QED
  BY <1>3, <1>5, <1>6, <1>7, <1>9 DEF TurnsInv, NoneIsMistold

\* The child begins a turn, or ends it: it says so, and owes the same turns.
LEMMA SayKeeps ==
  ASSUME TurnsInv, NEW t \in Turns, NEW notices \in Seq(Notices),
         NEW from, NEW to \in {"open", "closed"}, from \subseteq {"asked", "open"},
         ChildOnly(t, from, to), Say(t, notices),
         to = "closed" => notices = <<"turn.completed">>,
         to = "open" => \A i \in 1 .. Len(notices) : notices[i] # "turn.completed"
  PROVE  TurnsInv'
<1>1. /\ pipe' \in Seq(Noticed) /\ Len(pipe') = Len(pipe) + Len(notices)
      /\ Len(pipe) \in Nat /\ Len(notices) \in Nat
      /\ \A i \in 1 .. Len(pipe) : pipe'[i] = pipe[i]
      /\ \A i \in 1 .. Len(pipe') : i > Len(pipe) =>
           /\ pipe'[i].turn = t /\ pipe'[i].notice = notices[i - Len(pipe)]
           /\ i - Len(pipe) \in 1 .. Len(notices)
  BY Said DEF TurnsInv, PipeInOrder
<1>2. /\ UNCHANGED <<active, threadId, sessionId, settled, ends, strays, cancelled>>
      /\ child[t] \in {"asked", "open"}
      /\ child' \in [Turns -> {"none", "asked", "open", "closed", "dead"}]
      /\ child'[t] = to
      /\ \A u \in Turns : u # t => child'[u] = child[u]
  BY DEF ChildOnly, adapter, sinks, TurnsInv, EndsAreCounted
<1>3. EndsAreCounted' /\ BegunTurns' = BegunTurns
  BY <1>2, EndsRest DEF TurnsInv
<1>4. \A i \in 1 .. Len(pipe) : pipe[i].turn \in Turns /\ child[pipe[i].turn] # "none"
  BY Heard DEF TurnsInv, PipeInOrder
<1>5. \A i \in 1 .. Len(pipe') : child'[pipe'[i].turn] # "none"
  <2> TAKE i \in 1 .. Len(pipe')
  <2>1. CASE i \in 1 .. Len(pipe)
    BY <2>1, <1>1, <1>2, <1>4
  <2>2. CASE i > Len(pipe)
    BY <2>2, <1>1, <1>2
  <2> QED
    BY <1>1, <2>1, <2>2
<1>6. ASSUME NEW i \in 1 .. Len(pipe'), pipe'[i].notice = "turn.completed"
      PROVE  /\ child'[pipe'[i].turn] \in {"closed", "dead"}
             /\ \A j \in 1 .. Len(pipe') : pipe'[j].turn = pipe'[i].turn => j <= i
  <2>1. CASE i \in 1 .. Len(pipe)
    <3>1. /\ pipe[i].notice = "turn.completed" /\ pipe'[i] = pipe[i]
          /\ child[pipe[i].turn] \in {"closed", "dead"}
          /\ \A j \in 1 .. Len(pipe) : pipe[j].turn = pipe[i].turn => j <= i
      BY <1>1, <1>6, <2>1 DEF TurnsInv, PipeInOrder
    <3>2. pipe[i].turn # t
      BY <1>2, <3>1
    <3>3. \A j \in 1 .. Len(pipe') : pipe'[j].turn = pipe[i].turn => j \in 1 .. Len(pipe)
      BY <1>1, <3>2
    <3>4. \A j \in 1 .. Len(pipe') : pipe'[j].turn = pipe[i].turn => j <= i
      BY <1>1, <3>1, <3>3
    <3> QED
      BY <1>2, <1>4, <2>1, <3>1, <3>2, <3>4
  <2>2. CASE i > Len(pipe)
    <3>1. pipe'[i].turn = t /\ i - Len(pipe) \in 1 .. Len(notices)
          /\ notices[i - Len(pipe)] = "turn.completed"
      BY <1>1, <1>6, <2>2
    <3>2. to = "closed" /\ Len(notices) = 1
      BY <3>1
    <3>3. Len(pipe') = i
      BY <1>1, <3>1, <3>2
    <3> QED
      BY <1>1, <1>2, <3>1, <3>2, <3>3
  <2> QED
    BY <1>1, <2>1, <2>2
<1>7. PipeInOrder'
  BY <1>1, <1>5, <1>6 DEF PipeInOrder
<1>8. \A u \in Turns : Owing(u)' => Owing(u)
  <2> SUFFICES ASSUME NEW u \in Turns, Owing(u)', u # t
               PROVE  Owing(u)
    BY <1>2 DEF Owing
  <2>1. CASE child'[u] \in {"asked", "open"}
    BY <2>1, <1>2 DEF Owing
  <2>2. CASE \E i \in 1 .. Len(pipe') : pipe'[i].turn = u /\ pipe'[i].notice # "answer"
    <3>1. PICK i \in 1 .. Len(pipe') : pipe'[i].turn = u /\ pipe'[i].notice # "answer"
      BY <2>2
    <3>2. i \in 1 .. Len(pipe)
      BY <1>1, <3>1
    <3> QED
      BY <1>1, <3>1, <3>2 DEF Owing
  <2> QED
    BY <2>1, <2>2 DEF Owing
<1>9. Bound'
  BY <1>2 DEF TurnsInv, Bound
<1>10. NoneIsMistold'
  BY <1>2, <1>8, ListenersStay DEF TurnsInv, NoneIsMistold, BoundToOwn
<1> QED
  BY <1>3, <1>7, <1>9, <1>10 DEF TurnsInv

\* The delivery of a notification: while no turn was cancelled it goes to its
\* own turn or, of the turns that share a session, to one of them.
LEMMA GoesToItsOwn ==
  ASSUME TurnsInv, cancelled = {}, pipe # <<>>, Head(pipe).notice # "answer",
         NEW t \in TurnFor(Head(pipe))
  PROVE  /\ t \in active /\ SessionOf(Head(pipe).turn) = SessionOf(t)
         /\ Head(pipe).turn \in Delegated => t = Head(pipe).turn
         /\ Head(pipe).turn \in Dispatched => t \in Dispatched
<1> DEFINE u == Head(pipe).turn
<1>1. /\ Head(pipe) = pipe[1] /\ 1 \in 1 .. Len(pipe) /\ u \in Turns
  <2>1. Head(pipe) = pipe[1] /\ 1 \in 1 .. Len(pipe) /\ Head(pipe) \in Noticed
    BY DEF TurnsInv, PipeInOrder
  <2> QED
    BY <2>1 DEF Noticed
<1>2. Owing(u)
  BY <1>1 DEF Owing
<1> HIDE DEF u
<1>3. strays = {} /\ BoundToOwn /\ ListenersWait /\ active \subseteq Turns
  BY DEF TurnsInv, NoneIsMistold, EndsAreCounted
<1>4. t \in active /\ (threadId[t] = SessionOf(u) \/ active = {t})
  <2>1. CASE {v \in active : threadId[v] = SessionOf(u)} # {}
    BY <2>1 DEF TurnFor, u
  <2>2. CASE {v \in active : threadId[v] = SessionOf(u)} = {}
    <3>1. t \in active /\ Cardinality(active) = 1
      BY <2>2 DEF TurnFor, u
    <3>2. active \subseteq BegunTurns
      BY <1>3 DEF TurnsInv, EndsAreCounted, BegunTurns, HasBegun
    <3>3. IsFiniteSet(active)
      BY <3>2, FS_Subset DEF TurnsInv
    <3>4. \E x : active = {x}
      BY <3>1, <3>3, FS_Singleton
    <3> QED
      BY <3>1, <3>4
  <2> QED
    BY <2>1, <2>2
<1>5. t \in Turns /\ Turns = Delegated \cup Dispatched
  BY <1>3, <1>4 DEF Turns
<1>6. SessionOf(t) = SessionOf(u)
  <2>1. CASE threadId[t] = SessionOf(u)
    <3>1. SessionOf(u) # NoThread
      BY <1>1, <1>5, TurnsAssumption DEF TurnsAssumption, SessionOf, Sessions
    <3> QED
      BY <2>1, <3>1, <1>3, <1>5 DEF BoundToOwn
  <2>2. CASE active = {t}
    <3>1. CASE u \in Delegated
      BY <2>2, <3>1, <1>2, <1>3 DEF ListenersWait
    <3>2. CASE u \in Dispatched
      <4>1. u \in OwingDispatched /\ OwingDispatched \subseteq BegunTurns
        BY <3>2, <1>2, <1>5
           DEF OwingDispatched, BegunTurns, HasBegun, Owing, TurnsInv, PipeInOrder
      <4>2. IsFiniteSet(OwingDispatched)
        BY <4>1, FS_Subset DEF TurnsInv
      <4>3. Cardinality(OwingDispatched) \in Nat /\ Cardinality(OwingDispatched) # 0
        BY <4>1, <4>2, FS_CardinalityType, FS_EmptySet
      <4>4. t \in Dispatched
        <5>1. SUFFICES ASSUME t \notin Dispatched
                       PROVE  FALSE
          OBVIOUS
        <5>2. active \cap Dispatched = {}
          BY <2>2, <5>1
        <5>3. Cardinality(active \cap Dispatched) = 0
          BY <5>2, FS_EmptySet
        <5> QED
          BY <1>3, <4>3, <5>3 DEF ListenersWait
      <4> QED
        BY <3>2, <4>4, TurnsAssumption DEF TurnsAssumption, SessionOf
    <3> QED
      BY <3>1, <3>2, <1>1, <1>5
  <2> QED
    BY <1>4, <2>1, <2>2
<1>7. (u \in Delegated => t = u) /\ (u \in Dispatched => t \in Dispatched)
  BY <1>5, <1>6, TurnsAssumption DEF SessionOf, TurnsAssumption
<1> QED
  BY <1>4, <1>6, <1>7 DEF u

\* A turn leaves the table as it is told its end, or as it is settled.
LEMMA EndKeeps ==
  ASSUME TurnsInv, NEW t \in Turns, active' = active \ {t}, UNCHANGED child,
         t \in active \/ t \in Delegated,
         settled' = IF t \in Delegated THEN settled \cup {t} ELSE settled,
         ends' = IF t \in settled THEN ends ELSE [ends EXCEPT ![t] = @ + 1]
  PROVE  EndsAreCounted'
<1>1. /\ Delegated \subseteq Turns /\ Dispatched \subseteq Turns /\ active \subseteq Turns
      /\ ends \in [Turns -> Nat] /\ EndsAreCounted
  BY DEF Turns, TurnsInv, EndsAreCounted
<1>2. t \notin settled => ends[t] = 0
  BY <1>1 DEF EndsAreCounted, Turns
<1>3. /\ ends' \in [Turns -> Nat] /\ (t \notin settled => ends'[t] = 1)
      /\ t \in settled => ends'[t] = ends[t]
      /\ \A u \in Turns : u # t => ends'[u] = ends[u]
  BY <1>1, <1>2
<1>4. settled' \subseteq Delegated /\ \A u \in settled : u \in settled'
  BY <1>1 DEF EndsAreCounted
<1>5. \A u \in Turns : ends'[u] <= 1
  BY <1>1, <1>3 DEF EndsAreCounted
<1>6. \A u \in Delegated : u \notin settled' => ends'[u] = 0
  BY <1>1, <1>3, <1>4 DEF EndsAreCounted
<1>7. \A u \in Dispatched : u \in active' \/ child'[u] = "none" => ends'[u] = 0
  <2> SUFFICES ASSUME NEW u \in Dispatched, u \in active' \/ child'[u] = "none"
               PROVE  ends'[u] = 0
    OBVIOUS
  <2>1. u # t
    BY <1>1, TurnsAssumption DEF EndsAreCounted, TurnsAssumption
  <2> QED
    BY <1>1, <1>3, <2>1 DEF EndsAreCounted
<1> QED
  BY <1>1, <1>3, <1>4, <1>5, <1>6, <1>7 DEF EndsAreCounted

\* The adapter reads the pipe: an end it delivers is owed no more.
LEMMA RouteKeeps ==
  ASSUME TurnsInv, Route
  PROVE  TurnsInv'
<1> DEFINE n == Head(pipe)
<1>1. /\ pipe # <<>> /\ n.notice # "answer" /\ pipe' = Tail(pipe)
      /\ UNCHANGED <<child, cancelled>>
  BY DEF Route
<1>2. /\ PipeInOrder' /\ \A t \in Turns : Owing(t)' => Owing(t)
      /\ \A t \in Turns : t = n.turn /\ n.notice = "turn.completed" => ~Owing(t)'
  BY <1>1, ReadKeeps DEF TurnsInv
<1>3. IsFiniteSet(BegunTurns') /\ n.turn \in Turns /\ 1 \in 1 .. Len(pipe) /\ n = pipe[1]
  <2>1. 1 \in 1 .. Len(pipe) /\ Head(pipe) = pipe[1] /\ n \in Noticed
    BY <1>1 DEF TurnsInv, PipeInOrder
  <2>2. IsFiniteSet(BegunTurns')
    BY <1>1 DEF TurnsInv, BegunTurns, HasBegun
  <2> QED
    BY <2>1, <2>2 DEF Noticed
<1>4. CASE UNCHANGED <<adapter, sinks>>
  <2>1. EndsAreCounted' /\ Bound'
    BY <1>1, <1>4 DEF adapter, sinks, TurnsInv, EndsAreCounted, Bound
  <2>2. NoneIsMistold'
    BY <1>1, <1>2, <1>4, ListenersStay DEF adapter, sinks, TurnsInv, NoneIsMistold, BoundToOwn
  <2> QED
    BY <1>2, <1>3, <2>1, <2>2 DEF TurnsInv
<1>5. ASSUME NEW t \in TurnFor(n), DeliverTo(n, t)
      PROVE  TurnsInv'
  <2>1. t \in active /\ t \in Turns /\ SessionOf(n.turn) \in Sessions /\ SessionOf(t) \in Sessions
    BY <1>3, <1>5 DEF TurnFor, TurnsInv, EndsAreCounted, SessionOf, Sessions, Turns
  <2>2. Bound'
    BY <1>5, <2>1 DEF DeliverTo, TurnsInv, Bound
  <2>3. EndsAreCounted'
    <3>1. CASE n.notice = "turn.completed"
      BY <1>1, <1>5, <2>1, <3>1, EndKeeps DEF DeliverTo, PassEnd
    <3>2. CASE n.notice # "turn.completed"
      BY <1>1, <1>5, <3>2 DEF DeliverTo, TurnsInv, EndsAreCounted
    <3> QED
      BY <3>1, <3>2
  <2>4. ASSUME cancelled' = {}
        PROVE  strays' = {} /\ BoundToOwn' /\ ListenersWait'
    <3>1. /\ cancelled = {} /\ strays = {} /\ BoundToOwn /\ ListenersWait
      BY <1>1, <2>4 DEF TurnsInv, NoneIsMistold
    <3>2. /\ SessionOf(n.turn) = SessionOf(t) /\ (n.turn \in Delegated => t = n.turn)
          /\ n.turn \in Dispatched => t \in Dispatched
      BY <1>1, <3>1, <1>5, GoesToItsOwn
    <3>3. strays' = {}
      BY <1>5, <3>1, <3>2 DEF DeliverTo
    <3>4. BoundToOwn'
      BY <1>5, <2>1, <3>1, <3>2 DEF DeliverTo, BoundToOwn, TurnsInv, Bound
    <3>5. CASE n.notice # "turn.completed"
      BY <1>2, <1>5, <3>1, <3>3, <3>4, <3>5, ListenersStay DEF DeliverTo
    <3>6. CASE n.notice = "turn.completed"
      <4>1. active' = active \ {t} /\ \A u \in Turns : u = n.turn => ~Owing(u)'
        BY <1>2, <1>5, <3>6 DEF DeliverTo
      <4>2. Delegated \subseteq Turns /\ Dispatched \subseteq Turns
            /\ (n.turn \in Delegated \/ n.turn \in Dispatched)
        BY <1>3 DEF Turns
      <4>3. \A u \in Delegated : Owing(u)' => u \in active'
        BY <1>2, <3>1, <3>2, <4>1, <4>2, TurnsAssumption DEF ListenersWait, TurnsAssumption
      <4>4. Owing(n.turn)
        BY <1>1, <1>3 DEF Owing
      <4>5. OwingDispatched \subseteq BegunTurns /\ active \cap Dispatched \subseteq BegunTurns
        BY <4>2 DEF OwingDispatched, BegunTurns, HasBegun, Owing, TurnsInv, PipeInOrder, EndsAreCounted
      <4>6. IsFiniteSet(OwingDispatched) /\ IsFiniteSet(active \cap Dispatched)
        BY <4>5, FS_Subset DEF TurnsInv
      <4>7. CASE n.turn \in Delegated
        <5>1. active' \cap Dispatched = active \cap Dispatched
          BY <3>2, <4>1, <4>7, TurnsAssumption DEF TurnsAssumption
        <5>2. OwingDispatched' \subseteq OwingDispatched
          BY <1>2, <4>2 DEF OwingDispatched
        <5>3. /\ Cardinality(OwingDispatched') <= Cardinality(OwingDispatched)
              /\ Cardinality(OwingDispatched') \in Nat /\ Cardinality(OwingDispatched) \in Nat
              /\ Cardinality(active \cap Dispatched) \in Nat
          BY <4>6, <5>2, FS_Subset, FS_CardinalityType
        <5>4. Cardinality(OwingDispatched') <= Cardinality(active' \cap Dispatched)
          <6>1. Cardinality(OwingDispatched) <= Cardinality(active \cap Dispatched)
            BY <3>1 DEF ListenersWait
          <6> QED
            BY <5>1, <5>3, <6>1
        <5> QED
          BY <3>3, <3>4, <4>3, <5>4 DEF ListenersWait
      <4>8. CASE n.turn \in Dispatched
        <5>1. /\ active' \cap Dispatched = (active \cap Dispatched) \ {t}
              /\ t \in active \cap Dispatched
          BY <2>1, <3>2, <4>1, <4>8
        <5>2. OwingDispatched' \subseteq OwingDispatched \ {n.turn} /\ n.turn \in OwingDispatched
          BY <1>2, <4>1, <4>2, <4>4, <4>8 DEF OwingDispatched
        <5>3. /\ Cardinality(OwingDispatched \ {n.turn}) = Cardinality(OwingDispatched) - 1
              /\ IsFiniteSet(OwingDispatched \ {n.turn})
          BY <4>6, <5>2, FS_RemoveElement
        <5>4. Cardinality(active' \cap Dispatched) = Cardinality(active \cap Dispatched) - 1
          BY <4>6, <5>1, FS_RemoveElement
        <5>5. /\ Cardinality(OwingDispatched') <= Cardinality(OwingDispatched \ {n.turn})
              /\ Cardinality(OwingDispatched') \in Nat /\ Cardinality(OwingDispatched) \in Nat
              /\ Cardinality(active \cap Dispatched) \in Nat
          BY <4>6, <5>2, <5>3, FS_Subset, FS_CardinalityType
        <5>6. Cardinality(OwingDispatched') <= Cardinality(active' \cap Dispatched)
          BY <3>1, <5>3, <5>4, <5>5 DEF ListenersWait
        <5> QED
          BY <3>3, <3>4, <4>3, <5>6 DEF ListenersWait
      <4> QED
        BY <4>2, <4>7, <4>8
    <3> QED
      BY <3>5, <3>6
  <2> QED
    BY <1>2, <1>3, <2>2, <2>3, <2>4 DEF TurnsInv, NoneIsMistold
<1> QED
  BY <1>4, <1>5 DEF Route

\* The answer to a start, or a cancellation that the adapter does not see.
LEMMA AnswerKeeps ==
  ASSUME TurnsInv, Answer \/ \E t \in Turns : TurnCancel(t)
  PROVE  TurnsInv'
<1>1. UNCHANGED <<active, threadId, sessionId, settled, ends, strays, cancelled, child>>
  BY DEF Answer, TurnCancel, adapter, sinks
<1>2. PipeInOrder' /\ \A t \in Turns : Owing(t)' => Owing(t)
  <2>1. CASE Answer
    BY <2>1, ReadKeeps DEF Answer, TurnsInv
  <2>2. CASE UNCHANGED pipe
    BY <1>1, <2>2 DEF TurnsInv, PipeInOrder, Owing
  <2> QED
    BY <2>1, <2>2 DEF TurnCancel
<1>3. EndsAreCounted' /\ Bound' /\ BegunTurns' = BegunTurns
  BY <1>1 DEF TurnsInv, EndsAreCounted, Bound, BegunTurns, HasBegun
<1>4. NoneIsMistold'
  BY <1>1, <1>2, ListenersStay DEF TurnsInv, NoneIsMistold, BoundToOwn
<1> QED
  BY <1>2, <1>3, <1>4 DEF TurnsInv

\* The child exits: what it has not said it will not say.
LEMMA DeathKeeps ==
  ASSUME TurnsInv, ChildDies
  PROVE  TurnsInv'
<1>1. /\ UNCHANGED <<active, threadId, sessionId, settled, ends, strays, cancelled, pipe>>
      /\ child' = [t \in Turns |-> IF child[t] \in {"asked", "open"} THEN "dead" ELSE child[t]]
      /\ child \in [Turns -> {"none", "asked", "open", "closed", "dead"}]
  BY DEF ChildDies, adapter, sinks, TurnsInv, EndsAreCounted
<1>2. /\ child' \in [Turns -> {"none", "asked", "open", "closed", "dead"}]
      /\ \A t \in Turns : child[t] # "none" <=> child'[t] # "none"
      /\ \A t \in Turns : child[t] \in {"closed", "dead"} => child'[t] \in {"closed", "dead"}
      /\ \A t \in Turns : child'[t] \notin {"asked", "open"}
  BY <1>1
<1>3. EndsAreCounted' /\ BegunTurns' = BegunTurns
  BY <1>1, <1>2, EndsRest DEF TurnsInv
<1>4. PipeInOrder'
  BY <1>1, <1>2, Heard DEF TurnsInv, PipeInOrder
<1>5. \A t \in Turns : Owing(t)' => Owing(t)
  BY <1>1, <1>2 DEF Owing
<1>6. Bound' /\ NoneIsMistold'
  BY <1>1, <1>5, ListenersStay DEF TurnsInv, Bound, NoneIsMistold, BoundToOwn
<1> QED
  BY <1>3, <1>4, <1>6 DEF TurnsInv

\* Closing a session kills the child: nobody owes anything any more.
LEMMA CloseKeeps ==
  ASSUME TurnsInv, SessionClose
  PROVE  TurnsInv'
<1>1. /\ UNCHANGED <<threadId, sessionId, settled, ends, strays>>
      /\ active' = {} /\ cancelled' = cancelled \cup active /\ pipe' = <<>>
      /\ child' = [t \in Turns |-> IF child[t] = "none" THEN "none" ELSE "dead"]
      /\ child \in [Turns -> {"none", "asked", "open", "closed", "dead"}]
  BY DEF SessionClose, sinks, TurnsInv, EndsAreCounted
<1>2. /\ child' \in [Turns -> {"none", "asked", "open", "closed", "dead"}]
      /\ \A t \in Turns : child[t] # "none" <=> child'[t] # "none"
      /\ \A t \in Turns : child'[t] \notin {"asked", "open"}
  BY <1>1
<1>3. EndsAreCounted' /\ BegunTurns' = BegunTurns
  BY <1>1, <1>2, EndsRest DEF TurnsInv
<1>4. pipe' \in Seq(Noticed) /\ Len(pipe') = 0
  BY <1>1
<1>5. PipeInOrder'
  BY <1>4 DEF PipeInOrder
<1>6. \A t \in Turns : ~Owing(t)'
  BY <1>2, <1>4 DEF Owing
<1>7. Bound' /\ NoneIsMistold'
  <2>1. cancelled' = {} => cancelled = {} /\ active' = active
    BY <1>1
  <2> QED
    BY <1>1, <1>6, <2>1, ListenersStay DEF TurnsInv, Bound, NoneIsMistold, BoundToOwn
<1> QED
  BY <1>3, <1>5, <1>7 DEF TurnsInv

\* The timer of a delegation: the turn it cancels has not ended.
LEMMA TimeoutKeeps ==
  ASSUME TurnsInv, NEW t \in Turns, Timeout(t)
  PROVE  TurnsInv'
<1>1. /\ t \in Delegated /\ t \notin settled /\ settled' = settled \cup {t}
      /\ ends' = [ends EXCEPT ![t] = @ + 1] /\ active' = active \ {t}
      /\ cancelled' = cancelled \cup ({t} \cap active)
      /\ UNCHANGED <<threadId, sessionId, strays, child, pipe>>
  BY DEF Timeout
<1>2. EndsAreCounted'
  BY <1>1, EndKeeps
<1>3. PipeInOrder' /\ Bound' /\ BegunTurns' = BegunTurns
  BY <1>1 DEF TurnsInv, PipeInOrder, Bound, BegunTurns, HasBegun
<1>4. NoneIsMistold'
  <2>1. cancelled' = {} => cancelled = {} /\ active' = active
    BY <1>1
  <2>2. \A u \in Turns : Owing(u)' => Owing(u)
    BY <1>1 DEF Owing
  <2> QED
    BY <1>1, <2>1, <2>2, ListenersStay DEF TurnsInv, NoneIsMistold, BoundToOwn
<1> QED
  BY <1>2, <1>3, <1>4 DEF TurnsInv

\* Turns on one child keep to what the invariant says, whoever starts, ends,
\* cancels or loses them (rpc-dispatch.ts, delegate.ts, codex.ts).
THEOREM TurnsInvariant == TurnsSpec => []TurnsInv
<1>1. TurnsInit => TurnsInv
  <2> SUFFICES ASSUME TurnsInit
               PROVE  TurnsInv
    OBVIOUS
  <2>1. EndsAreCounted /\ Bound
    BY DEF TurnsInit, EndsAreCounted, Bound, Turns
  <2>2. pipe \in Seq(Noticed) /\ Len(pipe) = 0
    BY DEF TurnsInit
  <2>3. PipeInOrder
    BY <2>2 DEF PipeInOrder
  <2>4. BegunTurns = {}
    BY DEF TurnsInit, BegunTurns, HasBegun
  <2>5. \A t \in Turns : ~Owing(t)
    BY <2>2 DEF TurnsInit, Owing
  <2>6. OwingDispatched = {} /\ active \cap Dispatched = {}
    BY <2>5 DEF TurnsInit, OwingDispatched, Turns
  <2>7. Cardinality(OwingDispatched) <= Cardinality(active \cap Dispatched)
    BY <2>6, FS_EmptySet
  <2>8. NoneIsMistold
    BY <2>5, <2>7 DEF TurnsInit, NoneIsMistold, BoundToOwn, ListenersWait, Turns
  <2> QED
    BY <2>1, <2>3, <2>4, <2>8, FS_EmptySet DEF TurnsInv
<1>2. TurnsInv /\ [TurnsNext]_turnVars => TurnsInv'
  <2> SUFFICES ASSUME TurnsInv, [TurnsNext]_turnVars
               PROVE  TurnsInv'
    OBVIOUS
  <2>1. ASSUME NEW t \in Turns, Delegate(t) \/ TurnStart(t)
        PROVE  TurnsInv'
    BY <2>1, StartKeeps DEF Delegate, TurnStart
  <2>2. ASSUME NEW t \in Turns, TurnCancel(t)
        PROVE  TurnsInv'
    BY <2>2, AnswerKeeps
  <2>3. ASSUME NEW t \in Turns, Timeout(t)
        PROVE  TurnsInv'
    BY <2>3, TimeoutKeeps
  <2>4. ASSUME NEW t \in Turns, ChildBegins(t)
        PROVE  TurnsInv'
    <3>1. PICK notices \in {<<"answer", "thread.started">>, <<"answer">>} :
            ChildOnly(t, {"asked"}, "open") /\ Say(t, notices)
      BY <2>4 DEF ChildBegins
    <3>2. notices \in Seq(Notices) /\ \A i \in 1 .. Len(notices) : notices[i] # "turn.completed"
      <4>1. CASE notices = <<"answer", "thread.started">>
        BY <4>1 DEF Notices
      <4>2. CASE notices = <<"answer">>
        BY <4>2 DEF Notices
      <4> QED
        BY <3>1, <4>1, <4>2
    <3> QED
      BY <3>1, <3>2, SayKeeps
  <2>5. ASSUME NEW t \in Turns, ChildEnds(t)
        PROVE  TurnsInv'
    <3>1. <<"turn.completed">> \in Seq(Notices)
      BY DEF Notices
    <3>2. ChildOnly(t, {"open"}, "closed") /\ Say(t, <<"turn.completed">>)
      BY <2>5 DEF ChildEnds
    <3> QED
      BY <3>1, <3>2, SayKeeps
  <2>6. CASE SessionClose
    BY <2>6, CloseKeeps
  <2>7. CASE ChildDies
    BY <2>7, DeathKeeps
  <2>8. CASE Route
    BY <2>8, RouteKeeps
  <2>9. CASE Answer
    BY <2>9, AnswerKeeps
  <2>10. CASE UNCHANGED turnVars
    <3>1. UNCHANGED <<active, threadId, sessionId, settled, ends, strays, cancelled, child, pipe>>
      BY <2>10 DEF turnVars, adapter, sinks
    <3>2. EndsAreCounted' /\ PipeInOrder' /\ Bound' /\ BegunTurns' = BegunTurns
      BY <3>1 DEF TurnsInv, EndsAreCounted, PipeInOrder, Bound, BegunTurns, HasBegun
    <3>3. \A t \in Turns : Owing(t)' => Owing(t)
      BY <3>1 DEF Owing
    <3>4. NoneIsMistold'
      BY <3>1, <3>3, ListenersStay DEF TurnsInv, NoneIsMistold, BoundToOwn
    <3> QED
      BY <3>2, <3>4 DEF TurnsInv
  <2> QED
    BY <2>1, <2>2, <2>3, <2>4, <2>5, <2>6, <2>7, <2>8, <2>9, <2>10 DEF TurnsNext
<1> QED
  BY <1>1, <1>2, PTL DEF TurnsSpec

\* TurnsKeepApart: each turn of a child ends once, and as long as none was
\* cancelled each is told of itself only.
THEOREM TurnsStayApart == TurnsSpec => []TurnsKeepApart
<1>1. TurnsInv => TurnsKeepApart
  BY DEF TurnsInv, EndsAreCounted, NoneIsMistold, TurnsKeepApart, EndsOnce, NoMisdelivery
<1> QED
  BY <1>1, TurnsInvariant, PTL

-----------------------------------------------------------------------------
(* The loops: what agent_runs tells.                                       *)

Tiers == {"T0", "T1", "T2"}
Outcomes == {"running", "ok", "failed", "skipped", "blocked"}
Rows == [tier : Tiers, outcome : Outcomes]

Asked(p) == p \in {"ask", "close", "block", "warn", "apply", "stored", "raise", "fail"}
Told(p) == p \in {"restart", "tell", "refused"}
Unrecorded(p) ==
  p \in {"idle", "dropped", "armed", "count", "optout", "decide", "skip", "rule", "start"}
First(p) == p \in {"skipping", "ruled", "ruling", "assemble", "over"}

\* How the rows of a call stand at a stage of it, after so many attempts: there
\* is one row, or a second that escalates a first that failed.
Fits(p, rows, tries) ==
  /\ tries <= 1 => Len(rows) <= 1
  /\ Len(rows) <= 2 /\ (Len(rows) = 2 => rows[1].outcome = "failed")
  /\ Unrecorded(p) => Len(rows) = 0 /\ tries = 0
  /\ First(p) => Len(rows) = 1 /\ tries = 0 /\ (p # "ruling" => rows[1].outcome = "running")
  /\ p = "skipping" => rows[1].tier = "T0"
  /\ p = "ruling" => rows[1].outcome = "ok"
  /\ Asked(p) \/ Told(p) \/ p = "returned" => Len(rows) >= 1
  /\ Asked(p) => rows[Len(rows)].outcome \in {"running", "ok", "blocked"}
  /\ p \in {"apply", "stored"} => rows[Len(rows)].outcome = "ok"
  /\ p = "warn" => rows[Len(rows)].outcome = "blocked"
  /\ p = "returned" => rows[Len(rows)].outcome \in {"ok", "blocked", "skipped"}
  /\ Told(p) => rows[Len(rows)].outcome = "failed"
  /\ p \in {"raise", "restart"} => Len(rows) = 1 /\ tries = 2

RowsFit ==
  \A e \in Events :
    /\ Fits(pc[e], agentRuns[e], attempt[e])
    /\ pc[e] = "threw" /\ loopFaults = 0 =>
         Len(agentRuns[e]) >= 1 /\ LastRun(e).outcome = "failed"

\* A call that began over the limit finds its item over the limit when it
\* counts, and records the T0 row of a call that was skipped.
LateIsSkipped ==
  \A e \in Events : late[e] =>
    /\ ItemOf[e] \in Items /\ Failures(ItemOf[e]) >= FailureLimit
    /\ pc[e] \in {"count", "optout", "skip", "skipping", "returned", "threw", "dead"}
    /\ \A n \in DOMAIN agentRuns[e] : agentRuns[e][n].tier = "T0"

\* A person decides about notes; a loop whose proposal shows has stored it.
ChoiceIsOfNotes ==
  \A e \in Events :
    /\ pc[e] \in {"count", "optout"} => ~IsNote(e)
    /\ result[e] = "accepted" => IsNote(e)
    /\ IsNote(e) /\ result[e] # "fresh" /\ loopFaults = 0 => pc[e] \in {"stored", "returned"}

LoopsInv == LoopsTypeOK /\ RowsFit /\ LateIsSkipped /\ ChoiceIsOfNotes

USE LoopsAssumption

\* What the type says of a call's rows.
LEMMA RowFields ==
  ASSUME NEW rows \in Seq(Rows)
  PROVE  /\ Len(rows) \in Nat /\ DOMAIN rows = 1 .. Len(rows)
         /\ \A n \in 1 .. Len(rows) :
              rows[n] \in Rows /\ rows[n].tier \in Tiers /\ rows[n].outcome \in Outcomes
<1>1. \A n \in 1 .. Len(rows) : rows[n] \in Rows
  OBVIOUS
<1> QED
  BY <1>1 DEF Rows

\* What an inserted row changes.
LEMMA Recorded ==
  ASSUME LoopsTypeOK, NEW e \in Events, NEW tier \in Tiers, RecordRun(e, tier)
  PROVE  /\ agentRuns' \in [Events -> Seq(Rows)]
         /\ \A f \in Events \ {e} : agentRuns'[f] = agentRuns[f]
         /\ Len(agentRuns'[e]) = Len(agentRuns[e]) + 1
         /\ \A n \in 1 .. Len(agentRuns[e]) : agentRuns'[e][n] = agentRuns[e][n]
         /\ agentRuns'[e][Len(agentRuns[e]) + 1].tier = tier
         /\ agentRuns'[e][Len(agentRuns[e]) + 1].outcome = "running"
<1> DEFINE row == [tier |-> tier, outcome |-> "running"]
<1>1. agentRuns \in [Events -> Seq(Rows)]
  BY DEF LoopsTypeOK, Rows, Tiers, Outcomes
<1>2. row \in Rows /\ row.tier = tier /\ row.outcome = "running"
  BY DEF Rows, Outcomes
<1>3. agentRuns' = [agentRuns EXCEPT ![e] = Append(@, row)]
  BY DEF RecordRun
<1> HIDE DEF row
<1>4. Append(agentRuns[e], row) \in Seq(Rows)
  BY <1>1, <1>2
<1> QED
  BY <1>1, <1>2, <1>3, <1>4

\* What an overwritten outcome changes.
LEMMA Finished ==
  ASSUME LoopsTypeOK, NEW e \in Events, Len(agentRuns[e]) >= 1, NEW outcome \in Outcomes,
         FinishRun(e, outcome)
  PROVE  /\ agentRuns' \in [Events -> Seq(Rows)]
         /\ \A f \in Events \ {e} : agentRuns'[f] = agentRuns[f]
         /\ Len(agentRuns'[e]) = Len(agentRuns[e])
         /\ \A n \in 1 .. Len(agentRuns[e]) - 1 : agentRuns'[e][n] = agentRuns[e][n]
         /\ agentRuns'[e][Len(agentRuns[e])].tier = agentRuns[e][Len(agentRuns[e])].tier
         /\ agentRuns'[e][Len(agentRuns[e])].outcome = outcome
<1> DEFINE last == Len(agentRuns[e])
           row == [agentRuns[e][last] EXCEPT !.outcome = outcome]
           rows == [agentRuns[e] EXCEPT ![last] = row]
<1>1. agentRuns \in [Events -> Seq(Rows)]
  BY DEF LoopsTypeOK, Rows, Tiers, Outcomes
<1>2. last \in Nat /\ last \in 1 .. Len(agentRuns[e])
  BY <1>1
<1>3. agentRuns[e][last] \in Rows
  BY <1>1, <1>2, RowFields
<1>4. row \in Rows /\ row.tier = agentRuns[e][last].tier /\ row.outcome = outcome
  BY <1>3 DEF Rows
<1>5. agentRuns' = [agentRuns EXCEPT ![e] = rows]
  BY DEF FinishRun
<1> HIDE DEF row
<1>6. rows \in Seq(Rows) /\ Len(rows) = Len(agentRuns[e]) /\ rows[last] = row
      /\ \A n \in 1 .. last - 1 : rows[n] = agentRuns[e][n]
  BY <1>1, <1>2, <1>4
<1> HIDE DEF rows
<1> QED
  BY <1>1, <1>2, <1>4, <1>5, <1>6


Stages == {"idle", "armed"} \cup InTry \cup Outside \cup Over
Skipping == {"count", "optout", "skip", "skipping", "returned", "threw", "dead"}

\* A step of one call: the rows of the others stay, its own fit where it comes
\* to, and what has failed stays so.
CallStep(e) ==
  /\ pc' \in [Events -> Stages] /\ attempt' \in [Events -> 0 .. 2]
  /\ agentRuns' \in [Events -> Seq(Rows)]
  /\ \A f \in Events \ {e} :
       pc'[f] = pc[f] /\ attempt'[f] = attempt[f] /\ agentRuns'[f] = agentRuns[f]
  /\ Fits(pc'[e], agentRuns'[e], attempt'[e])
  /\ pc'[e] = "threw" =>
       \/ loopFaults' > 0
       \/ Len(agentRuns'[e]) >= 1 /\ agentRuns'[e][Len(agentRuns'[e])].outcome = "failed"
  /\ \A n \in 1 .. Len(agentRuns[e]) : agentRuns[e][n].outcome = "failed" =>
       n <= Len(agentRuns'[e]) /\ agentRuns'[e][n].outcome = "failed"
  /\ late[e] => pc'[e] \in Skipping /\ \A n \in 1 .. Len(agentRuns'[e]) : agentRuns'[e][n].tier = "T0"

\* What the invariant says of a call.
LEMMA CallFields ==
  ASSUME LoopsInv, NEW e \in Events
  PROVE  /\ pc \in [Events -> Stages] /\ attempt \in [Events -> 0 .. 2]
         /\ agentRuns \in [Events -> Seq(Rows)] /\ agentRuns[e] \in Seq(Rows)
         /\ Len(agentRuns[e]) \in Nat /\ attempt[e] \in 0 .. 2
         /\ Fits(pc[e], agentRuns[e], attempt[e]) /\ loopFaults \in Nat
         /\ late[e] => pc[e] \in Skipping /\ \A n \in 1 .. Len(agentRuns[e]) : agentRuns[e][n].tier = "T0"
<1>1. agentRuns \in [Events -> Seq(Rows)] /\ pc \in [Events -> Stages]
  BY DEF LoopsInv, LoopsTypeOK, Rows, Tiers, Outcomes, Stages
<1>2. Fits(pc[e], agentRuns[e], attempt[e])
  BY DEF LoopsInv, RowsFit
<1>3. attempt \in [Events -> 0 .. 2] /\ loopFaults \in Nat
  BY DEF LoopsInv, LoopsTypeOK
<1>4. late[e] => pc[e] \in Skipping /\ \A n \in 1 .. Len(agentRuns[e]) : agentRuns[e][n].tier = "T0"
  BY <1>1, RowFields DEF LoopsInv, LateIsSkipped, Skipping
<1> QED
  BY <1>1, <1>2, <1>3, <1>4

\* Where a call goes.
LEMMA Gone ==
  ASSUME pc \in [Events -> Stages], NEW e \in Events, NEW from, NEW to \in Stages, Goes(e, from, to)
  PROVE  /\ pc[e] = from /\ pc'[e] = to /\ pc' \in [Events -> Stages]
         /\ \A f \in Events \ {e} : pc'[f] = pc[f]
BY DEF Goes

\* A call that goes on without a row of its own.
LEMMA MoveSteps ==
  ASSUME LoopsInv, NEW e \in Events, NEW from, NEW to \in Stages, Goes(e, from, to),
         UNCHANGED <<agentRuns, attempt>>,
         Fits(from, agentRuns[e], attempt[e]) => Fits(to, agentRuns[e], attempt[e]),
         to = "threw" => loopFaults' > 0 \/ Told(from),
         late[e] => to \in Skipping
  PROVE  CallStep(e)
<1>1. /\ pc[e] = from /\ pc'[e] = to /\ pc' \in [Events -> Stages]
      /\ \A f \in Events \ {e} : pc'[f] = pc[f]
  BY CallFields, Gone
<1>2. to = "threw" =>
        \/ loopFaults' > 0
        \/ Len(agentRuns[e]) >= 1 /\ agentRuns[e][Len(agentRuns[e])].outcome = "failed"
  BY <1>1, CallFields DEF Fits
<1> QED
  BY <1>1, <1>2, CallFields DEF CallStep

\* A call that inserts a row.
LEMMA RecordSteps ==
  ASSUME LoopsInv, NEW e \in Events, NEW from, NEW to \in Stages, Goes(e, from, to),
         NEW tier \in Tiers, RecordRun(e, tier), UNCHANGED attempt,
         \/ from = "skip" /\ to = "skipping" /\ tier = "T0"
         \/ from = "rule" /\ to = "ruled"
         \/ from = "start" /\ to = "assemble"
         \/ from = "restart" /\ to = "ask"
  PROVE  CallStep(e)
<1>1. /\ pc[e] = from /\ pc'[e] = to /\ pc' \in [Events -> Stages]
      /\ \A f \in Events \ {e} : pc'[f] = pc[f]
  BY CallFields, Gone
<1>2. LoopsTypeOK
  BY DEF LoopsInv
<1>3. /\ agentRuns' \in [Events -> Seq(Rows)]
      /\ \A f \in Events \ {e} : agentRuns'[f] = agentRuns[f]
      /\ Len(agentRuns'[e]) = Len(agentRuns[e]) + 1
      /\ \A n \in 1 .. Len(agentRuns[e]) : agentRuns'[e][n] = agentRuns[e][n]
      /\ agentRuns'[e][Len(agentRuns[e]) + 1].tier = tier
      /\ agentRuns'[e][Len(agentRuns[e]) + 1].outcome = "running"
  BY <1>2, Recorded
<1>4. /\ Len(agentRuns[e]) \in Nat /\ attempt[e] \in 0 .. 2 /\ attempt'[e] = attempt[e]
      /\ Fits(from, agentRuns[e], attempt[e])
      /\ late[e] => from \in Skipping
      /\ late[e] => \A n \in 1 .. Len(agentRuns[e]) : agentRuns[e][n].tier = "T0"
  BY <1>1, CallFields
<1>5. CASE from = "restart"
  <2>1. Len(agentRuns[e]) = 1 /\ agentRuns[e][1].outcome = "failed" /\ attempt[e] = 2 /\ to = "ask"
    BY <1>4, <1>5 DEF Fits, Told
  <2>2. Fits(pc'[e], agentRuns'[e], attempt'[e])
    BY <1>1, <1>3, <1>4, <2>1 DEF Fits, Asked, Told, First, Unrecorded
  <2>3. ~late[e]
    BY <1>4, <1>5 DEF Skipping
  <2> QED
    BY <1>1, <1>3, <1>4, <2>1, <2>2, <2>3, CallFields DEF CallStep
<1>6. CASE from # "restart"
  <2>1. Len(agentRuns[e]) = 0 /\ attempt[e] = 0
    BY <1>4, <1>6 DEF Fits, Unrecorded
  <2>2. Fits(pc'[e], agentRuns'[e], attempt'[e])
    BY <1>1, <1>3, <1>4, <1>6, <2>1 DEF Fits, Asked, Told, First, Unrecorded
  <2>3. late[e] => pc'[e] \in Skipping /\ tier = "T0"
    BY <1>1, <1>4, <1>6 DEF Skipping
  <2>4. late[e] => \A n \in 1 .. Len(agentRuns'[e]) : agentRuns'[e][n].tier = "T0"
    BY <1>3, <2>1, <2>3
  <2> QED
    BY <1>1, <1>3, <1>4, <1>6, <2>1, <2>2, <2>3, <2>4, CallFields DEF CallStep
<1> QED
  BY <1>5, <1>6

\* A call that closes its row.
LEMMA FinishSteps ==
  ASSUME LoopsInv, NEW e \in Events, NEW from, NEW to \in Stages, Goes(e, from, to),
         NEW outcome \in Outcomes, FinishRun(e, outcome), UNCHANGED attempt,
         \/ from = "skipping" /\ to = "returned" /\ outcome = "skipped"
         \/ from = "ruled" /\ to = "ruling" /\ outcome = "ok"
         \/ from = "over" /\ to = "refused" /\ outcome = "failed"
         \/ from = "close" /\ to = "apply" /\ outcome = "ok"
         \/ from = "block" /\ to = "warn" /\ outcome = "blocked"
         \/ from = "raise" /\ to = "restart" /\ outcome = "failed"
         \/ from = "fail" /\ to = "tell" /\ outcome = "failed"
  PROVE  CallStep(e)
<1> DEFINE last == Len(agentRuns[e])
<1>1. /\ pc[e] = from /\ pc'[e] = to /\ pc' \in [Events -> Stages]
      /\ \A f \in Events \ {e} : pc'[f] = pc[f]
  BY CallFields, Gone
<1>2. /\ last \in Nat /\ attempt[e] \in 0 .. 2 /\ attempt'[e] = attempt[e]
      /\ Fits(from, agentRuns[e], attempt[e])
      /\ late[e] => from \in Skipping
      /\ late[e] => \A n \in 1 .. last : agentRuns[e][n].tier = "T0"
  BY <1>1, CallFields
<1>3. /\ last \in 1 .. 2 /\ agentRuns[e][last].outcome # "failed"
      /\ last = 2 => agentRuns[e][1].outcome = "failed"
  <2>1. CASE from \in {"skipping", "ruled", "over"}
    <3>1. First(from) /\ from # "ruling"
      BY <2>1 DEF First
    <3>2. last = 1 /\ agentRuns[e][1].outcome = "running"
      BY <1>2, <3>1 DEF Fits
    <3> QED
      BY <3>2
  <2>2. CASE from \in {"close", "block", "raise", "fail"}
    <3>1. Asked(from)
      BY <2>2 DEF Asked
    <3>2. /\ last >= 1 /\ last <= 2 /\ (last = 2 => agentRuns[e][1].outcome = "failed")
          /\ agentRuns[e][last].outcome \in {"running", "ok", "blocked"}
      BY <1>2, <3>1 DEF Fits
    <3>3. last \in Nat
      BY <1>2
    <3>4. last >= 1 /\ last <= 2
      BY <3>2
    <3>5. \A n \in Nat : n >= 1 /\ n <= 2 => n \in 1 .. 2
      OBVIOUS
    <3>6. last \in 1 .. 2
      BY <3>3, <3>4, <3>5
    <3> QED
      BY <3>2, <3>6
  <2> QED
    BY <2>1, <2>2
<1>4. LoopsTypeOK
  BY DEF LoopsInv
<1>5. /\ agentRuns' \in [Events -> Seq(Rows)]
      /\ \A f \in Events \ {e} : agentRuns'[f] = agentRuns[f]
      /\ Len(agentRuns'[e]) = last
      /\ \A n \in 1 .. last - 1 : agentRuns'[e][n] = agentRuns[e][n]
      /\ agentRuns'[e][last].tier = agentRuns[e][last].tier
      /\ agentRuns'[e][last].outcome = outcome
  <2>1. \A n : n \in 1 .. 2 => n >= 1
    OBVIOUS
  <2>2. Len(agentRuns[e]) >= 1
    BY <1>3, <2>1
  <2> QED
    BY <1>4, <2>2, Finished
<1> HIDE DEF last
<1>6. Len(agentRuns[e]) = last
  BY DEF last
<1>7. Fits(pc'[e], agentRuns'[e], attempt'[e])
  <2>1. last = 2 => agentRuns'[e][1].outcome = "failed"
    BY <1>3, <1>5
  <2> QED
    BY <1>1, <1>2, <1>3, <1>5, <1>6, <2>1 DEF Fits, Asked, Told, First, Unrecorded
<1>8. late[e] => pc'[e] \in Skipping
  BY <1>1, <1>2 DEF Skipping
<1>9. late[e] => \A n \in 1 .. Len(agentRuns'[e]) : agentRuns'[e][n].tier = "T0"
  <2> SUFFICES ASSUME late[e], NEW n \in 1 .. last
               PROVE  agentRuns'[e][n].tier = "T0"
    BY <1>5
  <2>1. n \in 1 .. last - 1 \/ n = last
    BY <1>3
  <2> QED
    BY <2>1, <1>2, <1>5
<1>10. \A n \in 1 .. Len(agentRuns[e]) : agentRuns[e][n].outcome = "failed" =>
         n <= Len(agentRuns'[e]) /\ agentRuns'[e][n].outcome = "failed"
  <2> SUFFICES ASSUME NEW n \in 1 .. last, agentRuns[e][n].outcome = "failed"
               PROVE  n <= last /\ agentRuns'[e][n].outcome = "failed"
    BY <1>5, <1>6
  <2>1. n \in 1 .. last - 1
    BY <1>3
  <2> QED
    BY <2>1, <1>5
<1> QED
  BY <1>1, <1>2, <1>5, <1>7, <1>8, <1>9, <1>10, CallFields DEF CallStep

\* An attempt that failed.
LEMMA RetrySteps ==
  ASSUME LoopsInv, NEW e \in Events, pc[e] \in InTry, Retry(e), UNCHANGED agentRuns
  PROVE  CallStep(e) /\ pc'[e] \in {"ask", "raise", "fail"}
<1>1. /\ agentRuns[e] \in Seq(Rows) /\ attempt[e] \in 0 .. 2 /\ attempt \in [Events -> 0 .. 2]
      /\ pc \in [Events -> Stages] /\ Len(agentRuns[e]) \in Nat
      /\ Fits(pc[e], agentRuns[e], attempt[e])
      /\ late[e] => pc[e] \in Skipping
  BY CallFields
<1>2. /\ pc' \in [Events -> Stages] /\ attempt' \in [Events -> 0 .. 2]
      /\ \A f \in Events \ {e} : pc'[f] = pc[f] /\ attempt'[f] = attempt[f]
      /\ \/ pc'[e] = "ask" /\ attempt'[e] = 1 /\ attempt[e] = 0
         \/ pc'[e] = "raise" /\ attempt'[e] = 2 /\ attempt[e] = 1
         \/ pc'[e] = "fail" /\ attempt'[e] = 2
  <2>1. CASE attempt[e] = 0
    BY <2>1, <1>1 DEF Retry, RetrySameTier, Stages, InTry, Outside
  <2>2. CASE attempt[e] # 0
    <3>1. PICK to \in {"raise", "fail"} :
            /\ pc' = [pc EXCEPT ![e] = to] /\ attempt' = [attempt EXCEPT ![e] = 2]
            /\ to = "raise" => attempt[e] = 1
      <4>1. CASE attempt[e] = 1 /\ LastRun(e).tier = "T1"
        BY <2>2, <4>1 DEF Retry
      <4>2. CASE ~(attempt[e] = 1 /\ LastRun(e).tier = "T1")
        BY <2>2, <4>2 DEF Retry
      <4> QED
        BY <4>1, <4>2
    <3> QED
      BY <3>1, <1>1 DEF Stages, InTry, Outside
  <2> QED
    BY <2>1, <2>2
<1>3. /\ Asked(pc[e]) /\ ~late[e]
      /\ Len(agentRuns[e]) >= 1
      /\ agentRuns[e][Len(agentRuns[e])].outcome \in {"running", "ok", "blocked"}
  BY <1>1 DEF InTry, Asked, Fits, Skipping
<1>4. Fits(pc'[e], agentRuns[e], attempt'[e])
  <2> DEFINE L == Len(agentRuns[e])
  <2>1. L <= 2 /\ (L = 2 => agentRuns[e][1].outcome = "failed") /\ (attempt[e] <= 1 => L <= 1)
    BY <1>1 DEF Fits
  <2>2. CASE pc'[e] = "ask" /\ attempt'[e] = 1 /\ attempt[e] = 0
    BY <1>1, <1>3, <2>1, <2>2 DEF Fits, Asked, Told, First, Unrecorded
  <2>3. CASE pc'[e] = "raise" /\ attempt'[e] = 2 /\ attempt[e] = 1
    <3>1. L = 1
      <4>1. L \in Nat
        BY <1>1
      <4>2. L >= 1
        BY <1>3
      <4>3. L <= 1
        BY <2>1, <2>3
      <4> HIDE DEF L
      <4> QED
        BY <4>1, <4>2, <4>3
    <3>2. agentRuns[e][1].outcome \in {"running", "ok", "blocked"}
      BY <1>3, <3>1
    <3> HIDE DEF L
    <3>3. Len(agentRuns[e]) = 1
      BY <3>1 DEF L
    <3> QED
      BY <2>3, <3>2, <3>3 DEF Fits, Asked, Told, First, Unrecorded
  <2>4. CASE pc'[e] = "fail" /\ attempt'[e] = 2
    BY <1>1, <1>3, <2>1, <2>4 DEF Fits, Asked, Told, First, Unrecorded
  <2> QED
    BY <1>2, <2>2, <2>3, <2>4
<1> QED
  BY <1>2, <1>3, <1>4, <1>1, CallFields DEF CallStep


\* No failure is forgotten.
LEMMA FailuresStay ==
  ASSUME LoopsInv, NEW i,
         \A f \in Events : \A n \in 1 .. Len(agentRuns[f]) : agentRuns[f][n].outcome = "failed" =>
           n <= Len(agentRuns'[f]) /\ agentRuns'[f][n].outcome = "failed"
  PROVE  Failures(i) \in Nat /\ Failures(i)' \in Nat /\ Failures(i)' >= Failures(i)
<1> DEFINE Fs == {r \in Events \X (1 .. 2) : LET e == r[1] n == r[2] IN
                    ItemOf[e] = i /\ n <= Len(agentRuns[e]) /\ agentRuns[e][n].outcome = "failed"}
<1>1. Failures(i) = Cardinality(Fs) /\ Failures(i)' = Cardinality(Fs')
  BY DEF Failures
<1>2. IsFiniteSet(Events \X (1 .. 2))
  <2>1. IsFiniteSet(1 .. 2)
    <3>1. 1 .. 2 \in SUBSET Nat /\ \A n \in 1 .. 2 : n <= 2
      OBVIOUS
    <3> QED
      BY <3>1, FS_BoundedSetOfNaturals
  <2>2. IsFiniteSet(Events)
    OBVIOUS
  <2> QED
    BY <2>1, <2>2, FS_Product
<1>3. Fs \in SUBSET (Events \X (1 .. 2)) /\ Fs' \in SUBSET (Events \X (1 .. 2))
  OBVIOUS
<1>4. Fs \subseteq Fs'
  <2> SUFFICES ASSUME NEW r \in Events \X (1 .. 2), ItemOf[r[1]] = i,
                      r[2] <= Len(agentRuns[r[1]]), agentRuns[r[1]][r[2]].outcome = "failed"
               PROVE  r[2] <= Len(agentRuns'[r[1]]) /\ agentRuns'[r[1]][r[2]].outcome = "failed"
    OBVIOUS
  <2>1. r[1] \in Events /\ r[2] \in 1 .. 2
    OBVIOUS
  <2>2. Len(agentRuns[r[1]]) \in Nat
    BY <2>1, CallFields
  <2>3. r[2] \in 1 .. Len(agentRuns[r[1]])
    BY <2>1, <2>2
  <2> QED
    BY <2>1, <2>3
<1> HIDE DEF Fs
<1>5. IsFiniteSet(Fs) /\ IsFiniteSet(Fs')
  BY <1>2, <1>3, FS_Subset
<1> QED
  BY <1>1, <1>4, <1>5, FS_Subset, FS_CardinalityType

\* The window of a call that is over the limit closes.
BecomesLate(e) ==
  /\ ItemOf[e] \in Items /\ Failures(ItemOf[e]) >= FailureLimit
  /\ pc'[e] \in Skipping /\ Len(agentRuns'[e]) = 0

\* A step of one call keeps the invariant of the rows; late calls stay so.
LEMMA CallKeeps ==
  ASSUME LoopsInv, NEW e \in Events, CallStep(e), loopFaults' \in Nat, loopFaults' >= loopFaults,
         \A f \in Events : late'[f] => late[f] \/ (f = e /\ BecomesLate(e))
  PROVE  RowsFit' /\ LateIsSkipped'
<1>1. \A f \in Events : \A n \in 1 .. Len(agentRuns[f]) : agentRuns[f][n].outcome = "failed" =>
        n <= Len(agentRuns'[f]) /\ agentRuns'[f][n].outcome = "failed"
  <2> SUFFICES ASSUME NEW f \in Events, f # e, NEW n \in 1 .. Len(agentRuns[f]),
                      agentRuns[f][n].outcome = "failed"
               PROVE  n <= Len(agentRuns'[f]) /\ agentRuns'[f][n].outcome = "failed"
    BY DEF CallStep
  <2>1. agentRuns'[f] = agentRuns[f]
    BY DEF CallStep
  <2> QED
    BY <2>1, CallFields
<1>2. \A f \in Events \ {e} :
        pc'[f] = pc[f] /\ attempt'[f] = attempt[f] /\ agentRuns'[f] = agentRuns[f]
  BY DEF CallStep
<1>3. loopFaults \in Nat /\ (loopFaults' = 0 => loopFaults = 0)
  BY CallFields
<1>4. RowsFit'
  <2> SUFFICES ASSUME NEW f \in Events
               PROVE  /\ Fits(pc'[f], agentRuns'[f], attempt'[f])
                      /\ pc'[f] = "threw" /\ loopFaults' = 0 =>
                           /\ Len(agentRuns'[f]) >= 1
                           /\ agentRuns'[f][Len(agentRuns'[f])].outcome = "failed"
    BY DEF RowsFit, LastRun
  <2>1. CASE f = e
    BY <2>1, <1>3 DEF CallStep
  <2>2. CASE f # e
    BY <2>2, <1>2, <1>3 DEF LoopsInv, RowsFit, LastRun
  <2> QED
    BY <2>1, <2>2
<1>5. LateIsSkipped'
  <2> SUFFICES ASSUME NEW f \in Events, late'[f]
               PROVE  /\ ItemOf[f] \in Items /\ Failures(ItemOf[f])' >= FailureLimit
                      /\ pc'[f] \in Skipping
                      /\ \A n \in DOMAIN agentRuns'[f] : agentRuns'[f][n].tier = "T0"
    BY DEF LateIsSkipped, Skipping
  <2>1. ItemOf[f] \in Items /\ Failures(ItemOf[f]) >= FailureLimit
    BY DEF LoopsInv, LateIsSkipped, BecomesLate
  <2>2. Failures(ItemOf[f])' >= FailureLimit
    BY <1>1, <2>1, FailuresStay
  <2>3. CASE f = e
    <3>1. DOMAIN agentRuns'[e] = 1 .. Len(agentRuns'[e])
      BY RowFields DEF CallStep
    <3>2. CASE late[e]
      BY <2>1, <2>2, <2>3, <3>1, <3>2 DEF CallStep
    <3>3. CASE BecomesLate(e)
      BY <2>1, <2>2, <2>3, <3>1, <3>3 DEF BecomesLate
    <3> QED
      BY <2>3, <3>2, <3>3
  <2>4. CASE f # e
    BY <2>1, <2>2, <2>4, <1>2 DEF LoopsInv, LateIsSkipped, Skipping
  <2> QED
    BY <2>3, <2>4
<1> QED
  BY <1>4, <1>5

\* An action of a call that is not the end of its window is a step of its rows.
LEMMA ActionSteps ==
  ASSUME LoopsInv, NEW e \in Events,
         \/ Count(e) \/ MarkOptOut(e) \/ Decide(e) \/ Skip(e) \/ Rule(e)
         \/ BeginRun(e) \/ Assemble(e) \/ OverBudget(e) \/ Generate(e) \/ GenerateFails(e)
         \/ Close(e) \/ Warn(e) \/ Apply(e) \/ Finish(e) \/ Raise(e) \/ GiveUp(e)
  PROVE  CallStep(e)
<1> USE DEF Stages, InTry, Outside, Over
<1>1. CASE Count(e)
  <2>1. late[e] => TooManyFailures(ItemOf[e])
    BY DEF LoopsInv, LateIsSkipped, TooManyFailures
  <2>2. PICK to \in {"optout", "decide"} :
          Goes(e, "count", to) /\ (late[e] => to = "optout")
    BY <1>1, <2>1 DEF Count
  <2>3. UNCHANGED <<agentRuns, attempt>>
    BY SMTT(60), <1>1 DEF Count
  <2> QED
    BY ZenonT(60), <2>2, <2>3, MoveSteps DEF Fits, Unrecorded, First, Asked, Told, Skipping
<1>2. CASE MarkOptOut(e)
  BY ZenonT(60), <1>2, MoveSteps DEF MarkOptOut, Fits, Unrecorded, First, Asked, Told, Skipping
<1>3. CASE Decide(e)
  <2>1. PICK to \in {"skip", "rule", "start"} : Goes(e, "decide", to)
    BY <1>3 DEF Decide
  <2>2. UNCHANGED <<agentRuns, attempt>>
    BY <1>3 DEF Decide
  <2>3. ~late[e]
    BY <2>1, CallFields DEF Goes, Skipping
  <2> QED
    BY ZenonT(60), <2>1, <2>2, <2>3, MoveSteps DEF Fits, Unrecorded, First, Asked, Told
<1>4. CASE Skip(e)
  <2>1. CASE Goes(e, "skip", "skipping") /\ RecordRun(e, "T0")
    BY <1>4, <2>1, RecordSteps DEF Skip, Tiers
  <2>2. CASE Goes(e, "skipping", "returned") /\ FinishRun(e, "skipped")
    BY <1>4, <2>2, FinishSteps DEF Skip, Outcomes
  <2> QED
    BY <1>4, <2>1, <2>2 DEF Skip
<1>5. CASE Rule(e)
  <2>1. CASE Goes(e, "rule", "ruled") /\ RecordRun(e, "T0")
    BY <1>5, <2>1, RecordSteps DEF Rule, Tiers
  <2>2. CASE Goes(e, "ruled", "ruling") /\ FinishRun(e, "ok")
    BY <1>5, <2>2, FinishSteps DEF Rule, Outcomes
  <2> QED
    BY <1>5, <2>1, <2>2 DEF Rule
<1>6. CASE BeginRun(e)
  <2>1. FirstTier[e] \in Tiers
    BY DEF Tiers
  <2> QED
    BY <1>6, <2>1, RecordSteps DEF BeginRun
<1>7. CASE Assemble(e)
  <2>1. PICK to \in {"ask", "over"} : Goes(e, "assemble", to)
    BY <1>7 DEF Assemble
  <2>2. UNCHANGED <<agentRuns, attempt>>
    BY <1>7 DEF Assemble
  <2>3. ~late[e]
    BY <2>1, CallFields DEF Goes, Skipping
  <2>4. /\ Len(agentRuns[e]) = 1 /\ agentRuns[e][1].outcome = "running" /\ attempt[e] = 0
    BY <2>1, CallFields DEF Goes, Fits, First
  <2>5. Fits(to, agentRuns[e], attempt[e])
    BY <2>4 DEF Fits, Unrecorded, First, Asked, Told
  <2> QED
    BY <2>1, <2>2, <2>3, <2>5, MoveSteps DEF Told
<1>8. CASE OverBudget(e)
  BY SMTT(60), <1>8, FinishSteps DEF OverBudget, Outcomes
<1>9. CASE Generate(e)
  <2>1. PICK to \in {"close", "block"} : Goes(e, "ask", to)
    BY <1>9 DEF Generate
  <2>2. UNCHANGED <<agentRuns, attempt>>
    BY <1>9 DEF Generate
  <2>3. ~late[e]
    BY <2>1, CallFields DEF Goes, Skipping
  <2> QED
    BY ZenonT(60), <2>1, <2>2, <2>3, MoveSteps DEF Fits, Unrecorded, First, Asked, Told
<1>10. CASE GenerateFails(e)
  BY <1>10, RetrySteps DEF GenerateFails
<1>11. CASE Close(e)
  <2>1. CASE Goes(e, "close", "apply") /\ FinishRun(e, "ok")
    BY <1>11, <2>1, FinishSteps DEF Close, Outcomes
  <2>2. CASE Goes(e, "block", "warn") /\ FinishRun(e, "blocked")
    BY SMTT(60), <1>11, <2>2, FinishSteps DEF Close, Outcomes
  <2> QED
    BY <1>11, <2>1, <2>2 DEF Close, AfterBlock
<1>12. CASE Warn(e)
  <2>1. Goes(e, "warn", "returned") /\ UNCHANGED <<agentRuns, attempt>>
    BY <1>12 DEF Warn
  <2> QED
    BY ZenonT(60), <2>1, MoveSteps DEF Fits, Unrecorded, First, Asked, Told, Skipping
<1>13. CASE Apply(e)
  <2>1. UNCHANGED <<agentRuns, attempt>>
    BY SMTT(60), <1>13 DEF Apply
  <2>2. CASE Goes(e, "apply", "stored")
    <3>1. ~late[e]
      BY <2>2, CallFields DEF Goes, Skipping
    <3> QED
      BY ZenonT(60), <2>1, <2>2, <3>1, MoveSteps DEF Fits, Unrecorded, First, Asked, Told
  <2>3. CASE Goes(e, "ruling", "returned")
    <3>1. /\ Len(agentRuns[e]) = 1 /\ agentRuns[e][1].outcome = "ok" /\ attempt[e] = 0
      BY <2>3, CallFields DEF Goes, Fits, First
    <3>2. Fits("returned", agentRuns[e], attempt[e])
      BY SMTT(60), <3>1 DEF Fits, Unrecorded, First, Asked, Told
    <3> QED
      BY <2>1, <2>3, <3>2, MoveSteps DEF Told, Skipping
  <2> QED
    BY <1>13, <2>2, <2>3 DEF Apply
<1>14. CASE Finish(e)
  <2>1. Goes(e, "stored", "returned") /\ UNCHANGED <<agentRuns, attempt>>
    BY <1>14 DEF Finish, Returns
  <2> QED
    BY ZenonT(60), <2>1, MoveSteps DEF Fits, Unrecorded, First, Asked, Told, Skipping
<1>15. CASE Raise(e)
  <2>1. CASE Goes(e, "raise", "restart") /\ FailRun(e)
    BY <1>15, <2>1, FinishSteps DEF Raise, FailRun, Outcomes
  <2>2. CASE Goes(e, "restart", "ask") /\ RecordRun(e, "T2")
    BY <1>15, <2>2, RecordSteps DEF Raise, Tiers
  <2> QED
    BY <1>15, <2>1, <2>2 DEF Raise
<1>16. CASE GiveUp(e)
  <2>1. CASE Goes(e, "fail", "tell") /\ FailRun(e)
    BY SMTT(60), <1>16, <2>1, FinishSteps DEF GiveUp, FailRun, Outcomes
  <2>2. CASE Goes(e, "tell", "threw") /\ UNCHANGED agentRuns
    <3>1. UNCHANGED attempt /\ Told("tell")
      BY <1>16 DEF GiveUp, Told
    <3> QED
      BY ZenonT(60), <2>2, <3>1, MoveSteps DEF Fits, Unrecorded, First, Asked, Told, Skipping
  <2> QED
    BY <1>16, <2>1, <2>2 DEF GiveUp
<1> QED
  BY SMTT(60), <1>1, <1>2, <1>3, <1>4, <1>5, <1>6, <1>7, <1>8, <1>9, <1>10, <1>11, <1>12, <1>13, <1>14,
     <1>15, <1>16


\* Steps that leave the calls and their rows alone.
LEMMA CallsRest ==
  ASSUME LoopsInv, UNCHANGED <<pc, attempt, agentRuns, late, loopFaults>>
  PROVE  RowsFit' /\ LateIsSkipped'
<1>1. \A i : Failures(i)' = Failures(i)
  BY DEF Failures
<1>2. RowsFit'
  BY DEF LoopsInv, RowsFit, LastRun
<1>3. LateIsSkipped'
  <2> SUFFICES ASSUME NEW f \in Events, late[f]
               PROVE  /\ ItemOf[f] \in Items /\ Failures(ItemOf[f])' >= FailureLimit
                      /\ pc[f] \in Skipping
                      /\ \A n \in DOMAIN agentRuns[f] : agentRuns[f][n].tier = "T0"
    BY DEF LateIsSkipped, Skipping
  <2> QED
    BY <1>1 DEF LoopsInv, LateIsSkipped, Skipping
<1> QED
  BY <1>2, <1>3

\* The others of the events' steps.
LEMMA ArriveSteps ==
  ASSUME LoopsInv, NEW e \in Events, Arrive(e)
  PROVE  CallStep(e)
<1>1. PICK to \in {"dropped", "armed"} : Goes(e, "idle", to)
  BY DEF Arrive
<1>2. UNCHANGED <<agentRuns, attempt>>
  BY DEF Arrive
<1>3. ~late[e]
  BY <1>1, CallFields DEF Goes, Skipping
<1>4. to \in Stages
  BY DEF Stages, Over
<1> QED
  BY <1>1, <1>2, <1>3, <1>4, MoveSteps DEF Fits, Unrecorded, First, Asked, Told

\* A window closes: its call begins, late if its item has failed too often.
LEMMA ElapseSteps ==
  ASSUME LoopsInv, NEW e \in Events, Elapse(e)
  PROVE  /\ CallStep(e) /\ (pc'[e] = "count" => ~IsNote(e)) /\ pc'[e] \in {"start", "count"}
         /\ \A f \in Events : late'[f] => late[f] \/ (f = e /\ BecomesLate(e))
<1>1. PICK to \in {"start", "count"} : Goes(e, "armed", to) /\ (IsNote(e) <=> to = "start")
  BY DEF Elapse, AfterGates
<1>2. UNCHANGED <<agentRuns, attempt>>
  BY DEF Elapse
<1>3. ~late[e] /\ pc \in [Events -> Stages] /\ Len(agentRuns[e]) = 0
  BY <1>1, CallFields DEF Goes, Skipping, Fits, Unrecorded
<1>4. to \in Stages
  BY DEF Stages, Outside
<1>5. CallStep(e)
  BY <1>1, <1>2, <1>3, <1>4, MoveSteps DEF Fits, Unrecorded, First, Asked, Told
<1>6. pc'[e] = to
  BY <1>1, <1>3, <1>4, Gone
<1>7. late' = [late EXCEPT ![e] = ~IsNote(e) /\ Failures(ItemOf[e]) >= FailureLimit]
      /\ late \in [Events -> BOOLEAN]
  BY DEF Elapse, LoopsInv, LoopsTypeOK
<1>8. ASSUME late'[e]
      PROVE  BecomesLate(e)
  <2>1. ~IsNote(e) /\ Failures(ItemOf[e]) >= FailureLimit
    BY <1>7, <1>8
  <2>2. ItemOf[e] \in Items
    BY <2>1 DEF IsNote
  <2> QED
    BY <1>1, <1>2, <1>3, <1>6, <2>1, <2>2 DEF BecomesLate, Skipping
<1> QED
  BY <1>1, <1>5, <1>6, <1>7, <1>8

\* A statement fails: in the try it is a failed attempt, outside it ends the call.
LEMMA StatementFailsSteps ==
  ASSUME LoopsInv, NEW e \in Events, StatementFails(e)
  PROVE  CallStep(e) /\ loopFaults' = loopFaults + 1 /\ pc'[e] \in {"ask", "raise", "fail", "threw"}
<1>1. loopFaults' = loopFaults + 1 /\ UNCHANGED agentRuns /\ loopFaults \in Nat
  BY CallFields DEF StatementFails, LoopFault
<1>2. CASE pc[e] \in InTry \ {"ask"} /\ Retry(e)
  BY <1>1, <1>2, RetrySteps
<1>3. CASE pc[e] \in Outside /\ pc' = [pc EXCEPT ![e] = "threw"] /\ UNCHANGED attempt
  <2>1. Goes(e, pc[e], "threw")
    BY <1>3 DEF Goes
  <2>2. loopFaults' > 0
    BY <1>1
  <2>3. "threw" \in Stages
    BY DEF Stages, Over
  <2>4. Fits(pc[e], agentRuns[e], attempt[e]) => Fits("threw", agentRuns[e], attempt[e])
    BY DEF Fits, Unrecorded, First, Asked, Told
  <2>5. CallStep(e)
    BY <1>1, <1>3, <2>1, <2>2, <2>3, <2>4, MoveSteps DEF Skipping
  <2>6. pc'[e] = "threw"
    BY <2>1, <2>3, CallFields, Gone
  <2> QED
    BY <1>1, <2>5, <2>6
<1> QED
  BY <1>2, <1>3 DEF StatementFails

\* A crash ends every call where it stands, and no row changes.
LEMMA CrashKeeps ==
  ASSUME LoopsInv, Crash
  PROVE  RowsFit' /\ LateIsSkipped' /\ ChoiceIsOfNotes' /\ pc' \in [Events -> Stages]
<1>1. /\ UNCHANGED <<attempt, agentRuns, late, result>>
      /\ pc' = [e \in Events |-> IF InFlight(e) THEN "dead" ELSE pc[e]]
      /\ loopFaults' = loopFaults + 1
  BY DEF Crash, LoopFault
<1>2. \A e \in Events : loopFaults \in Nat /\ pc[e] \in Stages
  BY CallFields
<1>3. \A e \in Events : pc'[e] = "dead" \/ pc'[e] = pc[e]
  BY <1>1
<1>4. pc' \in [Events -> Stages]
  BY <1>1, <1>2 DEF Stages, Over
<1>5. RowsFit'
  <2> SUFFICES ASSUME NEW e \in Events
               PROVE  Fits(pc'[e], agentRuns[e], attempt[e]) /\ loopFaults' # 0
    BY <1>1 DEF RowsFit
  <2>1. Fits(pc[e], agentRuns[e], attempt[e])
    BY CallFields
  <2>2. CASE pc'[e] = "dead"
    BY <1>1, <1>2, <2>1, <2>2 DEF Fits, Unrecorded, First, Asked, Told
  <2>3. CASE pc'[e] = pc[e]
    BY <1>1, <1>2, <2>1, <2>3
  <2> QED
    BY <1>3, <2>2, <2>3
<1>6. LateIsSkipped'
  <2> SUFFICES ASSUME NEW e \in Events, late[e]
               PROVE  /\ ItemOf[e] \in Items /\ Failures(ItemOf[e])' >= FailureLimit
                      /\ pc'[e] \in Skipping
                      /\ \A n \in DOMAIN agentRuns[e] : agentRuns[e][n].tier = "T0"
    BY <1>1 DEF LateIsSkipped, Skipping
  <2>1. Failures(ItemOf[e])' = Failures(ItemOf[e])
    BY <1>1 DEF Failures
  <2> QED
    BY <1>3, <2>1 DEF LoopsInv, LateIsSkipped, Skipping
<1>7. ChoiceIsOfNotes'
  <2> SUFFICES ASSUME NEW e \in Events
               PROVE  /\ pc'[e] \in {"count", "optout"} => ~IsNote(e)
                      /\ result[e] = "accepted" => IsNote(e)
                      /\ loopFaults' # 0
    BY <1>1 DEF ChoiceIsOfNotes, IsNote
  <2> QED
    BY <1>1, <1>2, <1>3 DEF LoopsInv, ChoiceIsOfNotes
<1> QED
  BY <1>4, <1>5, <1>6, <1>7

\* Where a call does not store, the decisions stand as they stood.
LEMMA ChoiceStays ==
  ASSUME LoopsInv, NEW e \in Events, UNCHANGED result, \A f \in Events \ {e} : pc'[f] = pc[f],
         loopFaults' = loopFaults, pc[e] \in {"stored", "returned"} => pc'[e] = "returned",
         pc'[e] \in {"count", "optout"} => pc[e] \in {"count", "optout"} \/ ~IsNote(e)
  PROVE  ChoiceIsOfNotes'
<1> SUFFICES ASSUME NEW f \in Events
             PROVE  /\ pc'[f] \in {"count", "optout"} => ~IsNote(f)
                    /\ result[f] = "accepted" => IsNote(f)
                    /\ IsNote(f) /\ result[f] # "fresh" /\ loopFaults = 0 =>
                         pc'[f] \in {"stored", "returned"}
  BY DEF ChoiceIsOfNotes, IsNote
<1>1. CASE f = e
  BY <1>1 DEF LoopsInv, ChoiceIsOfNotes
<1>2. CASE f # e
  BY <1>2 DEF LoopsInv, ChoiceIsOfNotes
<1> QED
  BY <1>1, <1>2


\* The rest of what an action changes is of its type.
LEMMA OthersTyped ==
  ASSUME LoopsInv, LoopsNext
  PROVE  /\ pending' \subseteq {Key(e) : e \in Events}
         /\ result' \in [Events -> {"fresh", "proposed", "accepted", "none"}]
         /\ written' \in [Events -> 0 .. 1] /\ optout' \subseteq Items
         /\ late' \in [Events -> BOOLEAN] /\ loopFaults' \in 0 .. MaxLoopFaults
<1>1. /\ pending \subseteq {Key(e) : e \in Events}
      /\ result \in [Events -> {"fresh", "proposed", "accepted", "none"}]
      /\ written \in [Events -> 0 .. 1] /\ optout \subseteq Items
      /\ late \in [Events -> BOOLEAN] /\ loopFaults \in 0 .. MaxLoopFaults
  BY DEF LoopsInv, LoopsTypeOK
<1>2. CASE Crash
  BY <1>1, <1>2 DEF Crash, LoopFault
<1>3. ASSUME NEW e \in Events, Arrive(e)
      PROVE  /\ pending' \subseteq {Key(f) : f \in Events}
             /\ UNCHANGED <<result, written, optout, late, loopFaults>>
  BY <1>1, <1>3 DEF Arrive
<1>4. ASSUME NEW e \in Events, Elapse(e)
      PROVE  /\ pending' \subseteq {Key(f) : f \in Events} /\ late' \in [Events -> BOOLEAN]
             /\ UNCHANGED <<result, written, optout, loopFaults>>
  BY <1>1, <1>4 DEF Elapse
<1>5. ASSUME NEW e \in Events, MarkOptOut(e)
      PROVE  optout' \subseteq Items /\ UNCHANGED <<pending, result, written, late, loopFaults>>
  <2>1. pc[e] = "optout" /\ optout' = optout \cup {ItemOf[e]}
        /\ UNCHANGED <<pending, result, written, late, loopFaults>>
    BY <1>5 DEF MarkOptOut, Goes
  <2>2. ItemOf[e] \in Items
    BY <2>1 DEF LoopsInv, ChoiceIsOfNotes, IsNote
  <2> QED
    BY <1>1, <2>1, <2>2
<1>6. ASSUME NEW e \in Events, Warn(e) \/ GiveUp(e)
      PROVE  written' \in [Events -> 0 .. 1] /\ UNCHANGED <<pending, result, optout, late, loopFaults>>
  BY <1>1, <1>6 DEF Warn, GiveUp
<1>7. ASSUME NEW e \in Events,
             Apply(e) \/ CallTool(e) \/ \E accept \in BOOLEAN : DecideNoteRouting(e, accept)
      PROVE  /\ result' \in [Events -> {"fresh", "proposed", "accepted", "none"}]
             /\ UNCHANGED <<pending, written, optout, late, loopFaults>>
  <2>1. CASE Apply(e)
    <3>1. CASE Store(e)
      BY <1>1, <2>1, <3>1 DEF Apply, Store
    <3>2. CASE File(e)
      BY <1>1, <2>1, <3>2 DEF Apply, File
    <3> QED
      BY <2>1, <3>1, <3>2 DEF Apply
  <2>2. CASE CallTool(e)
    BY <1>1, <2>2 DEF CallTool
  <2>3. ASSUME NEW accept \in BOOLEAN, DecideNoteRouting(e, accept)
        PROVE  /\ result' \in [Events -> {"fresh", "proposed", "accepted", "none"}]
               /\ UNCHANGED <<pending, written, optout, late, loopFaults>>
    BY <1>1, <2>3 DEF DecideNoteRouting
  <2> QED
    BY <1>7, <2>1, <2>2, <2>3
<1>8. ASSUME NEW e \in Events, StatementFails(e)
      PROVE  /\ UNCHANGED <<pending, result, written, optout, late>>
             /\ loopFaults' \in 0 .. MaxLoopFaults
  BY <1>1, <1>8 DEF StatementFails, LoopFault
<1>9. ASSUME NEW e \in Events,
             \/ Count(e) \/ Decide(e) \/ Skip(e) \/ Rule(e) \/ BeginRun(e) \/ Assemble(e)
             \/ OverBudget(e) \/ Generate(e) \/ GenerateFails(e) \/ Close(e) \/ Finish(e) \/ Raise(e)
      PROVE  UNCHANGED <<pending, result, written, optout, late, loopFaults>>
  BY <1>9 DEF Count, Decide, Skip, Rule, BeginRun, Assemble, OverBudget, Generate, GenerateFails,
              Close, Finish, Raise
<1>10. CASE \E e \in Events : LoopStep(e)
  <2>1. PICK e \in Events : LoopStep(e)
    BY <1>10
  <2> QED
    BY <1>1, <2>1, <1>4, <1>5, <1>6, <1>7, <1>9 DEF LoopStep
<1> QED
  BY <1>1, <1>2, <1>3, <1>7, <1>8, <1>10 DEF LoopsNext

\* Every action keeps the invariant of the rows.
LEMMA RowsKept ==
  ASSUME LoopsInv, LoopsNext
  PROVE  /\ RowsFit' /\ LateIsSkipped'
         /\ pc' \in [Events -> Stages] /\ attempt' \in [Events -> 0 .. 2]
         /\ agentRuns' \in [Events -> Seq(Rows)]
<1> DEFINE RowsStand == /\ RowsFit' /\ LateIsSkipped'
                   /\ pc' \in [Events -> Stages] /\ attempt' \in [Events -> 0 .. 2]
                   /\ agentRuns' \in [Events -> Seq(Rows)]
<1>1. \A e \in Events : /\ loopFaults \in Nat /\ pc \in [Events -> Stages]
                        /\ attempt \in [Events -> 0 .. 2] /\ agentRuns \in [Events -> Seq(Rows)]
  BY CallFields
<1>2. ASSUME NEW e \in Events, CallStep(e), UNCHANGED <<late, loopFaults>>
      PROVE  RowsStand
  <2>1. RowsFit' /\ LateIsSkipped'
    BY <1>1, <1>2, CallKeeps
  <2> QED
    BY <1>2, <2>1 DEF CallStep
<1>3. ASSUME Crash
      PROVE  RowsStand
  <2>1. UNCHANGED <<attempt, agentRuns>>
    BY <1>3 DEF Crash
  <2>2. attempt \in [Events -> 0 .. 2] /\ agentRuns \in [Events -> Seq(Rows)]
    BY DEF LoopsInv, LoopsTypeOK, Rows, Tiers, Outcomes
  <2> QED
    BY <1>3, <2>1, <2>2, CrashKeeps
<1>4. ASSUME NEW e \in Events, Arrive(e)
      PROVE  RowsStand
  <2>1. UNCHANGED <<late, loopFaults>>
    BY <1>4 DEF Arrive
  <2> QED
    BY <1>4, <2>1, <1>2, ArriveSteps
<1>5. ASSUME NEW e \in Events, Elapse(e)
      PROVE  RowsStand
  <2>1. loopFaults' = loopFaults
    BY <1>5 DEF Elapse
  <2>2. CallStep(e) /\ \A f \in Events : late'[f] => late[f] \/ (f = e /\ BecomesLate(e))
    BY <1>5, ElapseSteps
  <2>3. RowsFit' /\ LateIsSkipped'
    BY <1>1, <2>1, <2>2, CallKeeps
  <2> QED
    BY <2>2, <2>3 DEF CallStep
<1>6. ASSUME NEW e \in Events, StatementFails(e)
      PROVE  RowsStand
  <2>1. UNCHANGED late
    BY <1>6 DEF StatementFails
  <2>2. CallStep(e) /\ loopFaults' = loopFaults + 1
    BY <1>6, StatementFailsSteps
  <2>3. loopFaults' \in Nat /\ loopFaults' >= loopFaults
    BY <1>1, <2>2
  <2>4. \A f \in Events : late'[f] => late[f]
    BY <2>1
  <2>5. RowsFit' /\ LateIsSkipped'
    BY <1>1, <2>2, <2>3, <2>4, CallKeeps
  <2> QED
    BY <2>2, <2>5 DEF CallStep
<1>7. ASSUME NEW e \in Events, LoopStep(e), ~Elapse(e)
      PROVE  RowsStand
  <2>1. CallStep(e)
    BY <1>7, ActionSteps DEF LoopStep
  <2>2. UNCHANGED <<late, loopFaults>>
    BY <1>7 DEF LoopStep, Count, MarkOptOut, Decide, Skip, Rule, BeginRun, Assemble, OverBudget,
                Generate, GenerateFails, Close, Warn, Apply, Finish, Raise, GiveUp
  <2> QED
    BY <2>1, <2>2, <1>2
<1>8. ASSUME NEW e \in Events, CallTool(e) \/ \E accept \in BOOLEAN : DecideNoteRouting(e, accept)
      PROVE  RowsStand
  <2>1. UNCHANGED <<pc, attempt, agentRuns, late, loopFaults>>
    BY <1>8 DEF CallTool, DecideNoteRouting
  <2> QED
    BY <1>1, <2>1, CallsRest
<1> HIDE DEF RowsStand
<1>9. ASSUME NEW e \in Events,
             \/ Arrive(e) \/ LoopStep(e) \/ CallTool(e) \/ StatementFails(e)
             \/ \E accept \in BOOLEAN : DecideNoteRouting(e, accept)
      PROVE  RowsStand
  <2>1. CASE Arrive(e)
    BY <2>1, <1>4
  <2>2. CASE LoopStep(e) /\ Elapse(e)
    BY <2>2, <1>5
  <2>3. CASE LoopStep(e) /\ ~Elapse(e)
    BY <2>3, <1>7
  <2>4. CASE StatementFails(e)
    BY <2>4, <1>6
  <2>5. CASE CallTool(e) \/ \E accept \in BOOLEAN : DecideNoteRouting(e, accept)
    BY <2>5, <1>8
  <2> QED
    BY <1>9, <2>1, <2>2, <2>3, <2>4, <2>5
<1>10. RowsStand
  <2>1. CASE Crash
    BY <2>1, <1>3
  <2>2. CASE \E e \in Events :
               \/ Arrive(e) \/ LoopStep(e) \/ CallTool(e) \/ StatementFails(e)
               \/ \E accept \in BOOLEAN : DecideNoteRouting(e, accept)
    <3>1. PICK e \in Events :
            \/ Arrive(e) \/ LoopStep(e) \/ CallTool(e) \/ StatementFails(e)
            \/ \E accept \in BOOLEAN : DecideNoteRouting(e, accept)
      BY <2>2
    <3> QED
      BY <3>1, <1>9
  <2> QED
    BY <2>1, <2>2 DEF LoopsNext
<1> QED
  BY <1>10 DEF RowsStand

\* Every action keeps what a person decided.
LEMMA ChoiceKept ==
  ASSUME LoopsInv, LoopsNext
  PROVE  ChoiceIsOfNotes'
<1>1. \A e \in Events : loopFaults \in Nat /\ pc \in [Events -> Stages]
  BY CallFields
<1>2. CASE Crash
  BY <1>2, CrashKeeps
<1>3. ASSUME NEW e \in Events, Arrive(e)
      PROVE  ChoiceIsOfNotes'
  <2>1. PICK to \in {"dropped", "armed"} : Goes(e, "idle", to)
    BY <1>3 DEF Arrive
  <2>2. UNCHANGED <<result, loopFaults>>
    BY <1>3 DEF Arrive
  <2>3. to \in Stages
    BY DEF Stages, Over
  <2>4. pc[e] = "idle" /\ pc'[e] = to /\ \A f \in Events \ {e} : pc'[f] = pc[f]
    BY <1>1, <2>1, <2>3, Gone
  <2> QED
    BY <2>2, <2>4, ChoiceStays
<1>4. ASSUME NEW e \in Events, LoopStep(e), ~Apply(e)
      PROVE  ChoiceIsOfNotes'
  <2>1. UNCHANGED <<result, loopFaults>>
    BY <1>4 DEF LoopStep, Elapse, Count, MarkOptOut, Decide, Skip, Rule, BeginRun, Assemble,
                OverBudget, Generate, GenerateFails, Close, Warn, Finish, Raise, GiveUp
  <2>2. CallStep(e)
    BY <1>4, ActionSteps, ElapseSteps DEF LoopStep
  <2>3. pc[e] # "returned"
    BY <1>4 DEF LoopStep, InFlight, InTry, Outside
  <2>4. pc[e] = "stored" => pc'[e] = "returned"
    BY <1>1, <1>4 DEF LoopStep, Goes, Elapse, Count, MarkOptOut, Decide, Skip, Rule, BeginRun,
                Assemble, OverBudget, Generate, GenerateFails, Close, Warn, Finish, Returns, Raise, GiveUp
  <2>5. pc'[e] \in {"count", "optout"} => pc[e] \in {"count", "optout"} \/ ~IsNote(e)
    <3>1. CASE Elapse(e)
      BY <3>1, ElapseSteps
    <3>2. CASE GenerateFails(e)
      <4>1. pc'[e] \in {"ask", "raise", "fail"}
        BY <3>2, RetrySteps DEF GenerateFails, InTry
      <4> QED
        BY <4>1
    <3>3. CASE ~Elapse(e) /\ ~GenerateFails(e)
      BY <1>1, <1>4, <3>3 DEF LoopStep, Goes, Count, MarkOptOut, Decide, Skip, Rule, BeginRun,
                  Assemble, OverBudget, Generate, Close, AfterBlock, Warn, Finish, Returns, Raise, GiveUp
    <3> QED
      BY <3>1, <3>2, <3>3
  <2> QED
    BY <2>1, <2>2, <2>3, <2>4, <2>5, ChoiceStays DEF CallStep
<1>5. ASSUME NEW e \in Events, Apply(e)
      PROVE  ChoiceIsOfNotes'
  <2>1. PICK from \in {"apply", "ruling"}, to \in {"stored", "returned"} : Goes(e, from, to)
    BY <1>5 DEF Apply
  <2>2. to \in Stages
    BY DEF Stages, InTry, Over
  <2>3. pc'[e] = to /\ \A f \in Events \ {e} : pc'[f] = pc[f]
    BY <1>1, <2>1, <2>2, Gone
  <2>4. result \in [Events -> {"fresh", "proposed", "accepted", "none"}] /\ UNCHANGED loopFaults
    BY <1>5 DEF Apply, LoopsInv, LoopsTypeOK
  <2>5. /\ \A f \in Events \ {e} : result'[f] = result[f]
        /\ result'[e] = "accepted" => result[e] = "accepted"
    <3>1. CASE Store(e)
      BY <2>4, <3>1 DEF Store
    <3>2. CASE File(e)
      BY <2>4, <3>2 DEF File
    <3> QED
      BY <1>5, <3>1, <3>2 DEF Apply
  <2> SUFFICES ASSUME NEW f \in Events
               PROVE  /\ pc'[f] \in {"count", "optout"} => ~IsNote(f)
                      /\ result'[f] = "accepted" => IsNote(f)
                      /\ IsNote(f) /\ result'[f] # "fresh" /\ loopFaults' = 0 =>
                           pc'[f] \in {"stored", "returned"}
    BY DEF ChoiceIsOfNotes, IsNote
  <2>6. CASE f = e
    BY <2>3, <2>5, <2>6 DEF LoopsInv, ChoiceIsOfNotes
  <2>7. CASE f # e
    BY <2>3, <2>4, <2>5, <2>7 DEF LoopsInv, ChoiceIsOfNotes
  <2> QED
    BY <2>6, <2>7
<1>6. ASSUME NEW e \in Events, StatementFails(e)
      PROVE  ChoiceIsOfNotes'
  <2>1. UNCHANGED result /\ loopFaults' # 0
    BY <1>1, <1>6, StatementFailsSteps DEF StatementFails
  <2>2. /\ pc'[e] \notin {"count", "optout"}
        /\ \A f \in Events \ {e} : pc'[f] = pc[f]
    BY ZenonT(60), <1>6, StatementFailsSteps DEF CallStep
  <2> SUFFICES ASSUME NEW f \in Events
               PROVE  /\ pc'[f] \in {"count", "optout"} => ~IsNote(f)
                      /\ result[f] = "accepted" => IsNote(f)
    BY <2>1 DEF ChoiceIsOfNotes, IsNote
  <2> QED
    BY <2>2 DEF LoopsInv, ChoiceIsOfNotes
<1>7. ASSUME NEW e \in Events, CallTool(e) \/ \E accept \in BOOLEAN : DecideNoteRouting(e, accept)
      PROVE  ChoiceIsOfNotes'
  <2>1. UNCHANGED <<pc, loopFaults>>
        /\ result \in [Events -> {"fresh", "proposed", "accepted", "none"}]
    BY <1>7 DEF CallTool, DecideNoteRouting, LoopsInv, LoopsTypeOK
  <2>2. /\ \A f \in Events \ {e} : result'[f] = result[f]
        /\ \/ ~IsNote(e) /\ result'[e] = "proposed"
           \/ IsNote(e) /\ result[e] = "proposed"
    <3>1. CASE CallTool(e)
      <4>1. ItemOf[e] \in Items
        BY <3>1 DEF CallTool
      <4> QED
        BY <2>1, <3>1, <4>1 DEF CallTool, IsNote
    <3>2. CASE \E accept \in BOOLEAN : DecideNoteRouting(e, accept)
      BY <2>1, <3>2 DEF DecideNoteRouting
    <3> QED
      BY <1>7, <3>1, <3>2
  <2> SUFFICES ASSUME NEW f \in Events
               PROVE  /\ pc[f] \in {"count", "optout"} => ~IsNote(f)
                      /\ result'[f] = "accepted" => IsNote(f)
                      /\ IsNote(f) /\ result'[f] # "fresh" /\ loopFaults = 0 =>
                           pc[f] \in {"stored", "returned"}
    BY <2>1 DEF ChoiceIsOfNotes, IsNote
  <2>3. CASE f = e
    BY <2>2, <2>3 DEF LoopsInv, ChoiceIsOfNotes
  <2>4. CASE f # e
    BY <2>2, <2>4 DEF LoopsInv, ChoiceIsOfNotes
  <2> QED
    BY <2>3, <2>4
<1> QED
  BY <1>2, <1>3, <1>4, <1>5, <1>6, <1>7 DEF LoopsNext

\* The inductive invariant of the loops: the rows of a call fit where it stands,
\* and what failed is never overwritten.
THEOREM LoopsInvariant == LoopsSpec => []LoopsInv
<1>1. LoopsInit => LoopsInv
  <2> SUFFICES ASSUME LoopsInit
               PROVE  LoopsInv
    OBVIOUS
  <2>1. LoopsTypeOK
    BY DEF LoopsInit, LoopsTypeOK, InTry, Outside, Over
  <2>2. RowsFit
    BY DEF LoopsInit, RowsFit, Fits, Unrecorded, First, Asked, Told
  <2>3. LateIsSkipped /\ ChoiceIsOfNotes
    BY DEF LoopsInit, LateIsSkipped, ChoiceIsOfNotes
  <2> QED
    BY <2>1, <2>2, <2>3 DEF LoopsInv
<1>2. LoopsInv /\ [LoopsNext]_loopVars => LoopsInv'
  <2>1. ASSUME LoopsInv, UNCHANGED loopVars
        PROVE  LoopsInv'
    <3>1. RowsFit' /\ LateIsSkipped'
      BY <2>1, CallsRest DEF loopVars
    <3>2. LoopsTypeOK' /\ ChoiceIsOfNotes'
      BY <2>1 DEF LoopsInv, LoopsTypeOK, ChoiceIsOfNotes, IsNote, loopVars
    <3> QED
      BY <3>1, <3>2 DEF LoopsInv
  <2>2. ASSUME LoopsInv, LoopsNext
        PROVE  LoopsInv'
    <3>1. /\ RowsFit' /\ LateIsSkipped' /\ ChoiceIsOfNotes'
          /\ pc' \in [Events -> Stages] /\ attempt' \in [Events -> 0 .. 2]
          /\ agentRuns' \in [Events -> Seq(Rows)]
      BY <2>2, RowsKept, ChoiceKept
    <3>2. \A e \in Events : Len(agentRuns'[e]) <= 2
      BY <3>1 DEF RowsFit, Fits
    <3>3. LoopsTypeOK'
      BY <2>2, <3>1, <3>2, OthersTyped DEF LoopsTypeOK, Rows, Tiers, Outcomes, Stages
    <3> QED
      BY <3>1, <3>3 DEF LoopsInv
  <2> QED
    BY <2>1, <2>2
<1> QED
  BY <1>1, <1>2, PTL DEF LoopsSpec

\* LedgerBinds: agent_runs tells how each call went, and a call that begins over
\* the failure limit asks no model, whatever other calls on its item do.
THEOREM LoopsKeepLedger == LoopsSpec => []LedgerBinds
<1>1. LoopsInv => LedgerBinds
  <2> SUFFICES ASSUME LoopsInv, NEW e \in Events
               PROVE  /\ \A n \in 1 .. Len(agentRuns[e]) - 1 : agentRuns[e][n].outcome = "failed"
                      /\ pc[e] = "returned" => LastRun(e).outcome \in {"ok", "blocked", "skipped"}
                      /\ pc[e] \in {"threw", "refused"} /\ loopFaults = 0 =>
                           LastRun(e).outcome = "failed"
                      /\ late[e] => \A n \in DOMAIN agentRuns[e] : agentRuns[e][n].tier = "T0"
    BY DEF LedgerBinds, LedgerMatches, LimitStops
  <2>1. Len(agentRuns[e]) \in Nat /\ Fits(pc[e], agentRuns[e], attempt[e])
    BY CallFields
  <2>a. \A L \in Nat : L <= 2 => \A n \in 1 .. L - 1 : n = 1 /\ L = 2
    OBVIOUS
  <2>b. Len(agentRuns[e]) <= 2
    BY <2>1 DEF Fits
  <2>2. \A n \in 1 .. Len(agentRuns[e]) - 1 : n = 1 /\ Len(agentRuns[e]) = 2
    BY <2>1, <2>a, <2>b
  <2>3. \A n \in 1 .. Len(agentRuns[e]) - 1 : agentRuns[e][n].outcome = "failed"
    BY <2>1, <2>2 DEF Fits
  <2>4. pc[e] = "returned" => LastRun(e).outcome \in {"ok", "blocked", "skipped"}
    BY <2>1 DEF Fits, LastRun
  <2>5. pc[e] \in {"threw", "refused"} /\ loopFaults = 0 => LastRun(e).outcome = "failed"
    BY <2>1 DEF LoopsInv, RowsFit, Fits, Told, LastRun
  <2> QED
    BY <2>3, <2>4, <2>5 DEF LoopsInv, LateIsSkipped
<1> QED
  BY <1>1, LoopsInvariant, PTL

\* HumanChoiceStands: what a person accepted stays accepted, unless a statement
\* failed, however often a loop asks, retries and is given up.
THEOREM ChoicesStand == LoopsSpec => HumanChoiceStands
<1>1. ASSUME LoopsInv, LoopsNext, NEW e \in Events, result[e] = "accepted"
      PROVE  result'[e] = "accepted" \/ loopFaults' > 0
  <2>1. /\ IsNote(e) /\ loopFaults \in Nat /\ loopFaults' \in Nat
        /\ loopFaults = 0 => pc[e] \in {"stored", "returned"}
        /\ result \in [Events -> {"fresh", "proposed", "accepted", "none"}]
    BY <1>1, OthersTyped DEF LoopsInv, LoopsTypeOK, ChoiceIsOfNotes
  <2>2. CASE Crash
    BY <1>1, <2>2 DEF Crash
  <2>3. ASSUME NEW f \in Events, Apply(f)
        PROVE  result'[e] = "accepted" \/ loopFaults' > 0
    <3>1. UNCHANGED loopFaults /\ (Store(f) \/ File(f)) /\ pc[f] \in {"apply", "ruling"}
      BY <2>3 DEF Apply, Goes
    <3>2. CASE f # e
      BY <1>1, <2>1, <3>1, <3>2 DEF Store, File
    <3>3. CASE f = e
      BY <2>1, <3>1, <3>3
    <3> QED
      BY <3>2, <3>3
  <2>4. ASSUME NEW f \in Events, CallTool(f)
        PROVE  result'[e] = "accepted"
    <3>1. ~IsNote(f)
      BY <2>4 DEF CallTool, IsNote
    <3> QED
      BY <1>1, <2>1, <2>4, <3>1 DEF CallTool
  <2>5. ASSUME NEW f \in Events, NEW accept \in BOOLEAN, DecideNoteRouting(f, accept)
        PROVE  result'[e] = "accepted"
    BY <1>1, <2>1, <2>5 DEF DecideNoteRouting
  <2>6. ASSUME NEW f \in Events, LoopStep(f), ~Apply(f)
        PROVE  UNCHANGED result
    BY <2>6 DEF LoopStep, Elapse, Count, MarkOptOut, Decide, Skip, Rule, BeginRun, Assemble,
                OverBudget, Generate, GenerateFails, Close, Warn, Finish, Raise, GiveUp
  <2>7. ASSUME NEW f \in Events, Arrive(f) \/ StatementFails(f)
        PROVE  UNCHANGED result
    BY <2>7 DEF Arrive, StatementFails
  <2> QED
    BY <1>1, <2>2, <2>3, <2>4, <2>5, <2>6, <2>7 DEF LoopsNext
<1>2. LoopsInv /\ [LoopsNext]_loopVars =>
        [\A e \in Events : result[e] = "accepted" => result'[e] = "accepted" \/ loopFaults' > 0]_loopVars
  BY <1>1
<1> QED
  BY <1>2, LoopsInvariant, PTL DEF LoopsSpec, HumanChoiceStands

==============================================================================
