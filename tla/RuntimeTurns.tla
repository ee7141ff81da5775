---------------------------- MODULE RuntimeTurns ----------------------------
(***************************************************************************)
(* Turns on a host of the local agent: how the dispatcher admits them      *)
(* (rpc-dispatch.ts, turn-cap.ts, session-registry.ts), how a delegation   *)
(* starts and times out (delegate.ts), and how the Codex adapter gives the *)
(* notifications of its one child process to the turns it has active       *)
(* (bridges/codex.ts).  The child is outside src: it takes turn requests   *)
(* and writes its notifications in order on one pipe (items are routed as   *)
(* the end of a turn is, and left out).                                     *)
(***************************************************************************)
EXTENDS Naturals, Sequences, FiniteSets

CONSTANTS
  Delegated,    \* turns started by delegate.run, each in a session of its own
  Dispatched,   \* turns started by turn.start, all in session Shared
  Shared,
  MaxTurns,     \* TurnCap: active turns
  MaxQueued     \* TurnCap: queued turns

Turns == Delegated \cup Dispatched
Sessions == Delegated \cup {Shared}
SessionOf(t) == IF t \in Delegated THEN t ELSE Shared   \* also the id of its thread
NoThread == <<>>

\* A turn is started in one of the two ways, a delegation has a session of its own,
\* and a session without a thread has the id of none.
ASSUME TurnsAssumption ==
  /\ Delegated \cap Dispatched = {} /\ Shared \notin Delegated /\ NoThread \notin Sessions
  /\ MaxTurns \in Nat /\ MaxQueued \in Nat

VARIABLES
  registry,     \* SessionRecord.state
  sessionId,    \* SessionRecord.session_id is bound, and to which thread
  slots,        \* TurnCap.#active
  waiting,      \* TurnCap.#queue
  active,       \* CodexAdapter.#turns
  threadId,     \* ActiveTurn.thread_id
  handle,       \* turns whose startTurn() returned a handle
  settled,      \* delegations that ran settle()
  ends,         \* turnCompleted calls that reached the hub's sink, by turn
  strays,       \* turns whose sink was given another turn's notification
  cancelled,    \* turns deleted from #turns before their end
  up,           \* the child the adapter holds is alive, or none is held
  child,        \* what the child makes of a turn
  pipe          \* its notifications not read yet

bookkeeping == <<registry, slots, waiting>>
adapter == <<active, threadId, sessionId>>
sinks == <<settled, ends, strays>>
turnVars == <<bookkeeping, adapter, handle, sinks, cancelled, up, child, pipe>>

Notices == {"answer", "thread.started", "turn.completed"}

TurnsTypeOK ==
  /\ registry \in [Sessions -> {"idle", "running", "closed"}]
  /\ sessionId \in [Sessions -> Sessions \cup {NoThread}]
  /\ slots \subseteq Dispatched /\ Cardinality(slots) <= MaxTurns
  /\ waiting \in Seq(Dispatched) /\ Len(waiting) <= MaxQueued
  /\ active \subseteq Turns /\ handle \subseteq Turns
  /\ threadId \in [Turns -> Sessions \cup {NoThread}]
  /\ settled \subseteq Delegated /\ cancelled \subseteq Turns
  /\ ends \in [Turns -> Nat]
  /\ strays \subseteq Turns
  /\ child \in [Turns -> {"none", "asked", "open", "closed", "dead"}]
  /\ up \in BOOLEAN /\ pipe \in Seq([notice : Notices, turn : Turns])

TurnsInit ==
  /\ registry = [s \in Sessions |-> "idle"]
  /\ sessionId = [s \in Sessions |-> NoThread]
  /\ slots = {} /\ waiting = <<>>
  /\ active = {} /\ threadId = [t \in Turns |-> NoThread]
  /\ handle = {} /\ settled = {} /\ cancelled = {}
  /\ ends = [t \in Turns |-> 0] /\ strays = {}
  /\ up = TRUE /\ child = [t \in Turns |-> "none"] /\ pipe = <<>>

-----------------------------------------------------------------------------
(* Admission.                                                              *)

\* CodexAdapter.startTurn() up to the answer of the child
StartTurn(t) ==
  /\ child[t] = "none"
  /\ active' = active \cup {t}
  /\ threadId' = [threadId EXCEPT ![t] = sessionId[SessionOf(t)]]
  /\ child' = [child EXCEPT ![t] = IF up THEN "asked" ELSE "dead"]
  /\ UNCHANGED <<sessionId, handle, sinks, cancelled, up, pipe>>

Delegate(t) == t \in Delegated /\ StartTurn(t) /\ UNCHANGED bookkeeping

\* turn.start: a slot or a place in the queue, and the turn runs in either case.
TurnStart(t) ==
  /\ t \in Dispatched /\ registry[Shared] # "running"
  /\ IF Cardinality(slots) < MaxTurns
     THEN slots' = slots \cup {t} /\ UNCHANGED waiting
     ELSE /\ Len(waiting) < MaxQueued
          /\ waiting' = Append(waiting, t) /\ UNCHANGED slots
  /\ registry' = [registry EXCEPT ![Shared] = "running"]
  /\ StartTurn(t)

ReleaseSlot(t) ==
  IF t \notin slots
  THEN waiting' = SelectSeq(waiting, LAMBDA u : u # t) /\ UNCHANGED slots
  ELSE IF waiting = <<>> THEN slots' = slots \ {t} /\ UNCHANGED waiting
  ELSE slots' = (slots \ {t}) \cup {Head(waiting)} /\ waiting' = Tail(waiting)

\* turn.cancel: its handle is a stub, so the adapter's turn goes on.
TurnCancel(t) ==
  /\ t \in Dispatched /\ child[t] # "none"
  /\ registry' = [registry EXCEPT ![Shared] = "idle"]
  /\ ReleaseSlot(t)
  /\ UNCHANGED <<adapter, handle, sinks, cancelled, up, child, pipe>>

\* session.close: the child is killed with every turn of every session.
SessionClose ==
  /\ registry[Shared] # "closed"
  /\ registry' = [registry EXCEPT ![Shared] = "closed"]
  /\ active' = {} /\ cancelled' = cancelled \cup active
  /\ child' = [t \in Turns |-> IF child[t] = "none" THEN "none" ELSE "dead"]
  /\ up' = TRUE /\ pipe' = <<>>
  /\ UNCHANGED <<slots, waiting, threadId, sessionId, handle, sinks>>

-----------------------------------------------------------------------------
(* The child.                                                              *)

Say(t, notices) == pipe' = pipe \o [i \in 1 .. Len(notices) |-> [notice |-> notices[i], turn |-> t]]
ChildOnly(t, from, to) ==
  /\ child[t] \in from /\ child' = [child EXCEPT ![t] = to]
  /\ UNCHANGED <<bookkeeping, adapter, handle, sinks, cancelled, up>>

\* A turn without a thread id opens a thread of its own.
ChildBegins(t) ==
  /\ ChildOnly(t, {"asked"}, "open")
  /\ Say(t, IF threadId[t] = NoThread THEN <<"answer", "thread.started">> ELSE <<"answer">>)
ChildEnds(t) == ChildOnly(t, {"open"}, "closed") /\ Say(t, <<"turn.completed">>)
\* The process exits: nothing in the adapter notices.
ChildDies ==
  /\ \E t \in Turns : child[t] \in {"asked", "open"}
  /\ child' = [t \in Turns |-> IF child[t] \in {"asked", "open"} THEN "dead" ELSE child[t]]
  /\ up' = FALSE
  /\ UNCHANGED <<bookkeeping, adapter, handle, sinks, cancelled, pipe>>

-----------------------------------------------------------------------------
(* Routing.                                                                *)

TurnForAny(n) ==
  LET bound == {t \in active : threadId[t] = SessionOf(n.turn)} IN
  IF bound # {} THEN bound ELSE active

\* #turnFor: the turn bound to the notification's thread, or the only active one
TurnFor(n) ==
  LET bound == {t \in active : threadId[t] = SessionOf(n.turn)} IN
  IF bound # {} THEN bound ELSE IF Cardinality(active) = 1 THEN active ELSE {}

\* The delegation's sink passes an end on once; it verifies a success first.
PassEnd(t) ==
  /\ settled' = IF t \in Delegated THEN settled \cup {t} ELSE settled
  /\ ends' = IF t \in settled THEN ends ELSE [ends EXCEPT ![t] = @ + 1]

DeliverTo(n, t) ==
  /\ strays' = IF SessionOf(n.turn) = SessionOf(t) THEN strays ELSE strays \cup {t}
  /\ IF n.notice = "turn.completed"
     THEN PassEnd(t) /\ active' = active \ {t} /\ UNCHANGED <<threadId, sessionId>>
     ELSE /\ IF n.notice = "thread.started"
             THEN /\ threadId' = [threadId EXCEPT ![t] = SessionOf(n.turn)]
                  /\ sessionId' = [sessionId EXCEPT ![SessionOf(t)] = SessionOf(n.turn)]
             ELSE UNCHANGED <<threadId, sessionId>>
          /\ UNCHANGED <<settled, ends, active>>

Route ==
  /\ pipe # <<>> /\ Head(pipe).notice # "answer"
  /\ pipe' = Tail(pipe)
  /\ IF TurnFor(Head(pipe)) = {}
     THEN UNCHANGED <<adapter, sinks>>
     ELSE \E t \in TurnFor(Head(pipe)) : DeliverTo(Head(pipe), t)
  /\ UNCHANGED <<bookkeeping, handle, cancelled, up, child>>

\* startTurn() returns; a delegation arms its timer now, unless it has ended.
Answer ==
  /\ pipe # <<>> /\ Head(pipe).notice = "answer"
  /\ handle' = handle \cup {Head(pipe).turn}
  /\ pipe' = Tail(pipe)
  /\ UNCHANGED <<bookkeeping, adapter, sinks, cancelled, up, child>>

TimeoutAfterEnd(t) ==
  /\ t \in handle \cap Delegated /\ ends[t] < 2
  /\ settled' = settled \cup {t} /\ ends' = [ends EXCEPT ![t] = @ + 1]
  /\ active' = active \ {t}
  /\ cancelled' = cancelled \cup ({t} \cap active)
  /\ UNCHANGED <<bookkeeping, threadId, sessionId, handle, strays, up, child, pipe>>

\* timeout_ms: the turn is cancelled and reported failed.
Timeout(t) ==
  /\ t \in handle \cap Delegated /\ t \notin settled
  /\ settled' = settled \cup {t} /\ ends' = [ends EXCEPT ![t] = @ + 1]
  /\ active' = active \ {t}
  /\ cancelled' = cancelled \cup ({t} \cap active)
  /\ UNCHANGED <<bookkeeping, threadId, sessionId, handle, strays, up, child, pipe>>

TurnsNext ==
  \/ \E t \in Turns :
       Delegate(t) \/ TurnStart(t) \/ TurnCancel(t) \/ Timeout(t)
       \/ ChildBegins(t) \/ ChildEnds(t)
  \/ SessionClose \/ ChildDies \/ Route \/ Answer

\* The timer of a delegation fires; the child need not do anything.
TurnsSpec == TurnsInit /\ [][TurnsNext]_turnVars /\ \A t \in Turns : WF_turnVars(Timeout(t))

-----------------------------------------------------------------------------
(* Properties.                                                             *)

\* A delegation ends once: the completion and the timer do not both report.
EndsOnce == \A t \in Turns : ends[t] <= 1

\* Notifications go to the turn they belong to as long as none was cancelled:
\* concurrent turns may lose notifications to each other, never exchange them.
NoMisdelivery == cancelled = {} => strays = {}

\* The turns that share a child keep apart: each ends once, by its own
\* notifications or its own timer.
TurnsKeepApart == EndsOnce /\ NoMisdelivery

=============================================================================
