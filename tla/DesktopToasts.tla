----------------------------- MODULE DesktopToasts -----------------------------
(***************************************************************************)
(* The one toast of the desktop's shell (App.tsx) and what is decided      *)
(* through it: an ignored approval, whose request waits until the toast    *)
(* goes so that its Undo can call it off; accepted ones, hidden at once    *)
(* and shown again when the request fails; and the boxes of the Tasks      *)
(* screen (Tasks.tsx), whose Undo is the toast's as well.                  *)
(*                                                                         *)
(* A decision and a write of a task are named by their numbers.            *)
(***************************************************************************)
EXTENDS Naturals, SequencesExt

CONSTANTS
  Approvals, Tasks,
  Overtakes,       \* whether the hub may serve two writes of a task in either order
  MaxPresses,      \* bound on the decisions and writes
  MaxToastFaults   \* bound on requests that fail by themselves, and on reloads

VARIABLES
  approval,   \* pending_approvals.state at the hub
  cards,      \* the approvals that Zero's copy has as pending
  hidden,     \* hiddenApprovalIds
  held,       \* the decision whose request the toast holds back, 0 for none
  toast,      \* what its button offers, about which decision or write
  decisions,
  task,       \* the tasks that are done at the hub
  inSight,       \* and in Zero's copy
  box,        \* pendingState of the Tasks screen
  writes,
  toastFaults

toastVars == <<approval, cards, hidden, held, toast, decisions, task, inSight, box,
               writes, toastFaults>>
taskVars == <<task, inSight, box, writes>>
cardVars == <<approval, cards, hidden, decisions>>

NoToast == [action |-> "gone", of |-> 0]

ToastsInit ==
  /\ approval = [a \in Approvals |-> "pending"]
  /\ cards = Approvals
  /\ hidden = {}
  /\ held = 0
  /\ toast = NoToast
  /\ decisions = <<>>
  /\ task = {} /\ inSight = {}
  /\ box = [t \in Tasks |-> "none"]
  /\ writes = <<>>
  /\ toastFaults = 0

-----------------------------------------------------------------------------
(* notify() and the ways a toast goes.                                     *)

Dropped(ds) == ds

\* runHeld: what the outgoing toast held back is sent.
RunHeld(ds) == IF held = 0 THEN ds ELSE [ds EXCEPT ![held].pc = "sent"]

\* A new toast in the only slot: the outgoing one's work first.
Notify(ds, action, of, deferred) ==
  /\ decisions' = RunHeld(ds)
  /\ held' = deferred
  /\ toast' = [action |-> action, of |-> of]

\* Its timer, a swipe, its close button, or a toast of the Inbox in its place.
ToastLeaves(next) ==
  /\ toast.action # "gone"
  /\ Notify(decisions, next, 0, 0)
  /\ UNCHANGED <<taskVars, approval, cards, hidden, toastFaults>>

-----------------------------------------------------------------------------
(* decide(): from a card, or again from Retry.                             *)

MayPress == Len(decisions) + Len(writes) < MaxPresses

Visible == cards \ hidden

Decision(a, decision, pc) == [id |-> a, decision |-> decision, pc |-> pc, hides |-> TRUE]

Decide(a, decision) ==
  LET n == Len(decisions) + 1
  IN  /\ MayPress
      /\ hidden' = hidden \cup {a}
      /\ \/ /\ decision = "ignore"
            /\ Notify(Append(decisions, Decision(a, decision, "held")), "undo", n, n)
         \/ /\ decision = "accept"
            /\ decisions' = Append(decisions, Decision(a, decision, "sent"))
            /\ UNCHANGED <<held, toast>>
      /\ UNCHANGED <<taskVars, approval, cards, toastFaults>>

PressCard(a, decision) == a \in Visible /\ Decide(a, decision)

\* respond, and any decision on a card that is open in the Tasks screen: a
\* request and no more.
DecideBare(a, decision) ==
  /\ MayPress
  /\ a \in cards
  /\ decisions' = Append(decisions, [Decision(a, decision, "sent") EXCEPT !.hides = FALSE])
  /\ UNCHANGED <<taskVars, approval, cards, hidden, held, toast, toastFaults>>

\* The button clears held before it acts.
DisarmedLate == held

Disarmed == 0

PressUndoIgnore ==
  /\ toast.action = "undo"
  /\ held' = Disarmed
  /\ decisions' = [decisions EXCEPT ![toast.of].pc = "undone"]
  /\ hidden' = hidden \ {decisions[toast.of].id}
  \* dismissToast: the toast leaves by ToastLeaves.
  /\ toast' = [action |-> "none", of |-> 0]
  /\ UNCHANGED <<taskVars, approval, cards, toastFaults>>

RetryDecision ==
  /\ toast.action = "retry"
  /\ Decide(decisions[toast.of].id, decisions[toast.of].decision)

-----------------------------------------------------------------------------
(* The request: the hub's UPDATE of a pending approval, and the answer.    *)

HubDecides(n) ==
  LET d == decisions[n]
  IN  /\ d.pc \in {"sent", "orphan"}
      /\ IF approval[d.id] = "pending"
           THEN /\ approval' = [approval EXCEPT ![d.id] = d.decision]
                /\ decisions' = [decisions EXCEPT ![n].pc = IF @ = "sent" THEN "applied" ELSE "done"]
           ELSE /\ decisions' = [decisions EXCEPT ![n].pc = IF @ = "sent" THEN "refused" ELSE "done"]
                /\ UNCHANGED approval
      /\ UNCHANGED <<taskVars, cards, hidden, held, toast, toastFaults>>

Answered(n) ==
  LET ds == [decisions EXCEPT ![n].pc = "done"]
  IN  /\ decisions[n].pc = "applied"
      /\ IF decisions[n].hides /\ decisions[n].decision = "accept"
           THEN Notify(ds, "none", 0, 0)
           ELSE decisions' = ds /\ UNCHANGED <<held, toast>>
      /\ UNCHANGED <<taskVars, approval, cards, hidden, toastFaults>>

StillHidden(a) == hidden

Unhide(a) == hidden \ {a}

\* The catch.  A bare request has none that does more than log.
Failed(n) ==
  LET ds == [decisions EXCEPT ![n].pc = "failed"]
  IN  IF decisions[n].hides
        THEN hidden' = Unhide(decisions[n].id) /\ Notify(ds, "retry", n, 0)
        ELSE decisions' = ds /\ UNCHANGED <<hidden, held, toast>>

Refused(n) ==
  /\ decisions[n].pc = "refused"
  /\ Failed(n)
  /\ UNCHANGED <<taskVars, approval, cards, toastFaults>>

\* The hub is not reached, or its answer is lost.
DecisionFails(n) ==
  /\ decisions[n].pc \in {"sent", "applied"}
  /\ toastFaults < MaxToastFaults /\ toastFaults' = toastFaults + 1
  /\ Failed(n)
  /\ UNCHANGED <<taskVars, approval, cards>>

ReplicateApproval(a) ==
  /\ a \in cards /\ approval[a] # "pending"
  /\ cards' = cards \ {a}
  /\ UNCHANGED <<taskVars, approval, hidden, held, toast, decisions, toastFaults>>

-----------------------------------------------------------------------------
(* The window closes and opens again: an ignore that is held goes out as a *)
(* beacon, the browser willing; the other requests are on their own.       *)

Reload(beacon) ==
  /\ toastFaults < MaxToastFaults /\ toastFaults' = toastFaults + 1
  /\ decisions' = [n \in DOMAIN decisions |->
       CASE n = held -> [decisions[n] EXCEPT !.pc = IF beacon THEN "orphan" ELSE "done"]
         [] decisions[n].pc = "sent" -> [decisions[n] EXCEPT !.pc = "orphan"]
         [] decisions[n].pc \in {"applied", "refused"} -> [decisions[n] EXCEPT !.pc = "done"]
         [] OTHER -> decisions[n]]
  /\ hidden' = {} /\ held' = 0 /\ toast' = NoToast
  /\ box' = [t \in Tasks |-> "none"]
  /\ writes' = [k \in DOMAIN writes |-> [writes[k] EXCEPT !.pc = "done"]]
  /\ UNCHANGED <<approval, cards, task, inSight>>

-----------------------------------------------------------------------------
(* The boxes of the Tasks screen.                                          *)

StateFor(t) == IF box[t] = "none" THEN t \in inSight ELSE box[t] = "done"
StateOf(done) == IF done THEN "done" ELSE "open"

SetTaskDone(t, done, by) ==
  /\ MayPress
  /\ writes' = Append(writes, [id |-> t, done |-> done, by |-> by, pc |-> "sent"])

OnToggle(t) ==
  /\ SetTaskDone(t, ~StateFor(t), "box")
  /\ box' = [box EXCEPT ![t] = StateOf(~StateFor(t))]
  /\ UNCHANGED <<cardVars, held, toast, task, inSight, toastFaults>>

\* Neither button of the toast tells the Tasks screen.
PressTaskUndo ==
  /\ toast.action = "reopen"
  /\ held' = Disarmed
  /\ SetTaskDone(writes[toast.of].id, FALSE, "undo")
  /\ UNCHANGED <<cardVars, toast, task, inSight, box, toastFaults>>

PressTaskRetry ==
  /\ toast.action = "rewrite"
  /\ held' = Disarmed
  /\ SetTaskDone(writes[toast.of].id, writes[toast.of].done, "retry")
  /\ UNCHANGED <<cardVars, toast, task, inSight, box, toastFaults>>

TaskInOrder(k) == \A j \in 1 .. k - 1 : writes[j].id = writes[k].id => writes[j].pc # "sent"

SetTaskState(k) ==
  /\ writes[k].pc = "sent"
  /\ Overtakes \/ TaskInOrder(k)
  /\ task' = IF writes[k].done THEN task \cup {writes[k].id} ELSE task \ {writes[k].id}
  /\ writes' = [writes EXCEPT ![k].pc = "applied"]
  /\ UNCHANGED <<cardVars, held, toast, inSight, box, toastFaults>>

TaskAnswered(k) ==
  /\ writes[k].pc = "applied"
  /\ writes' = [writes EXCEPT ![k].pc = "done"]
  /\ CASE writes[k].by = "undo" -> UNCHANGED <<decisions, held, toast>>
       [] writes[k].by # "undo" /\ writes[k].done -> Notify(decisions, "reopen", k, 0)
       [] OTHER -> Notify(decisions, "none", 0, 0)
  /\ UNCHANGED <<approval, cards, hidden, task, inSight, box, toastFaults>>

BoxKept(t) == box

BoxRolledBack(t) == [box EXCEPT ![t] = "none"]

\* Each way ends in a toast; the box's own has a Retry.
TaskFails(k) ==
  /\ writes[k].pc \in {"sent", "applied"}
  /\ toastFaults < MaxToastFaults /\ toastFaults' = toastFaults + 1
  /\ writes' = [writes EXCEPT ![k].pc = "done"]
  /\ IF writes[k].by = "box"
       THEN Notify(decisions, "rewrite", k, 0) /\ box' = BoxRolledBack(writes[k].id)
       ELSE Notify(decisions, "none", 0, 0) /\ UNCHANGED box
  /\ UNCHANGED <<approval, cards, hidden, task, inSight>>

\* Zero's copy moves, and the effect drops the overrides it has reached.
ReplicateTasks ==
  /\ inSight # task
  /\ inSight' = task
  /\ box' = [t \in Tasks |-> IF box[t] = StateOf(t \in task) THEN "none" ELSE box[t]]
  /\ UNCHANGED <<cardVars, held, toast, task, writes, toastFaults>>

-----------------------------------------------------------------------------
ToastsNext ==
  \/ \E a \in Approvals :
       \/ \E decision \in {"accept", "ignore"} : PressCard(a, decision) \/ DecideBare(a, decision)
       \/ ReplicateApproval(a)
  \/ PressUndoIgnore \/ RetryDecision \/ PressTaskUndo \/ PressTaskRetry
  \/ \E next \in {"gone", "none"} : ToastLeaves(next)
  \/ \E n \in DOMAIN decisions : HubDecides(n) \/ Answered(n) \/ Refused(n) \/ DecisionFails(n)
  \/ \E beacon \in BOOLEAN : Reload(beacon)
  \/ \E t \in Tasks : OnToggle(t)
  \/ \E k \in DOMAIN writes : SetTaskState(k) \/ TaskAnswered(k) \/ TaskFails(k)
  \/ ReplicateTasks

ToastsSpec == ToastsInit /\ [][ToastsNext]_toastVars

-----------------------------------------------------------------------------
(* Properties.                                                             *)

(* An ignore that waits is the one the toast on screen holds: no toast     *)
(* that takes the slot, of a task, of another decision or of an archive,   *)
(* loses it, and one that was taken back with Undo is never sent.          *)
HeldIsSentOrUndone ==
  [][/\ \A n \in DOMAIN decisions' : decisions'[n].pc = "held" => held' = n
     /\ \A n \in DOMAIN decisions :
          decisions[n].pc = "undone" => decisions'[n].pc = "undone"]_toastVars

(* An approval that the hub has as pending is off the screen only while    *)
(* its ignore can still be taken back or a request about it is under way:  *)
(* no failure leaves a card hidden that nobody has decided.                *)
HiddenIsUnderWay ==
  \A a \in hidden : approval[a] = "pending" =>
    \E n \in DOMAIN decisions :
      decisions[n].id = a /\ decisions[n].hides /\ decisions[n].pc \in {"held", "sent"}

(* With every write answered and the replica caught up, the box of a task  *)
(* is its row's, whichever writes failed, unless a button of the toast has *)
(* written: of that the Tasks screen does not know.                        *)
BoxIsItsRow ==
  inSight = task /\ (\A k \in DOMAIN writes : writes[k].pc = "done") =>
    \A t \in Tasks :
      (\A k \in DOMAIN writes : writes[k].id = t => writes[k].by = "box")
        => StateFor(t) = (t \in inSight)

\* What the screen draws ahead of the replica, a card taken away or a box
\* ticked, is backed by a request that can still be answered or by the row.
DrawnIsBacked == HiddenIsUnderWay /\ BoxIsItsRow

=============================================================================
