------------------------------ MODULE Approvals ------------------------------
(***************************************************************************)
(* The approval gate of the kernel: the rows of pending_approvals and the  *)
(* handlers that move them (packages/kernel/src/approvals.ts), with the    *)
(* only path to an irreversible act (packages/kernel/src/egress.ts).       *)
(*                                                                         *)
(* A handler is a chain of awaited SQL statements, outside a transaction.  *)
(* Each statement is one action, so that deciders, executors and sweepers  *)
(* interleave between any two of them, a statement may fail and the hub    *)
(* may die with a chain half done.                                         *)
(*                                                                         *)
(* Handlers that throw before they change anything (a decide() on a row    *)
(* that is not pending, runEgress with the kill switch on) are the states  *)
(* in which the handler's first action is not enabled.                     *)
(***************************************************************************)
EXTENDS Naturals

CONSTANTS
  Ids,          \* approvals that may be proposed
  Items,        \* inbox items a draft approval may carry as item_id
  NoItem,       \* item_id IS NULL
  ItemOf,       \* ItemOf[a]: the item_id the approval is proposed with
  Allowed,      \* Allowed[a]: the decisions the row's config allows
  Expiring,     \* approvals proposed with an expires_at
  Deciders,     \* concurrent decide() calls: HTTP requests, allow rules
  Executors,    \* concurrent runEgress() calls: NOTIFY subscribers, callers
  Sweeping,     \* whether anything calls expire()
  None,         \* "no decision", "no approval"
  MaxFaults     \* bound on statement failures and hub crashes

Decisions == {"accept", "edit", "respond", "ignore"}
DoIt == {"accept", "edit"}

ASSUME ConstantsAssumption ==
  /\ NoItem \notin Items
  /\ ItemOf \in [Ids -> Items \cup {NoItem}]
  /\ Allowed \in [Ids -> SUBSET Decisions]
  /\ Expiring \subseteq Ids
  /\ None \notin Ids /\ None \notin Decisions
  /\ Sweeping \in BOOLEAN
  /\ MaxFaults \in Nat

VARIABLES
  state,        \* pending_approvals.state, "absent" before the INSERT
  decision,     \* pending_approvals.decision
  due,          \* expires_at <= now
  draft,        \* items.status of the items drafts are about
  audit,        \* audit_log rows, by approval
  decider,      \* decide() calls in flight
  executor,     \* runEgress() calls in flight
  sent,         \* how often the act behind the approval took effect
  faults

rows == <<state, decision>>
vars == <<state, decision, due, draft, audit, decider, executor, sent, faults>>

RowStates ==
  {"absent", "pending", "decided", "executing", "executed", "failed", "expired"}
AuditActions == {"proposed", "decided", "expired", "sent", "send_failed"}

Idle == [pc |-> "idle", id |-> None]
IdleDecider == [pc |-> "idle", id |-> None, choice |-> None]

TypeOK ==
  /\ state \in [Ids -> RowStates]
  /\ decision \in [Ids -> Decisions \cup {None}]
  /\ due \in [Ids -> BOOLEAN]
  /\ draft \in [Items -> {"draft", "approved", "archived"}]
  /\ audit \in [Ids -> SUBSET AuditActions]
  /\ decider \in [Deciders ->
       {IdleDecider} \cup [pc : {"update", "draft", "record"}, id : Ids, choice : Decisions]]
  /\ executor \in [Executors -> {Idle} \cup
       [pc : {"run", "complete", "record", "fail", "record_failure"}, id : Ids]]
  /\ sent \in [Ids -> Nat]
  /\ faults \in Nat

Init ==
  /\ state = [a \in Ids |-> "absent"]
  /\ decision = [a \in Ids |-> None]
  /\ due = [a \in Ids |-> FALSE]
  /\ draft = [i \in Items |-> "draft"]
  /\ audit = [a \in Ids |-> {}]
  /\ decider = [d \in Deciders |-> IdleDecider]
  /\ executor = [e \in Executors |-> Idle]
  /\ sent = [a \in Ids |-> 0]
  /\ faults = 0

Fault == faults < MaxFaults /\ faults' = faults + 1

Record(a, action) == audit' = [audit EXCEPT ![a] = @ \cup {action}]

-----------------------------------------------------------------------------
(* propose(): the INSERT, then the audit record.  Nobody reads audit_log   *)
(* between the two, so the pair is one action in which the record may be   *)
(* lost to a fault; likewise in expire().                                  *)

RecordOrFault(a, action) ==
  \/ Record(a, action) /\ UNCHANGED faults
  \/ UNCHANGED audit /\ Fault

Propose(a) ==
  /\ state[a] = "absent"
  /\ state' = [state EXCEPT ![a] = "pending"]
  /\ RecordOrFault(a, "proposed")
  /\ UNCHANGED <<decision, due, draft, decider, executor, sent>>

-----------------------------------------------------------------------------
(* decide(): a SELECT and its checks, the guarded UPDATE, the draft item,  *)
(* the audit record.                                                       *)

Decidable(a, choice) ==
  /\ state[a] = "pending"
  /\ ~due[a]
  /\ choice \in Allowed[a]

DecideRead(d, a, choice) ==
  /\ decider[d].pc = "idle"
  /\ Decidable(a, choice)
  /\ decider' = [decider EXCEPT ![d] = [pc |-> "update", id |-> a, choice |-> choice]]
  /\ UNCHANGED <<rows, due, draft, audit, executor, sent, faults>>

ConsumesDraft(a, choice) == ItemOf[a] # NoItem /\ choice # "respond"

(* The WHERE state = 'pending' of the UPDATE; without it a late decide()   *)
(* overwrites an earlier decision.                                         *)
DecideWinsAlways(a) == TRUE
DecideWins(a) == state[a] = "pending"

(* The row may have become due since DecideRead: the UPDATE does not look. *)
DecideUpdate(d) ==
  LET a == decider[d].id
      choice == decider[d].choice
  IN  /\ decider[d].pc = "update"
      /\ \/ /\ DecideWins(a)
            /\ state' = [state EXCEPT ![a] = "decided"]
            /\ decision' = [decision EXCEPT ![a] = choice]
            /\ decider' = [decider EXCEPT ![d].pc =
                 IF ConsumesDraft(a, choice) THEN "draft" ELSE "record"]
         \/ /\ ~DecideWins(a)
            /\ decider' = [decider EXCEPT ![d] = IdleDecider]
            /\ UNCHANGED rows
      /\ UNCHANGED <<due, draft, audit, executor, sent, faults>>

(* What the draft's status becomes; with it two ways to get it wrong.      *)
DraftAfterAlwaysApproved(choice) == "approved"
DraftAfter(choice) == IF choice = "ignore" THEN "archived" ELSE "approved"

DecideDraft(d) ==
  LET i == ItemOf[decider[d].id]
  IN  /\ decider[d].pc = "draft"
      /\ draft' = IF draft[i] = "draft"
                    THEN [draft EXCEPT ![i] = DraftAfter(decider[d].choice)]
                    ELSE draft
      /\ decider' = [decider EXCEPT ![d].pc = "record"]
      /\ UNCHANGED <<rows, due, audit, executor, sent, faults>>

DecideRecord(d) ==
  /\ decider[d].pc = "record"
  /\ Record(decider[d].id, "decided")
  /\ decider' = [decider EXCEPT ![d] = IdleDecider]
  /\ UNCHANGED <<rows, due, draft, executor, sent, faults>>

-----------------------------------------------------------------------------
(* expire(): the guarded UPDATE, then the audit record.  The draft item of *)
(* an expired approval is left as it is.                                   *)

Expire(a) ==
  /\ Sweeping
  /\ state[a] = "pending"
  /\ due[a]
  /\ state' = [state EXCEPT ![a] = "expired"]
  /\ decision' = [decision EXCEPT ![a] = "ignore"]
  /\ RecordOrFault(a, "expired")
  /\ UNCHANGED <<due, draft, decider, executor, sent>>

-----------------------------------------------------------------------------
(* runEgress(): assertOff, beginExecution (the claim), the act, then       *)
(* completeExecution and its record, or failExecution and its record.      *)

Goto(e, pc) == executor' = [executor EXCEPT ![e].pc = pc]
Leave(e) == executor' = [executor EXCEPT ![e] = Idle]

(* The WHERE clause of the claim, and the claim without its second test.   *)
ClaimableAnyDecision(a) == state[a] = "decided"
Claimable(a) == state[a] = "decided" /\ decision[a] \in DoIt

(* assertOff and the claim.  The kill switch is KillSwitch.tla's: here it  *)
(* may answer either way, and on means, like a row that is not claimable,  *)
(* that runEgress throws before it changes anything.  The claim is made    *)
(* outside runEgress's try: if it commits and its connection fails, the    *)
(* row stays executing and nobody holds it.                                *)
BeginExecution(e, a) ==
  /\ executor[e].pc = "idle"
  /\ Claimable(a)
  /\ state' = [state EXCEPT ![a] = "executing"]
  /\ \/ executor' = [executor EXCEPT ![e] = [pc |-> "run", id |-> a]] /\ UNCHANGED faults
     \/ UNCHANGED executor /\ Fault
  /\ UNCHANGED <<decision, due, draft, audit, decider, sent>>

(* The act ends well, or throws with or without having taken effect.       *)
Run(e) ==
  LET a == executor[e].id
  IN  /\ executor[e].pc = "run"
      /\ \/ sent' = [sent EXCEPT ![a] = @ + 1] /\ Goto(e, "complete")
         \/ sent' = [sent EXCEPT ![a] = @ + 1] /\ Goto(e, "fail")
         \/ UNCHANGED sent /\ Goto(e, "fail")
      /\ UNCHANGED <<rows, due, draft, audit, decider, faults>>

(* An executing row belongs to the caller that claimed it, so the guarded  *)
(* UPDATE finds it; the throw on zero rows leads to the catch.             *)
CompleteExecution(e) ==
  LET a == executor[e].id
  IN  /\ executor[e].pc = "complete"
      /\ state[a] = "executing"
      /\ state' = [state EXCEPT ![a] = "executed"]
      /\ Goto(e, "record")
      /\ UNCHANGED <<decision, due, draft, audit, decider, sent, faults>>

RecordSent(e) == Record(executor[e].id, "sent")

EgressRecord(e) ==
  /\ executor[e].pc = "record"
  /\ RecordSent(e)
  /\ Leave(e)
  /\ UNCHANGED <<rows, due, draft, decider, sent, faults>>

(* The catch that forgets the row. *)

(* In the catch.  A row already executed makes failExecution throw, and    *)
(* runEgress ends there without a record.                                  *)
FailExecution(e) ==
  LET a == executor[e].id
  IN  /\ executor[e].pc = "fail"
      /\ \/ /\ state[a] = "executing"
            /\ state' = [state EXCEPT ![a] = "failed"]
            /\ Goto(e, "record_failure")
         \/ state[a] # "executing" /\ UNCHANGED state /\ Leave(e)
      /\ UNCHANGED <<decision, due, draft, audit, decider, sent, faults>>

EgressRecordFailure(e) ==
  /\ executor[e].pc = "record_failure"
  /\ Record(executor[e].id, "send_failed")
  /\ Leave(e)
  /\ UNCHANGED <<rows, due, draft, decider, sent, faults>>

-----------------------------------------------------------------------------
(* Faults.  A statement that commits and then loses its connection is the  *)
(* failure of the statement after it, except where the caller catches: in  *)
(* runEgress's try both outcomes lead to the catch.                        *)

DecideThrows(d) ==
  /\ decider[d].pc # "idle"
  /\ Fault
  /\ decider' = [decider EXCEPT ![d] = IdleDecider]
  /\ UNCHANGED <<rows, due, draft, audit, executor, sent>>

TryThrows(e) ==
  LET a == executor[e].id
  IN  /\ executor[e].pc \in {"complete", "record"}
      /\ Fault
      /\ Goto(e, "fail")
      /\ \/ UNCHANGED <<state, audit>>
         \/ /\ executor[e].pc = "complete"
            /\ state' = [state EXCEPT ![a] = "executed"]
            /\ UNCHANGED audit
         \/ executor[e].pc = "record" /\ Record(a, "sent") /\ UNCHANGED state
      /\ UNCHANGED <<decision, due, draft, decider, sent>>

CatchThrows(e) ==
  /\ executor[e].pc \in {"fail", "record_failure"}
  /\ Fault
  /\ Leave(e)
  /\ UNCHANGED <<rows, due, draft, audit, decider, sent>>

(* The hub dies: every handler in flight is gone, every row stays.         *)
Crash ==
  /\ Fault
  /\ decider' = [d \in Deciders |-> IdleDecider]
  /\ executor' = [e \in Executors |-> Idle]
  /\ UNCHANGED <<rows, due, draft, audit, sent>>

-----------------------------------------------------------------------------
(* The environment: time reaches expires_at.                               *)

ReachExpiry(a) ==
  /\ a \in Expiring
  /\ state[a] # "absent"
  /\ ~due[a]
  /\ due' = [due EXCEPT ![a] = TRUE]
  /\ UNCHANGED <<rows, draft, audit, decider, executor, sent, faults>>

-----------------------------------------------------------------------------
DeciderStep(d) ==
  \/ \E a \in Ids, choice \in Decisions : DecideRead(d, a, choice)
  \/ DecideUpdate(d)
  \/ DecideDraft(d)
  \/ DecideRecord(d)
  \/ DecideThrows(d)

(* What a claimed execution does by itself once it has begun. *)
ExecutorAdvances(e) ==
  \/ Run(e)
  \/ CompleteExecution(e)
  \/ EgressRecord(e)
  \/ FailExecution(e)
  \/ EgressRecordFailure(e)

ExecutorStep(e) ==
  \/ \E a \in Ids : BeginExecution(e, a)
  \/ ExecutorAdvances(e)
  \/ TryThrows(e)
  \/ CatchThrows(e)

Next ==
  \/ \E a \in Ids : Propose(a) \/ Expire(a) \/ ReachExpiry(a)
  \/ \E d \in Deciders : DeciderStep(d)
  \/ \E e \in Executors : ExecutorStep(e)
  \/ Crash

Spec == Init /\ [][Next]_vars

(* The event loop runs every continuation that is ready, and the acts      *)
(* behind runEgress answer or time out.  Nobody is obliged to decide.  A   *)
(* sweeper that exists sweeps.                                             *)
Fairness ==
  /\ \A e \in Executors : WF_vars(ExecutorAdvances(e))
  /\ \A a \in Ids : WF_vars(ReachExpiry(a))
  /\ \A a \in Ids : WF_vars(Expire(a))

FairSpec == Spec /\ Fairness

-----------------------------------------------------------------------------
(* Properties.                                                             *)

PermitOf == [a \in Ids |->
  CASE state[a] = "absent" -> "absent"
    [] state[a] = "pending" -> "asked"
    [] state[a] = "decided" /\ decision[a] \in DoIt -> "granted"
    [] state[a] = "decided" /\ decision[a] \notin DoIt -> "refused"
    [] state[a] = "expired" -> "refused"
    [] OTHER -> "used"]

Permit == INSTANCE OneShotPermit WITH permit <- PermitOf, effects <- sent

(* The gate implements the abstract permit: whatever decide(), expire(),   *)
(* runEgress(), crashes and failed statements do, the irreversible act     *)
(* takes effect at most once per approval, after a do-it decision that     *)
(* nothing revokes.                                                        *)
GateIsOneShot == Permit!Spec

(* The same as an invariant of the rows: an act that took effect did so    *)
(* once, under an accept or edit, and its row still says it was claimed.   *)
(* A row marked executed did act.                                          *)
SentOnceAndApproved ==
  \A a \in Ids :
    /\ sent[a] <= 1
    /\ sent[a] = 1 => decision[a] \in DoIt /\ state[a] \in {"executing", "executed", "failed"}
    /\ state[a] = "executed" => sent[a] = 1

(* A decision is written once: of two decide() calls, or a decide() and an *)
(* expire(), that both saw the row pending, one wins and the other changes *)
(* nothing.                                                                *)
DecisionIsFinal ==
  [][\A a \in Ids : decision[a] # None => decision'[a] = decision[a]]_vars

(* An item a draft approval is about leaves 'draft' the way its approval   *)
(* was decided: approved by an accept or edit, archived by an ignore that  *)
(* somebody chose, never by an expiry or a respond.                        *)
DraftFollowsDecision ==
  \A i \in Items :
    /\ draft[i] = "approved" => \E a \in Ids : ItemOf[a] = i /\ decision[a] \in DoIt
    /\ draft[i] = "archived" =>
         \E a \in Ids : ItemOf[a] = i /\ decision[a] = "ignore" /\ state[a] = "decided"

(* As long as no statement failed and the hub did not die, no decided      *)
(* draft is left behind and no egress is left unrecorded once the handler  *)
(* that was responsible has returned.                                      *)

=============================================================================
