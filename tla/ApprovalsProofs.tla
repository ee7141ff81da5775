--------------------------- MODULE ApprovalsProofs ---------------------------
(***************************************************************************)
(* Theorems about the approval gate, for any number of approvals, items,   *)
(* deciders, executors and faults.                                         *)
(*                                                                         *)
(* SentOnceAndApproved is not inductive: nothing in it says that the       *)
(* executor about to act is the only one, or that it has not acted yet.    *)
(* GateInv adds what ties the handlers in flight to the rows.              *)
(***************************************************************************)
EXTENDS Approvals, TLAPS

Claimed == {"executing", "executed", "failed"}

(* A row and its decision: NULL exactly while pending (approvals_decided_ck *)
(* of migration 0004), a do-it decision from the claim on.                  *)
RowInv ==
  \A a \in Ids :
    /\ state[a] \in {"absent", "pending"} <=> decision[a] = None
    /\ state[a] \in Claimed => decision[a] \in DoIt
    /\ state[a] = "expired" => decision[a] = "ignore"
    /\ sent[a] \in {0, 1}
    /\ sent[a] = 1 => state[a] \in Claimed
    /\ state[a] = "executed" => sent[a] = 1

(* An executor in flight holds the claim of its row, alone; before the act *)
(* the row has not acted.                                                  *)
ExecutorInv ==
  \A e \in Executors : executor[e].pc # "idle" =>
    /\ state[executor[e].id] \in Claimed
    /\ executor[e].pc = "run" =>
         state[executor[e].id] = "executing" /\ sent[executor[e].id] = 0
    /\ executor[e].pc = "complete" =>
         state[executor[e].id] = "executing" /\ sent[executor[e].id] = 1
    /\ \A f \in Executors :
         f # e /\ executor[f].pc # "idle" => executor[f].id # executor[e].id

(* A decide() past its UPDATE is the one whose choice stands in the row.   *)
DeciderInv ==
  \A d \in Deciders : decider[d].pc \in {"draft", "record"} =>
    /\ decision[decider[d].id] = decider[d].choice
    /\ state[decider[d].id] \in Claimed \cup {"decided"}
    /\ decider[d].pc = "draft" =>
         ItemOf[decider[d].id] # NoItem /\ decider[d].choice # "respond"

GateInv == TypeOK /\ RowInv /\ ExecutorInv /\ DeciderInv

USE DEF rows, Decisions, DoIt, RowStates, AuditActions, Claimed, Idle, IdleDecider
USE ConstantsAssumption DEF ConstantsAssumption

-----------------------------------------------------------------------------
LEMMA InitGateInv == Init => GateInv
  BY DEF Init, GateInv, TypeOK, RowInv, ExecutorInv, DeciderInv

LEMMA NextTypeOK == TypeOK /\ DeciderInv /\ [Next]_vars => TypeOK'
<1> SUFFICES ASSUME TypeOK, DeciderInv, [Next]_vars PROVE TypeOK'
  OBVIOUS
<1>1. ASSUME NEW a \in Ids, Propose(a) PROVE TypeOK'
  BY <1>1 DEF TypeOK, Propose, RecordOrFault, Record, Fault
<1>2. ASSUME NEW a \in Ids, Expire(a) PROVE TypeOK'
  BY <1>2 DEF TypeOK, Expire, RecordOrFault, Record, Fault
<1>3. ASSUME NEW a \in Ids, ReachExpiry(a) PROVE TypeOK'
  BY <1>3 DEF TypeOK, ReachExpiry
<1>4. ASSUME NEW d \in Deciders, NEW a \in Ids, NEW c \in Decisions, DecideRead(d, a, c)
      PROVE TypeOK'
  BY <1>4 DEF TypeOK, DecideRead
<1>5. ASSUME NEW d \in Deciders, DecideUpdate(d) PROVE TypeOK'
  BY SMTT(60), <1>5 DEF TypeOK, DecideUpdate
<1>6. ASSUME NEW d \in Deciders, DecideDraft(d) PROVE TypeOK'
  <2>1. ItemOf[decider[d].id] \in Items
    BY <1>6 DEF TypeOK, DeciderInv, DecideDraft
  <2> QED
    BY <1>6, <2>1 DEF TypeOK, DecideDraft, DraftAfter
<1>7. ASSUME NEW d \in Deciders, DecideRecord(d) PROVE TypeOK'
  BY <1>7 DEF TypeOK, DecideRecord, Record
<1>8. ASSUME NEW d \in Deciders, DecideThrows(d) PROVE TypeOK'
  BY <1>8 DEF TypeOK, DecideThrows, Fault
<1>9. ASSUME NEW e \in Executors, NEW a \in Ids, BeginExecution(e, a) PROVE TypeOK'
  BY <1>9 DEF TypeOK, BeginExecution, Fault
<1>10. ASSUME NEW e \in Executors, Run(e) PROVE TypeOK'
  BY <1>10 DEF TypeOK, Run, Goto
<1>11. ASSUME NEW e \in Executors, CompleteExecution(e) PROVE TypeOK'
  BY <1>11 DEF TypeOK, CompleteExecution, Goto
<1>12. ASSUME NEW e \in Executors, EgressRecord(e) PROVE TypeOK'
  BY <1>12 DEF TypeOK, EgressRecord, RecordSent, Record, Leave
<1>13. ASSUME NEW e \in Executors, FailExecution(e) PROVE TypeOK'
  BY <1>13 DEF TypeOK, FailExecution, Goto, Leave
<1>14. ASSUME NEW e \in Executors, EgressRecordFailure(e) PROVE TypeOK'
  BY <1>14 DEF TypeOK, EgressRecordFailure, Record, Leave
<1>15. ASSUME NEW e \in Executors, TryThrows(e) PROVE TypeOK'
  BY <1>15 DEF TypeOK, TryThrows, Fault, Goto, Record
<1>16. ASSUME NEW e \in Executors, CatchThrows(e) PROVE TypeOK'
  BY <1>16 DEF TypeOK, CatchThrows, Fault, Leave
<1>17. CASE Crash
  BY <1>17 DEF TypeOK, Crash, Fault
<1>18. CASE UNCHANGED vars
  BY <1>18 DEF TypeOK, vars
<1> QED
  BY <1>1, <1>2, <1>3, <1>4, <1>5, <1>6, <1>7, <1>8, <1>9, <1>10, <1>11, <1>12,
     <1>13, <1>14, <1>15, <1>16, <1>17, <1>18
  DEF Next, DeciderStep, ExecutorStep, ExecutorAdvances

(* Each step keeps the rows and their decisions consistent. *)
LEMMA NextRowInv == GateInv /\ [Next]_vars => RowInv'
<1> SUFFICES ASSUME GateInv, [Next]_vars PROVE RowInv'
  OBVIOUS
<1> USE DEF GateInv, TypeOK, RowInv, ExecutorInv, DeciderInv
<1>1. ASSUME NEW a \in Ids, Propose(a) PROVE RowInv'
  BY <1>1 DEF Propose, RecordOrFault, Record, Fault
<1>2. ASSUME NEW a \in Ids, Expire(a) PROVE RowInv'
  BY <1>2 DEF Expire, RecordOrFault, Record, Fault
<1>3. ASSUME NEW a \in Ids, ReachExpiry(a) PROVE RowInv'
  BY <1>3 DEF ReachExpiry
<1>4. ASSUME NEW d \in Deciders, NEW a \in Ids, NEW c \in Decisions, DecideRead(d, a, c) PROVE RowInv'
  BY <1>4 DEF DecideRead, Decidable
<1>5. ASSUME NEW d \in Deciders, DecideUpdate(d) PROVE RowInv'
  BY <1>5 DEF DecideUpdate, DecideWins, ConsumesDraft
<1>6. ASSUME NEW d \in Deciders, DecideDraft(d) PROVE RowInv'
  BY <1>6 DEF DecideDraft
<1>7. ASSUME NEW d \in Deciders, DecideRecord(d) PROVE RowInv'
  BY <1>7 DEF DecideRecord
<1>8. ASSUME NEW d \in Deciders, DecideThrows(d) PROVE RowInv'
  BY <1>8 DEF DecideThrows
<1>9. ASSUME NEW e \in Executors, NEW a \in Ids, BeginExecution(e, a) PROVE RowInv'
  BY <1>9 DEF BeginExecution, Claimable
<1>10. ASSUME NEW e \in Executors, Run(e) PROVE RowInv'
  BY <1>10 DEF Run, Goto
<1>11. ASSUME NEW e \in Executors, CompleteExecution(e) PROVE RowInv'
  BY <1>11 DEF CompleteExecution, Goto
<1>12. ASSUME NEW e \in Executors, EgressRecord(e) PROVE RowInv'
  BY <1>12 DEF EgressRecord, Leave
<1>13. ASSUME NEW e \in Executors, FailExecution(e) PROVE RowInv'
  BY <1>13 DEF FailExecution, Goto, Leave
<1>14. ASSUME NEW e \in Executors, EgressRecordFailure(e) PROVE RowInv'
  BY <1>14 DEF EgressRecordFailure, Leave
<1>15. ASSUME NEW e \in Executors, TryThrows(e) PROVE RowInv'
  BY <1>15 DEF TryThrows, Goto
<1>16. ASSUME NEW e \in Executors, CatchThrows(e) PROVE RowInv'
  BY <1>16 DEF CatchThrows, Leave
<1>17. CASE Crash
  BY <1>17 DEF Crash
<1>18. CASE UNCHANGED vars
  BY SMTT(60), <1>18 DEF vars
<1> QED
  BY <1>1, <1>2, <1>3, <1>4, <1>5, <1>6, <1>7, <1>8, <1>9, <1>10, <1>11, <1>12,
     <1>13, <1>14, <1>15, <1>16, <1>17, <1>18
  DEF Next, DeciderStep, ExecutorStep, ExecutorAdvances

(* Each step keeps every claim with one executor. *)
LEMMA NextExecutorInv == GateInv /\ [Next]_vars => ExecutorInv'
<1> SUFFICES ASSUME GateInv, [Next]_vars PROVE ExecutorInv'
  OBVIOUS
<1> USE DEF GateInv, TypeOK, ExecutorInv, RowInv, DeciderInv
<1>1. ASSUME NEW a \in Ids, Propose(a) PROVE ExecutorInv'
  BY <1>1 DEF Propose, RecordOrFault, Record, Fault
<1>2. ASSUME NEW a \in Ids, Expire(a) PROVE ExecutorInv'
  BY <1>2 DEF Expire, RecordOrFault, Record, Fault
<1>3. ASSUME NEW a \in Ids, ReachExpiry(a) PROVE ExecutorInv'
  BY <1>3 DEF ReachExpiry
<1>4. ASSUME NEW d \in Deciders, NEW a \in Ids, NEW c \in Decisions, DecideRead(d, a, c) PROVE ExecutorInv'
  BY <1>4 DEF DecideRead, Decidable
<1>5. ASSUME NEW d \in Deciders, DecideUpdate(d) PROVE ExecutorInv'
  BY <1>5 DEF DecideUpdate, DecideWins, ConsumesDraft
<1>6. ASSUME NEW d \in Deciders, DecideDraft(d) PROVE ExecutorInv'
  BY <1>6 DEF DecideDraft
<1>7. ASSUME NEW d \in Deciders, DecideRecord(d) PROVE ExecutorInv'
  BY <1>7 DEF DecideRecord
<1>8. ASSUME NEW d \in Deciders, DecideThrows(d) PROVE ExecutorInv'
  BY <1>8 DEF DecideThrows
<1>9. ASSUME NEW e \in Executors, NEW a \in Ids, BeginExecution(e, a) PROVE ExecutorInv'
  <2>1. state[a] = "decided" /\ sent[a] = 0
    <3>1. state[a] = "decided"
      BY <1>9 DEF BeginExecution, Claimable
    <3>2. sent[a] \in {0, 1} /\ (sent[a] = 1 => state[a] \in Claimed)
      OBVIOUS
    <3> QED
      BY <3>1, <3>2
  <2>2. \A f \in Executors : executor[f].pc # "idle" => executor[f].id # a
    BY <2>1
  <2>3. CASE UNCHANGED executor
    BY <1>9, <2>2, <2>3 DEF BeginExecution
  <2>4. CASE executor' = [executor EXCEPT ![e] = [pc |-> "run", id |-> a]]
    <3>1. state'[a] = "executing" /\ \A b \in Ids : b # a => state'[b] = state[b]
      BY <1>9 DEF BeginExecution
    <3>2. executor'[e] = [pc |-> "run", id |-> a]
      BY <2>4
    <3>3. \A f \in Executors : f # e => executor'[f] = executor[f]
      BY <2>4
    <3>4. sent' = sent
      BY <1>9 DEF BeginExecution
    <3> QED
      BY <2>1, <2>2, <3>1, <3>2, <3>3, <3>4
  <2> QED
    BY <1>9, <2>3, <2>4 DEF BeginExecution
<1>10. ASSUME NEW e \in Executors, Run(e) PROVE ExecutorInv'
  BY <1>10 DEF Run, Goto
<1>11. ASSUME NEW e \in Executors, CompleteExecution(e) PROVE ExecutorInv'
  BY <1>11 DEF CompleteExecution, Goto
<1>12. ASSUME NEW e \in Executors, EgressRecord(e) PROVE ExecutorInv'
  BY <1>12 DEF EgressRecord, Leave
<1>13. ASSUME NEW e \in Executors, FailExecution(e) PROVE ExecutorInv'
  BY <1>13 DEF FailExecution, Goto, Leave
<1>14. ASSUME NEW e \in Executors, EgressRecordFailure(e) PROVE ExecutorInv'
  BY <1>14 DEF EgressRecordFailure, Leave
<1>15. ASSUME NEW e \in Executors, TryThrows(e) PROVE ExecutorInv'
  BY <1>15 DEF TryThrows, Goto
<1>16. ASSUME NEW e \in Executors, CatchThrows(e) PROVE ExecutorInv'
  BY <1>16 DEF CatchThrows, Leave
<1>17. CASE Crash
  BY <1>17 DEF Crash
<1>18. CASE UNCHANGED vars
  BY SMTT(60), <1>18 DEF vars
<1> QED
  BY <1>1, <1>2, <1>3, <1>4, <1>5, <1>6, <1>7, <1>8, <1>9, <1>10, <1>11, <1>12,
     <1>13, <1>14, <1>15, <1>16, <1>17, <1>18
  DEF Next, DeciderStep, ExecutorStep, ExecutorAdvances

(* Each step keeps a winning decide() in agreement with its row. *)
LEMMA NextDeciderInv == GateInv /\ [Next]_vars => DeciderInv'
<1> SUFFICES ASSUME GateInv, [Next]_vars PROVE DeciderInv'
  OBVIOUS
<1> USE DEF GateInv, TypeOK, DeciderInv, RowInv, ExecutorInv
<1>1. ASSUME NEW a \in Ids, Propose(a) PROVE DeciderInv'
  BY <1>1 DEF Propose, RecordOrFault, Record, Fault
<1>2. ASSUME NEW a \in Ids, Expire(a) PROVE DeciderInv'
  BY <1>2 DEF Expire, RecordOrFault, Record, Fault
<1>3. ASSUME NEW a \in Ids, ReachExpiry(a) PROVE DeciderInv'
  BY <1>3 DEF ReachExpiry
<1>4. ASSUME NEW d \in Deciders, NEW a \in Ids, NEW c \in Decisions, DecideRead(d, a, c) PROVE DeciderInv'
  BY <1>4 DEF DecideRead, Decidable
<1>5. ASSUME NEW d \in Deciders, DecideUpdate(d) PROVE DeciderInv'
  BY <1>5 DEF DecideUpdate, DecideWins, ConsumesDraft
<1>6. ASSUME NEW d \in Deciders, DecideDraft(d) PROVE DeciderInv'
  BY <1>6 DEF DecideDraft
<1>7. ASSUME NEW d \in Deciders, DecideRecord(d) PROVE DeciderInv'
  BY <1>7 DEF DecideRecord
<1>8. ASSUME NEW d \in Deciders, DecideThrows(d) PROVE DeciderInv'
  BY <1>8 DEF DecideThrows
<1>9. ASSUME NEW e \in Executors, NEW a \in Ids, BeginExecution(e, a) PROVE DeciderInv'
  BY <1>9 DEF BeginExecution, Claimable
<1>10. ASSUME NEW e \in Executors, Run(e) PROVE DeciderInv'
  BY <1>10 DEF Run, Goto
<1>11. ASSUME NEW e \in Executors, CompleteExecution(e) PROVE DeciderInv'
  BY <1>11 DEF CompleteExecution, Goto
<1>12. ASSUME NEW e \in Executors, EgressRecord(e) PROVE DeciderInv'
  BY <1>12 DEF EgressRecord, Leave
<1>13. ASSUME NEW e \in Executors, FailExecution(e) PROVE DeciderInv'
  BY <1>13 DEF FailExecution, Goto, Leave
<1>14. ASSUME NEW e \in Executors, EgressRecordFailure(e) PROVE DeciderInv'
  BY <1>14 DEF EgressRecordFailure, Leave
<1>15. ASSUME NEW e \in Executors, TryThrows(e) PROVE DeciderInv'
  BY <1>15 DEF TryThrows, Goto
<1>16. ASSUME NEW e \in Executors, CatchThrows(e) PROVE DeciderInv'
  BY <1>16 DEF CatchThrows, Leave
<1>17. CASE Crash
  BY <1>17 DEF Crash
<1>18. CASE UNCHANGED vars
  BY <1>18 DEF vars
<1> QED
  BY <1>1, <1>2, <1>3, <1>4, <1>5, <1>6, <1>7, <1>8, <1>9, <1>10, <1>11, <1>12,
     <1>13, <1>14, <1>15, <1>16, <1>17, <1>18
  DEF Next, DeciderStep, ExecutorStep, ExecutorAdvances

(* The gate's inductive invariant: rows, handlers in flight and effects     *)
(* stay consistent through every step, failed statement and crash of       *)
(* approvals.ts and egress.ts.                                              *)
THEOREM GateInvariant == Spec => []GateInv
<1>1. GateInv /\ [Next]_vars => GateInv'
  BY NextTypeOK, NextRowInv, NextExecutorInv, NextDeciderInv DEF GateInv
<1> QED
  BY InitGateInv, <1>1, PTL DEF Spec

(* Every variable of the gate keeps its type. *)
THEOREM TypeCorrect == Spec => []TypeOK
<1>1. GateInv => TypeOK
  BY DEF GateInv
<1> QED
  BY GateInvariant, <1>1, PTL

(* runEgress acts at most once per approval, and only after an accept or    *)
(* an edit, for any number of callers.                                      *)
THEOREM SendsOnce == Spec => []SentOnceAndApproved
<1>1. ASSUME GateInv PROVE SentOnceAndApproved
  <2>1. ASSUME NEW a \in Ids
        PROVE  /\ sent[a] \in {0, 1}
               /\ sent[a] = 1 => decision[a] \in DoIt /\ state[a] \in Claimed
               /\ state[a] = "executed" => sent[a] = 1
    BY <1>1 DEF GateInv, RowInv
  <2>2. ASSUME NEW a \in Ids PROVE sent[a] <= 1
    BY <2>1
  <2> QED
    BY <2>1, <2>2 DEF SentOnceAndApproved
<1> QED
  BY GateInvariant, <1>1, PTL

-----------------------------------------------------------------------------
(* Only decide()'s UPDATE and expire()'s write a decision, and both find    *)
(* the row pending, so without one.                                         *)
LEMMA DecisionStep ==
  ASSUME GateInv, [Next]_vars
  PROVE  \A a \in Ids : decision[a] # None => decision'[a] = decision[a]
<1> USE DEF GateInv, TypeOK, RowInv
<1>1. ASSUME NEW a \in Ids, Expire(a)
      PROVE  \A b \in Ids : decision[b] # None => decision'[b] = decision[b]
  BY <1>1 DEF Expire
<1>2. ASSUME NEW d \in Deciders, DecideUpdate(d)
      PROVE  \A b \in Ids : decision[b] # None => decision'[b] = decision[b]
  BY <1>2 DEF DecideUpdate, DecideWins
<1>3. CASE \/ \E a \in Ids : Propose(a) \/ ReachExpiry(a)
           \/ \E d \in Deciders, a \in Ids, c \in Decisions : DecideRead(d, a, c)
           \/ \E d \in Deciders : DecideDraft(d) \/ DecideRecord(d) \/ DecideThrows(d)
           \/ \E e \in Executors : ExecutorStep(e)
           \/ Crash
           \/ UNCHANGED vars
  <2>1. decision' = decision
    BY <1>3 DEF Propose, ReachExpiry, DecideRead, DecideDraft, DecideRecord, DecideThrows,
       ExecutorStep, ExecutorAdvances, BeginExecution, Run, CompleteExecution, EgressRecord,
       FailExecution, EgressRecordFailure, TryThrows, CatchThrows, Crash, vars
  <2> QED
    BY SMTT(60), <2>1
<1> QED
  BY <1>1, <1>2, <1>3 DEF Next, DeciderStep

(* Of any number of decide() and expire() calls on one row, one writes. *)
THEOREM DecisionsAreFinal == Spec => DecisionIsFinal
<1>1. GateInv /\ [Next]_vars
        => [\A a \in Ids : decision[a] # None => decision'[a] = decision[a]]_vars
  BY DecisionStep
<1> QED
  BY GateInvariant, <1>1, PTL DEF Spec, DecisionIsFinal

-----------------------------------------------------------------------------
(* Drafts.  What a draft's status says of the decisions is kept by decide()'s *)
(* write to items because the decision it follows stands in the row.          *)
DraftInv == GateInv /\ DraftFollowsDecision

(* A row's decision, and for an ignore its state, never leave what they are. *)
LEMMA DecidedRowStays ==
  ASSUME GateInv, [Next]_vars
  PROVE  /\ \A a \in Ids : decision[a] \in DoIt => decision'[a] = decision[a]
         /\ \A a \in Ids : decision[a] = "ignore" /\ state[a] = "decided"
              => decision'[a] = "ignore" /\ state'[a] = "decided"
<1>1. \A a \in Ids : decision[a] # None => decision'[a] = decision[a]
  BY DecisionStep
<1>2. ASSUME NEW a \in Ids, decision[a] = "ignore", state[a] = "decided"
      PROVE  state'[a] = "decided"
  <2> USE DEF GateInv, TypeOK, RowInv, ExecutorInv
  <2>1. ASSUME NEW b \in Ids, Propose(b) \/ Expire(b) \/ ReachExpiry(b)
        PROVE  state'[a] = "decided"
    BY <1>2, <2>1 DEF Propose, Expire, ReachExpiry
  <2>2. ASSUME NEW d \in Deciders, DeciderStep(d) PROVE state'[a] = "decided"
    BY <1>2, <2>2 DEF DeciderStep, DecideRead, DecideUpdate, DecideWins, DecideDraft,
       DecideRecord, DecideThrows
  <2>3. ASSUME NEW e \in Executors, NEW b \in Ids, BeginExecution(e, b)
        PROVE  state'[a] = "decided"
    BY <1>2, <2>3 DEF BeginExecution, Claimable
  <2>4. ASSUME NEW e \in Executors, ExecutorAdvances(e) \/ TryThrows(e) \/ CatchThrows(e)
        PROVE  state'[a] = "decided"
    BY <1>2, <2>4 DEF ExecutorAdvances, Run, CompleteExecution, EgressRecord, FailExecution,
       EgressRecordFailure, TryThrows, CatchThrows
  <2>5. CASE Crash \/ UNCHANGED vars
    BY <1>2, <2>5 DEF Crash, vars
  <2> QED
    BY <2>1, <2>2, <2>3, <2>4, <2>5 DEF Next, ExecutorStep
<1> QED
  BY <1>1, <1>2

(* Only decide() touches a draft. *)
LEMMA DraftStep ==
  ASSUME GateInv, [Next]_vars
  PROVE  draft' = draft \/ \E d \in Deciders : DecideDraft(d)
  BY DEF Next, DeciderStep, ExecutorStep, ExecutorAdvances, Propose, Expire, ReachExpiry,
     DecideRead, DecideUpdate, DecideRecord, DecideThrows, BeginExecution, Run,
     CompleteExecution, EgressRecord, FailExecution, EgressRecordFailure, TryThrows,
     CatchThrows, Crash, vars

LEMMA NextDraftFollows == DraftInv /\ [Next]_vars => DraftFollowsDecision'
<1> SUFFICES ASSUME GateInv, DraftFollowsDecision, [Next]_vars, NEW i \in Items
             PROVE /\ draft'[i] = "approved" =>
                        \E a \in Ids : ItemOf[a] = i /\ decision'[a] \in DoIt
                   /\ draft'[i] = "archived" =>
                        \E a \in Ids : /\ ItemOf[a] = i
                                       /\ decision'[a] = "ignore" /\ state'[a] = "decided"
  BY DEF DraftInv, DraftFollowsDecision
<1>1. CASE draft'[i] = draft[i]
  BY <1>1, DecidedRowStays DEF DraftFollowsDecision
<1>2. ASSUME NEW d \in Deciders, DecideDraft(d), draft'[i] # draft[i]
      PROVE  LET a == decider[d].id
             IN  /\ a \in Ids /\ ItemOf[a] = i
                 /\ decision'[a] = decision[a] /\ state'[a] = state[a]
                 /\ draft'[i] = "approved" => decision[a] \in DoIt
                 /\ draft'[i] = "archived" => decision[a] = "ignore" /\ state[a] = "decided"
  <2> USE DEF GateInv, TypeOK, RowInv, DeciderInv
  <2>1. decider[d].pc = "draft" /\ decider[d].id \in Ids /\ decider[d].choice \in Decisions
    BY <1>2 DEF DecideDraft
  <2>2. /\ decision[decider[d].id] = decider[d].choice
        /\ decider[d].choice # "respond"
        /\ state[decider[d].id] \in Claimed \cup {"decided"}
    BY <2>1
  <2>3. ItemOf[decider[d].id] = i /\ draft'[i] = DraftAfter(decider[d].choice)
    BY <1>2 DEF DecideDraft
  <2>4. decision' = decision /\ state' = state
    BY <1>2 DEF DecideDraft
  <2>5. decider[d].choice = "ignore" => state[decider[d].id] = "decided"
    BY <2>1, <2>2
  <2> QED
    BY <2>1, <2>2, <2>3, <2>4, <2>5 DEF DraftAfter
<1> QED
  BY <1>1, <1>2, DraftStep

(* A draft is approved or archived only as its approval was decided. *)
THEOREM DraftsFollowDecisions == Spec => []DraftFollowsDecision
<1>1. Init => DraftInv
  BY InitGateInv DEF Init, DraftInv, DraftFollowsDecision
<1>2. DraftInv /\ [Next]_vars => DraftInv'
  BY NextTypeOK, NextRowInv, NextExecutorInv, NextDeciderInv, NextDraftFollows
  DEF DraftInv, GateInv
<1>3. DraftInv => DraftFollowsDecision
  BY DEF DraftInv
<1> QED
  BY <1>1, <1>2, <1>3, PTL DEF Spec

-----------------------------------------------------------------------------
(* The gate implements OneShotPermit.                                       *)

(* An approval whose row does not change keeps its permit. *)
LEMMA PermitKept ==
  ASSUME NEW a \in Ids, state'[a] = state[a], decision'[a] = decision[a]
  PROVE  PermitOf'[a] = PermitOf[a]
  BY DEF PermitOf

(* If one row changes, its permit alone moves. *)
LEMMA PermitMoves ==
  ASSUME NEW a \in Ids,
         \A b \in Ids \ {a} : state'[b] = state[b] /\ decision'[b] = decision[b]
  PROVE  PermitOf' = [PermitOf EXCEPT ![a] = PermitOf'[a]]
<1>1. \A b \in Ids \ {a} : PermitOf'[b] = PermitOf[b]
  BY PermitKept
<1>2. PermitOf = [b \in Ids |-> PermitOf[b]] /\ PermitOf' = [b \in Ids |-> PermitOf'[b]]
  BY DEF PermitOf
<1> QED
  BY <1>1, <1>2

LEMMA PermitUnchanged ==
  ASSUME UNCHANGED rows PROVE UNCHANGED PermitOf
  BY DEF PermitOf

LEMMA InitPermit == Init => Permit!Init
  BY DEF Init, Permit!Init, PermitOf

LEMMA PermitStep ==
  ASSUME GateInv, [Next]_vars PROVE [Permit!Next]_(Permit!vars)
<1> USE DEF GateInv, TypeOK, RowInv, ExecutorInv, Permit!vars
<1>1. ASSUME NEW a \in Ids, Propose(a) PROVE Permit!Ask(a)
  <2>1. PermitOf[a] = "absent" /\ PermitOf'[a] = "asked"
    BY <1>1 DEF Propose, PermitOf
  <2>2. PermitOf' = [PermitOf EXCEPT ![a] = PermitOf'[a]] /\ UNCHANGED sent
    BY <1>1, PermitMoves DEF Propose
  <2> QED
    BY <2>1, <2>2 DEF Permit!Ask, Permit!Move
<1>2. ASSUME NEW a \in Ids, Expire(a) PROVE Permit!Refuse(a)
  <2>1. PermitOf[a] = "asked" /\ PermitOf'[a] = "refused"
    BY <1>2 DEF Expire, PermitOf
  <2>2. PermitOf' = [PermitOf EXCEPT ![a] = PermitOf'[a]] /\ UNCHANGED sent
    BY <1>2, PermitMoves DEF Expire
  <2> QED
    BY <2>1, <2>2 DEF Permit!Refuse, Permit!Move
<1>3. ASSUME NEW d \in Deciders, DecideUpdate(d), UNCHANGED rows
      PROVE  UNCHANGED <<PermitOf, sent>>
  BY <1>3, PermitUnchanged DEF DecideUpdate
<1>4. ASSUME NEW d \in Deciders, DecideUpdate(d), ~UNCHANGED rows
      PROVE  Permit!Grant(decider[d].id) \/ Permit!Refuse(decider[d].id)
  <2> DEFINE a == decider[d].id
             c == decider[d].choice
  <2>1. a \in Ids /\ c \in Decisions /\ state[a] = "pending"
    BY <1>4 DEF DecideUpdate, DecideWins
  <2>2. /\ state' = [state EXCEPT ![a] = "decided"]
        /\ decision' = [decision EXCEPT ![a] = c]
        /\ UNCHANGED sent
    BY <1>4 DEF DecideUpdate
  <2>3. PermitOf[a] = "asked"
    BY <2>1 DEF PermitOf
  <2>4. PermitOf'[a] = IF c \in DoIt THEN "granted" ELSE "refused"
    BY <2>1, <2>2 DEF PermitOf
  <2>5. PermitOf' = [PermitOf EXCEPT ![a] = PermitOf'[a]]
    <3>1. \A b \in Ids \ {a} : state'[b] = state[b] /\ decision'[b] = decision[b]
      BY <2>1, <2>2
    <3> HIDE DEF a
    <3> QED
      BY <2>1, <3>1, PermitMoves
  <2> QED
    BY <2>2, <2>3, <2>4, <2>5 DEF Permit!Grant, Permit!Refuse, Permit!Move
<1>5. ASSUME NEW e \in Executors, NEW a \in Ids, BeginExecution(e, a) PROVE Permit!Use(a)
  <2>1. PermitOf[a] = "granted" /\ PermitOf'[a] = "used"
    BY <1>5 DEF BeginExecution, Claimable, PermitOf
  <2>2. PermitOf' = [PermitOf EXCEPT ![a] = PermitOf'[a]] /\ UNCHANGED sent
    BY <1>5, PermitMoves DEF BeginExecution
  <2> QED
    BY <2>1, <2>2 DEF Permit!Use, Permit!Move
<1>6. ASSUME NEW e \in Executors, Run(e), UNCHANGED sent PROVE UNCHANGED <<PermitOf, sent>>
  BY <1>6, PermitUnchanged DEF Run
<1>7. ASSUME NEW e \in Executors, Run(e), ~UNCHANGED sent PROVE Permit!Act(executor[e].id)
  <2> DEFINE a == executor[e].id
  <2>1. a \in Ids /\ state[a] = "executing" /\ sent[a] = 0
    BY <1>7 DEF Run
  <2>2. sent' = [sent EXCEPT ![a] = @ + 1]
    BY <1>7 DEF Run
  <2>3. sent' = [sent EXCEPT ![a] = 1]
    BY <2>1, <2>2
  <2>4. UNCHANGED PermitOf
    BY <1>7, PermitUnchanged DEF Run
  <2>5. PermitOf[a] = "used"
    BY SMTT(60), <2>1 DEF PermitOf
  <2> QED
    BY <2>1, <2>3, <2>4, <2>5 DEF Permit!Act
(* A step that moves a row within the claimed states is a stutter. *)
<1>8. ASSUME NEW e \in Executors,
             CompleteExecution(e) \/ FailExecution(e) \/ TryThrows(e)
      PROVE  UNCHANGED <<PermitOf, sent>>
  <2> DEFINE a == executor[e].id
  <2>1. a \in Ids /\ state[a] \in Claimed /\ UNCHANGED <<decision, sent>>
    BY <1>8 DEF CompleteExecution, FailExecution, TryThrows
  <2>2. state'[a] \in Claimed /\ \A b \in Ids \ {a} : state'[b] = state[b]
    BY <1>8, <2>1 DEF CompleteExecution, FailExecution, TryThrows
  <2>3. PermitOf[a] = "used" /\ PermitOf'[a] = "used"
    BY <2>1, <2>2 DEF PermitOf
  <2>4. PermitOf' = [PermitOf EXCEPT ![a] = PermitOf'[a]]
    <3> HIDE DEF a
    <3> QED
      BY <2>1, <2>2, PermitMoves
  <2> QED
    BY <2>1, <2>3, <2>4 DEF PermitOf
<1>9. CASE \/ \E a \in Ids : ReachExpiry(a)
           \/ \E d \in Deciders, a \in Ids, c \in Decisions : DecideRead(d, a, c)
           \/ \E d \in Deciders : DecideDraft(d) \/ DecideRecord(d) \/ DecideThrows(d)
           \/ \E e \in Executors :
                EgressRecord(e) \/ EgressRecordFailure(e) \/ CatchThrows(e)
           \/ Crash
           \/ UNCHANGED vars
  <2>1. UNCHANGED <<state, decision, sent>>
    BY <1>9 DEF ReachExpiry, DecideRead, DecideDraft, DecideRecord, DecideThrows,
       EgressRecord, EgressRecordFailure, CatchThrows, Crash, vars
  <2> QED
    BY <2>1, PermitUnchanged
<1>10. \A d \in Deciders : decider[d].pc = "update" => decider[d].id \in Ids
  OBVIOUS
<1>11. \A e \in Executors : executor[e].pc = "run" => executor[e].id \in Ids
  OBVIOUS
<1>12. CASE \E d \in Deciders : DecideUpdate(d)
  BY <1>3, <1>4, <1>10, <1>12 DEF Permit!Next, DecideUpdate
<1>13. CASE \E e \in Executors : Run(e)
  BY <1>6, <1>7, <1>11, <1>13 DEF Permit!Next, Run
<1> QED
  BY <1>1, <1>2, <1>5, <1>8, <1>9, <1>12, <1>13
  DEF Next, DeciderStep, ExecutorStep, ExecutorAdvances, Permit!Next

(* approvals.ts and egress.ts keep the promise of the one-shot permit. *)
THEOREM GateImplementsPermit == Spec => GateIsOneShot
<1>1. GateInv /\ [Next]_vars => [Permit!Next]_(Permit!vars)
  BY PermitStep
<1> QED
  BY InitPermit, GateInvariant, <1>1, PTL DEF Spec, GateIsOneShot, Permit!Spec

=============================================================================
