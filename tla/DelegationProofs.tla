-------------------------- MODULE DelegationProofs --------------------------
(***************************************************************************)
(* Theorems about a delegation, for any number of approvals, executor      *)
(* calls in flight and faults.                                             *)
(*                                                                         *)
(* The claim of the row makes one executor call its owner: the row is      *)
(* executing while the owner asks the host, and no other call and no       *)
(* running session is about it (Calls, Alone).  So the request is sent     *)
(* once, a run starts from it once (Asked), and what a run says of itself  *)
(* stays true of it on its way through socket, outbox and hub (Vouched).   *)
(***************************************************************************)
EXTENDS Delegation, SequenceTheorems, WellFoundedInduction, TLAPS

Stages == {"switch", "waiting", "fail", "fail_limited"}
Claims(h) == handler[h].pc \in Stages

Unclaimed == {"absent", "pending", "ignored"} \cup DoIt

\* Nobody asked for a run, and there was none.
Unbegun(a) == a \notin requests /\ run[a] = "none" /\ starts[a] = 0

\* The call that claimed a row owns it.
Owns(h) ==
  /\ row[handler[h].id] = "executing"
  /\ handler[h].id \notin running
  /\ At(h, "switch") => Unbegun(handler[h].id)

Calls == \A h \in Handlers : Claims(h) => Owns(h)

Alone ==
  \A h, g \in Handlers : Claims(h) /\ Claims(g) /\ handler[g].id = handler[h].id => g = h

Waits == \A a \in Ids : row[a] \in Unclaimed => Unbegun(a)

Asked == \A a \in requests : run[a] = "none" /\ starts[a] = 0

\* What the hub holds of a delegation that was started or has ended.
Held ==
  /\ \A a \in running : row[a] = "executing"
  /\ \A r \in reports : row[r.id] = Settled(r.ok)
  /\ \A a \in Ids : told[a] = "done" => row[a] = "executed"
  /\ \A a \in Ids : told[a] = "failed" => row[a] = "failed"

\* The runs that ended well.
Proven == {a \in Ids : verified[a] /\ run[a] = "over"}

SaysDone(m) == m.kind = "completed" /\ m.ok

Vouches(s, P) == \A i \in 1 .. Len(s) : SaysDone(s[i]) => s[i].id \in P

Vouched ==
  /\ Vouches(up, Proven) /\ Vouches(outbox, Proven)
  /\ \A r \in ended : r.ok => r.id \in Proven
  /\ \A a \in Ids : row[a] = "executed" => a \in Proven

\* A call that is to propose the re-approval has one to propose.
Refiles == \A h \in Handlers : At(h, "propose") => FallbackOf[handler[h].id] \in Ids

Typed == TypeOK /\ Refiles

RunInv == Typed /\ Calls /\ Alone /\ Waits /\ Asked /\ Held /\ Vouched

HandlerState ==
  {Idle, [Idle EXCEPT !.pc = "list"]} \cup [pc : Steps, id : Ids, todo : SUBSET Ids]

USE ConstantsAssumption

-----------------------------------------------------------------------------
(* The executor's calls.                                                   *)

LEMMA HasLeast ==
  ASSUME NEW T \in SUBSET Ids, T # {} PROVE \E a \in T : \A b \in T : a <= b
<1>1. IsWellFoundedOn(OpToRel(<, Nat), Nat)
  BY NatLessThanWellFounded
<1>2. PICK a \in T : \A b \in T : ~(<<b, a>> \in OpToRel(<, Nat))
  BY <1>1, WFMin
<1>3. \A b \in T : ~(b < a)
  BY <1>2 DEF OpToRel
<1> QED
  BY <1>3

\* execute() returns to redrive()'s next row, or to nothing.
LEMMA NextOfType ==
  ASSUME NEW todo \in SUBSET Ids
  PROVE  NextOf(todo) \in HandlerState /\ NextOf(todo).pc \in {"idle", "load"}
<1>1. CASE todo = {}
  BY <1>1 DEF NextOf, Idle, HandlerState
<1>2. CASE todo # {}
  <2> DEFINE a == CHOOSE a \in todo : \A b \in todo : a <= b
  <2>1. a \in todo
    BY <1>2, HasLeast
  <2>2. NextOf(todo) = Load(a, todo \ {a})
    BY <1>2 DEF NextOf
  <2> QED
    BY <2>1, <2>2 DEF Load, HandlerState, Steps
<1> QED
  BY <1>1, <1>2

HandlersOK == handler \in [Handlers -> HandlerState] /\ Refiles

\* A call in one of execute()'s steps is about an approval.
LEMMA CallType ==
  ASSUME HandlersOK, NEW h \in Handlers, handler[h].pc \notin {"idle", "list"}
  PROVE  handler[h] \in [pc : Steps, id : Ids, todo : SUBSET Ids]
  BY DEF HandlersOK, HandlerState, Idle

\* A call goes on with the approval it has ...
LEMMA GotoMoves ==
  ASSUME HandlersOK, NEW h \in Handlers, handler[h].pc \notin {"idle", "list"},
         NEW pc \in Steps, pc = "propose" => FallbackOf[handler[h].id] \in Ids, Goto(h, pc)
  PROVE  /\ HandlersOK' /\ handler'[h].pc = pc /\ handler'[h].id = handler[h].id
         /\ \A g \in Handlers \ {h} : handler'[g] = handler[g]
<1>1. [handler[h] EXCEPT !.pc = pc] \in [pc : Steps, id : Ids, todo : SUBSET Ids]
  BY CallType
<1>2. handler' = [handler EXCEPT ![h] = [handler[h] EXCEPT !.pc = pc]]
  BY DEF Goto, HandlersOK
<1>3. handler' \in [Handlers -> HandlerState]
  BY <1>1, <1>2 DEF HandlersOK, HandlerState
<1>4. /\ handler'[h].pc = pc /\ handler'[h].id = handler[h].id
      /\ \A g \in Handlers \ {h} : handler'[g] = handler[g]
  BY <1>1, <1>2, CallType DEF HandlersOK, HandlerState, Idle, Steps
<1>5. Refiles'
  BY <1>4 DEF HandlersOK, Refiles, At
<1> QED
  BY <1>3, <1>4, <1>5 DEF HandlersOK

\* ... or ends, and the next row is loaded.
LEMMA ReturnMoves ==
  ASSUME HandlersOK, NEW h \in Handlers, handler[h].pc \notin {"idle", "list"}, Return(h)
  PROVE  /\ HandlersOK' /\ handler'[h].pc \in {"idle", "load"}
         /\ \A g \in Handlers \ {h} : handler'[g] = handler[g]
<1>1. handler[h].todo \in SUBSET Ids
  BY CallType
<1>2. handler' = [handler EXCEPT ![h] = NextOf(handler[h].todo)]
  BY DEF Return
<1>3. /\ handler' \in [Handlers -> HandlerState] /\ handler'[h].pc \in {"idle", "load"}
      /\ \A g \in Handlers \ {h} : handler'[g] = handler[g]
  BY <1>1, <1>2, NextOfType DEF HandlersOK, HandlerState, Idle, Steps
<1>4. Refiles'
  BY <1>3 DEF HandlersOK, Refiles, At
<1> QED
  BY <1>3, <1>4 DEF HandlersOK

-----------------------------------------------------------------------------
(* Types.                                                                  *)

RowsOK == row \in [Ids -> RowStates] /\ decidedBy \in [Ids -> {None, "human", "rule"}]

HubOK ==
  /\ RowsOK /\ notices \subseteq Notices /\ HandlersOK
  /\ running \subseteq Ids
  /\ ended \subseteq Results /\ reports \subseteq Results
  /\ told \in [Ids -> {None, "done", "failed"}]

AgentOK ==
  /\ online \in BOOLEAN /\ requests \subseteq Ids
  /\ up \in Seq(Messages) /\ outbox \in Seq(Messages)
  /\ run \in [Ids -> {"none", "running", "verifying", "over", "lost"}]
  /\ answering \subseteq Ids
  /\ verified \in [Ids -> BOOLEAN] /\ starts \in [Ids -> Nat]

LEMMA Types == Typed <=> HubOK /\ AgentOK /\ faults \in 0 .. MaxFaults
  BY DEF Typed, TypeOK, HubOK, AgentOK, RowsOK, HandlersOK, HandlerState

LEMMA SetRowType ==
  ASSUME RowsOK, NEW a \in Ids, NEW s \in RowStates, SetRow(a, s)
  PROVE  /\ row' \in [Ids -> RowStates] /\ row'[a] = s
         /\ \A b \in Ids \ {a} : row'[b] = row[b]
  BY DEF RowsOK, SetRow

LEMMA DecideType ==
  ASSUME RowsOK, NEW a \in Ids, NEW s \in RowStates, NEW who \in {"human", "rule"},
         DecideRow(a, s, who)
  PROVE  RowsOK'
  BY SetRowType DEF RowsOK, DecideRow

LEMMA MessageTypes ==
  ASSUME NEW a \in Ids
  PROVE  /\ \A ok \in BOOLEAN : Completed(a, ok) \in Messages
         /\ \A kind \in {"answer", "refused", "limited"} : [kind |-> kind, id |-> a] \in Messages
  BY DEF Completed, Messages

LEMMA HeadType ==
  ASSUME AgentOK, up # <<>>
  PROVE  /\ Head(up) \in Messages /\ Head(up).id \in Ids /\ Tail(up) \in Seq(Messages)
         /\ Head(up).kind \in {"answer", "refused", "limited", "completed"}
         /\ Head(up).kind = "completed" => Head(up).ok \in BOOLEAN
<1>1. Head(up) \in Messages /\ Tail(up) \in Seq(Messages)
  BY HeadTailProperties DEF AgentOK
<1> QED
  BY <1>1 DEF Messages

\* The statements of the gate.
LEMMA GateTypes ==
  ASSUME HubOK, NEW a \in Ids, Propose(a) \/ Accept(a) \/ Ignore(a) \/ ApplyRules(a)
  PROVE  HubOK'
<1> USE DEF RowStates, DoIt
<1>1. \A s \in {"pending", "decided"} : [id |-> a, state |-> s] \in Notices
  BY DEF Notices
<1>2. ASSUME RowsOK', notices' \subseteq Notices, UNCHANGED hubVars PROVE HubOK'
  BY <1>2 DEF HubOK, hubVars, HandlersOK, Refiles, At
<1>3. CASE Propose(a)
  <2>1. RowsOK'
    BY <1>3, SetRowType DEF HubOK, Propose, ProposeRow, RowsOK
  <2> QED
    BY <1>1, <1>2, <1>3, <2>1 DEF HubOK, Propose, ProposeRow
<1>4. CASE Accept(a)
  <2>1. RowsOK'
    BY <1>4, DecideType DEF HubOK, Accept
  <2> QED
    BY <1>1, <1>2, <1>4, <2>1 DEF HubOK, Accept
<1>5. CASE Ignore(a)
  <2>1. RowsOK'
    BY <1>5, DecideType DEF HubOK, Ignore
  <2> QED
    BY <1>2, <1>5, <2>1 DEF HubOK, Ignore
<1>6. CASE ApplyRules(a)
  <2>1. RowsOK'
    BY <1>6, DecideType DEF HubOK, ApplyRules, RowsOK
  <2>2. notices' \subseteq Notices /\ UNCHANGED hubVars
    BY <1>1, <1>6 DEF HubOK, ApplyRules
  <2> QED
    BY <1>2, <2>1, <2>2
<1> QED
  BY <1>3, <1>4, <1>5, <1>6

LEMMA HandlerTypes ==
  ASSUME Typed, NEW h \in Handlers, HandlerStep(h)
  PROVE  HubOK' /\ requests' \subseteq Ids
<1>0. HubOK /\ HandlersOK /\ RowsOK /\ requests \subseteq Ids
  BY Types DEF HubOK, AgentOK
<1>1. ASSUME HandlersOK', RowsOK', notices' \subseteq Notices,
             UNCHANGED <<running, ended, reports, told>>
      PROVE  HubOK'
  BY <1>0, <1>1 DEF HubOK
<1>2. CASE Redrive(h)
  <2>1. Listed \in SUBSET Ids
    BY DEF Listed, Decided
  <2>2. NextOf(Listed) \in HandlerState /\ Idle \in HandlerState
    BY <2>1, NextOfType DEF HandlerState
  <2>3. HandlersOK'
    <3>1. /\ handler' \in [Handlers -> HandlerState] /\ handler'[h].pc \in {"idle", "load"}
          /\ \A g \in Handlers \ {h} : handler'[g] = handler[g]
      BY <1>0, <1>2, <2>1, <2>2, NextOfType DEF Redrive, HandlersOK, Idle
    <3> QED
      BY <1>0, <3>1 DEF HandlersOK, Refiles, At
  <2> QED
    BY <1>0, <1>1, <1>2, <2>3 DEF Redrive, rows, wire, HubOK, RowsOK
<1>3. CASE LoadDecided(h)
  <2>1. HandlersOK'
    BY <1>0, <1>3, GotoMoves, ReturnMoves DEF LoadDecided, At, Steps
  <2> QED
    BY <1>0, <1>1, <1>3, <2>1 DEF LoadDecided, rows, wire, HubOK, RowsOK
<1>4. CASE Claim(h)
  <2>1. HandlersOK' /\ handler[h].id \in Ids
    BY <1>0, <1>4, GotoMoves, ReturnMoves, CallType DEF Claim, At, Steps
  <2>2. RowsOK'
    BY <1>0, <1>4, <2>1, SetRowType DEF Claim, RowsOK, RowStates
  <2> QED
    BY <1>0, <1>1, <1>4, <2>1, <2>2 DEF Claim, wire, HubOK
<1>5. CASE Call(h) \/ CallTimeout(h)
  <2>1. HandlersOK' /\ handler[h].id \in Ids
    BY <1>0, <1>5, GotoMoves, CallType DEF Call, CallTimeout, At, Steps
  <2> QED
    BY <1>0, <1>1, <1>5, <2>1 DEF Call, CallTimeout, rows, wire, HubOK, RowsOK
<1>6. CASE Fail(h)
  <2>1. HandlersOK' /\ handler[h].id \in Ids
    BY <1>0, <1>6, GotoMoves, ReturnMoves, CallType DEF Fail, At, Steps
  <2>2. RowsOK'
    BY <1>0, <1>6, <2>1, SetRowType DEF Fail, RowsOK, RowStates
  <2> QED
    BY <1>0, <1>1, <1>6, <2>1, <2>2 DEF Fail, wire, HubOK
<1>7. CASE ProposeFallback(h)
  <2>1. HandlersOK' /\ handler[h].id \in Ids
    BY <1>0, <1>7, ReturnMoves, CallType DEF ProposeFallback, At
  <2>2. FallbackOf[handler[h].id] \in Ids
    BY <1>0, <1>7 DEF ProposeFallback, HandlersOK, Refiles
  <2>3. RowsOK' /\ [id |-> FallbackOf[handler[h].id], state |-> "pending"] \in Notices
    BY <1>0, <1>7, <2>2, SetRowType
       DEF ProposeFallback, ProposeRow, RowsOK, RowStates, Notices
  <2> QED
    BY <1>0, <1>1, <1>7, <2>1, <2>3 DEF ProposeFallback, ProposeRow, wire, HubOK
<1> QED
  BY <1>2, <1>3, <1>4, <1>5, <1>6, <1>7 DEF HandlerStep

\* A handler's step leaves the agent's own state, and what is on its way from it.
LEMMA HandlerLeavesAgent ==
  ASSUME NEW h \in Handlers, HandlerStep(h)
  PROVE  UNCHANGED <<online, up, outbox, run, answering, verified, starts, faults, told, ended>>
  BY DEF HandlerStep, Redrive, LoadDecided, Claim, Call, CallTimeout, Fail, ProposeFallback,
         wire, agent

LEMMA LoadType == ASSUME NEW a \in Ids PROVE Load(a, {}) \in HandlerState /\ Load(a, {}).pc = "load"
  BY DEF Load, HandlerState, Steps

\* One handler takes a state in which it proposes nothing.
LEMMA HandlerSet ==
  ASSUME HandlersOK, NEW h \in Handlers, NEW s \in HandlerState, s.pc # "propose",
         handler' = [handler EXCEPT ![h] = s]
  PROVE  /\ HandlersOK' /\ handler'[h] = s
         /\ \A g \in Handlers \ {h} : handler'[g] = handler[g]
  BY DEF HandlersOK, Refiles, At

LEMMA ConnectMoves ==
  ASSUME HandlersOK, NEW h \in Handlers, Connect(h)
  PROVE  /\ HandlersOK' /\ handler'[h].pc = "list"
         /\ \A g \in Handlers \ {h} : handler'[g] = handler[g]
<1>1. handler[h] = Idle
  BY DEF Connect, At, HandlersOK, HandlerState, Idle, Steps
<1> DEFINE s == [Idle EXCEPT !.pc = "list"]
<1>2. s \in HandlerState /\ s.pc = "list"
  BY DEF HandlerState, Idle
<1>3. handler' = [handler EXCEPT ![h] = s]
  BY <1>1 DEF Connect, Goto, HandlersOK
<1> HIDE DEF s
<1> QED
  BY <1>2, <1>3, HandlerSet

LEMMA ReceiveTypes ==
  ASSUME Typed, ReceiveAnswer \/ ReceiveCompleted
  PROVE  HubOK' /\ up' \in Seq(Messages)
<1>0. HubOK /\ AgentOK /\ HandlersOK
  BY Types DEF HubOK
<1>1. up # <<>> /\ up' = Tail(up)
  BY DEF ReceiveAnswer, ReceiveCompleted
<1>2. /\ Head(up).id \in Ids /\ Tail(up) \in Seq(Messages)
      /\ Head(up).kind \in {"answer", "refused", "limited", "completed"}
      /\ Head(up).kind = "completed" => Head(up).ok \in BOOLEAN
  BY <1>0, <1>1, HeadType
<1>3. CASE ReceiveAnswer
  <2>1. HandlersOK' /\ running' \subseteq Ids
    BY <1>0, <1>2, <1>3, GotoMoves, ReturnMoves
       DEF ReceiveAnswer, Waiting, At, Steps, HubOK, HandlersOK, Refiles
  <2> QED
    BY <1>0, <1>1, <1>2, <1>3, <2>1 DEF ReceiveAnswer, rows, HubOK, RowsOK
<1>4. CASE ReceiveCompleted
  <2>1. [id |-> Head(up).id, ok |-> Head(up).ok] \in Results
    BY <1>2, <1>4 DEF ReceiveCompleted, Results
  <2> QED
    BY <1>0, <1>1, <1>2, <1>4, <2>1
       DEF ReceiveCompleted, rows, HubOK, RowsOK, HandlersOK, Refiles, At
<1> QED
  BY <1>3, <1>4

LEMMA ResultTypes ==
  ASSUME HubOK, NEW r \in Results, OnTurnCompleted(r) \/ WriteResult(r)
  PROVE  HubOK'
<1>1. r.id \in Ids /\ r.ok \in BOOLEAN
  BY DEF Results
<1>2. Settled(r.ok) \in RowStates /\ ResultLine(r.ok) \in {"done", "failed"}
  BY DEF Settled, ResultLine, RowStates
<1>3. CASE OnTurnCompleted(r)
  <2>1. RowsOK'
    BY <1>1, <1>2, <1>3, SetRowType DEF OnTurnCompleted, HubOK, RowsOK
  <2> QED
    BY <1>3, <2>1 DEF OnTurnCompleted, HubOK, HandlersOK, Refiles, At
<1>4. CASE WriteResult(r)
  BY <1>1, <1>2, <1>4 DEF WriteResult, rows, HubOK, RowsOK, HandlersOK, Refiles, At
<1> QED
  BY <1>3, <1>4

\* What the agent sends waits on the wire or in the outbox.
LEMMA EmitTypes ==
  ASSUME AgentOK, NEW m \in Messages, Emit(m)
  PROVE  up' \in Seq(Messages) /\ outbox' \in Seq(Messages)
<1>1. up \in Seq(Messages) /\ outbox \in Seq(Messages)
  BY DEF AgentOK
<1>2. Append(up, m) \in Seq(Messages) /\ Append(outbox, m) \in Seq(Messages)
  BY <1>1, AppendProperties
<1> QED
  BY <1>1, <1>2 DEF Emit

LEMMA AgentLostTypes == AgentOK /\ AgentLost => AgentOK'
<1> SUFFICES ASSUME AgentOK, AgentLost PROVE AgentOK'
  OBVIOUS
<1>1. run' \in [Ids -> {"none", "running", "verifying", "over", "lost"}]
  BY DEF AgentOK, AgentLost
<1> QED
  BY <1>1, EmptySeq DEF AgentOK, AgentLost

LEMMA RunTypes ==
  ASSUME AgentOK, NEW a \in Ids, RunStep(a)
  PROVE  AgentOK' /\ UNCHANGED <<rows, hubVars, faults>>
<1>0. \A m \in Messages : Append(up, m) \in Seq(Messages)
  BY AppendProperties DEF AgentOK
<1>1. CASE StartRun(a)
  <2>1. up' \in Seq(Messages)
    BY <1>0, <1>1, MessageTypes DEF StartRun, AgentOK
  <2>2. /\ run' \in [Ids -> {"none", "running", "verifying", "over", "lost"}]
        /\ starts' \in [Ids -> Nat] /\ answering' \subseteq Ids
    <3>1. CASE UNCHANGED <<run, answering, starts>>
      BY <3>1 DEF AgentOK
    <3>2. CASE /\ run' = [run EXCEPT ![a] = "running"]
               /\ starts' = [starts EXCEPT ![a] = @ + 1]
               /\ answering' = answering \cup {a}
      BY <3>2 DEF AgentOK
    <3> QED
      BY <1>1, <3>1, <3>2 DEF StartRun
  <2> QED
    BY <1>1, <2>1, <2>2 DEF StartRun, AgentOK
<1>2. CASE AnswerStart(a)
  BY <1>2, MessageTypes, AppendProperties DEF AnswerStart, AgentOK
<1>3. CASE AnswerUnsent(a)
  BY <1>3, AgentLostTypes DEF AnswerUnsent
<1>4. CASE RuntimeFails(a) \/ TurnTimeout(a)
  <2>1. Completed(a, FALSE) \in Messages
    BY MessageTypes
  <2>2. up' \in Seq(Messages) /\ outbox' \in Seq(Messages)
    BY <1>4, <2>1, EmitTypes DEF RuntimeFails, TurnTimeout
  <2> QED
    <3>1. /\ run' = [run EXCEPT ![a] = "over"]
          /\ UNCHANGED <<rows, hubVars, online, requests, answering, verified, starts, faults>>
      BY <1>4 DEF RuntimeFails, TurnTimeout
    <3> QED
      BY <2>2, <3>1 DEF AgentOK
<1>5. CASE RuntimeSaysDone(a)
  BY <1>5 DEF RuntimeSaysDone, wire, AgentOK
<1>6. CASE Verify(a)
  <2>1. PICK exitZero \in BOOLEAN :
          /\ run' = [run EXCEPT ![a] = "over"]
          /\ verified' = [verified EXCEPT ![a] = exitZero]
          /\ Emit(Completed(a, exitZero))
          /\ UNCHANGED <<rows, hubVars, online, requests, answering, starts, faults>>
    BY <1>6 DEF Verify, Verdict
  <2>2. Completed(a, exitZero) \in Messages
    BY MessageTypes
  <2>3. up' \in Seq(Messages) /\ outbox' \in Seq(Messages)
    BY <2>1, <2>2, EmitTypes
  <2> QED
    BY <2>1, <2>3 DEF AgentOK
<1> QED
  BY <1>1, <1>2, <1>3, <1>4, <1>5, <1>6 DEF RunStep

LEMMA NextTyped == Typed /\ [Next]_vars => Typed'
<1> SUFFICES ASSUME Typed, [Next]_vars PROVE HubOK' /\ AgentOK' /\ faults' \in 0 .. MaxFaults
  <2>1. (Typed <=> HubOK /\ AgentOK /\ faults \in 0 .. MaxFaults)'
    BY Types, PTL
  <2> QED
    BY <2>1
<1>0. HubOK /\ AgentOK /\ faults \in 0 .. MaxFaults /\ HandlersOK /\ RowsOK
  BY Types DEF HubOK
<1>h. ASSUME UNCHANGED <<rows, hubVars>> PROVE HubOK'
  BY <1>0, <1>h DEF rows, hubVars, HubOK, RowsOK, HandlersOK, Refiles, At
<1>a. ASSUME UNCHANGED <<wire, agent>> PROVE AgentOK'
  BY <1>0, <1>a DEF wire, agent, AgentOK
<1>1. ASSUME NEW a \in Ids, Propose(a) \/ Accept(a) \/ Ignore(a) \/ ApplyRules(a)
      PROVE  HubOK' /\ AgentOK' /\ faults' \in 0 .. MaxFaults
  <2>1. UNCHANGED <<wire, agent, faults>>
    BY <1>1 DEF Propose, Accept, Ignore, ApplyRules
  <2> QED
    BY <1>0, <1>1, <1>a, <2>1, GateTypes
<1>2. ASSUME NEW h \in Handlers, NEW a \in Ids, OnDecided(h, a)
      PROVE  HubOK' /\ AgentOK' /\ faults' \in 0 .. MaxFaults
  <2>1. HandlersOK'
    BY <1>0, <1>2, LoadType, HandlerSet DEF OnDecided
  <2> QED
    BY <1>0, <1>2, <1>a, <2>1 DEF OnDecided, HubOK, RowsOK
<1>3. ASSUME NEW h \in Handlers, HandlerStep(h)
      PROVE  HubOK' /\ AgentOK' /\ faults' \in 0 .. MaxFaults
  BY <1>0, <1>3, HandlerTypes, HandlerLeavesAgent DEF AgentOK
<1>4. CASE ReceiveAnswer \/ ReceiveCompleted
  <2>1. UNCHANGED <<online, requests, agent, faults>>
    BY <1>4 DEF ReceiveAnswer, ReceiveCompleted
  <2> QED
    BY <1>0, <1>4, <2>1, ReceiveTypes DEF AgentOK, agent
<1>5. ASSUME NEW r \in Results, OnTurnCompleted(r) \/ WriteResult(r)
      PROVE  HubOK' /\ AgentOK' /\ faults' \in 0 .. MaxFaults
  <2>1. UNCHANGED <<wire, agent, faults>>
    BY <1>5 DEF OnTurnCompleted, WriteResult
  <2> QED
    BY <1>0, <1>5, <1>a, <2>1, ResultTypes
<1>6. ASSUME NEW a \in Ids, RunStep(a) PROVE HubOK' /\ AgentOK' /\ faults' \in 0 .. MaxFaults
  BY <1>0, <1>6, <1>h, RunTypes
<1>7. CASE Drain
  <2>1. up' \in Seq(Messages) /\ outbox' \in Seq(Messages)
    BY <1>0, <1>7, ConcatProperties, EmptySeq DEF Drain, AgentOK
  <2> QED
    BY <1>0, <1>7, <1>h, <2>1 DEF Drain, AgentOK
<1>8. ASSUME NEW h \in Handlers, Connect(h)
      PROVE  HubOK' /\ AgentOK' /\ faults' \in 0 .. MaxFaults
  <2>1. HandlersOK'
    BY <1>0, <1>8, ConnectMoves
  <2> QED
    BY <1>0, <1>8, <2>1 DEF Connect, rows, agent, HubOK, RowsOK, AgentOK
<1>9. ASSUME Fault PROVE faults' \in 0 .. MaxFaults
  BY <1>0, <1>9 DEF Fault
<1>10. CASE Disconnect
  BY <1>0, <1>9, <1>10, <1>h, EmptySeq DEF Disconnect, agent, AgentOK
<1>11. CASE HubCrash
  <2>1. HandlersOK'
    BY <1>11 DEF HubCrash, HandlersOK, HandlerState, Refiles, At, Idle
  <2> QED
    BY <1>0, <1>9, <1>11, <2>1, EmptySeq DEF HubCrash, agent, HubOK, RowsOK, AgentOK
<1>12. CASE AgentCrash
  BY <1>0, <1>9, <1>12, <1>h, AgentLostTypes DEF AgentCrash
<1>13. CASE UNCHANGED vars
  BY <1>0, <1>13, <1>h, <1>a DEF vars
<1> QED
  BY <1>1, <1>2, <1>3, <1>4, <1>5, <1>6, <1>7, <1>8, <1>10, <1>11, <1>12, <1>13
     DEF Next, HubStep

-----------------------------------------------------------------------------
(* The agent's steps.                                                      *)

OwnInv == Calls /\ Alone /\ Waits /\ Asked /\ Held

\* Only the request that was sent begins a run, and it goes with it.
AgentMoves ==
  /\ UNCHANGED <<rows, hubVars>> /\ requests' \subseteq requests
  /\ \A a \in Ids : Unbegun(a) => Unbegun(a)'
  /\ \A a \in requests' : run'[a] = run[a] /\ starts'[a] = starts[a]

LEMMA AgentLostMoves == AgentOK /\ AgentLost /\ UNCHANGED <<rows, hubVars>> => AgentMoves
  BY DEF AgentOK, AgentLost, AgentMoves, Unbegun

LEMMA RunMoves ==
  ASSUME AgentOK, Asked, NEW a \in Ids, RunStep(a) PROVE AgentMoves
<1>1. UNCHANGED <<rows, hubVars>>
  BY RunTypes
<1>2. CASE StartRun(a)
  BY <1>1, <1>2 DEF StartRun, AgentOK, AgentMoves, Unbegun
<1>3. CASE AnswerUnsent(a)
  BY <1>1, <1>3, AgentLostMoves DEF AnswerUnsent
<1>4. CASE AnswerStart(a)
  BY <1>1, <1>4 DEF AnswerStart, AgentMoves, Unbegun
<1>5. CASE RuntimeFails(a) \/ RuntimeSaysDone(a) \/ Verify(a) \/ TurnTimeout(a)
  <2>1. run[a] # "none" /\ UNCHANGED <<requests, starts>> /\ \A b \in Ids \ {a} : run'[b] = run[b]
    BY <1>5 DEF RuntimeFails, RuntimeSaysDone, Verify, TurnTimeout, MayEnd, AgentOK, wire
  <2> QED
    BY <1>1, <2>1 DEF AgentMoves, Unbegun, Asked, AgentOK
<1> QED
  BY <1>2, <1>3, <1>4, <1>5 DEF RunStep

LEMMA AgentKeepsOwned == OwnInv /\ Typed /\ AgentMoves => OwnInv'
<1> SUFFICES ASSUME OwnInv, Typed, AgentMoves PROVE OwnInv'
  OBVIOUS
<1>0. HandlersOK
  BY Types DEF HubOK
<1>1. UNCHANGED <<row, handler, running, reports, told>>
  BY DEF AgentMoves, rows, hubVars
<1>2. Calls'
  <2> SUFFICES ASSUME NEW h \in Handlers, Claims(h)' PROVE Owns(h)'
    BY DEF Calls
  <2>1. Claims(h) /\ Owns(h)
    BY <1>1 DEF Claims, OwnInv, Calls
  <2>2. handler[h].id \in Ids
    BY <1>0, <2>1, CallType DEF Claims, Stages
  <2>3. At(h, "switch") => Unbegun(handler[h].id)'
    BY <1>1, <2>1, <2>2 DEF Owns, AgentMoves
  <2> QED
    BY <1>1, <2>1, <2>3 DEF Owns, At, Unbegun
<1>3. Alone'
  BY <1>1 DEF OwnInv, Alone, Claims
<1>4. Waits' /\ Asked'
  BY <1>1 DEF OwnInv, Waits, Asked, AgentMoves
<1>5. Held'
  BY <1>1 DEF OwnInv, Held
<1> QED
  BY <1>2, <1>3, <1>4, <1>5 DEF OwnInv

-----------------------------------------------------------------------------
(* The hub's steps.                                                        *)

\* What the hub holds is about rows that were claimed, and stands while a row
\* moves that has neither a running session nor an end.
LEMMA HeldStays ==
  ASSUME Held, Typed, NEW a \in Ids, row[a] \notin {"executed", "failed"}, a \notin running,
         \A b \in Ids \ {a} : row'[b] = row[b], UNCHANGED <<running, reports, told>>
  PROVE  Held'
<1>1. running \subseteq Ids /\ reports \subseteq Results
  BY Types DEF HubOK
<1>2. \A b \in running : row'[b] = "executing"
  BY <1>1 DEF Held
<1>3. ASSUME NEW r \in reports PROVE row'[r.id] = Settled(r.ok)
  <2>1. r.id \in Ids /\ Settled(r.ok) \in {"executed", "failed"}
    BY <1>1 DEF Results, Settled
  <2> QED
    BY <2>1 DEF Held
<1>4. /\ \A b \in Ids : told[b] = "done" => row'[b] = "executed"
      /\ \A b \in Ids : told[b] = "failed" => row'[b] = "failed"
  BY DEF Held
<1> QED
  BY <1>2, <1>3, <1>4 DEF Held, Settled

\* A row that nobody claimed yet moves before its claim.
LEMMA GateKeepsOwned ==
  ASSUME OwnInv, Typed, NEW a \in Ids, row[a] \in {"absent", "pending"},
         row' \in [Ids -> RowStates], row'[a] \in Unclaimed,
         \A b \in Ids \ {a} : row'[b] = row[b],
         UNCHANGED <<running, reports, told, requests, run, starts>>,
         \A h \in Handlers : Claims(h)' => Claims(h) /\ handler'[h] = handler[h]
  PROVE  OwnInv'
<1>0. HandlersOK /\ reports \subseteq Results /\ running \subseteq Ids
  BY Types DEF HubOK
<1>1. Calls'
  <2> SUFFICES ASSUME NEW h \in Handlers, Claims(h)' PROVE Owns(h)'
    BY DEF Calls
  <2>1. Claims(h) /\ Owns(h) /\ handler'[h] = handler[h]
    BY DEF OwnInv, Calls
  <2>2. handler[h].id \in Ids /\ handler[h].id # a
    BY <1>0, <2>1, CallType DEF Claims, Stages, Owns
  <2> QED
    BY <2>1, <2>2 DEF Owns, At, Unbegun
<1>2. Alone'
  BY DEF OwnInv, Alone
<1>3. Waits' /\ Asked'
  BY DEF OwnInv, Waits, Asked, Unbegun, Unclaimed
<1>4. Held'
  <2>1. a \notin running
    BY DEF OwnInv, Held
  <2> QED
    BY <2>1, HeldStays DEF OwnInv
<1> QED
  BY <1>1, <1>2, <1>3, <1>4 DEF OwnInv

\* One call moves: what it does to its row is nothing to the owners of others.
LEMMA OneCallMoves ==
  ASSUME OwnInv, Typed, NEW h \in Handlers,
         \A g \in Handlers \ {h} : handler'[g] = handler[g],
         Claims(h)' => /\ Owns(h)' /\ handler'[h].id = handler[h].id
                       /\ Claims(h) \/ row[handler[h].id] # "executing",
         \A b \in Ids : (\E g \in Handlers \ {h} : Claims(g) /\ handler[g].id = b) =>
                        /\ row'[b] = row[b] /\ (b \in running' => b \in running)
                        /\ Unbegun(b) => Unbegun(b)'
  PROVE  Calls' /\ Alone'
<1>0. HandlersOK
  BY Types DEF HubOK
<1>1. ASSUME NEW g \in Handlers \ {h}, Claims(g)' PROVE Owns(g)' /\ Claims(g)
  <2>1. Claims(g) /\ Owns(g) /\ handler'[g] = handler[g]
    BY <1>1 DEF Claims, OwnInv, Calls
  <2>2. handler[g].id \in Ids
    BY <1>0, <2>1, CallType DEF Claims, Stages
  <2>3. /\ row'[handler[g].id] = row[handler[g].id]
        /\ handler[g].id \in running' => handler[g].id \in running
        /\ Unbegun(handler[g].id) => Unbegun(handler[g].id)'
    BY <2>1, <2>2
  <2>4. At(g, "switch")' => Unbegun(handler[g].id)'
    BY <2>1, <2>3 DEF Owns, At
  <2> QED
    BY <2>1, <2>3, <2>4 DEF Owns, At, Unbegun
<1>2. Calls'
  BY <1>1 DEF Calls
<1>3. Alone'
  <2>1. ASSUME NEW g \in Handlers \ {h}, Claims(g)', Claims(h)' PROVE handler'[g].id # handler'[h].id
    BY <1>1, <2>1 DEF OwnInv, Alone, Calls, Owns
  <2>2. ASSUME NEW g \in Handlers \ {h}, NEW f \in Handlers \ {h}, Claims(g)', Claims(f)',
               handler'[g].id = handler'[f].id
        PROVE  g = f
    BY <1>1, <2>2 DEF OwnInv, Alone
  <2> QED
    BY <2>1, <2>2 DEF Alone
<1> QED
  BY <1>2, <1>3

LEMMA OnDecidedKeepsOwned ==
  ASSUME OwnInv, Typed, NEW h \in Handlers, NEW a \in Ids, OnDecided(h, a) PROVE OwnInv'
<1>1. /\ handler'[h].pc = "load" /\ \A g \in Handlers \ {h} : handler'[g] = handler[g]
      /\ UNCHANGED <<row, running, reports, told, requests, run, starts>>
  BY Types, LoadType, HandlerSet DEF HubOK, OnDecided, wire, agent
<1>2. Calls' /\ Alone'
  BY <1>1, OneCallMoves DEF Claims, Stages, Unbegun
<1> QED
  BY <1>1, <1>2 DEF OwnInv, Waits, Asked, Held, Unbegun

\* Steps of execute() that leave the rows and the runs to themselves.
LEMMA QuietStepKeepsOwned ==
  ASSUME OwnInv, Typed, NEW h \in Handlers, Redrive(h) \/ LoadDecided(h) \/ CallTimeout(h)
  PROVE  OwnInv'
<1>0. HandlersOK
  BY Types DEF HubOK
<1>1. UNCHANGED <<row, running, reports, told, requests, run, starts>>
  BY DEF Redrive, LoadDecided, CallTimeout, rows, wire, agent
<1>2. /\ \A g \in Handlers \ {h} : handler'[g] = handler[g]
      /\ Claims(h)' => /\ Claims(h) /\ handler'[h].pc = "fail"
                       /\ handler'[h].id = handler[h].id
  <2>1. CASE Redrive(h)
    <3>1. Listed \in SUBSET Ids
      BY DEF Listed, Decided
    <3> QED
      BY <1>0, <2>1, <3>1, NextOfType DEF Redrive, HandlersOK, Claims, Stages, Idle
  <2>2. CASE LoadDecided(h)
    BY <1>0, <2>2, GotoMoves, ReturnMoves DEF LoadDecided, At, Steps, Claims, Stages
  <2>3. CASE CallTimeout(h)
    BY <1>0, <2>3, GotoMoves DEF CallTimeout, At, Steps, Claims, Stages
  <2> QED
    BY <2>1, <2>2, <2>3
<1>3. Claims(h)' => Owns(h)'
  BY <1>1, <1>2 DEF OwnInv, Calls, Owns, At
<1>4. Calls' /\ Alone'
  BY <1>1, <1>2, <1>3, OneCallMoves DEF Unbegun
<1> QED
  BY <1>1, <1>4 DEF OwnInv, Waits, Asked, Held, Unbegun

\* The claim makes the call the owner of a row that had none.
LEMMA ClaimKeepsOwned ==
  ASSUME OwnInv, Typed, NEW h \in Handlers, Claim(h) PROVE OwnInv'
<1> DEFINE a == handler[h].id
<1>0. /\ HandlersOK /\ RowsOK /\ running \subseteq Ids /\ reports \subseteq Results
      /\ a \in Ids /\ handler[h].pc = "claim"
  BY Types, CallType DEF HubOK, Claim, At
<1>1. UNCHANGED <<running, reports, told, requests, run, starts>>
  BY DEF Claim, wire, agent
<1>2. CASE Claimable(a)
  <2>1. /\ row[a] \in DoIt /\ row'[a] = "executing" /\ \A b \in Ids \ {a} : row'[b] = row[b]
    BY <1>0, <1>2, SetRowType DEF Claim, Claimable, RowStates, DoIt, At
  <2>2. /\ handler'[h].pc \in {"fail", "switch"} /\ handler'[h].id = a
        /\ \A g \in Handlers \ {h} : handler'[g] = handler[g]
    BY <1>0, <1>2, GotoMoves DEF Claim, Steps, At
  <2>3. Unbegun(a) /\ a \notin running
    BY <1>0, <2>1 DEF OwnInv, Waits, Held, Unclaimed, DoIt
  <2>4. Owns(h)'
    BY <1>1, <2>1, <2>2, <2>3 DEF Owns, At, Unbegun
  <2>5. \A g \in Handlers : Claims(g) => handler[g].id # a
    BY <2>1 DEF OwnInv, Calls, Owns, DoIt
  <2>6. Calls' /\ Alone'
    BY <1>1, <2>1, <2>2, <2>4, <2>5, OneCallMoves DEF Unbegun, DoIt
  <2>7. Waits' /\ Asked'
    BY <1>1, <2>1 DEF OwnInv, Waits, Asked, Unbegun, Unclaimed, DoIt
  <2>8. Held'
    BY <1>0, <1>1, <2>1, <2>3, HeldStays DEF OwnInv, DoIt
  <2> QED
    BY <2>6, <2>7, <2>8 DEF OwnInv
<1>3. CASE ~Claimable(a)
  <2>1. /\ handler'[h].pc \in {"idle", "load"} /\ UNCHANGED row
        /\ \A g \in Handlers \ {h} : handler'[g] = handler[g]
    BY <1>0, <1>3, ReturnMoves DEF Claim, At
  <2>2. Calls' /\ Alone'
    BY <1>1, <2>1, OneCallMoves DEF Claims, Stages, Unbegun
  <2> QED
    BY <1>1, <2>1, <2>2 DEF OwnInv, Waits, Asked, Held, Unbegun
<1> QED
  BY <1>2, <1>3

\* The request is sent once, by the owner, before anything has run.
LEMMA CallKeepsOwned ==
  ASSUME OwnInv, Typed, NEW h \in Handlers, Call(h) PROVE OwnInv'
<1> DEFINE a == handler[h].id
<1>0. HandlersOK /\ a \in Ids /\ handler[h].pc = "switch" /\ requests \subseteq Ids
  BY Types, CallType DEF HubOK, AgentOK, Call, At
<1>1. /\ UNCHANGED <<row, running, reports, told, run, starts>>
      /\ requests' \subseteq requests \cup {a} /\ requests \subseteq requests'
  BY DEF Call, rows, agent
<1>2. /\ handler'[h].pc \in {"fail", "waiting"} /\ handler'[h].id = a
      /\ \A g \in Handlers \ {h} : handler'[g] = handler[g]
  BY <1>0, GotoMoves DEF Call, Steps, At
<1>3. Claims(h) /\ Owns(h) /\ Unbegun(a) /\ row[a] = "executing"
  BY <1>0 DEF Claims, Stages, OwnInv, Calls, Owns, At
<1>4. Owns(h)'
  BY <1>1, <1>2, <1>3 DEF Owns, At
<1>5. \A g \in Handlers \ {h} : Claims(g) => handler[g].id # a
  BY <1>3 DEF OwnInv, Alone
<1>6. Calls' /\ Alone'
  BY <1>1, <1>2, <1>3, <1>4, <1>5, OneCallMoves DEF Unbegun
<1>7. Waits' /\ Asked'
  BY <1>1, <1>3 DEF OwnInv, Waits, Asked, Unbegun, Unclaimed, DoIt
<1> QED
  BY <1>1, <1>6, <1>7 DEF OwnInv, Held

\* The owner fails its row, and owns it no more.
LEMMA FailKeepsOwned ==
  ASSUME OwnInv, Typed, NEW h \in Handlers, Fail(h) PROVE OwnInv'
<1> DEFINE a == handler[h].id
<1>0. /\ HandlersOK /\ RowsOK /\ running \subseteq Ids /\ reports \subseteq Results
      /\ a \in Ids /\ handler[h].pc \in {"fail", "fail_limited"}
  BY Types, CallType DEF HubOK, Fail, At
<1>1. UNCHANGED <<running, reports, told, requests, run, starts>>
  BY DEF Fail, wire, agent
<1>2. row'[a] = "failed" /\ \A b \in Ids \ {a} : row'[b] = row[b]
  BY <1>0, SetRowType DEF Fail, RowStates
<1>3. /\ handler'[h].pc \in {"idle", "load", "propose"}
      /\ \A g \in Handlers \ {h} : handler'[g] = handler[g]
  BY <1>0, GotoMoves, ReturnMoves DEF Fail, Steps, At
<1>4. Claims(h) /\ row[a] = "executing" /\ a \notin running
  BY <1>0 DEF Claims, Stages, OwnInv, Calls, Owns
<1>5. \A g \in Handlers \ {h} : Claims(g) => handler[g].id # a
  BY <1>4 DEF OwnInv, Alone
<1>6. Calls' /\ Alone'
  BY <1>1, <1>2, <1>3, <1>5, OneCallMoves DEF Claims, Stages, Unbegun
<1>7. Waits' /\ Asked'
  BY <1>1, <1>2 DEF OwnInv, Waits, Asked, Unbegun, Unclaimed, DoIt
<1>8. Held'
  BY <1>0, <1>1, <1>2, <1>4, HeldStays DEF OwnInv
<1> QED
  BY <1>6, <1>7, <1>8 DEF OwnInv

LEMMA ProposeKeepsOwned ==
  ASSUME OwnInv, Typed,
         \/ \E a \in Ids : Propose(a) \/ Accept(a) \/ Ignore(a) \/ ApplyRules(a)
         \/ \E h \in Handlers : ProposeFallback(h)
  PROVE  OwnInv'
<1>0. HandlersOK /\ RowsOK
  BY Types DEF HubOK
<1>1. ASSUME NEW a \in Ids, Propose(a) \/ Accept(a) \/ Ignore(a) \/ ApplyRules(a) PROVE OwnInv'
  <2>1. UNCHANGED <<handler, running, reports, told, requests, run, starts>>
    BY <1>1 DEF Propose, Accept, Ignore, ApplyRules, hubVars, wire, agent
  <2>2. \/ UNCHANGED row
        \/ row[a] \in {"absent", "pending"} /\ \E s \in Unclaimed : SetRow(a, s)
    BY <1>1 DEF Propose, ProposeRow, Accept, Ignore, ApplyRules, DecideRow, Unclaimed, DoIt
  <2>3. CASE UNCHANGED row
    BY <2>1, <2>3 DEF OwnInv, Calls, Owns, Alone, Claims, At, Waits, Asked, Held, Unbegun
  <2>4. CASE row[a] \in {"absent", "pending"} /\ \E s \in Unclaimed : SetRow(a, s)
    <3>1. PICK s \in Unclaimed : SetRow(a, s)
      BY <2>4
    <3>2. /\ row' \in [Ids -> RowStates] /\ row'[a] \in Unclaimed
          /\ \A b \in Ids \ {a} : row'[b] = row[b]
      BY <1>0, <3>1, SetRowType DEF Unclaimed, RowStates
    <3> QED
      BY <2>1, <2>4, <3>2, GateKeepsOwned DEF Claims
  <2> QED
    BY <2>2, <2>3, <2>4
<1>2. ASSUME NEW h \in Handlers, ProposeFallback(h) PROVE OwnInv'
  <2> DEFINE a == FallbackOf[handler[h].id]
  <2>1. a \in Ids /\ row[a] = "absent" /\ SetRow(a, "pending")
    BY <1>0, <1>2 DEF ProposeFallback, ProposeRow, HandlersOK, Refiles
  <2>2. /\ row' \in [Ids -> RowStates] /\ row'[a] \in Unclaimed
        /\ \A b \in Ids \ {a} : row'[b] = row[b]
    BY <1>0, <2>1, SetRowType DEF Unclaimed, RowStates
  <2>3. /\ handler'[h].pc \in {"idle", "load"} /\ \A g \in Handlers \ {h} : handler'[g] = handler[g]
        /\ UNCHANGED <<running, reports, told, requests, run, starts>>
    BY <1>0, <1>2, ReturnMoves DEF ProposeFallback, At, wire, agent
  <2> HIDE DEF a
  <2> QED
    BY <2>1, <2>2, <2>3, GateKeepsOwned DEF Claims, Stages
<1> QED
  BY <1>1, <1>2

\* An answer finds the owner waiting, or nobody.
LEMMA AnswerKeepsOwned ==
  ASSUME OwnInv, Typed, ReceiveAnswer PROVE OwnInv'
<1> DEFINE m == Head(up)
<1>0. HandlersOK /\ running \subseteq Ids
  BY Types DEF HubOK
<1>1. UNCHANGED <<row, reports, told, requests, run, starts>>
  BY DEF ReceiveAnswer, rows, agent
<1>2. CASE UNCHANGED <<handler, running>>
  BY <1>1, <1>2 DEF OwnInv, Calls, Owns, Alone, Claims, At, Waits, Asked, Held, Unbegun
<1>3. ASSUME NEW h \in Handlers, Waiting(h, m),
             \/ running' = running \cup {m.id} /\ Return(h)
             \/ UNCHANGED running /\ (Goto(h, "fail") \/ Goto(h, "fail_limited"))
      PROVE  OwnInv'
  <2>1. Claims(h) /\ Owns(h) /\ handler[h].id = m.id /\ handler[h].pc = "waiting"
    BY <1>3 DEF Waiting, At, Claims, Stages, OwnInv, Calls
  <2>2. m.id \in Ids
    BY <1>0, <2>1, CallType
  <2>3. /\ \A g \in Handlers \ {h} : handler'[g] = handler[g]
        /\ Claims(h)' => /\ handler'[h].id = m.id /\ UNCHANGED running
                         /\ handler'[h].pc \in {"fail", "fail_limited"}
    BY <1>0, <1>3, <2>1, GotoMoves, ReturnMoves DEF Claims, Stages, Steps
  <2>4. Claims(h)' => Owns(h)'
    BY <1>1, <2>1, <2>3 DEF Owns, At
  <2>5. \A g \in Handlers \ {h} : Claims(g) => handler[g].id # m.id
    BY <2>1 DEF OwnInv, Alone
  <2>6. Calls' /\ Alone'
    BY <1>1, <1>3, <2>1, <2>3, <2>4, <2>5, OneCallMoves DEF Unbegun
  <2>7. Held'
    BY <1>1, <1>3, <2>1 DEF OwnInv, Held, Owns
  <2> QED
    BY <1>1, <2>6, <2>7 DEF OwnInv, Waits, Asked, Unbegun
<1> QED
  BY <1>2, <1>3 DEF ReceiveAnswer

\* A session that ended was started by an owner, and owns its row no more.
LEMMA ResultKeepsOwned ==
  ASSUME OwnInv, Typed, NEW r \in Results, OnTurnCompleted(r) \/ WriteResult(r) PROVE OwnInv'
<1>0. HandlersOK /\ RowsOK /\ running \subseteq Ids /\ reports \subseteq Results /\ r.id \in Ids
  BY Types DEF HubOK, Results
<1>1. UNCHANGED <<handler, requests, run, starts>>
  BY DEF OnTurnCompleted, WriteResult, wire, agent
<1>2. CASE WriteResult(r)
  <2>1. /\ UNCHANGED <<row, running>> /\ r \in reports /\ reports' = reports \ {r}
        /\ told' = [told EXCEPT ![r.id] = IF r.ok THEN "done" ELSE "failed"]
    BY <1>2 DEF WriteResult, ResultLine, rows
  <2>2. told \in [Ids -> {None, "done", "failed"}]
    BY Types DEF HubOK
  <2>3. row[r.id] = IF r.ok THEN "executed" ELSE "failed"
    BY <2>1 DEF OwnInv, Held, Settled
  <2>4. Held'
    BY <2>1, <2>2, <2>3 DEF OwnInv, Held, Settled
  <2> QED
    BY <1>1, <2>1, <2>4 DEF OwnInv, Calls, Owns, Alone, Claims, At, Waits, Asked, Unbegun
<1>3. CASE OnTurnCompleted(r) /\ r.id \notin running
  BY <1>1, <1>3
     DEF OnTurnCompleted, OwnInv, Calls, Owns, Alone, Claims, At, Waits, Asked, Held, Unbegun
<1>4. CASE OnTurnCompleted(r) /\ r.id \in running
  <2>1. /\ running' = running \ {r.id} /\ reports' = reports \cup {r} /\ UNCHANGED told
        /\ row[r.id] = "executing"
    BY <1>4 DEF OnTurnCompleted, OwnInv, Held
  <2>2. /\ row'[r.id] = Settled(r.ok) /\ Settled(r.ok) \in {"executed", "failed"}
        /\ \A b \in Ids \ {r.id} : row'[b] = row[b]
    BY <1>0, <1>4, SetRowType DEF OnTurnCompleted, Settled, RowStates
  <2>3. \A h \in Handlers : Claims(h) => handler[h].id \in Ids /\ handler[h].id # r.id
    BY <1>0, <1>4, CallType DEF OwnInv, Calls, Owns, Claims, Stages
  <2>4. Calls' /\ Alone'
    BY <1>1, <2>1, <2>2, <2>3 DEF OwnInv, Calls, Alone, Owns, Claims, At, Unbegun
  <2>5. Waits' /\ Asked'
    BY <1>1, <2>2 DEF OwnInv, Waits, Asked, Unbegun, Unclaimed, DoIt
  <2>6. \A b \in running' : row'[b] = "executing"
    BY <1>0, <2>1, <2>2 DEF OwnInv, Held
  <2>7. ASSUME NEW q \in reports' PROVE row'[q.id] = Settled(q.ok)
    <3>1. CASE q = r
      BY <2>2, <3>1
    <3>2. CASE q \in reports
      <4>1. q.id \in Ids /\ row[q.id] = Settled(q.ok) /\ Settled(q.ok) # "executing"
        BY <1>0, <3>2 DEF OwnInv, Held, Results, Settled
      <4> QED
        BY <2>1, <2>2, <4>1
    <3> QED
      BY <2>1, <3>1, <3>2
  <2>8. /\ \A b \in Ids : told'[b] = "done" => row'[b] = "executed"
        /\ \A b \in Ids : told'[b] = "failed" => row'[b] = "failed"
    BY <2>1, <2>2 DEF OwnInv, Held
  <2>9. Held'
    BY <2>6, <2>7, <2>8 DEF Held, Settled
  <2> QED
    BY <2>4, <2>5, <2>9 DEF OwnInv
<1> QED
  BY <1>2, <1>3, <1>4

LEMMA NextOwned == OwnInv /\ Typed /\ [Next]_vars => OwnInv'
<1> SUFFICES ASSUME OwnInv, Typed, [Next]_vars PROVE OwnInv'
  OBVIOUS
<1>0. HandlersOK /\ AgentOK
  BY Types DEF HubOK
<1>1. ASSUME UNCHANGED <<row, handler, running, reports, told>>,
             \/ UNCHANGED <<requests, run, starts>>
             \/ requests' = {} /\ UNCHANGED <<run, starts>>
      PROVE  OwnInv'
  BY <1>1 DEF OwnInv, Calls, Owns, Alone, Claims, At, Waits, Asked, Held, Unbegun
<1>2. CASE HubStep
  <2>1. CASE ReceiveCompleted
    BY <1>1, <2>1 DEF ReceiveCompleted, rows, agent
  <2> QED
    BY <1>2, <2>1, OnDecidedKeepsOwned, QuietStepKeepsOwned, ClaimKeepsOwned, CallKeepsOwned,
       FailKeepsOwned, ProposeKeepsOwned, AnswerKeepsOwned, ResultKeepsOwned
       DEF HubStep, HandlerStep
<1>3. ASSUME NEW a \in Ids, RunStep(a) PROVE OwnInv'
  BY <1>0, <1>3, RunMoves, AgentKeepsOwned DEF OwnInv
<1>4. CASE Drain \/ Disconnect \/ UNCHANGED vars
  BY <1>1, <1>4 DEF Drain, Disconnect, vars, rows, hubVars, wire, agent
<1>5. ASSUME NEW h \in Handlers, Connect(h) PROVE OwnInv'
  <2>1. /\ handler'[h].pc = "list" /\ \A g \in Handlers \ {h} : handler'[g] = handler[g]
        /\ UNCHANGED <<row, running, reports, told, requests, run, starts>>
    BY <1>0, <1>5, ConnectMoves DEF Connect, rows, agent
  <2>2. Calls' /\ Alone'
    BY <2>1, OneCallMoves DEF Claims, Stages, Unbegun
  <2> QED
    BY <2>1, <2>2 DEF OwnInv, Waits, Asked, Held, Unbegun
<1>6. CASE HubCrash
  <2>1. /\ \A h \in Handlers : handler'[h].pc = "idle"
        /\ UNCHANGED <<row, told, run, starts>> /\ running' = {} /\ reports' = {} /\ requests' = {}
    BY <1>6 DEF HubCrash, Idle, agent
  <2>2. Calls' /\ Alone'
    BY <2>1 DEF Calls, Alone, Claims, Stages
  <2> QED
    BY <2>1, <2>2 DEF OwnInv, Waits, Asked, Held, Unbegun
<1>7. CASE AgentCrash
  BY <1>0, <1>7, AgentLostMoves, AgentKeepsOwned DEF AgentCrash
<1> QED
  BY <1>2, <1>3, <1>4, <1>5, <1>6, <1>7 DEF Next

-----------------------------------------------------------------------------
(* What is said of a run.                                                  *)

LEMMA VouchesGrows ==
  ASSUME NEW s, NEW P, NEW Q, P \subseteq Q, Vouches(s, P) PROVE Vouches(s, Q)
  BY DEF Vouches

LEMMA VouchesAppend ==
  ASSUME NEW s \in Seq(Messages), NEW m \in Messages, NEW P, Vouches(s, P),
         SaysDone(m) => m.id \in P
  PROVE  Vouches(Append(s, m), P)
  BY AppendProperties DEF Vouches

LEMMA VouchesConcat ==
  ASSUME NEW s \in Seq(Messages), NEW t \in Seq(Messages), NEW P, Vouches(s, P), Vouches(t, P)
  PROVE  Vouches(s \o t, P)
  BY ConcatProperties DEF Vouches

LEMMA VouchesEmpty == \A P : Vouches(<<>>, P)
  BY EmptySeq DEF Vouches

LEMMA VouchesTail ==
  ASSUME NEW s \in Seq(Messages), s # <<>>, NEW P, Vouches(s, P)
  PROVE  /\ Vouches(Tail(s), P)
         /\ SaysDone(Head(s)) => Head(s).id \in P
<1>1. /\ Len(s) \in Nat \ {0} /\ Len(Tail(s)) = Len(s) - 1 /\ Head(s) = s[1]
      /\ \A i \in 1 .. Len(Tail(s)) : Tail(s)[i] = s[i + 1]
  BY HeadTailProperties
<1>2. \A i \in 1 .. Len(Tail(s)) : i + 1 \in 1 .. Len(s)
  BY <1>1
<1>3. 1 \in 1 .. Len(s)
  BY <1>1
<1> QED
  BY <1>1, <1>2, <1>3 DEF Vouches

\* Emitting adds the message to one of the two.
LEMMA VouchesEmit ==
  ASSUME AgentOK, NEW m \in Messages, Emit(m), NEW P, Vouches(up, P), Vouches(outbox, P),
         SaysDone(m) => m.id \in P
  PROVE  Vouches(up', P) /\ Vouches(outbox', P)
<1>1. up \in Seq(Messages) /\ outbox \in Seq(Messages)
  BY DEF AgentOK
<1>2. Vouches(Append(up, m), P) /\ Vouches(Append(outbox, m), P)
  BY <1>1, VouchesAppend
<1> QED
  BY <1>2 DEF Emit

\* An answer says nothing of how a run ended, a failure says it did not.
LEMMA SaysNothing ==
  ASSUME NEW a \in Ids
  PROVE  /\ ~SaysDone(Completed(a, FALSE)) /\ Completed(a, TRUE).id = a
         /\ \A kind \in {"answer", "refused", "limited"} : ~SaysDone([kind |-> kind, id |-> a])
  BY DEF SaysDone, Completed

\* The wires are vouched for, and what is proven stays so.
WiresVouched == Proven \subseteq Proven' /\ Vouches(up', Proven') /\ Vouches(outbox', Proven')

LEMMA RunVouches ==
  ASSUME AgentOK, Asked, Vouched, NEW a \in Ids, RunStep(a) PROVE WiresVouched
<1>0. /\ up \in Seq(Messages) /\ outbox \in Seq(Messages)
      /\ Vouches(up, Proven) /\ Vouches(outbox, Proven)
  BY DEF AgentOK, Vouched
<1>1. ASSUME Proven \subseteq Proven' PROVE Vouches(up, Proven') /\ Vouches(outbox, Proven')
  BY <1>0, <1>1, VouchesGrows
<1>2. CASE StartRun(a)
  <2>1. Proven \subseteq Proven'
    BY <1>2 DEF StartRun, Asked, Proven, AgentOK
  <2>2. UNCHANGED outbox /\ (up' = up \/ \E kind \in {"answer", "refused", "limited"} :
                                            up' = Append(up, [kind |-> kind, id |-> a]))
    BY <1>2 DEF StartRun
  <2>3. \A kind \in {"answer", "refused", "limited"} :
          Vouches(Append(up, [kind |-> kind, id |-> a]), Proven')
    BY <1>0, <1>1, <2>1, VouchesAppend, SaysNothing, MessageTypes
  <2> QED
    BY <1>1, <2>1, <2>2, <2>3 DEF WiresVouched
<1>3. CASE AnswerStart(a)
  <2>1. Proven \subseteq Proven'
    BY <1>3 DEF AnswerStart, Proven
  <2>2. Vouches(Append(up, [kind |-> "answer", id |-> a]), Proven')
    BY <1>0, <1>1, <2>1, VouchesAppend, SaysNothing, MessageTypes
  <2> QED
    BY <1>1, <1>3, <2>1, <2>2 DEF AnswerStart, WiresVouched
<1>4. CASE AnswerUnsent(a)
  <2>1. Proven \subseteq Proven' /\ up' = <<>> /\ UNCHANGED outbox
    BY <1>4 DEF AnswerUnsent, AgentLost, Proven
  <2> QED
    BY <1>1, <2>1, VouchesEmpty DEF WiresVouched
<1>5. CASE RuntimeFails(a) \/ TurnTimeout(a)
  <2>1. Proven \subseteq Proven' /\ Emit(Completed(a, FALSE))
    BY <1>5 DEF RuntimeFails, TurnTimeout, Proven, AgentOK, MayEnd
  <2> QED
    BY <1>1, <2>1, VouchesEmit, MessageTypes, SaysNothing DEF WiresVouched
<1>6. CASE RuntimeSaysDone(a)
  <2>1. Proven \subseteq Proven' /\ UNCHANGED <<up, outbox>>
    BY <1>6 DEF RuntimeSaysDone, MayEnd, Proven, AgentOK, wire
  <2> QED
    BY <1>1, <2>1 DEF WiresVouched
<1>7. CASE Verify(a)
  <2>1. PICK exitZero \in BOOLEAN :
          /\ run[a] = "verifying" /\ run' = [run EXCEPT ![a] = "over"]
          /\ verified' = [verified EXCEPT ![a] = exitZero]
          /\ Emit(Completed(a, exitZero))
    BY <1>7 DEF Verify, Verdict
  <2>2. Proven \subseteq Proven' /\ (exitZero => a \in Proven')
    BY <2>1 DEF Proven, AgentOK
  <2>3. SaysDone(Completed(a, exitZero)) => Completed(a, exitZero).id \in Proven'
    BY <2>2 DEF SaysDone, Completed
  <2> QED
    BY <1>1, <2>1, <2>2, <2>3, VouchesEmit, MessageTypes DEF WiresVouched
<1> QED
  BY <1>2, <1>3, <1>4, <1>5, <1>6, <1>7 DEF RunStep

\* A row moves one step towards its end; it is executed for a run that ended well.
RowMoves ==
  \/ UNCHANGED row
  \/ \E a \in Ids, s \in RowStates :
       /\ SetRow(a, s) /\ UNCHANGED starts
       /\ \/ row[a] = "absent" /\ s = "pending"
          \/ row[a] = "pending" /\ s \in DoIt \cup {"ignored"}
          \/ row[a] \in DoIt /\ s = "executing"
          \/ row[a] = "executing" /\ s = "failed"
          \/ /\ row[a] = "executing" /\ s = "executed" /\ UNCHANGED <<run, verified>>
             /\ \E r \in ended : r.id = a /\ r.ok

LEMMA NextRowMoves ==
  ASSUME OwnInv, Typed, [Next]_vars PROVE RowMoves
<1> USE DEF RowMoves
<1>0. HandlersOK /\ RowsOK
  BY Types DEF HubOK
<1>1. ASSUME NEW a \in Ids, Propose(a) \/ Accept(a) \/ Ignore(a) \/ ApplyRules(a) PROVE RowMoves
  BY <1>1 DEF Propose, ProposeRow, Accept, Ignore, ApplyRules, DecideRow, RowStates, DoIt,
     agent
<1>2. ASSUME NEW h \in Handlers, HandlerStep(h) PROVE RowMoves
  <2>1. CASE Redrive(h) \/ LoadDecided(h) \/ Call(h) \/ CallTimeout(h)
    BY <2>1 DEF Redrive, LoadDecided, Call, CallTimeout, rows
  <2>2. CASE Claim(h)
    <3>1. handler[h].id \in Ids
      BY <1>0, <2>2, CallType DEF Claim, At
    <3> QED
      BY <2>2, <3>1 DEF Claim, Claimable, RowStates, agent
  <2>3. CASE Fail(h)
    <3>1. handler[h].id \in Ids /\ Owns(h)
      BY <1>0, <2>3, CallType DEF Fail, At, OwnInv, Calls, Claims, Stages
    <3> QED
      BY <2>3, <3>1 DEF Fail, Owns, RowStates, agent
  <2>4. CASE ProposeFallback(h)
    <3>1. FallbackOf[handler[h].id] \in Ids
      BY <1>0, <2>4 DEF ProposeFallback, HandlersOK, Refiles
    <3> QED
      BY <2>4, <3>1 DEF ProposeFallback, ProposeRow, RowStates, agent
  <2> QED
    BY <1>2, <2>1, <2>2, <2>3, <2>4 DEF HandlerStep
<1>3. ASSUME NEW r \in Results, OnTurnCompleted(r) PROVE RowMoves
  <2>1. r.id \in Ids /\ (r.id \in running => row[r.id] = "executing")
    BY DEF Results, OwnInv, Held
  <2>2. CASE UNCHANGED row
    BY <2>2
  <2>3. CASE r.id \in running /\ SetRow(r.id, Settled(r.ok))
    <3>1. CASE r.ok
      BY <1>3, <2>1, <2>3, <3>1 DEF OnTurnCompleted, Settled, RowStates, agent
    <3>2. CASE ~r.ok
      BY <1>3, <2>1, <2>3, <3>2 DEF OnTurnCompleted, Settled, RowStates, agent
    <3> QED
      BY <3>1, <3>2
  <2> QED
    BY <1>3, <2>2, <2>3 DEF OnTurnCompleted
<1>4. ASSUME NEW r \in Results, WriteResult(r) PROVE RowMoves
  BY <1>4 DEF WriteResult, rows
<1>5. ASSUME NEW h \in Handlers, NEW a \in Ids, OnDecided(h, a) PROVE RowMoves
  BY <1>5 DEF OnDecided
<1>6. CASE ReceiveAnswer \/ ReceiveCompleted
  BY <1>6 DEF ReceiveAnswer, ReceiveCompleted, rows
<1>7. ASSUME NEW a \in Ids, RunStep(a) PROVE RowMoves
  BY <1>7, RunTypes, Types DEF rows
<1>8. ASSUME NEW h \in Handlers, Connect(h) PROVE RowMoves
  BY <1>8 DEF Connect, rows
<1>9. CASE Drain \/ Disconnect \/ HubCrash \/ AgentCrash \/ UNCHANGED vars
  BY <1>9 DEF Drain, Disconnect, HubCrash, AgentCrash, vars, rows
<1> QED
  BY <1>1, <1>2, <1>3, <1>4, <1>5, <1>6, <1>7, <1>8, <1>9 DEF Next, HubStep

\* What the hub says of runs, it was told by a frame.
HubVouched ==
  /\ \A r \in ended : r.ok => r.id \in Proven
  /\ \A a \in Ids : row[a] = "executed" => a \in Proven

LEMMA FramesVouched ==
  ASSUME OwnInv, Typed, Vouched, [Next]_vars
  PROVE  WiresVouched /\ \A r \in ended' : r.ok => r.id \in Proven'
<1>0. /\ AgentOK /\ Asked /\ up \in Seq(Messages) /\ outbox \in Seq(Messages)
      /\ Vouches(up, Proven) /\ Vouches(outbox, Proven)
      /\ \A r \in ended : r.ok => r.id \in Proven
  BY Types DEF AgentOK, OwnInv, Vouched
<1>1. ASSUME UNCHANGED <<run, verified>>, up' = up \/ up' = <<>>, UNCHANGED outbox,
             ended' \subseteq ended
      PROVE  WiresVouched /\ \A r \in ended' : r.ok => r.id \in Proven'
  <2>1. Proven' = Proven
    BY <1>1 DEF Proven
  <2> QED
    BY <1>0, <1>1, <2>1, VouchesEmpty DEF WiresVouched
<1>2. ASSUME NEW a \in Ids, Propose(a) \/ Accept(a) \/ Ignore(a) \/ ApplyRules(a)
      PROVE  WiresVouched /\ \A r \in ended' : r.ok => r.id \in Proven'
  BY <1>1, <1>2 DEF Propose, Accept, Ignore, ApplyRules, hubVars, wire, agent
<1>3. ASSUME NEW h \in Handlers, HandlerStep(h)
      PROVE  WiresVouched /\ \A r \in ended' : r.ok => r.id \in Proven'
  BY <1>1, <1>3, HandlerLeavesAgent
<1>4. ASSUME NEW h \in Handlers, NEW a \in Ids, OnDecided(h, a)
      PROVE  WiresVouched /\ \A r \in ended' : r.ok => r.id \in Proven'
  BY <1>1, <1>4 DEF OnDecided, wire, agent
<1>5. ASSUME NEW r \in Results, OnTurnCompleted(r) \/ WriteResult(r)
      PROVE  WiresVouched /\ \A q \in ended' : q.ok => q.id \in Proven'
  BY <1>1, <1>5 DEF OnTurnCompleted, WriteResult, wire, agent
<1>6. CASE ReceiveAnswer \/ ReceiveCompleted
  <2>1. up # <<>> /\ up' = Tail(up) /\ UNCHANGED agent
    BY <1>6 DEF ReceiveAnswer, ReceiveCompleted
  <2>2. Proven' = Proven /\ UNCHANGED outbox
    BY <2>1 DEF Proven, agent
  <2>3. Vouches(Tail(up), Proven) /\ (SaysDone(Head(up)) => Head(up).id \in Proven)
    BY <1>0, <2>1, VouchesTail
  <2>4. WiresVouched
    BY <1>0, <2>1, <2>2, <2>3 DEF WiresVouched
  <2>5. ended' = ended \/ ( /\ Head(up).kind = "completed"
                            /\ ended' = ended \cup {[id |-> Head(up).id, ok |-> Head(up).ok]} )
    BY <1>6 DEF ReceiveAnswer, ReceiveCompleted
  <2>6. \A r \in ended' : r.ok => r.id \in Proven'
    BY <1>0, <2>2, <2>3, <2>5 DEF SaysDone
  <2> QED
    BY <2>4, <2>6
<1>7. ASSUME NEW a \in Ids, RunStep(a)
      PROVE  WiresVouched /\ \A r \in ended' : r.ok => r.id \in Proven'
  <2>1. UNCHANGED ended /\ WiresVouched
    BY <1>0, <1>7, RunTypes, RunVouches DEF hubVars
  <2> QED
    BY <1>0, <2>1 DEF WiresVouched
<1>8. CASE Drain
  <2>1. /\ Proven' = Proven /\ UNCHANGED ended
        /\ up' = up \o outbox /\ outbox' = <<>>
    BY <1>8 DEF Drain, Proven, hubVars
  <2>2. Vouches(up \o outbox, Proven)
    BY <1>0, VouchesConcat
  <2> QED
    BY <1>0, <2>1, <2>2, VouchesEmpty DEF WiresVouched
<1>9. ASSUME NEW h \in Handlers, Connect(h)
      PROVE  WiresVouched /\ \A r \in ended' : r.ok => r.id \in Proven'
  BY <1>1, <1>9 DEF Connect, agent
<1>10. CASE Disconnect \/ HubCrash \/ UNCHANGED vars
  BY <1>1, <1>10 DEF Disconnect, HubCrash, vars, hubVars, wire, agent
<1>11. CASE AgentCrash
  <2>1. /\ Proven \subseteq Proven' /\ UNCHANGED <<ended, outbox>> /\ up' = <<>>
    BY <1>11 DEF AgentCrash, AgentLost, Proven, hubVars
  <2> QED
    BY <1>0, <2>1, VouchesGrows, VouchesEmpty DEF WiresVouched
<1> QED
  BY <1>2, <1>3, <1>4, <1>5, <1>6, <1>7, <1>8, <1>9, <1>10, <1>11 DEF Next, HubStep

LEMMA NextVouched == OwnInv /\ Typed /\ Vouched /\ [Next]_vars => Vouched'
<1> SUFFICES ASSUME OwnInv, Typed, Vouched, [Next]_vars PROVE Vouched'
  OBVIOUS
<1>1. WiresVouched /\ \A r \in ended' : r.ok => r.id \in Proven'
  BY FramesVouched
<1>2. RowMoves /\ RowsOK
  BY NextRowMoves, Types DEF HubOK
<1>3. ASSUME NEW b \in Ids, row'[b] = "executed" PROVE b \in Proven'
  <2>1. CASE row[b] = "executed"
    BY <1>1, <2>1 DEF Vouched, WiresVouched
  <2>2. CASE row[b] # "executed"
    <3>1. \E r \in ended : r.id = b /\ r.ok
      BY <1>2, <1>3, <2>2, SetRowType DEF RowMoves, DoIt
    <3> QED
      BY <1>1, <3>1 DEF Vouched, WiresVouched
  <2> QED
    BY <2>1, <2>2
<1> QED
  BY <1>1, <1>3 DEF Vouched, WiresVouched

-----------------------------------------------------------------------------
LEMMA InitRunInv == Init => RunInv
<1> SUFFICES ASSUME Init PROVE RunInv
  OBVIOUS
<1>1. \A h \in Handlers : handler[h].pc = "idle"
  BY DEF Init, Idle
<1>2. HandlersOK
  BY <1>1 DEF Init, HandlersOK, HandlerState, Refiles, At
<1>6. HubOK /\ AgentOK
  BY <1>2, EmptySeq DEF Init, HubOK, RowsOK, RowStates, AgentOK
<1>7. Typed
  BY <1>6, Types DEF Init
<1>3. Calls /\ Alone
  BY <1>1 DEF Calls, Alone, Claims, Stages
<1>4. Waits /\ Asked /\ Held
  BY <1>6 DEF Init, Waits, Asked, Held, Unbegun, Unclaimed
<1>5. Vouched
  BY VouchesEmpty DEF Init, Vouched
<1> QED
  BY <1>3, <1>4, <1>5, <1>7 DEF RunInv

(* The claim of a row has one owner, a request begins one run, and what a  *)
(* run says of itself stays true of it wherever it waits.                  *)
THEOREM RunInvariant == Spec => []RunInv
<1>1. RunInv <=> Typed /\ OwnInv /\ Vouched
  BY DEF RunInv, OwnInv
<1> QED
  BY InitRunInv, <1>1, NextTyped, NextOwned, NextVouched, PTL DEF Spec

(* Every variable keeps its type.                                          *)
THEOREM DelegationTypeCorrect == Spec => []TypeOK
<1>1. RunInv => TypeOK
  BY DEF RunInv, Typed
<1> QED
  BY RunInvariant, <1>1, PTL

(* A delegation is executed, and told as done, only if the check that its  *)
(* brief names exited 0: no frame of another run, no replay of the outbox, *)
(* no late answer and no crash makes it so.                                *)
THEOREM DoneIsVerified == Spec => []DoneMeansVerified
<1>1. RunInv => DoneMeansVerified
  BY DEF RunInv, Held, Vouched, Proven, DoneMeansVerified
<1> QED
  BY RunInvariant, <1>1, PTL

-----------------------------------------------------------------------------
(* The abstract permit.                                                    *)

LEMMA PermitStep == RunInv /\ [Next]_vars => [Permit!Next]_(Permit!vars)
<1> SUFFICES ASSUME RunInv, [Next]_vars PROVE [Permit!Next]_(Permit!vars)
  OBVIOUS
<1> USE DEF Permit!vars
<1>0. OwnInv /\ Typed /\ RowsOK /\ AgentOK
  BY Types DEF RunInv, OwnInv, HubOK
<1>1. RowMoves
  BY <1>0, NextRowMoves
<1>2. ASSUME NEW a \in Ids, NEW s \in RowStates, SetRow(a, s), UNCHANGED starts,
             \/ row[a] = "absent" /\ s = "pending"
             \/ row[a] = "pending" /\ s \in DoIt \cup {"ignored"}
             \/ row[a] \in DoIt /\ s = "executing"
             \/ row[a] = "executing" /\ s \in {"failed", "executed"}
      PROVE  [Permit!Next]_(Permit!vars)
  <2>1. row'[a] = s /\ \A b \in Ids \ {a} : row'[b] = row[b]
    BY <1>0, <1>2, SetRowType
  <2>2. \A b \in Ids \ {a} : PermitOf'[b] = PermitOf[b]
    BY <2>1 DEF PermitOf
  <2>3. PermitOf' = [PermitOf EXCEPT ![a] = PermitOf'[a]]
    <3>1. PermitOf = [b \in Ids |-> PermitOf[b]] /\ PermitOf' = [b \in Ids |-> PermitOf'[b]]
      BY DEF PermitOf
    <3> QED
      BY <2>2, <3>1
  <2>4. CASE row[a] = "absent" /\ s = "pending"
    <3>1. PermitOf[a] = "absent" /\ PermitOf'[a] = "asked"
      BY <2>1, <2>4 DEF PermitOf, DoIt
    <3> QED
      BY <1>2, <2>3, <3>1 DEF Permit!Next, Permit!Ask, Permit!Move
  <2>5. CASE row[a] = "pending" /\ s \in DoIt
    <3>1. PermitOf[a] = "asked" /\ PermitOf'[a] = "granted"
      BY <2>1, <2>5 DEF PermitOf, DoIt
    <3> QED
      BY <1>2, <2>3, <3>1 DEF Permit!Next, Permit!Grant, Permit!Move
  <2>6. CASE row[a] = "pending" /\ s = "ignored"
    <3>1. PermitOf[a] = "asked" /\ PermitOf'[a] = "refused"
      BY <2>1, <2>6 DEF PermitOf, DoIt
    <3> QED
      BY <1>2, <2>3, <3>1 DEF Permit!Next, Permit!Refuse, Permit!Move
  <2>7. CASE row[a] \in DoIt /\ s = "executing"
    <3>1. PermitOf[a] = "granted" /\ PermitOf'[a] = "used"
      BY <2>1, <2>7 DEF PermitOf, DoIt
    <3> QED
      BY <1>2, <2>3, <3>1 DEF Permit!Next, Permit!Use, Permit!Move
  <2>8. CASE row[a] = "executing" /\ s \in {"failed", "executed"}
    <3>1. PermitOf[a] = "used" /\ PermitOf'[a] = "used"
      BY <2>1, <2>8 DEF PermitOf, DoIt
    <3>2. PermitOf' = PermitOf
      BY <2>3, <3>1 DEF PermitOf
    <3> QED
      BY <1>2, <3>2
  <2> QED
    BY <1>2, <2>4, <2>5, <2>6, <2>7, <2>8
<1>3. ASSUME NEW a \in Ids, StartRun(a) PROVE [Permit!Next]_(Permit!vars)
  <2>1. PermitOf' = PermitOf
    BY <1>3 DEF StartRun, rows, PermitOf
  <2>2. starts[a] = 0 /\ row[a] \notin Unclaimed
    BY <1>3 DEF StartRun, RunInv, Asked, Waits, Unbegun
  <2>3. PermitOf[a] = "used"
    BY <2>2 DEF PermitOf, Unclaimed, DoIt
  <2>4. starts' = starts \/ starts' = [starts EXCEPT ![a] = 1]
    BY <1>0, <1>3, <2>2 DEF StartRun, AgentOK
  <2> QED
    BY <2>1, <2>2, <2>3, <2>4 DEF Permit!Next, Permit!Act
<1>4. ASSUME UNCHANGED <<row, starts>> PROVE [Permit!Next]_(Permit!vars)
  BY <1>4 DEF PermitOf
<1>5. \/ \E a \in Ids : StartRun(a)
      \/ UNCHANGED starts
  <2>1. ASSUME NEW h \in Handlers, HandlerStep(h) PROVE UNCHANGED starts
    BY <2>1, HandlerLeavesAgent
  <2>2. CASE HubStep
    BY <2>1, <2>2 DEF HubStep, Propose, Accept, Ignore, ApplyRules, OnDecided, ReceiveAnswer,
       ReceiveCompleted, OnTurnCompleted, WriteResult, agent
  <2>3. ASSUME NEW a \in Ids, RunStep(a) PROVE StartRun(a) \/ UNCHANGED starts
    BY <2>3 DEF RunStep, AnswerStart, AnswerUnsent, AgentLost, RuntimeFails, RuntimeSaysDone,
       Verify, TurnTimeout
  <2>4. CASE Drain \/ Disconnect \/ HubCrash \/ AgentCrash \/ UNCHANGED vars
    BY <2>4 DEF Drain, Disconnect, HubCrash, AgentCrash, AgentLost, vars, agent
  <2>5. ASSUME NEW h \in Handlers, Connect(h) PROVE UNCHANGED starts
    BY <2>5 DEF Connect, agent
  <2> QED
    BY <2>2, <2>3, <2>4, <2>5 DEF Next
<1> QED
  BY <1>1, <1>2, <1>3, <1>4, <1>5 DEF RowMoves

(* From the gate to the runtime the chain keeps the promise of the         *)
(* one-shot permit: asked, granted once, used up by one claim, and acted   *)
(* on by one run at most.                                                  *)
THEOREM DelegationImplementsPermit == Spec => OneRunPerApproval
<1>1. Init => Permit!Init
  <2> SUFFICES ASSUME Init PROVE Permit!Init
    OBVIOUS
  <2>1. \A a \in Ids : row[a] = "absent"
    BY DEF Init
  <2>2. ASSUME NEW a \in Ids PROVE PermitOf[a] = "absent"
    BY <2>1 DEF PermitOf, DoIt
  <2>3. PermitOf = [a \in Ids |-> PermitOf[a]]
    BY DEF PermitOf
  <2>4. PermitOf = [a \in Ids |-> "absent"]
    BY <2>2, <2>3
  <2> QED
    BY <2>4 DEF Init, Permit!Init
<1> QED
  BY <1>1, RunInvariant, PermitStep, PTL DEF Spec, OneRunPerApproval, Permit!Spec
=============================================================================
