------------------------------ MODULE Delegation ------------------------------
(***************************************************************************)
(* A delegation from its approval to its result: the hub's executor        *)
(* (apps/hub/src/delegate-exec.ts), its bridge to one host                 *)
(* (apps/hub/src/bridge.ts) and the agent on that host                     *)
(* (apps/local-agent/src: delegate.ts, hub-client.ts, hub-sink.ts,         *)
(* outbox.ts).                                                             *)
(*                                                                         *)
(* The hub's handlers are chains of awaits, one action each.  The socket   *)
(* between hub and agent is a FIFO in each direction that loses what is in *)
(* flight when it drops.  Hub and agent die independently; the hub keeps   *)
(* the rows of pending_approvals, the agent keeps outbox.ndjson.           *)
(*                                                                         *)
(* The row's state and decision are one value here: Approvals.tla has the  *)
(* statements of the gate itself.                                          *)
(***************************************************************************)
EXTENDS Naturals, Sequences, FiniteSets

CONSTANTS
  Ids,           \* approvals, numbered in the order approvals.list() returns
  Offered,       \* those the delegation loop proposes
  FallbackOf,    \* FallbackOf[a]: the re-approval a rate limit of a proposes
  RulesCover,    \* those a delegation.allow_rules entry covers, guards passed
  Handlers,      \* executor calls the event loop may hold at once
  ListLimit,     \* the limit redrive() passes to approvals.list()
  AnswersFirst,  \* runtimes answer turn.start before the turn ends
  None,
  MaxFaults      \* bound on dropped sockets, hub crashes, agent crashes

ASSUME ConstantsAssumption ==
  /\ Ids \subseteq Nat
  /\ Offered \subseteq Ids
  /\ FallbackOf \in [Ids -> (Ids \ Offered) \cup {None}]
  /\ RulesCover \subseteq Ids
  /\ None \notin Ids /\ None \notin {"done", "failed"}
  /\ ListLimit \in Nat
  /\ AnswersFirst \in BOOLEAN
  /\ MaxFaults \in Nat

VARIABLES
  row,        \* pending_approvals.state, decided split by what was decided
  decidedBy,  \* decided_by: a human, a rule
  notices,    \* NOTIFY omnis_approval payloads not yet delivered
  handler,    \* execute() and redrive() calls in flight
  running,    \* the executor's Map of started sessions, by approval
  ended,      \* turn.completed received, its hook not yet run
  reports,    \* onTurnCompleted past the row, result line not yet written
  told,       \* the result line on the originating thread
  online,     \* the host's socket is open
  requests,   \* delegate.run on the wire
  up,         \* answers and notifications on the wire to the hub
  outbox,     \* the agent's durable queue
  run,        \* what the agent's runtime does for the approval
  answering,  \* runs whose startTurn() has not resolved
  verified,   \* the exit status of brief.verify was 0
  starts,     \* how often a runtime was started for the approval
  faults

rows == <<row, decidedBy, notices>>
hubVars == <<handler, running, ended, reports, told>>
wire == <<online, requests, up>>
agent == <<outbox, run, answering, verified, starts>>
vars == <<rows, hubVars, wire, agent, faults>>

(* Decided is "accepted" (accept, or edit), "garbled" (edit, with args      *)
(* that make no DelegationBrief) or "ignored".                             *)
DoIt == {"accepted", "garbled"}
RowStates ==
  DoIt \cup {"absent", "pending", "ignored", "executing", "executed", "failed"}
Steps == {"load", "claim", "switch", "waiting", "fail", "fail_limited", "propose"}
Idle == [pc |-> "idle", id |-> None, todo |-> {}]
Notices == [id : Ids, state : {"pending", "decided"}]
Results == [id : Ids, ok : BOOLEAN]
Messages == [kind : {"answer", "refused", "limited"}, id : Ids]
  \cup [kind : {"completed"}, id : Ids, ok : BOOLEAN]

TypeOK ==
  /\ row \in [Ids -> RowStates]
  /\ decidedBy \in [Ids -> {None, "human", "rule"}]
  /\ notices \subseteq Notices
  /\ handler \in [Handlers -> {Idle, [Idle EXCEPT !.pc = "list"]}
                               \cup [pc : Steps, id : Ids, todo : SUBSET Ids]]
  /\ running \subseteq Ids /\ answering \subseteq Ids /\ requests \subseteq Ids
  /\ ended \subseteq Results /\ reports \subseteq Results
  /\ told \in [Ids -> {None, "done", "failed"}]
  /\ online \in BOOLEAN
  /\ up \in Seq(Messages) /\ outbox \in Seq(Messages)
  /\ run \in [Ids -> {"none", "running", "verifying", "over", "lost"}]
  /\ verified \in [Ids -> BOOLEAN]
  /\ starts \in [Ids -> Nat]
  /\ faults \in 0 .. MaxFaults

Init ==
  /\ row = [a \in Ids |-> "absent"]
  /\ decidedBy = [a \in Ids |-> None]
  /\ notices = {}
  /\ handler = [h \in Handlers |-> Idle]
  /\ running = {} /\ ended = {} /\ reports = {}
  /\ told = [a \in Ids |-> None]
  /\ online = FALSE
  /\ requests = {} /\ up = <<>> /\ outbox = <<>>
  /\ run = [a \in Ids |-> "none"]
  /\ answering = {}
  /\ verified = [a \in Ids |-> FALSE]
  /\ starts = [a \in Ids |-> 0]
  /\ faults = 0

Fault == faults < MaxFaults /\ faults' = faults + 1

SetRow(a, s) == row' = [row EXCEPT ![a] = s]

-----------------------------------------------------------------------------
(* The gate, and the allow rules that answer a pending NOTIFY.             *)

ProposeRow(a) ==
  /\ row[a] = "absent"
  /\ SetRow(a, "pending")
  /\ notices' = notices \cup {[id |-> a, state |-> "pending"]}
  /\ UNCHANGED decidedBy

Propose(a) ==
  /\ a \in Offered
  /\ ProposeRow(a)
  /\ UNCHANGED <<hubVars, wire, agent, faults>>

DecideRow(a, decision, who) ==
  /\ SetRow(a, decision)
  /\ decidedBy' = [decidedBy EXCEPT ![a] = who]

Accept(a) ==
  /\ row[a] = "pending"
  /\ \E decision \in DoIt : DecideRow(a, decision, "human")
  /\ notices' = notices \cup {[id |-> a, state |-> "decided"]}
  /\ UNCHANGED <<hubVars, wire, agent, faults>>

(* An ignored row stays decided; execute() returns on its NOTIFY.          *)
Ignore(a) ==
  /\ row[a] = "pending"
  /\ DecideRow(a, "ignored", "human")
  /\ UNCHANGED <<notices, hubVars, wire, agent, faults>>

ApplyRules(a) ==
  LET notice == [id |-> a, state |-> "pending"]
  IN  /\ notice \in notices
      /\ \/ /\ row[a] = "pending" /\ a \in RulesCover
            /\ DecideRow(a, "accepted", "rule")
            /\ notices' = (notices \ {notice}) \cup {[id |-> a, state |-> "decided"]}
         \/ /\ ~(row[a] = "pending" /\ a \in RulesCover)
            /\ notices' = notices \ {notice}
            /\ UNCHANGED <<row, decidedBy>>
      /\ UNCHANGED <<hubVars, wire, agent, faults>>

-----------------------------------------------------------------------------
(* execute(), called for a decided NOTIFY or by redrive() for each row in  *)
(* todo.                                                                   *)

At(h, pc) == handler[h].pc = pc
Goto(h, pc) == handler' = [handler EXCEPT ![h].pc = pc]

Load(id, todo) == [pc |-> "load", id |-> id, todo |-> todo]

(* What follows the return of execute(): the next row of redrive()'s list. *)
NextOf(todo) ==
  IF todo = {} THEN Idle
  ELSE LET a == CHOOSE a \in todo : \A b \in todo : a <= b
       IN  Load(a, todo \ {a})
Return(h) == handler' = [handler EXCEPT ![h] = NextOf(@.todo)]

OnDecided(h, a) ==
  LET notice == [id |-> a, state |-> "decided"]
  IN  /\ At(h, "idle")
      /\ notice \in notices
      /\ notices' = notices \ {notice}
      /\ handler' = [handler EXCEPT ![h] = Load(a, {})]
      /\ UNCHANGED <<row, decidedBy, running, ended, reports, told, wire, agent, faults>>

(* redrive() reads the first ListLimit decided rows, whatever was decided. *)
(* It skips the rows that are not delegations for this host.               *)
Decided == {a \in Ids : row[a] \in DoIt \cup {"ignored"}}
ListedNothing == {}
Listed == {a \in Decided : Cardinality({b \in Decided : b < a}) < ListLimit}

Redrive(h) ==
  /\ At(h, "list")
  /\ handler' = [handler EXCEPT ![h] = IF online THEN NextOf(Listed) ELSE Idle]
  /\ UNCHANGED <<rows, running, ended, reports, told, wire, agent, faults>>

(* loadDecided and the checks.  A row whose host is offline stays decided; *)
(* one whose args are garbage is failed all the same.                      *)
LoadDecided(h) ==
  LET a == handler[h].id
  IN  /\ At(h, "load")
      /\ IF row[a] = "garbled" \/ (row[a] = "accepted" /\ online)
           THEN Goto(h, "claim") ELSE Return(h)
      /\ UNCHANGED <<rows, running, ended, reports, told, wire, agent, faults>>

(* beginExecution's WHERE, and without its test of the state.              *)
ClaimableTwice(a) == row[a] \in DoIt \cup {"executing"}
Claimable(a) == row[a] \in DoIt

Claim(h) ==
  LET a == handler[h].id
  IN  /\ At(h, "claim")
      /\ \/ /\ Claimable(a)
            /\ SetRow(a, "executing")
            /\ Goto(h, IF row[a] = "garbled" THEN "fail" ELSE "switch")
         \/ ~Claimable(a) /\ Return(h) /\ UNCHANGED row
      /\ UNCHANGED <<decidedBy, notices, running, ended, reports, told, wire, agent, faults>>

(* killSwitch.isOn(), then bridge.call() up to the frame.  No connection   *)
(* for the host fails the call at once.                                    *)
Call(h) ==
  LET a == handler[h].id
  IN  /\ At(h, "switch")
      /\ \/ Goto(h, "fail") /\ UNCHANGED requests
         \/ online /\ Goto(h, "waiting") /\ requests' = requests \cup {a}
      /\ UNCHANGED <<rows, running, ended, reports, told, online, up, agent, faults>>

(* callTimeoutMs.  The run, if it began, goes on.                          *)
CallTimeout(h) ==
  /\ At(h, "waiting")
  /\ Goto(h, "fail")
  /\ UNCHANGED <<rows, running, ended, reports, told, wire, agent, faults>>

(* failExecution; onBridgeError goes on to proposeFallback.                *)
Fail(h) ==
  LET a == handler[h].id
  IN  /\ handler[h].pc \in {"fail", "fail_limited"}
      /\ SetRow(a, "failed")
      /\ IF At(h, "fail_limited") /\ FallbackOf[a] # None
           THEN Goto(h, "propose") ELSE Return(h)
      /\ UNCHANGED <<decidedBy, notices, running, ended, reports, told, wire, agent, faults>>

ProposeFallback(h) ==
  /\ At(h, "propose")
  /\ ProposeRow(FallbackOf[handler[h].id])
  /\ Return(h)
  /\ UNCHANGED <<running, ended, reports, told, wire, agent, faults>>

-----------------------------------------------------------------------------
(* The bridge's onMessage: an answer resolves its pending call at once, a  *)
(* notification joins the connection's queue.                              *)

Waiting(h, m) == At(h, "waiting") /\ handler[h].id = m.id

ReceiveAnswer ==
  /\ up # <<>>
  /\ LET m == Head(up)
     IN  /\ m.kind # "completed"
         /\ \/ \E h \in Handlers :
                 /\ Waiting(h, m)
                 /\ \/ /\ m.kind = "answer"
                       /\ running' = running \cup {m.id}
                       /\ Return(h)
                    \/ m.kind = "refused" /\ Goto(h, "fail") /\ UNCHANGED running
                    \/ m.kind = "limited" /\ Goto(h, "fail_limited") /\ UNCHANGED running
            \/ /\ \A h \in Handlers : ~Waiting(h, m)
               /\ UNCHANGED <<handler, running>>
  /\ up' = Tail(up)
  /\ UNCHANGED <<rows, ended, reports, told, online, requests, agent, faults>>

ReceiveCompleted ==
  /\ up # <<>>
  /\ Head(up).kind = "completed"
  /\ ended' = ended \cup {[id |-> Head(up).id, ok |-> Head(up).ok]}
  /\ up' = Tail(up)
  /\ UNCHANGED <<rows, handler, running, reports, told, online, requests, agent, faults>>

SettledForgetsFailure(ok) == IF ok THEN "executed" ELSE "executing"
Settled(ok) == IF ok THEN "executed" ELSE "failed"

(* The hook, once the turn line and the session state are written.  A      *)
(* session that is not in the Map is not a delegated turn.                 *)
OnTurnCompleted(r) ==
  /\ r \in ended
  /\ ended' = ended \ {r}
  /\ \/ /\ r.id \in running
        /\ running' = running \ {r.id}
        /\ SetRow(r.id, Settled(r.ok))
        /\ reports' = reports \cup {r}
     \/ r.id \notin running /\ UNCHANGED <<row, running, reports>>
  /\ UNCHANGED <<decidedBy, notices, handler, told, wire, agent, faults>>

ResultLine(ok) == IF ok THEN "done" ELSE "failed"

WriteResult(r) ==
  /\ r \in reports
  /\ reports' = reports \ {r}
  /\ told' = [told EXCEPT ![r.id] = ResultLine(r.ok)]
  /\ UNCHANGED <<rows, handler, running, ended, wire, agent, faults>>

-----------------------------------------------------------------------------
(* The agent.                                                              *)

(* HubClient.notify, and the outbox when the socket is not open.           *)
Emit(m) ==
  IF online THEN up' = Append(up, m) /\ UNCHANGED outbox
  ELSE outbox' = Append(outbox, m) /\ UNCHANGED up
Completed(a, ok) == [kind |-> "completed", id |-> a, ok |-> ok]

(* The process dies: runs and sessions are in memory only.                 *)
AgentLost ==
  /\ run' = [a \in Ids |-> IF run[a] \in {"running", "verifying"} THEN "lost" ELSE run[a]]
  /\ answering' = {}
  /\ online' = FALSE /\ requests' = {} /\ up' = <<>>
  /\ UNCHANGED <<outbox, verified, starts>>

(* delegate.run: refused by one of runDelegation's checks or by the        *)
(* runtime, perhaps for its rate limit, or started.                        *)
StartRun(a) ==
  /\ a \in requests
  /\ requests' = requests \ {a}
  /\ \/ /\ \E kind \in {"refused", "limited"} : up' = Append(up, [kind |-> kind, id |-> a])
        /\ UNCHANGED <<run, answering, starts>>
     \/ /\ run' = [run EXCEPT ![a] = "running"]
        /\ starts' = [starts EXCEPT ![a] = @ + 1]
        /\ answering' = answering \cup {a}
        /\ UNCHANGED up
  /\ UNCHANGED <<rows, hubVars, online, outbox, verified, faults>>

AnswerStart(a) ==
  /\ a \in answering
  /\ online
  /\ answering' = answering \ {a}
  /\ up' = Append(up, [kind |-> "answer", id |-> a])
  /\ UNCHANGED <<rows, hubVars, online, requests, outbox, run, verified, starts, faults>>

(* The socket is closed: onMessage's try throws, its catch throws again,   *)
(* and nobody handles the rejection of onMessage: the process ends.        *)
AnswerUnsent(a) ==
  /\ a \in answering
  /\ ~online
  /\ AgentLost
  /\ UNCHANGED <<rows, hubVars, faults>>

MayEnd(a) == run[a] = "running" /\ (AnswersFirst => a \notin answering)

RuntimeFails(a) ==
  /\ MayEnd(a)
  /\ run' = [run EXCEPT ![a] = "over"]
  /\ Emit(Completed(a, FALSE))
  /\ UNCHANGED <<rows, hubVars, online, requests, answering, verified, starts, faults>>

RuntimeSaysDone(a) ==
  /\ MayEnd(a)
  /\ run' = [run EXCEPT ![a] = "verifying"]
  /\ UNCHANGED <<rows, hubVars, wire, outbox, answering, verified, starts, faults>>

VerdictTrustsRuntime(exitZero) == TRUE
Verdict(exitZero) == exitZero

Verify(a) ==
  \E exitZero \in BOOLEAN :
    /\ run[a] = "verifying"
    /\ run' = [run EXCEPT ![a] = "over"]
    /\ verified' = [verified EXCEPT ![a] = exitZero]
    /\ Emit(Completed(a, Verdict(exitZero)))
    /\ UNCHANGED <<rows, hubVars, online, requests, answering, starts, faults>>

(* brief.timeout_ms.  The timer is set once startTurn() has resolved.      *)
TurnTimeout(a) ==
  /\ run[a] = "running" /\ a \notin answering
  /\ run' = [run EXCEPT ![a] = "over"]
  /\ Emit(Completed(a, FALSE))
  /\ UNCHANGED <<rows, hubVars, online, requests, answering, verified, starts, faults>>

(* handleHubOpen.                                                          *)
Drain ==
  /\ online /\ outbox # <<>>
  /\ up' = up \o outbox
  /\ outbox' = <<>>
  /\ UNCHANGED <<rows, hubVars, online, requests, run, answering, verified, starts, faults>>

-----------------------------------------------------------------------------
(* The socket and the processes.                                           *)

(* The upgrade fires redrive(); a call already in flight is not disturbed. *)
Connect(h) ==
  /\ ~online
  /\ online' = TRUE
  /\ At(h, "idle")
  /\ Goto(h, "list")
  /\ UNCHANGED <<rows, running, ended, reports, told, requests, up, agent, faults>>

Disconnect ==
  /\ online
  /\ Fault
  /\ online' = FALSE /\ requests' = {} /\ up' = <<>>
  /\ UNCHANGED <<rows, hubVars, agent>>

HubCrash ==
  /\ Fault
  /\ handler' = [h \in Handlers |-> Idle]
  /\ running' = {} /\ ended' = {} /\ reports' = {}
  /\ notices' = {}
  /\ online' = FALSE /\ requests' = {} /\ up' = <<>>
  /\ UNCHANGED <<row, decidedBy, told, agent>>

AgentCrash ==
  /\ Fault
  /\ AgentLost
  /\ UNCHANGED <<rows, hubVars>>

-----------------------------------------------------------------------------
HandlerStep(h) ==
  \/ Redrive(h) \/ LoadDecided(h) \/ Claim(h) \/ Call(h) \/ CallTimeout(h)
  \/ Fail(h) \/ ProposeFallback(h)

HubStep ==
  \/ \E a \in Ids : Propose(a) \/ Accept(a) \/ Ignore(a) \/ ApplyRules(a)
  \/ \E h \in Handlers, a \in Ids : OnDecided(h, a)
  \/ \E h \in Handlers : HandlerStep(h)
  \/ ReceiveAnswer \/ ReceiveCompleted
  \/ \E r \in Results : OnTurnCompleted(r) \/ WriteResult(r)

RunStep(a) ==
  \/ StartRun(a) \/ AnswerStart(a) \/ AnswerUnsent(a)
  \/ RuntimeFails(a) \/ RuntimeSaysDone(a) \/ Verify(a) \/ TurnTimeout(a)

Next ==
  \/ HubStep
  \/ \E a \in Ids : RunStep(a)
  \/ Drain
  \/ \E h \in Handlers : Connect(h)
  \/ Disconnect \/ HubCrash \/ AgentCrash

Spec == Init /\ [][Next]_vars

(* Both event loops run what is ready, calls and turns have timers, and    *)
(* HubClient reconnects for ever.  Nobody is obliged to decide.            *)
Fairness ==
  /\ \A h \in Handlers : WF_vars(HandlerStep(h))
  /\ \A a \in Ids : WF_vars(\E h \in Handlers : OnDecided(h, a))
  /\ WF_vars(ReceiveAnswer \/ ReceiveCompleted)
  /\ \A r \in Results : WF_vars(OnTurnCompleted(r)) /\ WF_vars(WriteResult(r))
  /\ \A a \in Ids : WF_vars(RunStep(a))
  /\ WF_vars(Drain)
  /\ WF_vars(\E h \in Handlers : Connect(h))

FairSpec == Spec /\ Fairness

-----------------------------------------------------------------------------
(* Properties.                                                             *)

PermitOf == [a \in Ids |->
  CASE row[a] = "absent" -> "absent"
    [] row[a] = "pending" -> "asked"
    [] row[a] \in DoIt -> "granted"
    [] row[a] = "ignored" -> "refused"
    [] OTHER -> "used"]

Permit == INSTANCE OneShotPermit WITH permit <- PermitOf, effects <- starts

(* The chain from the gate to the runtime implements the abstract permit:  *)
(* however NOTIFY, reconnects, lost frames, timeouts and crashes fall, a   *)
(* runtime is started at most once per approval, after it was accepted and *)
(* claimed, and a delegation that failed is not run again.                 *)
OneRunPerApproval == Permit!Spec

(* A delegation is marked executed, and reported done on its thread, only  *)
(* if brief.verify exited 0 on the host: a runtime's word, a frame of      *)
(* another run or a replayed outbox entry never makes it so.               *)
DoneMeansVerified ==
  \A a \in Ids :
    /\ row[a] = "executed" => verified[a] /\ run[a] = "over"
    /\ told[a] = "done" => row[a] = "executed"
    /\ told[a] = "failed" => row[a] = "failed"

(* An accepted delegation is claimed in the end, although its NOTIFY may   *)
(* find the host offline or be lost with the hub: a NOTIFY that finds the  *)
(* host online and the redrive of a reconnect miss none between them.      *)
AcceptedIsClaimed == \A a \in Ids : row[a] \in DoIt ~> row[a] \notin DoIt

(* Without a fault a claimed delegation ends executed or failed: an answer *)
(* that is late, a turn that ends while its start is being answered and a  *)
(* runtime that never ends do not leave it executing.                      *)
ClaimedIsSettled ==
  \A a \in Ids : row[a] = "executing" ~> (row[a] \in {"executed", "failed"} \/ faults > 0)

(* delegate-exec.ts:144: "Nothing runs until a human presses again": the   *)
(* re-approval after a rate limit runs only by a human's decision.         *)
RetryWaitsForHuman ==
  \A a \in Ids \ Offered : starts[a] > 0 => decidedBy[a] = "human"

\* An accepted delegation comes to an end: it is claimed, by the NOTIFY or the
\* redrive of a reconnect, and what was claimed is executed or failed.
AcceptedIsSettled == AcceptedIsClaimed /\ ClaimedIsSettled

=============================================================================
