------------------------------ MODULE AgentLoops ------------------------------
(***************************************************************************)
(* The agent loops of the hub (packages/agents/src/loop/start.ts, run.ts): *)
(* kernel events, the debounce window, and one runLoopSpec() call for each *)
(* window, step by step from its gates to its record in agent_runs, with   *)
(* the person who decides about a routed note meanwhile.                   *)
(*                                                                         *)
(* An event without an item is a note (note.created); one with an item is  *)
(* an item a reactive loop reads.  Times lie within one failure window.    *)
(***************************************************************************)
EXTENDS Naturals, Sequences, FiniteSets

CONSTANTS
  Events,       \* the events that reach the subscribers of startLoops
  Items, NoItem, ItemOf,  \* an item as one loop sees it: failures count per loop and item
  Threads, ThreadOf,      \* the thread of an item, for its loop
  FirstTier,    \* the tier of the loop the event wakes
  Decides,      \* what the loop's decide() may say: "skip", "rule", or "start" for neither
  ToolUsers,    \* events whose loop has a propose tool, and tells the model what to use it on
  FailureLimit, \* FAILURE_LIMIT
  MaxArrivals,  \* bound on the events that arrive
  MaxLoopFaults \* bound on failing statements and crashes

ASSUME LoopsAssumption ==
  /\ NoItem \notin Items /\ IsFiniteSet(Events)
  /\ ItemOf \in [Events -> Items \cup {NoItem}]
  /\ ThreadOf \in [{e \in Events : ItemOf[e] \in Items} -> Threads]
  /\ FirstTier \in [Events -> {"T1", "T2"}]
  /\ Decides \in [Events -> (SUBSET {"skip", "rule", "start"}) \ {{}}]
  /\ ToolUsers \subseteq {e \in Events : ItemOf[e] \in Items}
  /\ FailureLimit \in Nat /\ MaxArrivals \in Nat /\ MaxLoopFaults \in Nat

VARIABLES
  pending,      \* keys whose debounce window is open
  pc,           \* where the event, then its call, stands
  attempt,      \* the attempt of the call
  agentRuns,    \* the call's rows of agent_runs, each escalated_from the one before
  result,       \* what the call has stored: note.route_state, or a draft or task
  written,      \* system items the call has written
  optout,       \* items marked agent_optout
  late,         \* the call began when its item had failed too often (history)
  loopFaults

loopVars == <<pending, pc, attempt, agentRuns, result, written, optout, late, loopFaults>>

IsNote(e) == ItemOf[e] = NoItem

(* The key of an event is its loop and its payload's thread_id, or id: the *)
(* payload of note.created has note_id and body, and neither of the two.   *)
Key(e) == IF IsNote(e) THEN "note_route:" ELSE ThreadOf[e]

InTry == {"ask", "close", "block", "warn", "apply", "stored"}
Outside == {"count", "optout", "decide", "skip", "skipping", "rule", "ruled", "ruling",
            "start", "assemble", "over", "raise", "restart", "fail", "tell"}
Over == {"returned", "threw", "refused", "dead", "dropped"}

LoopsTypeOK ==
  /\ pending \subseteq {Key(e) : e \in Events}
  /\ pc \in [Events -> {"idle", "armed"} \cup InTry \cup Outside \cup Over]
  /\ attempt \in [Events -> 0 .. 2]
  /\ agentRuns \in [Events -> Seq([tier : {"T0", "T1", "T2"},
                                  outcome : {"running", "ok", "failed", "skipped", "blocked"}])]
  /\ \A e \in Events : Len(agentRuns[e]) <= 2
  /\ result \in [Events -> {"fresh", "proposed", "accepted", "none"}]
  /\ written \in [Events -> 0 .. 1]
  /\ optout \subseteq Items
  /\ late \in [Events -> BOOLEAN]
  /\ loopFaults \in 0 .. MaxLoopFaults

LoopsInit ==
  /\ pending = {}
  /\ pc = [e \in Events |-> "idle"]
  /\ attempt = [e \in Events |-> 0]
  /\ agentRuns = [e \in Events |-> <<>>]
  /\ result = [e \in Events |-> "fresh"]
  /\ written = [e \in Events |-> 0]
  /\ optout = {}
  /\ late = [e \in Events |-> FALSE]
  /\ loopFaults = 0

InFlight(e) == pc[e] \in {"armed"} \cup InTry \cup Outside

Goes(e, from, to) == pc[e] = from /\ pc' = [pc EXCEPT ![e] = to]

LastRun(e) == agentRuns[e][Len(agentRuns[e])]

(* recordRun() inserts a running row, finishRun() overwrites its outcome.  *)
RecordRun(e, tier) ==
  agentRuns' = [agentRuns EXCEPT ![e] = Append(@, [tier |-> tier, outcome |-> "running"])]

FinishRun(e, outcome) ==
  agentRuns' = [agentRuns EXCEPT ![e][Len(agentRuns[e])].outcome = outcome]

Failures(i) ==
  Cardinality({r \in Events \X (1 .. 2) : LET e == r[1] n == r[2] IN
    ItemOf[e] = i /\ n <= Len(agentRuns[e]) /\ agentRuns[e][n].outcome = "failed"})

-----------------------------------------------------------------------------
(* startLoops(): the first event of a key opens its window, the others of  *)
(* that window are dropped; the call is made when the window closes.       *)

Arrive(e) ==
  /\ Cardinality({f \in Events : pc[f] # "idle"}) < MaxArrivals
  /\ IF Key(e) \in pending THEN Goes(e, "idle", "dropped") ELSE Goes(e, "idle", "armed")
  /\ pending' = pending \cup {Key(e)}
  /\ UNCHANGED <<attempt, agentRuns, result, written, optout, late, loopFaults>>

AfterGates(e) == IF IsNote(e) THEN "start" ELSE "count"

Elapse(e) ==
  /\ Goes(e, "armed", AfterGates(e))
  /\ pending' = pending \ {Key(e)}
  /\ late' = [late EXCEPT ![e] = ~IsNote(e) /\ Failures(ItemOf[e]) >= FailureLimit]
  /\ UNCHANGED <<attempt, agentRuns, result, written, optout, loopFaults>>

-----------------------------------------------------------------------------
(* runLoopSpec(): the failure gate and the T0 decisions.                   *)

TooManyFailuresLenient(i) == Failures(i) > FailureLimit

TooManyFailures(i) == Failures(i) >= FailureLimit

Count(e) ==
  /\ IF TooManyFailures(ItemOf[e]) THEN Goes(e, "count", "optout") ELSE Goes(e, "count", "decide")
  /\ UNCHANGED <<pending, attempt, agentRuns, result, written, optout, late, loopFaults>>

MarkOptOut(e) ==
  /\ Goes(e, "optout", "skip")
  /\ optout' = optout \cup {ItemOf[e]}
  /\ UNCHANGED <<pending, attempt, agentRuns, result, written, late, loopFaults>>

Decide(e) ==
  /\ \E to \in Decides[e] : Goes(e, "decide", to)
  /\ UNCHANGED <<pending, attempt, agentRuns, result, written, optout, late, loopFaults>>

Skip(e) ==
  /\ \/ Goes(e, "skip", "skipping") /\ RecordRun(e, "T0")
     \/ Goes(e, "skipping", "returned") /\ FinishRun(e, "skipped")
  /\ UNCHANGED <<pending, attempt, result, written, optout, late, loopFaults>>

Rule(e) ==
  /\ \/ Goes(e, "rule", "ruled") /\ RecordRun(e, "T0")
     \/ Goes(e, "ruled", "ruling") /\ FinishRun(e, "ok")
  /\ UNCHANGED <<pending, attempt, result, written, optout, late, loopFaults>>

-----------------------------------------------------------------------------
(* The model path: a run row, the context, up to three attempts.           *)

BeginRun(e) ==
  /\ Goes(e, "start", "assemble")
  /\ RecordRun(e, FirstTier[e])
  /\ UNCHANGED <<pending, attempt, result, written, optout, late, loopFaults>>

Assemble(e) ==
  /\ \E to \in {"ask", "over"} : Goes(e, "assemble", to)
  /\ UNCHANGED <<pending, attempt, agentRuns, result, written, optout, late, loopFaults>>

OverBudget(e) ==
  /\ Goes(e, "over", "refused")
  /\ FinishRun(e, "failed")
  /\ UNCHANGED <<pending, attempt, result, written, optout, late, loopFaults>>

(* While it is asked, the model may call the propose_* tools of its        *)
(* palette; of a note it is not written the id.  Its answer bears injection   *)
(* flags (the run is blocked) or none.                                     *)
CallTool(e) ==
  /\ pc[e] = "ask"
  /\ e \in ToolUsers
  /\ result' = [result EXCEPT ![e] = "proposed"]
  /\ UNCHANGED <<pending, pc, attempt, agentRuns, written, optout, late, loopFaults>>

Generate(e) ==
  /\ \E to \in {"close", "block"} : Goes(e, "ask", to)
  /\ UNCHANGED <<pending, attempt, agentRuns, result, written, optout, late, loopFaults>>

(* The attempt failed: the same tier once more, then one tier up once,     *)
(* then no more.                                                           *)

RetrySameTier(e) ==
  /\ pc' = [pc EXCEPT ![e] = "ask"]
  /\ attempt' = [attempt EXCEPT ![e] = 1]

Retry(e) ==
  IF attempt[e] = 0 THEN RetrySameTier(e)
  ELSE /\ pc' = [pc EXCEPT ![e] =
              IF attempt[e] = 1 /\ LastRun(e).tier = "T1" THEN "raise" ELSE "fail"]
       /\ attempt' = [attempt EXCEPT ![e] = 2]

GenerateFails(e) ==
  /\ pc[e] = "ask"
  /\ Retry(e)
  /\ UNCHANGED <<pending, agentRuns, result, written, optout, late, loopFaults>>

AfterBlock == "warn"

Close(e) ==
  /\ \/ Goes(e, "close", "apply") /\ FinishRun(e, "ok")
     \/ Goes(e, "block", AfterBlock) /\ FinishRun(e, "blocked")
  /\ UNCHANGED <<pending, attempt, result, written, optout, late, loopFaults>>

Warn(e) ==
  /\ Goes(e, "warn", "returned")
  /\ written' = [written EXCEPT ![e] = 1]
  /\ UNCHANGED <<pending, attempt, agentRuns, result, optout, late, loopFaults>>

(* apply(): the proposal is stored, whatever the row holds; or nothing is  *)
(* worth proposing, and a note still open is filed.                        *)
Store(e) == result' = [result EXCEPT ![e] = "proposed"]

File(e) ==
  result' = [result EXCEPT ![e] = IF IsNote(e) /\ @ \in {"fresh", "proposed"} THEN "none" ELSE @]

Apply(e) ==
  /\ Goes(e, "apply", "stored") \/ Goes(e, "ruling", "returned")
  /\ Store(e) \/ File(e)
  /\ UNCHANGED <<pending, attempt, agentRuns, written, optout, late, loopFaults>>

ReturnAgain(e) == pc[e] = "stored" /\ Retry(e)

Returns(e) == Goes(e, "stored", "returned") /\ UNCHANGED attempt

Finish(e) ==
  /\ Returns(e)
  /\ UNCHANGED <<pending, agentRuns, result, written, optout, late, loopFaults>>

LeaveRun(e) == UNCHANGED agentRuns

FailRun(e) == FinishRun(e, "failed")

Raise(e) ==
  /\ \/ Goes(e, "raise", "restart") /\ FailRun(e)
     \/ Goes(e, "restart", "ask") /\ RecordRun(e, "T2")
  /\ UNCHANGED <<pending, attempt, result, written, optout, late, loopFaults>>

GiveUpQuietly(e) ==
  /\ Goes(e, "fail", "threw") /\ FailRun(e)
  /\ UNCHANGED <<pending, attempt, result, written, optout, late, loopFaults>>

GiveUp(e) ==
  /\ \/ Goes(e, "fail", "tell") /\ FailRun(e) /\ UNCHANGED written
     \/ Goes(e, "tell", "threw") /\ written' = [written EXCEPT ![e] = 1] /\ UNCHANGED agentRuns
  /\ UNCHANGED <<pending, attempt, result, optout, late, loopFaults>>

-----------------------------------------------------------------------------
(* A statement fails: within the try it is a failed attempt, outside it    *)
(* ends the call.  A crash ends them all and forgets the open windows.     *)

LoopFault == loopFaults < MaxLoopFaults /\ loopFaults' = loopFaults + 1

StatementFails(e) ==
  /\ \/ pc[e] \in InTry \ {"ask"} /\ Retry(e)
     \/ pc[e] \in Outside /\ pc' = [pc EXCEPT ![e] = "threw"] /\ UNCHANGED attempt
  /\ LoopFault
  /\ UNCHANGED <<pending, agentRuns, result, written, optout, late>>

Crash ==
  /\ LoopFault
  /\ pc' = [e \in Events |->
       IF InFlight(e) THEN "dead" ELSE pc[e]]
  /\ pending' = {}
  /\ UNCHANGED <<attempt, agentRuns, result, written, optout, late>>

-----------------------------------------------------------------------------
(* decideNoteRouting(): the Notes screen offers it while a proposal shows. *)
DecideNoteRouting(e, accept) ==
  /\ IsNote(e)
  /\ result[e] = "proposed"
  /\ result' = [result EXCEPT ![e] = IF accept THEN "accepted" ELSE "none"]
  /\ UNCHANGED <<pending, pc, attempt, agentRuns, written, optout, late, loopFaults>>

LoopStep(e) ==
  InFlight(e) /\
    \/ Elapse(e) \/ Count(e) \/ MarkOptOut(e) \/ Decide(e) \/ Skip(e) \/ Rule(e)
    \/ BeginRun(e) \/ Assemble(e) \/ OverBudget(e)
    \/ Generate(e) \/ GenerateFails(e) \/ Close(e) \/ Warn(e) \/ Apply(e) \/ Finish(e)
    \/ Raise(e) \/ GiveUp(e)

LoopsNext ==
  \/ \E e \in Events :
       \/ Arrive(e) \/ LoopStep(e) \/ CallTool(e) \/ StatementFails(e)
       \/ \E accept \in BOOLEAN : DecideNoteRouting(e, accept)
  \/ Crash

LoopsSpec == LoopsInit /\ [][LoopsNext]_loopVars

(* Timers fire, statements answer, and a model call ends by its deadline.  *)
LoopsFairness == \A e \in Events : WF_loopVars(LoopStep(e))

LoopsFairSpec == LoopsSpec /\ LoopsFairness

-----------------------------------------------------------------------------
(* agent_runs tells how the calls went: an escalated run names a failed    *)
(* one, a call that returned has no run left open and none that failed     *)
(* last, a call that gave up has only failed ones.                         *)
LedgerMatches ==
  \A e \in Events :
    /\ \A n \in 1 .. Len(agentRuns[e]) - 1 : agentRuns[e][n].outcome = "failed"
    /\ pc[e] = "returned" => LastRun(e).outcome \in {"ok", "blocked", "skipped"}
    /\ pc[e] \in {"threw", "refused"} /\ loopFaults = 0 => LastRun(e).outcome = "failed"

(* A call that begins when its item has failed too often asks no model,    *)
(* whatever other calls on the item are doing.                             *)
LimitStops ==
  \A e \in Events : late[e] =>
    \A n \in DOMAIN agentRuns[e] : agentRuns[e][n].tier = "T0"

(* What a person has accepted stays accepted: no retry of the loop that    *)
(* proposed it comes after it, unless a statement failed.                  *)
HumanChoiceStands ==
  [][\A e \in Events : result[e] = "accepted" => result'[e] = "accepted" \/ loopFaults' > 0]_loopVars

(* Every call that is made ends, and its failure is shown in the inbox;    *)
(* except when the context is over the budget, or a fault came between.    *)
FailureIsShown ==
  \A e \in Events :
    pc[e] = "armed"
      ~> \/ pc[e] \in {"returned", "refused"}
         \/ pc[e] = "threw" /\ written[e] = 1
         \/ loopFaults > 0

\* The ledger of runs is what the failure limit can rely on: it tells how each
\* call went, and a call that begins over the limit asks no model.
LedgerBinds == LedgerMatches /\ LimitStops

=============================================================================
