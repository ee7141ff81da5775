------------------------------- MODULE Scheduler -------------------------------
(***************************************************************************)
(* The job scheduler of the hub (packages/kernel/src/scheduler.ts) under   *)
(* its kill switch: hub processes that boot, tick, claim rows of the jobs  *)
(* table, run their handlers, stop and crash.  Every await of a tick is a  *)
(* step of its own; a handler is whatever happens between claim and        *)
(* release, whether it returns or throws.                                  *)
(***************************************************************************)
EXTENDS KillSwitch

CONSTANTS
  Jobs,
  Early,        \* jobs registered before start(), in the order of the Map
  Late,         \* jobs registered after it
  NoJob,
  MaxFires,     \* bound on how often the clock makes a job due
  MaxFaults     \* bound on crashes, stops and failed statements

ASSUME SchedulerAssumption ==
  /\ Early \in Seq(Jobs) /\ Late \in Seq(Jobs)
  /\ NoJob \notin Jobs
  /\ MaxFires \in Nat /\ MaxFaults \in Nat

VARIABLES
  stage,        \* the process: down, its boot, serving, stopping
  tick,         \* the tick in flight; `ticking` is pc # "idle"
  claimed,      \* jobs.claimed_at IS NOT NULL
  due,          \* jobs.next_run_at <= now()
  fires,        \* how often a job fell due (history)
  runs,         \* how often a handler of the job was begun (history)
  faults

jobVars == <<claimed, due, fires, runs>>
vars == <<switchVars, stage, tick, jobVars, faults>>

Stages == {"down", "starting", "booting", "open", "stopping"}

(* `todo` are the jobs the loop has still to visit; `from` is the switch row the tick's answer rests on, 0 when the process *)
(* was still hearing of changes.                                           *)
NoTick == [pc |-> "idle", todo |-> <<>>, job |-> NoJob, from |-> 0]

TypeOK ==
  /\ SwitchTypeOK
  /\ stage \in [Hubs -> Stages]
  /\ tick \in [Hubs -> [pc : {"idle", "asking", "looping", "running"},
                        todo : Seq(Jobs), job : Jobs \cup {NoJob}, from : 0 .. Newest]]
  /\ claimed \in [Jobs -> BOOLEAN]
  /\ due \in [Jobs -> BOOLEAN]
  /\ fires \in [Jobs -> 0 .. MaxFires]
  /\ runs \in [Jobs -> Nat]
  /\ faults \in 0 .. MaxFaults

Init ==
  /\ SwitchInit
  /\ stage = [h \in Hubs |-> "down"]
  /\ tick = [h \in Hubs |-> NoTick]
  /\ claimed = [j \in Jobs |-> FALSE]
  /\ due = [j \in Jobs |-> FALSE]
  /\ fires = [j \in Jobs |-> 0]
  /\ runs = [j \in Jobs |-> 0]
  /\ faults = 0

Fault == faults < MaxFaults /\ faults' = faults + 1

Fire(j) ==
  /\ ~due[j]
  /\ fires[j] < MaxFires
  /\ due' = [due EXCEPT ![j] = TRUE]
  /\ fires' = [fires EXCEPT ![j] = @ + 1]
  /\ UNCHANGED <<switchVars, stage, tick, claimed, runs, faults>>

-----------------------------------------------------------------------------
(* The process: start() upserts the rows and awaits a first tick; only     *)
(* then are the late handlers registered and the HTTP server opened.       *)

Boot(h) ==
  /\ stage[h] = "down"
  /\ stage' = [stage EXCEPT ![h] = "starting"]
  /\ UNCHANGED <<switchVars, tick, jobVars, faults>>

Open(h) ==
  /\ stage[h] = "booting"
  /\ tick[h].pc = "idle"
  /\ stage' = [stage EXCEPT ![h] = "open"]
  /\ UNCHANGED <<switchVars, tick, jobVars, faults>>

(* stop() clears `running` and waits a while for the tick in flight; then  *)
(* the process exits, with that tick finished (Exit) or not (Crash).       *)
Stop(h) ==
  /\ stage[h] = "open"
  /\ Fault
  /\ stage' = [stage EXCEPT ![h] = "stopping"]
  /\ UNCHANGED <<switchVars, tick, jobVars>>

Ends(h) ==
  /\ stage' = [stage EXCEPT ![h] = "down"]
  /\ tick' = [tick EXCEPT ![h] = NoTick]
  /\ SwitchExit(h)
  /\ UNCHANGED jobVars

Exit(h) ==
  /\ stage[h] = "stopping"
  /\ tick[h].pc = "idle"
  /\ Ends(h)
  /\ UNCHANGED faults

Crash(h) ==
  /\ stage[h] # "down"
  /\ Fault
  /\ Ends(h)

-----------------------------------------------------------------------------
(* A tick: ask the switch, then each registered job in turn.               *)

Registered(h) == IF stage[h] = "open" THEN Early \o Late ELSE Early

(* The loop goes on with the jobs left, or the tick is over.               *)
VisitStuck(todo, row) ==
  [pc |-> "looping", todo |-> todo, job |-> NoJob, from |-> row]

Visit(todo, row) ==
  IF todo = <<>> THEN NoTick
  ELSE [pc |-> "looping", todo |-> todo, job |-> NoJob, from |-> row]

Settled(h) == IF Quiet(h) THEN heard[h] ELSE 0

AfterSwitch(h, position, row) ==
  tick' = [tick EXCEPT ![h] =
    IF position = "on" THEN NoTick ELSE Visit(Registered(h), row)]

MayTick(h) ==
  /\ stage[h] \in {"starting", "open"}
  /\ tick[h].pc = "idle"

(* The first tick is start()'s own, the others the interval's.             *)
Ticking(h) == stage' = [stage EXCEPT ![h] = IF @ = "starting" THEN "booting" ELSE @]

TickCached(h) ==
  /\ MayTick(h)
  /\ cached[h] # "none"
  /\ Ticking(h)
  /\ AfterSwitch(h, cached[h], Settled(h))
  /\ UNCHANGED <<switchVars, jobVars, faults>>

TickAsks(h) ==
  /\ MayTick(h)
  /\ AskRow(h)
  /\ Ticking(h)
  /\ tick' = [tick EXCEPT ![h].pc = "asking"]
  /\ UNCHANGED <<jobVars, faults>>

TickReads(h) ==
  /\ tick[h].pc = "asking"
  /\ ReadRow(h)
  /\ AfterSwitch(h, Value(Head(reading[h])), Head(reading[h]))
  /\ UNCHANGED <<stage, jobVars, faults>>

(* runOne(): the claim is one UPDATE that finds the row free and due, or   *)
(* nothing.                                                                *)
ClaimableTwice(j) == due[j]

Claimable(j) == ~claimed[j] /\ due[j]

Claim(h) ==
  /\ tick[h].pc = "looping"
  /\ tick[h].todo # <<>>
  /\ LET j == Head(tick[h].todo) IN
       /\ Claimable(j)
       /\ claimed' = [claimed EXCEPT ![j] = TRUE]
       /\ runs' = [runs EXCEPT ![j] = @ + 1]
       /\ tick' = [tick EXCEPT ![h].pc = "running", ![h].todo = Tail(@), ![h].job = j]
  /\ UNCHANGED <<switchVars, stage, due, fires, faults>>

PassOver(h) ==
  /\ tick[h].pc = "looping"
  /\ tick[h].todo # <<>>
  /\ ~Claimable(Head(tick[h].todo))
  /\ tick' = [tick EXCEPT ![h] = Visit(Tail(@.todo), @.from)]
  /\ UNCHANGED <<switchVars, stage, jobVars, faults>>

(* The handler has returned or thrown: the row gets its next run and is    *)
(* free again.                                                             *)
NextRunForgotten(j) == due

NextRun(j) == [due EXCEPT ![j] = FALSE]

Release(h) ==
  /\ tick[h].pc = "running"
  /\ claimed' = [claimed EXCEPT ![tick[h].job] = FALSE]
  /\ due' = NextRun(tick[h].job)
  /\ tick' = [tick EXCEPT ![h] = Visit(@.todo, @.from)]
  /\ UNCHANGED <<switchVars, stage, fires, runs, faults>>

(* A statement throws out of the tick, which tick() catches: the claim it  *)
(* may hold stays.                                                         *)
TickFails(h) ==
  /\ tick[h].pc # "idle"
  /\ Fault
  /\ tick' = [tick EXCEPT ![h] = NoTick]
  /\ IF tick[h].pc = "asking" THEN ReadFails(h) ELSE UNCHANGED switchVars
  /\ UNCHANGED <<stage, jobVars>>

-----------------------------------------------------------------------------
Up(h) == stage[h] # "down"

SwitchStep ==
  /\ \/ \E h \in Hubs : Up(h) /\ Listen(h)
     \/ \E h \in Hubs : Deliver(h)
     \/ \E h \in Hubs, position \in Positions :
          stage[h] = "open" /\ PressRecord(h, position)
     \/ \E n \in 1 .. Newest : PressCache(n) \/ PressEmit(n) \/ PressEmitFails(n)
  /\ UNCHANGED <<stage, tick, jobVars, faults>>

TickStep(h) ==
  \/ TickCached(h) \/ TickAsks(h) \/ TickReads(h)
  \/ Claim(h) \/ PassOver(h) \/ Release(h)

Next ==
  \/ SwitchStep
  \/ \E j \in Jobs : Fire(j)
  \/ \E h \in Hubs :
       \/ Boot(h) \/ Open(h) \/ Stop(h) \/ Exit(h) \/ Crash(h)
       \/ TickStep(h) \/ TickFails(h)

Spec == Init /\ [][Next]_vars

(* launchd restarts a hub that is down; the interval keeps ticking; SQL    *)
(* statements answer and handlers come to an end.                          *)
Fairness ==
  \A h \in Hubs :
    /\ WF_vars(Boot(h) \/ Open(h) \/ Exit(h))
    /\ WF_vars(TickStep(h))

FairSpec == Spec /\ Fairness

-----------------------------------------------------------------------------
(* However the ticks of two processes interleave, and whatever crashes, at *)
(* most one of them runs a job's handler.                                  *)
JobsNeverOverlap ==
  \A g, h \in Hubs : \A j \in Jobs :
    /\ tick[g].pc = "running" /\ tick[g].job = j
    /\ tick[h].pc = "running" /\ tick[h].job = j
    => g = h

(* A job that fell due once is begun once: neither another process, nor a  *)
(* restart in the middle of the handler, nor a failed release begins it    *)
(* again before its schedule comes round.                                  *)
OncePerDue == \A j \in Jobs : runs[j] <= fires[j]

(* A free job that falls due is claimed in the end, unless a process is    *)
(* told to stand still.                                                    *)
DueJobsRun ==
  \A j \in Jobs :
    due[j] /\ ~claimed[j] ~> claimed[j] \/ \E h \in Hubs : cached[h] = "on"
=============================================================================
