------------------------------ MODULE NightJobs ------------------------------
(***************************************************************************)
(* The jobs of a day that file something: cost_daily at 00:05, the monthly *)
(* cost report at 00:10 of the first, the morning briefing at 06:30, the   *)
(* count of missed follow-ups at 22:40 and the nightly digest at 23:00     *)
(* (packages/kernel/src/jobs, packages/agents/src/loops/digest-*.ts).  The *)
(* scheduler runs what is due in the order of registration, and a job that *)
(* was late is due again at its next hour.  The hub of this build gives    *)
(* the two digest loops no job; here they run at their crons.              *)
(*                                                                         *)
(* A day has five slots, one for each hour above and one between them.     *)
(***************************************************************************)
EXTENDS Naturals, Sequences, FiniteSets

CONSTANTS
  Meetings,          \* numbers: events with an attendee who is a person, as they end
  Months,            \* the days that begin a month
  LastDay,           \* bound on the days
  Spends,            \* what a day may cost, in tenths of the cap
  Cards,             \* what a briefing may list, in the order of the query
  SectionCap,        \* SECTION_CAPS
  Punctual,          \* the hub is up, and no kill switch is on, whenever a job is due
  MaxNightFaults     \* bound on failing statements

ASSUME NightAssumption ==
  /\ Meetings \subseteq Nat /\ Months \subseteq 1 .. LastDay /\ LastDay \in Nat /\ Punctual \in BOOLEAN
  /\ IsFiniteSet(Meetings) /\ MaxNightFaults \in Nat
  /\ Cards \in Seq([thread : Nat, section : DOMAIN SectionCap, score : Nat])

Slots == 5
Never == (LastDay + 2) * Slots
Day(t) == t \div Slots
Slot(t) == t % Slots

JobOrder == <<"cost_daily", "cost_report", "morning", "followup_miss", "nightly">>
Jobs == {JobOrder[i] : i \in DOMAIN JobOrder}
SlotOf == [cost_daily |-> 0, cost_report |-> 0, morning |-> 1, followup_miss |-> 3, nightly |-> 4]
RunsOn(j, d) == j = "cost_report" => d \in Months

VARIABLES
  clock, hubUp,
  due,               \* next_run_at
  job,               \* the handler that runs: its name, step and what it has read
  ended, replied,    \* when a meeting ended, and whether its people were written to since
  nights,            \* the digests of kind nightly, by day
  brief,             \* the digest of kind morning, while its slot lasts
  spent,             \* this month's cost, in tenths of the cap
  costLast, costTold,\* the setting cost.last_state, the state of the newest system item
  judged, filed,     \* history: nights that judged a meeting; metrics filed under a day
  nightFaults

nightVars == <<clock, hubUp, due, job, ended, replied, nights, brief, spent, costLast,
               costTold, judged, filed, nightFaults>>

NoJob == [name |-> "none", step |-> 0, number |-> 0, state |-> "normal"]
NoRow == [exists |-> FALSE, built |-> FALSE, tells |-> 0, missed |-> 0, keys |-> {}]
NoBrief == [listed |-> {}, quiet |-> 0]
RowDays == 0 .. LastDay + 1

\* nextRunAt: the next hour of the job after this one.
NextRunAt(j, t) ==
  LET times == {u \in t + 1 .. Never - 1 : Slot(u) = SlotOf[j] /\ RunsOn(j, Day(u))}
  IN IF times = {} THEN Never ELSE CHOOSE u \in times : \A v \in times : u <= v

NightInit ==
  /\ clock = 1 /\ hubUp = TRUE /\ job = NoJob
  /\ due = [j \in Jobs |-> NextRunAt(j, 0)]
  /\ ended = [m \in Meetings |-> Never] /\ replied = [m \in Meetings |-> FALSE]
  /\ nights = [d \in RowDays |-> NoRow] /\ brief = NoBrief
  /\ spent = 0 /\ costLast = "normal" /\ costTold = "normal"
  /\ judged = [m \in Meetings |-> 0] /\ filed = [d \in RowDays |-> {}] /\ nightFaults = 0

-----------------------------------------------------------------------------
(* The world: time, meetings, answers, costs, and a hub that is down or    *)
(* under the kill switch.                                                  *)

DueJobs == {j \in Jobs : due[j] <= clock}
Quiet == job = NoJob /\ (hubUp => DueJobs = {})

\* A meeting ends within the slot, so never at the instant of the count.
TimePasses ==
  /\ Quiet /\ (Punctual /\ ~hubUp => \A j \in Jobs : due[j] > clock + 1)
  /\ clock < (LastDay + 1) * Slots
  /\ clock' = clock + 1
  /\ \E c \in Spends :
       spent' = IF Slot(clock) # 2 THEN (IF Slot(clock') = 0 /\ Day(clock') \in Months THEN 0 ELSE spent)
                ELSE IF spent + c > 10 THEN 10 ELSE spent + c
  /\ brief' = NoBrief
  /\ UNCHANGED <<hubUp, due, job, ended, replied, nights, costLast, costTold, judged,
                 filed, nightFaults>>

MeetingEnds(m) ==
  /\ Quiet /\ Slot(clock) # SlotOf["followup_miss"]
  /\ ended[m] = Never /\ \A k \in Meetings : k < m => ended[k] # Never
  /\ ended' = [ended EXCEPT ![m] = clock]
  /\ UNCHANGED <<clock, hubUp, due, job, replied, nights, brief, spent, costLast, costTold,
                 judged, filed, nightFaults>>

\* A mail sent after the meeting was judged changes nothing any more.
IReply(m) ==
  /\ Quiet /\ ended[m] # Never /\ judged[m] = 0 /\ ~replied[m]
  /\ replied' = [replied EXCEPT ![m] = TRUE]
  /\ UNCHANGED <<clock, hubUp, due, job, ended, nights, brief, spent, costLast, costTold,
                 judged, filed, nightFaults>>

HubGoesDown ==
  /\ Quiet /\ hubUp /\ hubUp' = FALSE
  /\ UNCHANGED <<clock, due, job, ended, replied, nights, brief, spent, costLast, costTold,
                 judged, filed, nightFaults>>

HubComesUp ==
  /\ ~hubUp /\ hubUp' = TRUE
  /\ UNCHANGED <<clock, due, job, ended, replied, nights, brief, spent, costLast, costTold,
                 judged, filed, nightFaults>>

-----------------------------------------------------------------------------
(* The scheduler's tick.                                                   *)

FirstDue(j) ==
  /\ j \in DueJobs
  /\ \A i, k \in DOMAIN JobOrder : JobOrder[k] = j /\ i < k => JobOrder[i] \notin DueJobs

ClaimJob(j) ==
  /\ hubUp /\ job = NoJob /\ FirstDue(j)
  /\ job' = [NoJob EXCEPT !.name = j]
  /\ UNCHANGED <<clock, hubUp, due, ended, replied, nights, brief, spent, costLast, costTold,
                 judged, filed, nightFaults>>

Running(j, step) == job.name = j /\ job.step = step
Then(step) == job' = [job EXCEPT !.step = step] /\ UNCHANGED due
Return == job' = NoJob /\ due' = [due EXCEPT ![job.name] = NextRunAt(job.name, clock)]

\* A statement fails: the job is recorded failed and waits for its next hour.
JobFails ==
  /\ job # NoJob /\ nightFaults < MaxNightFaults /\ nightFaults' = nightFaults + 1 /\ Return
  /\ UNCHANGED <<clock, hubUp, ended, replied, nights, brief, spent, costLast, costTold,
                 judged, filed>>

World == <<clock, hubUp, ended, replied, spent, nightFaults>>

-----------------------------------------------------------------------------
(* costState and runCostDaily: a change is recorded, audited, then told.   *)

CostState(tenths) ==
  CASE tenths >= 10 -> "frozen" [] tenths = 9 -> "reserve_only" [] tenths = 8 -> "degraded"
    [] tenths \in {6, 7} -> "warn" [] OTHER -> "normal"

CostRead ==
  /\ Running("cost_daily", 0)
  /\ IF CostState(spent) = costLast THEN Return
     ELSE job' = [job EXCEPT !.step = 1, !.state = CostState(spent)] /\ UNCHANGED due
  /\ UNCHANGED <<World, nights, brief, costLast, costTold, judged, filed>>

CostRecordedOnly ==
  /\ Running("cost_daily", 1) /\ Return /\ costLast' = job.state
  /\ UNCHANGED <<World, nights, brief, costTold, judged, filed>>

CostRecorded ==
  /\ Running("cost_daily", 1) /\ Then(2) /\ costLast' = job.state
  /\ UNCHANGED <<World, nights, brief, costTold, judged, filed>>

CostTell ==
  /\ Running("cost_daily", 2) /\ costTold' = job.state /\ Return
  /\ UNCHANGED <<World, nights, brief, costLast, judged, filed>>

-----------------------------------------------------------------------------
(* The rows of kind nightly: each writer merges its own keys.              *)

File(d, keys, row) ==
  /\ nights' = [nights EXCEPT ![d] = row]
  /\ filed' = [filed EXCEPT ![d] = @ \cup keys]

\* attachReportToDigest: the last day of the month reported on; the row is made if missing.
CostReport ==
  /\ Running("cost_report", 0) /\ Return
  /\ LET d == (CHOOSE f \in Months : f <= Day(clock) /\ \A g \in Months : g <= Day(clock) => g <= f) - 1
     IN File(d, {"monthly_report"},
             [nights[d] EXCEPT !.exists = TRUE, !.keys = @ \cup {"monthly_report"}])
  /\ UNCHANGED <<World, brief, costLast, costTold, judged>>

\* MISS_QUERY: ended between 72 and 48 hours ago.
InWindow(m) == ended[m] + 3 * Slots >= clock /\ ended[m] + 2 * Slots <= clock
Missed(m) == InWindow(m) /\ ~replied[m]

CountMisses ==
  /\ Running("followup_miss", 0)
  /\ job' = [job EXCEPT !.step = 1, !.number = Cardinality({m \in Meetings : Missed(m)})]
  /\ judged' = [m \in Meetings |-> judged[m] + IF InWindow(m) THEN 1 ELSE 0]
  /\ UNCHANGED <<World, due, nights, brief, costLast, costTold, filed>>

\* Merged into the day's row; a night with nothing to count makes none.
FileMisses ==
  /\ Running("followup_miss", 1) /\ Return
  /\ LET d == Day(clock) IN
       IF nights[d].exists \/ job.number > 0
       THEN File(d, {"followup_miss"}, [nights[d] EXCEPT
              !.exists = TRUE, !.missed = job.number, !.keys = @ \cup {"followup_miss"}])
       ELSE UNCHANGED <<nights, filed>>
  /\ UNCHANGED <<World, brief, costLast, costTold, judged>>

NightlyReads ==
  /\ Running("nightly", 0)
  /\ job' = [job EXCEPT !.step = 1, !.number = nights[Day(clock)].missed]
  /\ UNCHANGED <<World, due, nights, brief, costLast, costTold, judged, filed>>

OwnKeys == {"archived", "cost_mtd_usd"}
MergedKeys(old) == old \cup OwnKeys

NightlyWrites ==
  /\ Running("nightly", 1) /\ Return
  /\ LET d == Day(clock) IN
       File(d, OwnKeys, [nights[d] EXCEPT !.exists = TRUE, !.built = TRUE, !.tells = job.number,
                                          !.keys = MergedKeys(@)])
  /\ UNCHANGED <<World, brief, costLast, costTold, judged>>

-----------------------------------------------------------------------------
(* The morning: rankBriefItems keeps the best card of a thread, a section  *)
(* the first of them in the order of the query, and the rest is a number.  *)

Ahead(i, k) ==
  \/ Cards[i].score > Cards[k].score
  \/ Cards[i].score = Cards[k].score /\ i < k
Ranked(present) ==
  {k \in present : ~\E i \in present : Cards[i].thread = Cards[k].thread /\ Ahead(i, k)}
Kept(ranked) ==
  {k \in ranked : LET s == Cards[k].section IN
     Cardinality({i \in ranked : i < k /\ Cards[i].section = s}) < SectionCap[s]}

Morning ==
  /\ Running("morning", 0) /\ Return
  /\ \E present \in SUBSET DOMAIN Cards :
       LET ranked == Ranked(present) kept == Kept(ranked) IN
       brief' = [listed |-> kept,
                 quiet |-> Cardinality(present \ ranked) + Cardinality(ranked \ kept)]
  /\ UNCHANGED <<World, nights, costLast, costTold, judged, filed>>

NightNext ==
  \/ TimePasses \/ HubGoesDown \/ HubComesUp \/ JobFails
  \/ \E m \in Meetings : MeetingEnds(m) \/ IReply(m)
  \/ \E j \in Jobs : ClaimJob(j)
  \/ CostRead \/ CostRecorded \/ CostTell \/ CostReport
  \/ CountMisses \/ FileMisses \/ NightlyReads \/ NightlyWrites \/ Morning

NightSpec == NightInit /\ [][NightNext]_nightVars

-----------------------------------------------------------------------------
(* Properties.                                                             *)

\* "A meeting is judged once" (followup-miss.ts): one night's count, and no more,
\* looks at a meeting, the one that falls 48 hours after its end.
JudgedOnce ==
  nightFaults = 0 => \A m \in Meetings :
    judged[m] <= 1 /\ (ended[m] + 3 * Slots < clock => judged[m] = 1)

\* The row of a night holds every number a job filed under its day, and its body
\* tells the misses it holds; no state of the costs is recorded and never told.
DigestIsWhole ==
  /\ \A d \in RowDays : nights[d].keys = filed[d]
  /\ nightFaults = 0 => \A d \in RowDays : nights[d].built => nights[d].tells = nights[d].missed
  /\ nightFaults = 0 /\ job.name # "cost_daily" => costTold = costLast

\* With its jobs in time and no fault, a night's jobs count what happened once and tell it.
NightIsTold == JudgedOnce /\ DigestIsWhole

=============================================================================
