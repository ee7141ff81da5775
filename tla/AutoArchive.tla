----------------------------- MODULE AutoArchive -----------------------------
(***************************************************************************)
(* The auto-archive loop (packages/agents/src/loops/auto-archive.ts), the  *)
(* nightly digest that shows what it did (digest-nightly.ts), and the      *)
(* Digest screen's restores (desktop Digest.tsx, hub archive-routes.ts,    *)
(* kernel archive.ts).                                                     *)
(*                                                                         *)
(* A run asks the hard gate, reads the item, lets a rule or a model speak, *)
(* and archives with one UPDATE; each is a statement of its own, so other  *)
(* runs, restores and midnight come between them.                          *)
(***************************************************************************)
EXTENDS Naturals, FiniteSets

CONSTANTS
  Mails,
  Threads, ThreadOf,
  Bulk,           \* items a rule archives: a sender that is no human, and no question
  Guarded,        \* items the gate blocks for what they are: sensitivity, vip, flags, kind
  Runs,           \* runs of the loop under way: the reactive ones and the 22:00 sweep's
  Restores,       \* calls of undoArchive under way
  Nobody,         \* no item
  MaxDay,         \* bound on the days
  UndoDays,       \* UNDO_WINDOW_DAYS
  ExclusionDays,  \* REARCHIVE_EXCLUSION_DAYS
  Straddles,      \* whether a run may still be under way when its day ends
  MaxAutoFaults   \* bound on hub crashes

ASSUME ArchiveAssumption ==
  /\ ThreadOf \in [Mails -> Threads]
  /\ Bulk \subseteq Mails /\ Guarded \subseteq Mails
  /\ Nobody \notin Mails
  /\ MaxDay \in Nat \ {0} /\ UndoDays \in Nat /\ ExclusionDays \in Nat /\ MaxAutoFaults \in Nat
  /\ Straddles \in BOOLEAN

VARIABLES
  day,      \* the KST day
  digests,  \* digests[d]: the nightly row of day d, <<>> before 23:00
  item,     \* status and meta.archived_by
  thread,   \* pending approval, my reply, no_auto_archive_until; the day of the last revival
  run,
  restore,  \* undoArchive between its UPDATE of items and those of threads
  back,     \* what the Digest screen shows as Restored: items and tokens
  autoFaults

autoVars == <<day, digests, item, thread, run, restore, back, autoFaults>>

Days == 1 .. MaxDay
Reasons == {"rule", "model"}
NoStamp == [at |-> 0, token |-> <<>>, reason |-> "rule"]
Resting == [pc |-> "idle", item |-> Nobody, day |-> 0, reason |-> "rule", revived |-> FALSE]

\* undoTokenFor(digestIdFor(now), reason): a hash both sides can recompute.
UndoToken(d, reason) == <<d, reason>>

AutoInit ==
  /\ day = 1
  /\ digests = [d \in Days |-> <<>>]
  /\ item = [i \in Mails |-> [status |-> "absent", by |-> NoStamp]]
  /\ thread = [t \in Threads |-> [pending |-> FALSE, replied |-> FALSE, until |-> 0, revived |-> 0]]
  /\ run = [r \in Runs |-> Resting]
  /\ restore = [u \in Restores |-> [pc |-> "idle", threads |-> {}, shows |-> {}]]
  /\ back = {}
  /\ autoFaults = 0

Goto(r, pc) == run' = [run EXCEPT ![r].pc = pc]
Leave(r) == run' = [run EXCEPT ![r] = Resting]

-----------------------------------------------------------------------------
(* The inbox: mail arrives, approvals are raised and settled, I reply.     *)

Label(i) ==
  /\ item[i].status = "absent"
  /\ item' = [item EXCEPT ![i].status = "received"]
  /\ UNCHANGED <<day, digests, thread, run, restore, back, autoFaults>>

AskApproval(t) ==
  /\ thread' = [thread EXCEPT ![t].pending = ~@]
  /\ UNCHANGED <<day, digests, item, run, restore, back, autoFaults>>

Reply(t) ==
  /\ ~thread[t].replied
  /\ thread' = [thread EXCEPT ![t].replied = TRUE]
  /\ UNCHANGED <<day, digests, item, run, restore, back, autoFaults>>

-----------------------------------------------------------------------------
(* A run.                                                                   *)

Begin(r, i) ==
  /\ run[r].pc = "idle"
  /\ item[i].status = "received"
  /\ run' = [run EXCEPT ![r] = [Resting EXCEPT !.pc = "gate", !.item = i, !.day = day]]
  /\ UNCHANGED <<day, digests, item, thread, restore, back, autoFaults>>

ThreadOfRun(r) == thread[ThreadOf[run[r].item]]

\* Until when a revival excludes its thread, by A4 9.4.
Spared(t) == t.revived # 0 /\ day < t.revived + ExclusionDays

BlockedAtFirst(r) == run[r].item \in Guarded \/ ThreadOfRun(r).pending

Blocked(r) ==
  \/ run[r].item \in Guarded
  \/ ThreadOfRun(r).pending
  \/ ThreadOfRun(r).until > day

HardGate(r) ==
  /\ run[r].pc = "gate"
  /\ IF Blocked(r)
       THEN Leave(r)
       ELSE run' = [run EXCEPT ![r].pc = "read", ![r].revived = Spared(ThreadOfRun(r))]
  /\ UNCHANGED <<day, digests, item, thread, restore, back, autoFaults>>

\* archiveRow() and t0Verdict().
T0Verdict(r) ==
  /\ run[r].pc = "read"
  /\ IF run[r].item \in Bulk /\ ~ThreadOfRun(r).replied THEN Goto(r, "apply") ELSE Goto(r, "ask")
  /\ UNCHANGED <<day, digests, item, thread, restore, back, autoFaults>>

\* The decision model or T1: sure enough to archive, or not.
AskModel(r, sure) ==
  /\ run[r].pc = "ask"
  /\ IF sure THEN run' = [run EXCEPT ![r].pc = "apply", ![r].reason = "model"] ELSE Leave(r)
  /\ UNCHANGED <<day, digests, item, thread, restore, back, autoFaults>>

\* at is the clock of the UPDATE, the token's day is the trigger's.
StampUTC(r) == [at |-> day, token |-> UndoToken(day - 1, run[r].reason), reason |-> run[r].reason]

Stamp(r) == [at |-> day, token |-> UndoToken(run[r].day, run[r].reason), reason |-> run[r].reason]

ApplyArchive(r) ==
  /\ run[r].pc = "apply"
  /\ item' = [item EXCEPT ![run[r].item] =
       IF @.status = "received" THEN [status |-> "archived", by |-> Stamp(r)] ELSE @]
  /\ Leave(r)
  /\ UNCHANGED <<day, digests, thread, restore, back, autoFaults>>

-----------------------------------------------------------------------------
(* 23:00 and midnight.                                                      *)

ArchivedSince(d) == {i \in Mails : item[i].status = "archived" /\ item[i].by.at >= d}

NightlyGroups ==
  {[reason |-> reason, token |-> UndoToken(day, reason),
    items |-> {i \in ArchivedSince(day) : item[i].by.reason = reason}] : reason \in Reasons}

NightlyDigest ==
  /\ digests[day] = <<>>
  /\ digests' = [digests EXCEPT ![day] = <<{g \in NightlyGroups : g.items # {}}>>]
  /\ UNCHANGED <<day, item, thread, run, restore, back, autoFaults>>

Midnight ==
  /\ day < MaxDay
  /\ digests[day] # <<>>
  /\ Straddles \/ \A r \in Runs : run[r].pc = "idle"
  /\ day' = day + 1
  /\ UNCHANGED <<digests, item, thread, run, restore, back, autoFaults>>

-----------------------------------------------------------------------------
(* The screen shows the newest digest; a group or an item of it is         *)
(* restored by undoArchive: first the items, then their threads.           *)

Newest == IF digests[day] # <<>> THEN digests[day] ELSE IF day > 1 THEN digests[day - 1] ELSE <<>>
Shown == IF Newest = <<>> THEN {} ELSE Newest[1]

Undoable(i) == item[i].status = "archived" /\ item[i].by.at + UndoDays > day

UndoArchive(u, rows, shows) ==
  /\ restore[u].pc = "idle"
  /\ item' = [i \in Mails |-> IF i \in rows THEN [item[i] EXCEPT !.status = "received"] ELSE item[i]]
  /\ restore' = [restore EXCEPT ![u] =
       [pc |-> "threads", threads |-> {ThreadOf[i] : i \in rows}, shows |-> shows]]
  /\ UNCHANGED <<day, digests, thread, run, back, autoFaults>>

RestoreItem(u, g, i) ==
  /\ i \in g.items
  /\ g.token \notin back /\ i \notin back
  /\ UndoArchive(u, {i} \cap {j \in Mails : Undoable(j)}, {i})

TokenMatches(g) == {i \in Mails : Undoable(i) /\ item[i].by.token = g.token}

RestoreGroup(u, g) ==
  /\ g.token \notin back
  /\ UndoArchive(u, TokenMatches(g), {g.token})

Exclude(t, u) ==
  IF t \in restore[u].threads
    THEN [thread[t] EXCEPT !.until = day + ExclusionDays, !.revived = day]
    ELSE thread[t]

\* The UPDATE of each thread, the audit rows, and the answer.
UndoArchiveEnds(u) ==
  /\ restore[u].pc = "threads"
  /\ thread' = [t \in Threads |-> Exclude(t, u)]
  /\ back' = back \cup restore[u].shows
  /\ restore' = [restore EXCEPT ![u] = [pc |-> "idle", threads |-> {}, shows |-> {}]]
  /\ UNCHANGED <<day, digests, item, run, autoFaults>>

\* The hub exits: the screen is told that the restore failed.
Crash ==
  /\ autoFaults < MaxAutoFaults
  /\ autoFaults' = autoFaults + 1
  /\ run' = [r \in Runs |-> Resting]
  /\ restore' = [u \in Restores |-> [pc |-> "idle", threads |-> {}, shows |-> {}]]
  /\ UNCHANGED <<day, digests, item, thread, back>>

-----------------------------------------------------------------------------
RunStep(r) ==
  \/ HardGate(r)
  \/ T0Verdict(r)
  \/ \E sure \in BOOLEAN : AskModel(r, sure)
  \/ ApplyArchive(r)

AutoNext ==
  \/ \E i \in Mails : Label(i)
  \/ \E t \in Threads : AskApproval(t) \/ Reply(t)
  \/ \E r \in Runs : RunStep(r) \/ \E i \in Mails : Begin(r, i)
  \/ NightlyDigest \/ Midnight
  \/ \E u \in Restores :
       \/ \E g \in Shown : RestoreGroup(u, g) \/ \E i \in g.items : RestoreItem(u, g, i)
       \/ UndoArchiveEnds(u)
  \/ Crash

AutoSpec == AutoInit /\ [][AutoNext]_autoVars

-----------------------------------------------------------------------------
(* Properties.                                                             *)

(* A run that is about to archive asked its gate when no revival of the    *)
(* thread was younger than the 30 days: a restore that has been answered   *)
(* outlasts the runs that begin after it.                                  *)
RevivedIsLeftAlone ==
  \A r \in Runs : run[r].pc = "apply" => ~run[r].revived

(* What a digest lists in a group and is still archived carries the        *)
(* group's token, so that Restore all reaches it.                          *)
RestoreAllReaches ==
  \A d \in Days : digests[d] # <<>> =>
    \A g \in digests[d][1] : \A i \in g.items :
      item[i].status = "archived" /\ item[i].by.at = d /\ item[i].by.reason = g.reason
        => item[i].by.token = g.token
=============================================================================
