---------------------------- MODULE RecordsProofs ----------------------------
(***************************************************************************)
(* Theorems about what the hub records: the restores of auto-archive, the  *)
(* self-model, the poll of WhatsApp, the identities of authors, documents  *)
(* on their way into the memories and what the jobs of a night file; these *)
(* share no state.                                                         *)
(*                                                                         *)
(* Auto-archive: a revival writes the day until which the gate blocks its  *)
(* thread (RevivalsExclude); a token is made of the day a run began, so it *)
(* is that of the digest only where no run outlasts its day                *)
(* (TokensAreOfTheDay).                                                    *)
(*                                                                         *)
(* Self-model: the text of a patch is in the tree, the index and the       *)
(* commit as far as its apply has come (ProgressOf), because no other      *)
(* apply takes the path of the one patch file meanwhile (OneAtATime); the  *)
(* cache holds all that has returned (ReadersSee), since it is emptied     *)
(* before an apply returns.                                                *)
(*                                                                         *)
(* WhatsApp: the cursor moves to the time a pass began, so a pass must     *)
(* know by then what every chat it has left behind had been sent           *)
(* (Delivered), and the clock must not be behind any time that is written  *)
(* down (Timely).  A page that is cut off breaks it: the theorem asks that *)
(* no page is.                                                             *)
(*                                                                         *)
(* Identities: merges stay flat because of what a merge under way has      *)
(* found: its survivor was not merged away, and nothing merges it away     *)
(* before the merge is written (Survivor).  FollowMerges finds a survivor  *)
(* because merges are flat, so the two are one induction.                  *)
(*                                                                         *)
(* Documents: a listing has reached a time (Reaches), every change until   *)
(* then is in the memories or still on the list, and neither cursor is     *)
(* past it.  The cursors alone do not say so: the files of a scan come in  *)
(* any order, so the tick's cursor passes files that are still listed.     *)
(*                                                                         *)
(* Nights: who has been judged is read off the hour the count is due next  *)
(* (JudgedByNow), so no job may be late (InTime); a body tells what was    *)
(* counted because its hour is after the count's (BodiesTell).             *)
(***************************************************************************)
EXTENDS AutoArchive, SelfModel, WhatsAppFeed, Identity, MemoryIngest, NightJobs,
        FiniteSetTheorems, WellFoundedInduction, TLAPS

-----------------------------------------------------------------------------
(* The auto-archive loop and its restores.                                 *)

Stamps == [at : 0 .. MaxDay, token : {<<>>} \cup (Nat \X Reasons), reason : Reasons]
RunPcs == {"idle", "gate", "read", "ask", "apply"}
RunRecords ==
  [pc : RunPcs, item : Mails \cup {Nobody}, day : 0 .. MaxDay, reason : Reasons,
   revived : BOOLEAN]
ThreadRecords ==
  [pending : BOOLEAN, replied : BOOLEAN, until : Nat, revived : Nat]
ItemRecords == [status : {"absent", "received", "archived"}, by : Stamps]
Groups == [reason : Reasons, token : Nat \X Reasons, items : SUBSET Mails]

AutoTypes ==
  /\ day \in Days
  /\ digests \in [Days -> {<<>>} \cup {<<gs>> : gs \in SUBSET Groups}]
  /\ item \in [Mails -> ItemRecords]
  /\ thread \in [Threads -> ThreadRecords]
  /\ run \in [Runs -> RunRecords]
  /\ \A r \in Runs : run[r].pc # "idle" => run[r].item \in Mails
  /\ restore \in [Restores -> [pc : {"idle", "threads"}, threads : SUBSET Threads,
                               shows : SUBSET (Mails \cup (Nat \X Reasons))]]
  /\ back \subseteq Mails \cup (Nat \X Reasons)
  /\ autoFaults \in Nat

(* A revival writes the day until which the gate blocks its thread, so no   *)
(* run gets past its gate with a revival that is younger than that.         *)
RevivalsExclude ==
  /\ \A t \in Threads : thread[t].revived # 0 =>
       thread[t].until = thread[t].revived + ExclusionDays
  /\ \A r \in Runs : ~run[r].revived

(* Where no run outlasts its day, the day a token is made of is the day of  *)
(* the stamp; the token of a group is made of the day of its digest.        *)
TokensAreOfTheDay ==
  /\ \A r \in Runs : run[r].pc # "idle" => run[r].day = day
  /\ \A i \in Mails : item[i].status = "archived" =>
       item[i].by.token = UndoToken(item[i].by.at, item[i].by.reason)

GroupTokens ==
  \A d \in Days : digests[d] # <<>> =>
    \A g \in digests[d][1] : g.token = UndoToken(d, g.reason)

AutoInv == AutoTypes /\ RevivalsExclude

(* The gate blocks the thread of a revival that is young.                   *)
LEMMA SparedIsBlocked ==
  ASSUME AutoTypes, RevivalsExclude, NEW r \in Runs, run[r].item \in Mails, ~Blocked(r)
  PROVE  ~Spared(ThreadOfRun(r))
<1> DEFINE t == ThreadOf[run[r].item]
<1>1. t \in Threads /\ ThreadOfRun(r) = thread[t]
  BY ArchiveAssumption DEF ThreadOfRun
<1>2. thread[t].revived \in Nat /\ thread[t].until \in Nat
  <2>1. thread[t] \in ThreadRecords
    BY <1>1 DEF AutoTypes
  <2> QED
    BY <2>1 DEF ThreadRecords
<1> HIDE DEF t
<1>3. thread[t].until <= day
  BY <1>1, <1>2 DEF Blocked, AutoTypes, Days
<1>4. day \in Nat /\ ExclusionDays \in Nat
  BY ArchiveAssumption DEF AutoTypes, Days
<1>5. thread[t].revived # 0 => thread[t].until = thread[t].revived + ExclusionDays
  BY <1>1 DEF RevivalsExclude
<1> QED
  BY <1>1, <1>2, <1>3, <1>4, <1>5 DEF Spared

DayTokens == TokensAreOfTheDay /\ GroupTokens

(* A run takes a step and leaves everything else alone.                     *)
LEMMA RunTurns ==
  ASSUME AutoInv, NEW r \in Runs, run[r].pc # "idle",
         NEW n \in RunRecords, run' = [run EXCEPT ![r] = n], ~n.revived,
         n.pc = "idle" \/ (n.item = run[r].item /\ n.day = run[r].day),
         UNCHANGED <<day, digests, item, thread, restore, back, autoFaults>>
  PROVE  AutoInv' /\ (DayTokens => DayTokens')
<1>1. /\ run' \in [Runs -> RunRecords]
      /\ \A x \in Runs : run'[x] = IF x = r THEN n ELSE run[x]
  BY DEF AutoInv, AutoTypes
<1>2. \A x \in Runs : run'[x].pc # "idle" => run'[x].item \in Mails
  BY <1>1 DEF AutoInv, AutoTypes
<1>3. AutoTypes'
  BY <1>1, <1>2 DEF AutoInv, AutoTypes
<1>4. RevivalsExclude'
  BY <1>1 DEF AutoInv, RevivalsExclude
<1>5. DayTokens => DayTokens'
  BY <1>1 DEF DayTokens, TokensAreOfTheDay, GroupTokens
<1> QED
  BY <1>3, <1>4, <1>5 DEF AutoInv

(* What a run is, and what it is when it is over.                          *)
LEMMA RunFields ==
  ASSUME AutoInv
  PROVE  /\ Resting \in RunRecords /\ Resting.pc = "idle" /\ ~Resting.revived
         /\ \A r \in Runs :
              /\ run[r] \in RunRecords /\ run[r].day \in Nat /\ run[r].reason \in Reasons
              /\ ~run[r].revived
              /\ run[r].pc # "idle" => run[r].item \in Mails
<1>1. Resting \in RunRecords /\ Resting.pc = "idle" /\ ~Resting.revived
  BY ArchiveAssumption DEF Resting, RunRecords, RunPcs, Reasons
<1>2. \A r \in Runs : run[r] \in RunRecords
  BY DEF AutoInv, AutoTypes
<1>3. \A r \in Runs : run[r].day \in Nat /\ run[r].reason \in Reasons
  BY <1>2, ArchiveAssumption DEF RunRecords
<1> QED
  BY <1>1, <1>2, <1>3 DEF AutoInv, AutoTypes, RevivalsExclude

(* Steps that touch neither the runs, the items nor the digests.            *)
LEMMA ArchiveRests ==
  ASSUME AutoInv, UNCHANGED <<day, digests, item, run>>,
         thread' \in [Threads -> ThreadRecords],
         \A t \in Threads : thread'[t].revived # 0 =>
           thread'[t].until = thread'[t].revived + ExclusionDays,
         restore' \in [Restores -> [pc : {"idle", "threads"}, threads : SUBSET Threads,
                                    shows : SUBSET (Mails \cup (Nat \X Reasons))]],
         back' \subseteq Mails \cup (Nat \X Reasons), autoFaults' \in Nat
  PROVE  AutoInv' /\ (DayTokens => DayTokens')
<1>1. AutoTypes'
  BY DEF AutoInv, AutoTypes
<1>2. RevivalsExclude'
  BY DEF AutoInv, RevivalsExclude
<1>3. DayTokens => DayTokens'
  BY DEF DayTokens, TokensAreOfTheDay, GroupTokens
<1> QED
  BY <1>1, <1>2, <1>3 DEF AutoInv

(* A run begins, asks its gate, a rule or a model, and archives.            *)
LEMMA RunsKept ==
  ASSUME AutoInv, NEW r \in Runs, RunStep(r) \/ \E i \in Mails : Begin(r, i)
  PROVE  AutoInv' /\ (DayTokens => DayTokens')
<1>1. /\ Resting \in RunRecords /\ Resting.pc = "idle" /\ ~Resting.revived
      /\ run[r] \in RunRecords /\ run[r].day \in Nat /\ run[r].reason \in Reasons
      /\ ~run[r].revived
      /\ run[r].pc # "idle" => run[r].item \in Mails
  BY RunFields
<1>2. day \in Nat /\ day \in 0 .. MaxDay /\ run \in [Runs -> RunRecords]
  BY ArchiveAssumption DEF AutoInv, AutoTypes, Days
<1>3. ASSUME NEW i \in Mails, Begin(r, i)
      PROVE  AutoInv' /\ (DayTokens => DayTokens')
  <2> DEFINE n == [Resting EXCEPT !.pc = "gate", !.item = i, !.day = day]
  <2>1. n \in RunRecords /\ ~n.revived /\ n.item = i /\ n.day = day
    BY <1>2 DEF Resting, RunRecords, RunPcs, Reasons
  <2>2. run' = [run EXCEPT ![r] = n]
    BY <1>3 DEF Begin
  <2> HIDE DEF n
  <2>3. \A x \in Runs : run'[x] = IF x = r THEN n ELSE run[x]
    BY <2>2, <1>2
  <2>4. UNCHANGED <<day, digests, item, thread, restore, back, autoFaults>>
    BY <1>3 DEF Begin
  <2>5. run' \in [Runs -> RunRecords]
    BY <2>1, <2>2, <1>2
  <2>6. AutoTypes'
    BY <2>1, <2>3, <2>4, <2>5 DEF AutoInv, AutoTypes
  <2>7. RevivalsExclude'
    BY <2>1, <2>3, <2>4 DEF AutoInv, RevivalsExclude
  <2>8. DayTokens => DayTokens'
    BY <2>1, <2>3, <2>4 DEF DayTokens, TokensAreOfTheDay, GroupTokens
  <2> QED
    BY <2>6, <2>7, <2>8 DEF AutoInv
<1>4. ASSUME run[r].pc # "idle", NEW pc \in RunPcs, NEW reason \in Reasons,
             run' = [run EXCEPT ![r] = [run[r] EXCEPT !.pc = pc, !.reason = reason]],
             UNCHANGED <<day, digests, item, thread, restore, back, autoFaults>>
      PROVE  AutoInv' /\ (DayTokens => DayTokens')
  <2> DEFINE n == [run[r] EXCEPT !.pc = pc, !.reason = reason]
  <2>1. n \in RunRecords /\ ~n.revived /\ n.item = run[r].item /\ n.day = run[r].day
    BY <1>1 DEF RunRecords
  <2>2. run' = [run EXCEPT ![r] = n]
    BY <1>4
  <2> HIDE DEF n
  <2> QED
    BY <2>1, <2>2, <1>4, RunTurns
<1>5. ASSUME run[r].pc # "idle", Leave(r),
             UNCHANGED <<day, digests, item, thread, restore, back, autoFaults>>
      PROVE  AutoInv' /\ (DayTokens => DayTokens')
  <2> DEFINE n == Resting
  <2>1. n \in RunRecords /\ ~n.revived
    BY <1>1
  <2>2. n.pc = "idle" \/ (n.item = run[r].item /\ n.day = run[r].day)
    BY <1>1
  <2>3. run' = [run EXCEPT ![r] = n]
    BY <1>5 DEF Leave
  <2> HIDE DEF n
  <2>4. run[r].pc # "idle" /\ UNCHANGED <<day, digests, item, thread, restore, back, autoFaults>>
    BY <1>5
  <2> QED
    BY <2>1, <2>2, <2>3, <2>4, RunTurns
<1>6. CASE HardGate(r)
  <2>1. /\ run[r].pc # "idle"
        /\ UNCHANGED <<day, digests, item, thread, restore, back, autoFaults>>
    BY <1>6 DEF HardGate
  <2>2. CASE Blocked(r)
    BY <2>1, <2>2, <1>5, <1>6 DEF HardGate
  <2>3. CASE ~Blocked(r)
    <3> DEFINE n == [run[r] EXCEPT !.pc = "read", !.revived = FALSE]
    <3>1. ~Spared(ThreadOfRun(r))
      BY <2>1, <2>3, <1>1, SparedIsBlocked DEF AutoInv
    <3>2. run' = [run EXCEPT ![r] = [run[r] EXCEPT !.pc = "read",
                                                   !.revived = Spared(ThreadOfRun(r))]]
      BY <2>3, <1>6, <1>2 DEF HardGate
    <3>3. Spared(ThreadOfRun(r)) = FALSE
      BY <3>1 DEF Spared
    <3>4. run' = [run EXCEPT ![r] = n]
      BY <3>2, <3>3
    <3>5. n \in RunRecords /\ ~n.revived /\ n.item = run[r].item /\ n.day = run[r].day
      BY <1>1 DEF RunRecords, RunPcs
    <3> HIDE DEF n
    <3> QED
      BY <2>1, <3>4, <3>5, RunTurns
  <2> QED
    BY <2>2, <2>3
<1>7. CASE T0Verdict(r)
  <2>1. /\ run[r].pc # "idle"
        /\ UNCHANGED <<day, digests, item, thread, restore, back, autoFaults>>
        /\ Goto(r, "apply") \/ Goto(r, "ask")
    BY <1>7 DEF T0Verdict
  <2>2. ASSUME NEW pc \in RunPcs, Goto(r, pc)
        PROVE  run' = [run EXCEPT ![r] = [run[r] EXCEPT !.pc = pc, !.reason = run[r].reason]]
    <3>1. [run[r] EXCEPT !.pc = pc] = [run[r] EXCEPT !.pc = pc, !.reason = run[r].reason]
      BY <1>1 DEF RunRecords
    <3>2. run' = [run EXCEPT ![r] = [run[r] EXCEPT !.pc = pc]]
      BY <2>2, <1>2 DEF Goto
    <3> QED
      BY <3>1, <3>2
  <2>3. "apply" \in RunPcs /\ "ask" \in RunPcs
    BY DEF RunPcs
  <2> QED
    BY <2>1, <2>2, <2>3, <1>1, <1>4
<1>8. ASSUME NEW sure \in BOOLEAN, AskModel(r, sure)
      PROVE  AutoInv' /\ (DayTokens => DayTokens')
  <2>1. /\ run[r].pc # "idle"
        /\ UNCHANGED <<day, digests, item, thread, restore, back, autoFaults>>
    BY <1>8 DEF AskModel
  <2>2. CASE sure
    <3>1. run' = [run EXCEPT ![r] = [run[r] EXCEPT !.pc = "apply", !.reason = "model"]]
      BY <2>2, <1>8, <1>2 DEF AskModel
    <3>2. "apply" \in RunPcs /\ "model" \in Reasons
      BY DEF RunPcs, Reasons
    <3> QED
      BY <2>1, <3>1, <3>2, <1>4
  <2>3. CASE ~sure
    BY <2>1, <2>3, <1>5, <1>8 DEF AskModel
  <2> QED
    BY <2>2, <2>3
<1>9. CASE ApplyArchive(r)
  <2> DEFINE x == run[r].item
             s == [at |-> day, token |-> UndoToken(run[r].day, run[r].reason),
                   reason |-> run[r].reason]
             n == [status |-> "archived", by |-> s]
  <2>1. /\ run[r].pc # "idle" /\ x \in Mails /\ Leave(r)
        /\ UNCHANGED <<day, digests, thread, restore, back, autoFaults>>
    BY <1>1, <1>9 DEF ApplyArchive
  <2>2. item \in [Mails -> ItemRecords]
    BY DEF AutoInv, AutoTypes
  <2>3. item' = [item EXCEPT ![x] = IF item[x].status = "received" THEN n ELSE item[x]]
    BY <1>9, <2>1, <2>2 DEF ApplyArchive, Stamp
  <2>4. UndoToken(run[r].day, run[r].reason) \in Nat \X Reasons
    BY <1>1 DEF UndoToken
  <2>5. s \in Stamps
    BY <2>4, <1>1, <1>2 DEF Stamps
  <2>6. n \in ItemRecords /\ n.by.token = UndoToken(run[r].day, run[r].reason)
        /\ n.by.at = day /\ n.by.reason = run[r].reason
    BY <2>5 DEF ItemRecords
  <2> HIDE DEF n, s, x
  <2>7. /\ item' \in [Mails -> ItemRecords]
        /\ \A i \in Mails : item'[i] = item[i] \/ (i = x /\ item'[i] = n)
    <3>1. item'[x] = n \/ item'[x] = item[x]
      BY <2>1, <2>2, <2>3
    <3>2. \A i \in Mails : i # x => item'[i] = item[i]
      BY <2>2, <2>3
    <3>3. item[x] \in ItemRecords
      BY <2>1, <2>2
    <3>4. item' \in [Mails -> ItemRecords]
      BY <2>2, <2>3, <2>6, <3>3
    <3> QED
      BY <3>1, <3>2, <3>4
  <2>8. run' = [run EXCEPT ![r] = Resting]
    BY <2>1 DEF Leave
  <2>9. /\ run' \in [Runs -> RunRecords]
        /\ \A y \in Runs : run'[y] = IF y = r THEN Resting ELSE run[y]
    BY <2>8, <1>1, <1>2
  <2>10. AutoTypes'
    <3>1. \A y \in Runs : run'[y].pc # "idle" => run'[y].item \in Mails
      BY <2>9, <1>1 DEF AutoInv, AutoTypes
    <3> QED
      BY <2>1, <2>7, <2>9, <3>1 DEF AutoInv, AutoTypes
  <2>11. RevivalsExclude'
    BY <2>1, <2>9, <1>1 DEF AutoInv, RevivalsExclude
  <2>12. DayTokens => DayTokens'
    <3> SUFFICES ASSUME DayTokens
                 PROVE  DayTokens'
      OBVIOUS
    <3>1. run[r].day = day
      BY <2>1 DEF DayTokens, TokensAreOfTheDay
    <3>2. \A i \in Mails : item'[i].status = "archived" =>
            item'[i].by.token = UndoToken(item'[i].by.at, item'[i].by.reason)
      BY <2>6, <2>7, <3>1 DEF DayTokens, TokensAreOfTheDay
    <3>3. \A y \in Runs : run'[y].pc # "idle" => run'[y].day = day
      BY <2>9, <1>1 DEF DayTokens, TokensAreOfTheDay
    <3> QED
      BY <2>1, <3>2, <3>3 DEF DayTokens, TokensAreOfTheDay, GroupTokens
  <2> QED
    BY <2>10, <2>11, <2>12 DEF AutoInv
<1> QED
  BY <1>3, <1>6, <1>7, <1>8, <1>9 DEF RunStep

(* Every step keeps the types and what revivals exclude; where no run       *)
(* outlasts its day, the tokens too.                                       *)
LEMMA AutoKept ==
  ASSUME AutoInv, AutoNext
  PROVE  AutoInv' /\ (~Straddles /\ DayTokens => DayTokens')
<1>1. /\ item \in [Mails -> ItemRecords] /\ thread \in [Threads -> ThreadRecords]
      /\ day \in Nat /\ day \in Days /\ MaxDay \in Nat /\ ExclusionDays \in Nat
  BY ArchiveAssumption DEF AutoInv, AutoTypes, Days
<1>2. \A t \in Threads : thread[t].revived # 0 =>
        thread[t].until = thread[t].revived + ExclusionDays
  BY DEF AutoInv, RevivalsExclude
<1>3. /\ restore \in [Restores -> [pc : {"idle", "threads"}, threads : SUBSET Threads,
                                   shows : SUBSET (Mails \cup (Nat \X Reasons))]]
      /\ back \subseteq Mails \cup (Nat \X Reasons) /\ autoFaults \in Nat
  BY DEF AutoInv, AutoTypes
<1>4. ASSUME NEW i \in Mails, Label(i)
      PROVE  AutoInv' /\ (DayTokens => DayTokens')
  <2>1. /\ item' = [item EXCEPT ![i].status = "received"]
        /\ UNCHANGED <<day, digests, thread, run, restore, back, autoFaults>>
    BY <1>4 DEF Label
  <2>2. /\ item' \in [Mails -> ItemRecords]
        /\ \A j \in Mails : item'[j] = item[j] \/ item'[j].status = "received"
    BY <1>1, <2>1 DEF ItemRecords
  <2>3. AutoInv'
    BY <2>1, <2>2 DEF AutoInv, AutoTypes, RevivalsExclude
  <2>4. DayTokens => DayTokens'
    BY <2>1, <2>2 DEF DayTokens, TokensAreOfTheDay, GroupTokens
  <2> QED
    BY <2>3, <2>4
<1>5. ASSUME NEW t \in Threads, AskApproval(t) \/ Reply(t)
      PROVE  AutoInv' /\ (DayTokens => DayTokens')
  <2>1. UNCHANGED <<day, digests, item, run, restore, back, autoFaults>>
    BY <1>5 DEF AskApproval, Reply
  <2>2. /\ thread' \in [Threads -> ThreadRecords]
        /\ \A x \in Threads : thread'[x].revived = thread[x].revived
                           /\ thread'[x].until = thread[x].until
    <3>1. thread[t] \in ThreadRecords
      BY <1>1
    <3>2. \A b \in BOOLEAN :
            /\ [thread[t] EXCEPT !.pending = b] \in ThreadRecords
            /\ [thread[t] EXCEPT !.pending = b].revived = thread[t].revived
            /\ [thread[t] EXCEPT !.pending = b].until = thread[t].until
            /\ [thread[t] EXCEPT !.replied = b] \in ThreadRecords
            /\ [thread[t] EXCEPT !.replied = b].revived = thread[t].revived
            /\ [thread[t] EXCEPT !.replied = b].until = thread[t].until
      BY <3>1 DEF ThreadRecords
    <3>3. (~thread[t].pending) \in BOOLEAN /\ TRUE \in BOOLEAN
      OBVIOUS
    <3>4. \/ thread' = [thread EXCEPT ![t] = [thread[t] EXCEPT !.pending = ~thread[t].pending]]
          \/ thread' = [thread EXCEPT ![t] = [thread[t] EXCEPT !.replied = TRUE]]
      BY <1>1, <1>5 DEF AskApproval, Reply
    <3>5. PICK n \in ThreadRecords : /\ thread' = [thread EXCEPT ![t] = n]
                                     /\ n.revived = thread[t].revived
                                     /\ n.until = thread[t].until
      BY <3>2, <3>3, <3>4
    <3> QED
      BY <1>1, <3>5
  <2> QED
    BY <2>1, <2>2, <1>2, <1>3, ArchiveRests
<1>6. ASSUME NEW r \in Runs, RunStep(r) \/ \E i \in Mails : Begin(r, i)
      PROVE  AutoInv' /\ (DayTokens => DayTokens')
  BY <1>6, RunsKept
<1>7. CASE NightlyDigest
  <2> DEFINE gs == {g \in NightlyGroups : g.items # {}}
  <2>1. /\ digests' = [digests EXCEPT ![day] = <<gs>>]
        /\ UNCHANGED <<day, item, thread, run, restore, back, autoFaults>>
    BY <1>7 DEF NightlyDigest
  <2>2. \A g \in gs : g \in Groups /\ g.token = UndoToken(day, g.reason)
    <3>1. ASSUME NEW reason \in Reasons, NEW items \in SUBSET Mails
          PROVE  [reason |-> reason, token |-> UndoToken(day, reason), items |-> items] \in Groups
      BY <1>1 DEF Groups, UndoToken
    <3>2. \A reason \in Reasons :
            {i \in ArchivedSince(day) : item[i].by.reason = reason} \in SUBSET Mails
      BY DEF ArchivedSince
    <3> QED
      BY <3>1, <3>2 DEF NightlyGroups
  <2> HIDE DEF gs
  <2>3. <<gs>>[1] = gs /\ <<gs>> # <<>> /\ gs \in SUBSET Groups
    BY <2>2
  <2>4. digests \in [Days -> {<<>>} \cup {<<xs>> : xs \in SUBSET Groups}]
    BY DEF AutoInv, AutoTypes
  <2>5. /\ digests' \in [Days -> {<<>>} \cup {<<xs>> : xs \in SUBSET Groups}]
        /\ \A d \in Days : digests'[d] = IF d = day THEN <<gs>> ELSE digests[d]
    BY <2>1, <2>3, <2>4, <1>1
  <2>6. AutoInv'
    BY <2>1, <2>5 DEF AutoInv, AutoTypes, RevivalsExclude
  <2>7. DayTokens => DayTokens'
    <3>1. DayTokens => GroupTokens'
      BY <2>1, <2>2, <2>3, <2>5 DEF DayTokens, GroupTokens
    <3> QED
      BY <2>1, <3>1 DEF DayTokens, TokensAreOfTheDay
  <2> QED
    BY <2>6, <2>7
<1>8. CASE Midnight
  <2>1. /\ day' = day + 1 /\ day < MaxDay
        /\ UNCHANGED <<digests, item, thread, run, restore, back, autoFaults>>
        /\ Straddles \/ \A r \in Runs : run[r].pc = "idle"
    BY <1>8 DEF Midnight
  <2>2. day' \in Days
    BY <1>1, <2>1 DEF Days
  <2>3. AutoInv'
    BY <2>1, <2>2 DEF AutoInv, AutoTypes, RevivalsExclude, Days
  <2>4. ~Straddles /\ DayTokens => DayTokens'
    BY <2>1 DEF DayTokens, TokensAreOfTheDay, GroupTokens, Days
  <2> QED
    BY <2>3, <2>4
<1>9. ASSUME NEW u \in Restores, NEW ids \in SUBSET Mails,
             NEW shows \in SUBSET (Mails \cup (Nat \X Reasons)), UndoArchive(u, ids, shows)
      PROVE  AutoInv' /\ (DayTokens => DayTokens')
  <2> DEFINE n == [pc |-> "threads", threads |-> {ThreadOf[i] : i \in ids}, shows |-> shows]
  <2>1. /\ item' = [i \in Mails |-> IF i \in ids THEN [item[i] EXCEPT !.status = "received"]
                                               ELSE item[i]]
        /\ restore' = [restore EXCEPT ![u] = n]
        /\ UNCHANGED <<day, digests, thread, run, back, autoFaults>>
    BY <1>9 DEF UndoArchive
  <2>2. n \in [pc : {"idle", "threads"}, threads : SUBSET Threads,
               shows : SUBSET (Mails \cup (Nat \X Reasons))]
    BY ArchiveAssumption
  <2> HIDE DEF n
  <2>3. restore' \in [Restores -> [pc : {"idle", "threads"}, threads : SUBSET Threads,
                                   shows : SUBSET (Mails \cup (Nat \X Reasons))]]
    BY <2>1, <2>2, <1>3
  <2>4. /\ item' \in [Mails -> ItemRecords]
        /\ \A j \in Mails : item'[j] = item[j] \/ item'[j].status = "received"
    <3>1. \A j \in Mails : item[j] \in ItemRecords
      BY <1>1
    <3>2. \A j \in Mails : /\ [item[j] EXCEPT !.status = "received"] \in ItemRecords
                           /\ [item[j] EXCEPT !.status = "received"].status = "received"
      BY <3>1 DEF ItemRecords
    <3> QED
      BY <2>1, <3>1, <3>2
  <2>5. AutoInv'
    BY <2>1, <2>3, <2>4 DEF AutoInv, AutoTypes, RevivalsExclude
  <2>6. DayTokens => DayTokens'
    BY <2>1, <2>4 DEF DayTokens, TokensAreOfTheDay, GroupTokens
  <2> QED
    BY <2>5, <2>6
<1>10. Shown \subseteq Groups
  <2>1. \A d \in Days : digests[d] # <<>> => digests[d][1] \in SUBSET Groups
    <3>1. ASSUME NEW d \in Days, digests[d] # <<>>
          PROVE  digests[d][1] \in SUBSET Groups
      <4>1. PICK xs \in SUBSET Groups : digests[d] = <<xs>>
        BY <3>1 DEF AutoInv, AutoTypes
      <4> QED
        BY <4>1
    <3> QED
      BY <3>1
  <2>2. day > 1 => day - 1 \in Days
    BY <1>1 DEF Days
  <2> QED
    BY <2>1, <2>2, <1>1 DEF Shown, Newest
<1>11. ASSUME NEW u \in Restores, NEW g \in Shown,
              RestoreGroup(u, g) \/ \E i \in g.items : RestoreItem(u, g, i)
       PROVE  AutoInv' /\ (DayTokens => DayTokens')
  <2>1. g.token \in Nat \X Reasons /\ g.items \subseteq Mails
    <3>1. g \in Groups
      BY <1>10
    <3> QED
      BY <3>1 DEF Groups
  <2>2. CASE RestoreGroup(u, g)
    <3>1. UndoArchive(u, TokenMatches(g), {g.token})
      BY <2>2 DEF RestoreGroup
    <3>2. TokenMatches(g) \in SUBSET Mails /\ {g.token} \in SUBSET (Mails \cup (Nat \X Reasons))
      BY <2>1 DEF TokenMatches
    <3> QED
      BY <3>1, <3>2, <1>9
  <2>3. ASSUME NEW i \in g.items, RestoreItem(u, g, i)
        PROVE  AutoInv' /\ (DayTokens => DayTokens')
    <3> DEFINE ids == {i} \cap {j \in Mails : Undoable(j)}
    <3>1. UndoArchive(u, ids, {i})
      BY <2>3 DEF RestoreItem
    <3>2. ids \in SUBSET Mails /\ {i} \in SUBSET (Mails \cup (Nat \X Reasons))
      BY <2>1
    <3> HIDE DEF ids
    <3> QED
      BY <3>1, <3>2, <1>9
  <2> QED
    BY <1>11, <2>2, <2>3
<1>12. ASSUME NEW u \in Restores, UndoArchiveEnds(u)
       PROVE  AutoInv' /\ (DayTokens => DayTokens')
  <2>1. /\ thread' = [t \in Threads |-> Exclude(t, u)] /\ back' = back \cup restore[u].shows
        /\ restore' = [restore EXCEPT ![u] = [pc |-> "idle", threads |-> {}, shows |-> {}]]
        /\ UNCHANGED <<day, digests, item, run, autoFaults>>
    BY <1>12 DEF UndoArchiveEnds
  <2>2. ASSUME NEW t \in Threads
        PROVE  /\ Exclude(t, u) \in ThreadRecords
               /\ Exclude(t, u).revived # 0 =>
                    Exclude(t, u).until = Exclude(t, u).revived + ExclusionDays
    <3>1. thread[t] \in ThreadRecords
      BY <1>1
    <3>2. CASE t \in restore[u].threads
      <4>1. Exclude(t, u) = [thread[t] EXCEPT !.until = day + ExclusionDays, !.revived = day]
        BY <3>2 DEF Exclude
      <4> QED
        <5>1. Exclude(t, u) = [pending |-> thread[t].pending, replied |-> thread[t].replied,
                               until |-> day + ExclusionDays, revived |-> day]
          BY <4>1, <3>1 DEF ThreadRecords
        <5>2. /\ thread[t].pending \in BOOLEAN /\ thread[t].replied \in BOOLEAN
              /\ day + ExclusionDays \in Nat
          BY <3>1, <1>1 DEF ThreadRecords
        <5> QED
          BY <5>1, <5>2, <1>1 DEF ThreadRecords
    <3>3. CASE t \notin restore[u].threads
      BY <3>1, <3>3, <1>2 DEF Exclude
    <3> QED
      BY <3>2, <3>3
  <2>3. /\ thread' \in [Threads -> ThreadRecords]
        /\ \A t \in Threads : thread'[t].revived # 0 =>
             thread'[t].until = thread'[t].revived + ExclusionDays
    BY <2>1, <2>2
  <2>4. restore' \in [Restores -> [pc : {"idle", "threads"}, threads : SUBSET Threads,
                                   shows : SUBSET (Mails \cup (Nat \X Reasons))]]
    BY <2>1, <1>3
  <2>5. back' \subseteq Mails \cup (Nat \X Reasons)
    BY <2>1, <1>3
  <2> QED
    BY <2>1, <2>3, <2>4, <2>5, <1>3, ArchiveRests
<1>13. CASE Crash
  <2>1. /\ run' = [r \in Runs |-> Resting] /\ autoFaults' = autoFaults + 1
        /\ restore' = [u \in Restores |-> [pc |-> "idle", threads |-> {}, shows |-> {}]]
        /\ UNCHANGED <<day, digests, item, thread, back>>
    BY <1>13 DEF Crash
  <2>2. Resting \in RunRecords /\ Resting.pc = "idle" /\ ~Resting.revived
    BY RunFields
  <2>3. AutoTypes'
    BY <2>1, <2>2, <1>3 DEF AutoInv, AutoTypes
  <2>4. RevivalsExclude' /\ (DayTokens => DayTokens')
    BY <2>1, <2>2
       DEF AutoInv, RevivalsExclude, DayTokens, TokensAreOfTheDay, GroupTokens
  <2> QED
    BY <2>3, <2>4 DEF AutoInv
<1> QED
  BY <1>4, <1>5, <1>6, <1>7, <1>8, <1>11, <1>12, <1>13 DEF AutoNext

(* It starts with every run at rest and no digest.                         *)
LEMMA AutoStarts ==
  ASSUME AutoInit
  PROVE  AutoInv /\ DayTokens
<1>1. Resting \in RunRecords /\ Resting.pc = "idle" /\ ~Resting.revived
  BY ArchiveAssumption DEF Resting, RunRecords, RunPcs, Reasons
<1>2. NoStamp \in Stamps
  BY ArchiveAssumption DEF NoStamp, Stamps, Reasons
<1>3. /\ item = [i \in Mails |-> [status |-> "absent", by |-> NoStamp]]
      /\ thread = [t \in Threads |->
                     [pending |-> FALSE, replied |-> FALSE, until |-> 0, revived |-> 0]]
      /\ run = [r \in Runs |-> Resting] /\ digests = [d \in Days |-> <<>>]
      /\ restore = [u \in Restores |-> [pc |-> "idle", threads |-> {}, shows |-> {}]]
      /\ day = 1 /\ back = {} /\ autoFaults = 0
  BY DEF AutoInit
<1>4. AutoTypes
  <2>1. 1 \in Days
    BY ArchiveAssumption DEF Days
  <2> QED
    BY <2>1, <1>1, <1>2, <1>3 DEF AutoTypes, ItemRecords, ThreadRecords
<1>5. RevivalsExclude /\ DayTokens
  BY <1>1, <1>3 DEF RevivalsExclude, DayTokens, TokensAreOfTheDay, GroupTokens
<1> QED
  BY <1>4, <1>5 DEF AutoInv

(* The types, and what revivals exclude, hold.                             *)
THEOREM AutoInvariant == AutoSpec => []AutoInv
<1>1. AutoInit => AutoInv
  BY AutoStarts
<1>2. AutoInv /\ [AutoNext]_autoVars => AutoInv'
  <2>1. ASSUME AutoInv, UNCHANGED autoVars
        PROVE  AutoInv'
    BY <2>1 DEF AutoInv, AutoTypes, RevivalsExclude, autoVars
  <2> QED
    BY <2>1, AutoKept
<1> QED
  BY <1>1, <1>2, PTL DEF AutoSpec

(* RevivedIsLeftAlone: a run that is about to archive asked its gate when   *)
(* no revival of its thread was younger than the days of the exclusion,     *)
(* whether or not it outlasts its day.                                     *)
THEOREM RevivalsAreLeftAlone == AutoSpec => []RevivedIsLeftAlone
<1>1. AutoInv => RevivedIsLeftAlone
  BY DEF AutoInv, RevivalsExclude, RevivedIsLeftAlone
<1> QED
  BY <1>1, AutoInvariant, PTL

(* RestoreAllReaches: what a digest lists in a group and is still archived  *)
(* carries the token of the group, where no run outlasts the day it began   *)
(* on.                                                                     *)
THEOREM RestoresReach == ~Straddles => (AutoSpec => []RestoreAllReaches)
<1> SUFFICES ASSUME ~Straddles
             PROVE  AutoSpec => []RestoreAllReaches
  OBVIOUS
<1>1. AutoInit => DayTokens
  BY AutoStarts
<1>2. AutoInv /\ DayTokens /\ [AutoNext]_autoVars => DayTokens'
  <2>1. ASSUME DayTokens, UNCHANGED autoVars
        PROVE  DayTokens'
    BY <2>1 DEF DayTokens, TokensAreOfTheDay, GroupTokens, autoVars
  <2> QED
    BY <2>1, AutoKept
<1>3. AutoInv /\ DayTokens => RestoreAllReaches
  <2>1. ASSUME AutoInv, DayTokens, NEW d \in Days, digests[d] # <<>>,
               NEW g \in digests[d][1], NEW i \in g.items,
               item[i].status = "archived", item[i].by.at = d, item[i].by.reason = g.reason
        PROVE  item[i].by.token = g.token
    <3>1. g.token = UndoToken(d, g.reason)
      BY <2>1 DEF DayTokens, GroupTokens
    <3>2. i \in Mails
      <4>1. PICK xs \in SUBSET Groups : digests[d] = <<xs>>
        BY <2>1 DEF AutoInv, AutoTypes
      <4>2. g \in Groups
        BY <4>1
      <4> QED
        BY <4>2 DEF Groups
    <3> QED
      BY <2>1, <3>1, <3>2 DEF DayTokens, TokensAreOfTheDay
  <2> QED
    BY <2>1 DEF RestoreAllReaches
<1>4. AutoSpec => []AutoInv
  BY AutoInvariant
<1> QED
  BY <1>1, <1>2, <1>3, <1>4, PTL DEF AutoSpec

-----------------------------------------------------------------------------
(* The self-model.                                                         *)

Texts == [Files -> SUBSET Patches]
ApplyStages ==
  {"none", "ensure", "seed", "check", "guard", "apply", "applied", "refused", "add", "commit",
   "committed", "audit", "done", "failed", "lost"}
Snapshots == [cached : BOOLEAN, texts : Texts]
Loads == [pc : {"idle", "reading", "answered"}, texts : Texts, left : SUBSET Files]

ModelTypes ==
  /\ tree \in Texts /\ index \in Texts /\ head \in Texts
  /\ patchFile \in Patches \cup {NoPatch}
  /\ accepted \subseteq Patches
  /\ apply \in [Patches -> ApplyStages]
  /\ snapshot \in Snapshots /\ load \in Loads

Has(texts, p) == p \in texts[FileOf[p]]

(* What is in the files was accepted for them, from the patch that is       *)
(* written before it is applied to the commit.                             *)
TextsAreAccepted ==
  /\ patchFile # NoPatch => patchFile \in accepted /\ Touches[patchFile] = {FileOf[patchFile]}
  /\ \A f \in Files :
       /\ head[f] \subseteq index[f] /\ index[f] \subseteq tree[f]
       /\ \A p \in tree[f] : p \in accepted /\ FileOf[p] = f

(* One apply at a time, and none while the files are read.                  *)
OneAtATime ==
  /\ \A p, q \in Applying : p = q
  /\ load.pc = "reading" => Applying = {}

(* How far the text of a patch has come when its apply is at a stage.       *)
ProgressOf(p) ==
  /\ apply[p] # "none" => p \in accepted
  /\ apply[p] = "apply" => patchFile = p
  /\ apply[p] \in {"applied", "add"} => Has(tree, p)
  /\ apply[p] = "commit" => Has(index, p)
  /\ apply[p] \in {"committed", "audit", "done"} => Has(head, p)
  /\ apply[p] = "audit" => ~snapshot.cached

(* The cache has what was returned, and so has a reader of the files it is   *)
(* done with.                                                              *)
ReadersSee ==
  /\ snapshot.cached => \A p \in Returned : Has(snapshot.texts, p)
  /\ load.pc = "reading" =>
       \A p \in Returned : FileOf[p] \notin load.left => Has(load.texts, p)
  /\ load.pc # "idle" => settled \subseteq Returned
  /\ load.pc = "answered" => \A p \in settled : Has(load.texts, p)

ModelInv ==
  /\ ModelTypes /\ TextsAreAccepted /\ OneAtATime /\ ReadersSee
  /\ \A p \in Patches : ProgressOf(p)

(* Steps that leave the applies, the files and the readers alone.           *)
LEMMA ModelRests ==
  ASSUME ModelInv, UNCHANGED <<git, apply, snapshot, load, settled>>,
         accepted \subseteq accepted', accepted' \subseteq Patches
  PROVE  ModelInv'
<1>1. UNCHANGED <<tree, index, head, patchFile>>
  BY DEF git
<1>2. ModelTypes' /\ OneAtATime'
  BY <1>1 DEF ModelInv, ModelTypes, OneAtATime, Applying
<1>3. TextsAreAccepted'
  BY <1>1 DEF ModelInv, TextsAreAccepted
<1>4. ReadersSee'
  BY <1>1 DEF ModelInv, ReadersSee, Returned, Has
<1>5. (\A p \in Patches : ProgressOf(p))'
  BY <1>1 DEF ModelInv, ProgressOf, Has
<1> QED
  BY <1>2, <1>3, <1>4, <1>5 DEF ModelInv

(* An apply gets on to its next stage, and no other is under way.           *)
LEMMA ApplyMoves ==
  ASSUME ModelInv, NEW p \in Patches, NEW to \in ApplyStages, apply[p] \notin Ended,
         apply' = [apply EXCEPT ![p] = to],
         ModelTypes', TextsAreAccepted', UNCHANGED <<accepted, load, settled>>,
         \A f \in Files : head[f] \subseteq head'[f],
         UNCHANGED snapshot \/ ~snapshot'.cached,
         ProgressOf(p)',
         to = "done" => ~snapshot.cached
  PROVE  ModelInv'
<1>1. \A q \in Patches : apply'[q] = IF q = p THEN to ELSE apply[q]
  BY DEF ModelInv, ModelTypes
<1>2. p \in Applying /\ \A q \in Patches : q # p => apply[q] \in Ended
  BY DEF Applying, ModelInv, OneAtATime
<1>3. Applying' \subseteq {p}
  BY <1>1, <1>2 DEF Applying
<1>4. load.pc # "reading"
  BY <1>2 DEF ModelInv, OneAtATime
<1>5. OneAtATime'
  BY <1>3, <1>4 DEF OneAtATime
<1>6. \A q \in Patches : FileOf[q] \in Files
  BY DEF Files
<1>7. ASSUME NEW q \in Patches
      PROVE  ProgressOf(q)'
  <2>1. CASE q = p
    BY <2>1
  <2>2. CASE q # p
    <3>1. apply'[q] = apply[q] /\ apply[q] \in Ended /\ ProgressOf(q)
      BY <2>2, <1>1, <1>2 DEF ModelInv
    <3>2. Has(head, q) => Has(head', q)
      BY <1>6 DEF Has
    <3> QED
      BY <3>1, <3>2 DEF ProgressOf, Ended
  <2> QED
    BY <2>1, <2>2
<1>8. p \notin Returned
  BY DEF Returned, Ended
<1>9. Returned \subseteq Returned' /\ Returned' \subseteq Returned \cup {p}
  BY <1>1, <1>8 DEF Returned
<1>10. to # "done" => Returned' = Returned
  BY <1>1, <1>8, <1>9 DEF Returned
<1>11. ReadersSee'
  <2>1. (snapshot.cached => \A q \in Returned : Has(snapshot.texts, q))'
    <3>1. CASE ~snapshot'.cached
      BY <3>1
    <3>2. CASE snapshot'.cached
      <4>1. UNCHANGED snapshot /\ Returned' = Returned
        BY <3>2, <1>10
      <4> QED
        BY <4>1 DEF ModelInv, ReadersSee, Has
    <3> QED
      BY <3>1, <3>2
  <2>2. (load.pc # "idle" => settled \subseteq Returned)'
    BY <1>9 DEF ModelInv, ReadersSee
  <2>3. (load.pc = "answered" => \A q \in settled : Has(load.texts, q))'
    BY DEF ModelInv, ReadersSee, Has
  <2> QED
    BY <2>1, <2>2, <2>3, <1>4 DEF ReadersSee
<1> QED
  BY <1>5, <1>7, <1>11 DEF ModelInv

(* The same for a step that touches none of the texts.                     *)
LEMMA ApplyPasses ==
  ASSUME ModelInv, NEW p \in Patches, NEW to \in ApplyStages, apply[p] \notin Ended,
         apply' = [apply EXCEPT ![p] = to],
         UNCHANGED <<tree, index, head, accepted, load, settled, snapshot>>,
         patchFile' = patchFile \/ patchFile' = NoPatch,
         ProgressOf(p)', to = "done" => ~snapshot.cached
  PROVE  ModelInv'
<1>1. ModelTypes'
  BY DEF ModelInv, ModelTypes
<1>2. TextsAreAccepted'
  BY DEF ModelInv, TextsAreAccepted
<1> QED
  BY <1>1, <1>2, ApplyMoves

(* What a stage says of the others.                                        *)
LEMMA StageIs ==
  ASSUME ModelInv, NEW p \in Patches, NEW to \in ApplyStages,
         apply' = [apply EXCEPT ![p] = to]
  PROVE  apply'[p] = to
BY DEF ModelInv, ModelTypes

(* Each step of an apply.                                                  *)
LEMMA ApplyStepsKept ==
  ASSUME Apart, ModelInv, NEW p \in Patches, ApplyStep(p)
  PROVE  ModelInv'
<1>1. /\ tree \in Texts /\ index \in Texts /\ head \in Texts /\ patchFile \in Patches \cup {NoPatch}
      /\ apply \in [Patches -> ApplyStages] /\ accepted \subseteq Patches
      /\ FileOf[p] \in Files
  BY DEF ModelInv, ModelTypes, Files
<1>2. ProgressOf(p)
  BY DEF ModelInv
<1>3. CASE BeginApply(p)
  <2>1. /\ p \in accepted /\ apply[p] = "none" /\ apply' = [apply EXCEPT ![p] = "ensure"]
        /\ Applying = {} /\ load.pc # "reading"
        /\ UNCHANGED <<tree, index, head, patchFile, accepted, snapshot, load, settled>>
    BY <1>3 DEF BeginApply, At, Steps, git, reader
  <2>2. \A q \in Patches : apply'[q] = IF q = p THEN "ensure" ELSE apply[q]
    BY <2>1, <1>1
  <2>3. Applying' \subseteq {p} /\ Returned' = Returned
    BY <2>1, <2>2 DEF Applying, Returned
  <2>4. ModelTypes'
    <3>1. "ensure" \in ApplyStages
      BY DEF ApplyStages
    <3> QED
      BY <2>1, <3>1 DEF ModelInv, ModelTypes
  <2>5. TextsAreAccepted' /\ OneAtATime'
    BY <2>1, <2>3 DEF ModelInv, TextsAreAccepted, OneAtATime
  <2>6. (\A q \in Patches : ProgressOf(q))'
    BY <2>1, <2>2 DEF ModelInv, ProgressOf, Has
  <2>7. ReadersSee'
    BY <2>1, <2>3 DEF ModelInv, ReadersSee, Has
  <2> QED
    BY <2>4, <2>5, <2>6, <2>7 DEF ModelInv
<1>4. ASSUME NEW to \in {"seed", "check", "guard", "failed"}, apply[p] \notin Ended,
             apply' = [apply EXCEPT ![p] = to],
             UNCHANGED <<tree, index, head, accepted, load, settled, snapshot>>,
             patchFile' = patchFile \/ patchFile' = NoPatch
      PROVE  ModelInv'
  <2>1. to \in ApplyStages
    BY DEF ApplyStages
  <2>2. apply'[p] = to
    BY <2>1, <1>4, StageIs
  <2>3. ProgressOf(p)'
    BY <2>2, <1>2, <1>4 DEF ProgressOf, Ended
  <2>4. to # "done"
    OBVIOUS
  <2> QED
    BY <2>1, <2>3, <2>4, <1>4, ApplyPasses
<1>5. CASE EnsureSelfModelRepo(p)
  <2>1. /\ apply[p] = "ensure"
        /\ UNCHANGED <<tree, index, head, patchFile, accepted, snapshot, load, settled>>
        /\ \/ apply' = [apply EXCEPT ![p] = "seed"]
           \/ apply' = [apply EXCEPT ![p] = "check"]
    BY <1>5 DEF EnsureSelfModelRepo, At, Steps, reader
  <2> QED
    BY <2>1, <1>4 DEF Ended
<1>6. CASE SeedFiles(p)
  <2>1. /\ apply[p] = "seed" /\ apply' = [apply EXCEPT ![p] = "check"]
        /\ UNCHANGED <<tree, index, head, patchFile, accepted, snapshot, load, settled>>
    BY <1>6 DEF SeedFiles, At, Steps, reader
  <2> QED
    BY <2>1, <1>4 DEF Ended
<1>7. CASE CheckPatch(p)
  <2>1. /\ apply[p] = "check"
        /\ UNCHANGED <<tree, index, head, patchFile, accepted, snapshot, load, settled>>
        /\ \/ apply' = [apply EXCEPT ![p] = "guard"]
           \/ apply' = [apply EXCEPT ![p] = "failed"]
    BY <1>7 DEF CheckPatch, At, Steps, reader, git
  <2> QED
    BY <2>1, <1>4 DEF Ended
<1>8. CASE WritePatch(p)
  <2>1. /\ apply[p] = "guard" /\ UNCHANGED <<tree, index, head, accepted, snapshot, load, settled>>
    BY <1>8 DEF WritePatch, At, Steps, reader
  <2>2. CASE TouchesOnly(p)
    <3>1. apply' = [apply EXCEPT ![p] = "apply"] /\ patchFile' = p
      BY <1>8, <2>2 DEF WritePatch, At
    <3>2. "apply" \in ApplyStages
      BY DEF ApplyStages
    <3>3. apply'[p] = "apply"
      BY <3>1, <3>2, StageIs
    <3>4. p \in accepted
      BY <2>1, <1>2 DEF ProgressOf
    <3>5. ModelTypes'
      BY <2>1, <3>1, <3>2 DEF ModelInv, ModelTypes
    <3>6. TextsAreAccepted'
      BY <2>1, <2>2, <3>1, <3>4 DEF ModelInv, TextsAreAccepted, TouchesOnly
    <3>7. ProgressOf(p)'
      BY <2>1, <3>1, <3>3, <3>4 DEF ProgressOf
    <3> QED
      BY <2>1, <3>1, <3>2, <3>5, <3>6, <3>7, ApplyMoves DEF Ended
  <2>3. CASE ~TouchesOnly(p)
    <3>1. apply' = [apply EXCEPT ![p] = "failed"] /\ patchFile' = patchFile
      BY <1>8, <2>3 DEF WritePatch, At
    <3> QED
      BY <2>1, <3>1, <1>4 DEF Ended
  <2> QED
    BY <2>2, <2>3
<1>9. CASE GitApply(p)
  <2>1. /\ apply[p] = "apply" /\ patchFile = p
        /\ UNCHANGED <<index, head, patchFile, accepted, snapshot, load, settled>>
    BY <1>2, <1>9 DEF GitApply, At, Steps, reader, ProgressOf
  <2>2. CASE patchFile # NoPatch /\ Applies(patchFile)
    <3>1. /\ apply' = [apply EXCEPT ![p] = "applied"]
          /\ tree' = [f \in Files |-> IF f \in Touches[p] THEN tree[f] \cup {p} ELSE tree[f]]
      BY <1>9, <2>1, <2>2 DEF GitApply, At
    <3>2. p \in accepted /\ Touches[p] = {FileOf[p]}
      BY <2>1, <2>2 DEF ModelInv, TextsAreAccepted
    <3>3. "applied" \in ApplyStages
      BY DEF ApplyStages
    <3>4. apply'[p] = "applied"
      BY <3>1, <3>3, StageIs
    <3>5. /\ tree' \in Texts /\ p \in tree'[FileOf[p]]
          /\ \A f \in Files : tree[f] \subseteq tree'[f]
          /\ \A f \in Files : \A q \in tree'[f] : q \in tree[f] \/ (q = p /\ f = FileOf[p])
      BY <3>1, <3>2, <1>1 DEF Texts
    <3>6. ModelTypes'
      BY <2>1, <3>1, <3>3, <3>5 DEF ModelInv, ModelTypes
    <3>7. TextsAreAccepted'
      BY <2>1, <3>2, <3>5 DEF ModelInv, TextsAreAccepted
    <3>8. ProgressOf(p)'
      BY <2>1, <3>2, <3>4, <3>5 DEF ProgressOf, Has
    <3> QED
      BY <2>1, <3>1, <3>3, <3>6, <3>7, <3>8, ApplyMoves DEF Ended
  <2>3. CASE ~(patchFile # NoPatch /\ Applies(patchFile))
    <3>1. apply' = [apply EXCEPT ![p] = "refused"] /\ tree' = tree
      BY <1>9, <2>3 DEF GitApply, At
    <3>2. "refused" \in ApplyStages
      BY DEF ApplyStages
    <3>3. apply'[p] = "refused"
      BY <3>1, <3>2, StageIs
    <3>4. ProgressOf(p)'
      BY <2>1, <3>3, <1>2 DEF ProgressOf
    <3> QED
      BY <2>1, <3>1, <3>2, <3>4, ApplyPasses DEF Ended
  <2> QED
    BY <2>2, <2>3
<1>10. CASE RemovePatch(p)
  <2>1. /\ UNCHANGED <<tree, index, head, accepted, snapshot, load, settled>>
        /\ patchFile' = NoPatch
        /\ \/ apply[p] = "applied" /\ apply' = [apply EXCEPT ![p] = "add"]
           \/ apply[p] = "refused" /\ apply' = [apply EXCEPT ![p] = "failed"]
    BY <1>10 DEF RemovePatch, At, Steps, reader
  <2>2. CASE apply[p] = "refused"
    BY <2>1, <2>2, <1>4 DEF Ended
  <2>3. CASE apply[p] = "applied"
    <3>1. apply' = [apply EXCEPT ![p] = "add"] /\ "add" \in ApplyStages
      BY <2>1, <2>3 DEF ApplyStages
    <3>2. apply'[p] = "add"
      BY <3>1, StageIs
    <3>3. ProgressOf(p)'
      BY <2>1, <2>3, <3>2, <1>2 DEF ProgressOf, Has
    <3> QED
      BY <2>1, <2>3, <3>1, <3>3, ApplyPasses DEF Ended
  <2> QED
    BY <2>1, <2>2, <2>3
<1>11. CASE GitAdd(p)
  <2>1. /\ apply[p] = "add" /\ apply' = [apply EXCEPT ![p] = "commit"]
        /\ index' = [index EXCEPT ![FileOf[p]] = tree[FileOf[p]]]
        /\ UNCHANGED <<tree, head, patchFile, accepted, snapshot, load, settled>>
        /\ "commit" \in ApplyStages
    BY <1>11 DEF GitAdd, At, Steps, reader, ApplyStages
  <2>2. apply'[p] = "commit"
    BY <2>1, StageIs
  <2>3. /\ index' \in Texts /\ index'[FileOf[p]] = tree[FileOf[p]]
        /\ \A f \in Files : f # FileOf[p] => index'[f] = index[f]
    BY <2>1, <1>1 DEF Texts
  <2>4. ModelTypes'
    BY <2>1, <2>3 DEF ModelInv, ModelTypes
  <2>5. TextsAreAccepted'
    <3>1. ASSUME NEW f \in Files
          PROVE  head[f] \subseteq index'[f] /\ index'[f] \subseteq tree[f]
      BY <2>3 DEF ModelInv, TextsAreAccepted
    <3> QED
      BY <2>1, <3>1 DEF ModelInv, TextsAreAccepted
  <2>6. ProgressOf(p)'
    BY <2>1, <2>2, <2>3, <1>2 DEF ProgressOf, Has
  <2> QED
    BY <2>1, <2>4, <2>5, <2>6, ApplyMoves DEF Ended
<1>12. CASE GitCommit(p)
  <2>1. /\ apply[p] = "commit"
        /\ UNCHANGED <<tree, index, patchFile, accepted, snapshot, load, settled>>
    BY <1>12 DEF GitCommit, At, Steps, reader
  <2>2. CASE index = head
    <3>1. apply' = [apply EXCEPT ![p] = "failed"] /\ head' = head
      BY <1>12, <2>2 DEF GitCommit, At
    <3> QED
      BY <2>1, <3>1, <1>4 DEF Ended
  <2>3. CASE index # head
    <3>1. /\ apply' = [apply EXCEPT ![p] = "committed"] /\ head' = index
          /\ "committed" \in ApplyStages
      BY <1>12, <2>3 DEF GitCommit, At, ApplyStages
    <3>2. apply'[p] = "committed"
      BY <3>1, StageIs
    <3>3. ModelTypes'
      BY <2>1, <3>1 DEF ModelInv, ModelTypes
    <3>4. TextsAreAccepted' /\ \A f \in Files : head[f] \subseteq head'[f]
      BY <2>1, <3>1 DEF ModelInv, TextsAreAccepted
    <3>5. ProgressOf(p)'
      BY <2>1, <3>1, <3>2, <1>2 DEF ProgressOf, Has
    <3> QED
      BY <2>1, <3>1, <3>3, <3>4, <3>5, ApplyMoves DEF Ended
  <2> QED
    BY <2>2, <2>3
<1>13. CASE Invalidate(p)
  <2>1. /\ apply[p] = "committed" /\ apply' = [apply EXCEPT ![p] = "audit"]
        /\ snapshot' = NoTexts /\ "audit" \in ApplyStages
        /\ UNCHANGED <<tree, index, head, patchFile, accepted, load, settled>>
    BY <1>13 DEF Invalidate, At, git, NewCache, ApplyStages
  <2>2. apply'[p] = "audit"
    BY <2>1, StageIs
  <2>3. NoTexts \in Snapshots /\ ~NoTexts.cached
    BY DEF NoTexts, Snapshots, Texts, Empty
  <2>4. ModelTypes'
    BY <2>1, <2>3 DEF ModelInv, ModelTypes
  <2>5. TextsAreAccepted'
    BY <2>1 DEF ModelInv, TextsAreAccepted
  <2>6. ~snapshot'.cached
    BY <2>1, <2>3
  <2>7. ProgressOf(p)'
    BY <2>1, <2>2, <2>6, <1>2 DEF ProgressOf, Has
  <2> QED
    BY <2>1, <2>4, <2>5, <2>6, <2>7, ApplyMoves DEF Ended
<1>14. CASE AuditApplied(p)
  <2>1. /\ apply[p] = "audit" /\ apply' = [apply EXCEPT ![p] = "done"]
        /\ "done" \in ApplyStages
        /\ UNCHANGED <<tree, index, head, patchFile, accepted, snapshot, load, settled>>
    BY <1>14 DEF AuditApplied, At, Steps, reader, git, ApplyStages
  <2>2. apply'[p] = "done"
    BY <2>1, StageIs
  <2>3. ~snapshot.cached
    BY <2>1, <1>2 DEF ProgressOf
  <2>4. ProgressOf(p)'
    BY <2>1, <2>2, <1>2 DEF ProgressOf, Has
  <2> QED
    BY <2>1, <2>3, <2>4, ApplyPasses DEF Ended
<1> QED
  BY <1>3, <1>5, <1>6, <1>7, <1>8, <1>9, <1>10, <1>11, <1>12, <1>13, <1>14 DEF ApplyStep

(* A step of an apply fails.                                               *)
LEMMA ApplyFailsKept ==
  ASSUME ModelInv, NEW p \in Patches, ApplyFails(p)
  PROVE  ModelInv'
<1> DEFINE to == IF apply[p] = "apply" THEN "refused" ELSE "failed"
<1>1. /\ apply[p] \in {"seed", "check", "guard", "apply", "add", "commit", "audit"}
      /\ apply' = [apply EXCEPT ![p] = to]
      /\ UNCHANGED <<tree, index, head, patchFile, accepted, snapshot, load, settled>>
  BY DEF ApplyFails, reader
<1>2. to \in {"refused", "failed"} /\ to \in ApplyStages /\ to # "done"
  BY DEF ApplyStages
<1> HIDE DEF to
<1>3. apply'[p] = to
  BY <1>1, <1>2, StageIs
<1>4. ProgressOf(p)
  BY DEF ModelInv
<1>5. ProgressOf(p)'
  BY <1>1, <1>2, <1>3, <1>4 DEF ProgressOf
<1> QED
  BY <1>1, <1>2, <1>5, ApplyPasses DEF Ended

(* The process exits.                                                      *)
LEMMA ModelCrashKept ==
  ASSUME ModelInv, ModelCrash
  PROVE  ModelInv'
<1>1. /\ apply' = [p \in Patches |-> IF apply[p] \in Ended THEN apply[p] ELSE "lost"]
      /\ snapshot' = NoTexts /\ load' = NoLoad
      /\ UNCHANGED <<tree, index, head, patchFile, accepted, settled>>
  BY DEF ModelCrash, git
<1>2. NoTexts \in Snapshots /\ ~NoTexts.cached /\ NoLoad \in Loads /\ NoLoad.pc = "idle"
  BY DEF NoTexts, Snapshots, Texts, Empty, NoLoad, Loads
<1>3. "lost" \in ApplyStages /\ "lost" \in Ended
  BY DEF ApplyStages, Ended
<1>4. Applying' = {} /\ \A p \in Patches : apply'[p] = apply[p] \/ apply'[p] = "lost"
  BY <1>1, <1>3 DEF Applying
<1>5. ModelTypes'
  BY <1>1, <1>2, <1>3 DEF ModelInv, ModelTypes
<1>6. TextsAreAccepted' /\ OneAtATime'
  BY <1>1, <1>4 DEF ModelInv, TextsAreAccepted, OneAtATime
<1>7. ReadersSee'
  BY <1>1, <1>2 DEF ReadersSee
<1>8. (\A p \in Patches : ProgressOf(p))'
  <2>1. ASSUME NEW p \in Patches
        PROVE  ProgressOf(p)'
    <3>1. ProgressOf(p)
      BY DEF ModelInv
    <3>2. apply[p] = "none" => apply'[p] = "none"
      BY <1>1 DEF Ended
    <3> QED
      BY <3>1, <3>2, <1>1, <1>2, <1>4 DEF ProgressOf, Has
  <2> QED
    BY <2>1
<1> QED
  BY <1>5, <1>6, <1>7, <1>8 DEF ModelInv

(* The files are loaded, from the cache or one by one.                      *)
LEMMA LoadsKept ==
  ASSUME Apart, ModelInv, BeginLoad \/ \E f \in Files : ReadFile(f)
  PROVE  ModelInv'
<1>1. tree \in Texts /\ snapshot \in Snapshots /\ load \in Loads
  BY DEF ModelInv, ModelTypes
<1>2. /\ snapshot.texts \in Texts
      /\ load.texts \in Texts /\ load.left \in SUBSET Files
  BY <1>1 DEF Snapshots, Loads
<1>3. \A p \in Patches : FileOf[p] \in Files
  BY DEF Files
<1>4. UNCHANGED <<tree, index, head, patchFile, accepted, apply>>
  BY DEF BeginLoad, ReadFile, git
<1>5. TextsAreAccepted' /\ Returned' = Returned /\ Applying' = Applying
  BY <1>4 DEF ModelInv, TextsAreAccepted, Returned, Applying
<1>6. ASSUME BeginLoad
      PROVE  ModelInv'
  <2>1. Applying = {} /\ settled' = Returned /\ UNCHANGED snapshot
    BY <1>6 DEF BeginLoad
  <2>2. (\A p \in Patches : ProgressOf(p))'
    BY <1>4, <2>1 DEF ModelInv, ProgressOf, Has
  <2>3. CASE snapshot.cached
    <3>1. load' = [pc |-> "answered", texts |-> snapshot.texts, left |-> {}]
      BY <1>6, <2>3 DEF BeginLoad
    <3>2. load' \in Loads /\ load'.pc = "answered" /\ load'.texts = snapshot.texts
      BY <3>1, <1>2 DEF Loads
    <3>3. ModelTypes'
      BY <1>4, <2>1, <3>2 DEF ModelInv, ModelTypes
    <3>4. OneAtATime' /\ ReadersSee'
      BY <1>5, <2>1, <2>3, <3>2 DEF ModelInv, OneAtATime, ReadersSee, Has
    <3> QED
      BY <1>5, <2>2, <3>3, <3>4 DEF ModelInv
  <2>4. CASE ~snapshot.cached
    <3>1. load' = [pc |-> "reading", texts |-> Empty, left |-> Files]
      BY <1>6, <2>4 DEF BeginLoad
    <3>2. load' \in Loads /\ load'.pc = "reading" /\ load'.left = Files
      BY <3>1 DEF Loads, Empty, Texts
    <3>3. ModelTypes'
      BY <1>4, <2>1, <3>2 DEF ModelInv, ModelTypes
    <3>4. \A p \in Returned : FileOf[p] \in Files
      BY <1>3 DEF Returned
    <3>5. OneAtATime' /\ ReadersSee'
      BY <1>5, <2>1, <2>4, <3>2, <3>4 DEF ModelInv, OneAtATime, ReadersSee, Has
    <3> QED
      BY <1>5, <2>2, <3>3, <3>5 DEF ModelInv
  <2> QED
    BY <2>3, <2>4
<1>7. ASSUME NEW f \in Files, ReadFile(f)
      PROVE  ModelInv'
  <2> DEFINE texts == [load.texts EXCEPT ![f] = tree[f]]
  <2>1. load.pc = "reading" /\ Applying = {} /\ settled' = settled
    BY <1>7 DEF ReadFile, ModelInv, OneAtATime
  <2>2. tree[f] \subseteq Patches
    BY <1>1 DEF Texts
  <2>3. texts \in Texts
    BY <1>2, <2>2 DEF Texts
  <2>4. \A p \in Returned : FileOf[p] = f => Has(texts, p)
    <3>1. ASSUME NEW p \in Returned, FileOf[p] = f
          PROVE  p \in tree[f]
      <4>1. Has(head, p)
        BY <3>1 DEF ModelInv, ProgressOf, Returned
      <4> QED
        BY <3>1, <4>1 DEF Has, ModelInv, TextsAreAccepted
    <3> QED
      BY <3>1, <1>2 DEF Has, Texts
  <2>5. \A p \in Returned : FileOf[p] \notin load.left => Has(texts, p)
    <3>1. ASSUME NEW p \in Returned, FileOf[p] \notin load.left, FileOf[p] # f
          PROVE  Has(texts, p)
      <4>1. Has(load.texts, p)
        BY <2>1, <3>1 DEF ModelInv, ReadersSee
      <4>2. FileOf[p] \in Files
        BY <1>3 DEF Returned
      <4> QED
        BY <3>1, <4>1, <4>2, <1>2 DEF Has, Texts
    <3> QED
      BY <2>4, <3>1
  <2>6. CASE load.left = {f}
    <3>1. /\ load' = [pc |-> "answered", texts |-> texts, left |-> {}]
          /\ snapshot' = [cached |-> TRUE, texts |-> texts]
      BY <1>7, <2>6 DEF ReadFile
    <3> HIDE DEF texts
    <3>2. /\ load' \in Loads /\ load'.pc = "answered" /\ load'.texts = texts
          /\ snapshot' \in Snapshots /\ snapshot'.texts = texts
      BY <2>3, <3>1 DEF Loads, Snapshots
    <3>3. \A p \in Returned : Has(texts, p)
      BY <2>4, <2>5, <2>6
    <3>4. ModelTypes'
      BY <1>4, <3>2 DEF ModelInv, ModelTypes
    <3>5. OneAtATime'
      BY <1>5, <2>1, <3>2 DEF OneAtATime
    <3>6. ReadersSee'
      BY <1>5, <2>1, <3>2, <3>3 DEF ModelInv, ReadersSee, Has
    <3>7. (\A p \in Patches : ProgressOf(p))'
      <4>1. \A p \in Patches : apply[p] # "audit"
        BY <2>1 DEF Applying, Ended
      <4> QED
        BY <1>4, <4>1 DEF ModelInv, ProgressOf, Has
    <3> QED
      BY SMTT(60), <1>5, <3>4, <3>5, <3>6, <3>7 DEF ModelInv
  <2>7. CASE load.left # {f}
    <3>1. load' = [load EXCEPT !.texts = texts, !.left = load.left \ {f}] /\ UNCHANGED snapshot
      BY <1>7, <2>7 DEF ReadFile
    <3> HIDE DEF texts
    <3>2. /\ load' \in Loads /\ load'.pc = "reading" /\ load'.texts = texts
          /\ load'.left = load.left \ {f}
      BY <1>1, <2>1, <2>3, <3>1 DEF Loads
    <3>3. ModelTypes'
      BY <1>4, <3>1, <3>2 DEF ModelInv, ModelTypes
    <3>4. OneAtATime'
      BY <1>5, <2>1, <3>2 DEF OneAtATime
    <3>5. ReadersSee'
      BY <1>5, <2>1, <2>4, <2>5, <3>1, <3>2 DEF ModelInv, ReadersSee, Has
    <3>6. (\A p \in Patches : ProgressOf(p))'
      BY <1>4, <3>1 DEF ModelInv, ProgressOf, Has
    <3> QED
      BY <1>5, <3>3, <3>4, <3>5, <3>6 DEF ModelInv
  <2> QED
    BY <2>6, <2>7
<1> QED
  BY <1>6, <1>7

(* The inductive invariant of the self-model, where nothing else is applied *)
(* or loaded while a patch is applied.                                      *)
THEOREM SelfModelInvariant == Apart => (SelfModelSpec => []ModelInv)
<1> SUFFICES ASSUME Apart
             PROVE  SelfModelSpec => []ModelInv
  OBVIOUS
<1>1. SelfModelInit => ModelInv
  <2> SUFFICES ASSUME SelfModelInit
               PROVE  ModelInv
    OBVIOUS
  <2>1. /\ tree = Empty /\ index = Empty /\ head = Empty /\ patchFile = NoPatch
        /\ apply = [p \in Patches |-> "none"] /\ snapshot = NoTexts /\ load = NoLoad
        /\ accepted = {} /\ settled = {}
    BY DEF SelfModelInit
  <2>2. /\ NoTexts \in Snapshots /\ ~NoTexts.cached /\ NoLoad \in Loads /\ NoLoad.pc = "idle"
        /\ Empty \in Texts /\ \A f \in Files : Empty[f] = {}
    BY DEF NoTexts, Snapshots, Texts, Empty, NoLoad, Loads
  <2>3. "none" \in ApplyStages /\ "none" \in Ended
    BY DEF ApplyStages, Ended
  <2>4. ModelTypes
    BY <2>1, <2>2, <2>3 DEF ModelTypes
  <2>5. TextsAreAccepted /\ OneAtATime /\ ReadersSee
    BY <2>1, <2>2, <2>3 DEF TextsAreAccepted, OneAtATime, ReadersSee, Applying
  <2>6. \A p \in Patches : ProgressOf(p)
    BY <2>1 DEF ProgressOf
  <2> QED
    BY <2>4, <2>5, <2>6 DEF ModelInv
<1>2. ModelInv /\ [SelfModelNext]_modelVars => ModelInv'
  <2>1. ASSUME ModelInv, ProposePatch \/ NextWeek
        PROVE  ModelInv'
    <3>1. UNCHANGED <<git, apply, snapshot, load, settled, accepted>>
      BY <2>1 DEF ProposePatch, NextWeek, reader
    <3>2. accepted \subseteq Patches
      BY <2>1 DEF ModelInv, ModelTypes
    <3> QED
      BY <2>1, <3>1, <3>2, ModelRests
  <2>2. ASSUME ModelInv, NEW p \in Patches, Accept(p)
        PROVE  ModelInv'
    <3>1. /\ UNCHANGED <<git, apply, snapshot, load, settled>>
          /\ accepted' = accepted \cup {p}
      BY <2>2 DEF Accept, reader
    <3>2. accepted \subseteq Patches
      BY <2>2 DEF ModelInv, ModelTypes
    <3> QED
      BY <2>2, <3>1, <3>2, ModelRests
  <2>3. ASSUME ModelInv, UNCHANGED modelVars
        PROVE  ModelInv'
    <3>1. UNCHANGED <<git, apply, snapshot, load, settled, accepted>>
      BY <2>3 DEF modelVars, reader
    <3>2. accepted \subseteq Patches
      BY <2>3 DEF ModelInv, ModelTypes
    <3> QED
      BY <2>3, <3>1, <3>2, ModelRests
  <2>4. ASSUME ModelInv, SelfModelNext
        PROVE  ModelInv'
    BY <2>1, <2>2, <2>4, ApplyStepsKept, ApplyFailsKept, ModelCrashKept, LoadsKept
       DEF SelfModelNext
  <2> QED
    BY <2>3, <2>4
<1> QED
  BY <1>1, <1>2, PTL DEF SelfModelSpec

(* AppliedIsRead: a patch whose apply has returned is committed and is read *)
(* by whoever loads the files after it, and what is committed of a file was *)
(* accepted for it, where nothing else is applied or loaded meanwhile.      *)
THEOREM AppliedPatchesAreRead == Apart => (SelfModelSpec => []AppliedIsRead)
<1> SUFFICES ASSUME Apart
             PROVE  SelfModelSpec => []AppliedIsRead
  OBVIOUS
<1>1. ModelInv => AppliedIsRead
  <2>1. ASSUME ModelInv, NEW p \in Returned
        PROVE  p \in head[FileOf[p]]
    BY <2>1 DEF ModelInv, ProgressOf, Returned, Has
  <2>2. ASSUME ModelInv, load.pc = "answered", NEW p \in settled
        PROVE  p \in load.texts[FileOf[p]]
    BY <2>2 DEF ModelInv, ReadersSee, Has
  <2>3. ASSUME ModelInv, NEW f \in Files
        PROVE  head[f] \subseteq {p \in accepted : FileOf[p] = f}
    BY <2>3 DEF ModelInv, TextsAreAccepted
  <2> QED
    BY <2>1, <2>2, <2>3 DEF AppliedIsRead
<1> QED
  BY <1>1, SelfModelInvariant, PTL

-----------------------------------------------------------------------------
(* Documents on their way into the memories.                               *)

\* A scan can hold every file: the cap of ingest.scan is not reached.
ScansHoldAll == ScanMax >= Cardinality(Refs)

\* What stands for the last change of a document in a log.
IsVersion(changes, r, v) ==
  /\ v \in 0 .. Len(changes)
  /\ v # 0 => changes[v].ref = r
  /\ \A i \in 1 .. Len(changes) : changes[i].ref = r => i <= v

Changes == [ref : Refs, gone : BOOLEAN]
Documents == [ref : Refs, gone : BOOLEAN, next : Nat]

MemoryTypes ==
  /\ provider \in {"drive", "file"}
  /\ log \in Seq(Changes) /\ todo \in Seq(Documents)
  /\ saved \in 0 .. Len(log) /\ cursor \in 0 .. Len(log) /\ place \in 0 .. Len(log)
  /\ \A i \in 1 .. Len(todo) : todo[i].next <= Len(log)
  /\ \A m \in live : m \in Refs \X Nat /\ Version(m[1]) # 0
  /\ provider = "file" => ~more

\* The listing of a tick that has ended or not begun is empty, and what the tick
\* keeps is what was saved.
TickRests ==
  /\ step \in {"idle", "list", "docs", "embed"}
  /\ step # "docs" => todo = <<>>
  /\ step \in {"idle", "embed"} => ~more
  /\ step = "idle" => cursor = saved /\ place = saved

OnTheList(r) == \E i \in 1 .. Len(todo) : todo[i].ref = r

\* The listing has reached a time: every change until then is in the memories or
\* still on the list, and the list says of each document what is so.
Reaches(time) ==
  /\ saved <= time /\ cursor <= time /\ time <= Len(log)
  /\ provider = "drive" => time = place
  /\ \A i \in 1 .. Len(todo) : todo[i].next <= time
  /\ \A r \in Refs : Version(r) <= time => Reflected(r) \/ OnTheList(r)
  /\ \A i \in 1 .. Len(todo) : \A r \in Refs : todo[i].ref = r =>
       IF provider = "file" THEN ~todo[i].gone
       ELSE Version(r) <= time => todo[i].gone = IsGone(r)

ListsOn == step # "embed" => \E time \in 0 .. Len(log) : Reaches(time)

MemoryInv == MemoryTypes /\ TickRests /\ (~retried => NothingIsPassedOver /\ ListsOn)

-----------------------------------------------------------------------------
\* Numbers up to a bound have a greatest.
LEMMA Greatest ==
  ASSUME NEW n \in Nat, NEW S \in SUBSET (0 .. n), S # {}
  PROVE  \E x \in S : \A y \in S : x >= y
<1> DEFINE T == {n - x : x \in S}
<1>0. \A x \in S : x \in Nat /\ n - x \in Nat /\ x <= n
  OBVIOUS
<1>1. T \subseteq Nat /\ T # {}
  BY <1>0
<1>2. PICK a \in T : \A b \in T : ~(<<b, a>> \in OpToRel(<, Nat))
  BY <1>1, NatLessThanWellFounded, WFMin
<1>3. \A b \in T : ~(b < a)
  BY <1>1, <1>2 DEF OpToRel
<1>4. PICK x \in S : a = n - x
  BY <1>2
<1>5. \A y \in S : x >= y
  <2> TAKE y \in S
  <2>1. n - y \in T /\ x \in Nat /\ y \in Nat /\ x <= n /\ y <= n
    BY <1>0
  <2>2. ~(n - y < n - x)
    BY <1>3, <1>4, <2>1
  <2> QED
    BY <2>1, <2>2
<1> QED
  BY <1>5

\* Version(r) is the last change of the document.
LEMMA VersionIs ==
  ASSUME NEW changes \in Seq(Changes), NEW r
  PROVE  IsVersion(changes, r, Max({0} \cup {i \in DOMAIN changes : changes[i].ref = r}))
<1> DEFINE S == {0} \cup {i \in DOMAIN changes : changes[i].ref = r}
<1>1. Len(changes) \in Nat /\ DOMAIN changes = 1 .. Len(changes)
  OBVIOUS
<1>2. S \in SUBSET (0 .. Len(changes)) /\ S # {}
  BY <1>1
<1>3. \E x \in S : \A y \in S : x >= y
  BY <1>1, <1>2, Greatest
<1>4. Max(S) \in S /\ \A y \in S : Max(S) >= y
  BY <1>3 DEF Max
<1> QED
  BY <1>1, <1>2, <1>4 DEF IsVersion

\* There is but one.
LEMMA VersionIsOne ==
  ASSUME NEW changes \in Seq(Changes), NEW r, NEW v, NEW w,
         IsVersion(changes, r, v), IsVersion(changes, r, w)
  PROVE  v = w
<1>1. v \in Nat /\ w \in Nat /\ v <= Len(changes) /\ w <= Len(changes) /\ Len(changes) \in Nat
  BY DEF IsVersion
<1>2. v # 0 => v <= w
  BY <1>1 DEF IsVersion
<1>3. w # 0 => w <= v
  BY <1>1 DEF IsVersion
<1> QED
  BY <1>1, <1>2, <1>3

\* The same of the state and of the next one.
LEMMA Versions ==
  ASSUME log \in Seq(Changes)
  PROVE  \A r : IsVersion(log, r, Version(r)) /\ Version(r) \in Nat
<1>1. \A r : IsVersion(log, r, Version(r))
  BY VersionIs DEF Version
<1> QED
  BY <1>1 DEF IsVersion

\* So it is in the next state.
LEMMA VersionsNext ==
  ASSUME log' \in Seq(Changes)
  PROVE  \A r : IsVersion(log', r, Version(r)')
BY VersionIs DEF Version

\* A change is the last of its document, and of no other.
LEMMA ChangeIsLast ==
  ASSUME MemoryTypes, NEW r \in Refs, NEW gone \in BOOLEAN, Change(r, gone)
  PROVE  /\ log' \in Seq(Changes) /\ Len(log') = Len(log) + 1
         /\ Version(r)' = Len(log) + 1
         /\ \A q \in Refs : q # r => Version(q)' = Version(q) /\ (IsGone(q)' <=> IsGone(q))
<1>1. log \in Seq(Changes) /\ log' = Append(log, [ref |-> r, gone |-> gone])
  BY DEF MemoryTypes, Change
<1>2. [ref |-> r, gone |-> gone] \in Changes
  BY DEF Changes
<1>3. /\ log' \in Seq(Changes) /\ Len(log') = Len(log) + 1 /\ Len(log) \in Nat
      /\ \A i \in 1 .. Len(log) : log'[i] = log[i]
      /\ log'[Len(log) + 1].ref = r
  BY <1>1, <1>2
<1>4. IsVersion(log', r, Len(log) + 1)
  BY <1>3 DEF IsVersion
<1>5. Version(r)' = Len(log) + 1
  BY <1>3, <1>4, VersionsNext, VersionIsOne
<1>6. ASSUME NEW q \in Refs, q # r
      PROVE  Version(q)' = Version(q) /\ (IsGone(q)' <=> IsGone(q))
  <2>1. IsVersion(log, q, Version(q))
    BY <1>1, Versions
  <2>2. IsVersion(log', q, Version(q))
    BY <1>3, <1>6, <2>1 DEF IsVersion
  <2>3. Version(q)' = Version(q)
    BY <1>3, <2>2, VersionsNext, VersionIsOne
  <2>4. Version(q) # 0 => log'[Version(q)] = log[Version(q)]
    BY <1>3, <2>1 DEF IsVersion
  <2> QED
    BY <2>3, <2>4 DEF IsGone
<1> QED
  BY <1>3, <1>5, <1>6

\* A change, whatever it is, lies after what was listed and saved.
LEMMA ChangeKeeps ==
  ASSUME MemoryInv, NEW r \in Refs, NEW gone \in BOOLEAN, Change(r, gone)
  PROVE  MemoryInv'
<1>1. /\ log' \in Seq(Changes) /\ Len(log') = Len(log) + 1
      /\ Version(r)' = Len(log) + 1
      /\ \A q \in Refs : q # r => Version(q)' = Version(q) /\ (IsGone(q)' <=> IsGone(q))
  BY ChangeIsLast DEF MemoryInv
<1>2. /\ UNCHANGED <<provider, saved, cursor, step, todo, place, more, live, blank, retried>>
      /\ Len(log) \in Nat
  BY DEF Change, listing, memory, MemoryInv, MemoryTypes
<1>3. MemoryTypes'
  <2>1. \A m \in live : Version(m[1])' # 0
    BY <1>1, <1>2 DEF MemoryInv, MemoryTypes
  <2>2. saved \in 0 .. Len(log') /\ cursor \in 0 .. Len(log') /\ place \in 0 .. Len(log')
    BY <1>1, <1>2 DEF MemoryInv, MemoryTypes
  <2>3. \A i \in 1 .. Len(todo) : todo[i].next <= Len(log')
    <3>1. \A i \in 1 .. Len(todo) : todo[i] \in Documents /\ todo[i].next <= Len(log)
      BY DEF MemoryInv, MemoryTypes
    <3>2. \A i \in 1 .. Len(todo) : todo[i].next \in Nat
      BY <3>1 DEF Documents
    <3> QED
      BY <1>1, <1>2, <3>1, <3>2
  <2>4. \A m \in live : m \in Refs \X Nat /\ todo \in Seq(Documents)
    BY DEF MemoryInv, MemoryTypes
  <2>5. provider \in {"drive", "file"} /\ (provider = "file" => ~more) /\ todo \in Seq(Documents)
    BY DEF MemoryInv, MemoryTypes
  <2> QED
    BY <1>1, <1>2, <2>1, <2>2, <2>3, <2>4, <2>5 DEF MemoryTypes
<1>4. TickRests'
  BY <1>2 DEF MemoryInv, TickRests
<1>5. \A q \in Refs : q # r => (Reflected(q)' <=> Reflected(q))
  BY <1>1, <1>2 DEF Reflected
<1>6. ASSUME ~retried
      PROVE  NothingIsPassedOver' /\ ListsOn'
  <2>1. NothingIsPassedOver'
    BY <1>1, <1>2, <1>5, <1>6 DEF MemoryInv, MemoryTypes, NothingIsPassedOver
  <2>2. ASSUME step # "embed"
        PROVE  \E time \in 0 .. Len(log') : Reaches(time)'
    <3>1. PICK time \in 0 .. Len(log) : Reaches(time)
      BY <1>6, <2>2 DEF MemoryInv, ListsOn
    <3>2. time \in 0 .. Len(log') /\ time < Version(r)'
      BY <1>1, <1>2
    <3>3. \A q \in Refs : Version(q)' <= time => Reflected(q)' \/ OnTheList(q)'
      BY <1>1, <1>2, <1>5, <3>1, <3>2 DEF Reaches, OnTheList
    <3>4. \A i \in 1 .. Len(todo) : \A q \in Refs : todo[i].ref = q =>
            IF provider = "file" THEN ~todo[i].gone
            ELSE Version(q)' <= time => (todo[i].gone = IsGone(q)')
      <4> TAKE i \in 1 .. Len(todo)
      <4> TAKE q \in Refs
      <4>1. CASE q = r
        BY <3>1, <3>2, <1>1, <1>2, <4>1 DEF Reaches
      <4>2. CASE q # r
        <5>1. Version(q)' = Version(q) /\ (IsGone(q)' <=> IsGone(q))
          BY <1>1, <4>2
        <5>2. IsGone(q)' \in BOOLEAN /\ IsGone(q) \in BOOLEAN
          BY DEF IsGone
        <5> QED
          BY <3>1, <5>1, <5>2 DEF Reaches
      <4> QED
        BY <4>1, <4>2
    <3>5. Reaches(time)'
      BY <1>1, <1>2, <3>1, <3>3, <3>4 DEF Reaches
    <3> QED
      BY <3>2, <3>5
  <2> QED
    BY <1>2, <2>1, <2>2 DEF ListsOn
<1> QED
  BY <1>2, <1>3, <1>4, <1>6 DEF MemoryInv

-----------------------------------------------------------------------------
\* The greater and the smaller of two numbers.
LEMMA OfTwo ==
  ASSUME NEW a \in Nat, NEW b \in Nat
  PROVE  /\ Max({a, b}) \in {a, b} /\ Max({a, b}) >= a /\ Max({a, b}) >= b
         /\ Min({a, b}) \in {a, b} /\ Min({a, b}) <= a /\ Min({a, b}) <= b
<1>1. \E x \in {a, b} : \A y \in {a, b} : x >= y
  BY a >= b \/ b >= a
<1>2. \E x \in {a, b} : \A y \in {a, b} : x <= y
  BY a >= b \/ b >= a
<1> QED
  BY <1>1, <1>2 DEF Max, Min

\* While nothing changes the documents have the versions they had.
LEMMA LogStays ==
  ASSUME UNCHANGED world
  PROVE  \A r \in Refs : /\ Version(r)' = Version(r)
                         /\ IsGone(r)' = IsGone(r) /\ IsGone(r) \in BOOLEAN
BY DEF world, Version, IsGone

\* ... and are as they were in memories that nothing touches.
LEMMA MemoriesStay ==
  ASSUME UNCHANGED world, UNCHANGED live
  PROVE  \A r \in Refs : Reflected(r)' <=> Reflected(r)
<1>1. provider' = provider
  BY DEF world
<1> QED
  BY <1>1, LogStays DEF Reflected

\* Types of a step after which the listing is as it was, or empty.
LEMMA TypesStay ==
  ASSUME MemoryInv, UNCHANGED world, UNCHANGED live,
         saved' \in 0 .. Len(log), cursor' \in 0 .. Len(log), place' \in 0 .. Len(log),
         todo' \in Seq(Documents), \A i \in 1 .. Len(todo') : todo'[i].next <= Len(log),
         provider = "file" => ~more'
  PROVE  MemoryTypes'
<1>1. UNCHANGED <<log, provider>>
  BY DEF world
<1>2. \A m \in live : m \in Refs \X Nat /\ Version(m[1])' # 0
  <2>1. \A m \in live : m \in Refs \X Nat /\ Version(m[1]) # 0
    BY DEF MemoryInv, MemoryTypes
  <2>2. \A r \in Refs : Version(r)' = Version(r)
    BY LogStays
  <2> QED
    BY <2>1, <2>2
<1>3. provider \in {"drive", "file"} /\ log \in Seq(Changes)
  BY DEF MemoryInv, MemoryTypes
<1> QED
  BY <1>1, <1>2, <1>3 DEF MemoryTypes

\* A step that leaves the listing and the memories as they are.
LEMMA ListingStays ==
  ASSUME MemoryInv, UNCHANGED <<world, listing, live, saved, cursor, retried>>,
         TickRests', step = "embed" => step' = "embed"
  PROVE  MemoryInv'
<1>1. UNCHANGED world /\ UNCHANGED live
  OBVIOUS
<1>2. UNCHANGED <<log, provider, todo, place, more, saved, cursor, retried>>
  BY DEF world, listing
<1>3. MemoryTypes'
  BY <1>1, <1>2, TypesStay DEF MemoryInv, MemoryTypes
<1>4. \A r \in Refs : /\ Version(r)' = Version(r) /\ (Reflected(r)' <=> Reflected(r))
                      /\ IsGone(r)' = IsGone(r)
  BY <1>1, LogStays, MemoriesStay
<1>5. ASSUME ~retried
      PROVE  NothingIsPassedOver'
  BY <1>2, <1>4, <1>5 DEF MemoryInv, NothingIsPassedOver
<1>6. ASSUME ~retried, step' # "embed"
      PROVE  \E time \in 0 .. Len(log') : Reaches(time)'
  <2>1. PICK time \in 0 .. Len(log) : Reaches(time)
    BY <1>6 DEF MemoryInv, ListsOn
  <2>2. Reaches(time)'
    <3>1. \A r \in Refs : Version(r)' <= time => Reflected(r)' \/ OnTheList(r)'
      BY <1>2, <1>4, <2>1 DEF Reaches, OnTheList
    <3>2. \A i \in 1 .. Len(todo') : \A r \in Refs : todo'[i].ref = r =>
            IF provider' = "file" THEN ~todo'[i].gone
            ELSE Version(r)' <= time => (todo'[i].gone = IsGone(r)')
      BY <1>2, <1>4, <2>1 DEF Reaches
    <3> QED
      BY <1>2, <2>1, <3>1, <3>2 DEF Reaches
  <2> QED
    BY <1>2, <2>2
<1> QED
  BY <1>2, <1>3, <1>5, <1>6 DEF MemoryInv, ListsOn

\* A step that ends the listing.
LEMMA ListingEnds ==
  ASSUME MemoryInv, UNCHANGED world, UNCHANGED live,
         saved' \in 0 .. Len(log), cursor' \in 0 .. Len(log), place' \in 0 .. Len(log),
         todo' = <<>>, ~more', TickRests',
         ~retried' => NothingIsPassedOver',
         ~retried' /\ step' # "embed" => cursor' = saved' /\ place' = saved'
  PROVE  MemoryInv'
<1>1. UNCHANGED <<log, provider>>
  BY DEF world
<1>2. \A i \in 1 .. Len(todo') : FALSE
  OBVIOUS
<1>3. MemoryTypes'
  BY <1>2, TypesStay
<1>4. ASSUME ~retried', step' # "embed"
      PROVE  \E time \in 0 .. Len(log') : Reaches(time)'
  <2>1. \A r \in Refs : Version(r)' <= saved' => Reflected(r)'
    BY <1>4 DEF NothingIsPassedOver
  <2>2. PICK time \in 0 .. Len(log) : time = saved'
    OBVIOUS
  <2>3. Len(log) \in Nat
    BY DEF MemoryInv, MemoryTypes
  <2>4. time <= Len(log')
    BY <1>1, <2>3
  <2>5. Reaches(time)'
    BY <1>2, <1>4, <2>1, <2>2, <2>3, <2>4 DEF Reaches
  <2> QED
    BY <1>1, <2>5
<1> QED
  BY <1>3, <1>4 DEF MemoryInv, ListsOn

-----------------------------------------------------------------------------
\* A row of a listing.
LEMMA RowOf ==
  ASSUME NEW r \in Refs, NEW gone \in BOOLEAN, NEW next \in Nat
  PROVE  \A row : row = [ref |-> r, gone |-> gone, next |-> next] =>
           row \in Documents /\ row.ref = r /\ row.gone = gone /\ row.next = next
BY DEF Documents

\* A page of Drive: the changes from the place to the page's end, each document
\* as it is when the page is read.
LEMMA DrivesPage ==
  ASSUME MemoryTypes
  PROVE  /\ PageEnd \in place .. Len(log)
         /\ DrivePage \in Seq(Documents) /\ Len(DrivePage) = PageEnd - place
         /\ \A i \in 1 .. Len(DrivePage) :
              /\ DrivePage[i].ref = log[place + i].ref /\ DrivePage[i].next = PageEnd
              /\ \A r \in Refs : DrivePage[i].ref = r => DrivePage[i].gone = IsGone(r)
<1>1. /\ log \in Seq(Changes) /\ Len(log) \in Nat /\ place \in Nat /\ place <= Len(log)
      /\ place + ChangesMax \in Nat
  BY IngestAssumption DEF IngestAssumption, MemoryTypes
<1>2. PageEnd \in Nat /\ place <= PageEnd /\ PageEnd <= Len(log)
  BY <1>1, OfTwo, IngestAssumption DEF IngestAssumption, PageEnd
<1>3. PICK n \in Nat : n = PageEnd - place /\ place + n <= Len(log)
  BY <1>1, <1>2
<1>4. \A i \in 1 .. n : log[place + i] \in Changes
  <2> TAKE i \in 1 .. n
  <2>1. place + i \in 1 .. Len(log)
    BY <1>1, <1>3
  <2> QED
    BY <1>1, <2>1
<1>5. \A i \in 1 .. n : log[place + i].ref \in Refs /\ IsGone(log[place + i].ref) \in BOOLEAN
  BY <1>4 DEF Changes, IsGone
<1>6. /\ DrivePage = [i \in 1 .. n |-> [ref |-> log[place + i].ref,
                                        gone |-> IsGone(log[place + i].ref), next |-> PageEnd]]
  BY <1>3 DEF DrivePage
<1>7. \A i \in 1 .. n : DrivePage[i] = [ref |-> log[place + i].ref,
                                        gone |-> IsGone(log[place + i].ref), next |-> PageEnd]
  BY <1>6
<1>8. \A i \in 1 .. n :
         /\ DrivePage[i] \in Documents
         /\ DrivePage[i].ref = log[place + i].ref /\ DrivePage[i].next = PageEnd
         /\ DrivePage[i].gone = IsGone(log[place + i].ref)
  <2> TAKE i \in 1 .. n
  <2>1. PICK r \in Refs : r = log[place + i].ref
    BY <1>5
  <2>2. PICK gone \in BOOLEAN : gone = IsGone(log[place + i].ref)
    BY <1>5
  <2>3. DrivePage[i] = [ref |-> r, gone |-> gone, next |-> PageEnd]
    BY <1>7, <2>1, <2>2
  <2> QED
    BY <1>2, <2>1, <2>2, <2>3, RowOf
<1>9. DrivePage \in Seq(Documents) /\ Len(DrivePage) = n
  <2>1. DrivePage \in [1 .. n -> Documents]
    BY <1>6, <1>8
  <2> QED
    BY <1>3, <2>1
<1>10. \A i \in 1 .. n : \A r \in Refs : DrivePage[i].ref = r => DrivePage[i].gone = IsGone(r)
  BY <1>8
<1> QED
  BY <1>1, <1>2, <1>3, <1>8, <1>9, <1>10

\* A scan: every file that is newer than the cursor, in some order.
LEMMA Scan ==
  ASSUME MemoryTypes, ScansHoldAll, NEW scan \in Scans
  PROVE  /\ scan \in Seq(Documents)
         /\ \A i \in 1 .. Len(scan) : ~scan[i].gone /\ scan[i].next <= Len(log)
         /\ \A r \in Newer : \E i \in 1 .. Len(scan) : scan[i].ref = r
<1> DEFINE c == Cardinality(Newer)
<1>1. IsFiniteSet(Newer) /\ c \in Nat /\ c <= Cardinality(Refs) /\ Cardinality(Refs) \in Nat
  BY FS_Subset, FS_CardinalityType, IngestAssumption DEF IngestAssumption, ScansHoldAll, Newer
<1> HIDE DEF c
<1>2. Min({ScanMax, c}) = c
  BY <1>1, OfTwo, IngestAssumption DEF IngestAssumption, ScansHoldAll
<1>3. PICK s \in [1 .. c -> Newer] :
        /\ IsInjective(s)
        /\ scan = [i \in DOMAIN s |-> [ref |-> s[i], gone |-> FALSE, next |-> Version(s[i])]]
  BY <1>2 DEF Scans, c
<1>4. \A i \in 1 .. c : scan[i] = [ref |-> s[i], gone |-> FALSE, next |-> Version(s[i])]
  BY <1>3
<1>5. \A i \in 1 .. c : s[i] \in Refs
  BY <1>3 DEF Newer
<1>6. \A r : Version(r) \in Nat /\ Version(r) <= Len(log)
  BY Versions DEF MemoryTypes, IsVersion
<1>7. \A i \in 1 .. c : scan[i] \in Documents
  <2> TAKE i \in 1 .. c
  <2>1. PICK r \in Refs, v \in Nat : r = s[i] /\ v = Version(s[i])
    BY <1>5, <1>6
  <2>2. scan[i] = [ref |-> r, gone |-> FALSE, next |-> v]
    BY <1>4, <2>1
  <2>3. [ref |-> r, gone |-> FALSE, next |-> v] \in Documents
    BY DEF Documents
  <2> QED
    BY <2>2, <2>3
<1>8. scan \in Seq(Documents) /\ Len(scan) = c
  <2>1. scan \in [1 .. c -> Documents]
    BY <1>3, <1>7
  <2> QED
    BY <1>1, <2>1
<1>9. \A r \in Newer : \E i \in 1 .. c : s[i] = r
  <2>1. s \in Injection(1 .. c, Newer)
    BY <1>3 DEF Injection
  <2>2. Cardinality(1 .. c) = c
    BY <1>1, FS_Interval
  <2>3. s \in Surjection(1 .. c, Newer)
    BY <1>1, <2>1, <2>2, FS_Injection DEF c
  <2> QED
    BY <2>3 DEF Surjection
<1> QED
  BY <1>4, <1>6, <1>8, <1>9

-----------------------------------------------------------------------------
\* A page of Drive is listed.
LEMMA PageIsListed ==
  ASSUME MemoryInv, UNCHANGED <<world, live, saved, cursor, retried>>,
         step = "list", step' = "docs", provider = "drive",
         todo' = DrivePage, place' = PageEnd, more' = (PageEnd < Len(log))
  PROVE  MemoryInv'
<1>1. /\ UNCHANGED <<log, provider, live, saved, cursor, retried>>
      /\ MemoryTypes /\ todo = <<>> /\ place \in Nat /\ Len(log) \in Nat
  BY DEF world, MemoryInv, MemoryTypes, TickRests
<1>2. /\ PageEnd \in place .. Len(log)
      /\ DrivePage \in Seq(Documents) /\ Len(DrivePage) = PageEnd - place
      /\ \A i \in 1 .. Len(DrivePage) :
           /\ DrivePage[i].ref = log[place + i].ref /\ DrivePage[i].next = PageEnd
           /\ \A r \in Refs : DrivePage[i].ref = r => DrivePage[i].gone = IsGone(r)
  BY <1>1, DrivesPage
<1>3. PICK end \in Nat : end = PageEnd /\ place <= end /\ end <= Len(log)
  BY <1>1, <1>2
<1>4. MemoryTypes'
  <2>1. \A i \in 1 .. Len(todo') : todo'[i].next <= Len(log)
    BY <1>1, <1>2, <1>3
  <2>2. place' \in 0 .. Len(log)
    BY <1>1, <1>3
  <2>3. saved' \in 0 .. Len(log) /\ cursor' \in 0 .. Len(log)
    BY <1>1 DEF MemoryTypes
  <2> QED
    BY <1>2, <2>1, <2>2, <2>3, TypesStay
<1>5. \A r \in Refs : /\ Version(r)' = Version(r) /\ (Reflected(r)' <=> Reflected(r))
                      /\ IsGone(r)' = IsGone(r)
  BY LogStays, MemoriesStay
<1>6. ASSUME ~retried
      PROVE  NothingIsPassedOver' /\ Reaches(end)'
  <2>1. PICK time \in 0 .. Len(log) : Reaches(time)
    BY <1>6 DEF MemoryInv, ListsOn
  <2>2. time = place /\ \A r \in Refs : Version(r) <= place => Reflected(r)
    BY <1>1, <2>1 DEF Reaches, OnTheList
  <2>3. ASSUME NEW r \in Refs, Version(r) <= end, ~Reflected(r)
        PROVE  \E i \in 1 .. Len(todo') : todo'[i].ref = r
    <3>1. Version(r) \in Nat /\ IsVersion(log, r, Version(r))
      BY <1>1, Versions DEF MemoryTypes
    <3>2. ~(Version(r) <= place)
      BY <2>2, <2>3
    <3>3. PICK i \in Nat : place + i = Version(r)
      <4>1. PICK v \in Nat : v = Version(r)
        BY <3>1
      <4>2. v - place \in Nat /\ place + (v - place) = v
        BY <1>1, <3>2, <4>1
      <4> QED
        BY <4>1, <4>2
    <3>4. i \in 1 .. (end - place) /\ log[place + i].ref = r
      BY <1>1, <1>3, <2>3, <3>1, <3>2, <3>3 DEF IsVersion
    <3> QED
      BY <1>2, <1>3, <3>4
  <2>4. \A r \in Refs : Version(r)' <= end => Reflected(r)' \/ OnTheList(r)'
    BY <1>5, <2>3 DEF OnTheList
  <2>5. \A i \in 1 .. Len(todo') : \A r \in Refs : todo'[i].ref = r =>
          IF provider' = "file" THEN ~todo'[i].gone
          ELSE Version(r)' <= end => (todo'[i].gone = IsGone(r)')
    BY <1>1, <1>2, <1>5
  <2>6. \A i \in 1 .. Len(todo') : todo'[i].next <= end
    BY <1>2, <1>3
  <2>7. saved' <= end /\ cursor' <= end /\ end <= Len(log')
    <3>1. saved \in Nat /\ cursor \in Nat /\ saved <= place /\ cursor <= place
      BY <2>1, <2>2, <1>1 DEF Reaches, MemoryTypes
    <3> QED
      BY <1>1, <1>3, <3>1
  <2>8. Reaches(end)'
    BY <1>1, <1>3, <2>4, <2>5, <2>6, <2>7 DEF Reaches
  <2> QED
    BY <1>1, <1>5, <1>6, <2>8 DEF MemoryInv, NothingIsPassedOver
<1>7. TickRests'
  BY DEF TickRests
<1>8. end \in 0 .. Len(log')
  BY <1>1, <1>3
<1> QED
  BY <1>1, <1>4, <1>6, <1>7, <1>8 DEF MemoryInv, ListsOn

\* A scan is listed: every file there is, as it is now.
LEMMA ScanIsListed ==
  ASSUME MemoryInv, ScansHoldAll,
         UNCHANGED <<world, live, saved, cursor, retried, place, more>>,
         step = "list", step' = "docs", provider = "file", todo' \in Scans
  PROVE  MemoryInv'
<1>1. /\ UNCHANGED <<log, provider, live, saved, cursor, retried, place, more>>
      /\ MemoryTypes /\ todo = <<>> /\ Len(log) \in Nat
  BY DEF world, MemoryInv, MemoryTypes, TickRests
<1>2. /\ todo' \in Seq(Documents)
      /\ \A i \in 1 .. Len(todo') : ~todo'[i].gone /\ todo'[i].next <= Len(log)
      /\ \A r \in Newer : \E i \in 1 .. Len(todo') : todo'[i].ref = r
  BY <1>1, Scan
<1>3. MemoryTypes'
  <2>1. /\ saved' \in 0 .. Len(log) /\ cursor' \in 0 .. Len(log) /\ place' \in 0 .. Len(log)
        /\ ~more'
    BY <1>1 DEF MemoryTypes
  <2> QED
    BY <1>2, <2>1, TypesStay
<1>4. \A r \in Refs : Version(r)' = Version(r) /\ (Reflected(r)' <=> Reflected(r))
  BY LogStays, MemoriesStay
<1>5. PICK end \in Nat : end = Len(log)
  BY <1>1
<1>6. ASSUME ~retried
      PROVE  NothingIsPassedOver' /\ Reaches(end)'
  <2>1. PICK time \in 0 .. Len(log) : Reaches(time)
    BY <1>6 DEF MemoryInv, ListsOn
  <2>2. cursor \in Nat /\ cursor <= time /\ \A r \in Refs : Version(r) <= time => Reflected(r)
    BY <1>1, <2>1 DEF Reaches, OnTheList, MemoryTypes
  <2>3. ASSUME NEW r \in Refs, ~Reflected(r)
        PROVE  \E i \in 1 .. Len(todo') : todo'[i].ref = r
    <3>1. Version(r) \in Nat
      BY <1>1, Versions DEF MemoryTypes
    <3>2. Version(r) > cursor
      BY <2>2, <2>3, <3>1
    <3>3. ~IsGone(r)
      BY <1>1, <2>3 DEF Reflected
    <3> QED
      BY <1>2, <3>2, <3>3 DEF Newer
  <2>4. \A r \in Refs : Version(r)' <= end => Reflected(r)' \/ OnTheList(r)'
    BY <1>4, <2>3 DEF OnTheList
  <2>5. saved' <= end /\ cursor' <= end /\ end <= Len(log')
    BY <1>1, <1>5 DEF MemoryTypes
  <2>6. Reaches(end)'
    BY <1>1, <1>2, <1>5, <2>4, <2>5 DEF Reaches
  <2> QED
    BY <1>1, <1>4, <1>6, <2>6 DEF MemoryInv, NothingIsPassedOver
<1>7. TickRests'
  BY DEF TickRests
<1>8. end \in 0 .. Len(log')
  BY <1>1, <1>5
<1> QED
  BY <1>1, <1>3, <1>6, <1>7, <1>8 DEF MemoryInv, ListsOn

-----------------------------------------------------------------------------
\* The cursor that a document moves stays within the log, and within the time
\* the listing has reached.
LEMMA MovedIsBetween ==
  ASSUME MemoryTypes, todo # <<>>
  PROVE  /\ Head(todo) = todo[1] /\ Len(todo) >= 1 /\ Head(todo) \in Documents
         /\ Moved \in 0 .. Len(log)
         /\ \A time \in Nat : cursor <= time /\ todo[1].next <= time => Moved <= time
<1>1. todo \in Seq(Documents) /\ Len(log) \in Nat /\ cursor \in Nat /\ cursor <= Len(log)
  BY DEF MemoryTypes
<1>2. Head(todo) = todo[1] /\ Len(todo) \in Nat /\ Len(todo) >= 1 /\ todo[1] \in Documents
  BY <1>1
<1>3. todo[1].next \in Nat /\ todo[1].next <= Len(log)
  BY <1>2 DEF Documents, MemoryTypes
<1>4. PICK n \in Nat : n = Head(todo).next
  BY <1>2, <1>3
<1>5. Moved \in {cursor, n}
  BY <1>1, <1>4, OfTwo DEF Moved
<1> QED
  BY <1>1, <1>2, <1>3, <1>4, <1>5

\* What the first document does to the memories: its own are as it is, if the
\* listing has reached its last change, and the others' are as they were.
LEMMA DocumentIsTaken ==
  ASSUME MemoryInv, Ingest, NEW r \in Refs, Head(todo).ref = r
  PROVE  /\ \A q \in Refs : q # r /\ Reflected(q) => Reflected(q)'
         /\ \A m \in live' : m \in Refs \X Nat /\ Version(m[1])' # 0
         /\ \A time : ~retried /\ Reaches(time) /\ Version(r) <= time => Reflected(r)'
<1>1. /\ UNCHANGED world /\ UNCHANGED <<provider, log>> /\ todo # <<>>
      /\ provider \in {"drive", "file"} /\ log \in Seq(Changes)
      /\ \A m \in live : m \in Refs \X Nat /\ Version(m[1]) # 0
  BY DEF Ingest, world, MemoryInv, MemoryTypes
<1>2. \A q \in Refs : /\ Version(q)' = Version(q) /\ Version(q) \in Nat
                      /\ IsGone(q)' = IsGone(q) /\ IsGone(q) \in BOOLEAN
  BY <1>1, LogStays, Versions
<1>3. Head(todo) = todo[1] /\ 1 \in 1 .. Len(todo)
  <2>1. Len(todo) \in Nat /\ Head(todo) = todo[1] /\ Len(todo) >= 1
    BY <1>1, MovedIsBetween DEF MemoryInv, MemoryTypes
  <2> QED
    BY <2>1
<1>4. \A time : ~retried /\ Reaches(time) =>
        IF provider = "file" THEN ~Head(todo).gone
        ELSE Version(r) <= time => Head(todo).gone = IsGone(r)
  BY <1>3 DEF Reaches
<1>5. CASE Head(todo).gone /\ InvalidateBySource(r)
  <2>1. live' = {m \in live : m[1] # r}
    BY <1>5 DEF InvalidateBySource
  <2>2. \A q \in Refs : q # r /\ Reflected(q) => Reflected(q)'
    BY <1>1, <1>2, <2>1 DEF Reflected
  <2>3. \A m \in live' : m \in Refs \X Nat /\ Version(m[1])' # 0
    BY <1>1, <1>2, <2>1
  <2>4. ASSUME NEW time, ~retried, Reaches(time), Version(r) <= time
        PROVE  Reflected(r)'
    <3>1. IsGone(r)'
      BY <1>2, <1>4, <1>5, <2>4
    <3> QED
      BY <2>1, <3>1 DEF Reflected
  <2> QED
    BY <2>2, <2>3, <2>4
<1>6. CASE ~IsGone(r) /\ Upsert(r)
  <2>1. live' = live \cup {<<r, Version(r)>>}
    BY <1>6 DEF Upsert
  <2>2. \A q \in Refs : q # r /\ Reflected(q) => Reflected(q)'
    BY <1>1, <1>2, <2>1 DEF Reflected
  <2>3. \A m \in live' : m \in Refs \X Nat /\ Version(m[1])' # 0
    <3>1. Version(r) # 0
      BY <1>6 DEF IsGone
    <3> QED
      BY <1>1, <1>2, <2>1, <3>1
  <2>4. Reflected(r)'
    BY <1>2, <1>6, <2>1 DEF Reflected
  <2> QED
    BY <2>2, <2>3, <2>4
<1>7. CASE ~Head(todo).gone /\ IsGone(r) /\ live' = live
  <2>1. \A q \in Refs : Reflected(q)' <=> Reflected(q)
    BY <1>1, <1>7, MemoriesStay
  <2>2. \A m \in live' : m \in Refs \X Nat /\ Version(m[1])' # 0
    BY <1>1, <1>2, <1>7
  <2>3. ASSUME NEW time, ~retried, Reaches(time), Version(r) <= time
        PROVE  Reflected(r)'
    <3>1. provider = "file"
      BY <1>4, <1>7, <2>3
    <3> QED
      BY <1>1, <1>2, <1>7, <3>1 DEF Reflected
  <2> QED
    BY <2>1, <2>2, <2>3
<1> QED
  BY <1>5, <1>6, <1>7 DEF Ingest, memory

\* A document is taken off the list.
LEMMA IngestKeeps ==
  ASSUME MemoryInv, Ingest
  PROVE  MemoryInv'
<1>1. /\ UNCHANGED <<log, provider, saved, step, place, more, retried>> /\ UNCHANGED world
      /\ todo # <<>> /\ todo' = Tail(todo) /\ step = "docs"
      /\ cursor' = Moved \/ cursor' = cursor
  BY DEF Ingest, world
<1>2. /\ MemoryTypes /\ TickRests /\ todo \in Seq(Documents) /\ Len(log) \in Nat
      /\ saved \in Nat /\ cursor \in Nat /\ cursor <= Len(log)
  BY DEF MemoryInv, MemoryTypes
<1>3. /\ Head(todo) = todo[1] /\ Len(todo) >= 1 /\ Head(todo) \in Documents
      /\ Moved \in 0 .. Len(log)
      /\ \A time \in Nat : cursor <= time /\ todo[1].next <= time => Moved <= time
  BY <1>1, <1>2, MovedIsBetween
<1>4. PICK r \in Refs : r = Head(todo).ref
  BY <1>3 DEF Documents
<1>5. /\ \A q \in Refs : q # r /\ Reflected(q) => Reflected(q)'
      /\ \A m \in live' : m \in Refs \X Nat /\ Version(m[1])' # 0
      /\ \A time : ~retried /\ Reaches(time) /\ Version(r) <= time => Reflected(r)'
  BY <1>4, DocumentIsTaken
<1>6. /\ todo' \in Seq(Documents) /\ Len(todo') = Len(todo) - 1 /\ Len(todo) \in Nat
      /\ \A i \in 1 .. Len(todo') : todo'[i] = todo[i + 1] /\ i + 1 \in 1 .. Len(todo)
      /\ \A i \in 1 .. Len(todo) :
           i = 1 \/ (i - 1 \in 1 .. Len(todo') /\ todo'[i - 1] = todo[i])
  <2>1. /\ todo' \in Seq(Documents) /\ Len(todo') = Len(todo) - 1 /\ Len(todo) \in Nat
        /\ \A i \in 1 .. Len(todo') : todo'[i] = todo[i + 1]
    BY <1>1, <1>2, <1>3
  <2>2. PICK n \in Nat : n = Len(todo) /\ Len(todo') = n - 1
    BY <2>1
  <2>3. \A i \in 1 .. n - 1 : i + 1 \in 1 .. n
    OBVIOUS
  <2>4. \A i \in 1 .. n : i = 1 \/ (i - 1 \in 1 .. n - 1 /\ (i - 1) + 1 = i)
    OBVIOUS
  <2>5. ASSUME NEW i \in 1 .. n, i # 1
        PROVE  i - 1 \in 1 .. n - 1 /\ todo'[i - 1] = todo[i]
    <3>1. PICK j \in 1 .. n - 1 : j = i - 1 /\ j + 1 = i
      BY <2>4, <2>5
    <3> QED
      BY <2>1, <2>2, <3>1
  <2>6. \A i \in 1 .. n : i = 1 \/ (i - 1 \in 1 .. n - 1 /\ todo'[i - 1] = todo[i])
    BY <2>5
  <2>7. \A i \in 1 .. n - 1 : todo'[i] = todo[i + 1] /\ i + 1 \in 1 .. n
    BY <2>1, <2>2, <2>3
  <2> QED
    BY <2>1, <2>2, <2>6, <2>7
<1>7. MemoryTypes'
  <2>1. saved' \in 0 .. Len(log') /\ cursor' \in 0 .. Len(log') /\ place' \in 0 .. Len(log')
    BY <1>1, <1>2, <1>3 DEF MemoryTypes
  <2>2. \A i \in 1 .. Len(todo') : todo'[i].next <= Len(log')
    BY <1>1, <1>2, <1>6 DEF MemoryTypes
  <2>3. log' \in Seq(Changes) /\ provider' \in {"drive", "file"} /\ (provider' = "file" => ~more')
    BY <1>1, <1>2 DEF MemoryTypes
  <2> QED
    BY <1>5, <1>6, <2>1, <2>2, <2>3 DEF MemoryTypes
<1>8. \A q \in Refs : Version(q)' = Version(q) /\ IsGone(q)' = IsGone(q)
  BY <1>1, LogStays
<1>9. ASSUME ~retried
      PROVE  NothingIsPassedOver' /\ ListsOn'
  <2>1. PICK time \in 0 .. Len(log) : Reaches(time)
    BY <1>1, <1>9 DEF MemoryInv, ListsOn
  <2>2. \A q \in Refs : Version(q) <= time /\ Reflected(q) => Reflected(q)'
    BY <1>5, <1>9, <2>1
  <2>3. \A q \in Refs : Version(q) <= saved => Version(q) <= time /\ Reflected(q)
    <3>1. \A q \in Refs : Version(q) \in Nat
      BY <1>2, Versions DEF MemoryTypes
    <3>2. saved <= time /\ NothingIsPassedOver
      BY <1>9, <2>1 DEF Reaches, MemoryInv
    <3> QED
      BY <1>2, <3>1, <3>2 DEF NothingIsPassedOver
  <2>4. NothingIsPassedOver'
    BY <1>1, <1>8, <2>2, <2>3 DEF NothingIsPassedOver
  <2>5. ASSUME NEW q \in Refs, Version(q) <= time, ~Reflected(q), q # r
        PROVE  \E i \in 1 .. Len(todo') : todo'[i].ref = q
    <3>1. PICK i \in 1 .. Len(todo) : todo[i].ref = q
      BY <2>1, <2>5 DEF Reaches, OnTheList
    <3>2. i # 1
      BY <1>3, <1>4, <2>5, <3>1
    <3> QED
      BY <1>6, <3>1, <3>2
  <2>6. \A q \in Refs : Version(q)' <= time => Reflected(q)' \/ OnTheList(q)'
    BY <1>5, <1>8, <1>9, <2>1, <2>2, <2>5 DEF OnTheList
  <2>7. \A i \in 1 .. Len(todo') : \A q \in Refs : todo'[i].ref = q =>
          IF provider' = "file" THEN ~todo'[i].gone
          ELSE Version(q)' <= time => (todo'[i].gone = IsGone(q)')
    <3> TAKE i \in 1 .. Len(todo')
    <3>1. todo'[i] = todo[i + 1] /\ i + 1 \in 1 .. Len(todo)
      BY <1>6
    <3> QED
      BY <1>1, <1>8, <2>1, <3>1 DEF Reaches
  <2>8. \A i \in 1 .. Len(todo') : todo'[i].next <= time
    BY <1>6, <2>1 DEF Reaches
  <2>9. saved' <= time /\ cursor' <= time /\ time <= Len(log')
    <3>1. saved <= time /\ cursor <= time /\ time <= Len(log) /\ todo[1].next <= time
      BY <1>2, <1>3, <2>1 DEF Reaches
    <3>2. Moved <= time
      BY <1>3, <3>1
    <3> QED
      BY <1>1, <3>1, <3>2
  <2>10. Reaches(time)'
    BY <1>1, <2>1, <2>6, <2>7, <2>8, <2>9 DEF Reaches
  <2> QED
    BY <1>1, <2>1, <2>4, <2>10 DEF ListsOn
<1>10. TickRests'
  BY <1>1, <1>2 DEF TickRests
<1> QED
  BY <1>1, <1>7, <1>9, <1>10 DEF MemoryInv

-----------------------------------------------------------------------------
\* In the first state nothing changed and nothing was saved.
LEMMA InitMemory == MemoryInit => MemoryInv
<1> SUFFICES ASSUME MemoryInit PROVE MemoryInv
  OBVIOUS
<1>1. /\ log = <<>> /\ todo = <<>> /\ live = {} /\ ~more
      /\ saved = 0 /\ cursor = 0 /\ place = 0 /\ step = "idle"
      /\ provider \in {"drive", "file"}
  BY DEF MemoryInit
<1>2. log \in Seq(Changes) /\ todo \in Seq(Documents) /\ Len(log) = 0 /\ Len(todo) = 0
  BY <1>1
<1>3. \A r \in Refs : IsGone(r) /\ Reflected(r)
  <2>1. \A r \in Refs : Version(r) = 0
    BY <1>2, Versions DEF IsVersion
  <2> QED
    BY <1>1, <2>1 DEF IsGone, Reflected
<1>4. MemoryTypes
  BY <1>1, <1>2 DEF MemoryTypes
<1>5. TickRests
  BY <1>1 DEF TickRests
<1>6. NothingIsPassedOver /\ Reaches(0)
  BY <1>1, <1>2, <1>3 DEF NothingIsPassedOver, Reaches
<1> QED
  BY <1>2, <1>4, <1>5, <1>6 DEF MemoryInv, ListsOn

\* The steps that end a listing: the save, a failure, the end of the tick and
\* the hub's.
LEMMA EndsKeep ==
  ASSUME MemoryInv, Save \/ AttemptFails \/ Reembed \/ TickDies
  PROVE  MemoryInv'
<1>1. /\ MemoryTypes /\ TickRests /\ Len(log) \in Nat
      /\ saved \in 0 .. Len(log) /\ cursor \in 0 .. Len(log) /\ place \in 0 .. Len(log)
  BY DEF MemoryInv, MemoryTypes
<1>2. ASSUME UNCHANGED world, UNCHANGED live, saved' = saved, ~retried
      PROVE  NothingIsPassedOver'
  <2>1. NothingIsPassedOver
    BY <1>2 DEF MemoryInv
  <2> QED
    BY <1>2, <2>1, LogStays, MemoriesStay DEF NothingIsPassedOver
<1>3. CASE Save
  <2>1. /\ UNCHANGED world /\ UNCHANGED <<log, live, cursor, place, todo, more, retried>>
        /\ step = "docs" /\ step' = "embed" /\ todo = <<>> /\ ~more
        /\ saved' = cursor \/ saved' = saved
    BY <1>3 DEF Save, world, listing, memory
  <2>2. ASSUME ~retried, saved' = cursor
        PROVE  NothingIsPassedOver'
    <3>1. PICK time \in 0 .. Len(log) : Reaches(time)
      BY <2>1, <2>2 DEF MemoryInv, ListsOn
    <3>2. \A r \in Refs : Version(r) <= time => Reflected(r)
      BY <2>1, <3>1 DEF Reaches, OnTheList
    <3>3. \A r \in Refs : Version(r) \in Nat
      BY <1>1, Versions DEF MemoryTypes
    <3>4. \A r \in Refs : Version(r) <= cursor => Reflected(r)
      BY <1>1, <3>1, <3>2, <3>3 DEF Reaches
    <3> QED
      BY <2>1, <2>2, <3>4, LogStays, MemoriesStay DEF NothingIsPassedOver
  <2>3. TickRests'
    BY <2>1 DEF TickRests
  <2> QED
    BY <1>1, <1>2, <2>1, <2>2, <2>3, ListingEnds
<1>4. CASE AttemptFails
  <2>1. /\ UNCHANGED world /\ UNCHANGED <<live, saved>> /\ todo' = <<>> /\ ~more'
        /\ cursor' = cursor \/ (todo # <<>> /\ cursor' = Moved)
        /\ \/ step' = "list" /\ place' = cursor' /\ retried' = (retried \/ cursor' # saved)
           \/ step' = "embed" /\ place' = place /\ retried' = retried
    BY <1>4 DEF AttemptFails, memory, Again, GiveUp
  <2>2. cursor' \in 0 .. Len(log)
    BY <1>1, <2>1, MovedIsBetween
  <2>3. TickRests'
    BY <2>1 DEF TickRests
  <2>4. ~retried' => ~retried /\ (step' # "embed" => cursor' = saved' /\ place' = saved')
    BY <2>1
  <2> QED
    BY <1>1, <1>2, <2>1, <2>2, <2>3, <2>4, ListingEnds
<1>5. CASE Reembed \/ TickDies
  <2>1. /\ UNCHANGED world /\ UNCHANGED <<live, saved, retried>> /\ todo' = <<>> /\ ~more'
        /\ cursor' = saved /\ place' = saved /\ step' = "idle"
    BY <1>1, <1>5 DEF Reembed, TickDies, memory, Forget, TickRests
  <2>2. TickRests'
    BY <2>1 DEF TickRests
  <2> QED
    BY <1>1, <1>2, <2>1, <2>2, ListingEnds
<1> QED
  BY <1>3, <1>4, <1>5

\* Each step keeps the invariant.
LEMMA MemoryStep ==
  ASSUME MemoryInv, ScansHoldAll, [MemoryNext]_gvars
  PROVE  MemoryInv'
<1>1. TickRests
  BY DEF MemoryInv
<1>2. ASSUME NEW r \in Refs, NEW gone \in BOOLEAN, Change(r, gone)
      PROVE  MemoryInv'
  BY <1>2, ChangeKeeps
<1>3. CASE BeginRun
  <2>1. /\ UNCHANGED <<world, listing, live, saved, cursor, retried>>
        /\ UNCHANGED <<todo, more>> /\ step = "idle" /\ step' = "list"
    BY <1>3 DEF BeginRun, listing, memory
  <2>2. TickRests'
    BY <1>1, <2>1 DEF TickRests
  <2> QED
    BY <2>1, <2>2, ListingStays
<1>4. CASE List
  <2>1. CASE provider = "drive" /\ todo' = DrivePage /\ place' = PageEnd
             /\ more' = (PageEnd < Len(log))
    BY <1>4, <2>1, PageIsListed DEF List, memory
  <2>2. CASE provider = "file" /\ UNCHANGED <<place, more>> /\ todo' \in Scans
    BY <1>4, <2>2, ScanIsListed DEF List, memory
  <2>3. CASE provider = "file" /\ UNCHANGED <<place, more>> /\ todo' = <<>>
    <3>1. /\ UNCHANGED <<world, live, saved, cursor, retried>>
          /\ step = "list" /\ step' = "docs" /\ todo = <<>>
      BY <1>1, <1>4 DEF List, memory, TickRests
    <3>2. UNCHANGED <<world, listing, live, saved, cursor, retried>>
      BY <2>3, <3>1 DEF listing
    <3>3. TickRests'
      BY <3>1 DEF TickRests
    <3> QED
      BY <3>1, <3>2, <3>3, ListingStays
  <2> QED
    BY <1>4, <2>1, <2>2, <2>3 DEF List
<1>5. CASE NextPage
  <2>1. /\ UNCHANGED <<world, listing, live, saved, cursor, retried>>
        /\ UNCHANGED todo /\ todo = <<>> /\ step = "docs" /\ step' = "list"
    BY <1>5 DEF NextPage, listing, memory
  <2>2. TickRests'
    BY <2>1 DEF TickRests
  <2> QED
    BY <2>1, <2>2, ListingStays
<1>6. CASE Ingest
  BY <1>6, IngestKeeps
<1>7. CASE Save \/ AttemptFails \/ Reembed \/ TickDies
  BY <1>7, EndsKeep
<1>8. CASE UNCHANGED gvars
  <2>1. /\ UNCHANGED <<world, listing, live, saved, cursor, retried>>
        /\ UNCHANGED <<todo, more, step, place>>
    BY <1>8 DEF gvars, listing, memory
  <2>2. TickRests'
    BY <1>1, <2>1 DEF TickRests
  <2> QED
    BY <2>1, <2>2, ListingStays
<1> QED
  BY <1>2, <1>3, <1>4, <1>5, <1>6, <1>7, <1>8 DEF MemoryNext

\* The inductive invariant: as long as no attempt was made again half way, there
\* is a time the listing has reached that every change until then is in the
\* memories or on the list, and neither the cursor of the tick nor the saved one
\* is past it.
THEOREM MemoryInvariant == ScansHoldAll => (MemorySpec => []MemoryInv)
<1> SUFFICES ASSUME ScansHoldAll
             PROVE  MemorySpec => []MemoryInv
  OBVIOUS
<1>1. MemoryInit => MemoryInv
  BY InitMemory
<1>2. MemoryInv /\ [MemoryNext]_gvars => MemoryInv'
  BY MemoryStep
<1> QED
  BY <1>1, <1>2, PTL DEF MemorySpec

\* What the saved cursor has passed is in the memories (run.ts:35), through ticks
\* that fail for good, a host that is offline and hubs that restart half way, as
\* long as no attempt was made again after the cursor had moved.
THEOREM SavedAreReflected == ScansHoldAll => (MemorySpec => []SavedIsReflected)
<1>1. MemoryInv => SavedIsReflected
  BY DEF MemoryInv, SavedIsReflected
<1> QED
  BY <1>1, MemoryInvariant, PTL

-----------------------------------------------------------------------------
(* The jobs of a night.                                                    *)

NightKeys == {"monthly_report", "followup_miss", "archived", "cost_mtd_usd"}
Rows ==
  [exists : BOOLEAN, built : BOOLEAN, tells : Nat, missed : Nat,
   keys : SUBSET NightKeys]
Handlers ==
  [name : Jobs \cup {"none"}, step : {0, 1, 2}, number : Nat,
   state : {"normal", "warn", "degraded", "reserve_only", "frozen"}]

NightTypes ==
  /\ clock \in 1 .. (LastDay + 1) * Slots /\ hubUp \in BOOLEAN
  /\ due \in [Jobs -> Nat] /\ job \in Handlers
  /\ ended \in [Meetings -> Nat] /\ replied \in [Meetings -> BOOLEAN]
  /\ nights \in [RowDays -> Rows] /\ filed \in [RowDays -> SUBSET NightKeys]
  /\ judged \in [Meetings -> Nat] /\ nightFaults \in Nat

\* What a job filed is in the row, whatever fails.
KeysAreFiled == \A d \in RowDays : nights[d].keys = filed[d]

\* No job is late: it runs in the slot it is due, and the count is due at the next
\* hour of its own.
InTime ==
  /\ \A j \in Jobs : due[j] >= clock
  /\ \A j \in Jobs : due[j] = Never \/ Slot(due[j]) = SlotOf[j]
  /\ job.name # "none" => due[job.name] = clock
  /\ Slot(due["followup_miss"]) = 3 /\ due["followup_miss"] <= clock + Slots

\* A meeting was judged when the count that falls 48 hours after it was made.
JudgedByNow ==
  \A m \in Meetings :
    /\ ended[m] = Never \/ Slot(ended[m]) # 3
    /\ judged[m] =
         IF ended[m] + (IF Running("followup_miss", 1) THEN 2 ELSE 3) * Slots
              <= due["followup_miss"]
         THEN 1 ELSE 0

\* A body was made after its day's count, and tells it.
BodiesTell ==
  /\ \A d \in RowDays : nights[d].built =>
       nights[d].tells = nights[d].missed /\ clock >= d * Slots + 4
  /\ Running("nightly", 1) => job.number = nights[Day(clock)].missed

\* A state that was recorded is told, or about to be.
CostsAreTold ==
  IF Running("cost_daily", 2) THEN costLast = job.state ELSE costTold = costLast

NightInv ==
  /\ NightTypes /\ KeysAreFiled
  /\ nightFaults = 0 => InTime /\ JudgedByNow /\ BodiesTell /\ CostsAreTold

-----------------------------------------------------------------------------
\* The hours: the next one of a job is the first of its hours after this one.
LEMMA NextTime ==
  ASSUME NEW j \in Jobs, NEW t \in Nat
  PROVE  /\ NextRunAt(j, t) = Never \/ /\ NextRunAt(j, t) \in t + 1 .. Never - 1
                                       /\ Slot(NextRunAt(j, t)) = SlotOf[j]
         /\ \A v \in t + 1 .. Never - 1 :
              Slot(v) = SlotOf[j] /\ RunsOn(j, Day(v)) =>
                NextRunAt(j, t) \in Nat /\ NextRunAt(j, t) <= v
         /\ Never \in Nat
<1> DEFINE times == {u \in t + 1 .. Never - 1 : Slot(u) = SlotOf[j] /\ RunsOn(j, Day(u))}
<1>1. Never \in Nat
  BY NightAssumption DEF Never, Slots
<1>2. times \subseteq Nat
  BY <1>1
<1>3. CASE times = {}
  <2>1. NextRunAt(j, t) = Never
    BY <1>3 DEF NextRunAt
  <2> QED
    BY <1>1, <1>3, <2>1
<1>4. CASE times # {}
  <2>1. PICK u \in times : \A v \in times : ~(<<v, u>> \in OpToRel(<, Nat))
    BY ZenonT(60), <1>2, <1>4, NatLessThanWellFounded, WFMin
  <2>2. \A v \in times : ~(v < u)
    BY <1>2, <2>1 DEF OpToRel
  <2>3. \A v \in times : u <= v
    <3>1. u \in Nat
      BY <1>2, <2>1
    <3> HIDE DEF times
    <3> QED
      BY <1>2, <2>2, <3>1
  <2>4. NextRunAt(j, t) = CHOOSE w \in times : \A v \in times : w <= v
    BY <1>4 DEF NextRunAt
  <2>5. NextRunAt(j, t) \in times /\ \A v \in times : NextRunAt(j, t) <= v
    BY <2>3, <2>4
  <2> QED
    BY <1>1, <1>2, <2>5
<1> QED
  BY <1>3, <1>4

\* The time a hub may be at.
Times == 0 .. (LastDay + 1) * Slots

\* Of any job: it lies ahead.
LEMMA NextIsAhead ==
  ASSUME NEW j \in Jobs, NEW t \in Times
  PROVE  /\ NextRunAt(j, t) \in Nat /\ NextRunAt(j, t) > t
         /\ NextRunAt(j, t) = Never \/ Slot(NextRunAt(j, t)) = SlotOf[j]
<1>1. t \in Nat /\ Never \in Nat /\ t < Never
  BY NightAssumption DEF Times, Never, Slots
<1> QED
  BY <1>1, NextTime

\* Of the count: within a day, at its own hour.
LEMMA NextCount ==
  ASSUME NEW t \in Times
  PROVE  /\ NextRunAt("followup_miss", t) \in t + 1 .. t + 5
         /\ Slot(NextRunAt("followup_miss", t)) = 3
<1>1. t \in Nat /\ LastDay \in Nat /\ t <= (LastDay + 1) * 5 /\ Never = (LastDay + 2) * 5
  BY NightAssumption DEF Times, Never, Slots
<1>2. "followup_miss" \in Jobs /\ SlotOf["followup_miss"] = 3
  BY DEF Jobs, JobOrder, SlotOf
<1>3. \E v \in t + 1 .. t + 5 : v % 5 = 3 /\ v < (LastDay + 2) * 5
  <2>1. t % 5 \in 0 .. 4 /\ t = 5 * (t \div 5) + (t % 5) /\ t \div 5 \in Nat
    BY <1>1
  <2>2. t \div 5 < LastDay + 1 \/ (t \div 5 = LastDay + 1 /\ t % 5 = 0)
    BY <1>1, <2>1
  <2>3. PICK k \in 1 .. 5 : k = IF t % 5 < 3 THEN 3 - (t % 5) ELSE 8 - (t % 5)
    BY <2>1
  <2>4. (t + k) % 5 = 3
    BY <1>1, <2>1, <2>3
  <2>5. t + k < (LastDay + 2) * 5
    BY <1>1, <2>1, <2>2, <2>3
  <2> QED
    BY <1>1, <2>3, <2>4, <2>5
<1>4. PICK v \in t + 1 .. t + 5 : Slot(v) = 3 /\ v \in t + 1 .. Never - 1
  BY <1>1, <1>3 DEF Slot, Slots
<1>5. NextRunAt("followup_miss", t) \in Nat /\ NextRunAt("followup_miss", t) <= v
  BY <1>1, <1>2, <1>4, NextTime DEF RunsOn
<1>6. NextRunAt("followup_miss", t) # Never
  BY <1>1, <1>4, <1>5
<1> QED
  BY <1>1, <1>2, <1>4, <1>5, <1>6, NextTime

-----------------------------------------------------------------------------
\* A clock is at a time, and a day of it has its row.
LEMMA ClockIsATime ==
  ASSUME NightTypes
  PROVE  /\ clock \in Times /\ clock \in Nat /\ Day(clock) \in RowDays /\ clock < Never
         /\ Slot(clock) \in 0 .. 4 /\ clock = Day(clock) * 5 + Slot(clock)
         /\ Never = (LastDay + 2) * 5 /\ LastDay \in Nat
<1>1. /\ LastDay \in Nat /\ clock \in Nat /\ clock <= (LastDay + 1) * 5
      /\ Never = (LastDay + 2) * 5
  BY NightAssumption DEF NightTypes, Never, Slots
<1>2. clock \div 5 \in Nat /\ clock % 5 \in 0 .. 4 /\ clock = (clock \div 5) * 5 + (clock % 5)
  BY <1>1
<1>3. clock \div 5 <= LastDay + 1
  BY <1>1, <1>2
<1> QED
  BY <1>1, <1>2, <1>3 DEF Times, Day, Slot, Slots, RowDays

\* The job that ends gets its next hour.
LEMMA ReturnIsTyped ==
  ASSUME NightTypes, Return, job # NoJob
  PROVE  job' \in Handlers /\ due' \in [Jobs -> Nat]
<1>1. clock \in Times
  BY ClockIsATime
<1>2. \A j \in Jobs : NextRunAt(j, clock) \in Nat
  BY <1>1, NextIsAhead
<1>3. job' \in Handlers
  BY DEF Return, NoJob, Handlers
<1>4. due' = [due EXCEPT ![job.name] = NextRunAt(job.name, clock)]
  BY DEF Return
<1> QED
  BY <1>2, <1>3, <1>4 DEF NightTypes

\* A job files its keys under a day.
LEMMA FileIsTyped ==
  ASSUME NightTypes, NEW d, NEW keys \in SUBSET NightKeys, NEW row,
         d \in RowDays => row \in Rows, File(d, keys, row)
  PROVE  nights' \in [RowDays -> Rows] /\ filed' \in [RowDays -> SUBSET NightKeys]
BY DEF File, NightTypes

\* How many meetings were missed is a number, the meetings being finitely many.
LEMMA MissesAreCounted == Cardinality({m \in Meetings : Missed(m)}) \in Nat
<1>1. {m \in Meetings : Missed(m)} \subseteq Meetings
  OBVIOUS
<1> QED
  BY <1>1, FS_Subset, FS_CardinalityType, NightAssumption DEF NightAssumption

\* Each step keeps the types.
LEMMA NightStepTypes ==
  ASSUME NightTypes, [NightNext]_nightVars
  PROVE  NightTypes'
<1>1. /\ clock \in Times /\ clock \in Nat /\ Day(clock) \in RowDays /\ LastDay \in Nat
      /\ clock < Never /\ Never = (LastDay + 2) * 5
  BY ClockIsATime
<1>2. CASE TimePasses
  <2>1. clock' \in 1 .. (LastDay + 1) * Slots
    BY <1>1, <1>2 DEF TimePasses, NightTypes, Slots
  <2> QED
    BY <1>2, <2>1 DEF TimePasses, NightTypes
<1>3. CASE HubGoesDown \/ HubComesUp
  BY <1>3 DEF HubGoesDown, HubComesUp, NightTypes
<1>4. CASE JobFails
  <2>1. job' \in Handlers /\ due' \in [Jobs -> Nat]
    BY <1>4, ReturnIsTyped DEF JobFails
  <2>2. nightFaults' \in Nat
    BY <1>4 DEF JobFails, NightTypes
  <2> QED
    BY <1>4, <2>1, <2>2 DEF JobFails, NightTypes
<1>5. ASSUME NEW m \in Meetings, MeetingEnds(m)
      PROVE  NightTypes'
  BY <1>1, <1>5 DEF MeetingEnds, NightTypes
<1>6. ASSUME NEW m \in Meetings, IReply(m)
      PROVE  NightTypes'
  BY <1>6 DEF IReply, NightTypes
<1>7. ASSUME NEW j \in Jobs, ClaimJob(j)
      PROVE  NightTypes'
  <2>1. job' \in Handlers
    BY <1>7 DEF ClaimJob, NoJob, Handlers
  <2> QED
    BY <1>7, <2>1 DEF ClaimJob, NightTypes
<1>8. ASSUME CostRead \/ CostRecorded \/ CostTell
      PROVE  NightTypes'
  <2>1. job # NoJob /\ UNCHANGED <<World, nights, judged, filed>>
    BY <1>8 DEF CostRead, CostRecorded, CostTell, Running, NoJob
  <2>2. job' \in Handlers /\ due' \in [Jobs -> Nat]
    <3>1. CASE Return
      BY <2>1, <3>1, ReturnIsTyped
    <3>2. CASE job' = [job EXCEPT !.step = 1, !.state = CostState(spent)] /\ UNCHANGED due
      <4>1. CostState(spent) \in {"normal", "warn", "degraded", "reserve_only", "frozen"}
        BY DEF CostState
      <4>2. PICK s \in {"normal", "warn", "degraded", "reserve_only", "frozen"} :
              s = CostState(spent)
        BY <4>1
      <4>3. job \in Handlers /\ job' = [job EXCEPT !.step = 1, !.state = s]
        BY <3>2, <4>2 DEF NightTypes
      <4>4. [job EXCEPT !.step = 1, !.state = s] \in Handlers
        BY <4>2, <4>3 DEF Handlers
      <4> QED
        BY <3>2, <4>3, <4>4 DEF NightTypes
    <3>3. CASE Then(2)
      <4>1. job \in Handlers /\ job' = [job EXCEPT !.step = 2]
        BY <3>3 DEF Then, NightTypes
      <4>2. [job EXCEPT !.step = 2] \in Handlers
        BY <4>1 DEF Handlers
      <4> QED
        BY <3>3, <4>1, <4>2 DEF Then, NightTypes
    <3> QED
      BY <1>8, <3>1, <3>2, <3>3 DEF CostRead, CostRecorded, CostTell
  <2> QED
    BY <2>1, <2>2 DEF NightTypes, World
<1>9. CASE CostReport
  <2>1. job # NoJob /\ Return /\ UNCHANGED <<World, judged>>
    BY <1>9 DEF CostReport, Running, NoJob
  <2>2. PICK d : File(d, {"monthly_report"},
             [nights[d] EXCEPT !.exists = TRUE, !.keys = @ \cup {"monthly_report"}])
    BY <1>9 DEF CostReport
  <2>3. d \in RowDays =>
          [nights[d] EXCEPT !.exists = TRUE, !.keys = @ \cup {"monthly_report"}] \in Rows
    BY DEF NightTypes, Rows, NightKeys
  <2>4. nights' \in [RowDays -> Rows] /\ filed' \in [RowDays -> SUBSET NightKeys]
    BY <2>2, <2>3, FileIsTyped DEF NightKeys
  <2> QED
    BY <2>1, <2>4, ReturnIsTyped DEF NightTypes, World
<1>10. CASE CountMisses
  <2>1. PICK n : job' = [job EXCEPT !.step = 1, !.number = n] /\ n \in Nat
    BY <1>10, MissesAreCounted DEF CountMisses
  <2>2. job' \in Handlers
    <3>1. job \in Handlers
      BY DEF NightTypes
    <3>2. [job EXCEPT !.step = 1, !.number = n] \in Handlers
      BY <2>1, <3>1 DEF Handlers
    <3> QED
      BY <2>1, <3>2
  <2>3. judged' \in [Meetings -> Nat]
    BY <1>10 DEF CountMisses, NightTypes
  <2> QED
    BY <1>10, <2>2, <2>3 DEF CountMisses, NightTypes, World
<1>11. CASE FileMisses
  <2>1. job # NoJob /\ Return /\ UNCHANGED <<World, judged>>
    BY <1>11 DEF FileMisses, Running, NoJob
  <2> DEFINE row == [nights[Day(clock)] EXCEPT !.exists = TRUE, !.missed = job.number,
                                             !.keys = @ \cup {"followup_miss"}]
  <2>2. UNCHANGED <<nights, filed>> \/ File(Day(clock), {"followup_miss"}, row)
    BY <1>11 DEF FileMisses
  <2>3. row \in Rows
    <3>1. nights[Day(clock)] \in Rows /\ job.number \in Nat
      BY <1>1 DEF NightTypes, Handlers
    <3> QED
      BY <3>1 DEF Rows, NightKeys
  <2> HIDE DEF row
  <2>4. nights' \in [RowDays -> Rows] /\ filed' \in [RowDays -> SUBSET NightKeys]
    <3>1. CASE UNCHANGED <<nights, filed>>
      BY <3>1 DEF NightTypes
    <3>2. CASE File(Day(clock), {"followup_miss"}, row)
      BY <2>3, <3>2, FileIsTyped DEF NightKeys
    <3> QED
      BY <2>2, <3>1, <3>2
  <2> QED
    BY <2>1, <2>4, ReturnIsTyped DEF NightTypes, World
<1>12. CASE NightlyReads
  <2>1. PICK n \in Nat : job' = [job EXCEPT !.step = 1, !.number = n]
    BY <1>1, <1>12 DEF NightlyReads, NightTypes, Rows
  <2>2. job' \in Handlers
    <3>1. job \in Handlers
      BY DEF NightTypes
    <3>2. [job EXCEPT !.step = 1, !.number = n] \in Handlers
      BY <2>1, <3>1 DEF Handlers
    <3> QED
      BY <2>1, <3>2
  <2> QED
    BY <1>12, <2>2 DEF NightlyReads, NightTypes, World
<1>13. CASE NightlyWrites
  <2>1. job # NoJob /\ Return /\ UNCHANGED <<World, judged>>
    BY <1>13 DEF NightlyWrites, Running, NoJob
  <2> DEFINE row == [nights[Day(clock)] EXCEPT !.exists = TRUE, !.built = TRUE,
                                             !.tells = job.number, !.keys = MergedKeys(@)]
  <2>2. File(Day(clock), OwnKeys, row)
    BY <1>13 DEF NightlyWrites
  <2>3. row \in Rows
    <3>1. nights[Day(clock)] \in Rows /\ job.number \in Nat
      BY <1>1 DEF NightTypes, Handlers
    <3> QED
      BY <3>1 DEF Rows, NightKeys, MergedKeys, OwnKeys
  <2> HIDE DEF row
  <2>4. nights' \in [RowDays -> Rows] /\ filed' \in [RowDays -> SUBSET NightKeys]
    BY <2>2, <2>3, FileIsTyped DEF NightKeys, OwnKeys
  <2> QED
    BY <2>1, <2>4, ReturnIsTyped DEF NightTypes, World
<1>14. CASE Morning
  <2>1. job # NoJob /\ Return /\ UNCHANGED <<World, nights, judged, filed>>
    BY <1>14 DEF Morning, Running, NoJob
  <2> QED
    BY <2>1, ReturnIsTyped DEF NightTypes, World
<1>15. CASE UNCHANGED nightVars
  BY <1>15 DEF nightVars, NightTypes
<1> QED
  BY <1>2, <1>3, <1>4, <1>5, <1>6, <1>7, <1>8, <1>9, <1>10, <1>11, <1>12, <1>13, <1>14, <1>15
     DEF NightNext

-----------------------------------------------------------------------------
\* Filing keeps the keys together.
LEMMA FileKeepsKeys ==
  ASSUME NightTypes, KeysAreFiled, NEW d, NEW keys, NEW row, File(d, keys, row),
         d \in RowDays => row.keys = nights[d].keys \cup keys
  PROVE  KeysAreFiled'
BY DEF NightTypes, KeysAreFiled, File

\* What a job files is in the row, whatever fails.
LEMMA KeysStep ==
  ASSUME NightTypes, KeysAreFiled, [NightNext]_nightVars
  PROVE  KeysAreFiled'
<1>1. CASE UNCHANGED <<nights, filed>>
  BY <1>1 DEF KeysAreFiled
<1>2. CASE CostReport
  <2>1. PICK d : File(d, {"monthly_report"},
             [nights[d] EXCEPT !.exists = TRUE, !.keys = @ \cup {"monthly_report"}])
    BY <1>2 DEF CostReport
  <2>2. d \in RowDays => [nights[d] EXCEPT !.exists = TRUE,
                            !.keys = @ \cup {"monthly_report"}].keys
                         = nights[d].keys \cup {"monthly_report"}
    BY DEF NightTypes, Rows
  <2> QED
    BY <2>1, <2>2, FileKeepsKeys
<1>3. CASE FileMisses
  <2> DEFINE row == [nights[Day(clock)] EXCEPT !.exists = TRUE, !.missed = job.number,
                                             !.keys = @ \cup {"followup_miss"}]
  <2>1. UNCHANGED <<nights, filed>> \/ File(Day(clock), {"followup_miss"}, row)
    BY <1>3 DEF FileMisses
  <2>2. row.keys = nights[Day(clock)].keys \cup {"followup_miss"}
    BY ClockIsATime DEF NightTypes, Rows
  <2> HIDE DEF row
  <2> QED
    BY <1>1, <2>1, <2>2, FileKeepsKeys
<1>4. CASE NightlyWrites
  <2> DEFINE row == [nights[Day(clock)] EXCEPT !.exists = TRUE, !.built = TRUE,
                                             !.tells = job.number, !.keys = MergedKeys(@)]
  <2>1. File(Day(clock), OwnKeys, row)
    BY <1>4 DEF NightlyWrites
  <2>2. row.keys = nights[Day(clock)].keys \cup OwnKeys
    BY ClockIsATime DEF NightTypes, Rows, MergedKeys
  <2> HIDE DEF row
  <2> QED
    BY <2>1, <2>2, FileKeepsKeys
<1>5. ASSUME NEW m \in Meetings, MeetingEnds(m) \/ IReply(m)
      PROVE  UNCHANGED <<nights, filed>>
  BY <1>5 DEF MeetingEnds, IReply
<1>6. ASSUME NEW j \in Jobs, ClaimJob(j)
      PROVE  UNCHANGED <<nights, filed>>
  BY <1>6 DEF ClaimJob
<1> QED
  BY <1>1, <1>2, <1>3, <1>4, <1>5, <1>6
     DEF NightNext, TimePasses, HubGoesDown, HubComesUp, JobFails, CostRead, CostRecorded,
         CostTell, CountMisses, NightlyReads, Morning, nightVars

-----------------------------------------------------------------------------
\* What a step may do to the jobs: nothing, while the clock moves to no job's hour
\* but its own; one begins that is due; one goes on; or it ends and has its next hour.
JobsMove ==
  \/ UNCHANGED <<clock, due, job>>
  \/ /\ job = NoJob /\ UNCHANGED <<due, job>>
     /\ clock' = clock + 1 /\ \A j \in Jobs : due[j] > clock
  \/ /\ job = NoJob /\ UNCHANGED <<clock, due>>
     /\ \E j \in Jobs : due[j] <= clock /\ job' = [NoJob EXCEPT !.name = j]
  \/ job # NoJob /\ UNCHANGED <<clock, due>> /\ job'.name = job.name
  \/ job # NoJob /\ UNCHANGED clock /\ Return

LEMMA EveryStepMovesJobs ==
  ASSUME NightTypes, InTime, Punctual, [NightNext]_nightVars
  PROVE  JobsMove
<1>1. /\ clock \in Nat /\ due \in [Jobs -> Nat] /\ hubUp \in BOOLEAN
  BY ClockIsATime DEF NightTypes
<1>2. CASE TimePasses
  <2>1. \A j \in Jobs : due[j] > clock
    <3> TAKE j \in Jobs
    <3>1. due[j] \in Nat
      BY <1>1
    <3>2. CASE hubUp
      BY <1>1, <1>2, <3>1, <3>2 DEF TimePasses, Quiet, DueJobs
    <3>3. CASE ~hubUp
      BY <1>1, <1>2, <3>1, <3>3 DEF TimePasses
    <3> QED
      BY <3>2, <3>3
  <2> QED
    BY <1>2, <2>1 DEF TimePasses, Quiet, JobsMove
<1>3. CASE HubGoesDown \/ HubComesUp
  BY <1>3 DEF HubGoesDown, HubComesUp, JobsMove
<1>4. CASE JobFails
  BY <1>4 DEF JobFails, JobsMove
<1>5. ASSUME NEW m \in Meetings, MeetingEnds(m) \/ IReply(m)
      PROVE  JobsMove
  BY <1>5 DEF MeetingEnds, IReply, JobsMove
<1>6. ASSUME NEW j \in Jobs, ClaimJob(j)
      PROVE  JobsMove
  BY <1>6 DEF ClaimJob, FirstDue, DueJobs, JobsMove
<1>7. CASE CostRead \/ CostRecorded \/ CostTell \/ CountMisses \/ NightlyReads
  <2>1. job # NoJob /\ UNCHANGED clock
    BY <1>7 DEF CostRead, CostRecorded, CostTell, CountMisses, NightlyReads, Running, NoJob,
                World
  <2>2. Return \/ (UNCHANGED due /\ job'.name = job.name)
    <3>1. job \in Handlers
      BY DEF NightTypes
    <3> QED
      BY <1>7, <3>1 DEF CostRead, CostRecorded, CostTell, CountMisses, NightlyReads, Then,
                        Handlers
  <2> QED
    BY <2>1, <2>2 DEF JobsMove
<1>8. CASE CostReport \/ FileMisses \/ NightlyWrites \/ Morning
  BY <1>8 DEF CostReport, FileMisses, NightlyWrites, Morning, Running, NoJob, World, JobsMove
<1>9. CASE UNCHANGED nightVars
  BY <1>9 DEF nightVars, JobsMove
<1> QED
  BY <1>2, <1>3, <1>4, <1>5, <1>6, <1>7, <1>8, <1>9 DEF NightNext

\* When a job ends, what was due keeps its hour and the count gets its next.
LEMMA EndedHasNext ==
  ASSUME NightTypes, InTime, job # NoJob, Return
  PROVE  /\ job.name \in Jobs => due'[job.name] = NextRunAt(job.name, clock)
         /\ \A j \in Jobs : j # job.name => due'[j] = due[j]
         /\ "followup_miss" \in Jobs
         /\ job.name = "followup_miss" =>
              due'["followup_miss"] = due["followup_miss"] + 5
<1>1. due \in [Jobs -> Nat] /\ due' = [due EXCEPT ![job.name] = NextRunAt(job.name, clock)]
  BY DEF NightTypes, Return
<1>2. "followup_miss" \in Jobs
  BY DEF Jobs, JobOrder
<1>3. ASSUME job.name = "followup_miss"
      PROVE  NextRunAt(job.name, clock) = due[job.name] + 5
  <2>1. PICK f \in Nat : f = due["followup_miss"] /\ f = clock /\ f % 5 = 3
    BY <1>1, <1>2, <1>3 DEF InTime, Slot, Slots
  <2>2. PICK u \in clock + 1 .. clock + 5 : u = NextRunAt("followup_miss", clock) /\ u % 5 = 3
    BY ClockIsATime, NextCount DEF Slot, Slots
  <2>3. u = f + 5
    BY <2>1, <2>2
  <2> QED
    BY <1>3, <2>1, <2>2, <2>3
<1> QED
  BY <1>1, <1>2, <1>3

\* So no job is late.
LEMMA InTimeStep ==
  ASSUME NightTypes, InTime, JobsMove, [NightNext]_nightVars
  PROVE  InTime'
<1>1. /\ clock \in Nat /\ due \in [Jobs -> Nat] /\ clock \in Times
      /\ "followup_miss" \in Jobs /\ "none" \notin Jobs /\ NoJob.name = "none"
      /\ SlotOf["followup_miss"] = 3 /\ job \in Handlers
  BY ClockIsATime DEF NightTypes, Jobs, JobOrder, NoJob, SlotOf
<1>2. /\ \A j \in Jobs : due[j] >= clock /\ due[j] \in Nat
      /\ \A j \in Jobs : due[j] = Never \/ Slot(due[j]) = SlotOf[j]
      /\ job.name # "none" => due[job.name] = clock
      /\ Slot(due["followup_miss"]) = 3 /\ due["followup_miss"] <= clock + 5
  BY <1>1 DEF InTime, Slots
<1>3. CASE UNCHANGED <<clock, due, job>>
  BY <1>3 DEF InTime
<1>4. CASE job = NoJob /\ UNCHANGED <<due, job>> /\ clock' = clock + 1
           /\ \A j \in Jobs : due[j] > clock
  <2>1. \A j \in Jobs : due[j] >= clock'
    BY <1>1, <1>2, <1>4
  <2>2. due["followup_miss"] <= clock' + 5
    BY <1>1, <1>2, <1>4
  <2> QED
    BY <1>1, <1>2, <1>4, <2>1, <2>2 DEF InTime, Slots
<1>5. ASSUME NEW j \in Jobs, job = NoJob, UNCHANGED <<clock, due>>, due[j] <= clock,
             job' = [NoJob EXCEPT !.name = j]
      PROVE  InTime'
  <2>1. job'.name = j /\ due[j] = clock
    BY <1>1, <1>2, <1>5 DEF NoJob
  <2> QED
    BY <1>2, <1>5, <2>1 DEF InTime, Slots
<1>6. CASE job # NoJob /\ UNCHANGED <<clock, due>> /\ job'.name = job.name
  BY <1>2, <1>6 DEF InTime, Slots
<1>7. CASE job # NoJob /\ UNCHANGED clock /\ Return
  <2>1. /\ job.name \in Jobs => due'[job.name] = NextRunAt(job.name, clock)
        /\ \A j \in Jobs : j # job.name => due'[j] = due[j]
    BY <1>7, EndedHasNext
  <2>2. \A j \in Jobs : /\ due'[j] >= clock
                        /\ due'[j] = Never \/ Slot(due'[j]) = SlotOf[j]
    <3> TAKE j \in Jobs
    <3>1. CASE j = job.name
      <4>1. /\ NextRunAt(j, clock) \in Nat /\ NextRunAt(j, clock) > clock
            /\ NextRunAt(j, clock) = Never \/ Slot(NextRunAt(j, clock)) = SlotOf[j]
        BY <1>1, NextIsAhead
      <4> QED
        BY <1>1, <2>1, <3>1, <4>1
    <3> QED
      BY <1>2, <2>1, <3>1
  <2>3. Slot(due'["followup_miss"]) = 3 /\ due'["followup_miss"] <= clock + 5
    <3>1. CASE job.name = "followup_miss"
      BY <1>1, <2>1, <3>1, NextCount
    <3> QED
      BY <1>1, <1>2, <2>1, <3>1
  <2>4. job'.name = "none"
    BY <1>1, <1>7 DEF Return
  <2> QED
    BY <1>7, <2>2, <2>3, <2>4 DEF InTime, Slots
<1> QED
  BY <1>3, <1>4, <1>5, <1>6, <1>7 DEF JobsMove

-----------------------------------------------------------------------------
\* The count of the follow-ups has counted, and has not filed it yet.
Counted == Running("followup_miss", 1)

\* Steps that count nothing and end no meeting.
LEMMA JudgedStays ==
  ASSUME JudgedByNow, UNCHANGED <<ended, judged>>, due'["followup_miss"] = due["followup_miss"],
         Counted' <=> Counted
  PROVE  JudgedByNow'
BY DEF JudgedByNow, Counted

\* A meeting is judged when the count 48 hours after it is made, and then only.
LEMMA JudgedStep ==
  ASSUME NightTypes, InTime, JudgedByNow, JobsMove, [NightNext]_nightVars,
         nightFaults' = nightFaults
  PROVE  JudgedByNow'
<1>1. /\ clock \in Nat /\ due \in [Jobs -> Nat] /\ clock < Never /\ Never \in Nat
      /\ "followup_miss" \in Jobs /\ job \in Handlers /\ NoJob.name = "none"
      /\ nightFaults \in Nat /\ ended \in [Meetings -> Nat] /\ judged \in [Meetings -> Nat]
  BY ClockIsATime DEF NightTypes, Jobs, JobOrder, NoJob
<1>2. PICK f \in Nat : f = due["followup_miss"] /\ f % 5 = 3 /\ f >= clock
  BY <1>1 DEF InTime, Slot, Slots
<1>3. ASSUME job = NoJob, job' = NoJob \/ \E j \in Jobs : job' = [NoJob EXCEPT !.name = j],
             UNCHANGED <<due, ended, judged>>
      PROVE  JudgedByNow'
  <2>1. ~Counted /\ ~Counted'
    BY <1>3 DEF Counted, Running, NoJob
  <2> QED
    BY <1>3, <2>1, JudgedStays
<1>4. ASSUME NEW m \in Meetings, MeetingEnds(m)
      PROVE  JudgedByNow'
  <2>1. /\ job = NoJob /\ UNCHANGED <<due, job, judged>> /\ ended[m] = Never
        /\ clock % 5 # 3 /\ ended' = [ended EXCEPT ![m] = clock]
    BY <1>4 DEF MeetingEnds, Quiet, SlotOf, Slot, Slots
  <2>2. ~Counted /\ ~Counted' /\ due'["followup_miss"] = f
    BY <1>2, <2>1 DEF Counted, Running, NoJob
  <2>3. f <= clock + 5 /\ ~(Never + 15 <= f) /\ ~(clock + 15 <= f)
    BY <1>1, <1>2 DEF InTime, Slots
  <2>4. \A k \in Meetings :
          /\ ended[k] = Never \/ Slot(ended[k]) # 3
          /\ judged[k] = IF ended[k] + 15 <= f THEN 1 ELSE 0
    BY <1>2, <2>2 DEF JudgedByNow, Counted, Slots
  <2>5. \A k \in Meetings :
          /\ ended'[k] = Never \/ Slot(ended'[k]) # 3
          /\ judged'[k] = IF ended'[k] + 15 <= f THEN 1 ELSE 0
    <3> TAKE k \in Meetings
    <3>1. CASE k = m
      <4>1. ended'[k] = clock /\ judged'[k] = 0
        BY <1>1, <2>1, <2>3, <2>4, <3>1
      <4>2. Slot(clock) # 3
        BY <2>1 DEF Slot, Slots
      <4> QED
        BY <2>3, <4>1, <4>2
    <3>2. CASE k # m
      BY <1>1, <2>1, <2>4, <3>2
    <3> QED
      BY <3>1, <3>2
  <2> QED
    BY <2>2, <2>5 DEF JudgedByNow, Counted, Slots
<1>5. ASSUME NEW m \in Meetings, IReply(m)
      PROVE  JudgedByNow'
  BY <1>3, <1>5 DEF IReply, Quiet
<1>6. ASSUME NEW j \in Jobs, ClaimJob(j)
      PROVE  JudgedByNow'
  BY <1>3, <1>6 DEF ClaimJob
<1>7. CASE TimePasses \/ HubGoesDown
  BY <1>3, <1>7 DEF TimePasses, HubGoesDown, Quiet
<1>8. CASE HubComesUp
  BY <1>8, JudgedStays DEF HubComesUp, Counted, Running
<1>9. CASE CostRead \/ CostRecorded \/ CostTell \/ CostReport \/ NightlyReads
           \/ NightlyWrites \/ Morning
  <2>1. /\ job.name \in Jobs \ {"followup_miss"} /\ job # NoJob
        /\ UNCHANGED <<ended, judged, clock>>
    BY <1>9 DEF CostRead, CostRecorded, CostTell, CostReport, NightlyReads, NightlyWrites,
                Morning, Running, NoJob, World, Jobs, JobOrder
  <2>2. Return \/ (UNCHANGED due /\ job'.name = job.name)
    <3>1. job \in Handlers
      BY <1>1
    <3> QED
      BY <1>9, <3>1 DEF CostRead, CostRecorded, CostTell, CostReport, NightlyReads,
                        NightlyWrites, Morning, Then, Handlers
  <2>3. due'["followup_miss"] = due["followup_miss"] /\ ~Counted'
    <3>1. CASE Return
      BY <1>1, <2>1, <3>1, EndedHasNext DEF Counted, Running, Return
    <3>2. CASE UNCHANGED due /\ job'.name = job.name
      BY <2>1, <3>2 DEF Counted, Running
    <3> QED
      BY <2>2, <3>1, <3>2
  <2>4. ~Counted
    BY <2>1 DEF Counted, Running
  <2> QED
    BY <2>1, <2>3, <2>4, JudgedStays
<1>10. CASE CountMisses
  <2>1. /\ job.name = "followup_miss" /\ job.step = 0 /\ UNCHANGED <<ended, due, clock>>
        /\ judged' = [m \in Meetings |-> judged[m] + IF InWindow(m) THEN 1 ELSE 0]
    BY <1>10 DEF CountMisses, Running, World
  <2>2. job'.name = "followup_miss" /\ job'.step = 1
    BY <1>1, <1>10, <2>1 DEF CountMisses, Handlers
  <2>3. ~Counted /\ Counted' /\ f = clock /\ due'["followup_miss"] = f
    BY <1>2, <2>1, <2>2 DEF Counted, Running, InTime
  <2>4. \A m \in Meetings :
          /\ ended[m] = Never \/ Slot(ended[m]) # 3
          /\ judged[m] = IF ended[m] + 15 <= f THEN 1 ELSE 0
    BY <1>2, <2>3 DEF JudgedByNow, Counted, Slots
  <2>5. \A m \in Meetings : judged'[m] = IF ended[m] + 10 <= f THEN 1 ELSE 0
    <3> TAKE m \in Meetings
    <3>1. PICK e \in Nat : e = ended[m]
      BY <1>1
    <3>2. InWindow(m) <=> e + 15 >= f /\ e + 10 <= f
      BY <2>3, <3>1 DEF InWindow, Slots
    <3>3. e # f - 15 \/ ~(15 <= f)
      BY <1>1, <1>2, <2>3, <2>4, <3>1 DEF Slot, Slots
    <3>4. judged'[m] = judged[m] + IF InWindow(m) THEN 1 ELSE 0
      BY <2>1
    <3> QED
      BY <1>2, <2>4, <3>1, <3>2, <3>3, <3>4
  <2> QED
    BY <2>1, <2>3, <2>4, <2>5 DEF JudgedByNow, Counted, Slots
<1>11. CASE FileMisses
  <2>1. job.name = "followup_miss" /\ Return /\ UNCHANGED <<ended, judged>> /\ job # NoJob
    BY <1>11 DEF FileMisses, Running, World, NoJob
  <2>2. due'["followup_miss"] = f + 5 /\ Counted /\ ~Counted'
    BY <1>2, <1>11, <2>1, EndedHasNext DEF FileMisses, Counted, Running, Return, NoJob
  <2>3. \A m \in Meetings :
          /\ ended[m] = Never \/ Slot(ended[m]) # 3
          /\ judged[m] = IF ended[m] + 10 <= f THEN 1 ELSE 0
    BY <1>2, <2>2 DEF JudgedByNow, Counted, Slots
  <2>4. \A m \in Meetings : ended[m] + 10 <= f <=> ended[m] + 15 <= f + 5
    BY <1>1
  <2> QED
    BY <2>1, <2>2, <2>3, <2>4 DEF JudgedByNow, Counted, Slots
<1>12. CASE UNCHANGED nightVars
  BY <1>12, JudgedStays DEF nightVars, Counted, Running
<1>13. ~JobFails
  BY <1>1 DEF JobFails
<1> QED
  BY <1>4, <1>5, <1>6, <1>7, <1>8, <1>9, <1>10, <1>11, <1>12, <1>13 DEF NightNext

-----------------------------------------------------------------------------
\* The nightly digest has read, and has not written yet.
HasRead == Running("nightly", 1)

\* Steps that file no row.
LEMMA BodiesStay ==
  ASSUME NightTypes, BodiesTell, UNCHANGED nights, clock' >= clock, clock' \in Nat,
         ~HasRead' \/ (UNCHANGED <<job, clock>>)
  PROVE  BodiesTell'
<1>1. \A d \in RowDays : d \in Nat
  BY NightAssumption DEF RowDays
<1>2. clock \in Nat
  BY ClockIsATime
<1>3. \A d \in RowDays : nights'[d].built =>
        nights'[d].tells = nights'[d].missed /\ clock' >= d * Slots + 4
  <2>1. \A d \in RowDays : nights[d].built =>
          nights[d].tells = nights[d].missed /\ clock >= d * 5 + 4
    BY DEF BodiesTell, Slots
  <2> QED
    BY <1>1, <1>2, <2>1 DEF Slots
<1>4. HasRead' => job'.number = nights'[Day(clock')].missed
  BY DEF BodiesTell, HasRead, Running
<1> QED
  BY <1>3, <1>4 DEF BodiesTell, HasRead

\* A body tells the misses its row holds.
LEMMA BodiesStep ==
  ASSUME NightTypes, InTime, BodiesTell, JobsMove, [NightNext]_nightVars,
         nightFaults' = nightFaults
  PROVE  BodiesTell'
<1>1. /\ clock \in Nat /\ Day(clock) \in RowDays /\ job \in Handlers /\ nightFaults \in Nat
      /\ due \in [Jobs -> Nat] /\ NoJob.name = "none" /\ nights \in [RowDays -> Rows]
      /\ clock = Day(clock) * 5 + Slot(clock)
      /\ clock < Never
  BY ClockIsATime DEF NightTypes, NoJob
<1>2. \A d \in RowDays : nights[d].built =>
        nights[d].tells = nights[d].missed /\ clock >= d * 5 + 4
  BY DEF BodiesTell, Slots
<1>3. ASSUME UNCHANGED <<nights, clock>>, job'.name # "nightly" \/ UNCHANGED job
      PROVE  BodiesTell'
  BY <1>1, <1>3, BodiesStay DEF HasRead, Running
<1>4. CASE TimePasses
  <2>1. job' = NoJob /\ UNCHANGED nights /\ clock' = clock + 1
    BY <1>4 DEF TimePasses, Quiet
  <2>2. ~HasRead'
    BY <1>1, <2>1 DEF HasRead, Running
  <2> QED
    BY <1>1, <2>1, <2>2, BodiesStay
<1>5. CASE HubGoesDown \/ HubComesUp
  BY <1>3, <1>5 DEF HubGoesDown, HubComesUp
<1>6. ASSUME NEW m \in Meetings, MeetingEnds(m) \/ IReply(m)
      PROVE  BodiesTell'
  BY <1>3, <1>6 DEF MeetingEnds, IReply
<1>7. ASSUME NEW j \in Jobs, ClaimJob(j)
      PROVE  BodiesTell'
  <2>1. job'.step = 0 /\ UNCHANGED <<nights, clock>>
    BY <1>7 DEF ClaimJob, NoJob
  <2>2. ~HasRead'
    BY <2>1 DEF HasRead, Running
  <2> QED
    BY <1>1, <2>1, <2>2, BodiesStay
<1>8. CASE CostRead \/ CostRecorded \/ CostTell \/ CountMisses \/ Morning
  <2>1. UNCHANGED <<nights, clock>> /\ job.name \in {"cost_daily", "followup_miss", "morning"}
    BY <1>8 DEF CostRead, CostRecorded, CostTell, CountMisses, Morning, World, Running
  <2>2. job' = NoJob \/ job'.name = job.name
    BY <1>1, <1>8 DEF CostRead, CostRecorded, CostTell, CountMisses, Morning, Return, Then,
                      Handlers
  <2> QED
    BY <1>1, <1>3, <2>1, <2>2
<1>9. CASE CostReport
  <2>1. job' = NoJob /\ clock' = clock
    BY <1>9 DEF CostReport, Return, World
  <2>2. PICK d : nights' = [nights EXCEPT ![d] =
             [nights[d] EXCEPT !.exists = TRUE, !.keys = @ \cup {"monthly_report"}]]
    BY <1>9 DEF CostReport, File
  <2>3. \A e \in RowDays : /\ nights'[e].built = nights[e].built
                           /\ nights'[e].tells = nights[e].tells
                           /\ nights'[e].missed = nights[e].missed
    BY <1>1, <2>2 DEF Rows
  <2> QED
    BY <1>1, <1>2, <2>1, <2>3 DEF BodiesTell, Running, Slots
<1>10. CASE FileMisses
  <2>1. /\ job' = NoJob /\ clock' = clock /\ job.name = "followup_miss"
        /\ UNCHANGED nights \/ \E keys : nights' = [nights EXCEPT ![Day(clock)] =
             [nights[Day(clock)] EXCEPT !.exists = TRUE, !.missed = job.number, !.keys = keys]]
    BY <1>10 DEF FileMisses, Return, World, File, Running
  <2>2. Slot(clock) = 3
    BY <2>1 DEF InTime
  <2>3. ~nights[Day(clock)].built
    <3>1. PICK d \in Nat : d = Day(clock)
      BY <1>1 DEF Day, Slots
    <3>2. ~(clock >= d * 5 + 4)
      BY <1>1, <2>2, <3>1
    <3> QED
      BY <1>1, <1>2, <3>1, <3>2
  <2>4. \A e \in RowDays : nights'[e].built =>
          nights[e].built /\ nights'[e].tells = nights[e].tells
          /\ nights'[e].missed = nights[e].missed
    <3> TAKE e \in RowDays
    <3>1. CASE UNCHANGED nights
      BY <3>1
    <3>2. ASSUME NEW keys, nights' = [nights EXCEPT ![Day(clock)] =
             [nights[Day(clock)] EXCEPT !.exists = TRUE, !.missed = job.number, !.keys = keys]]
          PROVE  nights'[e].built =>
                   nights[e].built /\ nights'[e].tells = nights[e].tells
                   /\ nights'[e].missed = nights[e].missed
      <4>1. CASE e = Day(clock)
        BY <1>1, <2>3, <3>2, <4>1 DEF Rows
      <4>2. CASE e # Day(clock)
        BY <1>1, <3>2, <4>2
      <4> QED
        BY <4>1, <4>2
    <3> QED
      BY <2>1, <3>1, <3>2
  <2> QED
    BY <1>1, <1>2, <2>1, <2>4 DEF BodiesTell, Running, Slots
<1>11. CASE NightlyReads
  <2>1. /\ job'.number = nights[Day(clock)].missed /\ UNCHANGED <<nights, clock>>
    BY <1>1, <1>11 DEF NightlyReads, World, Handlers
  <2> QED
    BY <1>2, <2>1 DEF BodiesTell, Slots, Day
<1>12. CASE NightlyWrites
  <2>1. /\ job' = NoJob /\ clock' = clock /\ job.name = "nightly" /\ job.step = 1
        /\ \E keys : nights' = [nights EXCEPT ![Day(clock)] =
             [nights[Day(clock)] EXCEPT !.exists = TRUE, !.built = TRUE, !.tells = job.number,
                                        !.keys = keys]]
    BY <1>12 DEF NightlyWrites, Return, World, File, Running
  <2>2. Slot(clock) = 4 /\ job.number = nights[Day(clock)].missed
    <3>1. "nightly" \in Jobs /\ SlotOf["nightly"] = 4 /\ due["nightly"] = clock
      BY <2>1 DEF InTime, Jobs, JobOrder, SlotOf
    <3> QED
      BY <1>1, <2>1, <3>1 DEF InTime, BodiesTell, Running
  <2>3. \A e \in RowDays : nights'[e].built =>
          nights'[e].tells = nights'[e].missed /\ clock >= e * 5 + 4
    <3> TAKE e \in RowDays
    <3>1. PICK keys : nights' = [nights EXCEPT ![Day(clock)] =
             [nights[Day(clock)] EXCEPT !.exists = TRUE, !.built = TRUE, !.tells = job.number,
                                        !.keys = keys]]
      BY <2>1
    <3>2. CASE e = Day(clock)
      <4>1. nights'[e].tells = nights'[e].missed
        BY <1>1, <2>2, <3>1, <3>2 DEF Rows
      <4>2. e \in Nat
        BY NightAssumption DEF RowDays
      <4> QED
        BY <1>1, <2>2, <3>2, <4>1, <4>2
    <3>3. CASE e # Day(clock)
      BY <1>1, <1>2, <3>1, <3>3
    <3> QED
      BY <3>2, <3>3
  <2> QED
    BY <1>1, <2>1, <2>3 DEF BodiesTell, Running, Slots
<1>13. CASE UNCHANGED nightVars
  BY <1>3, <1>13 DEF nightVars
<1>14. ~JobFails
  BY <1>1 DEF JobFails
<1> QED
  BY <1>4, <1>5, <1>6, <1>7, <1>8, <1>9, <1>10, <1>11, <1>12, <1>13, <1>14 DEF NightNext

\* A state of the costs that was recorded is told, or the step that tells it comes
\* next.
LEMMA CostsStep ==
  ASSUME NightTypes, CostsAreTold, [NightNext]_nightVars, nightFaults' = nightFaults
  PROVE  CostsAreTold'
<1>1. job \in Handlers /\ NoJob.name = "none" /\ nightFaults \in Nat
  BY DEF NightTypes, NoJob
<1>2. ASSUME UNCHANGED <<costLast, costTold>>, ~Running("cost_daily", 2),
             ~Running("cost_daily", 2)'
      PROVE  CostsAreTold'
  BY <1>2 DEF CostsAreTold
<1>3. ASSUME UNCHANGED <<costLast, costTold, job>>
      PROVE  CostsAreTold'
  BY <1>3 DEF CostsAreTold, Running
<1>4. ASSUME NEW m \in Meetings, MeetingEnds(m) \/ IReply(m)
      PROVE  CostsAreTold'
  BY <1>3, <1>4 DEF MeetingEnds, IReply
<1>5. ASSUME NEW j \in Jobs, ClaimJob(j)
      PROVE  CostsAreTold'
  <2>1. job.name = "none" /\ job'.step = 0 /\ UNCHANGED <<costLast, costTold>>
    BY <1>1, <1>5 DEF ClaimJob, NoJob
  <2> QED
    BY <1>2, <2>1 DEF Running
<1>6. CASE TimePasses \/ HubGoesDown \/ HubComesUp \/ UNCHANGED nightVars
  BY <1>3, <1>6 DEF TimePasses, HubGoesDown, HubComesUp, nightVars
<1>7. CASE CostReport \/ CountMisses \/ FileMisses \/ NightlyReads \/ NightlyWrites \/ Morning
  <2>1. job.name # "cost_daily" /\ UNCHANGED <<costLast, costTold>>
    BY <1>7 DEF CostReport, CountMisses, FileMisses, NightlyReads, NightlyWrites, Morning,
                Running
  <2>2. job' = NoJob \/ job'.name = job.name
    BY <1>1, <1>7 DEF CostReport, CountMisses, FileMisses, NightlyReads, NightlyWrites,
                      Morning, Return, Handlers
  <2> QED
    BY <1>1, <1>2, <2>1, <2>2 DEF Running
<1>8. CASE CostRead
  <2>1. job.name = "cost_daily" /\ job.step = 0 /\ UNCHANGED <<costLast, costTold>>
    BY <1>8 DEF CostRead, Running
  <2>2. job' = NoJob \/ job'.step = 1
    BY <1>1, <1>8 DEF CostRead, Return, Handlers
  <2> QED
    BY <1>1, <1>2, <2>1, <2>2 DEF Running
<1>9. CASE CostRecorded
  <2>1. /\ job'.name = "cost_daily" /\ job'.step = 2 /\ job'.state = job.state
        /\ costLast' = job.state
    BY <1>1, <1>9 DEF CostRecorded, Then, Running, Handlers
  <2> QED
    BY <2>1 DEF CostsAreTold, Running
<1>10. CASE CostTell
  BY <1>1, <1>10 DEF CostTell, Return, Running, CostsAreTold
<1>11. ~JobFails
  BY <1>1 DEF JobFails
<1> QED
  BY <1>4, <1>5, <1>6, <1>7, <1>8, <1>9, <1>10, <1>11 DEF NightNext

-----------------------------------------------------------------------------
\* The inductive invariant: a row holds the keys that were filed under its day,
\* whatever fails; and where no job is late and no statement failed, a meeting was
\* judged if and only if the count 48 hours after it was made, the body of a night
\* was made after the night's count, and the costs are told as they were recorded.
THEOREM NightInvariant == Punctual => (NightSpec => []NightInv)
<1> SUFFICES ASSUME Punctual
             PROVE  NightSpec => []NightInv
  OBVIOUS
<1>1. NightInit => NightInv
  <2> SUFFICES ASSUME NightInit PROVE NightInv
    OBVIOUS
  <2>1. /\ LastDay \in Nat /\ 0 \in Times /\ Never = (LastDay + 2) * 5
        /\ "followup_miss" \in Jobs /\ SlotOf["followup_miss"] = 3
        /\ clock = 1 /\ 1 \in 1 .. (LastDay + 1) * Slots
    BY NightAssumption DEF NightInit, Times, Never, Slots, Jobs, JobOrder, SlotOf
  <2>2. \A j \in Jobs : /\ NextRunAt(j, 0) \in Nat /\ NextRunAt(j, 0) > 0
                        /\ NextRunAt(j, 0) = Never \/ Slot(NextRunAt(j, 0)) = SlotOf[j]
    BY <2>1, NextIsAhead
  <2>3. NextRunAt("followup_miss", 0) \in 1 .. 5 /\ Slot(NextRunAt("followup_miss", 0)) = 3
    BY <2>1, NextCount
  <2>4. \A j \in Jobs : due[j] = NextRunAt(j, 0)
    BY DEF NightInit
  <2>5. NightTypes
    <3>1. due \in [Jobs -> Nat]
      BY <2>2 DEF NightInit
    <3>2. job \in Handlers
      BY DEF NightInit, NoJob, Handlers
    <3>3. NoRow \in Rows
      BY DEF NoRow, Rows
    <3> QED
      BY <2>1, <3>1, <3>2, <3>3 DEF NightInit, NightTypes
  <2>6. KeysAreFiled
    BY DEF NightInit, KeysAreFiled, NoRow
  <2>7. job.name = "none"
    BY DEF NightInit, NoJob
  <2>8. InTime
    BY <2>1, <2>2, <2>3, <2>4, <2>7 DEF InTime, Slots
  <2>9. JudgedByNow
    <3>1. \A m \in Meetings : ended[m] = Never /\ judged[m] = 0
      BY DEF NightInit
    <3>2. ~(Never + 15 <= due["followup_miss"]) /\ ~(Never + 10 <= due["followup_miss"])
      BY <2>1, <2>3, <2>4
    <3> QED
      BY <2>7, <3>1, <3>2 DEF JudgedByNow, Running, Slots
  <2>10. BodiesTell
    BY <2>7 DEF NightInit, BodiesTell, NoRow, Running
  <2>11. CostsAreTold
    BY <2>7 DEF NightInit, CostsAreTold, Running
  <2> QED
    BY <2>5, <2>6, <2>8, <2>9, <2>10, <2>11 DEF NightInv
<1>2. NightInv /\ [NightNext]_nightVars => NightInv'
  <2> SUFFICES ASSUME NightInv, [NightNext]_nightVars PROVE NightInv'
    OBVIOUS
  <2>1. NightTypes /\ KeysAreFiled
    BY DEF NightInv
  <2>2. NightTypes' /\ KeysAreFiled'
    BY <2>1, NightStepTypes, KeysStep
  <2>3. ASSUME nightFaults' = 0
        PROVE  InTime' /\ JudgedByNow' /\ BodiesTell' /\ CostsAreTold'
    <3>1. nightFaults' = nightFaults
      <4>1. nightFaults \in Nat /\ (nightFaults' = nightFaults \/ nightFaults' = nightFaults + 1)
        BY <2>1 DEF NightTypes, NightNext, TimePasses, HubGoesDown, HubComesUp, JobFails,
             MeetingEnds, IReply, ClaimJob, CostRead, CostRecorded, CostTell, CostReport,
             CountMisses, FileMisses, NightlyReads, NightlyWrites, Morning, World, nightVars
      <4> QED
        BY <2>3, <4>1
    <3>2. InTime /\ JudgedByNow /\ BodiesTell /\ CostsAreTold
      BY <2>3, <3>1 DEF NightInv
    <3>3. JobsMove
      BY <2>1, <3>2, EveryStepMovesJobs
    <3> QED
      BY <2>1, <3>1, <3>2, <3>3, InTimeStep, JudgedStep, BodiesStep, CostsStep
  <2> QED
    BY <2>2, <2>3 DEF NightInv
<1> QED
  BY <1>1, <1>2, PTL DEF NightSpec

\* A meeting is judged by one night's count and no more (followup-miss.ts), the
\* row of a night holds every number that was filed under its day and its body
\* tells the misses it holds, and no state of the costs is recorded and never told,
\* for any meetings, months and costs, if the hub is up when a job is due.
THEOREM NightsAreTold == Punctual => (NightSpec => []NightIsTold)
<1>1. NightInv => NightIsTold
  <2> SUFFICES ASSUME NightInv PROVE NightIsTold
    OBVIOUS
  <2>1. NightTypes /\ KeysAreFiled
    BY DEF NightInv
  <2>2. ASSUME nightFaults = 0, NEW m \in Meetings
        PROVE  judged[m] <= 1 /\ (ended[m] + 3 * Slots < clock => judged[m] = 1)
    <3>1. /\ ended[m] \in Nat /\ clock \in Nat /\ due["followup_miss"] \in Nat
          /\ clock <= due["followup_miss"]
      BY <2>1, <2>2, ClockIsATime DEF NightTypes, NightInv, InTime, Jobs, JobOrder
    <3>2. judged[m] = IF ended[m] + (IF Running("followup_miss", 1) THEN 2 ELSE 3) * 5
                           <= due["followup_miss"] THEN 1 ELSE 0
      BY <2>2 DEF NightInv, JudgedByNow, Slots
    <3> QED
      BY <3>1, <3>2 DEF Slots
  <2>3. ASSUME nightFaults = 0, job.name # "cost_daily"
        PROVE  costTold = costLast
    BY <2>3 DEF NightInv, CostsAreTold, Running
  <2> QED
    BY <2>1, <2>2, <2>3 DEF NightInv, NightIsTold, JudgedOnce, DigestIsWhole, KeysAreFiled,
                            BodiesTell
<1> QED
  BY <1>1, NightInvariant, PTL

-----------------------------------------------------------------------------
(* The poll of WhatsApp.                                                   *)

PassRecord == [gen : Gens, startedAt : Nat, left : SUBSET Chats,
               chat : Chats \cup {NoChat}, after : Nat]

Sent == {m \in Msgs : sentAt[m] # 0}

Awaited(p) == {m \in Msgs : ChatOf[m] = p.chat /\ sentAt[m] > p.after}

\* No page that is asked for is cut off.
PagesSuffice == \A p \in passes : p.chat # NoChat => Cardinality(Awaited(p)) <= PageLimit

\* Nothing is dated in the future.
Timely ==
  /\ \A m \in Msgs : sentAt[m] <= Clock
  /\ pollAfter <= Clock
  /\ \A p \in passes : p.startedAt <= Clock /\ p.after <= Clock

\* What a pass owes no more: the chats it has read, up to its beginning, and
\* the chat it is reading, up to the cursor it reads from.
Past(p, m) ==
  \/ ChatOf[m] \notin p.left \cup {p.chat} /\ sentAt[m] <= p.startedAt
  \/ ChatOf[m] = p.chat /\ sentAt[m] <= p.after

KeptBy(p) == \A m \in Sent : Past(p, m) => m \in seen

Delivered == \A p \in passes : p.chat # NoChat => KeptBy(p)

PollInv == PollTypeOK /\ Timely /\ Delivered /\ CursorSkipsNothing

USE WhatsAppAssumption

-----------------------------------------------------------------------------
(* The clock and the page.                                                 *)

LEMMA ClockType == IsFiniteSet(Sent) /\ Clock \in Nat /\ Clock <= Cardinality(Msgs)
<1>1. Sent \in SUBSET Msgs
  BY DEF Sent
<1> QED
  BY <1>1, FS_Subset, FS_CardinalityType DEF Clock, Sent

\* A page that is not cut off is all that was sent to the chat since.
LEMMA PageIsWhole ==
  ASSUME PollTypeOK, NEW p \in passes, Cardinality(Awaited(p)) <= PageLimit
  PROVE  Page(p) = Awaited(p)
<1> SUFFICES ASSUME NEW m \in Awaited(p)
             PROVE  Cardinality({n \in Awaited(p) : sentAt[n] < sentAt[m]}) < PageLimit
  BY DEF Page, Awaited
<1> DEFINE before == {n \in Awaited(p) : sentAt[n] < sentAt[m]}
<1>1. IsFiniteSet(Awaited(p))
  BY FS_Subset DEF Awaited
<1>2. sentAt[m] \in Nat
  BY FS_CardinalityType DEF PollTypeOK, Awaited
<1>3. m \notin before
  BY <1>2
<1>4. before \in SUBSET Awaited(p) /\ before # Awaited(p)
  BY <1>3
<1> HIDE DEF before
<1>5. /\ Cardinality(before) <= Cardinality(Awaited(p))
      /\ Cardinality(before) # Cardinality(Awaited(p)) /\ IsFiniteSet(before)
  BY <1>1, <1>4, FS_Subset
<1>6. Cardinality(before) \in Nat /\ Cardinality(Awaited(p)) \in Nat
  BY <1>1, <1>5, FS_CardinalityType
<1> QED
  BY <1>5, <1>6 DEF before

-----------------------------------------------------------------------------
(* Types.                                                                  *)

\* The types, with the passes' records named.
LEMMA PollTypes == PollTypeOK <=>
  /\ sentAt \in [Msgs -> 0 .. Cardinality(Msgs)]
  /\ up \in BOOLEAN /\ onEvent \in BOOLEAN /\ warming \in BOOLEAN
  /\ pollGeneration \in Gens /\ pollTimer \in Gens
  /\ armed \in [Gens -> Nat]
  /\ passes \subseteq PassRecord
  /\ seen \subseteq Msgs /\ pollAfter \in Nat
  /\ failure \in {"none", "down", "degraded"}
  BY DEF PollTypeOK, PassRecord

LEMMA InitPollInv == PollInit => PollInv
<1> SUFFICES ASSUME PollInit PROVE PollInv
  OBVIOUS
<1>1. Clock \in Nat /\ Cardinality(Msgs) \in Nat
  BY ClockType, FS_CardinalityType
<1>2. PollTypeOK
  <2>1. 0 \in Gens /\ sentAt \in [Msgs -> 0 .. Cardinality(Msgs)]
    BY <1>1 DEF PollInit, Gens
  <2> QED
    BY <2>1, PollTypes DEF PollInit
<1>3. Timely /\ Delivered /\ CursorSkipsNothing
  BY <1>1 DEF PollInit, Timely, Delivered, CursorSkipsNothing
<1> QED
  BY <1>2, <1>3 DEF PollInv

\* The timers that are left, and one more.
LEMMA TimersType ==
  ASSUME PollTypeOK, NEW g \in Gens
  PROVE  /\ Cleared \in [Gens -> Nat]
         /\ [armed EXCEPT ![g] = @ + 1] \in [Gens -> Nat]
         /\ [Cleared EXCEPT ![g] = @ + 1] \in [Gens -> Nat]
         /\ armed[g] > 0 => [armed EXCEPT ![g] = @ - 1] \in [Gens -> Nat]
<1>1. Cleared \in [Gens -> Nat]
  BY DEF PollTypeOK, Cleared
<1> QED
  BY <1>1 DEF PollTypeOK

LEMMA SchedulePollType ==
  ASSUME PollTypeOK, NEW g \in Gens, SchedulePoll(g)
  PROVE  armed' \in [Gens -> Nat] /\ pollTimer' \in Gens
  BY TimersType DEF SchedulePoll, PollTypeOK, timers

\* The request that a pass goes on to.
Asks(p, left, c, q) ==
  /\ q \in PassRecord
  /\ q.gen = p.gen /\ q.startedAt = p.startedAt
  /\ q.left = left \ {c} /\ q.chat = c /\ q.after = pollAfter

\* A pass goes on to the next chat, or ends: then it moves the cursor or not.
LEMMA AdvanceMoves ==
  ASSUME PollTypeOK, NEW p \in passes, NEW left \in SUBSET Chats, Advance(p, left)
  PROVE  /\ armed' \in [Gens -> Nat] /\ pollTimer' \in Gens
         /\ failure' \in {"none", "down", "degraded"}
         /\ \/ /\ pollAfter' = pollAfter
               /\ \E c \in left : \E q \in PassRecord :
                    Asks(p, left, c, q) /\ passes' = (passes \ {p}) \cup {q}
            \/ pollAfter' = pollAfter /\ passes' = passes \ {p}
            \/ left = {} /\ pollAfter' = p.startedAt /\ passes' = passes \ {p}
<1>1. p \in PassRecord /\ p.gen \in Gens /\ pollAfter \in Nat
  BY PollTypes DEF PassRecord
<1>2. CASE left # {} /\ ~Superseded(p.gen)
  <2>1. PICK c \in left : passes' = (passes \ {p}) \cup
              {[p EXCEPT !.left = left \ {c}, !.chat = c, !.after = pollAfter]}
    BY <1>2 DEF Advance
  <2> DEFINE q == [p EXCEPT !.left = left \ {c}, !.chat = c, !.after = pollAfter]
  <2>2. q \in PassRecord /\ Asks(p, left, c, q)
    BY <1>1 DEF PassRecord, Asks
  <2> HIDE DEF q
  <2>3. passes' = (passes \ {p}) \cup {q}
    BY <2>1 DEF q
  <2> QED
    BY <1>2, <2>2, <2>3, PollTypes DEF Advance, timers
<1>3. CASE ~(left # {} /\ ~Superseded(p.gen))
  <2>1. SchedulePoll(p.gen)
    BY <1>3 DEF Advance
  <2> QED
    BY <1>1, <1>3, <2>1, SchedulePollType, PollTypes DEF Advance
<1> QED
  BY <1>2, <1>3

\* Sending a message is what makes the clock move.
LEMMA SendMoves ==
  ASSUME PollTypeOK, NEW m \in Msgs, Send(m)
  PROVE  /\ sentAt' \in [Msgs -> 0 .. Cardinality(Msgs)]
         /\ Clock' = Clock + 1 /\ Sent' = Sent \cup {m} /\ sentAt'[m] = Clock + 1
         /\ \A n \in Msgs \ {m} : sentAt'[n] = sentAt[n]
<1>1. Clock \in Nat /\ Clock' \in Nat /\ Clock' <= Cardinality(Msgs) /\ Cardinality(Msgs) \in Nat
  <2>1. (Clock \in Nat /\ Clock <= Cardinality(Msgs))'
    BY ClockType, PTL
  <2> QED
    BY <2>1, ClockType, FS_CardinalityType
<1>2. sentAt'[m] = Clock + 1 /\ \A n \in Msgs \ {m} : sentAt'[n] = sentAt[n]
  BY PollTypes DEF Send
<1>3. Sent' = Sent \cup {m} /\ m \notin Sent
  BY <1>1, <1>2 DEF Sent, Send
<1>4. Clock' = Clock + 1
  BY <1>3, ClockType, FS_AddElement DEF Clock, Sent
<1>5. Clock + 1 \in 0 .. Cardinality(Msgs)
  BY <1>1, <1>4
<1>6. sentAt' = [sentAt EXCEPT ![m] = Clock + 1]
  BY DEF Send
<1> HIDE DEF Clock
<1> QED
  BY <1>2, <1>3, <1>4, <1>5, <1>6, PollTypes

\* A pass that begins.
LEMMA BegunType ==
  ASSUME NEW g \in Gens, NEW time \in Nat
  PROVE  [gen |-> g, startedAt |-> time, left |-> {}, chat |-> NoChat, after |-> 0] \in PassRecord
  BY DEF PassRecord

LEMMA NextPollTypeOK == PollTypeOK /\ [PollNext]_wvars => PollTypeOK'
<1> SUFFICES ASSUME PollTypeOK, [PollNext]_wvars PROVE PollTypeOK'
  OBVIOUS
<1> DEFINE Same == UNCHANGED <<sentAt, session, timers, passes, capture>>
<1>0. /\ sentAt \in [Msgs -> 0 .. Cardinality(Msgs)]
      /\ up \in BOOLEAN /\ onEvent \in BOOLEAN /\ warming \in BOOLEAN
      /\ pollGeneration \in Gens /\ pollTimer \in Gens
      /\ armed \in [Gens -> Nat]
      /\ passes \subseteq PassRecord
      /\ seen \subseteq Msgs /\ pollAfter \in Nat
      /\ failure \in {"none", "down", "degraded"}
  BY PollTypes
<1>1. ASSUME NEW m \in Msgs, Send(m) PROVE PollTypeOK'
  BY <1>0, <1>1, SendMoves DEF Send, session, timers, capture, PollTypeOK, PassRecord
<1>2. ASSUME NEW m \in Msgs, HandleEvent(m) PROVE PollTypeOK'
  BY <1>0, <1>2 DEF HandleEvent, Emit, session, timers, PollTypeOK, PassRecord
<1>3. CASE Connect
  <2>1. pollGeneration' \in Gens
    BY <1>0, <1>3 DEF Connect, Gens
  <2> QED
    BY <1>0, <1>3, <2>1 DEF Connect, timers, PollTypeOK, PassRecord
<1>13. CASE Warmed
  BY <1>0, <1>13 DEF Warmed, timers, PollTypeOK, PassRecord
<1>4. CASE Subscribe
  <2>1. pollGeneration + 1 \in Gens
    BY <1>0, <1>4 DEF Subscribe, Gens
  <2>2. armed' \in [Gens -> Nat]
    BY <1>4, <2>1, TimersType DEF Subscribe
  <2> QED
    BY <1>0, <1>4, <2>1, <2>2 DEF Subscribe, capture, PollTypeOK, PassRecord
<1>5. CASE Disconnect
  <2>1. armed' \in [Gens -> Nat] /\ 0 \in Gens
    BY <1>0, <1>5, TimersType DEF Disconnect, Gens
  <2> QED
    BY <1>0, <1>5, <2>1 DEF Disconnect, capture, PollTypeOK, PassRecord
<1>6. ASSUME NEW g \in Gens, PollOnce(g) PROVE PollTypeOK'
  <2>1. armed' \in [Gens -> Nat]
    BY <1>6, TimersType DEF PollOnce
  <2>2. passes' \subseteq PassRecord
    BY <1>0, <1>6, BegunType, ClockType DEF PollOnce
  <2> QED
    BY <1>0, <1>6, <2>1, <2>2 DEF PollOnce, session, capture, PollTypeOK, PassRecord
<1>7. ASSUME NEW p \in passes, NEW left \in SUBSET Chats, Advance(p, left),
             seen' \subseteq Msgs, UNCHANGED <<sentAt, session>>
      PROVE  PollTypeOK'
  <2>1. p.startedAt \in Nat
    BY <1>0 DEF PassRecord
  <2>2. /\ armed' \in [Gens -> Nat] /\ pollTimer' \in Gens
        /\ failure' \in {"none", "down", "degraded"}
        /\ passes' \subseteq PassRecord /\ pollAfter' \in Nat
    BY <1>0, <1>7, <2>1, AdvanceMoves
  <2> QED
    BY <1>0, <1>7, <2>2 DEF session, PollTypeOK, PassRecord
<1>8. ASSUME NEW p \in passes, SchedulePoll(p.gen), passes' = passes \ {p},
             failure' \in {failure, "down"}, UNCHANGED <<sentAt, session, seen, pollAfter>>
      PROVE  PollTypeOK'
  <2>1. armed' \in [Gens -> Nat] /\ pollTimer' \in Gens
    BY <1>0, <1>8, SchedulePollType DEF PassRecord
  <2> QED
    BY <1>0, <1>8, <2>1 DEF session, PollTypeOK, PassRecord
<1>9. ASSUME NEW p \in passes, Listed(p) PROVE PollTypeOK'
  BY <1>0, <1>7, <1>9 DEF Listed
<1>10. ASSUME NEW p \in passes, PageRead(p) PROVE PollTypeOK'
  <2>1. CASE Superseded(p.gen) /\ Page(p) # {}
    BY <1>8, <1>10, <2>1 DEF PageRead, capture
  <2>2. CASE ~(Superseded(p.gen) /\ Page(p) # {})
    <3>1. Page(p) \subseteq Msgs /\ p.left \in SUBSET Chats
      BY <1>0 DEF Page, PassRecord
    <3> QED
      BY <1>0, <1>7, <1>10, <2>2, <3>1 DEF PageRead, Emit
  <2> QED
    BY <2>1, <2>2
<1>11. ASSUME NEW p \in passes, PollFails(p) PROVE PollTypeOK'
  BY <1>8, <1>11 DEF PollFails
<1>12. CASE UNCHANGED wvars
  BY <1>0, <1>12 DEF wvars, session, timers, capture, PollTypeOK, PassRecord
<1> QED
  BY <1>1, <1>2, <1>3, <1>4, <1>5, <1>6, <1>9, <1>10, <1>11, <1>12, <1>13 DEF PollNext

-----------------------------------------------------------------------------
(* What passes owe.                                                        *)

Owes == Timely /\ Delivered /\ CursorSkipsNothing

\* A step that leaves the passes, or drops some, owes no more than before.
LEMMA DroppedPassesOweNothing ==
  ASSUME PollInv, UNCHANGED <<sentAt, pollAfter>>, seen \subseteq seen', passes' \subseteq passes
  PROVE  Owes'
<1>1. Clock' = Clock /\ Sent' = Sent
  BY DEF Clock, Sent
<1>2. Timely'
  BY <1>1 DEF PollInv, Timely
<1>3. Delivered'
  BY <1>1 DEF PollInv, Delivered, KeptBy, Past
<1> QED
  BY <1>2, <1>3 DEF PollInv, CursorSkipsNothing, Owes

\* A pass that goes on owes the chats that are left to it.
LEMMA AdvanceKeeps ==
  ASSUME PollInv, UNCHANGED sentAt, seen \subseteq seen',
         NEW p \in passes, NEW left \in SUBSET Chats, Advance(p, left),
         \A m \in Sent : ChatOf[m] \notin left /\ sentAt[m] <= p.startedAt => m \in seen'
  PROVE  Owes'
<1>1. Clock' = Clock /\ Sent' = Sent
  BY DEF Clock, Sent
<1>2. p \in PassRecord /\ p.startedAt <= Clock /\ pollAfter <= Clock
  BY PollTypes DEF PollInv, Timely
<1>3. ASSUME pollAfter' = pollAfter, NEW c \in left, NEW q \in PassRecord,
             Asks(p, left, c, q), passes' = (passes \ {p}) \cup {q}
      PROVE  Owes'
  <2>1. Timely'
    BY <1>1, <1>2, <1>3 DEF PollInv, Timely, Asks
  <2>2. KeptBy(q)'
    BY <1>1, <1>3 DEF Asks, KeptBy, Past, Sent, PollInv, CursorSkipsNothing
  <2>3. ASSUME NEW r \in passes, r.chat # NoChat PROVE KeptBy(r)'
    BY <1>1, <2>3 DEF PollInv, Delivered, KeptBy, Past
  <2>4. Delivered'
    BY <1>3, <2>2, <2>3 DEF Delivered
  <2> QED
    BY <1>3, <2>1, <2>4 DEF Owes, PollInv, CursorSkipsNothing
<1>4. CASE pollAfter' = pollAfter /\ passes' = passes \ {p}
  BY <1>4, DroppedPassesOweNothing
<1>5. CASE left = {} /\ pollAfter' = p.startedAt /\ passes' = passes \ {p}
  <2>1. Timely'
    BY <1>1, <1>2, <1>5 DEF PollInv, Timely
  <2>2. Delivered'
    BY <1>1, <1>5 DEF PollInv, Delivered, KeptBy, Past
  <2>3. CursorSkipsNothing'
    BY <1>1, <1>5 DEF CursorSkipsNothing, Sent
  <2> QED
    BY <2>1, <2>2, <2>3 DEF Owes
<1> QED
  BY <1>3, <1>4, <1>5, AdvanceMoves DEF PollInv

LEMMA NextOwes == PollInv /\ PagesSuffice /\ [PollNext]_wvars => Owes'
<1> SUFFICES ASSUME PollInv, PagesSuffice, [PollNext]_wvars PROVE Owes'
  OBVIOUS
<1>0. /\ PollTypeOK /\ passes \subseteq PassRecord /\ Clock \in Nat
      /\ sentAt \in [Msgs -> Nat]
  BY PollTypes, ClockType, FS_CardinalityType DEF PollInv
<1>1. ASSUME NEW m \in Msgs, Send(m) PROVE Owes'
  <2>1. /\ Clock' = Clock + 1 /\ Sent' = Sent \cup {m} /\ sentAt'[m] = Clock + 1
        /\ \A n \in Msgs \ {m} : sentAt'[n] = sentAt[n]
        /\ UNCHANGED <<passes, pollAfter, seen>>
    BY <1>0, <1>1, SendMoves DEF Send, capture
  <2> HIDE DEF Clock, Sent
  <2>2. pollAfter \in Nat /\ \A p \in passes : p.startedAt \in Nat /\ p.after \in Nat
    BY <1>0, PollTypes DEF PassRecord
  <2>3. Timely'
    BY <1>0, <2>1, <2>2 DEF PollInv, Timely
  <2>4. ASSUME NEW p \in passes, p.chat # NoChat PROVE KeptBy(p)'
    BY <1>0, <2>1, <2>2, <2>4 DEF PollInv, Timely, Delivered, KeptBy, Past, Sent
  <2>5. Delivered'
    BY <2>1, <2>4 DEF Delivered
  <2>6. CursorSkipsNothing'
    BY <1>0, <2>1, <2>2 DEF PollInv, Timely, CursorSkipsNothing
  <2> QED
    BY <2>3, <2>5, <2>6 DEF Owes
<1>2. ASSUME NEW m \in Msgs, HandleEvent(m) PROVE Owes'
  BY <1>2, DroppedPassesOweNothing DEF HandleEvent, Emit
<1>3. CASE Connect \/ Warmed \/ Subscribe \/ Disconnect \/ UNCHANGED wvars
  BY <1>3, DroppedPassesOweNothing DEF Connect, Warmed, Subscribe, Disconnect, capture, wvars
<1>4. ASSUME NEW g \in Gens, PollOnce(g) PROVE Owes'
  <2> DEFINE q == [gen |-> g, startedAt |-> Clock, left |-> {}, chat |-> NoChat, after |-> 0]
  <2>1. q.startedAt = Clock /\ q.chat = NoChat /\ q.after = 0
    OBVIOUS
  <2>2. UNCHANGED <<sentAt, pollAfter, seen>> /\ passes' \subseteq passes \cup {q}
    BY <1>4 DEF PollOnce, capture
  <2>3. Clock' = Clock /\ Sent' = Sent
    BY <2>2 DEF Clock, Sent
  <2> HIDE DEF q
  <2>4. Timely'
    BY <1>0, <2>1, <2>2, <2>3 DEF PollInv, Timely
  <2>5. Delivered'
    BY <2>1, <2>2, <2>3 DEF PollInv, Delivered, KeptBy, Past
  <2> QED
    BY <2>2, <2>4, <2>5 DEF PollInv, CursorSkipsNothing, Owes
<1>5. ASSUME NEW p \in passes, Listed(p) PROVE Owes'
  <2>1. \A m \in Sent : ChatOf[m] \in Chats
    BY DEF Sent
  <2> QED
    BY <1>5, <2>1, AdvanceKeeps DEF Listed
<1>6. ASSUME NEW p \in passes, PageRead(p) PROVE Owes'
  <2>1. CASE Superseded(p.gen) /\ Page(p) # {}
    BY <1>6, <2>1, DroppedPassesOweNothing DEF PageRead, capture
  <2>2. CASE ~(Superseded(p.gen) /\ Page(p) # {})
    <3>1. /\ seen' = seen \cup Awaited(p) /\ Advance(p, p.left) /\ UNCHANGED sentAt
          /\ p.chat # NoChat /\ p.left \in SUBSET Chats /\ p.after \in Nat
      BY <1>0, <1>6, <2>2, PageIsWhole DEF PageRead, Emit, PagesSuffice, PassRecord
    <3>2. ASSUME NEW m \in Sent, ChatOf[m] \notin p.left, sentAt[m] <= p.startedAt
          PROVE  m \in seen'
      <4>1. m \in Msgs /\ sentAt[m] \in Nat
        BY <1>0 DEF Sent
      <4>2. Past(p, m) \/ m \in Awaited(p)
        BY <3>1, <3>2, <4>1 DEF Past, Awaited
      <4> QED
        BY <3>1, <4>2 DEF PollInv, Delivered, KeptBy
    <3> QED
      BY <3>1, <3>2, AdvanceKeeps
  <2> QED
    BY <2>1, <2>2
<1>7. ASSUME NEW p \in passes, PollFails(p) PROVE Owes'
  BY <1>7, DroppedPassesOweNothing DEF PollFails
<1> QED
  BY <1>1, <1>2, <1>3, <1>4, <1>5, <1>6, <1>7 DEF PollNext

-----------------------------------------------------------------------------
(* Every variable keeps its type, cut-off pages or not.                    *)
THEOREM PollTypeCorrect == PollSpec => []PollTypeOK
<1>1. PollInit => PollTypeOK
  BY InitPollInv DEF PollInv
<1> QED
  BY <1>1, NextPollTypeOK, PTL DEF PollSpec

(* As long as no page is cut off, the cursor passes no message that was    *)
(* not emitted: not by a pass that fails, that a later subscription        *)
(* supersedes or that overlaps another, nor by one sent while it reads.    *)
THEOREM CursorIsSafe == PollSpec /\ []PagesSuffice => []CursorSkipsNothing
<1>1. PollInv /\ PagesSuffice /\ [PollNext]_wvars => PollInv'
  BY NextPollTypeOK, NextOwes DEF PollInv, Owes
<1>2. PollInv => CursorSkipsNothing
  BY DEF PollInv
<1> QED
  BY InitPollInv, <1>1, <1>2, PTL DEF PollSpec

(* A page that can hold all that a chat is ever sent is never cut off.     *)
THEOREM CursorIsSafeWithLongPages ==
  (\A c \in Chats : Cardinality({m \in Msgs : ChatOf[m] = c}) <= PageLimit)
    => (PollSpec => []CursorSkipsNothing)
<1> SUFFICES ASSUME \A c \in Chats : Cardinality({m \in Msgs : ChatOf[m] = c}) <= PageLimit
             PROVE  PollSpec => []CursorSkipsNothing
  OBVIOUS
<1>1. PollTypeOK => PagesSuffice
  <2> SUFFICES ASSUME PollTypeOK, NEW p \in passes, p.chat # NoChat
               PROVE  Cardinality(Awaited(p)) <= PageLimit
    BY DEF PagesSuffice
  <2> DEFINE ofChat == {m \in Msgs : ChatOf[m] = p.chat}
  <2>1. p.chat \in Chats
    BY PollTypes DEF PassRecord
  <2>2. ofChat \in SUBSET Msgs /\ Awaited(p) \in SUBSET ofChat
    BY DEF Awaited
  <2>3. Cardinality(ofChat) <= PageLimit
    BY <2>1
  <2> HIDE DEF ofChat
  <2>4. IsFiniteSet(ofChat)
    BY <2>2, FS_Subset
  <2>5. Cardinality(Awaited(p)) <= Cardinality(ofChat) /\ IsFiniteSet(Awaited(p))
    BY <2>2, <2>4, FS_Subset
  <2>6. Cardinality(Awaited(p)) \in Nat /\ Cardinality(ofChat) \in Nat
    BY <2>4, <2>5, FS_CardinalityType
  <2> QED
    BY <2>3, <2>5, <2>6
<1> QED
  BY <1>1, PollTypeCorrect, CursorIsSafe, PTL

-----------------------------------------------------------------------------
(* The identities of authors.                                              *)

\* The survivor that a merge has found is nobody's, until the merge is written.
Survivor ==
  merge # NoMerge =>
    /\ merge.from \in Person /\ merge.to \in Person
    /\ merge.from # merge.to /\ merged[merge.to] = 0

MergeInv == TypeOK /\ FlatMerges /\ Survivor

USE IdentityAssumption

Tx == [step : {"idle", "cross", "create", "claim", "store"}, item : Items,
       person : 0 .. MaxPersons, key : {"none", "new", "taken", "mine"}]

-----------------------------------------------------------------------------
(* What following merges finds.                                            *)

\* A person who is there, whether or not merges are flat.
LEMMA FollowMergesType ==
  ASSUME TypeOK, NEW p \in Person PROVE FollowMerges(p) \in Person
<1>1. \A q \in Person : Hop(q) \in Person
  BY DEF TypeOK, Hop, Person
<1> QED
  BY <1>1 DEF FollowMerges

\* If they are, one who was not merged away.
LEMMA FollowMergesFindsSurvivor ==
  ASSUME TypeOK, FlatMerges, NEW p \in Person PROVE merged[FollowMerges(p)] = 0
<1>1. Hop(p) \in Person /\ merged[Hop(p)] = 0
  BY DEF TypeOK, FlatMerges, Hop, Person
<1>2. \A q \in Person : merged[q] = 0 => Hop(q) = q
  BY DEF Hop
<1> QED
  BY <1>1, <1>2 DEF FollowMerges

LEMMA KeyType == ASSUME NEW i \in Items PROVE KeyOf(i) \in Channels \X Handles
  BY DEF KeyOf, Channels

-----------------------------------------------------------------------------
(* Types.                                                                  *)

LEMMA InitMergeInv == Init => MergeInv
  BY DEF Init, MergeInv, TypeOK, FlatMerges, Survivor, Idle, NoMerge, Person

LEMMA TxType == TypeOK <=>
  /\ persons \in 0 .. MaxPersons
  /\ merged \in [Person -> 0 .. MaxPersons]
  /\ identities \in [Channels \X Handles -> 0 .. MaxPersons]
  /\ DOMAIN author \subseteq Items /\ \A i \in DOMAIN author : author[i] \in 0 .. MaxPersons
  /\ tx \in [Accounts -> Tx]
  /\ merge \in [from : 0 .. MaxPersons, to : 0 .. MaxPersons]
  /\ raced \subseteq Channels \X Handles
  BY DEF TypeOK, Tx

\* The keys in flight are keys.
LEMMA InFlightType == ASSUME TypeOK PROVE InFlight \subseteq Channels \X Handles
  BY KeyType, TxType DEF InFlight, Tx

\* A step of one transaction is typed if the statement it ends with is.
LEMMA StepType ==
  ASSUME TypeOK, NEW a \in Accounts, NEW t \in Tx, Step(a, t) PROVE tx' \in [Accounts -> Tx]
  BY TxType DEF Step

LEMMA NextTypeOK == TypeOK /\ [Next]_ivars => TypeOK'
<1> SUFFICES ASSUME TypeOK, [Next]_ivars PROVE TypeOK'
  OBVIOUS
<1>0. /\ persons \in 0 .. MaxPersons
      /\ merged \in [Person -> 0 .. MaxPersons]
      /\ identities \in [Channels \X Handles -> 0 .. MaxPersons]
      /\ DOMAIN author \subseteq Items /\ \A i \in DOMAIN author : author[i] \in 0 .. MaxPersons
      /\ tx \in [Accounts -> Tx]
      /\ merge \in [from : 0 .. MaxPersons, to : 0 .. MaxPersons]
      /\ raced \subseteq Channels \X Handles
  BY TxType
<1>t. \A a \in Accounts : tx[a] \in Tx /\ tx[a].item \in Items /\ tx[a].person \in 0 .. MaxPersons
  BY <1>0 DEF Tx
<1>1. ASSUME NEW a \in Accounts, NEW i \in Items, Lookup(a, i) PROVE TypeOK'
  <2>1. identities[KeyOf(i)] \in 0 .. MaxPersons
    BY <1>0, KeyType
  <2>2. identities[KeyOf(i)] # 0 => FollowMerges(identities[KeyOf(i)]) \in 0 .. MaxPersons
    BY <2>1, FollowMergesType DEF Person
  <2>3. PICK t \in Tx : Step(a, t)
    BY <1>1, <2>2 DEF Lookup, Tx
  <2>4. tx' \in [Accounts -> Tx]
    BY <2>3, StepType
  <2> QED
    BY <1>0, <1>1, <2>4 DEF Lookup, people, rows, TypeOK, Tx
<1>2. ASSUME NEW a \in Accounts, Cross(a) PROVE TypeOK'
  <2>1. CrossMatches(HandleOf[tx[a].item]) \subseteq {k \in Channels \X Handles : identities[k] # 0}
    BY <1>t DEF CrossMatches
  <2>2. ASSUME NEW k \in CrossMatches(HandleOf[tx[a].item])
        PROVE  FollowMerges(identities[k]) \in 0 .. MaxPersons
    <3>1. identities[k] \in Person
      BY <1>0, <2>1 DEF Person
    <3> QED
      BY <3>1, FollowMergesType DEF Person
  <2>3. PICK t \in Tx : Step(a, t)
    BY ZenonT(60), <1>t, <1>2, <2>2 DEF Cross, Tx
  <2>4. tx' \in [Accounts -> Tx]
    BY <2>3, StepType
  <2> QED
    BY <1>0, <1>2, <2>4 DEF Cross, people, rows, TypeOK, Tx
<1>3. ASSUME NEW a \in Accounts, Create(a) PROVE TypeOK'
  <2>1. persons' \in 0 .. MaxPersons
    BY <1>0, <1>3 DEF Create
  <2>2. PICK t \in Tx : Step(a, t)
    BY ZenonT(60), <1>t, <1>3, <2>1 DEF Create, Tx
  <2>3. tx' \in [Accounts -> Tx]
    BY <2>2, StepType
  <2> QED
    BY <1>0, <1>3, <2>1, <2>3 DEF Create, rows, TypeOK, Tx
<1>4. ASSUME NEW a \in Accounts, Claim(a) PROVE TypeOK'
  <2> DEFINE k == KeyOf(tx[a].item)
  <2>1. k \in Channels \X Handles /\ identities[k] \in 0 .. MaxPersons
    BY <1>0, <1>t, KeyType
  <2>2. identities[k] # 0 => FollowMerges(identities[k]) \in 0 .. MaxPersons
    BY <2>1, FollowMergesType DEF Person
  <2>3. PICK t \in Tx : Step(a, t)
    BY ZenonT(60), <1>t, <1>4, <2>2 DEF Claim, Tx
  <2>4. tx' \in [Accounts -> Tx]
    BY <2>3, StepType
  <2>5. raced' \subseteq Channels \X Handles
    BY <1>0, <1>4, <2>1 DEF Claim
  <2> QED
    BY <1>0, <1>4, <2>4, <2>5 DEF Claim, people, rows, TypeOK, Tx
<1>5. ASSUME NEW a \in Accounts, Store(a) \/ Abort(a) PROVE TypeOK'
  <2>1. Idle \in Tx
    BY DEF Idle, Tx
  <2>2. tx' \in [Accounts -> Tx]
    BY <1>5, <2>1, StepType DEF Store, Abort
  <2>3. KeyOf(tx[a].item) \in Channels \X Handles
    BY <1>t, KeyType
  <2>4. identities' \in [Channels \X Handles -> 0 .. MaxPersons]
    BY <1>0, <1>t, <1>5, <2>3 DEF Store, Abort, rows
  <2>5. DOMAIN author' \subseteq Items /\ \A i \in DOMAIN author' : author'[i] \in 0 .. MaxPersons
    BY SMTT(60), <1>0, <1>t, <1>5 DEF Store, Abort, rows
  <2> QED
    BY <1>0, <1>5, <2>2, <2>4, <2>5 DEF Store, Abort, people, TypeOK, Tx
<1>6. ASSUME NEW from \in 1 .. persons, NEW to \in 1 .. persons, MergeFinds(from, to)
      PROVE  TypeOK'
  <2>1. to \in Person /\ from \in Person /\ FollowMerges(to) \in Person
    BY <1>0, FollowMergesType DEF Person
  <2>2. merge' \in [from : 0 .. MaxPersons, to : 0 .. MaxPersons]
    BY <1>6, <2>1 DEF MergeFinds, Person
  <2> QED
    BY <1>0, <1>6, <2>2 DEF MergeFinds, people, rows, TypeOK, Tx
<1>7. CASE MergeWrites
  <2>1. merge.to \in 0 .. MaxPersons
    BY <1>0
  <2>2. raced' \subseteq Channels \X Handles
    BY <1>0, <1>7, InFlightType DEF MergeWrites
  <2>3. identities' \in [Channels \X Handles -> 0 .. MaxPersons]
    BY <1>0, <1>7, <2>1 DEF MergeWrites
  <2>4. merged' \in [Person -> 0 .. MaxPersons]
    BY <1>0, <1>7, <2>1 DEF MergeWrites
  <2> QED
    BY <1>0, <1>7, <2>1, <2>2, <2>3, <2>4 DEF MergeWrites, NoMerge, TypeOK, Tx
<1>8. ASSUME NEW k \in Channels \X Handles, NEW target \in Person, Split(k, target)
      PROVE  TypeOK'
  <2>1. raced' \subseteq Channels \X Handles
    BY <1>0, <1>8, InFlightType DEF Split
  <2>2. identities' \in [Channels \X Handles -> 0 .. MaxPersons]
    BY <1>0, <1>8 DEF Split, Person
  <2>3. DOMAIN author' \subseteq Items /\ \A i \in DOMAIN author' : author'[i] \in 0 .. MaxPersons
    BY <1>0, <1>8 DEF Split, Person
  <2>4. persons' \in 0 .. MaxPersons
    BY <1>0, <1>8 DEF Split, Person
  <2> QED
    BY <1>0, <1>8, <2>1, <2>2, <2>3, <2>4 DEF Split, TypeOK, Tx
<1>9. CASE UNCHANGED ivars
  BY <1>0, <1>9 DEF ivars, people, rows, TypeOK, Tx
<1> QED
  BY <1>1, <1>2, <1>3, <1>4, <1>5, <1>6, <1>7, <1>8, <1>9 DEF Next

-----------------------------------------------------------------------------
(* Merges.                                                                 *)

\* A merge keeps merges flat: what it moves goes to a survivor, and what it
\* does not move was not merged into who goes away.
LEMMA MergeKeepsFlat == MergeInv /\ MergeWrites => FlatMerges' /\ Survivor'
<1> SUFFICES ASSUME MergeInv, MergeWrites PROVE FlatMerges' /\ Survivor'
  OBVIOUS
<1>1. /\ merge.from \in Person /\ merge.to \in Person /\ merge.from # merge.to
      /\ merged[merge.to] = 0 /\ merged \in [Person -> 0 .. MaxPersons]
  BY DEF MergeInv, Survivor, MergeWrites, TypeOK
<1>2. merged' = [p \in Person |-> IF p = merge.from \/ merged[p] = merge.from
                                  THEN merge.to ELSE merged[p]]
  BY DEF MergeWrites
<1>3. merge.from # 0 /\ merged'[merge.to] = 0
  BY <1>1, <1>2 DEF Person
<1>4. ASSUME NEW p \in Person, merged'[p] # 0 PROVE merged'[merged'[p]] = 0
  <2>1. CASE p = merge.from \/ merged[p] = merge.from
    BY <1>2, <1>3, <2>1
  <2>2. CASE ~(p = merge.from \/ merged[p] = merge.from)
    <3>1. merged'[p] = merged[p] /\ merged[p] \in Person /\ merged[merged[p]] = 0
      BY <1>1, <1>2, <1>4, <2>2 DEF MergeInv, FlatMerges, Person
    <3> QED
      BY <1>2, <1>3, <2>2, <3>1
  <2> QED
    BY <2>1, <2>2
<1> QED
  BY <1>4 DEF FlatMerges, Survivor, MergeWrites

LEMMA NextFlat == MergeInv /\ [Next]_ivars => FlatMerges' /\ Survivor'
<1> SUFFICES ASSUME MergeInv, [Next]_ivars PROVE FlatMerges' /\ Survivor'
  OBVIOUS
<1>1. ASSUME UNCHANGED <<merged, merge>> PROVE FlatMerges' /\ Survivor'
  BY SMTT(60), <1>1 DEF MergeInv, FlatMerges, Survivor
<1>2. ASSUME NEW a \in Accounts, NEW i \in Items,
             Lookup(a, i) \/ Cross(a) \/ Create(a) \/ Claim(a) \/ Store(a) \/ Abort(a)
      PROVE  UNCHANGED <<merged, merge>>
  BY <1>2 DEF Lookup, Cross, Create, Claim, Store, Abort, people, rows
<1>3. ASSUME NEW from \in 1 .. persons, NEW to \in 1 .. persons, MergeFinds(from, to)
      PROVE  FlatMerges' /\ Survivor'
  <2>1. to \in Person /\ from \in Person
    BY DEF MergeInv, TypeOK, Person
  <2>2. FollowMerges(to) \in Person /\ merged[FollowMerges(to)] = 0
    BY <2>1, FollowMergesType, FollowMergesFindsSurvivor DEF MergeInv
  <2> QED
    BY <1>3, <2>1, <2>2 DEF MergeFinds, MergeInv, FlatMerges, Survivor, people
<1>4. ASSUME NEW k \in Channels \X Handles, NEW target \in Person, Split(k, target)
      PROVE  UNCHANGED <<merged, merge>>
  BY <1>4 DEF Split
<1>5. CASE UNCHANGED ivars
  BY <1>1, <1>5 DEF ivars, people
<1>6. \E i \in Items : TRUE
  OBVIOUS
<1> QED
  BY <1>1, <1>2, <1>3, <1>4, <1>5, <1>6, MergeKeepsFlat DEF Next

-----------------------------------------------------------------------------
(* The merges are flat, and a merge under way ends in a survivor.          *)
THEOREM MergeInvariant == Spec => []MergeInv
<1>1. MergeInv /\ [Next]_ivars => MergeInv'
  BY NextTypeOK, NextFlat DEF MergeInv
<1> QED
  BY InitMergeInv, <1>1, PTL DEF Spec

(* Every variable keeps its type: no statement follows a merge to nobody.  *)
THEOREM IdentityTypeCorrect == Spec => []TypeOK
<1>1. MergeInv => TypeOK
  BY DEF MergeInv
<1> QED
  BY MergeInvariant, <1>1, PTL

(* Whoever was merged away was merged into somebody who was not, whatever  *)
(* merges, splits and transactions of the pumps interleave: one hop finds  *)
(* the survivor, and the four of followMerges are never used up.           *)
THEOREM MergesStayFlat == Spec => []FlatMerges
<1>1. MergeInv => FlatMerges
  BY DEF MergeInv
<1> QED
  BY MergeInvariant, <1>1, PTL

=============================================================================
