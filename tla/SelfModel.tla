------------------------------ MODULE SelfModel ------------------------------
(***************************************************************************)
(* The self-model: three files of text in a git repository, changed only   *)
(* by patches a person accepted.  The weekly job proposes (self-model/     *)
(* propose.ts), an approved patch is checked, applied and committed        *)
(* (kernel self-model/apply.ts, memory self-model-git.ts), and the loops   *)
(* read the files through a cache that lives as long as the process        *)
(* (self-model.ts).                                                        *)
(*                                                                         *)
(* A text is the patch that wrote it: a file is a set of patches.          *)
(***************************************************************************)
EXTENDS Naturals, Sequences, FiniteSets

CONSTANTS
  Patches, NoPatch,
  Queue,             \* the patches of each weekly run, in the model's order
  FileOf,            \* the declared file
  Touches,           \* the files named in the diff
  Rival,             \* Rival[p]: patches of the file that p does not apply over
  Invalid,           \* patches validatePatch refuses
  Suppressed,        \* ignored within the last four weeks
  MaxProposed,       \* MAX_PATCHES
  Apart,             \* nothing else is applied or loaded while a patch is applied
  MaxLoads, MaxModelFaults   \* bounds

ASSUME SelfModelAssumption ==
  /\ NoPatch \notin Patches /\ Queue \in Seq(Seq(Patches)) /\ Queue # <<>>
  /\ \A p \in Patches : Rival[p] \subseteq Patches
  /\ Invalid \subseteq Patches /\ Suppressed \subseteq Patches
  /\ MaxProposed \in Nat /\ Apart \in BOOLEAN
  /\ MaxLoads \in Nat /\ MaxModelFaults \in Nat

VARIABLES
  week, upTo,        \* the weekly run, and how far it got in its queue
  approvals,         \* the patches with a row in pending_approvals
  accepted,          \* those a person accepted
  repo,              \* "none", "bare" (initialised, no files) or "ready"
  tree, index, head, \* the texts of every file in the working tree, staged, committed
  patchFile,         \* .omnis-patch.diff
  apply,             \* where the execution of an approved patch stands
  snapshot,          \* the cache: the texts of a snapshot, or none
  load,              \* a load of the loops: what it has read so far
  settled,           \* history: patches whose apply had returned when the load began
  loads, modelFaults

git == <<repo, tree, index, head, patchFile>>
reader == <<snapshot, load, settled, loads>>
modelVars == <<week, upTo, approvals, accepted, git, apply, reader, modelFaults>>

Files == {FileOf[p] : p \in Patches}
Empty == [f \in Files |-> {}]
Ended == {"none", "done", "failed", "lost"}
Applying == {p \in Patches : apply[p] \notin Ended}
Returned == {p \in Patches : apply[p] = "done"}

\* A read that has not reached every file yet; NoTexts stands for an empty cache.
NoTexts == [cached |-> FALSE, texts |-> Empty]
NoLoad == [pc |-> "idle", texts |-> Empty, left |-> {}]

SelfModelInit ==
  /\ week = 1 /\ upTo = 0 /\ approvals = {} /\ accepted = {}
  /\ repo = "none" /\ tree = Empty /\ index = Empty /\ head = Empty /\ patchFile = NoPatch
  /\ apply = [p \in Patches |-> "none"]
  /\ snapshot = NoTexts /\ load = NoLoad /\ settled = {} /\ loads = 0 /\ modelFaults = 0

-----------------------------------------------------------------------------
(* The proposals: at most one of a file and MaxProposed of a run.          *)

OfThisRun == {Queue[week][i] : i \in 1 .. upTo} \cap approvals
SeenFiles == {FileOf[p] : p \in OfThisRun}

Proposable(p) ==
  /\ Cardinality(OfThisRun) < MaxProposed
  /\ FileOf[p] \notin SeenFiles /\ p \notin Invalid /\ p \notin Suppressed

ProposePatch ==
  /\ upTo < Len(Queue[week])
  /\ upTo' = upTo + 1
  /\ LET p == Queue[week][upTo']
     IN approvals' = IF Proposable(p) THEN approvals \cup {p} ELSE approvals
  /\ UNCHANGED <<week, accepted, git, apply, reader, modelFaults>>

NextWeek ==
  /\ week < Len(Queue) /\ upTo = Len(Queue[week])
  /\ week' = week + 1 /\ upTo' = 0
  /\ UNCHANGED <<approvals, accepted, git, apply, reader, modelFaults>>

Accept(p) ==
  /\ p \in approvals \ accepted
  /\ accepted' = accepted \cup {p}
  /\ UNCHANGED <<week, upTo, approvals, git, apply, reader, modelFaults>>

-----------------------------------------------------------------------------
(* The apply of an accepted patch, one action per git command.             *)

At(p, from, to) == apply[p] = from /\ apply' = [apply EXCEPT ![p] = to]
Steps == UNCHANGED <<week, upTo, approvals, accepted, reader, modelFaults>>

BeginApply(p) ==
  /\ p \in accepted /\ (Apart => Applying = {} /\ load.pc # "reading")
  /\ At(p, "none", "ensure") /\ Steps /\ UNCHANGED git

\* ensureSelfModelRepo: git init makes it a repository, the seeds are committed
\* later, and a directory that is a repository is left as it is.
EnsureSelfModelRepo(p) ==
  /\ IF repo = "none" THEN At(p, "ensure", "seed") /\ repo' = "bare"
                      ELSE At(p, "ensure", "check") /\ UNCHANGED repo
  /\ Steps /\ UNCHANGED <<tree, index, head, patchFile>>

SeedFiles(p) ==
  /\ At(p, "seed", "check") /\ repo' = "ready"
  /\ Steps /\ UNCHANGED <<tree, index, head, patchFile>>

\* The files are there to apply to when the repository is ready.
Applies(p) ==
  /\ repo = "ready"
  /\ \A f \in Touches[p] : p \notin tree[f] /\ Rival[p] \cap tree[f] = {}

CheckPatch(p) ==
  /\ At(p, "check", IF Applies(p) THEN "guard" ELSE "failed")
  /\ Steps /\ UNCHANGED git

TouchesOnly(p) == Touches[p] = {FileOf[p]}

\* Before anything is written, the names in the diff are held against the file.
WritePatch(p) ==
  /\ Steps /\ UNCHANGED <<repo, tree, index, head>>
  /\ IF TouchesOnly(p)
     THEN At(p, "guard", "apply") /\ patchFile' = p
     ELSE At(p, "guard", "failed") /\ UNCHANGED patchFile

\* The path of the patch is one for all applies of the repository.
GitApply(p) ==
  /\ Steps /\ UNCHANGED <<repo, index, head, patchFile>>
  /\ IF patchFile # NoPatch /\ Applies(patchFile)
     THEN /\ At(p, "apply", "applied")
          /\ tree' = [f \in Files |->
                        IF f \in Touches[patchFile] THEN tree[f] \cup {patchFile} ELSE tree[f]]
     ELSE At(p, "apply", "refused") /\ UNCHANGED tree

RemovePatch(p) ==
  /\ Steps /\ UNCHANGED <<repo, tree, index, head>>
  /\ At(p, "applied", "add") \/ At(p, "refused", "failed")
  /\ patchFile' = NoPatch

GitAdd(p) ==
  /\ At(p, "add", "commit") /\ Steps
  /\ index' = [index EXCEPT ![FileOf[p]] = tree[FileOf[p]]]
  /\ UNCHANGED <<repo, tree, head, patchFile>>

GitCommit(p) ==
  /\ Steps /\ UNCHANGED <<repo, tree, index, patchFile>>
  /\ IF index = head THEN At(p, "commit", "failed") /\ UNCHANGED head
                     ELSE At(p, "commit", "committed") /\ head' = index

StaleCache == snapshot
NewCache == NoTexts

Invalidate(p) ==
  /\ At(p, "committed", "audit") /\ snapshot' = NewCache
  /\ UNCHANGED <<week, upTo, approvals, accepted, git, load, settled, loads, modelFaults>>

AuditApplied(p) == At(p, "audit", "done") /\ Steps /\ UNCHANGED git

ApplyStep(p) ==
  \/ BeginApply(p) \/ EnsureSelfModelRepo(p) \/ SeedFiles(p) \/ CheckPatch(p)
  \/ WritePatch(p) \/ GitApply(p) \/ RemovePatch(p) \/ GitAdd(p) \/ GitCommit(p)
  \/ Invalidate(p) \/ AuditApplied(p)

-----------------------------------------------------------------------------
\* A git command, a write or the audit's statement fails; the patch file is
\* removed all the same, and seeds that were written stay uncommitted.
ApplyFails(p) ==
  /\ apply[p] \in {"seed", "check", "guard", "apply", "add", "commit", "audit"}
  /\ modelFaults < MaxModelFaults /\ modelFaults' = modelFaults + 1
  /\ apply' = [apply EXCEPT ![p] = IF @ = "apply" THEN "refused" ELSE "failed"]
  /\ IF apply[p] = "seed" THEN repo' \in {"bare", "ready"} ELSE UNCHANGED repo
  /\ UNCHANGED <<week, upTo, approvals, accepted, tree, index, head, patchFile, reader>>

\* The process exits: the cache goes, the repository and its patch file stay.
ModelCrash ==
  /\ modelFaults < MaxModelFaults /\ modelFaults' = modelFaults + 1
  /\ apply' = [p \in Patches |-> IF apply[p] \in Ended THEN apply[p] ELSE "lost"]
  /\ snapshot' = NoTexts /\ load' = NoLoad
  /\ UNCHANGED <<week, upTo, approvals, accepted, git, settled, loads>>

-----------------------------------------------------------------------------
(* loadSelfModel: from the cache, or file by file.                         *)

BeginLoad ==
  /\ load.pc # "reading" /\ loads < MaxLoads /\ (Apart => Applying = {})
  /\ load' = IF snapshot.cached THEN [pc |-> "answered", texts |-> snapshot.texts, left |-> {}]
             ELSE [pc |-> "reading", texts |-> Empty, left |-> Files]
  /\ settled' = Returned /\ loads' = loads + 1
  /\ UNCHANGED <<week, upTo, approvals, accepted, git, apply, snapshot, modelFaults>>

\* The files come in one order, and the last of them fills the cache.
ReadFile(f) ==
  /\ load.pc = "reading" /\ f = CHOOSE g \in load.left : TRUE
  /\ LET texts == [load.texts EXCEPT ![f] = tree[f]] IN
       IF load.left = {f}
       THEN /\ load' = [pc |-> "answered", texts |-> texts, left |-> {}]
            /\ snapshot' = [cached |-> TRUE, texts |-> texts]
       ELSE /\ load' = [load EXCEPT !.texts = texts, !.left = @ \ {f}]
            /\ UNCHANGED snapshot
  /\ UNCHANGED <<week, upTo, approvals, accepted, git, apply, settled, loads, modelFaults>>

SelfModelNext ==
  \/ ProposePatch \/ NextWeek \/ ModelCrash \/ BeginLoad
  \/ \E p \in Patches : Accept(p) \/ ApplyStep(p) \/ ApplyFails(p)
  \/ \E f \in Files : ReadFile(f)

SelfModelSpec == SelfModelInit /\ [][SelfModelNext]_modelVars

-----------------------------------------------------------------------------
(* Properties.                                                             *)

\* "A new prefix from the next loop call onward" (self-model-git.ts): a patch
\* whose apply has returned is committed, and whoever loads the files after that
\* reads it; what is committed under the declared file was accepted for it.
AppliedIsRead ==
  /\ \A p \in Returned : p \in head[FileOf[p]]
  /\ load.pc = "answered" => \A p \in settled : p \in load.texts[FileOf[p]]
  /\ \A f \in Files : head[f] \subseteq {p \in accepted : FileOf[p] = f}

=============================================================================
