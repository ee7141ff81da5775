---------------------------- MODULE MemoryIngest ----------------------------
(***************************************************************************)
(* Documents on their way into the memories table (packages/memory): a     *)
(* provider lists what changed after a cursor, runIngest takes one         *)
(* document after another and moves the cursor along, withRetry starts the *)
(* listing over from where the cursor stands, and the cursor is saved when *)
(* the listing ended.  Rows written while the embedder is down wait for    *)
(* reembedNulls.                                                           *)
(*                                                                         *)
(* Time is the number of changes so far; a listing is read at one instant. *)
(* Drive, the file system and Ollama are outside src.  A document is one   *)
(* chunk, what the extractor adds to it is left out, and Drive's first run *)
(* has taken its baseline.                                                 *)
(***************************************************************************)
EXTENDS Naturals, Sequences, FiniteSets, SequencesExt

CONSTANTS
  Refs,         \* documents
  ChangesMax,   \* changes on a page of Drive
  ScanMax,      \* files of one ingest.scan
  Backoffs,     \* entries of RETRY_BACKOFF_MS
  MaxChanges, MaxFaults   \* bounds

ASSUME IngestAssumption ==
  /\ IsFiniteSet(Refs)
  /\ {ChangesMax, ScanMax, Backoffs, MaxChanges, MaxFaults} \subseteq Nat

VARIABLES
  provider,     \* drive, or the files of a host
  log,          \* what changed: a document, and whether it is gone
  saved,        \* ingest_sources.cursor
  cursor,       \* of the tick, moved as documents come
  step,         \* of the tick
  todo,         \* documents of the listing still to come
  place, more,  \* Drive's generator: its page token, and whether there is a next page
  try,          \* attempts of withRetry that failed
  fails,        \* ingest_sources.fail_count
  live,         \* memories not invalidated: a document and its version
  blank,        \* those without an embedding
  retried,      \* history: an attempt was made again after the cursor had moved
  faults

world == <<provider, log>>
listing == <<todo, place, more>>
memory == <<live, blank>>
gvars == <<world, saved, cursor, step, listing, try, fails, memory, retried, faults>>

Time == 0 .. MaxChanges
Doc == [ref : Refs, gone : BOOLEAN, next : Time]

MemoryTypeOK ==
  /\ provider \in {"drive", "file"}
  /\ log \in Seq([ref : Refs, gone : BOOLEAN])
  /\ saved \in Time /\ cursor \in Time /\ place \in Time /\ more \in BOOLEAN
  /\ step \in {"idle", "list", "docs", "embed"}
  /\ todo \in Seq(Doc) /\ try \in 0 .. Backoffs /\ fails \in 0 .. MaxFaults
  /\ live \subseteq Refs \X Time /\ blank \subseteq live
  /\ retried \in BOOLEAN /\ faults \in 0 .. MaxFaults

MemoryInit ==
  /\ provider \in {"drive", "file"} /\ log = <<>>
  /\ saved = 0 /\ cursor = 0 /\ step = "idle" /\ todo = <<>> /\ place = 0 /\ more = FALSE
  /\ try = 0 /\ fails = 0 /\ live = {} /\ blank = {} /\ retried = FALSE /\ faults = 0

Fault == faults < MaxFaults /\ faults' = faults + 1

-----------------------------------------------------------------------------
(* Where the documents are.                                                *)

\* The last change of a document, 0 when there is none.
Version(r) == Max({0} \cup {i \in DOMAIN log : log[i].ref = r})
IsGone(r) == Version(r) = 0 \/ log[Version(r)].gone

Change(r, gone) ==
  /\ Len(log) < MaxChanges /\ (gone => ~IsGone(r))
  /\ log' = Append(log, [ref |-> r, gone |-> gone])
  /\ UNCHANGED <<provider, saved, cursor, step, listing, try, fails, memory, retried, faults>>

-----------------------------------------------------------------------------
(* The providers.                                                          *)

\* changes.list: the changes after the token, each with the token of the next page.
PageEnd == Min({Len(log), place + ChangesMax})
DrivePage ==
  [i \in 1 .. PageEnd - place |->
     LET r == log[place + i].ref IN [ref |-> r, gone |-> IsGone(r), next |-> PageEnd]]

\* scanRoots, ingest.scan: the files touched after the cursor with their times,
\* in the order of the directories.
Newer == {r \in Refs : Version(r) > cursor /\ ~IsGone(r)}
Scans ==
  {[i \in DOMAIN s |-> [ref |-> s[i], gone |-> FALSE, next |-> Version(s[i])]] :
     s \in {q \in [1 .. Min({ScanMax, Cardinality(Newer)}) -> Newer] : IsInjective(q)}}

-----------------------------------------------------------------------------
(* runIngest.                                                              *)

BeginRun ==
  /\ step = "idle"
  /\ step' = "list"
  /\ UNCHANGED <<world, saved, cursor, listing, try, fails, memory, retried, faults>>

\* A page of Drive, or a scan; a host that is offline has no files.
List ==
  /\ step = "list" /\ step' = "docs"
  /\ \/ /\ provider = "drive"
        /\ todo' = DrivePage /\ place' = PageEnd /\ more' = (PageEnd < Len(log))
        /\ UNCHANGED faults
     \/ /\ provider = "file" /\ UNCHANGED <<place, more>>
        /\ \/ todo' \in Scans /\ UNCHANGED faults
           \/ todo' = <<>> /\ Fault
  /\ UNCHANGED <<world, saved, cursor, try, fails, memory, retried>>

NextPage ==
  /\ step = "docs" /\ todo = <<>> /\ more
  /\ step' = "list"
  /\ UNCHANGED <<world, saved, cursor, listing, try, fails, memory, retried, faults>>

\* upsertMemory: the same text of the same document is one row; the embedder
\* may be down.
Upsert(r) ==
  LET row == <<r, Version(r)>> IN
  /\ live' = live \cup {row}
  /\ \/ UNCHANGED <<blank, faults>>
     \/ row \notin live /\ blank' = blank \cup {row} /\ Fault

InvalidateBySource(r) ==
  /\ live' = {m \in live : m[1] # r} /\ blank' = {m \in blank : m[1] # r}
  /\ UNCHANGED faults

\* One document: the cursor, then its memories.  One that vanished since it was
\* listed is passed over, cursor and all.
Moved == Max({cursor, Head(todo).next})
Ingest ==
  /\ step = "docs" /\ todo # <<>> /\ todo' = Tail(todo)
  /\ LET doc == Head(todo) IN
     \/ doc.gone /\ cursor' = Moved /\ InvalidateBySource(doc.ref)
     \/ ~doc.gone /\ ~IsGone(doc.ref) /\ cursor' = Moved /\ Upsert(doc.ref)
     \/ ~doc.gone /\ IsGone(doc.ref) /\ UNCHANGED <<cursor, memory, faults>>
  /\ UNCHANGED <<world, saved, step, place, more, try, fails, retried>>

\* saveCursor and recordSuccess.
Save ==
  /\ step = "docs" /\ todo = <<>> /\ ~more
  /\ step' = "embed"
  /\ \/ saved' = cursor /\ fails' = 0 /\ UNCHANGED faults
     \/ Fault /\ fails' = fails + 1 /\ UNCHANGED saved
  /\ UNCHANGED <<world, cursor, listing, try, memory, retried>>

\* withRetry calls list() again with the cursor as it stands.
Again ==
  /\ try < Backoffs /\ try' = try + 1
  /\ step' = "list" /\ place' = cursor'
  /\ retried' = (retried \/ cursor' # saved)
  /\ UNCHANGED <<saved, fails>>

\* The mutant: the cursor is saved all the same.
GiveUpSaving ==
  /\ try = Backoffs /\ fails' = fails + 1 /\ step' = "embed" /\ saved' = cursor'
  /\ UNCHANGED <<place, try, retried>>

\* After the last attempt the failure is counted and the cursor is not saved.
GiveUp ==
  /\ try = Backoffs /\ fails' = fails + 1 /\ step' = "embed"
  /\ UNCHANGED <<saved, place, try, retried>>

\* A request to Drive fails, or a statement about a document does; the cursor
\* has moved past that document.
AttemptFails ==
  /\ Fault /\ todo' = <<>> /\ more' = FALSE
  /\ \/ step = "list" /\ provider = "drive" /\ cursor' = cursor
     \/ step = "docs" /\ todo # <<>> /\ cursor' = Moved
  /\ Again \/ GiveUp
  /\ UNCHANGED <<world, memory>>

\* What runIngest keeps in memory is gone with the tick.
Forget == cursor' = saved /\ place' = saved /\ try' = 0

\* The mutant: it looks only at the rows of documents the cursor is not past.
ReembedNewOnly ==
  /\ step = "embed" /\ step' = "idle"
  /\ blank' = {m \in blank : m[2] <= saved}
  /\ Forget /\ UNCHANGED <<world, saved, todo, more, fails, live, retried, faults>>

\* reembedNulls at the end of the tick; the embedder may still be down.
Reembed ==
  /\ step = "embed" /\ step' = "idle"
  /\ \/ blank' = {} /\ UNCHANGED faults
     \/ blank # {} /\ UNCHANGED blank /\ Fault
  /\ Forget /\ UNCHANGED <<world, saved, todo, more, fails, live, retried>>

TickDies ==
  /\ step # "idle" /\ Fault
  /\ step' = "idle" /\ todo' = <<>> /\ more' = FALSE /\ Forget
  /\ UNCHANGED <<world, saved, fails, memory, retried>>

MemoryNext ==
  \/ \E r \in Refs, gone \in BOOLEAN : Change(r, gone)
  \/ BeginRun \/ List \/ NextPage \/ Ingest \/ Save \/ AttemptFails \/ Reembed \/ TickDies

\* The scheduler's ticks go on.
MemoryProgress == BeginRun \/ List \/ NextPage \/ Ingest \/ Save \/ Reembed

MemorySpec == MemoryInit /\ [][MemoryNext]_gvars /\ WF_gvars(MemoryProgress)

-----------------------------------------------------------------------------
(* Properties.                                                             *)

\* What the memories hold of a document is its present state.  Files that are
\* deleted are never reported.
Reflected(r) ==
  IF IsGone(r) THEN provider = "drive" => \A m \in live : m[1] # r
  ELSE <<r, Version(r)>> \in live

\* "The last value seen is persisted": every change the saved cursor has passed
\* is in the memories (run.ts:35).
NothingIsPassedOver == \A r \in Refs : Version(r) <= saved => Reflected(r)

\* So it is through ticks that fail for good and hubs that restart in the
\* middle, as long as no attempt failed half way and was made again.
SavedIsReflected == ~retried => NothingIsPassedOver

\* When the documents rest, all of them are in the memories and every memory
\* has its embedding, unless an attempt was made again half way.
SettlesSearchable == <>[](blank = {} /\ (retried \/ \A r \in Refs : Reflected(r)))

=============================================================================
