--------------------------- MODULE TerminalImport ---------------------------
(***************************************************************************)
(* The import of terminal sessions (apps/hub/src/terminal-import.ts): a    *)
(* job asks each host for the transcripts written since the newest item it *)
(* has imported from there, and stores their turns one by one.  The host   *)
(* (local-agent/src/import) answers with whole transcripts, those written  *)
(* last, those begun last first.                                           *)
(*                                                                         *)
(* One clock stands for the hosts' and the hub's: writing a turn, and      *)
(* storing one, move it.  A transcript is a file the scanners keep.        *)
(***************************************************************************)
EXTENDS Naturals, Sequences, FiniteSets, FiniteSetsExt, SequencesExt

CONSTANTS
  Transcripts,
  HostOf,          \* the host a transcript is on
  VendorOf,        \* whose scanner reads it
  KeyOf,           \* the session key: runtime, host, eight characters of the id
  Unregistered,    \* transcripts whose runtime the hub has not registered
  MaxSessions,
  Undisturbed,     \* nobody writes to a transcript while the job runs
  MaxWritten,      \* bound on the turns of each transcript
  MaxImportFaults  \* bound on hosts that do not answer and jobs that end midway

ASSUME ImportAssumption ==
  /\ HostOf \in [Transcripts -> {"mini", "macbook"}]
  /\ Unregistered \subseteq Transcripts
  /\ MaxWritten \in [Transcripts -> Nat]
  /\ MaxSessions \in Nat /\ MaxImportFaults \in Nat

VARIABLES
  clock,
  file,            \* transcripts: turns, when begun, when last written
  terms,           \* agent_sessions of the import, by key
  items,           \* items of the import: [of, turn, at]
  job,             \* the run of the job, with the page it has read
  importFaults

importVars == <<clock, file, terms, items, job, importFaults>>

Hosts == <<"mini", "macbook">>
NoImport == [pc |-> "idle", hosts |-> <<>>, page |-> <<>>, turn |-> 0]

ImportInit ==
  /\ clock = 1
  /\ file = [f \in Transcripts |-> [turns |-> 0, begun |-> 0, written |-> 0]]
  /\ terms = {} /\ items = {} /\ job = NoImport /\ importFaults = 0

ImportFault == importFaults < MaxImportFaults /\ importFaults' = importFaults + 1

\* A turn ends in the terminal.  Resuming the session adds to the same file.
WriteTurn(f) ==
  /\ file[f].turns < MaxWritten[f]
  /\ Undisturbed => job.pc = "idle"
  /\ file' = [file EXCEPT ![f] = [turns |-> @.turns + 1, written |-> clock,
                                  begun |-> IF @.turns = 0 THEN clock ELSE @.begun]]
  /\ clock' = clock + 1
  /\ UNCHANGED <<terms, items, job, importFaults>>

-----------------------------------------------------------------------------
(* The scan.                                                               *)

\* cursorFor: the newest item imported from the host, 0 before the first.
CursorFor(host) == Max({i.at : i \in {j \in items : HostOf[j.of] = host}} \cup {0})

Fresh(host, since) ==
  {f \in Transcripts : HostOf[f] = host /\ file[f].turns > 0 /\ file[f].written > since}

Written == [f \in Transcripts |-> file[f].written]
Begun == [f \in Transcripts |-> file[f].begun]

\* The MaxSessions of S whose time is the latest.
FirstOf(S, time) ==
  {f \in S : Cardinality({g \in S : time[g] > time[f]}) < MaxSessions}

\* A vendor's scanner caps by the file's time, the merge by the session's.
Kept(fresh) ==
  UNION {FirstOf({f \in fresh : VendorOf[f] = v}, Written) : v \in {VendorOf[f] : f \in fresh}}

ScanPage(host) ==
  LET kept == FirstOf(Kept(Fresh(host, CursorFor(host))), Begun)
      order == SetToSortSeq(kept, LAMBDA f, g : file[f].begun > file[g].begun)
  IN  [i \in DOMAIN order |-> [of |-> order[i], turns |-> file[order[i]].turns]]

-----------------------------------------------------------------------------
(* The job.                                                                *)

RunTerminalImport ==
  /\ job.pc = "idle"
  /\ job' = [NoImport EXCEPT !.pc = "host", !.hosts = Hosts]
  /\ UNCHANGED <<clock, file, terms, items, importFaults>>

NextHost == IF Tail(job.hosts) = <<>> THEN NoImport
            ELSE [NoImport EXCEPT !.pc = "host", !.hosts = Tail(job.hosts)]

\* The page is left: its next session, or the next host.
NextSession ==
  IF Tail(job.page) = <<>> THEN NextHost
  ELSE [job EXCEPT !.pc = "session", !.page = Tail(@), !.turn = 0]

ScanHost ==
  /\ job.pc = "host"
  /\ LET page == ScanPage(Head(job.hosts)) IN
       job' = IF page = <<>> THEN NextHost ELSE [job EXCEPT !.pc = "session", !.page = page]
  /\ UNCHANGED <<clock, file, terms, items, importFaults>>

\* Unreachable, or an answer nobody can read: the other hosts have their turn.
ScanFails ==
  /\ job.pc = "host" /\ ImportFault
  /\ job' = NextHost
  /\ UNCHANGED <<clock, file, terms, items>>

\* An unregistered runtime throws, and nothing catches it in the job.
EnsureSession ==
  /\ job.pc = "session"
  /\ LET f == Head(job.page).of IN
       IF f \in Unregistered THEN job' = NoImport /\ UNCHANGED terms
       ELSE /\ terms' = terms \cup {KeyOf[f]}
            /\ job' = [job EXCEPT !.pc = "turn", !.turn = 1]
  /\ UNCHANGED <<clock, file, items, importFaults>>

\* The item there keeps its time.
MergedAnew(f, n) ==
  {i \in items : i.of # f \/ i.turn # n} \cup {[of |-> f, turn |-> n, at |-> clock]}

Merged(f, n) ==
  IF \E i \in items : i.of = f /\ i.turn = n THEN items
  ELSE items \cup {[of |-> f, turn |-> n, at |-> clock]}

\* One transaction; the item's time is the transaction's.
WriteAgentItem ==
  /\ job.pc = "turn"
  /\ items' = Merged(Head(job.page).of, job.turn)
  /\ clock' = IF items' = items THEN clock ELSE clock + 1
  /\ job' = IF job.turn < Head(job.page).turns THEN [job EXCEPT !.turn = @ + 1] ELSE NextSession
  /\ UNCHANGED <<file, terms, importFaults>>

\* A statement throws, or the hub exits.
JobEnds ==
  /\ job.pc # "idle" /\ ImportFault
  /\ job' = NoImport
  /\ UNCHANGED <<clock, file, terms, items>>

ImportNext ==
  \/ \E f \in Transcripts : WriteTurn(f)
  \/ RunTerminalImport \/ ScanHost \/ ScanFails \/ EnsureSession \/ WriteAgentItem
  \/ JobEnds

ImportSpec == ImportInit /\ [][ImportNext]_importVars

-----------------------------------------------------------------------------
(* Properties.                                                             *)

ImportTypeOK ==
  /\ clock \in Nat /\ importFaults \in 0 .. MaxImportFaults
  /\ \A f \in Transcripts : file[f].turns \in 0 .. MaxWritten[f] /\ file[f].written < clock
  /\ terms \subseteq {KeyOf[f] : f \in Transcripts}
  /\ \A i \in items : i.of \in Transcripts /\ i.turn \in 1 .. MaxWritten[i.of] /\ i.at < clock

\* A thread, sorted by sent_at, reads as the terminal did: the turns of a
\* transcript come in their order, once each and none left out before another,
\* however often it grew, and wherever an earlier import of it ended.
ThreadReadsInOrder ==
  \A i \in items :
    /\ \A j \in items : j.of = i.of => (i.turn < j.turn <=> i.at < j.at)
    /\ \A n \in 1 .. i.turn - 1 : \E j \in items : j.of = i.of /\ j.turn = n

Imported(f) == \A n \in 1 .. file[f].turns : \E i \in items : i.of = f /\ i.turn = n

\* "sent_at is the clock the freshness filter reads": while the job rests, a
\* transcript that is not imported whole is one the next scan will find.
NothingIsPassedBy ==
  job.pc = "idle" =>
    \A f \in Transcripts : Imported(f) \/ file[f].written > CursorFor(HostOf[f])

=============================================================================
