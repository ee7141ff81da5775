----------------------------- MODULE CaptureSend -----------------------------
(***************************************************************************)
(* The two-approval KakaoTalk send (apps/hub/src/capture-relay.ts) and the *)
(* capture host that types it (apps/local-agent/src/capture.ts, the        *)
(* adapter packages/adapters/kakaotalk).                                   *)
(*                                                                         *)
(* The first execution of an approved send is a dry run: its preview lands *)
(* on the row, and the executor proposes a second send that names it in    *)
(* confirm_of.  Executing that one types the message.  Anyone may propose  *)
(* a send, with a confirm_of of its own.                                   *)
(*                                                                         *)
(* A row here is the send's columns of pending_approvals; deciding, its    *)
(* races and its audit trail are Approvals.tla's, so that a decision is    *)
(* one step here.                                                          *)
(***************************************************************************)
EXTENDS Naturals, FiniteSets

CONSTANTS
  Asks,         \* sends that agents and people propose
  Confirms,     \* sends the executor proposes after a dry run
  Drafts,       \* Drafts[a]: the [thread, text, confirmOf] an ask may carry
  Edits,        \* Edits[a]: the texts a decision on a may put in decided_args
  Threads,
  Texts,
  Executors,    \* execute() calls in flight: one per hub process or caller
  None,
  KeepsDryRun,  \* whether the adapter obeys Outbound.meta.dry_run
  SendEnabled,  \* the adapter's sendEnabled()
  MaxFaults     \* bound on statement failures and hub crashes

Ids == Asks \cup Confirms

DraftType == [thread : Threads, text : Texts, confirmOf : Ids \cup {None}]

ASSUME ConstantsAssumption ==
  /\ Asks \cap Confirms = {}
  /\ None \notin Ids \cup Texts
  /\ Drafts \in [Asks -> SUBSET DraftType]
  /\ Edits \in [Ids -> SUBSET Texts]
  /\ KeepsDryRun \in BOOLEAN /\ SendEnabled \in BOOLEAN
  /\ MaxFaults \in Nat

VARIABLES
  row,          \* pending_approvals, the rows with action 'send'
  executor,     \* execute() calls in flight
  shown,        \* shown[a]: what the capture host previewed for a's dry run
  typed,        \* typed[a]: messages typed in the window on behalf of a
  faults

vars == <<row, executor, shown, typed, faults>>

States == {"absent", "pending", "decided", "executing", "executed", "failed"}
Content == [thread : Threads, text : Texts]

NoRow == [state |-> "absent", doIt |-> FALSE, thread |-> None, text |-> None, edited |-> None,
          confirmOf |-> None, preview |-> FALSE, confirmedBy |-> None]
Idle == [pc |-> "idle", id |-> None]

TypeOK ==
  /\ row \in [Ids -> [state : States, doIt : BOOLEAN, thread : Threads \cup {None},
                      text : Texts \cup {None}, edited : Texts \cup {None},
                      confirmOf : Ids \cup {None}, preview : BOOLEAN,
                      confirmedBy : Ids \cup {None}]]
  /\ executor \in [Executors -> {Idle} \cup
       [pc : {"gap", "refuse", "claim", "spend", "type", "preview", "store", "complete",
              "fail", "confirm"}, id : Ids]]
  /\ shown \in [Ids -> Content \cup {None}]
  /\ typed \in [Ids -> Nat]
  /\ faults \in Nat

Init ==
  /\ row = [a \in Ids |-> NoRow]
  /\ executor = [e \in Executors |-> Idle]
  /\ shown = [a \in Ids |-> None]
  /\ typed = [a \in Ids |-> 0]
  /\ faults = 0

(* { ...a.args, ...a.decided_args }.text *)
FinalText(a) == IF row[a].edited # None THEN row[a].edited ELSE row[a].text
Message(a) == [thread |-> row[a].thread, text |-> FinalText(a)]
IsDryRun(a) == row[a].confirmOf = None

Fault == faults < MaxFaults /\ faults' = faults + 1
Goto(e, pc) == executor' = [executor EXCEPT ![e].pc = pc]
Leave(e) == executor' = [executor EXCEPT ![e] = Idle]

-----------------------------------------------------------------------------
(* Proposing and deciding. *)

Propose(a, d) ==
  /\ row[a].state = "absent"
  /\ row' = [row EXCEPT ![a] = [NoRow EXCEPT
       !.state = "pending", !.thread = d.thread, !.text = d.text, !.confirmOf = d.confirmOf]]
  /\ UNCHANGED <<executor, shown, typed, faults>>

(* An accept or an edit may carry decided_args with a text of its own.     *)
Decide(a, doIt, edited) ==
  /\ row[a].state = "pending"
  /\ edited = None \/ (doIt /\ edited \in Edits[a])
  /\ row' = [row EXCEPT ![a].state = "decided", ![a].doIt = doIt, ![a].edited = edited]
  /\ UNCHANGED <<executor, shown, typed, faults>>

-----------------------------------------------------------------------------
(* execute(): the checks, each of which may refuse.  The settings and the  *)
(* kill switch may answer either way; both, an empty text and a missing    *)
(* relay end in claimAndFail.  execute() on a row that is claimed already  *)
(* leaves no trace, so it starts from a decided row.                       *)

Execute(e, a) ==
  /\ executor[e].pc = "idle"
  /\ row[a].state = "decided" /\ row[a].doIt
  /\ \E pc \in {"refuse", IF IsDryRun(a) THEN "claim" ELSE "gap"} :
       executor' = [executor EXCEPT ![e] = [pc |-> pc, id |-> a]]
  /\ UNCHANGED <<row, shown, typed, faults>>

(* confirmGap() finds none; and a confirmGap that does not compare texts.  *)
BackedByAnyText(a) ==
  LET d == row[a].confirmOf
  IN  row[d].state = "executed" /\ row[d].preview /\ IsDryRun(d) /\ row[d].thread = row[a].thread
Backed(a) ==
  LET d == row[a].confirmOf
  IN  /\ row[d].state = "executed"
      /\ row[d].preview
      /\ IsDryRun(d)
      /\ row[d].thread = row[a].thread
      /\ row[d].text = FinalText(a)

(* confirmGap, then the relay and the kill switch. *)
CheckGap(e) ==
  /\ executor[e].pc = "gap"
  /\ \/ Backed(executor[e].id) /\ Goto(e, "claim")
     \/ Goto(e, "refuse")
  /\ UNCHANGED <<row, shown, typed, faults>>

(* claimAndFail(): claim, then fail; between the two a fault leaves the    *)
(* row executing.  A lost race leaves it to its owner.                     *)
Refuse(e) ==
  LET a == executor[e].id
  IN  /\ executor[e].pc = "refuse"
      /\ \/ row[a].state # "decided" /\ UNCHANGED <<row, faults>>
         \/ row[a].state = "decided" /\ UNCHANGED faults
            /\ row' = [row EXCEPT ![a].state = "failed"]
         \/ row[a].state = "decided" /\ Fault
            /\ row' = [row EXCEPT ![a].state = "executing"]
      /\ Leave(e)
      /\ UNCHANGED <<shown, typed>>

-----------------------------------------------------------------------------
(* runEgress(): the claim, the act, the completion. *)

Claim(e) ==
  LET a == executor[e].id
  IN  /\ executor[e].pc = "claim"
      /\ \/ row[a].state # "decided" /\ Leave(e) /\ UNCHANGED row
         \/ /\ row[a].state = "decided"
            /\ row' = [row EXCEPT ![a].state = "executing"]
            /\ Goto(e, IF IsDryRun(a) THEN "preview" ELSE "spend")
      /\ UNCHANGED <<shown, typed, faults>>

(* The claim on the dry run, WHERE confirmed_by IS NULL. *)
UnspentAlways(d) == TRUE
Unspent(d) == row[d].confirmedBy = None

SpendDryRun(e) ==
  LET a == executor[e].id
      d == row[a].confirmOf
  IN  /\ executor[e].pc = "spend"
      /\ \/ /\ Unspent(d)
            /\ row' = [row EXCEPT ![d].confirmedBy = a]
            /\ Goto(e, "type")
         \/ ~Unspent(d) /\ Goto(e, "fail") /\ UNCHANGED row
      /\ UNCHANGED <<shown, typed, faults>>

(* handleCaptureSend on the capture host, dry_run false, once the token    *)
(* and the signature of the approval are found right.                      *)
HostTypes(a) == SendEnabled /\ typed' = [typed EXCEPT ![a] = @ + 1]

(* captureSend with dry_run false.  Typed and answered; or typed and the   *)
(* answer lost; or not typed, because the host refuses or holds back.      *)
Type(e) ==
  LET a == executor[e].id
  IN  /\ executor[e].pc = "type"
      /\ \/ HostTypes(a) /\ Goto(e, "complete")
         \/ HostTypes(a) /\ Goto(e, "fail")
         \/ UNCHANGED typed /\ Goto(e, "fail")
      /\ UNCHANGED <<row, shown, faults>>

(* What the adapter does with a dry run.  The KakaoTalk adapter tells its  *)
(* client dryRun: !sendEnabled() and does not look at meta.dry_run;        *)
(* handleCaptureSend then answers sent: false for any dry run.             *)
DryRunTypes == ~KeepsDryRun /\ SendEnabled

Preview(e) ==
  LET a == executor[e].id
  IN  /\ executor[e].pc = "preview"
      /\ \/ shown' = [shown EXCEPT ![a] = Message(a)] /\ Goto(e, "store")
         \/ UNCHANGED shown /\ Goto(e, "fail")
      /\ typed' = IF DryRunTypes THEN [typed EXCEPT ![a] = @ + 1] ELSE typed
      /\ UNCHANGED <<row, faults>>

(* The UPDATE of the dry run's args, after one that keeps the old text.    *)
StoredText(a) == FinalText(a)

StorePreview(e) ==
  LET a == executor[e].id
  IN  /\ executor[e].pc = "store"
      /\ row' = [row EXCEPT ![a].preview = TRUE, ![a].text = StoredText(a)]
      /\ Goto(e, "complete")
      /\ UNCHANGED <<shown, typed, faults>>

(* The completion that does not go on to the confirm. *)

Complete(e) ==
  LET a == executor[e].id
  IN  /\ executor[e].pc = "complete"
      /\ row' = [row EXCEPT ![a].state = "executed"]
      /\ IF IsDryRun(a) THEN Goto(e, "confirm") ELSE Leave(e)
      /\ UNCHANGED <<shown, typed, faults>>

(* The second approval: the dry run's message and its id.  And one whose   *)
(* state no CHECK of the table knows.                                      *)
ConfirmOf(a) ==
  [NoRow EXCEPT !.state = "pending", !.thread = row[a].thread, !.text = FinalText(a),
                !.confirmOf = a, !.preview = TRUE]

ProposeConfirm(e) ==
  /\ executor[e].pc = "confirm"
  /\ \E c \in Confirms :
       /\ row[c].state = "absent"
       /\ row' = [row EXCEPT ![c] = ConfirmOf(executor[e].id)]
  /\ Leave(e)
  /\ UNCHANGED <<shown, typed, faults>>

Fail(e) ==
  /\ executor[e].pc = "fail"
  /\ row' = [row EXCEPT ![executor[e].id].state = "failed"]
  /\ Leave(e)
  /\ UNCHANGED <<shown, typed, faults>>

-----------------------------------------------------------------------------
(* Faults.  A statement in runEgress's try fails, its effect done or not,  *)
(* and the catch is next; outside of it the call ends there.               *)

TryThrows(e) ==
  LET a == executor[e].id
      d == row[a].confirmOf
  IN  /\ executor[e].pc \in {"spend", "store"}
      /\ Fault
      /\ Goto(e, "fail")
      /\ \/ UNCHANGED row
         \/ /\ executor[e].pc = "spend" /\ Unspent(d)
            /\ row' = [row EXCEPT ![d].confirmedBy = a]
      /\ UNCHANGED <<shown, typed>>

(* completeExecution fails before its effect: the catch marks the row      *)
(* failed.  After it: failExecution finds no executing row and throws.     *)
CompleteThrows(e) ==
  LET a == executor[e].id
  IN  /\ executor[e].pc = "complete"
      /\ Fault
      /\ \E s \in {"executed", "failed"} : row' = [row EXCEPT ![a].state = s]
      /\ Leave(e)
      /\ UNCHANGED <<shown, typed>>

(* The hub dies, or a statement outside the try fails: the calls in flight *)
(* are gone and the rows stay.                                             *)
Crash ==
  /\ Fault
  /\ \E lost \in {Executors} \cup {{e} : e \in Executors} :
       executor' = [e \in Executors |-> IF e \in lost THEN Idle ELSE executor[e]]
  /\ UNCHANGED <<row, shown, typed>>

-----------------------------------------------------------------------------
Advance(e) ==
  \/ CheckGap(e)
  \/ Refuse(e)
  \/ Claim(e)
  \/ SpendDryRun(e)
  \/ Type(e)
  \/ Preview(e)
  \/ StorePreview(e)
  \/ Complete(e)
  \/ ProposeConfirm(e)
  \/ Fail(e)

Next ==
  \/ \E a \in Asks : \E d \in Drafts[a] : Propose(a, d)
  \/ \E a \in Ids, doIt \in BOOLEAN, edited \in Texts \cup {None} : Decide(a, doIt, edited)
  \/ \E e \in Executors, a \in Ids : Execute(e, a)
  \/ \E e \in Executors : Advance(e) \/ TryThrows(e) \/ CompleteThrows(e)
  \/ Crash

Spec == Init /\ [][Next]_vars

-----------------------------------------------------------------------------
(* Properties.                                                             *)

(* What reaches the window is what a dry run showed, on the same thread    *)
(* and word for word, and a person accepted both.                          *)
TypedWasShown ==
  \A a \in Ids : typed[a] > 0 =>
    LET d == row[a].confirmOf
    IN  /\ d # None
        /\ shown[d] = Message(a)
        /\ row[a].doIt /\ row[d].doIt

(* A dry run is a permit for one message: an executed dry run grants it,   *)
(* confirmed_by uses it up, and the message is typed at most once, however *)
(* many confirms name the dry run and however they fail.                   *)
DryRunPermit == [d \in Ids |->
  IF row[d].state = "absent" \/ ~IsDryRun(d) THEN "absent"
  ELSE CASE row[d].state = "executed" /\ row[d].confirmedBy = None -> "granted"
         [] row[d].state = "executed" /\ row[d].confirmedBy # None -> "used"
         [] row[d].state = "failed" -> "refused"
         [] row[d].state = "decided" /\ ~row[d].doIt -> "refused"
         [] OTHER -> "asked"]

(* Messages typed for a dry run, itself included; of one approval two are   *)
(* as good as many.                                                         *)
MessagesFor == [d \in Ids |->
  Cardinality({m \in Ids \X (1 .. 2) :
    LET a == m[1]
    IN  m[2] <= typed[a] /\ (row[a].confirmOf = d \/ (a = d /\ IsDryRun(a)))})]

Permit == INSTANCE OneShotPermit WITH permit <- DryRunPermit, effects <- MessagesFor

OneMessagePerDryRun == Permit!Spec

=============================================================================
