------------------------------ MODULE ChannelProofs ------------------------------
(***************************************************************************)
(* Theorems about the channels: what is typed into KakaoTalk, for any      *)
(* number of sends, of execute() calls in flight, of edits and of faults,  *)
(* and what Gmail's subscription is told to forget.                        *)
(*                                                                         *)
(* TypedWasShown says nothing of the calls between the gate and the        *)
(* window, so that it is not inductive: a call past confirmGap must still  *)
(* be backed when it types.  What carries it is that nothing decided is    *)
(* ever rewritten, which the moves of the rows (RowMoves) show once for    *)
(* all, and that a row is held by one call (CallInv).  The theorems about  *)
(* what is typed are of an adapter that types nothing for a dry run: the   *)
(* KakaoTalk adapter does so by its default, sendEnabled() being false.    *)
(*                                                                         *)
(* AckedIsStored says nothing of the note the generator holds: until it is *)
(* acknowledged its mail is in, on the page still to come, or off the list *)
(* (NoteIsCarried).                                                        *)
(***************************************************************************)
EXTENDS CaptureSend, MailFeeds, FiniteSetTheorems, TLAPS

-----------------------------------------------------------------------------
(* The send.                                                               *)

Claimed == {"executing", "executed", "failed"}
Holding == {"spend", "type", "preview", "store", "complete", "fail"}

(* A row that is there says what to send, and where. *)
ContentInv ==
  \A a \in Ids : row[a].state # "absent" => row[a].thread \in Threads /\ row[a].text \in Texts

(* A row in flight holds what a person accepted; a stored preview is what  *)
(* the capture host showed, and the row still says it.                     *)
AcceptedInv ==
  \A a \in Ids :
    /\ row[a].state \in Claimed => row[a].doIt
    /\ IsDryRun(a) /\ row[a].preview =>
         /\ row[a].state \in Claimed
         /\ row[a].text = FinalText(a)
         /\ shown[a] = Message(a)

(* Where a call of execute() stands says how far its row is. *)
CallOK(e) ==
  LET a == executor[e].id IN
    /\ executor[e].pc # "idle" => row[a].doIt /\ row[a].state \in Claimed \cup {"decided"}
    /\ executor[e].pc \in {"gap", "spend", "type"} => ~IsDryRun(a)
    /\ executor[e].pc \in {"preview", "store", "confirm"} => IsDryRun(a)
    /\ executor[e].pc \in {"claim", "spend", "type"} /\ ~IsDryRun(a) => Backed(a)
    /\ executor[e].pc = "preview" => ~row[a].preview
    /\ executor[e].pc = "store" => shown[a] = Message(a)
    /\ executor[e].pc = "confirm" => row[a].state = "executed"
    /\ executor[e].pc \in Holding => row[a].state = "executing"

(* And a call past the claim is the only one of its row. *)
CallInv ==
  /\ \A e \in Executors : CallOK(e)
  /\ \A e, f \in Executors :
       e # f /\ executor[e].pc \in Holding /\ executor[f].pc \in Holding
         => executor[e].id # executor[f].id

(* What was typed is backed by the dry run it names. *)
TypedInv ==
  \A a \in Ids : typed[a] > 0 =>
    ~IsDryRun(a) /\ row[a].state \in Claimed /\ Backed(a)

SendInv == TypeOK /\ ContentInv /\ AcceptedInv /\ CallInv

(* A call about to spend has not, and one about to type has not typed. *)
Unspoken(e) ==
  LET a == executor[e].id
  IN  /\ executor[e].pc = "spend" => typed[a] = 0 /\ \A d \in Ids : row[d].confirmedBy # a
      /\ executor[e].pc = "type" => typed[a] = 0 /\ row[row[a].confirmOf].confirmedBy = a

(* confirmed_by names the one send that may be typed on the dry run, and   *)
(* that send is typed once.                                                *)
SpentInv ==
  /\ \A a \in Ids : typed[a] # 0 => typed[a] = 1 /\ row[row[a].confirmOf].confirmedBy = a
  /\ \A d \in Ids : row[d].confirmedBy # None =>
       /\ row[d].state = "executed" /\ IsDryRun(d)
       /\ row[row[d].confirmedBy].state \in Claimed
  /\ \A e \in Executors : Unspoken(e)

PermitInv == SendInv /\ TypedInv /\ SpentInv

RowType == [state : States, doIt : BOOLEAN, thread : Threads \cup {None},
            text : Texts \cup {None}, edited : Texts \cup {None},
            confirmOf : Ids \cup {None}, preview : BOOLEAN,
            confirmedBy : Ids \cup {None}]
Stages == {"gap", "refuse", "claim", "spend", "type", "preview", "store", "complete",
           "fail", "confirm"}
CallType == {Idle} \cup [pc : Stages, id : Ids]

USE DEF States, Content, NoRow, Idle, DraftType, RowType, Stages, CallType, Claimed, Holding
USE ConstantsAssumption DEF ConstantsAssumption, Ids

-----------------------------------------------------------------------------
(* The first state satisfies the invariant. *)
LEMMA InitSendInv == Init => SendInv
  BY DEF Init, SendInv, TypeOK, ContentInv, AcceptedInv, CallInv, CallOK, TypedInv, IsDryRun

(* The row of a confirm. *)
LEMMA ConfirmRow ==
  ASSUME NEW a \in Ids, FinalText(a) \in Texts, row[a].thread \in Threads
  PROVE  /\ ConfirmOf(a) \in RowType
         /\ ConfirmOf(a).state = "pending" /\ ConfirmOf(a).confirmOf = a
         /\ ConfirmOf(a).thread = row[a].thread /\ ConfirmOf(a).text = FinalText(a)
         /\ ConfirmOf(a).confirmedBy = None
  BY DEF ConfirmOf

(* A call leaves execute(). *)
LEMMA LeaveType ==
  ASSUME TypeOK, NEW e \in Executors, Leave(e) PROVE executor' \in [Executors -> CallType]
  BY DEF TypeOK, Leave

(* A call goes on to another statement. *)
LEMMA GotoType ==
  ASSUME TypeOK, NEW e \in Executors, executor[e].pc # "idle", NEW pc \in Stages, Goto(e, pc)
  PROVE  executor' \in [Executors -> CallType]
  BY DEF TypeOK, Goto

(* A row that is there moves to another state. *)
LEMMA StateType ==
  ASSUME TypeOK, ContentInv, NEW a \in Ids, row[a].state # "absent", NEW s \in States,
         row' = [row EXCEPT ![a].state = s]
  PROVE  row' \in [Ids -> RowType] /\ ContentInv'
  BY DEF TypeOK, ContentInv

(* Each step keeps the types, and every row says what to send. *)
LEMMA NextTypeOK == TypeOK /\ ContentInv /\ CallInv /\ [Next]_vars => TypeOK' /\ ContentInv'
<1> SUFFICES ASSUME TypeOK, ContentInv, CallInv, [Next]_vars PROVE TypeOK' /\ ContentInv'
  OBVIOUS
<1>1. ASSUME NEW a \in Asks, NEW d \in Drafts[a], Propose(a, d) PROVE TypeOK' /\ ContentInv'
  <2> DEFINE r == [NoRow EXCEPT !.state = "pending", !.thread = d.thread, !.text = d.text,
                            !.confirmOf = d.confirmOf]
  <2>1. d \in DraftType
    BY <1>1
  <2>2. r \in RowType /\ r.thread \in Threads /\ r.text \in Texts
    BY <2>1
  <2>3. row' = [row EXCEPT ![a] = r] /\ UNCHANGED <<executor, shown, typed, faults>>
    BY <1>1 DEF Propose
  <2> HIDE DEF r
  <2> QED
    BY <2>2, <2>3 DEF TypeOK, ContentInv
<1>2. ASSUME NEW a \in Ids, NEW doIt \in BOOLEAN, NEW edited \in Texts \cup {None},
             Decide(a, doIt, edited)
      PROVE  TypeOK' /\ ContentInv'
  <2> DEFINE r == [row[a] EXCEPT !.state = "decided", !.doIt = doIt, !.edited = edited]
  <2>1. row[a] \in RowType /\ row[a].state # "absent"
    BY <1>2 DEF Decide, TypeOK
  <2>2. edited \in Texts \cup {None}
    BY <1>2
  <2>3. r \in RowType /\ r.state = "decided" /\ r.thread = row[a].thread /\ r.text = row[a].text
    BY ZenonT(60), <2>1, <2>2
  <2>4. row' = [row EXCEPT ![a] = r] /\ UNCHANGED <<executor, shown, typed, faults>>
    BY <1>2 DEF Decide
  <2> HIDE DEF r
  <2> QED
    BY <2>1, <2>3, <2>4 DEF TypeOK, ContentInv
<1>3. ASSUME NEW e \in Executors, NEW a \in Ids, Execute(e, a) PROVE TypeOK' /\ ContentInv'
  BY <1>3 DEF Execute, TypeOK, ContentInv
<1>4. ASSUME NEW e \in Executors, CheckGap(e) PROVE TypeOK' /\ ContentInv'
  BY SMTT(60), <1>4 DEF CheckGap, Goto, TypeOK, ContentInv
<1>5. ASSUME NEW e \in Executors, Refuse(e) PROVE TypeOK' /\ ContentInv'
  <2>1. executor[e].id \in Ids
    BY <1>5 DEF Refuse, TypeOK
  <2>2. /\ executor' = [executor EXCEPT ![e] = Idle] /\ faults' \in Nat
        /\ \/ row' = row
           \/ \E s \in {"failed", "executing"} :
                row[executor[e].id].state = "decided" /\ row' = [row EXCEPT ![executor[e].id].state = s]
        /\ UNCHANGED <<shown, typed>>
    BY <1>5 DEF Refuse, Leave, Fault, TypeOK
  <2> QED
    BY SMTT(60), <2>1, <2>2 DEF TypeOK, ContentInv
<1>6. ASSUME NEW e \in Executors, Claim(e) PROVE TypeOK' /\ ContentInv'
  BY SMTT(60), <1>6 DEF Claim, Goto, Leave, TypeOK, ContentInv
<1>7. ASSUME NEW e \in Executors, SpendDryRun(e) PROVE TypeOK' /\ ContentInv'
  <2>1. executor[e].id \in Ids
    BY <1>7 DEF SpendDryRun, TypeOK
  <2>2. \/ row' = row
        \/ row' = [row EXCEPT ![row[executor[e].id].confirmOf].confirmedBy = executor[e].id]
    BY <1>7 DEF SpendDryRun
  <2>3. \E pc \in {"type", "fail"} : executor' = [executor EXCEPT ![e].pc = pc]
    BY <1>7 DEF SpendDryRun, Goto
  <2> QED
    BY SMTT(60), <1>7, <2>1, <2>2, <2>3 DEF SpendDryRun, TypeOK, ContentInv
<1>8. ASSUME NEW e \in Executors, Type(e) PROVE TypeOK' /\ ContentInv'
  BY <1>8 DEF Type, HostTypes, Goto, TypeOK, ContentInv
<1>9. ASSUME NEW e \in Executors, Preview(e) PROVE TypeOK' /\ ContentInv'
  <2>1. executor[e].id \in Ids /\ row[executor[e].id].state # "absent"
    BY <1>9 DEF Preview, TypeOK, CallInv, CallOK
  <2>2. Message(executor[e].id) \in Content
    BY SMTT(60), <2>1 DEF TypeOK, ContentInv, Message, FinalText
  <2> QED
    BY SMTT(60), <1>9, <2>1, <2>2 DEF Preview, Goto, TypeOK, ContentInv
<1>10. ASSUME NEW e \in Executors, StorePreview(e) PROVE TypeOK' /\ ContentInv'
  <2>1. executor[e].id \in Ids /\ row[executor[e].id].state # "absent"
    BY <1>10 DEF StorePreview, TypeOK, CallInv, CallOK
  <2>2. FinalText(executor[e].id) \in Texts
    BY <2>1 DEF TypeOK, ContentInv, FinalText
  <2> QED
    <3> DEFINE a == executor[e].id
               r == [row[a] EXCEPT !.preview = TRUE, !.text = FinalText(a)]
    <3>1. row[a] \in RowType
      BY <2>1 DEF TypeOK
    <3>2. r \in RowType /\ r.state = row[a].state /\ r.text \in Texts /\ r.thread = row[a].thread
      BY <3>1, <2>2
    <3>4. row' = [row EXCEPT ![a] = r]
      BY <1>10 DEF StorePreview, StoredText
    <3>5. row' \in [Ids -> RowType] /\ ContentInv'
      <4> HIDE DEF r
      <4> QED
        BY <2>1, <3>2, <3>4 DEF TypeOK, ContentInv
    <3>3. executor' \in [Executors -> CallType]
      BY <1>10, GotoType DEF StorePreview
    <3> QED
      BY <1>10, <3>5, <3>3 DEF StorePreview, TypeOK
<1>11. ASSUME NEW e \in Executors, Complete(e) PROVE TypeOK' /\ ContentInv'
  <2>1. executor[e].id \in Ids /\ row[executor[e].id].state # "absent"
    BY SMTT(60), <1>11 DEF Complete, TypeOK, CallInv, CallOK
  <2>2. row' \in [Ids -> RowType] /\ ContentInv'
    BY <1>11, <2>1, StateType DEF Complete
  <2>3. executor' \in [Executors -> CallType]
    BY <1>11, LeaveType, GotoType DEF Complete
  <2> QED
    BY <1>11, <2>2, <2>3 DEF Complete, TypeOK
<1>12. ASSUME NEW e \in Executors, ProposeConfirm(e) PROVE TypeOK' /\ ContentInv'
  <2>1. executor[e].id \in Ids /\ row[executor[e].id].state # "absent"
    BY <1>12 DEF ProposeConfirm, TypeOK, CallInv, CallOK
  <2>2. FinalText(executor[e].id) \in Texts
    BY <2>1 DEF TypeOK, ContentInv, FinalText
  <2>3. PICK c \in Confirms : row' = [row EXCEPT ![c] = ConfirmOf(executor[e].id)]
    BY <1>12 DEF ProposeConfirm
  <2>4. ConfirmOf(executor[e].id) \in RowType
    BY <2>1, <2>2, ConfirmRow DEF TypeOK, ContentInv
  <2>5. /\ ConfirmOf(executor[e].id).thread \in Threads
        /\ ConfirmOf(executor[e].id).text \in Texts
    BY <2>1, <2>2, ConfirmRow DEF ContentInv
  <2> QED
    BY <1>12, <2>1, <2>3, <2>4, <2>5 DEF ProposeConfirm, Leave, TypeOK, ContentInv
<1>13. ASSUME NEW e \in Executors, Fail(e) PROVE TypeOK' /\ ContentInv'
  <2>1. executor[e].id \in Ids /\ row[executor[e].id].state # "absent"
    BY <1>13 DEF Fail, TypeOK, CallInv, CallOK
  <2> QED
    BY <1>13, <2>1, LeaveType, StateType DEF Fail, TypeOK
<1>14. ASSUME NEW e \in Executors, TryThrows(e) PROVE TypeOK' /\ ContentInv'
  <2>1. executor[e].id \in Ids /\ faults' \in Nat
    BY <1>14 DEF TryThrows, TypeOK, Fault
  <2>2. \/ row' = row
        \/ row' = [row EXCEPT ![row[executor[e].id].confirmOf].confirmedBy = executor[e].id]
    BY <1>14 DEF TryThrows
  <2> QED
    BY SMTT(60), <1>14, <2>1, <2>2 DEF TryThrows, Goto, TypeOK, ContentInv
<1>15. ASSUME NEW e \in Executors, CompleteThrows(e) PROVE TypeOK' /\ ContentInv'
  <2>1. executor[e].id \in Ids /\ row[executor[e].id].state # "absent"
    BY <1>15 DEF CompleteThrows, TypeOK, CallInv, CallOK
  <2>2. PICK s \in {"executed", "failed"} : row' = [row EXCEPT ![executor[e].id].state = s]
    BY <1>15 DEF CompleteThrows
  <2> QED
    <3>1. row' \in [Ids -> RowType] /\ ContentInv'
      BY <2>1, <2>2, StateType
    <3>2. executor' \in [Executors -> CallType] /\ faults' \in Nat
      BY <1>15, LeaveType DEF CompleteThrows, Fault, TypeOK
    <3> QED
      BY <1>15, <3>1, <3>2 DEF CompleteThrows, TypeOK
<1>16. CASE Crash
  BY <1>16 DEF Crash, Fault, TypeOK, ContentInv
<1>17. CASE UNCHANGED vars
  BY <1>17 DEF vars, TypeOK, ContentInv
<1> QED
  BY <1>1, <1>2, <1>3, <1>4, <1>5, <1>6, <1>7, <1>8, <1>9, <1>10, <1>11, <1>12, <1>13,
     <1>14, <1>15, <1>16, <1>17 DEF Next, Advance
-----------------------------------------------------------------------------
(* What a step may do to the rows. *)

Proposed(b) ==
  /\ row[b].state = "absent"
  /\ \E r \in RowType :
       /\ r.state = "pending" /\ r.confirmedBy = None /\ (r.confirmOf = None => ~r.preview)
       /\ row' = [row EXCEPT ![b] = r]

Decided(b) ==
  /\ row[b].state = "pending"
  /\ \E doIt \in BOOLEAN, edited \in Texts \cup {None} :
       row' = [row EXCEPT ![b].state = "decided", ![b].doIt = doIt, ![b].edited = edited]

Moved(b) ==
  /\ row[b].state \in {"decided", "executing"} /\ row[b].doIt
  /\ \E s \in Claimed : row' = [row EXCEPT ![b].state = s]

Spent(b, d) ==
  /\ row[d].state = "executed" /\ IsDryRun(d) /\ row[d].confirmedBy = None
  /\ row[b].state = "executing" /\ row[b].confirmOf = d
  /\ \E e \in Executors : executor[e].pc = "spend" /\ executor[e].id = b /\ executor'[e].pc # "spend"
  /\ row' = [row EXCEPT ![d].confirmedBy = b]

Stored(b) ==
  /\ row[b].state = "executing" /\ shown[b] = Message(b)
  /\ row' = [row EXCEPT ![b].preview = TRUE, ![b].text = FinalText(b)]

RowMoves ==
  \/ UNCHANGED row
  \/ \E b \in Ids : Proposed(b) \/ Decided(b) \/ Moved(b) \/ Stored(b)
  \/ \E b, d \in Ids : Spent(b, d)

(* Every step does one of these to the rows, or nothing. *)
LEMMA NextRowMoves == TypeOK /\ ContentInv /\ CallInv /\ [Next]_vars => RowMoves
<1> SUFFICES ASSUME TypeOK, ContentInv, CallInv, [Next]_vars PROVE RowMoves
  OBVIOUS
<1> USE DEF CallInv, CallOK
<1>1. ASSUME NEW a \in Asks, NEW d \in Drafts[a], Propose(a, d) PROVE RowMoves
  <2> DEFINE r == [NoRow EXCEPT !.state = "pending", !.thread = d.thread, !.text = d.text,
                            !.confirmOf = d.confirmOf]
  <2>1. d \in DraftType
    BY <1>1
  <2>2. r \in RowType /\ r.state = "pending" /\ r.confirmedBy = None /\ ~r.preview
    BY <2>1
  <2>3. row[a].state = "absent" /\ row' = [row EXCEPT ![a] = r]
    BY <1>1 DEF Propose
  <2> HIDE DEF r
  <2> QED
    BY <2>2, <2>3 DEF RowMoves, Proposed
<1>2. ASSUME NEW a \in Ids, NEW doIt \in BOOLEAN, NEW edited \in Texts \cup {None},
             Decide(a, doIt, edited)
      PROVE  RowMoves
  BY <1>2 DEF Decide, RowMoves, Decided
<1>3. ASSUME NEW e \in Executors, NEW a \in Ids, Execute(e, a) PROVE RowMoves
  BY <1>3 DEF Execute, RowMoves
<1>4. ASSUME NEW e \in Executors, CheckGap(e) PROVE RowMoves
  BY <1>4 DEF CheckGap, RowMoves
<1>5. ASSUME NEW e \in Executors, Refuse(e) PROVE RowMoves
  <2>1. executor[e].id \in Ids
    BY <1>5 DEF Refuse, TypeOK
  <2> QED
    BY <1>5, <2>1 DEF Refuse, TypeOK, RowMoves, Moved
<1>6. ASSUME NEW e \in Executors, Claim(e) PROVE RowMoves
  <2>1. executor[e].id \in Ids
    BY <1>6 DEF Claim, TypeOK
  <2> QED
    BY <1>6, <2>1 DEF Claim, TypeOK, RowMoves, Moved
<1>7. ASSUME NEW e \in Executors, SpendDryRun(e) PROVE RowMoves
  <2>1. executor[e].id \in Ids /\ row[executor[e].id].confirmOf \in Ids
    BY SMTT(60), <1>7 DEF SpendDryRun, TypeOK, IsDryRun
  <2> DEFINE a == executor[e].id
             d == row[a].confirmOf
  <2>2. row[d].state = "executed" /\ IsDryRun(d) /\ row[a].state = "executing"
    BY ZenonT(60), <1>7 DEF SpendDryRun, Backed
  <2>3. executor'[e].pc # "spend"
    BY SMTT(60), <1>7 DEF SpendDryRun, Goto, TypeOK
  <2>4. UNCHANGED row \/ Spent(a, d)
    BY ZenonT(60), <1>7, <2>1, <2>2, <2>3 DEF SpendDryRun, Unspent, Spent
  <2> QED
    BY <2>1, <2>4 DEF RowMoves
<1>8. ASSUME NEW e \in Executors, Type(e) PROVE RowMoves
  BY <1>8 DEF Type, RowMoves
<1>9. ASSUME NEW e \in Executors, Preview(e) PROVE RowMoves
  BY <1>9 DEF Preview, RowMoves
<1>10. ASSUME NEW e \in Executors, StorePreview(e) PROVE RowMoves
  <2>1. executor[e].id \in Ids
    BY <1>10 DEF StorePreview, TypeOK
  <2> QED
    BY <1>10, <2>1 DEF StorePreview, StoredText, RowMoves, Stored
<1>11. ASSUME NEW e \in Executors, Complete(e) PROVE RowMoves
  <2>1. executor[e].id \in Ids
    BY <1>11 DEF Complete, TypeOK
  <2> QED
    BY <1>11, <2>1 DEF Complete, TypeOK, RowMoves, Moved
<1>12. ASSUME NEW e \in Executors, ProposeConfirm(e) PROVE RowMoves
  <2>1. executor[e].id \in Ids /\ row[executor[e].id].state # "absent"
    BY <1>12 DEF ProposeConfirm, TypeOK
  <2>2. FinalText(executor[e].id) \in Texts
    BY <2>1 DEF TypeOK, ContentInv, FinalText
  <2> DEFINE r == ConfirmOf(executor[e].id)
  <2>3. PICK c \in Confirms :
          row[c].state = "absent" /\ row' = [row EXCEPT ![c] = r]
    BY <1>12 DEF ProposeConfirm
  <2>4. r \in RowType /\ r.state = "pending" /\ r.confirmedBy = None /\ r.confirmOf # None
    BY <2>1, <2>2, ConfirmRow DEF TypeOK, ContentInv
  <2> HIDE DEF r
  <2>5. Proposed(c)
    BY <2>3, <2>4 DEF Proposed
  <2> QED
    BY <2>5 DEF RowMoves
<1>13. ASSUME NEW e \in Executors, Fail(e) PROVE RowMoves
  <2>1. executor[e].id \in Ids
    BY <1>13 DEF Fail, TypeOK
  <2> QED
    BY <1>13, <2>1 DEF Fail, TypeOK, RowMoves, Moved
<1>14. ASSUME NEW e \in Executors, TryThrows(e) PROVE RowMoves
  <2>1. executor[e].id \in Ids
    BY <1>14 DEF TryThrows, TypeOK
  <2> DEFINE a == executor[e].id
             d == row[a].confirmOf
  <2>2. executor[e].pc = "spend" =>
          d \in Ids /\ row[d].state = "executed" /\ IsDryRun(d) /\ row[a].state = "executing"
    BY <2>1 DEF TypeOK, IsDryRun, Backed
  <2>3. executor'[e].pc # "spend"
    BY SMTT(60), <1>14 DEF TryThrows, Goto, TypeOK
  <2>4. UNCHANGED row \/ (d \in Ids /\ Spent(a, d))
    BY <1>14, <2>2, <2>3 DEF TryThrows, Unspent, Spent
  <2> QED
    BY <2>1, <2>4 DEF RowMoves
<1>15. ASSUME NEW e \in Executors, CompleteThrows(e) PROVE RowMoves
  <2>1. executor[e].id \in Ids
    BY <1>15 DEF CompleteThrows, TypeOK
  <2> QED
    BY <1>15, <2>1 DEF CompleteThrows, TypeOK, RowMoves, Moved
<1>16. CASE Crash
  BY <1>16 DEF Crash, RowMoves
<1>17. CASE UNCHANGED vars
  BY <1>17 DEF vars, RowMoves
<1> QED
  BY <1>1, <1>2, <1>3, <1>4, <1>5, <1>6, <1>7, <1>8, <1>9, <1>10, <1>11, <1>12, <1>13,
     <1>14, <1>15, <1>16, <1>17 DEF Next, Advance


(* What a person accepted stays as it was, and a row that has executed for *)
(* good.                                                                   *)
LEMMA AcceptedRowStays ==
  ASSUME TypeOK, ContentInv, CallInv, [Next]_vars,
         NEW a \in Ids, row[a].state \in Claimed \cup {"decided"}
  PROVE  /\ row'[a].state \in Claimed \cup {"decided"}
         /\ row[a].state \in Claimed => row'[a].state \in Claimed
         /\ row[a].state = "executed" =>
              row'[a].state = "executed" /\ row'[a].text = row[a].text /\ row'[a].preview = row[a].preview
         /\ row'[a].doIt = row[a].doIt /\ row'[a].confirmOf = row[a].confirmOf
         /\ row'[a].thread = row[a].thread /\ FinalText(a)' = FinalText(a)
         /\ row[a].preview => row'[a].preview
<1>1. row[a] \in RowType
  BY DEF TypeOK
<1>2. CASE UNCHANGED row
  BY <1>2 DEF FinalText
<1>3. ASSUME NEW b \in Ids, Proposed(b) \/ Decided(b) PROVE row'[a] = row[a]
  BY <1>3 DEF Proposed, Decided, TypeOK
<1>4. ASSUME NEW b \in Ids, Moved(b) PROVE /\ row'[a].state # row[a].state =>
                                                  row[a].state \in {"decided", "executing"} /\ row'[a].state \in Claimed
                                           /\ row'[a] = [row[a] EXCEPT !.state = row'[a].state]
  BY <1>4 DEF Moved, TypeOK
<1>5. ASSUME NEW b \in Ids, Stored(b) PROVE \/ row'[a] = row[a]
                                            \/ /\ row[a].state = "executing"
                                               /\ row'[a] = [row[a] EXCEPT !.preview = TRUE, !.text = FinalText(a)]
  BY <1>5 DEF Stored, TypeOK
<1>6. ASSUME NEW b \in Ids, NEW d \in Ids, Spent(b, d)
      PROVE  row'[a] = [row[a] EXCEPT !.confirmedBy = row'[a].confirmedBy]
  BY <1>6 DEF Spent, TypeOK
<1>7. CASE \E b \in Ids : Proposed(b) \/ Decided(b)
  BY <1>3, <1>7 DEF FinalText
<1>8. CASE \E b \in Ids : Moved(b)
  BY <1>1, <1>4, <1>8 DEF FinalText
<1>9. CASE \E b \in Ids : Stored(b)
  <2>1. CASE row'[a] = row[a]
    BY <2>1 DEF FinalText
  <2>2. CASE /\ row[a].state = "executing"
             /\ row'[a] = [row[a] EXCEPT !.preview = TRUE, !.text = FinalText(a)]
    <3>1. /\ row'[a].state = row[a].state /\ row'[a].doIt = row[a].doIt
          /\ row'[a].confirmOf = row[a].confirmOf /\ row'[a].thread = row[a].thread
          /\ row'[a].edited = row[a].edited /\ row'[a].text = FinalText(a) /\ row'[a].preview
      BY <1>1, <2>2
    <3> QED
      BY <2>2, <3>1 DEF FinalText
  <2> QED
    BY <1>5, <1>9, <2>1, <2>2
<1>10. CASE \E b, d \in Ids : Spent(b, d)
  BY <1>1, <1>6, <1>10 DEF FinalText
<1> QED
  BY <1>2, <1>7, <1>8, <1>9, <1>10, NextRowMoves DEF RowMoves

(* What backs an accepted send goes on backing it. *)
LEMMA BackingStays ==
  ASSUME TypeOK, ContentInv, CallInv, [Next]_vars,
         NEW a \in Ids, row[a].state \in Claimed \cup {"decided"}, ~IsDryRun(a), Backed(a)
  PROVE  Backed(a)' /\ ~IsDryRun(a)'
<1> DEFINE d == row[a].confirmOf
<1>1. d \in Ids /\ row[d].state = "executed"
  BY DEF TypeOK, IsDryRun, Backed
<1>2. row'[a].confirmOf = d /\ row'[a].thread = row[a].thread /\ FinalText(a)' = FinalText(a)
  BY AcceptedRowStays
<1>3. /\ row'[d].state = "executed" /\ row'[d].text = row[d].text /\ row'[d].preview = row[d].preview
      /\ row'[d].confirmOf = row[d].confirmOf /\ row'[d].thread = row[d].thread
  <2> HIDE DEF d
  <2> QED
    BY <1>1, AcceptedRowStays
<1> QED
  BY <1>1, <1>2, <1>3 DEF Backed, IsDryRun

(* Nobody else touches the row of a call that holds it. *)
HeldStays(f) ==
  LET a == executor[f].id
  IN  row'[a].state = row[a].state /\ row'[a].preview = row[a].preview /\ shown'[a] = shown[a]

(* While a call that holds a row does not move, the row does not either. *)
LEMMA HeldRowStays ==
  ASSUME TypeOK, CallInv, [Next]_vars, NEW f \in Executors, executor[f].pc \in Holding,
         executor'[f] = executor[f]
  PROVE  HeldStays(f)
<1> USE DEF CallInv, CallOK
<1>0. executor[f].id \in Ids /\ executor[f] # Idle /\ row[executor[f].id].state = "executing"
  BY DEF TypeOK
<1>1. ASSUME NEW a \in Asks, NEW d \in Drafts[a], Propose(a, d) PROVE HeldStays(f)
  <2> DEFINE r == [NoRow EXCEPT !.state = "pending", !.thread = d.thread, !.text = d.text,
                            !.confirmOf = d.confirmOf]
  <2>1. row' = [row EXCEPT ![a] = r] /\ row[a].state = "absent" /\ UNCHANGED shown
    BY <1>1 DEF Propose
  <2> HIDE DEF r
  <2> QED
    BY <1>0, <2>1 DEF HeldStays, TypeOK
<1>2. ASSUME NEW a \in Ids, NEW doIt \in BOOLEAN, NEW edited \in Texts \cup {None},
             Decide(a, doIt, edited)
      PROVE  HeldStays(f)
  BY <1>2 DEF Decide, HeldStays, TypeOK
<1>3. ASSUME NEW e \in Executors, NEW a \in Ids, Execute(e, a) PROVE HeldStays(f)
  BY <1>3 DEF Execute, HeldStays, TypeOK
<1>4. ASSUME NEW e \in Executors, CheckGap(e) PROVE HeldStays(f)
  BY <1>4 DEF CheckGap, Goto, HeldStays, TypeOK
<1>5. ASSUME NEW e \in Executors, Refuse(e) PROVE HeldStays(f)
  BY <1>5 DEF Refuse, Leave, Fault, HeldStays, TypeOK
<1>6. ASSUME NEW e \in Executors, Claim(e) PROVE HeldStays(f)
  BY <1>6 DEF Claim, Goto, Leave, HeldStays, TypeOK
<1>7. ASSUME NEW e \in Executors, SpendDryRun(e) PROVE HeldStays(f)
  BY <1>7 DEF SpendDryRun, Goto, HeldStays, TypeOK
<1>8. ASSUME NEW e \in Executors, Type(e) PROVE HeldStays(f)
  BY <1>8 DEF Type, HostTypes, Goto, HeldStays, TypeOK
<1>9. ASSUME NEW e \in Executors, Preview(e) PROVE HeldStays(f)
  BY <1>9 DEF Preview, Goto, Message, FinalText, HeldStays, TypeOK
<1>10. ASSUME NEW e \in Executors, StorePreview(e) PROVE HeldStays(f)
  <2>1. e # f /\ executor[e].id # executor[f].id
    BY <1>10 DEF StorePreview, Goto, TypeOK
  <2>2. row'[executor[f].id] = row[executor[f].id] /\ UNCHANGED shown
    BY <1>0, <1>10, <2>1 DEF StorePreview, TypeOK
  <2> QED
    BY <2>2 DEF HeldStays
<1>11. ASSUME NEW e \in Executors, Complete(e) PROVE HeldStays(f)
  BY <1>11 DEF Complete, Goto, Leave, HeldStays, TypeOK
<1>12. ASSUME NEW e \in Executors, ProposeConfirm(e) PROVE HeldStays(f)
  <2>1. row'[executor[f].id] = row[executor[f].id] /\ UNCHANGED shown
    BY <1>0, <1>12 DEF ProposeConfirm, TypeOK
  <2> QED
    BY <2>1 DEF HeldStays
<1>13. ASSUME NEW e \in Executors, Fail(e) PROVE HeldStays(f)
  BY <1>13 DEF Fail, Leave, HeldStays, TypeOK
<1>14. ASSUME NEW e \in Executors, TryThrows(e) PROVE HeldStays(f)
  BY <1>14 DEF TryThrows, Fault, Goto, HeldStays, TypeOK
<1>15. ASSUME NEW e \in Executors, CompleteThrows(e) PROVE HeldStays(f)
  BY <1>15 DEF CompleteThrows, Fault, Leave, HeldStays, TypeOK
<1>16. CASE Crash
  BY <1>16 DEF Crash, Fault, HeldStays, TypeOK
<1>17. CASE UNCHANGED vars
  BY <1>17 DEF vars, HeldStays, TypeOK
<1> QED
  BY <1>1, <1>2, <1>3, <1>4, <1>5, <1>6, <1>7, <1>8, <1>9, <1>10, <1>11, <1>12, <1>13,
     <1>14, <1>15, <1>16, <1>17 DEF Next, Advance


(* A call that does not move stays right about its row. *)
LEMMA CallStays ==
  ASSUME TypeOK, ContentInv, CallInv, [Next]_vars, NEW f \in Executors, executor'[f] = executor[f]
  PROVE  CallOK(f)'
<1> USE DEF CallInv, CallOK
<1>1. CASE executor[f].pc = "idle"
  BY <1>1
<1>2. CASE executor[f].pc # "idle"
  <2> PICK a \in Ids : a = executor[f].id /\ a = executor'[f].id
    BY <1>2 DEF TypeOK
  <2>1. row[a].doIt /\ row[a].state \in Claimed \cup {"decided"}
    BY <1>2
  <2>2. /\ row'[a].doIt /\ row'[a].state \in Claimed \cup {"decided"}
        /\ row'[a].confirmOf = row[a].confirmOf
        /\ Message(a)' = Message(a)
        /\ row[a].state = "executed" => row'[a].state = "executed"
    BY <2>1, AcceptedRowStays DEF Message
  <2>3. ~IsDryRun(a) /\ Backed(a) => Backed(a)'
    BY <2>1, BackingStays
  <2>4. executor[f].pc \in Holding =>
          row'[a].state = row[a].state /\ row'[a].preview = row[a].preview /\ shown'[a] = shown[a]
    BY HeldRowStays DEF HeldStays
  <2>5. IsDryRun(a)' = IsDryRun(a)
    BY <2>2 DEF IsDryRun
  <2>6. executor'[f].pc = executor[f].pc
    OBVIOUS
  <2>7. CallOK(f)
    OBVIOUS
  <2>8. row[executor[f].id] = row[a] /\ row'[executor'[f].id] = row'[a]
    OBVIOUS
  <2> HIDE DEF CallInv
  <2> QED
    BY <1>2, <2>1, <2>2, <2>3, <2>4, <2>5, <2>6, <2>7, <2>8
<1> QED
  BY <1>1, <1>2

(* What is shown of a row changes only as its dry run is previewed. *)
LEMMA ShownStays ==
  ASSUME TypeOK, CallInv, [Next]_vars, NEW a \in Ids, shown'[a] # shown[a]
  PROVE  row[a].state = "executing" /\ ~row[a].preview /\ IsDryRun(a) /\ UNCHANGED row
<1>1. PICK e \in Executors : Preview(e)
  BY ZenonT(60) DEF Next, Advance, Propose, Decide, Execute, CheckGap, Refuse, Claim, SpendDryRun, Type,
     StorePreview, Complete, ProposeConfirm, Fail, TryThrows, CompleteThrows, Crash, vars
<1>2. executor[e].id = a
  BY <1>1 DEF Preview, TypeOK
<1> QED
  BY SMTT(60), <1>1, <1>2 DEF Preview, CallInv, CallOK

(* Each step keeps accepted rows accepted and previews true. *)
LEMMA NextAcceptedInv == SendInv /\ [Next]_vars => AcceptedInv'
<1> SUFFICES ASSUME SendInv, [Next]_vars, NEW a \in Ids
             PROVE  /\ row'[a].state \in Claimed => row'[a].doIt
                    /\ IsDryRun(a)' /\ row'[a].preview =>
                         /\ row'[a].state \in Claimed
                         /\ row'[a].text = FinalText(a)'
                         /\ shown'[a] = Message(a)'
  BY DEF AcceptedInv
<1> USE DEF SendInv
<1> DEFINE P == /\ row[a].state \in Claimed => row[a].doIt
                /\ IsDryRun(a) /\ row[a].preview =>
                         /\ row[a].state \in Claimed
                         /\ row[a].text = FinalText(a)
                         /\ shown[a] = Message(a)
<1>0. P /\ row[a] \in RowType
  BY DEF AcceptedInv, TypeOK
<1>1. CASE row'[a] = row[a]
  BY <1>0, <1>1, ShownStays DEF IsDryRun, Message, FinalText
<1>2. ASSUME NEW b \in Ids, Proposed(b), row'[a] # row[a]
      PROVE  row'[a].state = "pending" /\ (IsDryRun(a)' => ~row'[a].preview)
  BY <1>2 DEF Proposed, TypeOK, IsDryRun
<1>3. ASSUME NEW b \in Ids, Decided(b), row'[a] # row[a]
      PROVE  /\ row[a].state = "pending" /\ row'[a].state = "decided"
             /\ row'[a].preview = row[a].preview /\ IsDryRun(a)' = IsDryRun(a)
  BY <1>3 DEF Decided, TypeOK, IsDryRun
<1>4. ASSUME NEW b \in Ids, Moved(b), row'[a] # row[a]
      PROVE  /\ row'[a].doIt /\ row'[a].state \in Claimed
             /\ row'[a].preview = row[a].preview /\ IsDryRun(a)' = IsDryRun(a)
             /\ row'[a].text = row[a].text /\ Message(a)' = Message(a) /\ FinalText(a)' = FinalText(a)
  BY <1>4 DEF Moved, TypeOK, IsDryRun, Message, FinalText
<1>5. ASSUME NEW b \in Ids, Stored(b), row'[a] # row[a]
      PROVE  /\ row'[a].state = "executing" /\ row'[a].doIt = row[a].doIt /\ row[a].state = "executing"
             /\ row'[a].text = FinalText(a)' /\ Message(a)' = Message(a) /\ shown[a] = Message(a)
  <2>1. a = b /\ row'[a] = [row[a] EXCEPT !.preview = TRUE, !.text = FinalText(a)]
    BY <1>5 DEF Stored, TypeOK
  <2>2. /\ row'[a].state = row[a].state /\ row'[a].doIt = row[a].doIt /\ row'[a].thread = row[a].thread
        /\ row'[a].edited = row[a].edited /\ row'[a].text = FinalText(a)
    BY <1>0, <2>1
  <2> QED
    BY <1>5, <2>1, <2>2 DEF Stored, Message, FinalText
<1>6. ASSUME NEW b \in Ids, NEW d \in Ids, Spent(b, d), row'[a] # row[a]
      PROVE  /\ row'[a].state = row[a].state /\ row'[a].doIt = row[a].doIt
             /\ row'[a].preview = row[a].preview /\ IsDryRun(a)' = IsDryRun(a)
             /\ row'[a].text = row[a].text /\ Message(a)' = Message(a) /\ FinalText(a)' = FinalText(a)
  BY <1>6 DEF Spent, TypeOK, IsDryRun, Message, FinalText
<1>7. row'[a] # row[a] => shown'[a] = shown[a]
  BY ShownStays
<1> QED
  BY <1>0, <1>1, <1>2, <1>3, <1>4, <1>5, <1>6, <1>7, NextRowMoves DEF RowMoves


(* A step of one call, which takes a row only when no call holds it. *)
LEMMA OneCallMoves ==
  ASSUME SendInv, [Next]_vars, NEW e \in Executors,
         \A f \in Executors \ {e} : executor'[f] = executor[f],
         executor'[e].pc \in Holding =>
           /\ executor'[e].id = executor[e].id
           /\ executor[e].pc \in Holding \/ row[executor[e].id].state = "decided",
         CallOK(e)'
  PROVE  CallInv'
<1>1. ASSUME NEW f \in Executors PROVE CallOK(f)'
  BY CallStays DEF SendInv
<1>2. ASSUME NEW f \in Executors \ {e}, executor'[f].pc \in Holding, executor'[e].pc \in Holding
      PROVE  executor'[f].id # executor'[e].id
  BY <1>2 DEF SendInv, CallInv, CallOK
<1>3. ASSUME NEW f \in Executors, NEW g \in Executors, f # g, f # e, g # e,
             executor'[f].pc \in Holding, executor'[g].pc \in Holding
      PROVE  executor'[f].id # executor'[g].id
  BY <1>3 DEF SendInv, CallInv
<1> QED
  BY <1>1, <1>2, <1>3 DEF CallInv

(* Each step keeps the calls in flight right about their rows. *)
LEMMA NextCallInv == SendInv /\ [Next]_vars => CallInv'
<1> SUFFICES ASSUME SendInv, [Next]_vars PROVE CallInv'
  OBVIOUS
<1> USE DEF SendInv
<1>0. ASSUME UNCHANGED executor PROVE CallInv'
  BY <1>0, CallStays DEF CallInv
<1>1. ASSUME NEW a \in Asks, NEW d \in Drafts[a], Propose(a, d) PROVE CallInv'
  BY <1>0, <1>1 DEF Propose
<1>2. ASSUME NEW a \in Ids, NEW doIt \in BOOLEAN, NEW edited \in Texts \cup {None},
             Decide(a, doIt, edited)
      PROVE  CallInv'
  BY <1>0, <1>2 DEF Decide
<1>3. ASSUME NEW e \in Executors, NEW a \in Ids, Execute(e, a) PROVE CallInv'
  <2>1. PICK pc \in {"refuse", IF IsDryRun(a) THEN "claim" ELSE "gap"} :
          executor' = [executor EXCEPT ![e] = [pc |-> pc, id |-> a]]
    BY <1>3 DEF Execute
  <2>2. executor'[e].pc = pc /\ executor'[e].id = a
    BY <2>1 DEF TypeOK
  <2>3. row[a].state = "decided" /\ row[a].doIt /\ row' = row
    BY <1>3 DEF Execute
  <2>4. CallOK(e)'
    BY <2>2, <2>3 DEF CallOK, IsDryRun
  <2> QED
    BY <1>3, <2>1, <2>2, <2>4, OneCallMoves DEF TypeOK
<1>4. ASSUME NEW e \in Executors, CheckGap(e) PROVE CallInv'
  <2> PICK a \in Ids : a = executor[e].id
    BY <1>4 DEF CheckGap, TypeOK
  <2>1. CallOK(e) /\ executor[e].id = a
    BY DEF CallInv
  <2>2. CallOK(e)'
    <3>1. \/ executor'[e] = [executor[e] EXCEPT !.pc = "refuse"]
          \/ executor'[e] = [executor[e] EXCEPT !.pc = "claim"] /\ Backed(a)
      BY <1>4 DEF CheckGap, Goto, TypeOK
    <3>2. Backed(a)' = Backed(a) /\ IsDryRun(a)' = IsDryRun(a) /\ row' = row
      BY <1>4 DEF CheckGap, Backed, IsDryRun, FinalText
    <3>3. executor'[e].id = a /\ executor'[e].pc \in {"claim", "refuse"} /\ executor[e].pc = "gap"
      BY <1>4, <3>1 DEF CheckGap, TypeOK
    <3> QED
      BY <2>1, <3>1, <3>2, <3>3 DEF CallOK, TypeOK
  <2> QED
    BY <1>4, <2>2, OneCallMoves DEF CheckGap, Goto, TypeOK
<1>5. ASSUME NEW e \in Executors, Refuse(e) PROVE CallInv'
  <2> PICK a \in Ids : a = executor[e].id
    BY <1>5 DEF Refuse, TypeOK
  <2>1. CallOK(e) /\ executor[e].id = a
    BY DEF CallInv
  <2>2. CallOK(e)'
    BY <1>5, <2>1 DEF CallOK, Refuse, Leave, TypeOK
  <2> QED
    BY <1>5, <2>2, OneCallMoves DEF Refuse, Leave, TypeOK
<1>6. ASSUME NEW e \in Executors, Claim(e) PROVE CallInv'
  <2> PICK a \in Ids : a = executor[e].id
    BY <1>6 DEF Claim, TypeOK
  <2>1. CallOK(e) /\ executor[e].id = a
    BY DEF CallInv
  <2>2. CallOK(e)'
    <3>1. CASE executor'[e] = Idle
      BY <3>1 DEF CallOK
    <3>2. CASE executor'[e] # Idle
      <4>1. /\ row[a].state = "decided" /\ row' = [row EXCEPT ![a].state = "executing"]
            /\ executor' = [executor EXCEPT ![e].pc = IF IsDryRun(a) THEN "preview" ELSE "spend"]
        BY <1>6, <3>2 DEF Claim, Goto, Leave, TypeOK
      <4>2. /\ executor'[e].id = a
            /\ executor'[e].pc = IF IsDryRun(a) THEN "preview" ELSE "spend"
        BY <1>6, <4>1 DEF Claim, TypeOK
      <4>3. /\ row'[a].state = "executing" /\ row'[a].doIt = row[a].doIt
            /\ row'[a].preview = row[a].preview /\ row'[a].confirmOf = row[a].confirmOf
        BY <4>1 DEF TypeOK
      <4>4. ~IsDryRun(a) => Backed(a)'
        BY <1>6, <2>1, <4>1, BackingStays DEF CallOK, Claim
      <4>5. IsDryRun(a) => ~row[a].preview
        BY <4>1 DEF AcceptedInv
      <4>6. row[a].doIt
        BY <1>6, <2>1 DEF CallOK, Claim
      <4> QED
        BY <4>2, <4>3, <4>4, <4>5, <4>6 DEF CallOK, IsDryRun
    <3> QED
      BY <3>1, <3>2
  <2> QED
    BY <1>6, <2>2, OneCallMoves DEF Claim, Goto, Leave, TypeOK
<1>7. ASSUME NEW e \in Executors, SpendDryRun(e) PROVE CallInv'
  <2> PICK a \in Ids : a = executor[e].id
    BY <1>7 DEF SpendDryRun, TypeOK
  <2>1. CallOK(e) /\ executor[e].id = a
    BY DEF CallInv
  <2>2. CallOK(e)'
    <3>1. executor'[e].id = a /\ executor'[e].pc \in {"type", "fail"}
      BY <1>7 DEF SpendDryRun, Goto, TypeOK
    <3>2. row[a].state = "executing" /\ row[a].doIt /\ ~IsDryRun(a) /\ Backed(a)
      BY <1>7, <2>1 DEF CallOK, SpendDryRun
    <3>3. row'[a].state = row[a].state
      BY <1>7 DEF SpendDryRun, TypeOK
    <3>4. row'[a].doIt = row[a].doIt /\ Backed(a)' /\ ~IsDryRun(a)'
      BY <3>2, AcceptedRowStays, BackingStays
    <3> QED
      BY <3>1, <3>2, <3>3, <3>4 DEF CallOK
  <2> QED
    BY <1>7, <2>2, OneCallMoves DEF SpendDryRun, Goto, TypeOK
<1>8. ASSUME NEW e \in Executors, Type(e) PROVE CallInv'
  <2> PICK a \in Ids : a = executor[e].id
    BY <1>8 DEF Type, TypeOK
  <2>1. CallOK(e) /\ executor[e].id = a
    BY DEF CallInv
  <2>2. CallOK(e)'
    BY <1>8, <2>1 DEF CallOK, Type, Goto, TypeOK
  <2> QED
    BY <1>8, <2>2, OneCallMoves DEF Type, Goto, TypeOK
<1>9. ASSUME NEW e \in Executors, Preview(e) PROVE CallInv'
  <2> PICK a \in Ids : a = executor[e].id
    BY <1>9 DEF Preview, TypeOK
  <2>1. CallOK(e) /\ executor[e].id = a
    BY DEF CallInv
  <2>2. CallOK(e)'
    <3>1. executor'[e].id = a /\ row' = row /\ executor[e].pc = "preview"
      BY <1>9 DEF Preview, Goto, TypeOK
    <3>2. executor'[e].pc = "fail" \/ (executor'[e].pc = "store" /\ shown'[a] = Message(a))
      BY <1>9 DEF Preview, Goto, TypeOK
    <3>3. IsDryRun(a)' = IsDryRun(a) /\ Message(a)' = Message(a)
      BY <3>1 DEF IsDryRun, Message, FinalText
    <3> QED
      BY <2>1, <3>1, <3>2, <3>3 DEF CallOK
  <2> QED
    BY <1>9, <2>2, OneCallMoves DEF Preview, Goto, TypeOK
<1>10. ASSUME NEW e \in Executors, StorePreview(e) PROVE CallInv'
  <2> PICK a \in Ids : a = executor[e].id
    BY <1>10 DEF StorePreview, TypeOK
  <2>1. CallOK(e) /\ executor[e].id = a
    BY DEF CallInv
  <2>2. CallOK(e)'
    BY <1>10, <2>1 DEF CallOK, StorePreview, Goto, TypeOK
  <2> QED
    BY <1>10, <2>2, OneCallMoves DEF StorePreview, Goto, TypeOK
<1>11. ASSUME NEW e \in Executors, Complete(e) PROVE CallInv'
  <2> PICK a \in Ids : a = executor[e].id
    BY <1>11 DEF Complete, TypeOK
  <2>1. CallOK(e) /\ executor[e].id = a
    BY DEF CallInv
  <2>2. CallOK(e)'
    <3>1. CASE executor'[e] = Idle
      BY <3>1 DEF CallOK
    <3>2. CASE executor'[e] # Idle
      <4>1. IsDryRun(a) /\ executor'[e].pc = "confirm" /\ executor'[e].id = a
        BY <1>11, <3>2 DEF Complete, Goto, Leave, TypeOK
      <4>2. /\ row'[a].state = "executed" /\ row'[a].doIt = row[a].doIt
            /\ row'[a].confirmOf = row[a].confirmOf
        BY <1>11 DEF Complete, TypeOK
      <4> QED
        BY <1>11, <2>1, <4>1, <4>2 DEF CallOK, Complete, IsDryRun
    <3> QED
      BY <3>1, <3>2
  <2> QED
    BY <1>11, <2>2, OneCallMoves DEF Complete, Goto, Leave, TypeOK
<1>12. ASSUME NEW e \in Executors, ProposeConfirm(e) PROVE CallInv'
  <2> PICK a \in Ids : a = executor[e].id
    BY <1>12 DEF ProposeConfirm, TypeOK
  <2>1. CallOK(e) /\ executor[e].id = a
    BY DEF CallInv
  <2>2. CallOK(e)'
    BY <1>12, <2>1 DEF CallOK, ProposeConfirm, Leave, TypeOK
  <2> QED
    BY <1>12, <2>2, OneCallMoves DEF ProposeConfirm, Leave, TypeOK
<1>13. ASSUME NEW e \in Executors, Fail(e) PROVE CallInv'
  <2> PICK a \in Ids : a = executor[e].id
    BY <1>13 DEF Fail, TypeOK
  <2>1. CallOK(e) /\ executor[e].id = a
    BY DEF CallInv
  <2>2. CallOK(e)'
    BY <1>13, <2>1 DEF CallOK, Fail, Leave, TypeOK
  <2> QED
    BY <1>13, <2>2, OneCallMoves DEF Fail, Leave, TypeOK
<1>14. ASSUME NEW e \in Executors, TryThrows(e) PROVE CallInv'
  <2> PICK a \in Ids : a = executor[e].id
    BY <1>14 DEF TryThrows, TypeOK
  <2>1. CallOK(e) /\ executor[e].id = a
    BY DEF CallInv
  <2>2. CallOK(e)'
    BY <1>14, <2>1 DEF CallOK, TryThrows, Goto, TypeOK
  <2> QED
    BY <1>14, <2>2, OneCallMoves DEF TryThrows, Goto, TypeOK
<1>15. ASSUME NEW e \in Executors, CompleteThrows(e) PROVE CallInv'
  <2> PICK a \in Ids : a = executor[e].id
    BY <1>15 DEF CompleteThrows, TypeOK
  <2>1. CallOK(e) /\ executor[e].id = a
    BY DEF CallInv
  <2>2. CallOK(e)'
    BY <1>15, <2>1 DEF CallOK, CompleteThrows, Leave, TypeOK
  <2> QED
    BY <1>15, <2>2, OneCallMoves DEF CompleteThrows, Leave, TypeOK
<1>16. CASE Crash
  <2>1. \A f \in Executors : executor'[f] = executor[f] \/ executor'[f] = Idle
    BY <1>16 DEF Crash
  <2> QED
    BY <2>1, CallStays DEF CallInv, CallOK, TypeOK
<1>17. CASE UNCHANGED vars
  BY <1>0, <1>17 DEF vars
<1> QED
  BY <1>1, <1>2, <1>3, <1>4, <1>5, <1>6, <1>7, <1>8, <1>9, <1>10, <1>11, <1>12, <1>13,
     <1>14, <1>15, <1>16, <1>17 DEF Next, Advance


-----------------------------------------------------------------------------
(* Only the send that spent the dry run is typed, by the call that spent it. *)
LEMMA TypedMoves ==
  ASSUME ~DryRunTypes, SendInv, [Next]_vars, typed' # typed
  PROVE  \E e \in Executors :
           /\ executor[e].pc = "type" /\ executor'[e].pc # "type"
           /\ typed' = [typed EXCEPT ![executor[e].id] = @ + 1]
           /\ UNCHANGED row
<1>1. PICK e \in Executors : Type(e)
  BY ZenonT(60) DEF Next, Advance, Propose, Decide, Execute, CheckGap, Refuse, Claim, SpendDryRun,
     Preview, StorePreview, Complete, ProposeConfirm, Fail, TryThrows, CompleteThrows, Crash, vars
<1> QED
  BY <1>1 DEF Type, HostTypes, Goto, SendInv, TypeOK

(* Each step keeps what was typed backed by the dry run it names. *)
LEMMA NextTypedInv == ~DryRunTypes /\ SendInv /\ TypedInv /\ [Next]_vars => TypedInv'
<1> SUFFICES ASSUME ~DryRunTypes, SendInv, TypedInv, [Next]_vars, NEW a \in Ids, typed'[a] > 0
             PROVE  ~IsDryRun(a)' /\ row'[a].state \in Claimed /\ Backed(a)'
  BY DEF TypedInv
<1>1. row[a].state \in Claimed /\ ~IsDryRun(a) /\ Backed(a)
  <2>1. CASE typed[a] > 0
    BY <2>1 DEF TypedInv
  <2>2. CASE typed'[a] # typed[a]
    <3>1. PICK e \in Executors : executor[e].pc = "type" /\ executor[e].id = a
      BY <2>2, TypedMoves DEF SendInv, TypeOK
    <3> QED
      BY <3>1 DEF SendInv, CallInv, CallOK
  <2> QED
    BY <2>1, <2>2
<1> QED
  BY <1>1, AcceptedRowStays, BackingStays DEF SendInv

(* A call comes to spend by its claim, and to type by its spending. *)
LEMMA Entering ==
  ASSUME TypeOK, [Next]_vars, NEW f \in Executors, executor'[f] # executor[f],
         executor'[f].pc \in {"spend", "type"}
  PROVE  Claim(f) \/ SpendDryRun(f)
<1>1. ASSUME NEW a \in Asks, NEW d \in Drafts[a], Propose(a, d)
      PROVE  Claim(f) \/ SpendDryRun(f)
  BY <1>1 DEF Propose, TypeOK
<1>2. ASSUME NEW a \in Ids, NEW doIt \in BOOLEAN, NEW edited \in Texts \cup {None},
             Decide(a, doIt, edited)
      PROVE  Claim(f) \/ SpendDryRun(f)
  BY <1>2 DEF Decide, TypeOK
<1>3. ASSUME NEW e \in Executors, NEW a \in Ids, Execute(e, a) PROVE Claim(f) \/ SpendDryRun(f)
  BY <1>3 DEF Execute, TypeOK
<1>4. ASSUME NEW e \in Executors, CheckGap(e) PROVE Claim(f) \/ SpendDryRun(f)
  BY <1>4 DEF CheckGap, Goto, TypeOK
<1>5. ASSUME NEW e \in Executors, Refuse(e) PROVE Claim(f) \/ SpendDryRun(f)
  BY <1>5 DEF Refuse, Leave, Fault, TypeOK
<1>6. ASSUME NEW e \in Executors, Claim(e) PROVE Claim(f) \/ SpendDryRun(f)
  BY <1>6 DEF Claim, Goto, Leave, TypeOK
<1>7. ASSUME NEW e \in Executors, SpendDryRun(e) PROVE Claim(f) \/ SpendDryRun(f)
  BY <1>7 DEF SpendDryRun, Goto, TypeOK
<1>8. ASSUME NEW e \in Executors, Type(e) PROVE Claim(f) \/ SpendDryRun(f)
  BY <1>8 DEF Type, HostTypes, Goto, TypeOK
<1>9. ASSUME NEW e \in Executors, Preview(e) PROVE Claim(f) \/ SpendDryRun(f)
  BY <1>9 DEF Preview, Goto, Message, FinalText, TypeOK
<1>10. ASSUME NEW e \in Executors, StorePreview(e) PROVE Claim(f) \/ SpendDryRun(f)
  BY <1>10 DEF StorePreview, StoredText, FinalText, Goto, TypeOK
<1>11. ASSUME NEW e \in Executors, Complete(e) PROVE Claim(f) \/ SpendDryRun(f)
  BY <1>11 DEF Complete, Goto, Leave, TypeOK
<1>12. ASSUME NEW e \in Executors, ProposeConfirm(e) PROVE Claim(f) \/ SpendDryRun(f)
  BY <1>12 DEF ProposeConfirm, ConfirmOf, FinalText, Leave, TypeOK
<1>13. ASSUME NEW e \in Executors, Fail(e) PROVE Claim(f) \/ SpendDryRun(f)
  BY <1>13 DEF Fail, Leave, TypeOK
<1>14. ASSUME NEW e \in Executors, TryThrows(e) PROVE Claim(f) \/ SpendDryRun(f)
  BY <1>14 DEF TryThrows, Fault, Goto, TypeOK
<1>15. ASSUME NEW e \in Executors, CompleteThrows(e) PROVE Claim(f) \/ SpendDryRun(f)
  BY <1>15 DEF CompleteThrows, Fault, Leave, TypeOK
<1>16. CASE Crash
  BY <1>16 DEF Crash, Fault, TypeOK
<1>17. CASE UNCHANGED vars
  BY <1>17 DEF vars, TypeOK
<1> QED
  BY <1>1, <1>2, <1>3, <1>4, <1>5, <1>6, <1>7, <1>8, <1>9, <1>10, <1>11, <1>12, <1>13,
     <1>14, <1>15, <1>16, <1>17 DEF Next, Advance

(* Each step keeps the dry run with the send that spent it. *)
LEMMA NextSpentInv == ~DryRunTypes /\ PermitInv /\ [Next]_vars => SpentInv'
<1> SUFFICES ASSUME ~DryRunTypes, PermitInv, [Next]_vars PROVE SpentInv'
  OBVIOUS
<1> USE DEF PermitInv, SendInv
<1>1. RowMoves
  BY NextRowMoves
(* confirmed_by is written once. *)
<1>2. ASSUME NEW d \in Ids, row[d].confirmedBy # None PROVE row'[d].confirmedBy = row[d].confirmedBy
  <2>1. row[d].state = "executed"
    BY <1>2 DEF SpentInv
  <2> QED
    BY ZenonT(60), <1>1, <1>2, <2>1 DEF RowMoves, Proposed, Decided, Moved, Stored, Spent, TypeOK
<1>3. ASSUME NEW d \in Ids, row[d].confirmedBy = None, row'[d].confirmedBy # None
      PROVE  Spent(row'[d].confirmedBy, d)
  <2>1. PICK b \in Ids, c \in Ids : Spent(b, c)
    <3>1. \A b \in Ids : ~Proposed(b)
      BY <1>3 DEF Proposed, TypeOK
    <3>2. ASSUME NEW b \in Ids, Decided(b) PROVE row'[d].confirmedBy = row[d].confirmedBy
      BY <3>2 DEF Decided, TypeOK
    <3>3. ASSUME NEW b \in Ids, Moved(b) PROVE row'[d].confirmedBy = row[d].confirmedBy
      BY <3>3 DEF Moved, TypeOK
    <3>4. ASSUME NEW b \in Ids, Stored(b) PROVE row'[d].confirmedBy = row[d].confirmedBy
      BY <3>4 DEF Stored, TypeOK
    <3> QED
      BY <1>1, <1>3, <3>1, <3>2, <3>3, <3>4 DEF RowMoves
  <2>2. c = d /\ b = row'[d].confirmedBy
    BY <1>3, <2>1 DEF Spent, TypeOK
  <2> QED
    BY <2>1, <2>2
<1>4. ASSUME NEW a \in Ids, typed'[a] # 0
      PROVE  typed'[a] = 1 /\ row'[row'[a].confirmOf].confirmedBy = a
  <2>1. row[a].state \in Claimed /\ ~IsDryRun(a) /\ typed'[a] = 1
        /\ row[row[a].confirmOf].confirmedBy = a
    <3>1. CASE typed[a] # 0 /\ typed'[a] = typed[a]
      BY <3>1 DEF SpentInv, TypedInv, TypeOK
    <3>2. CASE typed'[a] # typed[a]
      <4>1. PICK e \in Executors : executor[e].pc = "type" /\ executor[e].id = a /\ typed'[a] = typed[a] + 1
        BY <3>2, TypedMoves DEF TypeOK
      <4> QED
        BY <4>1 DEF CallInv, CallOK, SpentInv, Unspoken
    <3> QED
      BY <1>4, <3>1, <3>2
  <2>2. row'[a].confirmOf = row[a].confirmOf /\ row[a].confirmOf \in Ids
    BY <2>1, AcceptedRowStays DEF TypeOK, IsDryRun
  <2> QED
    BY <1>2, <2>1, <2>2
<1>5. ASSUME NEW d \in Ids, row'[d].confirmedBy # None
      PROVE  /\ row'[d].state = "executed" /\ IsDryRun(d)'
             /\ row'[row'[d].confirmedBy].state \in Claimed
  <2> PICK b \in Ids : b = row'[d].confirmedBy
    BY <1>5, NextTypeOK DEF TypeOK
  <2>1. row[d].state = "executed" /\ IsDryRun(d) /\ row[b].state \in Claimed
    <3>1. CASE row[d].confirmedBy # None
      BY <3>1, <1>2 DEF SpentInv
    <3>2. CASE row[d].confirmedBy = None
      BY <3>2, <1>3, <1>5 DEF Spent
    <3> QED
      BY <3>1, <3>2
  <2> QED
    BY <2>1, AcceptedRowStays DEF IsDryRun
<1>6. ASSUME NEW f \in Executors PROVE Unspoken(f)'
  <2>1. CASE executor'[f].pc \notin {"spend", "type"}
    BY <2>1 DEF Unspoken
  <2>2. CASE executor'[f] = executor[f] /\ executor[f].pc \in {"spend", "type"}
    <3> PICK a \in Ids : a = executor[f].id /\ a = executor'[f].id
      BY <2>2 DEF TypeOK
    <3>1. \A e \in Executors \ {f} : executor[e].pc \in Holding => executor[e].id # a
      BY <2>2 DEF CallInv
    <3>2. typed'[a] = typed[a]
      BY <2>2, <3>1, TypedMoves DEF TypeOK
    <3>3. \A d \in Ids : row'[d].confirmedBy = a => row[d].confirmedBy = a
      BY <1>2, <1>3, <2>2, <3>1 DEF Spent
    <3>4. row[a].state \in Claimed /\ (executor[f].pc = "type" => row[a].confirmOf \in Ids)
      BY <2>2 DEF CallInv, CallOK, TypeOK, IsDryRun
    <3>5. row'[a].confirmOf = row[a].confirmOf
      BY <3>4, AcceptedRowStays
    <3>6. Unspoken(f)
      BY DEF SpentInv
    <3> QED
      BY <1>2, <2>2, <3>2, <3>3, <3>4, <3>5, <3>6 DEF Unspoken
  <2>3. CASE executor'[f] # executor[f] /\ executor'[f].pc \in {"spend", "type"}
    <3>1. CASE Claim(f)
      <4> PICK a \in Ids : a = executor[f].id /\ a = executor'[f].id
        BY <2>3, <3>1 DEF Claim, Goto, Leave, TypeOK
      <4>1. row[a].state = "decided" /\ executor'[f].pc = "spend" /\ typed' = typed
        BY <2>3, <3>1 DEF Claim, Goto, Leave, TypeOK
      <4>2. \A d \in Ids : row'[d].confirmedBy = row[d].confirmedBy
        BY <3>1 DEF Claim, TypeOK
      <4>3. typed[a] = 0
        BY <4>1 DEF TypedInv, TypeOK
      <4>4. \A d \in Ids : row[d].confirmedBy # a
        BY <4>1 DEF SpentInv
      <4> QED
        BY <4>1, <4>2, <4>3, <4>4 DEF Unspoken
    <3>2. CASE SpendDryRun(f)
      <4> PICK a \in Ids : a = executor[f].id /\ a = executor'[f].id
        BY <2>3, <3>2 DEF SpendDryRun, Goto, TypeOK
      <4>1. executor[f].pc = "spend" /\ executor'[f].pc = "type" /\ typed' = typed
        BY SMTT(60), <2>3, <3>2 DEF SpendDryRun, Goto, TypeOK
      <4>2. row' = [row EXCEPT ![row[a].confirmOf].confirmedBy = a] /\ row[a].confirmOf \in Ids
        BY SMTT(60), <2>3, <3>2, <4>1 DEF SpendDryRun, Goto, TypeOK, CallInv, CallOK, IsDryRun
      <4>3. row'[a].confirmOf = row[a].confirmOf /\ row'[row[a].confirmOf].confirmedBy = a
        BY <4>2 DEF TypeOK
      <4>4. typed[a] = 0
        BY ZenonT(60), <4>1 DEF SpentInv, Unspoken
      <4> QED
        BY <4>1, <4>3, <4>4 DEF Unspoken
    <3> QED
      BY <2>3, <3>1, <3>2, Entering
  <2> QED
    BY <2>1, <2>2, <2>3
<1> QED
  BY <1>4, <1>5, <1>6 DEF SpentInv

(* Whatever is typed was shown by an accepted dry run. *)
LEMMA BackedWasShown == SendInv /\ TypedInv => TypedWasShown
<1> SUFFICES ASSUME SendInv, TypedInv, NEW a \in Ids, typed[a] > 0
             PROVE  LET d == row[a].confirmOf
                    IN  d # None /\ shown[d] = Message(a) /\ row[a].doIt /\ row[d].doIt
  BY DEF TypedWasShown
<1> DEFINE d == row[a].confirmOf
<1>1. ~IsDryRun(a) /\ row[a].state \in Claimed /\ Backed(a)
  BY DEF TypedInv
<1>2. d \in Ids /\ row[d].state = "executed" /\ row[d].preview /\ IsDryRun(d)
  BY <1>1 DEF IsDryRun, Backed, SendInv, TypeOK
<1>3. row[d].thread = row[a].thread /\ row[d].text = FinalText(a)
  BY <1>1 DEF Backed
<1>4. row[d].text = FinalText(d) /\ shown[d] = Message(d) /\ row[d].doIt
  BY <1>2 DEF SendInv, AcceptedInv
<1> QED
  BY <1>1, <1>2, <1>3, <1>4 DEF Message, SendInv, AcceptedInv

-----------------------------------------------------------------------------
(* The inductive invariant of the rows and the calls in flight. *)
THEOREM SendInvariant == Spec => []SendInv
<1>1. SendInv /\ [Next]_vars => SendInv'
  BY NextTypeOK, NextAcceptedInv, NextCallInv DEF SendInv
<1> QED
  BY InitSendInv, <1>1, PTL DEF Spec

(* Every variable keeps its type, and every row says what to send. *)
THEOREM SendTypeCorrect == Spec => [](TypeOK /\ ContentInv)
<1>1. SendInv => TypeOK /\ ContentInv
  BY DEF SendInv
<1> QED
  BY SendInvariant, <1>1, PTL

(* What is typed, as well: of an adapter that types nothing for a dry run. *)
THEOREM PermitInvariant == ~DryRunTypes => (Spec => []PermitInv)
<1> SUFFICES ASSUME ~DryRunTypes PROVE Spec => []PermitInv
  OBVIOUS
<1>1. Init => PermitInv
  BY InitSendInv DEF Init, PermitInv, TypedInv, SpentInv, Unspoken
<1>2. PermitInv /\ [Next]_vars => PermitInv'
  BY NextTypeOK, NextAcceptedInv, NextCallInv, NextTypedInv, NextSpentInv DEF SendInv,
     PermitInv
<1> QED
  BY <1>1, <1>2, PTL DEF Spec

(* What reaches the KakaoTalk window is what a dry run showed, word for    *)
(* word and on the same thread, and a person accepted both.                *)
THEOREM TypedOnlyWhatWasShown == ~DryRunTypes => (Spec => []TypedWasShown)
<1>1. PermitInv => TypedWasShown
  BY BackedWasShown DEF PermitInv
<1> QED
  BY PermitInvariant, <1>1, PTL

-----------------------------------------------------------------------------
(* The gate of the dry runs implements OneShotPermit.                       *)

(* The messages MessagesFor counts. *)
Sent(d) ==
  {m \in Ids \X (1 .. 2) :
     LET a == m[1]
     IN  m[2] <= typed[a] /\ (row[a].confirmOf = d \/ (a = d /\ IsDryRun(a)))}

(* The messages typed for a dry run: none but the one of its spender. *)
LEMMA SentBySpender ==
  ASSUME PermitInv, NEW d \in Ids
  PROVE  Sent(d) = {m \in Ids \X {1} : typed[m[1]] = 1 /\ row[d].confirmedBy = m[1]
                                         /\ row[m[1]].confirmOf = d}
<1> USE DEF PermitInv, SendInv, TypeOK
<1>1. ASSUME NEW a \in Ids, typed[a] # 0, row[a].confirmOf = d \/ (a = d /\ IsDryRun(a))
      PROVE  typed[a] = 1 /\ row[d].confirmedBy = a /\ row[a].confirmOf = d
  BY <1>1 DEF SpentInv, TypedInv
<1>2. ASSUME NEW m \in Ids \X (1 .. 2), m \in Sent(d)
      PROVE  m \in Ids \X {1} /\ typed[m[1]] = 1 /\ row[d].confirmedBy = m[1]
               /\ row[m[1]].confirmOf = d
  <2>1. m[1] \in Ids /\ m[2] \in 1 .. 2 /\ m[2] <= typed[m[1]] /\ m = <<m[1], m[2]>>
    BY <1>2 DEF Sent
  <2>2. typed[m[1]] = 1 /\ row[d].confirmedBy = m[1] /\ row[m[1]].confirmOf = d
    BY <1>1, <1>2, <2>1 DEF Sent
  <2> QED
    BY <2>1, <2>2
<1> QED
  BY <1>2 DEF Sent

SentOf ==
  [d \in Ids |->
     LET b == row[d].confirmedBy
     IN  IF b # None /\ typed[b] = 1 /\ row[b].confirmOf = d THEN 1 ELSE 0]

CountsSpender == \A d \in Ids : Cardinality(Sent(d)) = SentOf[d]

(* At most one message was typed for a dry run, and its spender's. *)
LEMMA SentCount == PermitInv => CountsSpender
<1> SUFFICES ASSUME PermitInv, NEW d \in Ids PROVE Cardinality(Sent(d)) = SentOf[d]
  BY DEF CountsSpender
<1> DEFINE b == row[d].confirmedBy
<1>1. CASE b # None /\ typed[b] = 1 /\ row[b].confirmOf = d
  <2>1. b \in Ids
    BY <1>1 DEF PermitInv, SendInv, TypeOK
  <2>2. Sent(d) = {<<b, 1>>}
    BY <1>1, <2>1, SentBySpender
  <2> QED
    BY <1>1, <2>2, FS_Singleton DEF SentOf
<1>2. CASE ~(b # None /\ typed[b] = 1 /\ row[b].confirmOf = d)
  <2>1. Sent(d) = {}
    BY <1>2, SentBySpender
  <2> QED
    BY <1>2, <2>1, FS_EmptySet DEF SentOf
<1> QED
  BY <1>1, <1>2
(* What was typed stays counted for the dry run it was typed for. *)
LEMMA SentStays ==
  ASSUME PermitInv, PermitInv', [Next]_vars, UNCHANGED typed PROVE UNCHANGED MessagesFor
<1> SUFFICES ASSUME NEW d \in Ids PROVE Cardinality(Sent(d))' = Cardinality(Sent(d))
  BY DEF MessagesFor, Sent
<1>1. ASSUME NEW a \in Ids, typed[a] # 0
      PROVE  row'[a].confirmOf = row[a].confirmOf /\ IsDryRun(a)' = IsDryRun(a)
  <2>1. row[a].state \in Claimed
    BY <1>1 DEF PermitInv, TypedInv, SendInv, TypeOK
  <2> QED
    BY <2>1, AcceptedRowStays DEF PermitInv, SendInv, IsDryRun
<1>2. \A m \in Ids \X (1 .. 2) : m[2] <= typed[m[1]] => typed[m[1]] # 0
  BY DEF PermitInv, SendInv, TypeOK
<1>3. Sent(d)' = Sent(d)
  BY <1>1, <1>2 DEF Sent
<1> QED
  BY <1>3

(* One row moves, and its permit alone. *)
LEMMA PermitMoves ==
  ASSUME NEW a \in Ids, \A b \in Ids \ {a} : row'[b] = row[b]
  PROVE  DryRunPermit' = [DryRunPermit EXCEPT ![a] = DryRunPermit'[a]]
<1>1. \A b \in Ids \ {a} : DryRunPermit'[b] = DryRunPermit[b]
  BY DEF DryRunPermit, IsDryRun
<1>2. /\ DryRunPermit = [b \in Ids |-> DryRunPermit[b]]
      /\ DryRunPermit' = [b \in Ids |-> DryRunPermit'[b]]
  BY DEF DryRunPermit
<1> QED
  BY <1>1, <1>2

(* A step of the rows asks, grants, refuses or uses the permit of one dry  *)
(* run, or none.                                                           *)
LEMMA RowsMovePermits ==
  ASSUME PermitInv, PermitInv', [Next]_vars, UNCHANGED typed
  PROVE  [Permit!Next]_(Permit!vars)
<1> USE DEF PermitInv, SendInv
<1>0. UNCHANGED MessagesFor
  BY SentStays
<1>1. RowMoves
  BY NextRowMoves
<1>2. ASSUME NEW a \in Ids, \A b \in Ids \ {a} : row'[b] = row[b],
             \/ DryRunPermit'[a] = DryRunPermit[a]
             \/ DryRunPermit[a] = "absent" /\ DryRunPermit'[a] = "asked"
             \/ DryRunPermit[a] = "asked" /\ DryRunPermit'[a] \in {"granted", "refused"}
             \/ DryRunPermit[a] = "granted" /\ DryRunPermit'[a] = "used"
      PROVE  [Permit!Next]_(Permit!vars)
  <2>1. DryRunPermit' = [DryRunPermit EXCEPT ![a] = DryRunPermit'[a]]
    BY <1>2, PermitMoves
  <2>2. DryRunPermit'[a] = DryRunPermit[a] => UNCHANGED DryRunPermit
    <3>1. DryRunPermit = [b \in Ids |-> DryRunPermit[b]]
      BY DEF DryRunPermit
    <3> QED
      BY <2>1, <3>1
  <2> QED
    BY <1>0, <1>2, <2>1, <2>2 DEF Permit!Next, Permit!vars, Permit!Ask, Permit!Grant,
       Permit!Refuse, Permit!Use, Permit!Move
<1>3. CASE UNCHANGED row
  BY <1>0, <1>3 DEF Permit!vars, DryRunPermit, IsDryRun
<1>4. ASSUME NEW a \in Ids, Proposed(a) PROVE [Permit!Next]_(Permit!vars)
  <2>1. DryRunPermit[a] = "absent" /\ DryRunPermit'[a] \in {"absent", "asked"}
    BY <1>4 DEF Proposed, DryRunPermit, IsDryRun, TypeOK
  <2> QED
    BY <1>2, <1>4, <2>1 DEF Proposed, TypeOK
<1>5. ASSUME NEW a \in Ids, Decided(a) PROVE [Permit!Next]_(Permit!vars)
  <2>1. \/ DryRunPermit'[a] = DryRunPermit[a]
        \/ DryRunPermit[a] = "asked" /\ DryRunPermit'[a] = "refused"
    <3>1. /\ row[a].state = "pending" /\ row'[a].state = "decided"
          /\ row'[a].confirmOf = row[a].confirmOf /\ row'[a].doIt \in BOOLEAN
      BY <1>5 DEF Decided, TypeOK
    <3>2. DryRunPermit[a] = IF IsDryRun(a) THEN "asked" ELSE "absent"
      BY <3>1 DEF DryRunPermit
    <3>3. DryRunPermit'[a] = IF ~IsDryRun(a)' THEN "absent"
                             ELSE IF ~row'[a].doIt THEN "refused" ELSE "asked"
      <4>1. CASE ~IsDryRun(a)'
        BY <3>1, <4>1 DEF DryRunPermit, IsDryRun
      <4>2. CASE IsDryRun(a)' /\ ~row'[a].doIt
        BY <3>1, <4>2 DEF DryRunPermit
      <4>3. CASE IsDryRun(a)' /\ row'[a].doIt
        BY <3>1, <4>3 DEF DryRunPermit
      <4> QED
        BY <4>1, <4>2, <4>3
    <3> QED
      BY <3>1, <3>2, <3>3 DEF IsDryRun
  <2> QED
    BY <1>2, <1>5, <2>1 DEF Decided, TypeOK
<1>6. ASSUME NEW a \in Ids, Moved(a) PROVE [Permit!Next]_(Permit!vars)
  <2>1. row[a].confirmedBy = None
    BY <1>6 DEF Moved, SpentInv
  <2>2. \/ DryRunPermit'[a] = DryRunPermit[a]
        \/ DryRunPermit[a] = "asked" /\ DryRunPermit'[a] \in {"granted", "refused"}
    <3>1. /\ row[a].state \in {"decided", "executing"} /\ row[a].doIt /\ row'[a].state \in Claimed
          /\ row'[a].confirmOf = row[a].confirmOf /\ row'[a].confirmedBy = row[a].confirmedBy
      BY <1>6 DEF Moved, TypeOK
    <3>2. DryRunPermit[a] = IF IsDryRun(a) THEN "asked" ELSE "absent"
      BY <3>1 DEF DryRunPermit
    <3>3. DryRunPermit'[a] = IF ~IsDryRun(a)' THEN "absent"
                             ELSE IF row'[a].state = "executed" THEN "granted"
                             ELSE IF row'[a].state = "failed" THEN "refused" ELSE "asked"
      <4>1. CASE ~IsDryRun(a)'
        BY <3>1, <4>1 DEF DryRunPermit, IsDryRun
      <4>2. CASE IsDryRun(a)' /\ row'[a].state = "executed"
        BY <2>1, <3>1, <4>2 DEF DryRunPermit
      <4>3. CASE IsDryRun(a)' /\ row'[a].state # "executed"
        BY <3>1, <4>3 DEF DryRunPermit
      <4> QED
        BY <4>1, <4>2, <4>3
    <3> QED
      BY <3>1, <3>2, <3>3 DEF IsDryRun
  <2> QED
    BY <1>2, <1>6, <2>2 DEF Moved, TypeOK
<1>7. ASSUME NEW a \in Ids, Stored(a) PROVE [Permit!Next]_(Permit!vars)
  <2>1. DryRunPermit'[a] = DryRunPermit[a]
    BY <1>7 DEF Stored, DryRunPermit, IsDryRun, TypeOK
  <2> QED
    BY <1>2, <1>7, <2>1 DEF Stored, TypeOK
<1>8. ASSUME NEW b \in Ids, NEW d \in Ids, Spent(b, d) PROVE [Permit!Next]_(Permit!vars)
  <2>1. DryRunPermit[d] = "granted" /\ DryRunPermit'[d] = "used"
    BY <1>8 DEF Spent, DryRunPermit, IsDryRun, TypeOK
  <2> QED
    BY <1>2, <1>8, <2>1 DEF Spent, TypeOK
<1> QED
  BY <1>1, <1>3, <1>4, <1>5, <1>6, <1>7, <1>8 DEF RowMoves

(* The message that is typed is the one act of the dry run it spent. *)
LEMMA TypingActs ==
  ASSUME ~DryRunTypes, PermitInv, PermitInv', [Next]_vars, typed' # typed
  PROVE  Permit!Next
<1> USE DEF PermitInv, SendInv
<1>1. PICK e \in Executors : /\ executor[e].pc = "type"
                             /\ typed' = [typed EXCEPT ![executor[e].id] = @ + 1]
                             /\ UNCHANGED row
  BY TypedMoves
<1> PICK a \in Ids : a = executor[e].id
  BY <1>1 DEF TypeOK
<1> PICK d \in Ids : d = row[a].confirmOf
  BY <1>1 DEF CallInv, CallOK, IsDryRun, TypeOK
<1>2. typed[a] = 0 /\ row[d].confirmedBy = a /\ typed'[a] = 1
  BY <1>1 DEF SpentInv, Unspoken, TypeOK
<1>3. /\ \A c \in Ids : MessagesFor[c] = SentOf[c] /\ MessagesFor'[c] = SentOf'[c]
      /\ MessagesFor = [c \in Ids |-> MessagesFor[c]]
      /\ MessagesFor' = [c \in Ids |-> MessagesFor'[c]]
  <2>1. (PermitInv => CountsSpender)'
    BY SentCount, PTL
  <2> QED
    BY ZenonT(60), <2>1, SentCount DEF CountsSpender, MessagesFor, Sent
<1>4. SentOf[d] = 0 /\ SentOf'[d] = 1
  BY ZenonT(60), <1>1, <1>2 DEF SentOf
<1>5. ASSUME NEW c \in Ids \ {d} PROVE SentOf'[c] = SentOf[c]
  BY <1>1, <1>2 DEF SentOf, TypeOK
<1>6. MessagesFor[d] = 0 /\ MessagesFor' = [MessagesFor EXCEPT ![d] = 1]
  <2>1. \A c \in Ids : MessagesFor'[c] = IF c = d THEN 1 ELSE MessagesFor[c]
    <3>1. ASSUME NEW c \in Ids PROVE MessagesFor'[c] = IF c = d THEN 1 ELSE MessagesFor[c]
      BY ZenonT(60), <1>3, <1>4, <1>5
    <3> QED
      BY <3>1
  <2>2. MessagesFor' = [c \in Ids |-> IF c = d THEN 1 ELSE MessagesFor[c]]
    BY <2>1 DEF MessagesFor
  <2>3. MessagesFor[d] = 0
    BY <1>3, <1>4
  <2>4. MessagesFor = [c \in Ids |-> MessagesFor[c]]
    BY DEF MessagesFor
  <2> QED
    BY <2>2, <2>3, <2>4
<1>7. DryRunPermit[d] = "used"
  BY <1>2 DEF DryRunPermit, SpentInv, IsDryRun
<1>8. UNCHANGED DryRunPermit
  BY <1>1 DEF DryRunPermit, IsDryRun
<1> QED
  BY <1>6, <1>7, <1>8 DEF Permit!Next, Permit!Act

(* capture-relay.ts keeps the promise of the one-shot permit: a dry run is *)
(* asked for, granted once, used up by one confirm, and typed once.        *)
THEOREM DryRunImplementsPermit == ~DryRunTypes => (Spec => OneMessagePerDryRun)
<1> SUFFICES ASSUME ~DryRunTypes PROVE Spec => OneMessagePerDryRun
  OBVIOUS
<1>1. Init => Permit!Init
  <2> SUFFICES ASSUME Init PROVE Permit!Init
    OBVIOUS
  <2>1. PermitInv
    BY InitSendInv DEF Init, PermitInv, TypedInv, SpentInv, Unspoken
  <2>2. \A d \in Ids : Cardinality(Sent(d)) = 0
    BY <2>1, SentCount DEF Init, CountsSpender, SentOf
  <2> QED
    BY <2>2 DEF Init, Permit!Init, DryRunPermit, MessagesFor, Sent
<1>2. PermitInv /\ PermitInv' /\ [Next]_vars => [Permit!Next]_(Permit!vars)
  BY RowsMovePermits, TypingActs
<1>3. Spec => []PermitInv
  BY PermitInvariant
<1> QED
  BY <1>1, <1>2, <1>3, PTL DEF Spec, OneMessagePerDryRun, Permit!Spec

-----------------------------------------------------------------------------
(* Mail: a note is acknowledged when its mail is in.                       *)

\* The mail is in the inbox, and the item it announces is.
MailIsIn(m) == m \in stored /\ (m \in Notifications => m \in previews)

\* The mail is still to come on the page of the generator.
OnPage(m) == \E i \in 1 .. Len(gen.todo) : gen.todo[i] = m

PageTyped ==
  /\ gen \in [at : {"wait", "page", "preview"}, todo : Seq(Nat), note : Nat, next : Nat,
              link : Nat]
  /\ gen.at = "preview" => gen.todo # <<>> /\ Head(gen.todo) \in stored

\* What the generator will acknowledge next is in, on its page, or off the list.
NoteIsCarried ==
  gen.at # "wait" =>
    /\ gen.note \in 1 .. arrived
    /\ Hidden(gen.note) \/ MailIsIn(gen.note) \/ OnPage(gen.note)

AckedAreIn ==
  \A m \in (1 .. arrived) \ unacked : Hidden(m) \/ MailIsIn(m)

GmailInv ==
  /\ arrived \in Nat /\ unacked \subseteq 1 .. arrived
  /\ PageTyped /\ NoteIsCarried /\ AckedAreIn

MailInv == service = "gmail" => GmailInv

\* The newest mails, down to the one the list ends with.
LEMMA NewestMails ==
  ASSUME NEW n \in Nat, arrived \in Nat
  PROVE  /\ Newest(n) \in Seq(Nat)
         /\ \A m \in 1 .. arrived : arrived < m + n =>
              \E i \in 1 .. Len(Newest(n)) : Newest(n)[i] = m
<1> DEFINE k == Min({n, arrived})
<1>1. k \in Nat /\ k <= arrived /\ (k = n \/ k = arrived)
  <2>1. \E x \in {n, arrived} : \A y \in {n, arrived} : x <= y
    <3>1. CASE n <= arrived
      BY <3>1
    <3>2. CASE arrived <= n
      BY <3>2
    <3> QED
      BY <3>1, <3>2
  <2>2. k \in {n, arrived} /\ \A y \in {n, arrived} : k <= y
    BY <2>1 DEF Min
  <2> QED
    BY <2>2
<1>2. Newest(n) = [i \in 1 .. k |-> arrived + 1 - i]
  BY DEF Newest
<1> HIDE DEF k
<1>3. \A i \in 1 .. k : arrived + 1 - i \in Nat
  BY <1>1
<1>4. Newest(n) \in Seq(Nat) /\ Len(Newest(n)) = k
  BY <1>1, <1>2, <1>3
<1>5. ASSUME NEW m \in 1 .. arrived, arrived < m + n
      PROVE  \E i \in 1 .. Len(Newest(n)) : Newest(n)[i] = m
  <2>1. arrived + 1 - m \in 1 .. k
    BY <1>1, <1>5
  <2>2. Newest(n)[arrived + 1 - m] = m
    BY <1>2, <2>1
  <2> QED
    BY <1>4, <2>1, <2>2
<1> QED
  BY <1>4, <1>5

\* Steps that leave the page and the inbox alone, whatever mail arrives.
LEMMA MailRests ==
  ASSUME GmailInv, UNCHANGED <<service, gen, stored, previews>>, service = "gmail",
         \/ UNCHANGED <<arrived, unacked>>
         \/ arrived' = arrived + 1 /\ unacked' = unacked \cup {arrived'}
  PROVE  GmailInv'
<1>1. arrived' \in Nat /\ arrived' >= arrived /\ unacked' \subseteq 1 .. arrived'
      /\ (1 .. arrived') \ unacked' \subseteq (1 .. arrived) \ unacked
      /\ 1 .. arrived \subseteq 1 .. arrived'
  <2>1. CASE UNCHANGED <<arrived, unacked>>
    BY <2>1 DEF GmailInv
  <2>2. CASE arrived' = arrived + 1 /\ unacked' = unacked \cup {arrived'}
    <3>1. arrived \in Nat /\ unacked \subseteq 1 .. arrived
      BY DEF GmailInv
    <3>2. 1 .. arrived' = (1 .. arrived) \cup {arrived'}
      BY <2>2, <3>1
    <3> QED
      BY <2>2, <3>1, <3>2
  <2> QED
    BY <2>1, <2>2
<1>2. \A m \in 1 .. arrived : Hidden(m) => Hidden(m)'
  BY <1>1, MailAssumption DEF MailAssumption, Hidden, GmailInv
<1>3. \A m : MailIsIn(m)' <=> MailIsIn(m)
  BY DEF MailIsIn
<1>4. PageTyped'
  BY DEF GmailInv, PageTyped
<1>5. NoteIsCarried'
  <2> SUFFICES ASSUME gen.at # "wait"
               PROVE  /\ gen.note \in 1 .. arrived'
                      /\ Hidden(gen.note)' \/ MailIsIn(gen.note)' \/ OnPage(gen.note)'
    BY DEF NoteIsCarried
  <2>1. gen.note \in 1 .. arrived /\ (Hidden(gen.note) \/ MailIsIn(gen.note) \/ OnPage(gen.note))
    BY DEF GmailInv, NoteIsCarried
  <2>2. OnPage(gen.note) => OnPage(gen.note)'
    BY DEF OnPage
  <2>3. MailIsIn(gen.note) => MailIsIn(gen.note)'
    BY DEF MailIsIn
  <2>4. Hidden(gen.note) => Hidden(gen.note)'
    BY <1>1, <2>1, MailAssumption DEF MailAssumption, Hidden, GmailInv
  <2> QED
    BY <1>1, <2>1, <2>2, <2>3, <2>4
<1>6. AckedAreIn'
  BY <1>1, <1>2, <1>3 DEF GmailInv, AckedAreIn
<1> QED
  BY <1>1, <1>4, <1>5, <1>6 DEF GmailInv

\* Steps of the generator that acknowledge nothing.
LEMMA PageMoves ==
  ASSUME GmailInv, UNCHANGED <<service, arrived, unacked>>,
         stored \subseteq stored', previews \subseteq previews', PageTyped', NoteIsCarried'
  PROVE  GmailInv'
<1>1. \A m : (Hidden(m)' <=> Hidden(m)) /\ (MailIsIn(m) => MailIsIn(m)')
  BY DEF Hidden, MailIsIn
<1>2. AckedAreIn'
  BY <1>1 DEF GmailInv, AckedAreIn
<1> QED
  BY <1>2 DEF GmailInv

\* A generator that begins anew has acknowledged nothing more.
LEMMA FreshKeeps ==
  ASSUME GmailInv, UNCHANGED <<service, arrived, unacked, stored, previews>>, gen' = Fresh
  PROVE  GmailInv'
<1>1. Fresh.at = "wait" /\ Fresh \in [at : {"wait", "page", "preview"}, todo : Seq(Nat),
                                      note : Nat, next : Nat, link : Nat]
  BY DEF Fresh, NoNote
<1> QED
  BY <1>1, PageMoves DEF PageTyped, NoteIsCarried

\* The first mail of a page is in and goes.
LEMMA FirstGoes ==
  ASSUME GmailInv, UNCHANGED <<service, arrived, unacked>>, gen.at # "wait", gen.todo # <<>>,
         stored \subseteq stored', previews \subseteq previews',
         \A m : m = Head(gen.todo) => MailIsIn(m)',
         gen' = [gen EXCEPT !.at = "page", !.todo = Tail(@)]
  PROVE  GmailInv'
<1>1. /\ gen.todo \in Seq(Nat) /\ gen'.at = "page" /\ gen'.todo = Tail(gen.todo)
      /\ gen'.note = gen.note
      /\ gen' \in [at : {"wait", "page", "preview"}, todo : Seq(Nat), note : Nat, next : Nat,
                   link : Nat]
  <2>1. gen \in [at : {"wait", "page", "preview"}, todo : Seq(Nat), note : Nat, next : Nat,
                 link : Nat]
    BY DEF GmailInv, PageTyped
  <2>2. gen' = [at |-> "page", todo |-> Tail(gen.todo), note |-> gen.note, next |-> gen.next,
                link |-> gen.link]
    BY <2>1
  <2>3. gen.todo \in Seq(Nat) /\ gen.note \in Nat /\ gen.next \in Nat /\ gen.link \in Nat
    BY <2>1
  <2>4. Tail(gen.todo) \in Seq(Nat)
    BY <2>3
  <2> QED
    BY <2>2, <2>3, <2>4
<1>2. PageTyped'
  BY <1>1 DEF PageTyped
<1>3. NoteIsCarried'
  <2>0. PICK n \in 1 .. arrived : n = gen.note
    BY DEF GmailInv, NoteIsCarried
  <2>1. Hidden(n) \/ MailIsIn(n) \/ OnPage(n)
    BY <2>0 DEF GmailInv, NoteIsCarried
  <2>2. gen'.note = n
    BY <1>1, <2>0
  <2>3. Hidden(n) => Hidden(n)'
    BY DEF Hidden
  <2>4. MailIsIn(n) => MailIsIn(n)'
    BY DEF MailIsIn
  <2>5. OnPage(n) => n = Head(gen.todo) \/ OnPage(n)'
    <3> SUFFICES ASSUME OnPage(n), n # Head(gen.todo)
                 PROVE  \E i \in 1 .. Len(Tail(gen.todo)) : Tail(gen.todo)[i] = n
      BY <1>1 DEF OnPage
    <3>1. PICK i \in 1 .. Len(gen.todo) : gen.todo[i] = n
      BY DEF OnPage
    <3>2. i # 1 /\ i \in Nat
      BY <1>1, <3>1
    <3>3. i - 1 \in 1 .. Len(Tail(gen.todo)) /\ Tail(gen.todo)[i - 1] = n
      BY SMTT(60), <1>1, <3>1, <3>2
    <3> QED
      BY <3>3
  <2> QED
    BY <2>1, <2>2, <2>3, <2>4, <2>5 DEF NoteIsCarried
<1> QED
  BY <1>2, <1>3, PageMoves

\* Every action of the mail feed keeps the invariant.
LEMMA MailKept ==
  ASSUME MailInv, [MailNext]_mvars
  PROVE  MailInv'
<1> SUFFICES ASSUME service' = "gmail"
             PROVE  GmailInv'
  BY DEF MailInv
<1>1. service = "gmail" /\ service' = service /\ GmailInv
  BY DEF MailInv, MailNext, mvars, remote, items, Arrive, Expire, PullAndList, DeltaPage, EventsPage,
         Gone, Deliver, DeliverPreview, PageDone, Fails, Retry, HubRestart
<1>2. CASE Arrive \/ Retry \/ UNCHANGED mvars \/ Expire
  BY <1>1, <1>2, MailRests DEF Arrive, Retry, Expire, mvars, remote, items
<1>3. CASE PullAndList
  <2>1. PICK note \in unacked :
          gen' = [gen EXCEPT !.at = "page", !.note = note, !.todo = Newest(ListMax)]
    BY <1>3 DEF PullAndList
  <2>2. Newest(ListMax) \in Seq(Nat) /\ note \in 1 .. arrived /\ note \in Nat /\ arrived \in Nat
        /\ (arrived < note + ListMax =>
              \E i \in 1 .. Len(Newest(ListMax)) : Newest(ListMax)[i] = note)
    <3>1. arrived \in Nat /\ note \in 1 .. arrived
      BY <1>1, <2>1 DEF GmailInv
    <3>2. note \in Nat
      BY <3>1
    <3>3. /\ Newest(ListMax) \in Seq(Nat)
          /\ \A m \in 1 .. arrived : arrived < m + ListMax =>
               \E i \in 1 .. Len(Newest(ListMax)) : Newest(ListMax)[i] = m
      BY <3>1, NewestMails, MailAssumption DEF MailAssumption
    <3> QED
      BY <3>1, <3>2, <3>3
  <2>3. /\ gen'.at = "page" /\ gen'.todo = Newest(ListMax) /\ gen'.note = note
        /\ gen' \in [at : {"wait", "page", "preview"}, todo : Seq(Nat), note : Nat, next : Nat,
                     link : Nat]
    BY <1>1, <2>1, <2>2 DEF GmailInv, PageTyped
  <2>4. UNCHANGED <<service, arrived, unacked, stored, previews>>
    BY <1>3 DEF PullAndList, remote, items
  <2>5. PageTyped'
    BY <2>3 DEF PageTyped
  <2>6. Hidden(note)' \/ OnPage(note)'
    BY <1>1, <2>2, <2>3, <2>4, MailAssumption DEF MailAssumption, Hidden, OnPage
  <2>7. NoteIsCarried'
    BY <2>2, <2>3, <2>4, <2>6 DEF NoteIsCarried, Hidden, OnPage
  <2> QED
    BY <1>1, <2>4, <2>5, <2>7, PageMoves
<1>4. CASE Gone
  <2>1. /\ gen' = [gen EXCEPT !.link = 0] /\ UNCHANGED <<arrived, unacked, stored, previews>>
        /\ gen.at = "wait"
    BY <1>4 DEF Gone, items
  <2>2. PageTyped' /\ gen'.at = "wait"
    BY <1>1, <2>1 DEF GmailInv, PageTyped
  <2> QED
    BY <1>1, <2>1, <2>2, PageMoves DEF NoteIsCarried
<1>5. CASE Deliver
  <2>1. /\ gen.at = "page" /\ gen.todo # <<>> /\ stored' = stored \cup {Head(gen.todo)}
        /\ UNCHANGED <<arrived, unacked, previews>>
    BY <1>5 DEF Deliver, remote
  <2>2. gen.todo \in Seq(Nat) /\ PageTyped /\ NoteIsCarried
    BY <1>1 DEF GmailInv, PageTyped
  <2>3. CASE Head(gen.todo) \in Notifications
    <3>1. gen' = [gen EXCEPT !.at = "preview"]
      BY <1>1, <1>5, <2>3 DEF Deliver
    <3>2. /\ gen'.at = "preview" /\ gen'.todo = gen.todo /\ gen'.note = gen.note
          /\ gen' \in [at : {"wait", "page", "preview"}, todo : Seq(Nat), note : Nat, next : Nat,
                       link : Nat]
      BY <2>2, <3>1 DEF PageTyped
    <3>3. PageTyped'
      BY <2>1, <3>2 DEF PageTyped
    <3>4. NoteIsCarried'
      BY <1>1, <2>1, <2>2, <3>2 DEF NoteIsCarried, Hidden, MailIsIn, OnPage
    <3> QED
      BY <1>1, <2>1, <3>3, <3>4, PageMoves
  <2>4. CASE Head(gen.todo) \notin Notifications
    <3>1. gen' = [gen EXCEPT !.todo = Tail(@)]
      BY <1>5, <2>4 DEF Deliver
    <3>2. gen' = [gen EXCEPT !.at = "page", !.todo = Tail(@)]
      BY <2>1, <2>2, <3>1 DEF PageTyped
    <3>3. \A m : m = Head(gen.todo) => MailIsIn(m)'
      BY <2>1, <2>4 DEF MailIsIn
    <3> QED
      BY <1>1, <2>1, <3>2, <3>3, FirstGoes
  <2> QED
    BY <2>3, <2>4
<1>6. CASE DeliverPreview
  <2>1. /\ gen.at = "preview" /\ previews' = previews \cup {Head(gen.todo)}
        /\ gen' = [gen EXCEPT !.at = "page", !.todo = Tail(@)]
        /\ UNCHANGED <<arrived, unacked, stored>>
    BY <1>6 DEF DeliverPreview, remote
  <2>2. gen.todo # <<>> /\ Head(gen.todo) \in stored
    BY <1>1, <2>1 DEF GmailInv, PageTyped
  <2>3. \A m : m = Head(gen.todo) => MailIsIn(m)'
    BY <2>1, <2>2 DEF MailIsIn
  <2> QED
    BY <1>1, <2>1, <2>2, <2>3, FirstGoes
<1>7. CASE PageDone
  <2>1. /\ gen.at = "page" /\ gen.todo = <<>> /\ unacked' = unacked \ {gen.note}
        /\ gen' = [Fresh EXCEPT !.link = gen.next] /\ UNCHANGED <<arrived, stored, previews>>
    BY <1>7 DEF PageDone, items
  <2>2. gen'.at = "wait" /\ gen' \in [at : {"wait", "page", "preview"}, todo : Seq(Nat),
                                      note : Nat, next : Nat, link : Nat]
    <3>1. gen.next \in Nat
      BY <1>1 DEF GmailInv, PageTyped
    <3>2. gen' = [at |-> "wait", todo |-> <<>>, note |-> 0, next |-> 0, link |-> gen.next]
      BY <2>1 DEF Fresh, NoNote
    <3> QED
      BY <3>1, <3>2
  <2>3. Hidden(gen.note) \/ MailIsIn(gen.note)
    BY <1>1, <2>1 DEF GmailInv, NoteIsCarried, OnPage
  <2>4. \A m : (Hidden(m)' <=> Hidden(m)) /\ (MailIsIn(m)' <=> MailIsIn(m))
    BY <1>1, <2>1 DEF Hidden, MailIsIn
  <2>5. AckedAreIn'
    BY <1>1, <2>1, <2>3, <2>4 DEF GmailInv, AckedAreIn
  <2> QED
    BY <1>1, <2>1, <2>2, <2>5 DEF GmailInv, PageTyped, NoteIsCarried
<1>8. CASE Fails \/ HubRestart
  BY <1>1, <1>8, FreshKeeps DEF Fails, HubRestart, items
<1> QED
  BY <1>1, <1>2, <1>3, <1>4, <1>5, <1>6, <1>7, <1>8 DEF MailNext, DeltaPage, EventsPage

\* A note on its way is carried by its page, whatever pages fail, tokens expire
\* and hubs restart (gmail/index.ts pull, hub/adapters.ts).
THEOREM MailInvariant == MailSpec => []MailInv
<1>1. MailInit => MailInv
  <2> SUFFICES ASSUME MailInit
               PROVE  GmailInv
    BY DEF MailInv
  <2>1. gen.at = "wait" /\ gen \in [at : {"wait", "page", "preview"}, todo : Seq(Nat),
                                    note : Nat, next : Nat, link : Nat]
    BY DEF MailInit, Fresh, NoNote
  <2> QED
    BY <2>1 DEF MailInit, GmailInv, PageTyped, NoteIsCarried, AckedAreIn
<1>2. MailInv /\ [MailNext]_mvars => MailInv'
  BY MailKept
<1> QED
  BY <1>1, <1>2, PTL DEF MailSpec

\* AckedIsStored: what Pub/Sub was told to forget is in the inbox, its derived
\* item too, unless newer mail had pushed it off the list.
THEOREM AcknowledgedIsIn == MailSpec => []AckedIsStored
<1>1. MailInv => AckedIsStored
  BY DEF MailInv, GmailInv, AckedAreIn, AckedIsStored, MailIsIn
<1> QED
  BY <1>1, MailInvariant, PTL

=================================================================================
