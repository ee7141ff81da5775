--------------------------- MODULE DesktopCompose ---------------------------
(***************************************************************************)
(* What a person writes at the desktop, from the key that types it to the  *)
(* row that stores it.  A behaviour is about one kind of box:              *)
(*                                                                         *)
(*   reply  the composer under a conversation (Thread.tsx,                 *)
(*          reply-composer.tsx, the hub's reply.ts).  Thread is drawn      *)
(*          without a key, so the composer outlives a change of thread;    *)
(*          it does not outlive the segment that shows it;                 *)
(*   line   the one-line inputs of Notes and of the quick-add of Tasks     *)
(*          (the hub's notes.ts, tasks.ts): they go with their screen;     *)
(*   card   the editor of the card on top of the approval stack            *)
(*          (approval-stack.tsx, approval-card.tsx).  The stack draws its  *)
(*          top card without a key, so the editor outlives the approval it *)
(*          was opened on.                                                 *)
(*                                                                         *)
(* A text is the set of its words, and a word is about the subject on the  *)
(* screen when it was typed.  Sorting the stack by risk is left out (its   *)
(* approvals tie), the card's prompt is one step with its confirmation,    *)
(* Respond's field is the editor's, and the undo and the retry of a        *)
(* decision are those of DesktopToasts.                                    *)
(***************************************************************************)
EXTENDS Naturals, Sequences, FiniteSets, SequencesExt

CONSTANTS
  Subjects,         \* threads, or approvals in the order they are proposed
  MaxWords,         \* bound on the words typed
  Hasty,            \* whether the person types while a request is out, ...
  Wanders,          \* ... and goes on with text left behind in the box
  MaxComposeFaults  \* bound on requests or answers that are lost

Kinds == {"reply", "line", "card"}

VARIABLES
  field,      \* the box on screen: its kind, whether it is open, the words in it
  shown,      \* the thread of the pane; the approval picked in the stack
  queue,      \* approvals in the stack, newest first
  unborn,     \* approvals to come
  segment,    \* Thread shows the conversation; composing outlives another segment
  about,      \* word -> what it was typed about
  out,        \* requests under way
  kept,       \* what the hub stored, in order
  thrown,     \* words the person gave up
  lost        \* requests or answers lost so far

composeVars == <<field, shown, queue, unborn, segment, about, out, kept, thrown, lost>>

ComposeInit ==
  /\ field \in [kind : Kinds, open : {FALSE}, words : {{}}]
  /\ shown = IF field.kind = "reply" THEN Subjects[1] ELSE "none"
  /\ segment = "conversation"
  /\ queue = IF field.kind = "card" THEN <<Subjects[1]>> ELSE <<>>
  /\ unborn = IF field.kind = "card" THEN Tail(Subjects) ELSE <<>>
  /\ about = <<>> /\ out = {} /\ kept = <<>> /\ thrown = {} /\ lost = 0

----------------------------------------------------------------------------
(* What the box is about.                                                  *)

Queued == ToSet(queue)

\* ApprovalStack: the pick, while it is in scope, and else the newest.
Active == IF shown \in Queued THEN shown ELSE Head(queue)

Subject == CASE field.kind = "reply" -> shown
             [] field.kind = "line" -> "list"
             [] field.kind = "card" -> Active

Sending == \E r \in out : r.mine
MayMove == Wanders \/ field.words = {}
Waits == Hasty \/ out = {}

NewWord == Len(about) + 1
Writes(words) == field' = [field EXCEPT !.open = TRUE, !.words = words]

\* The box leaves the screen with its text; a request under way no longer has one.
Unmount(fate) ==
  /\ field' = [field EXCEPT !.open = FALSE, !.words = {}]
  /\ thrown' = IF fate = "thrown" THEN thrown \cup field.words ELSE thrown
  /\ out' = {[r EXCEPT !.mine = FALSE] : r \in out}

----------------------------------------------------------------------------
(* The person.                                                             *)

\* openComposer of a thread, the screen of a line.
OpenBox ==
  /\ field.kind # "card" /\ ~field.open /\ Waits
  /\ Writes({}) /\ segment' = "conversation"
  /\ UNCHANGED <<shown, queue, unborn, about, out, kept, thrown, lost>>

\* openEditor: the text starts as the message of the card.
OpenEditor ==
  /\ field.kind = "card" /\ ~field.open /\ queue # <<>> /\ NewWord <= MaxWords
  /\ about' = Append(about, Active) /\ Writes({NewWord})
  /\ UNCHANGED <<shown, queue, unborn, segment, out, kept, thrown, lost>>

Type ==
  /\ field.open /\ Waits /\ NewWord <= MaxWords
  /\ about' = Append(about, Subject) /\ Writes(field.words \cup {NewWord})
  /\ UNCHANGED <<shown, queue, unborn, segment, out, kept, thrown, lost>>

\* Cancel, or Escape and its question; closeEditor; erasing a line.
Cancel ==
  /\ field.open /\ Unmount("thrown")
  /\ UNCHANGED <<shown, queue, unborn, segment, about, kept, lost>>

\* send() of the composer, save(), onSubmitQuickAdd().
Submit ==
  /\ field.open /\ field.kind # "card" /\ ~Sending /\ field.words # {}
  /\ out' = out \cup {[to |-> Subject, words |-> field.words, mine |-> TRUE, at |-> "sent"]}
  /\ UNCHANGED <<field, shown, queue, unborn, segment, about, kept, thrown, lost>>

\* The pane turns to another thread: the composer stays.
OpenThread(s) ==
  /\ field.kind = "reply" /\ s # shown /\ MayMove
  /\ shown' = s
  /\ UNCHANGED <<field, queue, unborn, segment, about, out, kept, thrown, lost>>

\* Another segment, another screen: the box is unmounted.
LeaveView ==
  /\ field.open /\ field.kind # "card" /\ MayMove
  /\ Unmount("lost") /\ segment' = IF field.kind = "reply" THEN "summary" ELSE segment
  /\ UNCHANGED <<shown, queue, unborn, about, kept, lost>>

\* Back to the conversation: composing is still set, and the composer is a new one.
ReturnToView ==
  /\ segment # "conversation" /\ Waits
  /\ segment' = "conversation" /\ Writes({})
  /\ UNCHANGED <<shown, queue, unborn, about, out, kept, thrown, lost>>

----------------------------------------------------------------------------
(* The hub, and its answers.                                               *)

\* proposeReply, createNote, createTask.
Store(r) ==
  /\ r.at = "sent"
  /\ kept' = Append(kept, [to |-> r.to, words |-> r.words])
  /\ out' = (out \ {r}) \cup {[r EXCEPT !.at = "stored"]}
  /\ UNCHANGED <<field, shown, queue, unborn, segment, about, thrown, lost>>

\* The answer empties a line, whatever was typed since, and closes the composer that is open.
Clears(r) ==
  field' = IF field.kind = "reply" THEN [field EXCEPT !.open = FALSE, !.words = {}]
         ELSE IF r.mine THEN [field EXCEPT !.words = {}] ELSE field

AnswerComes(r) ==
  /\ r.at = "stored" /\ Clears(r)
  /\ out' = {[q EXCEPT !.mine = @ /\ field.kind = "line"] : q \in out \ {r}}
  /\ UNCHANGED <<shown, queue, unborn, segment, about, kept, thrown, lost>>

\* Mutant of Keeps: the text goes whatever the answer.
Drops(r) == field' = IF r.mine THEN [field EXCEPT !.words = {}] ELSE field

\* The request or its answer is lost: the text stays where it was.
Keeps(r) == UNCHANGED field

Lost(r) ==
  /\ lost < MaxComposeFaults /\ lost' = lost + 1
  /\ out' = out \ {r} /\ Keeps(r)
  /\ UNCHANGED <<shown, queue, unborn, segment, about, kept, thrown>>

----------------------------------------------------------------------------
(* The stack and its card.                                                 *)

\* The top card is drawn while there is an approval to draw it for.
StackIs(q) ==
  /\ queue' = q
  /\ IF q = <<>> THEN Unmount("lost") ELSE UNCHANGED <<field, thrown, out>>

\* Mutant of Decided: the one the stack would put first.
DecidedPrimary == Head(queue)

\* onDecide is bound to the approval of the card.
Decided == Active

\* The prompt is confirmed: onDecide("edit"), and the approval is hidden.
DecideEdited ==
  /\ field.kind = "card" /\ field.open /\ field.words # {}
  /\ (Wanders \/ \A w \in field.words : about[w] = Active)
  /\ kept' = Append(kept, [to |-> Decided, words |-> field.words])
  /\ StackIs(SelectSeq(queue, LAMBDA a : a # Decided))
  /\ UNCHANGED <<shown, unborn, segment, about, lost>>

Pick(a) ==
  /\ field.kind = "card" /\ a \in Queued /\ a # Active /\ MayMove
  /\ shown' = a
  /\ UNCHANGED <<field, queue, unborn, segment, about, out, kept, thrown, lost>>

\* A new approval is proposed and comes first; one is decided on another device.
Proposed ==
  /\ unborn # <<>> /\ MayMove
  /\ StackIs(<<Head(unborn)>> \o queue) /\ unborn' = Tail(unborn)
  /\ UNCHANGED <<shown, segment, about, kept, lost>>

DecidedElsewhere(a) ==
  /\ a \in Queued /\ MayMove
  /\ StackIs(SelectSeq(queue, LAMBDA b : b # a))
  /\ UNCHANGED <<shown, unborn, segment, about, kept, lost>>

ComposeNext ==
  \/ OpenBox \/ OpenEditor \/ Type \/ Cancel \/ Submit \/ LeaveView \/ ReturnToView
  \/ \E s \in ToSet(Subjects) : OpenThread(s) \/ Pick(s) \/ DecidedElsewhere(s)
  \/ \E r \in out : Store(r) \/ AnswerComes(r) \/ Lost(r)
  \/ DecideEdited \/ Proposed

ComposeSpec == ComposeInit /\ [][ComposeNext]_composeVars

----------------------------------------------------------------------------
(* Properties.                                                             *)

Stored == UNION {k.words : k \in ToSet(kept)}

\* What the hub stores for a thread, or decides for an approval, was written
\* about it: for a person who leaves no text behind in a box that outlives its
\* subject.
KeptWhereWritten == \A k \in ToSet(kept) : \A w \in k.words : about[w] = k.to

\* Words leave a box only when the hub has them or the person gave them up, and
\* stay in it when the request fails: for a person who does not type while a
\* request is out (Tasks.tsx:326-328, Notes.tsx's save, reply-composer.tsx:20-21).
NoWordIsLost == DOMAIN about \subseteq field.words \cup Stored \cup thrown

\* What is written in a box reaches the subject it was written for, and nothing
\* else takes it out of the box.
WordsReachTheirSubject == KeptWhereWritten /\ NoWordIsLost

=============================================================================
