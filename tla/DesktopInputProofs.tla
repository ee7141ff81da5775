-------------------------- MODULE DesktopInputProofs --------------------------
(***************************************************************************)
(* Theorems about what a person does at the desktop: the decisions and     *)
(* tasks that pass through the one toast, and what is written in a box.    *)
(*                                                                         *)
(* An ignore waits only in the toast that can take it back (HeldByToast),  *)
(* and the newest write of a task's box is what the box shows until its    *)
(* row does (Ticks).  What is in a box was written for its subject, and    *)
(* every request that is out carries all of it (SentForSubject), so the    *)
(* answer that clears the box clears nothing unsent.                       *)
(***************************************************************************)
EXTENDS DesktopToasts, DesktopCompose, FiniteSetTheorems, SequenceTheorems, TLAPS

-----------------------------------------------------------------------------
(* The types of the toast.                                                 *)

DecisionStates ==
  {"held", "sent", "applied", "refused", "done", "failed", "undone", "orphan"}

Decisions ==
  [id : Approvals, decision : {"accept", "ignore"}, pc : DecisionStates, hides : BOOLEAN]

TaskWrites ==
  [id : Tasks, done : BOOLEAN, by : {"box", "undo", "retry"}, pc : {"sent", "applied", "done"}]

ToastTypes ==
  [action : {"gone", "none", "undo", "retry", "reopen", "rewrite"}, of : Nat]

CardTypes ==
  /\ approval \in [Approvals -> {"pending", "accept", "ignore"}]
  /\ cards \subseteq Approvals /\ hidden \subseteq Approvals
  /\ decisions \in Seq(Decisions)
  /\ held \in {0} \cup DOMAIN decisions
  /\ toast \in ToastTypes
  /\ toast.action \in {"undo", "retry"} => toast.of \in DOMAIN decisions
  /\ toastFaults \in Nat

TaskTypes ==
  /\ task \subseteq Tasks /\ inSight \subseteq Tasks
  /\ box \in [Tasks -> {"none", "done", "open"}]
  /\ writes \in Seq(TaskWrites)
  /\ toast.action \in {"reopen", "rewrite"} => toast.of \in DOMAIN writes

(* The toast with the Undo holds the decision that waits, and it alone.    *)
HeldByToast ==
  /\ held # 0 => toast.action = "undo" /\ decisions[held].pc = "held"
  /\ toast.action = "undo" => held = toast.of
  /\ \A n \in DOMAIN decisions : decisions[n].pc = "held" => held = n

(* The invariant of the cards.                                             *)
CardInv == CardTypes /\ HeldByToast /\ HiddenIsUnderWay

(* What was taken back stays so.                                           *)
UndoneStays ==
  \A n \in DOMAIN decisions : decisions[n].pc = "undone" => decisions'[n].pc = "undone"

(* What the type says of a decision.                                       *)
LEMMA DecisionFields ==
  ASSUME NEW ds \in Seq(Decisions)
  PROVE  /\ DOMAIN ds = 1 .. Len(ds) /\ Len(ds) \in Nat
         /\ \A n \in DOMAIN ds :
              /\ ds[n] \in Decisions /\ ds[n].id \in Approvals
              /\ ds[n].decision \in {"accept", "ignore"}
              /\ ds[n].pc \in DecisionStates /\ ds[n].hides \in BOOLEAN
<1>1. \A n \in DOMAIN ds : ds[n] \in Decisions
  OBVIOUS
<1> QED
  BY <1>1 DEF Decisions

(* A decision that gets on is about the same approval.                     *)
LEMMA DecisionMoves ==
  ASSUME NEW ds \in Seq(Decisions), NEW n \in DOMAIN ds, NEW to \in DecisionStates,
         NEW es, es = [ds EXCEPT ![n].pc = to]
  PROVE  /\ es \in Seq(Decisions) /\ DOMAIN es = DOMAIN ds
         /\ \A m \in DOMAIN ds :
              /\ es[m].id = ds[m].id /\ es[m].hides = ds[m].hides
              /\ es[m].pc = IF m = n THEN to ELSE ds[m].pc
<1> DEFINE r == [ds[n] EXCEPT !.pc = to]
<1>1. r \in Decisions /\ r.pc = to /\ r.id = ds[n].id /\ r.hides = ds[n].hides
  <2>1. ds[n] \in Decisions
    BY DecisionFields
  <2> QED
    BY <2>1 DEF Decisions
<1>2. es = [ds EXCEPT ![n] = r]
  OBVIOUS
<1> HIDE DEF r
<1>3. /\ es \in Seq(Decisions) /\ Len(es) = Len(ds)
      /\ \A m \in 1 .. Len(ds) : es[m] = IF m = n THEN r ELSE ds[m]
  <2>1. n \in 1 .. Len(ds)
    BY DecisionFields
  <2> QED
    BY SMTT(60), <1>1, <1>2, <2>1, ExceptSeq
<1>4. DOMAIN es = DOMAIN ds
  BY <1>3, DecisionFields
<1> QED
  BY <1>1, <1>3, <1>4, DecisionFields

(* A toast that comes sends what the one before it held back.              *)
LEMMA NotifyMoves ==
  ASSUME NEW ds \in Seq(Decisions), held \in {0} \cup DOMAIN ds,
         NEW action, NEW of, NEW deferred, Notify(ds, action, of, deferred)
  PROVE  /\ decisions' \in Seq(Decisions) /\ DOMAIN decisions' = DOMAIN ds
         /\ \A m \in DOMAIN ds :
              /\ decisions'[m].id = ds[m].id /\ decisions'[m].hides = ds[m].hides
              /\ decisions'[m].pc = IF m = held THEN "sent" ELSE ds[m].pc
         /\ held' = deferred /\ toast' = [action |-> action, of |-> of]
<1>1. /\ decisions' = IF held = 0 THEN ds ELSE [ds EXCEPT ![held].pc = "sent"]
      /\ held' = deferred /\ toast' = [action |-> action, of |-> of]
  BY DEF Notify, RunHeld
<1>2. DOMAIN ds = 1 .. Len(ds) /\ Len(ds) \in Nat
  BY DecisionFields
<1>3. CASE held = 0
  <2>1. \A m \in DOMAIN ds : m # held
    BY <1>2, <1>3
  <2> QED
    BY <1>1, <1>3, <2>1
<1>4. CASE held # 0
  <2>1. held \in DOMAIN ds /\ decisions' = [ds EXCEPT ![held].pc = "sent"]
    BY <1>1, <1>4
  <2>2. "sent" \in DecisionStates
    BY DEF DecisionStates
  <2> QED
    <3>1. /\ decisions' \in Seq(Decisions) /\ DOMAIN decisions' = DOMAIN ds
          /\ \A m \in DOMAIN ds :
               /\ decisions'[m].id = ds[m].id /\ decisions'[m].hides = ds[m].hides
               /\ decisions'[m].pc = IF m = held THEN "sent" ELSE ds[m].pc
      BY <2>1, <2>2, DecisionMoves
    <3> QED
      BY <1>1, <3>1
<1> QED
  BY <1>3, <1>4

(* A card stays hidden for as long as what hides it is under way.          *)
LEMMA HiddenKept ==
  ASSUME CardInv, hidden' \subseteq hidden,
         DOMAIN decisions \subseteq DOMAIN decisions',
         \A n \in DOMAIN decisions :
           decisions'[n].id = decisions[n].id /\ decisions'[n].hides = decisions[n].hides,
         \A a \in hidden' : approval'[a] = "pending" =>
           /\ approval[a] = "pending"
           /\ \A n \in DOMAIN decisions :
                /\ decisions[n].id = a /\ decisions[n].hides /\ decisions[n].pc \in {"held", "sent"}
                => decisions'[n].pc \in {"held", "sent"}
  PROVE  HiddenIsUnderWay'
<1> SUFFICES ASSUME NEW a \in hidden', approval'[a] = "pending"
             PROVE  \E n \in DOMAIN decisions' :
                      /\ decisions'[n].id = a /\ decisions'[n].hides
                      /\ decisions'[n].pc \in {"held", "sent"}
  BY DEF HiddenIsUnderWay
<1>1. PICK n \in DOMAIN decisions :
        decisions[n].id = a /\ decisions[n].hides /\ decisions[n].pc \in {"held", "sent"}
  BY DEF CardInv, HiddenIsUnderWay
<1>2. decisions'[n].pc \in {"held", "sent"} /\ n \in DOMAIN decisions'
  BY <1>1
<1>3. decisions'[n].id = a
  BY <1>1
<1>4. decisions'[n].hides
  <2>1. decisions'[n].hides = decisions[n].hides
    OBVIOUS
  <2> QED
    BY <1>1, <2>1
<1> QED
  BY <1>2, <1>3, <1>4

(* A toast that holds nothing back takes the slot: what was held is sent.  *)
LEMMA Releases ==
  ASSUME CardInv, NEW action \in {"gone", "none", "retry", "reopen", "rewrite"}, NEW of \in Nat,
         NEW ds \in Seq(Decisions), DOMAIN ds = DOMAIN decisions,
         \A m \in DOMAIN decisions :
           /\ ds[m].id = decisions[m].id /\ ds[m].hides = decisions[m].hides
           /\ (ds[m].pc = "held" <=> decisions[m].pc = "held")
           /\ decisions[m].pc = "undone" => ds[m].pc = "undone",
         action = "retry" => of \in DOMAIN decisions,
         Notify(ds, action, of, 0), UNCHANGED <<approval, cards>>,
         hidden' \subseteq hidden, toastFaults' \in Nat,
         \A n \in DOMAIN decisions :
           /\ decisions[n].id \in hidden' /\ decisions[n].hides /\ decisions[n].pc = "sent"
           => ds[n].pc = "sent"
  PROVE  CardInv' /\ UndoneStays
<1>1. /\ approval \in [Approvals -> {"pending", "accept", "ignore"}]
      /\ cards \subseteq Approvals /\ hidden \subseteq Approvals
      /\ held \in {0} \cup DOMAIN decisions
  BY DEF CardInv, CardTypes
<1>2. /\ decisions' \in Seq(Decisions) /\ DOMAIN decisions' = DOMAIN decisions
      /\ \A m \in DOMAIN decisions :
           /\ decisions'[m].id = decisions[m].id /\ decisions'[m].hides = decisions[m].hides
           /\ decisions'[m].pc = IF m = held THEN "sent" ELSE ds[m].pc
      /\ held' = 0 /\ toast' = [action |-> action, of |-> of]
  BY <1>1, NotifyMoves
<1>3. toast' \in ToastTypes /\ toast'.action = action /\ toast'.of = of
  BY <1>2 DEF ToastTypes
<1>4. CardTypes'
  BY <1>1, <1>2, <1>3 DEF CardTypes
<1>5. \A m \in DOMAIN decisions : decisions[m].pc = "held" => m = held
  BY DEF CardInv, HeldByToast
<1>6. HeldByToast'
  BY <1>2, <1>3, <1>5 DEF HeldByToast
<1>7. UndoneStays
  <2>1. \A m \in DOMAIN decisions : m = held => decisions[m].pc = "held"
    BY DecisionFields DEF CardInv, CardTypes, HeldByToast
  <2> QED
    BY <1>2, <2>1 DEF UndoneStays
<1>8. HiddenIsUnderWay'
  <2>1. \A n \in DOMAIN decisions :
          /\ decisions[n].id \in hidden' /\ decisions[n].hides /\ decisions[n].pc \in {"held", "sent"}
          => decisions'[n].pc \in {"held", "sent"}
    BY <1>2
  <2> QED
    BY <1>2, <2>1, HiddenKept
<1> QED
  BY <1>4, <1>6, <1>7, <1>8 DEF CardInv

(* One decision gets on, and the toast stays.                              *)
LEMMA GetsOn ==
  ASSUME CardInv, NEW n \in DOMAIN decisions, NEW to \in DecisionStates \ {"held"},
         decisions[n].pc \notin {"held", "undone"},
         decisions' = [decisions EXCEPT ![n].pc = to], UNCHANGED <<held, toast, cards, hidden>>,
         approval' \in [Approvals -> {"pending", "accept", "ignore"}], toastFaults' \in Nat,
         \A a \in Approvals : approval'[a] = "pending" => approval[a] = "pending",
         \/ decisions[n].pc # "sent" \/ ~decisions[n].hides
         \/ approval'[decisions[n].id] # "pending"
  PROVE  CardInv' /\ UndoneStays
<1>1. /\ decisions \in Seq(Decisions) /\ hidden \subseteq Approvals /\ cards \subseteq Approvals
      /\ held \in {0} \cup DOMAIN decisions /\ toast \in ToastTypes
      /\ toast.action \in {"undo", "retry"} => toast.of \in DOMAIN decisions
  BY DEF CardInv, CardTypes
<1>2. /\ decisions' \in Seq(Decisions) /\ DOMAIN decisions' = DOMAIN decisions
      /\ \A m \in DOMAIN decisions :
           /\ decisions'[m].id = decisions[m].id /\ decisions'[m].hides = decisions[m].hides
           /\ decisions'[m].pc = IF m = n THEN to ELSE decisions[m].pc
  BY <1>1, DecisionMoves
<1>3. CardTypes'
  BY <1>1, <1>2 DEF CardTypes
<1>4. HeldByToast'
  <2>1. held # n
    BY DecisionFields, <1>1 DEF CardInv, HeldByToast
  <2> QED
    BY <1>1, <1>2, <2>1 DEF CardInv, HeldByToast
<1>5. UndoneStays
  BY <1>2 DEF UndoneStays
<1>6. HiddenIsUnderWay'
  <2>1. ASSUME NEW a \in hidden', approval'[a] = "pending", NEW m \in DOMAIN decisions,
               decisions[m].id = a, decisions[m].hides, decisions[m].pc \in {"held", "sent"}
        PROVE  decisions'[m].pc \in {"held", "sent"}
    <3>1. m # n
      BY <2>1
    <3> QED
      BY <1>2, <2>1, <3>1
  <2> QED
    BY <1>1, <1>2, <2>1, HiddenKept
<1> QED
  BY <1>3, <1>4, <1>5, <1>6 DEF CardInv

(* A decision is added.                                                    *)
LEMMA DecisionAdds ==
  ASSUME NEW ds \in Seq(Decisions), NEW d \in Decisions, NEW es, es = Append(ds, d)
  PROVE  /\ es \in Seq(Decisions) /\ DOMAIN es = 1 .. Len(ds) + 1
         /\ \A m \in DOMAIN ds : m \in DOMAIN es /\ es[m] = ds[m]
         /\ es[Len(ds) + 1] = d
<1>1. /\ es \in Seq(Decisions) /\ Len(es) = Len(ds) + 1
      /\ \A m \in 1 .. Len(ds) : es[m] = ds[m]
      /\ es[Len(ds) + 1] = d
  BY AppendProperties
<1> QED
  BY <1>1, DecisionFields

(* A card is pressed, or a decision tried again.                           *)
LEMMA DecideKeeps ==
  ASSUME CardInv, NEW a \in Approvals, NEW decision \in {"accept", "ignore"}, Decide(a, decision)
  PROVE  CardInv' /\ UndoneStays
<1> DEFINE n == Len(decisions) + 1
<1>1. /\ decisions \in Seq(Decisions) /\ hidden \subseteq Approvals /\ cards \subseteq Approvals
      /\ held \in {0} \cup DOMAIN decisions /\ toast \in ToastTypes
      /\ toast.action \in {"undo", "retry"} => toast.of \in DOMAIN decisions
      /\ approval \in [Approvals -> {"pending", "accept", "ignore"}] /\ toastFaults \in Nat
  BY DEF CardInv, CardTypes
<1>2. DOMAIN decisions = 1 .. Len(decisions) /\ Len(decisions) \in Nat
  BY <1>1, DecisionFields
<1>3. \A pc \in {"held", "sent"} :
        /\ Decision(a, decision, pc) \in Decisions /\ Decision(a, decision, pc).pc = pc
        /\ Decision(a, decision, pc).id = a /\ Decision(a, decision, pc).hides
  BY DEF Decision, Decisions, DecisionStates
<1>4. hidden' = hidden \cup {a} /\ UNCHANGED <<approval, cards, toastFaults>>
  BY DEF Decide
<1>5. CASE decision = "ignore"
  <2> DEFINE ds == Append(decisions, Decision(a, decision, "held"))
  <2>1. Notify(ds, "undo", n, n)
    BY <1>5 DEF Decide
  <2>2. /\ ds \in Seq(Decisions) /\ DOMAIN ds = 1 .. n
        /\ \A m \in DOMAIN decisions : m \in DOMAIN ds /\ ds[m] = decisions[m]
        /\ ds[n] = Decision(a, decision, "held")
    BY <1>1, <1>3, DecisionAdds
  <2> HIDE DEF ds
  <2>3. held \in {0} \cup DOMAIN ds
    BY <1>1, <2>2
  <2>4. /\ decisions' \in Seq(Decisions) /\ DOMAIN decisions' = DOMAIN ds
        /\ \A m \in DOMAIN ds :
             /\ decisions'[m].id = ds[m].id /\ decisions'[m].hides = ds[m].hides
             /\ decisions'[m].pc = IF m = held THEN "sent" ELSE ds[m].pc
        /\ held' = n /\ toast' = [action |-> "undo", of |-> n]
    BY <2>1, <2>2, <2>3, NotifyMoves
  <2>5. PICK k \in DOMAIN decisions' : k = n /\ k \in Nat
    BY <1>2, <2>2, <2>4
  <2>6. held # k /\ held' = k
    BY <1>1, <1>2, <2>4, <2>5
  <2>7. decisions'[k].pc = "held" /\ decisions'[k].id = a /\ decisions'[k].hides
    <3>1. /\ ds[k].pc = "held" /\ ds[k].id = a /\ ds[k].hides /\ k \in DOMAIN ds
      BY <1>3, <2>2, <2>4, <2>5
    <3>2. decisions'[k].hides = ds[k].hides
      BY <2>4, <3>1
    <3> QED
      BY <2>4, <2>6, <3>1, <3>2
  <2>8. toast' \in ToastTypes /\ toast'.action = "undo" /\ toast'.of = k
    BY <2>4, <2>5 DEF ToastTypes
  <2>9. CardTypes'
    BY <1>1, <1>4, <2>4, <2>5, <2>6, <2>8 DEF CardTypes
  <2>10. \A m \in DOMAIN decisions' : m = k \/ m \in DOMAIN decisions
    BY <1>2, <2>2, <2>4, <2>5
  <2>11. \A m \in DOMAIN decisions : decisions[m].pc = "held" => m = held
    BY DEF CardInv, HeldByToast
  <2>12. HeldByToast'
    BY <2>2, <2>4, <2>6, <2>7, <2>8, <2>10, <2>11 DEF HeldByToast
  <2>13. UndoneStays
    <3>1. \A m \in DOMAIN decisions : m = held => decisions[m].pc = "held"
      BY <1>2 DEF CardInv, HeldByToast
    <3> QED
      BY <2>2, <2>4, <3>1 DEF UndoneStays
  <2>14. HiddenIsUnderWay'
    <3> SUFFICES ASSUME NEW x \in hidden', approval'[x] = "pending"
                 PROVE  \E m \in DOMAIN decisions' :
                          /\ decisions'[m].id = x /\ decisions'[m].hides
                          /\ decisions'[m].pc \in {"held", "sent"}
      BY DEF HiddenIsUnderWay
    <3>1. CASE x = a
      BY <3>1, <2>7
    <3>2. CASE x # a
      <4>1. PICK m \in DOMAIN decisions :
              decisions[m].id = x /\ decisions[m].hides /\ decisions[m].pc \in {"held", "sent"}
        BY <1>4, <3>2 DEF CardInv, HiddenIsUnderWay
      <4>2. m \in DOMAIN decisions' /\ decisions'[m].id = x /\ decisions'[m].pc \in {"held", "sent"}
        BY <2>2, <2>4, <4>1
      <4>3. decisions'[m].hides = decisions[m].hides
        BY <2>2, <2>4
      <4> QED
        BY <4>1, <4>2, <4>3
    <3> QED
      BY <3>1, <3>2
  <2> QED
    BY <2>9, <2>12, <2>13, <2>14 DEF CardInv
<1>6. CASE decision = "accept"
  <2>1. decisions' = Append(decisions, Decision(a, decision, "sent")) /\ UNCHANGED <<held, toast>>
    BY <1>6 DEF Decide
  <2>2. /\ decisions' \in Seq(Decisions) /\ DOMAIN decisions' = 1 .. n
        /\ \A m \in DOMAIN decisions : m \in DOMAIN decisions' /\ decisions'[m] = decisions[m]
        /\ decisions'[n] = Decision(a, decision, "sent")
    BY <1>1, <1>3, <2>1, DecisionAdds
  <2>3. PICK k \in DOMAIN decisions' : k = n
    BY <1>2, <2>2
  <2>4. decisions'[k].pc = "sent" /\ decisions'[k].id = a /\ decisions'[k].hides
    BY <1>3, <2>2, <2>3
  <2>5. CardTypes'
    BY <1>1, <1>4, <2>1, <2>2 DEF CardTypes
  <2>6. \A m \in DOMAIN decisions' : m = k \/ m \in DOMAIN decisions
    BY <1>2, <2>2, <2>3
  <2>7. HeldByToast'
    BY <1>1, <2>1, <2>2, <2>4, <2>6 DEF CardInv, HeldByToast
  <2>8. UndoneStays
    BY <2>2 DEF UndoneStays
  <2>9. HiddenIsUnderWay'
    BY <1>4, <2>2, <2>4 DEF CardInv, HiddenIsUnderWay
  <2> QED
    BY <2>5, <2>7, <2>8, <2>9 DEF CardInv
<1> QED
  BY <1>5, <1>6

(* Steps that touch neither a decision nor a card.                         *)
LEMMA CardsRest ==
  ASSUME CardInv, UNCHANGED <<cardVars, held, toast>>, toastFaults' \in Nat
  PROVE  CardInv' /\ UndoneStays
BY DEF CardInv, CardTypes, HeldByToast, HiddenIsUnderWay, UndoneStays, cardVars

(* A request and no more.                                                  *)
LEMMA BareKeeps ==
  ASSUME CardInv, NEW a \in Approvals, NEW decision \in {"accept", "ignore"},
         DecideBare(a, decision)
  PROVE  CardInv' /\ UndoneStays
<1> DEFINE d == [Decision(a, decision, "sent") EXCEPT !.hides = FALSE]
<1>1. d \in Decisions /\ d.pc = "sent"
  BY DEF Decision, Decisions, DecisionStates
<1>2. decisions' = Append(decisions, d) /\ UNCHANGED <<approval, cards, hidden, held, toast, toastFaults>>
  BY DEF DecideBare
<1> HIDE DEF d
<1>3. /\ decisions \in Seq(Decisions) /\ held \in {0} \cup DOMAIN decisions
  BY DEF CardInv, CardTypes
<1>4. /\ decisions' \in Seq(Decisions) /\ DOMAIN decisions' = 1 .. Len(decisions) + 1
      /\ \A m \in DOMAIN decisions : m \in DOMAIN decisions' /\ decisions'[m] = decisions[m]
      /\ decisions'[Len(decisions) + 1] = d
  BY <1>1, <1>2, <1>3, DecisionAdds
<1>5. DOMAIN decisions = 1 .. Len(decisions) /\ Len(decisions) \in Nat
  BY <1>3, DecisionFields
<1>6. CardTypes'
  BY <1>2, <1>4 DEF CardInv, CardTypes
<1>7. \A m \in DOMAIN decisions' : decisions'[m].pc = "held" => m \in DOMAIN decisions
  BY <1>1, <1>4, <1>5
<1>8. HeldByToast'
  BY <1>2, <1>3, <1>4, <1>7 DEF CardInv, HeldByToast
<1>9. HiddenIsUnderWay' /\ UndoneStays
  BY <1>2, <1>4 DEF CardInv, HiddenIsUnderWay, UndoneStays
<1> QED
  BY <1>6, <1>8, <1>9 DEF CardInv

(* A request fails, or is refused: its card comes back.                    *)
LEMMA FailureShows ==
  ASSUME CardInv, NEW n \in DOMAIN decisions, decisions[n].pc \in {"sent", "applied", "refused"},
         Failed(n), UNCHANGED <<approval, cards>>, toastFaults' \in Nat
  PROVE  CardInv' /\ UndoneStays
<1> DEFINE ds == [decisions EXCEPT ![n].pc = "failed"]
<1>0. ds = [decisions EXCEPT ![n].pc = "failed"]
  OBVIOUS
<1> HIDE DEF ds
<1>1. /\ decisions \in Seq(Decisions) /\ hidden \subseteq Approvals
      /\ approval \in [Approvals -> {"pending", "accept", "ignore"}]
      /\ DOMAIN decisions \subseteq Nat
  BY DecisionFields DEF CardInv, CardTypes
<1>2. "failed" \in DecisionStates \ {"held"}
  BY DEF DecisionStates
<1>3. /\ ds \in Seq(Decisions) /\ DOMAIN ds = DOMAIN decisions
      /\ \A m \in DOMAIN decisions :
           /\ ds[m].id = decisions[m].id /\ ds[m].hides = decisions[m].hides
           /\ ds[m].pc = IF m = n THEN "failed" ELSE decisions[m].pc
  BY SMTT(60), <1>0, <1>1, <1>2, DecisionMoves
<1>4. CASE decisions[n].hides
  <2>1. hidden' = hidden \ {decisions[n].id} /\ Notify(ds, "retry", n, 0)
    BY <1>0, <1>4 DEF Failed, Unhide
  <2>2. \A m \in DOMAIN decisions :
          /\ ds[m].pc = "held" <=> decisions[m].pc = "held"
          /\ decisions[m].pc = "undone" => ds[m].pc = "undone"
    BY <1>3
  <2>3. \A m \in DOMAIN decisions :
          /\ decisions[m].id \in hidden' /\ decisions[m].hides /\ decisions[m].pc = "sent"
          => ds[m].pc = "sent"
    BY <1>3, <2>1
  <2>4. hidden' \subseteq hidden /\ n \in Nat
    BY <1>1, <2>1
  <2> QED
    BY <1>3, <2>1, <2>2, <2>3, <2>4, Releases
<1>5. CASE ~decisions[n].hides
  <2>1. decisions' = ds /\ UNCHANGED <<hidden, held, toast>>
    BY <1>0, <1>5 DEF Failed
  <2> QED
    BY <1>0, <1>1, <1>2, <1>5, <2>1, GetsOn
<1> QED
  BY <1>4, <1>5

(* The ignore is taken back in time.                                       *)
LEMMA UndoKeeps ==
  ASSUME CardInv, PressUndoIgnore
  PROVE  CardInv' /\ UndoneStays
<1>1. /\ decisions \in Seq(Decisions) /\ hidden \subseteq Approvals
      /\ toast.of \in DOMAIN decisions /\ toast.of = held
      /\ decisions[held].pc = "held"
  BY DecisionFields DEF PressUndoIgnore, CardInv, CardTypes, HeldByToast
<1>2. /\ held' = 0 /\ decisions' = [decisions EXCEPT ![held].pc = "undone"]
      /\ hidden' = hidden \ {decisions[held].id} /\ toast' = [action |-> "none", of |-> 0]
      /\ UNCHANGED <<approval, cards, toastFaults>>
  BY <1>1 DEF PressUndoIgnore, Disarmed
<1>3. /\ decisions' \in Seq(Decisions) /\ DOMAIN decisions' = DOMAIN decisions
      /\ \A m \in DOMAIN decisions :
           /\ decisions'[m].id = decisions[m].id /\ decisions'[m].hides = decisions[m].hides
           /\ decisions'[m].pc = IF m = held THEN "undone" ELSE decisions[m].pc
  BY <1>1, <1>2, DecisionMoves DEF DecisionStates
<1>4. toast' \in ToastTypes /\ toast'.action = "none"
  BY <1>2 DEF ToastTypes
<1>5. CardTypes'
  BY <1>1, <1>2, <1>3, <1>4 DEF CardInv, CardTypes
<1>6. HeldByToast'
  BY <1>2, <1>3, <1>4 DEF CardInv, HeldByToast
<1>7. UndoneStays
  BY <1>1, <1>3 DEF UndoneStays
<1>8. HiddenIsUnderWay'
  <2>1. ASSUME NEW a \in hidden', NEW m \in DOMAIN decisions, decisions[m].id = a,
               decisions[m].pc \in {"held", "sent"}
        PROVE  decisions'[m].pc \in {"held", "sent"}
    BY <1>2, <1>3, <2>1
  <2> QED
    BY <1>2, <1>3, <2>1, HiddenKept
<1> QED
  BY <1>5, <1>6, <1>7, <1>8 DEF CardInv

(* The window closes: nothing is hidden, and nothing held.                 *)
LEMMA ReloadKeeps ==
  ASSUME CardInv, NEW beacon \in BOOLEAN, Reload(beacon)
  PROVE  CardInv' /\ UndoneStays
<1> DEFINE state(n) == CASE n = held -> IF beacon THEN "orphan" ELSE "done"
                         [] n # held /\ decisions[n].pc = "sent" -> "orphan"
                         [] n # held /\ decisions[n].pc \in {"applied", "refused"} -> "done"
                         [] OTHER -> decisions[n].pc
<1>1. decisions \in Seq(Decisions) /\ DOMAIN decisions = 1 .. Len(decisions)
      /\ Len(decisions) \in Nat
  BY DecisionFields DEF CardInv, CardTypes
<1>2. decisions' = [n \in DOMAIN decisions |->
        CASE n = held -> [decisions[n] EXCEPT !.pc = IF beacon THEN "orphan" ELSE "done"]
          [] decisions[n].pc = "sent" -> [decisions[n] EXCEPT !.pc = "orphan"]
          [] decisions[n].pc \in {"applied", "refused"} -> [decisions[n] EXCEPT !.pc = "done"]
          [] OTHER -> decisions[n]]
  BY DEF Reload
<1>3. \A m \in DOMAIN decisions : m = held => decisions[m].pc = "held"
  BY <1>1 DEF CardInv, HeldByToast
<1>4. \A m \in DOMAIN decisions : decisions[m].pc = "held" => m = held
  BY DEF CardInv, HeldByToast
<1>5. ASSUME NEW m \in DOMAIN decisions
      PROVE  /\ decisions'[m] \in Decisions
             /\ decisions'[m].pc \in {"orphan", "done", "failed", "undone"}
             /\ decisions[m].pc = "undone" => decisions'[m].pc = "undone"
  <2>1. decisions[m] \in Decisions /\ decisions[m].pc \in DecisionStates
    BY <1>1, DecisionFields
  <2>2. \A pc \in DecisionStates :
          /\ [decisions[m] EXCEPT !.pc = pc] \in Decisions
          /\ [decisions[m] EXCEPT !.pc = pc].pc = pc
    BY <2>1 DEF Decisions
  <2>3. {"orphan", "done"} \subseteq DecisionStates
    BY DEF DecisionStates
  <2>4. CASE m = held
    <3>1. decisions'[m] \in {[decisions[m] EXCEPT !.pc = "orphan"], [decisions[m] EXCEPT !.pc = "done"]}
      BY <1>2, <2>4
    <3> QED
      BY ZenonT(60), <1>3, <2>2, <2>3, <2>4, <3>1
  <2>5. CASE m # held /\ decisions[m].pc = "sent"
    <3>1. decisions'[m] = [decisions[m] EXCEPT !.pc = "orphan"]
      BY <1>2, <2>5
    <3> QED
      BY <2>2, <2>3, <2>5, <3>1
  <2>6. CASE m # held /\ decisions[m].pc \in {"applied", "refused"}
    <3>1. decisions'[m] = [decisions[m] EXCEPT !.pc = "done"]
      BY <1>2, <2>6
    <3> QED
      BY <2>2, <2>3, <2>6, <3>1
  <2>7. CASE m # held /\ decisions[m].pc \notin {"sent", "applied", "refused"}
    <3>1. decisions'[m] = decisions[m]
      BY <1>2, <2>7
    <3> QED
      BY <1>4, <2>1, <2>7, <3>1 DEF DecisionStates
  <2> QED
    BY <2>4, <2>5, <2>6, <2>7
<1>6. DOMAIN decisions' = DOMAIN decisions
  BY <1>2
<1>7. decisions' \in [1 .. Len(decisions) -> Decisions]
  BY <1>1, <1>2, <1>5
<1>8. decisions' \in Seq(Decisions)
  BY <1>1, <1>7, SeqDef
<1>9. hidden' = {} /\ held' = 0 /\ toast' = NoToast /\ UNCHANGED <<approval, cards>>
      /\ toastFaults' = toastFaults + 1
  BY DEF Reload
<1>10. toast' \in ToastTypes /\ toast'.action = "gone"
  BY <1>9 DEF NoToast, ToastTypes
<1>11. CardTypes'
  BY <1>8, <1>9, <1>10 DEF CardInv, CardTypes
<1>12. HeldByToast' /\ HiddenIsUnderWay'
  BY <1>5, <1>6, <1>9, <1>10 DEF HeldByToast, HiddenIsUnderWay
<1>13. UndoneStays
  BY <1>5 DEF UndoneStays
<1> QED
  BY <1>11, <1>12, <1>13 DEF CardInv

(* The invariant of the cards is kept by every step, and what was taken    *)
(* back stays so.                                                          *)
LEMMA CardsKept ==
  ASSUME CardInv, TaskTypes, ToastsNext
  PROVE  CardInv' /\ UndoneStays
<1>1. /\ decisions \in Seq(Decisions) /\ hidden \subseteq Approvals /\ cards \subseteq Approvals
      /\ approval \in [Approvals -> {"pending", "accept", "ignore"}] /\ toastFaults \in Nat
      /\ \A n \in DOMAIN decisions :
           /\ decisions[n].id \in Approvals /\ decisions[n].decision \in {"accept", "ignore"}
           /\ decisions[n].pc \in DecisionStates
      /\ toast.action \in {"undo", "retry"} => toast.of \in DOMAIN decisions
  BY DecisionFields DEF CardInv, CardTypes
<1>2. {"applied", "refused", "done", "failed"} \subseteq DecisionStates \ {"held"}
  BY DEF DecisionStates
<1>3. ASSUME NEW action \in {"gone", "none", "reopen", "rewrite"}, NEW of \in Nat,
             Notify(decisions, action, of, 0), UNCHANGED <<approval, cards, hidden>>,
             toastFaults' \in Nat
      PROVE  CardInv' /\ UndoneStays
  <2>1. /\ action \in {"gone", "none", "retry", "reopen", "rewrite"} /\ action # "retry"
        /\ hidden' \subseteq hidden
    BY <1>3
  <2> QED
    BY <1>1, <1>3, <2>1, Releases
<1>4. ASSUME NEW a \in Approvals, NEW decision \in {"accept", "ignore"},
             PressCard(a, decision) \/ DecideBare(a, decision)
      PROVE  CardInv' /\ UndoneStays
  BY <1>4, DecideKeeps, BareKeeps DEF PressCard
<1>5. ASSUME NEW a \in Approvals, ReplicateApproval(a)
      PROVE  CardInv' /\ UndoneStays
  <2>1. cards' \subseteq Approvals /\ UNCHANGED <<approval, hidden, held, toast, decisions, toastFaults>>
    BY <1>1, <1>5 DEF ReplicateApproval
  <2> QED
    BY <2>1 DEF CardInv, CardTypes, HeldByToast, HiddenIsUnderWay, UndoneStays
<1>6. CASE PressUndoIgnore
  BY <1>6, UndoKeeps
<1>7. CASE RetryDecision
  BY <1>1, <1>7, DecideKeeps DEF RetryDecision
<1>8. ASSUME NEW next \in {"gone", "none"}, ToastLeaves(next)
      PROVE  CardInv' /\ UndoneStays
  BY <1>1, <1>3, <1>8 DEF ToastLeaves
<1>9. ASSUME NEW n \in DOMAIN decisions, HubDecides(n)
      PROVE  CardInv' /\ UndoneStays
  <2>1. /\ decisions[n].pc \in {"sent", "orphan"}
        /\ UNCHANGED <<cards, hidden, held, toast, toastFaults>>
    BY <1>9 DEF HubDecides
  <2>2. PICK to \in {"applied", "refused", "done"} : decisions' = [decisions EXCEPT ![n].pc = to]
    BY <1>9 DEF HubDecides
  <2>3. /\ approval' \in [Approvals -> {"pending", "accept", "ignore"}]
        /\ \A a \in Approvals : approval'[a] = "pending" => approval[a] = "pending"
        /\ approval'[decisions[n].id] # "pending"
    BY <1>1, <1>9 DEF HubDecides
  <2>4. to \in DecisionStates \ {"held"} /\ toastFaults' \in Nat
    BY <1>1, <1>2, <2>1
  <2> QED
    BY <2>1, <2>2, <2>3, <2>4, GetsOn
<1>10. ASSUME NEW n \in DOMAIN decisions, Answered(n)
       PROVE  CardInv' /\ UndoneStays
  <2> DEFINE ds == [decisions EXCEPT ![n].pc = "done"]
  <2>0. ds = [decisions EXCEPT ![n].pc = "done"]
    OBVIOUS
  <2> HIDE DEF ds
  <2>1. decisions[n].pc = "applied" /\ UNCHANGED <<approval, cards, hidden, toastFaults>>
    BY <1>10 DEF Answered
  <2>2. CASE Notify(ds, "none", 0, 0)
    <3>1. /\ ds \in Seq(Decisions) /\ DOMAIN ds = DOMAIN decisions
          /\ \A m \in DOMAIN decisions :
               /\ ds[m].id = decisions[m].id /\ ds[m].hides = decisions[m].hides
               /\ ds[m].pc = IF m = n THEN "done" ELSE decisions[m].pc
      BY <2>0, <1>1, <1>2, DecisionMoves
    <3>2. \A m \in DOMAIN decisions :
            /\ ds[m].pc = "held" <=> decisions[m].pc = "held"
            /\ decisions[m].pc = "undone" => ds[m].pc = "undone"
            /\ decisions[m].pc = "sent" => ds[m].pc = "sent"
      BY <2>1, <3>1
    <3>3. hidden' \subseteq hidden /\ toastFaults' \in Nat
      BY <1>1, <2>1
    <3> QED
      BY <2>1, <2>2, <3>1, <3>2, <3>3, Releases
  <2>3. CASE decisions' = ds /\ UNCHANGED <<held, toast>>
    BY <2>0, <1>1, <1>2, <2>1, <2>3, GetsOn
  <2> QED
    BY <2>0, <1>10, <2>2, <2>3 DEF Answered
<1>11. ASSUME NEW n \in DOMAIN decisions, Refused(n) \/ DecisionFails(n)
       PROVE  CardInv' /\ UndoneStays
  <2>1. /\ decisions[n].pc \in {"sent", "applied", "refused"} /\ Failed(n)
        /\ UNCHANGED <<approval, cards>> /\ toastFaults' \in Nat
    BY <1>1, <1>11 DEF Refused, DecisionFails
  <2> QED
    BY <2>1, FailureShows
<1>12. ASSUME NEW beacon \in BOOLEAN, Reload(beacon)
       PROVE  CardInv' /\ UndoneStays
  BY <1>12, ReloadKeeps
<1>13. ASSUME NEW t \in Tasks, OnToggle(t)
       PROVE  CardInv' /\ UndoneStays
  BY <1>1, <1>13, CardsRest DEF OnToggle
<1>14. CASE PressTaskUndo \/ PressTaskRetry
  <2>1. held = 0
    BY <1>14 DEF PressTaskUndo, PressTaskRetry, CardInv, HeldByToast
  <2>2. UNCHANGED <<cardVars, held, toast, toastFaults>>
    BY <1>14, <2>1 DEF PressTaskUndo, PressTaskRetry, Disarmed
  <2> QED
    BY <1>1, <2>2, CardsRest
<1>15. ASSUME NEW k \in DOMAIN writes, SetTaskState(k)
       PROVE  CardInv' /\ UndoneStays
  BY <1>1, <1>15, CardsRest DEF SetTaskState
<1>16. DOMAIN writes \subseteq Nat
  BY DEF TaskTypes
<1>17. ASSUME NEW k \in DOMAIN writes, TaskAnswered(k)
       PROVE  CardInv' /\ UndoneStays
  <2>1. UNCHANGED <<approval, cards, hidden, toastFaults>>
    BY <1>17 DEF TaskAnswered
  <2>2. CASE UNCHANGED <<decisions, held, toast>>
    BY <1>1, <2>1, <2>2, CardsRest DEF cardVars
  <2>3. CASE Notify(decisions, "reopen", k, 0) \/ Notify(decisions, "none", 0, 0)
    BY <1>1, <1>3, <1>16, <2>1, <2>3
  <2> QED
    BY <1>17, <2>2, <2>3 DEF TaskAnswered
<1>18. ASSUME NEW k \in DOMAIN writes, TaskFails(k)
       PROVE  CardInv' /\ UndoneStays
  <2>1. /\ UNCHANGED <<approval, cards, hidden>> /\ toastFaults' \in Nat
        /\ Notify(decisions, "rewrite", k, 0) \/ Notify(decisions, "none", 0, 0)
    BY <1>1, <1>18 DEF TaskFails
  <2> QED
    BY <1>3, <1>16, <2>1
<1>19. CASE ReplicateTasks
  BY <1>1, <1>19, CardsRest DEF ReplicateTasks
<1> QED
  BY <1>4, <1>5, <1>6, <1>7, <1>8, <1>9, <1>10, <1>11, <1>12, <1>13, <1>14, <1>15, <1>17, <1>18,
     <1>19 DEF ToastsNext

-----------------------------------------------------------------------------
(* The boxes of the Tasks screen.                                          *)

NewestWrite(k) == \A j \in DOMAIN writes : writes[j].id = writes[k].id => j <= k

OnlyBox(t) == \A k \in DOMAIN writes : writes[k].id = t => writes[k].by = "box"

(* A box that only boxes have written is the newest write of its task, and *)
(* once that is served, no older one is left, and the hub has it.          *)
Ticks ==
  \A t \in Tasks : box[t] # "none" /\ OnlyBox(t) =>
    \E k \in DOMAIN writes :
      /\ writes[k].id = t /\ NewestWrite(k) /\ box[t] = StateOf(writes[k].done)
      /\ writes[k].pc # "sent" =>
           /\ writes[k].done <=> t \in task
           /\ \A j \in DOMAIN writes : writes[j].id = t => writes[j].pc # "sent"

(* What the type says of a write.                                          *)
LEMMA TaskWriteFields ==
  ASSUME TaskTypes
  PROVE  /\ DOMAIN writes = 1 .. Len(writes) /\ Len(writes) \in Nat
         /\ \A k \in DOMAIN writes :
              /\ writes[k] \in TaskWrites /\ writes[k].id \in Tasks /\ writes[k].done \in BOOLEAN
              /\ writes[k].by \in {"box", "undo", "retry"}
              /\ writes[k].pc \in {"sent", "applied", "done"}
<1>1. writes \in Seq(TaskWrites) /\ DOMAIN writes = 1 .. Len(writes)
  BY DEF TaskTypes
<1>2. \A k \in DOMAIN writes : writes[k] \in TaskWrites
  BY <1>1
<1> QED
  BY <1>1, <1>2 DEF TaskWrites

(* A write that gets on is the write it was.                               *)
LEMMA TaskWriteMoves ==
  ASSUME TaskTypes, NEW k \in DOMAIN writes, NEW to \in {"sent", "applied", "done"},
         writes' = [writes EXCEPT ![k].pc = to]
  PROVE  /\ writes' \in Seq(TaskWrites) /\ DOMAIN writes' = DOMAIN writes
         /\ \A m \in DOMAIN writes :
              /\ writes'[m].id = writes[m].id /\ writes'[m].done = writes[m].done
              /\ writes'[m].by = writes[m].by
              /\ writes'[m].pc = IF m = k THEN to ELSE writes[m].pc
<1> DEFINE r == [writes[k] EXCEPT !.pc = to]
<1>1. r \in TaskWrites /\ r.pc = to /\ r.id = writes[k].id /\ r.done = writes[k].done
      /\ r.by = writes[k].by
  <2>1. writes[k] \in TaskWrites
    BY TaskWriteFields
  <2> QED
    BY <2>1 DEF TaskWrites
<1>2. writes' = [writes EXCEPT ![k] = r] /\ writes \in Seq(TaskWrites)
  BY DEF TaskTypes
<1> HIDE DEF r
<1>3. /\ writes' \in Seq(TaskWrites) /\ Len(writes') = Len(writes)
      /\ \A m \in 1 .. Len(writes) : writes'[m] = IF m = k THEN r ELSE writes[m]
  BY <1>1, <1>2, TaskWriteFields, ExceptSeq
<1> QED
  BY <1>1, <1>3, TaskWriteFields

(* Steps that touch no task; a toast they bring offers nothing of one.     *)
LEMMA TasksRest ==
  ASSUME TaskTypes, UNCHANGED taskVars,
         UNCHANGED toast \/ toast'.action \notin {"reopen", "rewrite"}
  PROVE  TaskTypes' /\ (Ticks => Ticks')
BY DEF TaskTypes, taskVars, Ticks, NewestWrite, OnlyBox

(* A write is added: from its box, which shows it at once, or from a       *)
(* button of the toast.                                                    *)
LEMMA TaskWriteAdds ==
  ASSUME TaskTypes, NEW t \in Tasks, NEW done \in BOOLEAN, NEW by \in {"box", "undo", "retry"},
         SetTaskDone(t, done, by), UNCHANGED <<task, inSight, toast>>,
         box' = IF by = "box" THEN [box EXCEPT ![t] = StateOf(done)] ELSE box
  PROVE  TaskTypes' /\ (Ticks => Ticks')
<1> DEFINE w == [id |-> t, done |-> done, by |-> by, pc |-> "sent"]
<1>1. w \in TaskWrites /\ w.id = t /\ w.done = done /\ w.by = by /\ w.pc = "sent"
  BY DEF TaskWrites
<1>2. writes' = Append(writes, w) /\ writes \in Seq(TaskWrites)
  BY DEF SetTaskDone, TaskTypes
<1> HIDE DEF w
<1>3. DOMAIN writes = 1 .. Len(writes) /\ Len(writes) \in Nat
  BY TaskWriteFields
<1>4. /\ writes' \in Seq(TaskWrites) /\ Len(writes') = Len(writes) + 1
      /\ \A m \in DOMAIN writes : writes'[m] = writes[m]
      /\ writes'[Len(writes) + 1] = w
  BY <1>1, <1>2, <1>3, AppendProperties
<1>5. DOMAIN writes' = 1 .. Len(writes) + 1
  BY <1>4
<1>6. box \in [Tasks -> {"none", "done", "open"}] /\ StateOf(done) \in {"done", "open"}
  BY DEF TaskTypes, StateOf
<1>7. TaskTypes'
  BY <1>3, <1>4, <1>5, <1>6 DEF TaskTypes
<1>8. PICK l \in DOMAIN writes' : l = Len(writes) + 1
  BY <1>3, <1>5
<1>9. /\ writes'[l] = w /\ l \notin DOMAIN writes
      /\ \A m \in DOMAIN writes' : (m = l \/ m \in DOMAIN writes) /\ m <= l
      /\ DOMAIN writes \subseteq DOMAIN writes'
  BY <1>3, <1>4, <1>5, <1>8
<1>10. ASSUME Ticks, NEW x \in Tasks, box'[x] # "none", OnlyBox(x)'
       PROVE  \E k \in DOMAIN writes' :
                /\ writes'[k].id = x /\ NewestWrite(k)' /\ box'[x] = StateOf(writes'[k].done)
                /\ writes'[k].pc # "sent" =>
                     /\ writes'[k].done <=> x \in task'
                     /\ \A j \in DOMAIN writes' : writes'[j].id = x => writes'[j].pc # "sent"
  <2>1. CASE x = t
    <3>1. by = "box"
      BY <2>1, <1>1, <1>9, <1>10 DEF OnlyBox
    <3>2. box'[x] = StateOf(done)
      BY <2>1, <3>1, <1>6
    <3>3. NewestWrite(l)'
      BY <1>9 DEF NewestWrite
    <3> QED
      BY <2>1, <3>2, <3>3, <1>1, <1>9
  <2>2. CASE x # t
    <3>1. box'[x] = box[x]
      BY <2>2, <1>6
    <3>2. OnlyBox(x)
      BY <1>4, <1>9, <1>10 DEF OnlyBox
    <3>3. PICK k \in DOMAIN writes :
            /\ writes[k].id = x /\ NewestWrite(k) /\ box[x] = StateOf(writes[k].done)
            /\ writes[k].pc # "sent" =>
                 /\ writes[k].done <=> x \in task
                 /\ \A j \in DOMAIN writes : writes[j].id = x => writes[j].pc # "sent"
      BY <3>1, <3>2, <1>10 DEF Ticks
    <3>4. \A j \in DOMAIN writes' : writes'[j].id = x => j \in DOMAIN writes
      BY <2>2, <1>1, <1>9
    <3>5. NewestWrite(k)'
      BY <3>3, <3>4, <1>4 DEF NewestWrite
    <3> QED
      BY <3>1, <3>3, <3>4, <3>5, <1>4, <1>9
  <2> QED
    BY <2>1, <2>2
<1>11. Ticks => Ticks'
  BY <1>10 DEF Ticks
<1> QED
  BY <1>7, <1>11

(* The hub serves a write in its task's turn.                              *)
LEMMA TaskServed ==
  ASSUME TaskTypes, NEW k \in DOMAIN writes, SetTaskState(k)
  PROVE  TaskTypes' /\ (~Overtakes /\ Ticks => Ticks')
<1>1. /\ writes[k].pc = "sent"
      /\ task' = IF writes[k].done THEN task \cup {writes[k].id} ELSE task \ {writes[k].id}
      /\ writes' = [writes EXCEPT ![k].pc = "applied"]
      /\ UNCHANGED <<toast, inSight, box>>
  BY DEF SetTaskState
<1>2. writes[k].id \in Tasks /\ DOMAIN writes = 1 .. Len(writes) /\ Len(writes) \in Nat
  BY TaskWriteFields
<1>3. /\ writes' \in Seq(TaskWrites) /\ DOMAIN writes' = DOMAIN writes
      /\ \A m \in DOMAIN writes :
           /\ writes'[m].id = writes[m].id /\ writes'[m].done = writes[m].done
           /\ writes'[m].by = writes[m].by
           /\ writes'[m].pc = IF m = k THEN "applied" ELSE writes[m].pc
  BY <1>1, TaskWriteMoves
<1>4. TaskTypes'
  BY <1>1, <1>2, <1>3 DEF TaskTypes
<1>5. ASSUME ~Overtakes, Ticks, NEW x \in Tasks, box[x] # "none", OnlyBox(x)'
      PROVE  \E m \in DOMAIN writes :
               /\ writes'[m].id = x /\ NewestWrite(m)' /\ box[x] = StateOf(writes'[m].done)
               /\ writes'[m].pc # "sent" =>
                    /\ writes'[m].done <=> x \in task'
                    /\ \A j \in DOMAIN writes : writes'[j].id = x => writes'[j].pc # "sent"
  <2>1. OnlyBox(x)
    BY <1>3, <1>5 DEF OnlyBox
  <2>2. PICK m \in DOMAIN writes :
          /\ writes[m].id = x /\ NewestWrite(m) /\ box[x] = StateOf(writes[m].done)
          /\ writes[m].pc # "sent" =>
               /\ writes[m].done <=> x \in task
               /\ \A j \in DOMAIN writes : writes[j].id = x => writes[j].pc # "sent"
    BY <2>1, <1>5 DEF Ticks
  <2>3. NewestWrite(m)'
    BY <2>2, <1>3 DEF NewestWrite
  <2>4. writes'[m].id = x /\ box[x] = StateOf(writes'[m].done)
    BY <2>2, <1>3
  <2>5. CASE writes[k].id # x
    <3>1. x \in task' <=> x \in task
      BY <2>5, <1>1
    <3>2. m # k
      BY <2>2, <2>5
    <3> QED
      BY <2>2, <2>3, <2>4, <2>5, <3>1, <3>2, <1>3
  <2>6. CASE writes[k].id = x /\ k = m
    <3>1. writes[k].done <=> x \in task'
      BY <2>6, <1>1
    <3>2. TaskInOrder(k)
      BY <1>5 DEF SetTaskState
    <3>3. \A j \in DOMAIN writes : writes[j].id = x => j = k \/ j \in 1 .. k - 1
      BY <2>2, <2>6, <1>2 DEF NewestWrite
    <3>4. \A j \in DOMAIN writes : writes'[j].id = x => writes'[j].pc # "sent"
      BY <2>6, <3>2, <3>3, <1>3 DEF TaskInOrder
    <3>5. writes'[m].done <=> x \in task'
      BY <2>6, <3>1, <1>3
    <3> QED
      BY <2>3, <2>4, <3>4, <3>5
  <2>7. CASE writes[k].id = x /\ k # m
    <3>1. writes[m].pc = "sent"
      BY <2>2, <2>7, <1>1
    <3>2. writes'[m].pc = "sent"
      BY <2>7, <3>1, <1>3
    <3> QED
      BY <2>3, <2>4, <3>2
  <2> QED
    BY <2>5, <2>6, <2>7
<1>6. ~Overtakes /\ Ticks => Ticks'
  BY <1>1, <1>3, <1>5 DEF Ticks
<1> QED
  BY <1>4, <1>6

(* A write is done, answered or failed; a box that failed shows its row.   *)
LEMMA TaskDone ==
  ASSUME TaskTypes, NEW k \in DOMAIN writes, writes' = [writes EXCEPT ![k].pc = "done"],
         UNCHANGED <<task, inSight>>,
         \/ writes[k].pc = "applied" /\ UNCHANGED box
         \/ box' = IF writes[k].by = "box" THEN [box EXCEPT ![writes[k].id] = "none"] ELSE box,
         \/ UNCHANGED toast \/ toast'.action \notin {"reopen", "rewrite"} \/ toast'.of = k
  PROVE  TaskTypes' /\ (Ticks => Ticks')
<1>1. writes[k].id \in Tasks /\ DOMAIN writes = 1 .. Len(writes) /\ Len(writes) \in Nat
  BY TaskWriteFields
<1>2. /\ writes' \in Seq(TaskWrites) /\ DOMAIN writes' = DOMAIN writes
      /\ \A m \in DOMAIN writes :
           /\ writes'[m].id = writes[m].id /\ writes'[m].done = writes[m].done
           /\ writes'[m].by = writes[m].by
           /\ writes'[m].pc = IF m = k THEN "done" ELSE writes[m].pc
  BY TaskWriteMoves
<1>3. box \in [Tasks -> {"none", "done", "open"}] /\ box' \in [Tasks -> {"none", "done", "open"}]
  BY <1>1 DEF TaskTypes
<1>4. TaskTypes'
  BY <1>2, <1>3 DEF TaskTypes
<1>5. ASSUME Ticks, NEW x \in Tasks, box'[x] # "none", OnlyBox(x)'
      PROVE  \E m \in DOMAIN writes :
               /\ writes'[m].id = x /\ NewestWrite(m)' /\ box'[x] = StateOf(writes'[m].done)
               /\ writes'[m].pc # "sent" =>
                    /\ writes'[m].done <=> x \in task
                    /\ \A j \in DOMAIN writes : writes'[j].id = x => writes'[j].pc # "sent"
  <2>1. OnlyBox(x)
    BY <1>2, <1>5 DEF OnlyBox
  <2>2. box'[x] = box[x]
    BY <1>1, <1>3, <1>5
  <2>3. PICK m \in DOMAIN writes :
          /\ writes[m].id = x /\ NewestWrite(m) /\ box[x] = StateOf(writes[m].done)
          /\ writes[m].pc # "sent" =>
               /\ writes[m].done <=> x \in task
               /\ \A j \in DOMAIN writes : writes[j].id = x => writes[j].pc # "sent"
    BY <2>1, <2>2, <1>5 DEF Ticks
  <2>4. NewestWrite(m)'
    BY <2>3, <1>2 DEF NewestWrite
  <2>5. writes[k].id = x => writes[k].pc = "applied"
    BY <2>1, <1>3, <1>5 DEF OnlyBox
  <2>6. writes'[m].pc # "sent" => writes[m].pc # "sent"
    BY <2>3, <2>5, <1>2
  <2>7. \A j \in DOMAIN writes : writes[j].pc # "sent" => writes'[j].pc # "sent"
    BY <1>2
  <2> QED
    BY <2>2, <2>3, <2>4, <2>6, <2>7, <1>2
<1>6. Ticks => Ticks'
  BY <1>2, <1>5 DEF Ticks
<1> QED
  BY <1>4, <1>6

(* What a new toast offers.                                                *)
LEMMA NotifyOffers ==
  ASSUME NEW ds, NEW action, NEW of, NEW n, Notify(ds, action, of, n)
  PROVE  toast'.action = action /\ toast'.of = of
BY DEF Notify

(* The tasks keep their types, and the boxes their ticks.                  *)
LEMMA TasksKept ==
  ASSUME CardInv, TaskTypes, ToastsNext
  PROVE  TaskTypes' /\ (~Overtakes /\ Ticks => Ticks')
<1>1. /\ DOMAIN writes = 1 .. Len(writes) /\ Len(writes) \in Nat
      /\ \A k \in DOMAIN writes : writes[k].id \in Tasks /\ writes[k].done \in BOOLEAN
  BY TaskWriteFields
<1>2. CASE \/ \E a \in Approvals :
                \/ \E decision \in {"accept", "ignore"} :
                     PressCard(a, decision) \/ DecideBare(a, decision)
                \/ ReplicateApproval(a)
           \/ PressUndoIgnore \/ RetryDecision
  <2>1. ASSUME NEW x, NEW decision, Decide(x, decision)
        PROVE  UNCHANGED taskVars /\ (UNCHANGED toast \/ toast'.action \notin {"reopen", "rewrite"})
    BY <2>1, NotifyOffers DEF Decide
  <2>2. ASSUME PressUndoIgnore
        PROVE  UNCHANGED taskVars /\ (UNCHANGED toast \/ toast'.action \notin {"reopen", "rewrite"})
    <3>1. toast' = [action |-> "none", of |-> 0]
      BY <2>2 DEF PressUndoIgnore
    <3>2. toast'.action = "none"
      BY <3>1
    <3>3. UNCHANGED taskVars
      BY <2>2 DEF PressUndoIgnore
    <3> QED
      BY <3>2, <3>3
  <2>3. ASSUME NEW x, NEW decision, DecideBare(x, decision)
        PROVE  UNCHANGED <<taskVars, toast>>
    BY <2>3 DEF DecideBare
  <2>4. ASSUME NEW x, ReplicateApproval(x)
        PROVE  UNCHANGED <<taskVars, toast>>
    BY <2>4 DEF ReplicateApproval
  <2>5. UNCHANGED taskVars /\ (UNCHANGED toast \/ toast'.action \notin {"reopen", "rewrite"})
    BY <1>2, <2>1, <2>2, <2>3, <2>4 DEF PressCard, RetryDecision
  <2> QED
    BY <2>5, TasksRest
<1>3. CASE \/ \E next \in {"gone", "none"} : ToastLeaves(next)
           \/ \E n \in DOMAIN decisions :
                HubDecides(n) \/ Answered(n) \/ Refused(n) \/ DecisionFails(n)
  <2>1. ASSUME NEW n, Failed(n)
        PROVE  UNCHANGED toast \/ toast'.action \notin {"reopen", "rewrite"}
    BY <2>1, NotifyOffers DEF Failed
  <2>2. ASSUME NEW n \in DOMAIN decisions, Answered(n)
        PROVE  UNCHANGED taskVars /\ (UNCHANGED toast \/ toast'.action \notin {"reopen", "rewrite"})
    BY <2>2, NotifyOffers DEF Answered
  <2>3. ASSUME NEW next \in {"gone", "none"}, ToastLeaves(next)
        PROVE  UNCHANGED taskVars /\ (UNCHANGED toast \/ toast'.action \notin {"reopen", "rewrite"})
    BY <2>3, NotifyOffers DEF ToastLeaves
  <2>4. UNCHANGED taskVars /\ (UNCHANGED toast \/ toast'.action \notin {"reopen", "rewrite"})
    BY <1>3, <2>1, <2>2, <2>3 DEF HubDecides, Refused, DecisionFails
  <2> QED
    BY <2>4, TasksRest
<1>4. ASSUME NEW t \in Tasks, OnToggle(t)
      PROVE  TaskTypes' /\ (Ticks => Ticks')
  <2>1. /\ SetTaskDone(t, ~StateFor(t), "box") /\ box' = [box EXCEPT ![t] = StateOf(~StateFor(t))]
        /\ UNCHANGED <<task, inSight, toast>>
    BY <1>4 DEF OnToggle
  <2>2. (~StateFor(t)) \in BOOLEAN
    BY DEF StateFor
  <2> QED
    BY <2>1, <2>2, TaskWriteAdds
<1>5. CASE PressTaskUndo
  <2>1. toast.of \in DOMAIN writes
    BY <1>5 DEF PressTaskUndo, TaskTypes
  <2>2. SetTaskDone(writes[toast.of].id, FALSE, "undo") /\ UNCHANGED <<task, inSight, toast, box>>
    BY <1>5 DEF PressTaskUndo
  <2> QED
    BY <1>1, <2>1, <2>2, TaskWriteAdds
<1>6. CASE PressTaskRetry
  <2>1. toast.of \in DOMAIN writes
    BY <1>6 DEF PressTaskRetry, TaskTypes
  <2>2. /\ SetTaskDone(writes[toast.of].id, writes[toast.of].done, "retry")
        /\ UNCHANGED <<task, inSight, toast, box>>
    BY <1>6 DEF PressTaskRetry
  <2> QED
    BY <1>1, <2>1, <2>2, TaskWriteAdds
<1>7. ASSUME NEW k \in DOMAIN writes, SetTaskState(k)
      PROVE  TaskTypes' /\ (~Overtakes /\ Ticks => Ticks')
  BY <1>7, TaskServed
<1>8. ASSUME NEW k \in DOMAIN writes, TaskAnswered(k)
      PROVE  TaskTypes' /\ (Ticks => Ticks')
  <2>1. /\ writes[k].pc = "applied" /\ writes' = [writes EXCEPT ![k].pc = "done"]
        /\ UNCHANGED <<task, inSight, box>>
    BY <1>8 DEF TaskAnswered
  <2>2. \/ UNCHANGED toast \/ toast'.action \notin {"reopen", "rewrite"} \/ toast'.of = k
    BY <1>8 DEF TaskAnswered, Notify
  <2> QED
    BY <2>1, <2>2, TaskDone
<1>9. ASSUME NEW k \in DOMAIN writes, TaskFails(k)
      PROVE  TaskTypes' /\ (Ticks => Ticks')
  <2>1. /\ writes' = [writes EXCEPT ![k].pc = "done"] /\ UNCHANGED <<task, inSight>>
        /\ box' = IF writes[k].by = "box" THEN [box EXCEPT ![writes[k].id] = "none"] ELSE box
    BY <1>9 DEF TaskFails, BoxRolledBack
  <2>2. \/ UNCHANGED toast \/ toast'.action \notin {"reopen", "rewrite"} \/ toast'.of = k
    BY <1>9 DEF TaskFails, Notify
  <2> QED
    BY <2>1, <2>2, TaskDone
<1>10. ASSUME NEW beacon \in BOOLEAN, Reload(beacon)
       PROVE  TaskTypes' /\ Ticks'
  <2>1. /\ writes' = [k \in 1 .. Len(writes) |-> [writes[k] EXCEPT !.pc = "done"]]
        /\ box' = [t \in Tasks |-> "none"] /\ toast' = NoToast /\ UNCHANGED <<task, inSight>>
    BY <1>1, <1>10 DEF Reload
  <2>2. \A k \in 1 .. Len(writes) : [writes[k] EXCEPT !.pc = "done"] \in TaskWrites
    <3>1. \A k \in 1 .. Len(writes) : writes[k] \in TaskWrites
      BY <1>1, TaskWriteFields
    <3> QED
      BY <3>1 DEF TaskWrites
  <2>3. writes' \in [1 .. Len(writes) -> TaskWrites]
    BY <2>1, <2>2
  <2>4. writes' \in Seq(TaskWrites)
    BY <1>1, <2>3, SeqDef
  <2>5. toast'.action = "gone"
    BY <2>1 DEF NoToast
  <2>6. TaskTypes'
    BY <2>1, <2>4, <2>5 DEF TaskTypes
  <2>7. Ticks'
    BY <2>1 DEF Ticks
  <2> QED
    BY <2>6, <2>7
<1>11. CASE ReplicateTasks
  <2>1. /\ inSight' = task /\ UNCHANGED <<toast, task, writes>>
        /\ box' = [t \in Tasks |-> IF box[t] = StateOf(t \in task) THEN "none" ELSE box[t]]
    BY <1>11 DEF ReplicateTasks
  <2>2. \A t \in Tasks : box'[t] # "none" => box'[t] = box[t]
    BY <2>1
  <2>3. TaskTypes'
    BY <2>1 DEF TaskTypes
  <2>4. Ticks => Ticks'
    BY <2>1, <2>2 DEF Ticks, NewestWrite, OnlyBox
  <2> QED
    BY <2>3, <2>4
<1> QED
  BY <1>2, <1>3, <1>4, <1>5, <1>6, <1>7, <1>8, <1>9, <1>10, <1>11 DEF ToastsNext

-----------------------------------------------------------------------------
(* The specification.                                                      *)

ToastInv == CardInv /\ TaskTypes

(* The inductive invariant holds, whichever order the hub serves writes in. *)
THEOREM ToastInvariant == ToastsSpec => []ToastInv
<1>1. ToastsInit => ToastInv
  <2>1. ASSUME ToastsInit
        PROVE  CardTypes
    <3>1. toast = [action |-> "gone", of |-> 0] /\ decisions = <<>>
      BY <2>1 DEF ToastsInit, NoToast
    <3>2. toast \in ToastTypes /\ toast.action = "gone"
      BY <3>1 DEF ToastTypes
    <3> QED
      BY <2>1, <3>1, <3>2 DEF ToastsInit, CardTypes
  <2>2. ASSUME ToastsInit
        PROVE  HeldByToast /\ HiddenIsUnderWay /\ TaskTypes
    <3>1. toast.action = "gone"
      BY <2>2 DEF ToastsInit, NoToast
    <3> QED
      BY <2>2, <3>1 DEF ToastsInit, HeldByToast, HiddenIsUnderWay, TaskTypes
  <2> QED
    BY <2>1, <2>2 DEF ToastInv, CardInv
<1>2. ToastInv /\ [ToastsNext]_toastVars => ToastInv'
  <2>1. ASSUME ToastInv, ToastsNext
        PROVE  ToastInv'
    BY <2>1, CardsKept, TasksKept DEF ToastInv
  <2>2. ASSUME ToastInv, UNCHANGED toastVars
        PROVE  ToastInv'
    BY <2>2
       DEF ToastInv, CardInv, CardTypes, HeldByToast, HiddenIsUnderWay, TaskTypes, toastVars
  <2> QED
    BY <2>1, <2>2
<1> QED
  BY <1>1, <1>2, PTL DEF ToastsSpec

(* HeldIsSentOrUndone: an ignore that waits is the one the toast holds, so  *)
(* no toast that takes the slot loses it, and none that was taken back is   *)
(* ever sent.                                                              *)
THEOREM UndoKeepsItsWord == ToastsSpec => HeldIsSentOrUndone
<1>1. ASSUME ToastInv, ToastsNext
      PROVE  /\ \A n \in DOMAIN decisions' : decisions'[n].pc = "held" => held' = n
             /\ \A n \in DOMAIN decisions :
                  decisions[n].pc = "undone" => decisions'[n].pc = "undone"
  <2>1. CardInv' /\ UndoneStays
    BY <1>1, CardsKept DEF ToastInv
  <2> QED
    BY <2>1 DEF CardInv, HeldByToast, UndoneStays
<1>2. ToastInv /\ [ToastsNext]_toastVars =>
        [/\ \A n \in DOMAIN decisions' : decisions'[n].pc = "held" => held' = n
         /\ \A n \in DOMAIN decisions :
              decisions[n].pc = "undone" => decisions'[n].pc = "undone"]_toastVars
  BY <1>1
<1> QED
  BY <1>2, ToastInvariant, PTL DEF ToastsSpec, HeldIsSentOrUndone

(* DrawnIsBacked, where the hub serves the writes of a task in the order    *)
(* they were made: what the screen draws ahead of the replica is backed.    *)
THEOREM DrawingIsBacked == ~Overtakes => (ToastsSpec => []DrawnIsBacked)
<1> SUFFICES ASSUME ~Overtakes
             PROVE  ToastsSpec => []DrawnIsBacked
  OBVIOUS
<1>1. ToastsInit => Ticks
  BY DEF ToastsInit, Ticks
<1>2. ToastInv /\ Ticks /\ [ToastsNext]_toastVars => Ticks'
  <2>1. ASSUME ToastInv, Ticks, ToastsNext
        PROVE  Ticks'
    BY <2>1, TasksKept DEF ToastInv
  <2>2. ASSUME Ticks, UNCHANGED toastVars
        PROVE  Ticks'
    BY <2>2 DEF Ticks, NewestWrite, OnlyBox, toastVars
  <2> QED
    BY <2>1, <2>2
<1>3. ToastInv /\ Ticks => DrawnIsBacked
  <2>1. ASSUME ToastInv, Ticks, inSight = task, \A k \in DOMAIN writes : writes[k].pc = "done",
               NEW t \in Tasks, OnlyBox(t)
        PROVE  StateFor(t) = (t \in inSight)
    <3>1. CASE box[t] = "none"
      BY <3>1 DEF StateFor
    <3>2. CASE box[t] # "none"
      <4>1. PICK k \in DOMAIN writes :
              box[t] = StateOf(writes[k].done) /\ (writes[k].done <=> t \in task)
        BY <2>1, <3>2 DEF Ticks
      <4>2. box[t] = "done" <=> t \in task
        BY <4>1 DEF StateOf
      <4> QED
        BY <2>1, <3>2, <4>2 DEF StateFor
    <3> QED
      BY <3>1, <3>2
  <2>2. ToastInv /\ Ticks => BoxIsItsRow
    BY <2>1 DEF BoxIsItsRow, OnlyBox
  <2> QED
    BY <2>2 DEF ToastInv, CardInv, DrawnIsBacked
<1>4. ToastsSpec => []ToastInv
  BY ToastInvariant
<1> QED
  BY <1>1, <1>2, <1>3, <1>4, PTL DEF ToastsSpec

-----------------------------------------------------------------------------
(* What a person writes.                                                   *)

IsSequence(s) == \E S : s \in Seq(S)

\* The box and the requests are records of their fields.
BoxIsRecord == field = [kind |-> field.kind, open |-> field.open, words |-> field.words]
IsRequest(r) == r = [to |-> r.to, words |-> r.words, mine |-> r.mine, at |-> r.at]

\* A box that is closed, or off the screen, has no text.
ClosedIsEmpty ==
  /\ ~field.open => field.words = {}
  /\ segment # "conversation" => ~field.open
  /\ field.kind = "card" => out = {} /\ segment = "conversation"

\* The text of a box was typed for its subject; a card sees to that when it
\* decides.
TypedForSubject ==
  /\ field.words \subseteq DOMAIN about
  /\ field.kind # "card" => \A w \in field.words : about[w] = Subject

\* A request carries what was typed for its subject, all that is in the box;
\* the hub has what it was sent.
SentForSubject ==
  \A r \in out :
    /\ r.words \subseteq DOMAIN about /\ \A w \in r.words : about[w] = r.to
    /\ field.words \subseteq r.words
    /\ r.at = "stored" => r.words \subseteq Stored

KeptForSubject ==
  \A k \in ToSet(kept) : k.words \subseteq DOMAIN about /\ \A w \in k.words : about[w] = k.to

ComposeShape ==
  /\ IsSequence(about) /\ IsSequence(kept)
  /\ BoxIsRecord /\ field.kind \in Kinds
  /\ \A r \in out : IsRequest(r)

ComposeParts ==
  ClosedIsEmpty /\ TypedForSubject /\ SentForSubject /\ KeptForSubject /\ NoWordIsLost

ComposeInv == ComposeShape /\ ComposeParts

(* What adding to a sequence does, whatever it is of.                      *)
LEMMA Added ==
  ASSUME NEW s, IsSequence(s), NEW e
  PROVE  /\ IsSequence(Append(s, e)) /\ Len(s) \in Nat
         /\ DOMAIN s = 1 .. Len(s) /\ DOMAIN Append(s, e) = 1 .. Len(s) + 1
         /\ \A i \in DOMAIN s : Append(s, e)[i] = s[i]
         /\ Append(s, e)[Len(s) + 1] = e
         /\ ToSet(Append(s, e)) = ToSet(s) \cup {e}
<1>1. PICK S : s \in Seq(S)
  BY DEF IsSequence
<1> DEFINE T == S \cup {e}
<1>2. s \in Seq(T) /\ e \in T
  BY <1>1
<1> HIDE DEF T
<1>3. /\ Append(s, e) \in Seq(T) /\ Len(Append(s, e)) = Len(s) + 1
      /\ \A i \in 1 .. Len(s) : Append(s, e)[i] = s[i]
      /\ Append(s, e)[Len(s) + 1] = e
  BY <1>2, AppendProperties
<1>4. Len(s) \in Nat /\ DOMAIN s = 1 .. Len(s) /\ DOMAIN Append(s, e) = 1 .. Len(s) + 1
  BY <1>2, <1>3, LenProperties
<1>5. IsSequence(Append(s, e))
  BY <1>3 DEF IsSequence
<1>6. ToSet(Append(s, e)) \subseteq ToSet(s) \cup {e}
  <2>1. ASSUME NEW i \in 1 .. Len(s) + 1
        PROVE  Append(s, e)[i] \in ToSet(s) \cup {e}
    <3>1. CASE i \in 1 .. Len(s)
      BY <3>1, <1>3, <1>4 DEF ToSet
    <3>2. CASE i = Len(s) + 1
      BY <3>2, <1>3
    <3> QED
      BY <3>1, <3>2, <1>4
  <2> QED
    BY <2>1, <1>4 DEF ToSet
<1>7. ToSet(s) \cup {e} \subseteq ToSet(Append(s, e))
  <2>1. \A i \in 1 .. Len(s) : s[i] \in ToSet(Append(s, e))
    BY <1>3, <1>4 DEF ToSet
  <2>2. Len(s) + 1 \in 1 .. Len(s) + 1
    BY <1>4
  <2>3. e \in ToSet(Append(s, e))
    BY <2>2, <1>3, <1>4 DEF ToSet
  <2> QED
    BY <2>1, <2>3, <1>4 DEF ToSet
<1> QED
  BY <1>3, <1>4, <1>5, <1>6, <1>7

(* The box after it was written in.                                        *)
LEMMA BoxWritten ==
  ASSUME BoxIsRecord, NEW words, Writes(words)
  PROVE  field'.kind = field.kind /\ field'.open /\ field'.words = words /\ BoxIsRecord'
<1> DEFINE kind == field.kind
<1>1. field' = [kind |-> kind, open |-> TRUE, words |-> words]
  BY DEF BoxIsRecord, Writes
<1> HIDE DEF kind
<1>2. field'.kind = kind /\ field'.open = TRUE /\ field'.words = words
  BY <1>1
<1>3. BoxIsRecord'
  BY <1>1, <1>2 DEF BoxIsRecord
<1> QED
  BY <1>2, <1>3 DEF kind

\* The requests of before, or some of them; what was stored still is.
OldRequests ==
  \A r \in out' : \E q \in out :
    /\ r.to = q.to /\ r.words = q.words
    /\ r.at = "stored" => q.at = "stored" \/ r.words \subseteq Stored'

(* The box after it has left the screen.                                   *)
LEMMA BoxUnmounted ==
  ASSUME ComposeShape, NEW fate, Unmount(fate), Stored \subseteq Stored'
  PROVE  /\ field'.kind = field.kind /\ ~field'.open /\ field'.words = {} /\ BoxIsRecord'
         /\ \A r \in out' : IsRequest(r)
         /\ OldRequests /\ thrown \subseteq thrown'
         /\ fate = "thrown" => field.words \subseteq thrown'
         /\ out = {} => out' = {}
<1> DEFINE kind == field.kind
<1>1. field' = [kind |-> kind, open |-> FALSE, words |-> {}]
  BY DEF ComposeShape, BoxIsRecord, Unmount
<1> HIDE DEF kind
<1>2. field'.kind = kind /\ field'.open = FALSE /\ field'.words = {}
  BY <1>1
<1>3. BoxIsRecord'
  BY <1>1, <1>2 DEF BoxIsRecord
<1>4. out' = {[r EXCEPT !.mine = FALSE] : r \in out}
  BY DEF Unmount
<1>5. ASSUME NEW r \in out'
      PROVE  /\ IsRequest(r)
             /\ \E q \in out : r.to = q.to /\ r.words = q.words /\ r.at = q.at
  <2>1. PICK q \in out : r = [q EXCEPT !.mine = FALSE]
    BY <1>4
  <2>2. q = [to |-> q.to, words |-> q.words, mine |-> q.mine, at |-> q.at]
    BY DEF ComposeShape, IsRequest
  <2>3. r = [to |-> q.to, words |-> q.words, mine |-> FALSE, at |-> q.at]
    BY <2>1, <2>2
  <2>4. r.to = q.to /\ r.words = q.words /\ r.at = q.at /\ r.mine = FALSE
    BY <2>3
  <2> QED
    BY <2>3, <2>4 DEF IsRequest
<1>6. OldRequests
  BY <1>5 DEF OldRequests
<1>7. thrown \subseteq thrown' /\ (fate = "thrown" => field.words \subseteq thrown')
  BY DEF Unmount
<1>8. out = {} => out' = {}
  BY <1>4
<1> QED
  BY <1>2, <1>3, <1>5, <1>6, <1>7, <1>8 DEF kind

(* Steps that type nothing and send nothing new.                           *)
LEMMA TextKept ==
  ASSUME ComposeParts, UNCHANGED about, field'.kind = field.kind,
         field'.words \in {field.words, {}},
         field.kind # "card" => field'.words = {} \/ Subject' = Subject,
         thrown \subseteq thrown', Stored \subseteq Stored',
         field.words \subseteq field'.words \cup Stored' \cup thrown',
         OldRequests, KeptForSubject', ClosedIsEmpty'
  PROVE  ComposeParts'
<1>1. TypedForSubject'
  BY DEF ComposeParts, TypedForSubject
<1>2. NoWordIsLost'
  BY DEF ComposeParts, NoWordIsLost
<1>3. ASSUME NEW r \in out'
      PROVE  /\ r.words \subseteq DOMAIN about /\ \A w \in r.words : about[w] = r.to
             /\ field'.words \subseteq r.words
             /\ r.at = "stored" => r.words \subseteq Stored'
  <2>1. PICK q \in out :
          /\ r.to = q.to /\ r.words = q.words
          /\ r.at = "stored" => q.at = "stored" \/ r.words \subseteq Stored'
    BY DEF OldRequests
  <2>2. /\ q.words \subseteq DOMAIN about /\ \A w \in q.words : about[w] = q.to
        /\ field.words \subseteq q.words
        /\ q.at = "stored" => q.words \subseteq Stored
    BY DEF ComposeParts, SentForSubject
  <2> QED
    BY <2>1, <2>2
<1>4. SentForSubject'
  BY <1>3 DEF SentForSubject
<1> QED
  BY <1>1, <1>2, <1>4 DEF ComposeParts

(* Steps that leave what the hub has.                                      *)
LEMMA KeptRests ==
  ASSUME UNCHANGED <<about, kept>>
  PROVE  /\ KeptForSubject => KeptForSubject'
         /\ Stored' = Stored
BY DEF KeptForSubject, Stored

(* A word is typed into the box, about its subject; or the card's editor    *)
(* opens on the message of its card.                                       *)
LEMMA WordTyped ==
  ASSUME ComposeInv, NEW s, NEW words, words \in {field.words, {}}, Writes(words \cup {NewWord}),
         about' = Append(about, s), field.kind # "card" => s = Subject /\ Subject' = Subject,
         field.words = {} \/ words = field.words, out = {},
         segment = "conversation",
         UNCHANGED <<segment, out, kept, thrown>>
  PROVE  ComposeInv'
<1>1. /\ IsSequence(about') /\ NewWord = Len(about) + 1 /\ Len(about) \in Nat
      /\ DOMAIN about = 1 .. Len(about) /\ DOMAIN about' = 1 .. Len(about) + 1
      /\ \A i \in DOMAIN about : about'[i] = about[i]
      /\ about'[Len(about) + 1] = s
  BY Added DEF ComposeInv, ComposeShape, NewWord
<1>2. /\ field'.kind = field.kind /\ field'.open /\ field'.words = words \cup {NewWord}
      /\ BoxIsRecord'
  BY BoxWritten DEF ComposeInv, ComposeShape
<1>3. DOMAIN about' = DOMAIN about \cup {NewWord} /\ DOMAIN about \subseteq DOMAIN about'
  BY <1>1
<1>4. ComposeShape'
  BY <1>1, <1>2 DEF ComposeInv, ComposeShape, IsRequest
<1>5. ClosedIsEmpty'
  BY <1>2 DEF ComposeInv, ComposeParts, ClosedIsEmpty
<1>6. \A w \in words : w \in DOMAIN about
  BY DEF ComposeInv, ComposeParts, TypedForSubject
<1>7. TypedForSubject'
  <2>1. field'.words \subseteq DOMAIN about'
    BY <1>2, <1>3, <1>6
  <2>2. ASSUME field.kind # "card", NEW w \in words \cup {NewWord}
        PROVE  about'[w] = Subject'
    <3>1. CASE w = NewWord
      BY <2>2, <3>1, <1>1
    <3>2. CASE w \in words
      <4>1. about[w] = Subject
        BY <2>2, <3>2 DEF ComposeInv, ComposeParts, TypedForSubject
      <4> QED
        BY <2>2, <3>2, <4>1, <1>1, <1>6
    <3> QED
      BY <3>1, <3>2, <2>2
  <2> QED
    BY <2>1, <2>2, <1>2 DEF TypedForSubject
<1>8. SentForSubject'
  BY DEF SentForSubject
<1>9. KeptForSubject' /\ Stored' = Stored
  <2>1. KeptForSubject
    BY DEF ComposeInv, ComposeParts
  <2> QED
    BY <2>1, <1>1, <1>3 DEF KeptForSubject, Stored
<1>10. NoWordIsLost'
  BY <1>2, <1>3, <1>9 DEF ComposeInv, ComposeParts, NoWordIsLost
<1> QED
  BY <1>4, <1>5, <1>7, <1>8, <1>9, <1>10 DEF ComposeInv, ComposeParts

(* The hub has one thing more, of words typed about what it is for.        *)
LEMMA KeptGrows ==
  ASSUME ComposeInv, NEW to, NEW words, words \subseteq DOMAIN about,
         \A w \in words : about[w] = to,
         kept' = Append(kept, [to |-> to, words |-> words]), UNCHANGED about
  PROVE  /\ IsSequence(kept') /\ KeptForSubject'
         /\ Stored \subseteq Stored' /\ words \subseteq Stored'
<1> DEFINE k == [to |-> to, words |-> words]
<1>1. k.to = to /\ k.words = words
  OBVIOUS
<1>2. kept' = Append(kept, k)
  OBVIOUS
<1> HIDE DEF k
<1>3. IsSequence(kept') /\ ToSet(kept') = ToSet(kept) \cup {k}
  BY <1>2, Added DEF ComposeInv, ComposeShape
<1>4. KeptForSubject'
  BY <1>1, <1>3 DEF ComposeInv, ComposeParts, KeptForSubject
<1>5. Stored \subseteq Stored' /\ words \subseteq Stored'
  BY <1>1, <1>3 DEF Stored
<1> QED
  BY <1>3, <1>4, <1>5

(* What a box is about, the stack's apart, changes with the thread alone.  *)
LEMMA SubjectRests ==
  ASSUME ComposeShape, field'.kind = field.kind, UNCHANGED shown, field.kind # "card"
  PROVE  Subject' = Subject
<1>1. field.kind \in {"reply", "line"}
  BY DEF ComposeShape, Kinds
<1>2. CASE field.kind = "reply"
  BY <1>2 DEF Subject
<1>3. CASE field.kind = "line"
  BY <1>3 DEF Subject
<1> QED
  BY <1>1, <1>2, <1>3

(* What the invariant says of requests that stay as they are.              *)
LEMMA FewerRequests ==
  ASSUME ComposeShape, out' \subseteq out, Stored \subseteq Stored'
  PROVE  OldRequests /\ \A r \in out' : IsRequest(r)
BY DEF OldRequests, ComposeShape, IsRequest

(* The box opens empty, for the first time or again.                       *)
LEMMA BoxOpens ==
  ASSUME ComposeInv, Writes({}), ~field.open, segment' = "conversation",
         field.kind = "card" => out = {},
         UNCHANGED <<shown, about, out, kept, thrown>>
  PROVE  ComposeInv'
<1>1. /\ field'.kind = field.kind /\ field'.open /\ field'.words = {} /\ BoxIsRecord'
  BY BoxWritten DEF ComposeInv, ComposeShape
<1>2. field.words = {}
  BY DEF ComposeInv, ComposeParts, ClosedIsEmpty
<1>3. KeptForSubject' /\ Stored' = Stored
  BY KeptRests DEF ComposeInv, ComposeParts
<1>4. OldRequests /\ \A r \in out' : IsRequest(r)
  BY <1>3, FewerRequests DEF ComposeInv
<1>5. ClosedIsEmpty'
  BY <1>1 DEF ComposeInv, ComposeParts, ClosedIsEmpty
<1>6. ComposeParts'
  BY <1>1, <1>2, <1>3, <1>4, <1>5, TextKept DEF ComposeInv
<1>7. ComposeShape'
  BY <1>1, <1>4 DEF ComposeInv, ComposeShape, IsSequence
<1> QED
  BY <1>6, <1>7 DEF ComposeInv

(* The box leaves the screen, without text or by the person's own hand.    *)
LEMMA BoxLeaves ==
  ASSUME ComposeInv, NEW fate, Unmount(fate), field.words = {} \/ fate = "thrown",
         segment' = segment \/ field.kind # "card",
         UNCHANGED <<about, kept>>
  PROVE  ComposeInv'
<1>1. KeptForSubject' /\ Stored' = Stored
  BY KeptRests DEF ComposeInv, ComposeParts
<1>2. /\ field'.kind = field.kind /\ ~field'.open /\ field'.words = {} /\ BoxIsRecord'
      /\ \A r \in out' : IsRequest(r)
      /\ OldRequests /\ thrown \subseteq thrown'
      /\ fate = "thrown" => field.words \subseteq thrown'
      /\ out = {} => out' = {}
  BY <1>1, BoxUnmounted DEF ComposeInv
<1>3. ClosedIsEmpty'
  BY <1>2 DEF ComposeInv, ComposeParts, ClosedIsEmpty
<1>4. ComposeParts'
  BY <1>1, <1>2, <1>3, TextKept DEF ComposeInv
<1>5. ComposeShape'
  BY <1>2 DEF ComposeInv, ComposeShape, IsSequence
<1> QED
  BY <1>4, <1>5 DEF ComposeInv

(* The box stays as it is.                                                 *)
LEMMA BoxRests ==
  ASSUME ComposeInv, UNCHANGED <<field, segment, about, kept, thrown>>, out' \subseteq out,
         field.kind # "card" => field.words = {} \/ shown' = shown
  PROVE  ComposeInv'
<1>1. KeptForSubject' /\ Stored' = Stored
  BY KeptRests DEF ComposeInv, ComposeParts
<1>2. OldRequests /\ \A r \in out' : IsRequest(r)
  BY <1>1, FewerRequests DEF ComposeInv
<1>3. ClosedIsEmpty'
  BY DEF ComposeInv, ComposeParts, ClosedIsEmpty
<1>4. field.kind # "card" => field'.words = {} \/ Subject' = Subject
  BY SubjectRests DEF ComposeInv
<1>5. ComposeParts'
  BY <1>1, <1>2, <1>3, <1>4, TextKept DEF ComposeInv
<1>6. ComposeShape'
  BY <1>2 DEF ComposeInv, ComposeShape, BoxIsRecord, IsSequence
<1> QED
  BY <1>5, <1>6 DEF ComposeInv

(* The stack changes while its card has no text.                           *)
LEMMA StackChanges ==
  ASSUME ComposeInv, NEW q, StackIs(q), field.words = {},
         UNCHANGED <<shown, segment, about, kept>>
  PROVE  ComposeInv'
<1>1. CASE q = <<>>
  BY <1>1, BoxLeaves DEF StackIs
<1>2. CASE q # <<>>
  BY <1>2, BoxRests DEF StackIs
<1> QED
  BY <1>1, <1>2

(* send() puts what is in the box under way.                               *)
LEMMA Sent ==
  ASSUME ComposeInv, ~Hasty, Submit
  PROVE  ComposeInv'
<1> DEFINE r == [to |-> Subject, words |-> field.words, mine |-> TRUE, at |-> "sent"]
<1>1. /\ field.open /\ field.kind # "card"
      /\ UNCHANGED <<field, shown, queue, unborn, segment, about, kept, thrown, lost>>
      /\ out' = out \cup {r}
  BY DEF Submit
<1>2. r.to = Subject /\ r.words = field.words /\ r.at = "sent" /\ IsRequest(r)
  BY DEF IsRequest
<1> HIDE DEF r
<1>3. KeptForSubject' /\ Stored' = Stored
  BY <1>1, KeptRests DEF ComposeInv, ComposeParts
<1>4. Subject' = Subject
  BY <1>1, SubjectRests DEF ComposeInv
<1>5. field.words \subseteq DOMAIN about /\ \A w \in field.words : about[w] = Subject
  BY <1>1 DEF ComposeInv, ComposeParts, TypedForSubject
<1>6. SentForSubject'
  <2>1. ASSUME NEW q \in out \cup {r}
        PROVE  /\ q.words \subseteq DOMAIN about /\ \A w \in q.words : about[w] = q.to
               /\ field.words \subseteq q.words
               /\ q.at = "stored" => q.words \subseteq Stored
    <3>1. CASE q = r
      BY <3>1, <1>2, <1>5
    <3>2. CASE q \in out
      BY <3>2 DEF ComposeInv, ComposeParts, SentForSubject
    <3> QED
      BY <3>1, <3>2
  <2> QED
    BY <2>1, <1>1, <1>3 DEF SentForSubject
<1>7. TypedForSubject' /\ NoWordIsLost' /\ ClosedIsEmpty'
  BY <1>1, <1>3, <1>4
     DEF ComposeInv, ComposeParts, TypedForSubject, NoWordIsLost, ClosedIsEmpty
<1>8. ComposeShape'
  BY <1>1, <1>2 DEF ComposeInv, ComposeShape, BoxIsRecord, IsSequence, IsRequest
<1> QED
  BY <1>3, <1>6, <1>7, <1>8 DEF ComposeInv, ComposeParts

(* The hub stores what a request brought.                                  *)
LEMMA StoredByHub ==
  ASSUME ComposeInv, NEW r \in out, Store(r)
  PROVE  ComposeInv'
<1> DEFINE s == [r EXCEPT !.at = "stored"]
<1>1. /\ kept' = Append(kept, [to |-> r.to, words |-> r.words])
      /\ out' = (out \ {r}) \cup {s}
      /\ UNCHANGED <<field, shown, queue, unborn, segment, about, thrown, lost>>
  BY DEF Store
<1>2. /\ r = [to |-> r.to, words |-> r.words, mine |-> r.mine, at |-> r.at]
      /\ r.words \subseteq DOMAIN about /\ \A w \in r.words : about[w] = r.to
  BY DEF ComposeInv, ComposeShape, IsRequest, ComposeParts, SentForSubject
<1>3. s = [to |-> r.to, words |-> r.words, mine |-> r.mine, at |-> "stored"]
  BY <1>2
<1> HIDE DEF s
<1>4. s.to = r.to /\ s.words = r.words /\ IsRequest(s)
  BY <1>3 DEF IsRequest
<1>5. /\ IsSequence(kept') /\ KeptForSubject'
      /\ Stored \subseteq Stored' /\ r.words \subseteq Stored'
  BY <1>1, <1>2, KeptGrows
<1>6. OldRequests
  BY <1>1, <1>4, <1>5 DEF OldRequests
<1>7. ClosedIsEmpty' /\ (field.kind # "card" => Subject' = Subject)
  <2>1. field.kind # "card"
    BY DEF ComposeInv, ComposeParts, ClosedIsEmpty
  <2> QED
    BY <2>1, <1>1, SubjectRests DEF ComposeInv, ComposeParts, ClosedIsEmpty
<1>8. ComposeParts'
  BY <1>1, <1>5, <1>6, <1>7, TextKept DEF ComposeInv
<1>9. ComposeShape'
  BY <1>1, <1>4, <1>5 DEF ComposeInv, ComposeShape, BoxIsRecord, IsSequence, IsRequest
<1> QED
  BY <1>8, <1>9 DEF ComposeInv

(* The answer of a request the hub has stored clears its box: what was in   *)
(* it was sent.                                                            *)
LEMMA Cleared ==
  ASSUME ComposeInv, NEW r \in out, AnswerComes(r)
  PROVE  ComposeInv'
<1>1. /\ r.at = "stored" /\ Clears(r)
      /\ out' = {[q EXCEPT !.mine = @ /\ field.kind = "line"] : q \in out \ {r}}
      /\ UNCHANGED <<shown, queue, unborn, segment, about, kept, thrown, lost>>
  BY DEF AnswerComes
<1>2. KeptForSubject' /\ Stored' = Stored
  BY <1>1, KeptRests DEF ComposeInv, ComposeParts
<1>3. field.words \subseteq Stored /\ field.kind # "card"
  BY <1>1 DEF ComposeInv, ComposeParts, SentForSubject, ClosedIsEmpty
<1>4. ASSUME NEW p \in out'
      PROVE  /\ IsRequest(p)
             /\ \E q \in out : p.to = q.to /\ p.words = q.words /\ p.at = q.at
  <2>1. PICK q \in out : p = [q EXCEPT !.mine = @ /\ field.kind = "line"]
    BY <1>1
  <2>2. q = [to |-> q.to, words |-> q.words, mine |-> q.mine, at |-> q.at]
    BY DEF ComposeInv, ComposeShape, IsRequest
  <2> DEFINE mine == q.mine /\ field.kind = "line"
  <2>3. p = [q EXCEPT !.mine = mine]
    BY <2>1
  <2> HIDE DEF mine
  <2>4. p = [to |-> q.to, words |-> q.words, mine |-> mine, at |-> q.at]
    BY <2>2, <2>3
  <2>5. p.to = q.to /\ p.words = q.words /\ p.at = q.at /\ p.mine = mine
    BY <2>4
  <2> QED
    BY <2>4, <2>5 DEF IsRequest
<1>5. OldRequests
  BY <1>2, <1>4 DEF OldRequests
<1> DEFINE kind == field.kind
           open == field.open
<1>6. \/ field' = [kind |-> kind, open |-> FALSE, words |-> {}]
      \/ field' = [kind |-> kind, open |-> open, words |-> {}]
      \/ UNCHANGED field
  BY <1>1 DEF Clears, ComposeInv, ComposeShape, BoxIsRecord
<1> HIDE DEF kind, open
<1>7. /\ field'.kind = kind /\ BoxIsRecord'
      /\ \/ field'.words = {} /\ (field'.open => open)
         \/ UNCHANGED field
  <2>1. BoxIsRecord
    BY DEF ComposeInv, ComposeShape
  <2>2. CASE field' = [kind |-> kind, open |-> FALSE, words |-> {}]
    BY <2>2 DEF BoxIsRecord
  <2>3. CASE field' = [kind |-> kind, open |-> open, words |-> {}]
    BY <2>3 DEF BoxIsRecord
  <2>4. CASE UNCHANGED field
    BY <2>1, <2>4 DEF BoxIsRecord, kind
  <2> QED
    BY <1>6, <2>2, <2>3, <2>4
<1>8. ClosedIsEmpty'
  BY <1>1, <1>3, <1>7 DEF ComposeInv, ComposeParts, ClosedIsEmpty, kind, open
<1>9. Subject' = Subject
  BY <1>1, <1>3, <1>7, SubjectRests DEF ComposeInv, kind
<1>10. field'.words \in {field.words, {}}
  BY <1>7
<1>11. ComposeParts'
  BY <1>1, <1>2, <1>3, <1>5, <1>7, <1>8, <1>9, <1>10, TextKept DEF ComposeInv, kind
<1>12. ComposeShape'
  BY <1>1, <1>4, <1>7 DEF ComposeInv, ComposeShape, IsSequence, kind
<1> QED
  BY <1>11, <1>12 DEF ComposeInv

(* An approval is decided with the text of its card.                       *)
LEMMA DecidedAsWritten ==
  ASSUME ComposeInv, ~Wanders, DecideEdited
  PROVE  ComposeInv'
<1> DEFINE rest == SelectSeq(queue, LAMBDA a : a # Decided)
<1>1. /\ field.kind = "card" /\ \A w \in field.words : about[w] = Active
      /\ kept' = Append(kept, [to |-> Active, words |-> field.words])
      /\ StackIs(rest) /\ UNCHANGED <<shown, unborn, segment, about, lost>>
  BY DEF DecideEdited, Decided
<1> HIDE DEF rest
<1>2. field.words \subseteq DOMAIN about
  BY DEF ComposeInv, ComposeParts, TypedForSubject
<1>3. /\ IsSequence(kept') /\ KeptForSubject'
      /\ Stored \subseteq Stored' /\ field.words \subseteq Stored'
  BY <1>1, <1>2, KeptGrows
<1>4. out = {} /\ segment = "conversation"
  BY <1>1 DEF ComposeInv, ComposeParts, ClosedIsEmpty
<1>5. CASE rest = <<>>
  <2>1. Unmount("lost")
    BY <1>1, <1>5 DEF StackIs
  <2>2. /\ field'.kind = field.kind /\ ~field'.open /\ field'.words = {} /\ BoxIsRecord'
        /\ \A r \in out' : IsRequest(r)
        /\ OldRequests /\ thrown \subseteq thrown' /\ out' = {}
    BY <2>1, <1>3, <1>4, BoxUnmounted DEF ComposeInv
  <2>3. ClosedIsEmpty'
    BY <2>2, <1>1, <1>4 DEF ClosedIsEmpty
  <2>4. ComposeParts'
    BY <2>2, <2>3, <1>1, <1>3, TextKept DEF ComposeInv
  <2>5. ComposeShape'
    BY <2>2, <1>1, <1>3 DEF ComposeInv, ComposeShape, IsSequence
  <2> QED
    BY <2>4, <2>5 DEF ComposeInv
<1>6. CASE rest # <<>>
  <2>1. UNCHANGED <<field, thrown, out>>
    BY <1>1, <1>6 DEF StackIs
  <2>2. OldRequests /\ ClosedIsEmpty'
    BY <2>1, <1>1, <1>4 DEF OldRequests, ComposeInv, ComposeParts, ClosedIsEmpty
  <2>3. ComposeParts'
    BY <2>1, <2>2, <1>1, <1>3, TextKept DEF ComposeInv
  <2>4. ComposeShape'
    BY <2>1, <1>1, <1>3, <1>4 DEF ComposeInv, ComposeShape, BoxIsRecord, IsSequence
  <2> QED
    BY <2>3, <2>4 DEF ComposeInv
<1> QED
  BY <1>5, <1>6

(* Every step keeps the invariant, for a person who neither types while a   *)
(* request is out nor goes on with text left behind.                       *)
LEMMA ComposeKept ==
  ASSUME ~Hasty, ~Wanders, ComposeInv, ComposeNext
  PROVE  ComposeInv'
<1>1. CASE OpenBox
  BY <1>1, BoxOpens DEF OpenBox
<1>2. CASE OpenEditor
  <2>1. field.words = {} /\ out = {} /\ segment = "conversation"
    BY <1>2 DEF OpenEditor, ComposeInv, ComposeParts, ClosedIsEmpty
  <2>2. Writes({} \cup {NewWord}) /\ about' = Append(about, Active) /\ field.kind = "card"
    BY <1>2 DEF OpenEditor
  <2> QED
    BY <1>2, <2>1, <2>2, WordTyped DEF OpenEditor
<1>3. CASE Type
  <2>1. out = {} /\ segment = "conversation"
    BY <1>3 DEF Type, Waits, ComposeInv, ComposeParts, ClosedIsEmpty
  <2>2. field'.kind = field.kind
    BY <1>3, BoxWritten DEF Type, ComposeInv, ComposeShape
  <2>3. field.kind # "card" => Subject' = Subject
    BY <1>3, <2>2, SubjectRests DEF Type, ComposeInv
  <2> QED
    BY <1>3, <2>1, <2>3, WordTyped DEF Type
<1>4. CASE Cancel
  BY <1>4, BoxLeaves DEF Cancel
<1>5. CASE Submit
  BY <1>5, Sent
<1>6. CASE LeaveView
  BY <1>6, BoxLeaves DEF LeaveView, MayMove
<1>7. CASE ReturnToView
  <2>1. ~field.open /\ (field.kind = "card" => out = {})
    BY <1>7 DEF ReturnToView, ComposeInv, ComposeParts, ClosedIsEmpty
  <2> QED
    BY <1>7, <2>1, BoxOpens DEF ReturnToView
<1>8. ASSUME NEW s \in ToSet(Subjects), OpenThread(s)
      PROVE  ComposeInv'
  BY <1>8, BoxRests DEF OpenThread, MayMove
<1>9. ASSUME NEW s \in ToSet(Subjects), Pick(s)
      PROVE  ComposeInv'
  BY <1>9, BoxRests DEF Pick
<1>10. ASSUME NEW s \in ToSet(Subjects), DecidedElsewhere(s)
       PROVE  ComposeInv'
  BY <1>10, StackChanges DEF DecidedElsewhere, MayMove
<1>11. ASSUME NEW r \in out, Store(r)
       PROVE  ComposeInv'
  BY <1>11, StoredByHub
<1>12. ASSUME NEW r \in out, AnswerComes(r)
       PROVE  ComposeInv'
  BY <1>12, Cleared
<1>13. ASSUME NEW r \in out, Lost(r)
       PROVE  ComposeInv'
  BY <1>13, BoxRests DEF Lost, Keeps
<1>14. CASE DecideEdited
  BY <1>14, DecidedAsWritten
<1>15. CASE Proposed
  BY <1>15, StackChanges DEF Proposed, MayMove
<1> QED
  BY <1>1, <1>2, <1>3, <1>4, <1>5, <1>6, <1>7, <1>8, <1>9, <1>10, <1>11, <1>12, <1>13, <1>14,
     <1>15 DEF ComposeNext

(* The inductive invariant of composing, for such a person.                *)
THEOREM ComposeInvariant == ~Hasty /\ ~Wanders => (ComposeSpec => []ComposeInv)
<1> SUFFICES ASSUME ~Hasty, ~Wanders
             PROVE  ComposeSpec => []ComposeInv
  OBVIOUS
<1>1. ComposeInit => ComposeInv
  <2> SUFFICES ASSUME ComposeInit
               PROVE  ComposeInv
    OBVIOUS
  <2>1. field \in [kind : Kinds, open : {FALSE}, words : {{}}]
    BY DEF ComposeInit
  <2>2. field.kind \in Kinds /\ ~field.open /\ field.words = {} /\ BoxIsRecord
    BY <2>1 DEF BoxIsRecord
  <2>3. about = <<>> /\ kept = <<>> /\ out = {} /\ segment = "conversation" /\ thrown = {}
    BY DEF ComposeInit
  <2>4. IsSequence(about) /\ IsSequence(kept)
    <3>1. <<>> \in Seq({})
      OBVIOUS
    <3> QED
      BY <3>1, <2>3 DEF IsSequence
  <2>5. DOMAIN about = {} /\ ToSet(kept) = {}
    BY <2>3 DEF ToSet
  <2>6. ComposeParts
    BY <2>2, <2>3, <2>5
       DEF ComposeParts, ClosedIsEmpty, TypedForSubject, SentForSubject, KeptForSubject,
           NoWordIsLost
  <2> QED
    BY <2>2, <2>3, <2>4, <2>6 DEF ComposeInv, ComposeShape
<1>2. ComposeInv /\ [ComposeNext]_composeVars => ComposeInv'
  <2>1. ASSUME ComposeInv, ComposeNext
        PROVE  ComposeInv'
    BY <2>1, ComposeKept
  <2>2. ASSUME ComposeInv, UNCHANGED composeVars
        PROVE  ComposeInv'
    BY <2>2, BoxRests DEF composeVars
  <2> QED
    BY <2>1, <2>2
<1> QED
  BY <1>1, <1>2, PTL DEF ComposeSpec

(* WordsReachTheirSubject: what is written in a box is stored for what it   *)
(* was written about, and leaves the box only when it is stored or given    *)
(* up, for a person who neither types while a request is out nor goes on    *)
(* with text left behind: the box itself does not see to either.           *)
THEOREM WordsArrive ==
  ~Hasty /\ ~Wanders => (ComposeSpec => []WordsReachTheirSubject)
<1> SUFFICES ASSUME ~Hasty, ~Wanders
             PROVE  ComposeSpec => []WordsReachTheirSubject
  OBVIOUS
<1>1. ComposeInv => WordsReachTheirSubject
  BY DEF ComposeInv, ComposeParts, KeptForSubject, WordsReachTheirSubject, KeptWhereWritten
<1> QED
  BY <1>1, ComposeInvariant, PTL

===============================================================================
