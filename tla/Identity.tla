------------------------------ MODULE Identity ------------------------------
(***************************************************************************)
(* Who wrote an item: createIngestSink resolves the author of each item    *)
(* with resolvePerson, in the transaction that stores it, while the pumps  *)
(* of other accounts do the same, and mergePersons and splitIdentity move  *)
(* identities and items between persons.                                   *)
(*                                                                         *)
(* Postgres is outside src: a statement reads what is committed, and an    *)
(* INSERT ... ON CONFLICT waits for a transaction that inserts the same    *)
(* key.  The kernel exports merge and split, and nothing in the build      *)
(* calls them yet; they are taken as one person's, one at a time.  An item *)
(* that is brought again is not resolved again here.                       *)
(***************************************************************************)
EXTENDS Naturals, FiniteSets

CONSTANTS
  Accounts, Items, Handles,
  ChannelOf,     \* the channel of an account
  AccountOf,     \* the account of an item
  HandleOf,      \* the normalized handle of its author
  Addresses,     \* handles with an @ in them
  Mailboxes,     \* the channels gmail, outlook and gcal
  Malformed,     \* handles that handleNorm refuses
  MaxPersons,
  MaxEdits       \* bound on merges, splits and transactions that fail

Channels == {ChannelOf[a] : a \in Accounts}

ASSUME IdentityAssumption ==
  /\ AccountOf \in [Items -> Accounts] /\ HandleOf \in [Items -> Handles]
  /\ DOMAIN ChannelOf = Accounts
  /\ Addresses \subseteq Handles /\ Malformed \subseteq Handles \ Addresses
  /\ Items # {} /\ MaxPersons \in Nat /\ MaxEdits \in Nat

VARIABLES
  persons,      \* how many were created
  merged,       \* merged_into, 0 for NULL
  identities,   \* the person of each channel and handle, 0 for no row
  author,       \* of the items stored, 0 for NULL
  tx,           \* the transaction of each account's pump
  merge,        \* a merge that has found its survivor
  edits,
  raced         \* history: keys whose resolution and commit lie on two sides of a change

people == <<persons, merged>>
rows == <<identities, author>>
ivars == <<people, rows, tx, merge, edits, raced>>

Person == 1 .. MaxPersons
KeyOf(i) == <<ChannelOf[AccountOf[i]], HandleOf[i]>>
Idle == [step |-> "idle", item |-> CHOOSE i \in Items : TRUE, person |-> 0, key |-> "none"]
NoMerge == [from |-> 0, to |-> 0]

TypeOK ==
  /\ persons \in 0 .. MaxPersons
  /\ merged \in [Person -> 0 .. MaxPersons]
  /\ identities \in [Channels \X Handles -> 0 .. MaxPersons]
  /\ DOMAIN author \subseteq Items /\ \A i \in DOMAIN author : author[i] \in 0 .. MaxPersons
  /\ tx \in [Accounts -> [step : {"idle", "cross", "create", "claim", "store"}, item : Items,
                          person : 0 .. MaxPersons, key : {"none", "new", "taken", "mine"}]]
  /\ merge \in [from : 0 .. MaxPersons, to : 0 .. MaxPersons]
  /\ raced \subseteq Channels \X Handles

Init ==
  /\ persons = 0 /\ merged = [p \in Person |-> 0]
  /\ identities = [k \in Channels \X Handles |-> 0]
  /\ author = [i \in {} |-> 0] /\ tx = [a \in Accounts |-> Idle]
  /\ merge = NoMerge /\ edits = 0
  /\ raced = {}

Hop(p) == IF merged[p] = 0 THEN p ELSE merged[p]

\* followMerges: four hops at the most.
FollowMerges(p) == Hop(Hop(Hop(Hop(p))))

-----------------------------------------------------------------------------
(* createIngestSink and resolvePerson, a statement at a time.              *)

Step(a, t) == tx' = [tx EXCEPT ![a] = t]
Waits(a, step) == tx[a].step = step

\* The identity of this channel and handle.
Lookup(a, i) ==
  /\ Waits(a, "idle") /\ AccountOf[i] = a /\ i \notin DOMAIN author
  /\ LET p == identities[KeyOf(i)] IN
     Step(a, [item |-> i, key |-> "none",
              step |-> IF HandleOf[i] \in Malformed \/ p # 0 THEN "store"
                       ELSE IF HandleOf[i] \in Addresses THEN "cross" ELSE "create",
              person |-> IF HandleOf[i] \in Malformed \/ p = 0 THEN 0 ELSE FollowMerges(p)])
  /\ UNCHANGED <<people, rows, merge, edits, raced>>

\* The same address on another mailbox.
CrossMatches(h) == {k \in Channels \X {h} : k[1] \in Mailboxes /\ identities[k] # 0}

Cross(a) ==
  /\ Waits(a, "cross")
  /\ LET found == CrossMatches(HandleOf[tx[a].item]) IN
     IF found = {} THEN Step(a, [tx[a] EXCEPT !.step = "create"])
     ELSE \E k \in found :
            Step(a, [tx[a] EXCEPT !.step = "claim", !.person = FollowMerges(identities[k])])
  /\ UNCHANGED <<people, rows, merge, edits, raced>>

\* A new person, who keeps the number whether or not the transaction commits.
Create(a) ==
  /\ Waits(a, "create") /\ persons < MaxPersons
  /\ persons' = persons + 1
  /\ Step(a, [tx[a] EXCEPT !.step = "claim", !.person = persons', !.key = "new"])
  /\ UNCHANGED <<merged, rows, merge, edits, raced>>

Holds(b, k) == tx[b].key = "mine" /\ KeyOf(tx[b].item) = k

\* INSERT ... ON CONFLICT DO NOTHING.  Who created a person and lost takes the
\* winner's; who found one on another channel keeps it.
Claim(a) ==
  LET k == KeyOf(tx[a].item)
      winner == identities[k]
      adopted == winner # 0 /\ tx[a].key = "none"
  IN
  /\ Waits(a, "claim") /\ \A b \in Accounts \ {a} : ~Holds(b, k)
  /\ Step(a, [tx[a] EXCEPT !.step = "store",
                           !.key = IF winner = 0 THEN "mine" ELSE "taken",
                           !.person = IF winner = 0 \/ adopted THEN @ ELSE FollowMerges(winner)])
  /\ raced' = IF adopted THEN raced \cup {k} ELSE raced
  /\ UNCHANGED <<people, rows, merge, edits>>

\* The item, with the author found or none, and the end of the transaction.
Store(a) ==
  LET t == tx[a] IN
  /\ Waits(a, "store")
  /\ author' = [i \in DOMAIN author \cup {t.item} |-> IF i = t.item THEN t.person ELSE author[i]]
  /\ identities' = IF t.key = "mine" THEN [identities EXCEPT ![KeyOf(t.item)] = t.person]
                   ELSE identities
  /\ Step(a, Idle)
  /\ UNCHANGED <<people, merge, edits, raced>>

\* A statement fails; the pump will bring the item again.
Abort(a) ==
  /\ ~Waits(a, "idle") /\ edits < MaxEdits
  /\ edits' = edits + 1 /\ Step(a, Idle)
  /\ UNCHANGED <<people, rows, merge, raced>>

-----------------------------------------------------------------------------
(* What a person decides about persons.                                    *)

Committed(p) == \E k \in DOMAIN identities : identities[k] = p
Known(p) == merged[p] # 0 \/ Committed(p)

\* The keys that transactions in flight are about.
InFlight == {KeyOf(tx[a].item) : a \in {b \in Accounts : ~Waits(b, "idle")}}

\* mergePersons finds the survivor ...
MergeFinds(from, to) ==
  /\ merge = NoMerge /\ edits < MaxEdits /\ edits' = edits + 1
  /\ from # to /\ Known(from) /\ Known(to)
  /\ FollowMerges(to) # from
  /\ merge' = [from |-> from, to |-> FollowMerges(to)]
  /\ UNCHANGED <<people, rows, tx, raced>>

MergeWritesOne ==
  /\ merge # NoMerge /\ merge' = NoMerge
  /\ LET moved(p) == IF p = merge.from THEN merge.to ELSE p IN
     /\ identities' = [k \in DOMAIN identities |-> moved(identities[k])]
     /\ author' = [i \in DOMAIN author |-> moved(author[i])]
     /\ merged' = [merged EXCEPT ![merge.from] = merge.to]
  /\ raced' = raced \cup InFlight
  /\ UNCHANGED <<persons, tx, edits>>

\* ... and moves everything to it, what was merged into the other included.
MergeWrites ==
  /\ merge # NoMerge /\ merge' = NoMerge
  /\ LET moved(p) == IF p = merge.from THEN merge.to ELSE p IN
     /\ identities' = [k \in DOMAIN identities |-> moved(identities[k])]
     /\ author' = [i \in DOMAIN author |-> moved(author[i])]
     /\ merged' = [p \in Person |-> IF p = merge.from \/ merged[p] = merge.from
                                    THEN merge.to ELSE merged[p]]
  /\ raced' = raced \cup InFlight
  /\ UNCHANGED <<persons, tx, edits>>

\* splitIdentity, to a live person or to a new one.  Its person's items on the
\* channel follow, unless another identity there may have written them.
Split(k, target) ==
  LET from == identities[k]
      alone == \A h \in Handles \ {k[2]} : identities[<<k[1], h>>] # from
      mine == {i \in DOMAIN author : author[i] = from /\ ChannelOf[AccountOf[i]] = k[1]}
  IN
  /\ merge = NoMerge /\ edits < MaxEdits /\ edits' = edits + 1
  /\ from # 0 /\ target # from
  /\ \/ Committed(target) /\ merged[target] = 0 /\ UNCHANGED persons
     \/ target = persons + 1 /\ persons' = target
  /\ identities' = [identities EXCEPT ![k] = target]
  /\ author' = [i \in DOMAIN author |->
                  IF i \notin mine THEN author[i] ELSE IF alone THEN target ELSE 0]
  /\ raced' = raced \cup InFlight
  /\ UNCHANGED <<merged, tx, merge>>

Next ==
  \/ \E a \in Accounts :
       \/ \E i \in Items : Lookup(a, i)
       \/ Cross(a) \/ Create(a) \/ Claim(a) \/ Store(a) \/ Abort(a)
  \/ \E from, to \in 1 .. persons : MergeFinds(from, to)
  \/ MergeWrites
  \/ \E k \in Channels \X Handles, target \in Person : Split(k, target)

Spec == Init /\ [][Next]_ivars

-----------------------------------------------------------------------------
(* Properties.                                                             *)

\* Merges stay flat, in whatever order they come: who was merged away is
\* merged into somebody who was not, so that one hop finds the survivor.
FlatMerges == \A p \in Person : merged[p] # 0 => merged[merged[p]] = 0

=============================================================================
