----------------------------- MODULE MCRecords -----------------------------
(***************************************************************************)
(* The poll of WhatsApp (part = "whatsapp"), the identities of authors     *)
(* ("identity"), the auto-archive loop ("archive"), the self-model         *)
(* ("self-model") and the jobs of a night ("night") in one run: they share *)
(* no state, and a behaviour is one of either.                             *)
(***************************************************************************)
EXTENDS Identity, WhatsAppFeed, AutoArchive, SelfModel, NightJobs, TLC

CONSTANTS g1, g2, o1, s1, i1, i2, i3, i4, i5, e1, e2, x1
IdAccounts == {g1, g2, o1, s1}
IdItems == {i1, i2, i3, i4, i5}
IdHandles == {e1, e2, x1}
IdAddresses == {e1, e2}
IdMailboxes == {"gmail", "outlook", "gcal"}
IdMalformed == {x1}
IdChannelOf == (g1 :> "gmail") @@ (g2 :> "gmail") @@ (o1 :> "outlook") @@ (s1 :> "slack")
IdAccountOf == (i1 :> g1) @@ (i2 :> o1) @@ (i3 :> g1) @@ (i4 :> g2) @@ (i5 :> s1)
IdHandleOf == (i1 :> e1) @@ (i2 :> e1) @@ (i3 :> e2) @@ (i4 :> e1) @@ (i5 :> x1)

CONSTANTS c1, c2, m1, m2, m3
PollChats == {c1, c2}
PollMsgs == {m1, m2, m3}
PollChatOf == (m1 :> c1) @@ (m2 :> c2) @@ (m3 :> c1)

CONSTANT t1
ArchiveThreadOf == [i \in Mails |-> t1]

\* b2 names two files; the second week's b3 changes the same lines as b1.
CONSTANTS b1, b2, b3, b4, user, voice
PatchQueue == << <<b2, b1, b4>>, <<b3>> >>
PatchFileOf == (b1 :> user) @@ (b2 :> voice) @@ (b3 :> user) @@ (b4 :> voice)
PatchTouches == (b1 :> {user}) @@ (b2 :> {user, voice}) @@ (b3 :> {user}) @@ (b4 :> {voice})
PatchRival == (b1 :> {b3}) @@ (b2 :> {}) @@ (b3 :> {b1}) @@ (b4 :> {})

\* The first two cards are of one section, the first and the third of one thread.
BriefCards == <<[thread |-> 1, section |-> "needs_you", score |-> 50],
                [thread |-> 2, section |-> "needs_you", score |-> 60],
                [thread |-> 1, section |-> "drafts", score |-> 51]>>
BriefCap == [needs_you |-> 1, drafts |-> 2]

VARIABLE part

RecordsInit ==
  /\ Init /\ PollInit /\ AutoInit /\ SelfModelInit /\ NightInit
  /\ part \in {"identity", "whatsapp", "archive", "self-model", "night"}

RecordsNext ==
  \/ part = "identity" /\ Next /\ UNCHANGED <<wvars, autoVars, modelVars, nightVars, part>>
  \/ part = "whatsapp" /\ PollNext /\ UNCHANGED <<ivars, autoVars, modelVars, nightVars, part>>
  \/ part = "archive" /\ AutoNext /\ UNCHANGED <<ivars, wvars, modelVars, nightVars, part>>
  \/ part = "self-model" /\ SelfModelNext /\ UNCHANGED <<ivars, wvars, autoVars, nightVars, part>>
  \/ part = "night" /\ NightNext /\ UNCHANGED <<ivars, wvars, autoVars, modelVars, part>>

RecordsSpec == RecordsInit /\ [][RecordsNext]_<<ivars, wvars, autoVars, modelVars, nightVars, part>>
=============================================================================
