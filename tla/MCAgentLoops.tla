---------------------------- MODULE MCAgentLoops ----------------------------
(***************************************************************************)
(* The agent loops (part = "loops") and the executor of delegations        *)
(* ("delegation") in one run: they share no state, and a behaviour is one  *)
(* of either.  The loops get two notes, two labels of one item for the     *)
(* draft loop, and a label of an item for the auto-archive loop, whose     *)
(* decide() may conclude by rules.                                         *)
(***************************************************************************)
EXTENDS MCDelegation, AgentLoops

CONSTANTS note1, note2, draft1, draft2, archive1, i1, i2, t1, t2
VARIABLE part

Notes == {note1, note2}
Drafts == {draft1, draft2}

MCThreadOf == [e \in Events \ Notes |-> IF e \in Drafts THEN t1 ELSE t2]
MCItemOf == [e \in Events |-> IF e \in Notes THEN NoItem ELSE IF e \in Drafts THEN i1 ELSE i2]
MCFirstTier == [e \in Events |-> "T1"]
MCDecides == [e \in Events |->
  IF e \in Notes THEN {"start"} ELSE IF e \in Drafts THEN {"skip", "start"} ELSE {"rule", "start"}]

AgentsInit == Init /\ LoopsInit /\ part \in {"loops", "delegation"}

AgentsNext ==
  \/ part = "delegation" /\ Next /\ UNCHANGED <<loopVars, part>>
  \/ part = "loops" /\ LoopsNext /\ UNCHANGED <<vars, part>>

\* Fairness and LoopsFairness, each for its own part.
AgentsFairness ==
  /\ \A h \in Handlers : WF_vars(part = "delegation" /\ HandlerStep(h))
  /\ \A a \in Ids : WF_vars(part = "delegation" /\ \E h \in Handlers : OnDecided(h, a))
  /\ WF_vars(part = "delegation" /\ (ReceiveAnswer \/ ReceiveCompleted))
  /\ \A r \in Results : WF_vars(part = "delegation" /\ OnTurnCompleted(r))
  /\ \A r \in Results : WF_vars(part = "delegation" /\ WriteResult(r))
  /\ \A a \in Ids : WF_vars(part = "delegation" /\ RunStep(a))
  /\ WF_vars(part = "delegation" /\ Drain)
  /\ WF_vars(part = "delegation" /\ \E h \in Handlers : Connect(h))
  /\ \A e \in Events : WF_loopVars(part = "loops" /\ LoopStep(e))

AgentsSpec ==
  AgentsInit /\ [][AgentsNext]_<<vars, loopVars, part>> /\ AgentsFairness
=============================================================================
