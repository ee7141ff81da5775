-------------------------------- MODULE MCHub --------------------------------
(***************************************************************************)
(* The hub's own work and its bridge to the agent's hosts, four parts that *)
(* share no state in one run: a behaviour is one of the jobs' (part =      *)
(* "jobs"), of the sessions' ("sessions"), of the turns' on the host       *)
(* ("turns") or of the terminal import's ("import").                       *)
(***************************************************************************)
EXTENDS MCScheduler, MCBridgeSessions, MCTerminalImport, RuntimeTurns

VARIABLE part

HubInit ==
  /\ Init /\ SessionsInit /\ TurnsInit /\ ImportInit
  /\ part \in {"jobs", "sessions", "turns", "import"}
  /\ part # "sessions" => script = HermesTurn(1, 1, "ok")

HubNext ==
  \/ part = "jobs" /\ Next /\ UNCHANGED <<sessionVars, turnVars, importVars, part>>
  \/ part = "sessions" /\ SessionsNext /\ UNCHANGED <<vars, turnVars, importVars, part>>
  \/ part = "turns" /\ TurnsNext /\ UNCHANGED <<vars, sessionVars, importVars, part>>
  \/ part = "import" /\ ImportNext /\ UNCHANGED <<vars, sessionVars, turnVars, part>>

\* The fairness of the parts, each in the behaviours that are its own.
HubFairness ==
  /\ \A g \in Hubs :
       /\ WF_vars(part = "jobs" /\ (Boot(g) \/ Open(g) \/ Exit(g)))
       /\ WF_vars(part = "jobs" /\ TickStep(g))
  /\ \A c \in Conns : WF_sessionVars(part = "sessions" /\ HandleNotification(c))
  /\ \A k \in AllAsks : WF_sessionVars(part = "sessions" /\ k \in Ask /\ HandleApproval(k))

HubSpec ==
  /\ HubInit /\ [][HubNext]_<<vars, sessionVars, turnVars, importVars, part>>
  /\ HubFairness

=============================================================================
