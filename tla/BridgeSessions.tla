--------------------------- MODULE BridgeSessions ---------------------------
(***************************************************************************)
(* One session of one runtime, from the events the runtime emits on the    *)
(* local agent to the agent_sessions row the inbox shows: hub-sink.ts and  *)
(* outbox.ts decide what is sent and what is kept for the next connection, *)
(* hub-client.ts reconnects, bridge.ts takes notifications from one queue  *)
(* per connection and runs requests (approval.requested) beside it.        *)
(*                                                                         *)
(* Every await of a hub handler is a step boundary: the handlers of two    *)
(* connections and of the approvals share the current session object and    *)
(* the row.  sessionFor() may replace the current object, so a handler      *)
(* holds the object it fetched, by its index in objs.                      *)
(***************************************************************************)
EXTENDS Naturals, Sequences, FiniteSets

CONSTANTS
  Scripts,      \* sequences of [kind, turn] a runtime may emit in this session
  Overlap,      \* a handler may run while another is in the middle of an await
  MaxConns,     \* bound on the connections the agent opens
  MaxSessionFaults     \* bound on lost links and hub restarts

Kinds == {"registered", "started", "item", "ok", "failed", "ask"}

ASSUME BridgeAssumption ==
  /\ \A s \in Scripts : s \in Seq([kind : Kinds, turn : Nat])
  /\ Overlap \in BOOLEAN
  /\ MaxConns \in Nat \ {0}
  /\ MaxSessionFaults \in Nat

VARIABLES
  script,       \* the events this runtime emits
  next,         \* index of the next event
  answered,     \* asks whose answer, or whose refusal, reached the runtime
  open,         \* HubClient: the socket is open
  cur,          \* the connection in use, 0 before the first
  ids,          \* runtimeIds is set: a registration was answered
  outbox,       \* events kept on disk, by index
  lost,         \* connections whose link is dead
  live,         \* connections the hub has open
  posted,         \* messages on their way to the hub, by connection
  reg,          \* runtime.registered requests the hub is serving
  queue,        \* Conn.queue: notifications not yet handled
  h,            \* handlers in flight: the queue of a connection, or an ask
  objs,         \* the CachedSession objects ever made
  current,       \* the one in the sessions map, 0 for none
  db,           \* agent_sessions.state, "absent" before the row
  approval,     \* pending_approvals of the session's thread, by ask
  told,         \* asks whose NOTIFY reached their subscription
  lines,        \* turns with their line in the thread
  log,          \* history: events in the order the hub took them up
  sessionFaults

agent == <<script, next, answered, open, cur, ids, outbox>>
link == <<lost, live, posted, reg>>
hub == <<queue, h, objs, current>>
store == <<db, approval, told, lines>>
sessionVars == <<agent, link, hub, store, log, sessionFaults>>

Conns == 1 .. MaxConns
Ask == {i \in 1 .. Len(script) : script[i].kind = "ask"}
AllAsks == UNION {{i \in 1 .. Len(s) : s[i].kind = "ask"} : s \in Scripts}
Procs == [conn : Conns] \cup [ask : AllAsks]
IsAsk(p) == "ask" \in DOMAIN p

Values == {"idle", "running", "waiting_approval", "failed"}
Register == 0   \* the one request that is not an event of the script

Idle == [pc |-> "idle", ev |-> 0, obj |-> 0, base |-> 0, val |-> "idle", conn |-> 0,
         then |-> "idle"]

SessionsTypeOK ==
  /\ script \in Scripts /\ next \in 1 .. Len(script) + 1
  /\ answered \subseteq Ask /\ told \subseteq Ask
  /\ open \in BOOLEAN /\ ids \in BOOLEAN /\ cur \in 0 .. MaxConns
  /\ outbox \in Seq(1 .. Len(script)) /\ log \in Seq(1 .. Len(script))
  /\ lost \subseteq Conns /\ live \subseteq Conns /\ reg \subseteq Conns
  /\ posted \in [Conns -> Seq(0 .. Len(script))]
  /\ queue \in [Conns -> Seq(1 .. Len(script))]
  /\ \A p \in Procs :
       /\ h[p].pc \in {"idle", "fetch", "ensure", "have", "line", "propose", "write",
                       "note", "count", "settle", "subscribe", "listen", "wait",
                       "reply", "done"}
       /\ h[p].obj \in 0 .. Len(objs) /\ h[p].base \in 0 .. Len(objs)
       /\ h[p].val \in Values
  /\ objs \in Seq([state : Values \cup {"null"}, turnOpen : BOOLEAN, settled : Values])
  /\ current \in 0 .. Len(objs)
  /\ db \in Values \cup {"absent", "starting"}
  /\ approval \in [AllAsks -> {"absent", "pending", "decided"}]
  /\ sessionFaults \in 0 .. MaxSessionFaults

SessionsInit ==
  /\ script \in Scripts /\ next = 1 /\ answered = {}
  /\ open = FALSE /\ cur = 0 /\ ids = FALSE /\ outbox = <<>>
  /\ lost = {} /\ live = {} /\ reg = {}
  /\ posted = [c \in Conns |-> <<>>] /\ queue = [c \in Conns |-> <<>>]
  /\ h = [p \in Procs |-> Idle]
  /\ objs = <<>> /\ current = 0
  /\ db = "absent" /\ approval = [k \in AllAsks |-> "absent"]
  /\ told = {} /\ lines = {} /\ log = <<>> /\ sessionFaults = 0

-----------------------------------------------------------------------------
(* The agent.                                                              *)

\* A frame sent on a dead link is gone, without an error.
OnWire(c, msgs) == posted' = IF c \in lost THEN posted ELSE [posted EXCEPT ![c] = @ \o msgs]

\* createHubSink: durable events are sent, or queued when the socket is not
\* open; an approval request that cannot be sent is refused on the spot.
EmitEvent ==
  /\ ids /\ next <= Len(script)
  /\ next' = next + 1
  /\ IF open
     THEN OnWire(cur, <<next>>) /\ UNCHANGED <<outbox, answered>>
     ELSE /\ IF next \in Ask
             THEN answered' = answered \cup {next} /\ UNCHANGED outbox
             ELSE outbox' = Append(outbox, next) /\ UNCHANGED answered
          /\ UNCHANGED posted
  /\ UNCHANGED <<script, open, cur, ids, lost, live, reg, hub, store, log, sessionFaults>>

\* A connection replaces the one before; the agent registers its runtimes first.
Connect ==
  /\ ~open /\ cur < MaxConns
  /\ open' = TRUE /\ cur' = cur + 1
  /\ lost' = IF cur = 0 THEN lost ELSE lost \cup {cur}
  /\ live' = live \cup {cur + 1}
  /\ posted' = [posted EXCEPT ![cur + 1] = <<Register>>]
  /\ UNCHANGED <<script, next, answered, ids, outbox, reg, hub, store, log, sessionFaults>>

SeeClose ==
  /\ open /\ cur \in lost
  /\ open' = FALSE
  /\ UNCHANGED <<script, next, answered, cur, ids, outbox, link, hub, store, log, sessionFaults>>

\* handleHubOpen after the answer: the ids are set and the outbox is drained.
\* notify() cannot fail half-way: nothing else runs until the drain is done.
HandleHubOpen(c) ==
  /\ c \in reg
  /\ reg' = reg \ {c}
  /\ IF c \in live /\ c \notin lost
     THEN /\ ids' = TRUE /\ outbox' = <<>>
          /\ OnWire(c, outbox)
     ELSE UNCHANGED <<ids, outbox, posted>>
  /\ UNCHANGED <<script, next, answered, open, cur, lost, live, hub, store, log, sessionFaults>>

LoseLink ==
  /\ open /\ cur \notin lost /\ sessionFaults < MaxSessionFaults
  /\ lost' = lost \cup {cur} /\ sessionFaults' = sessionFaults + 1
  /\ UNCHANGED <<agent, live, posted, reg, hub, store, log>>

-----------------------------------------------------------------------------
(* The hub's sockets.                                                      *)

Closed(c) ==
  /\ c \in live /\ c \in lost
  /\ live' = live \ {c} /\ posted' = [posted EXCEPT ![c] = <<>>]
  /\ UNCHANGED <<agent, lost, reg, hub, store, log, sessionFaults>>

\* onMessage: a request runs at once, a notification waits its turn.
OnMessage(c) ==
  /\ c \in live /\ posted[c] # <<>>
  /\ LET m == Head(posted[c]) IN
       /\ posted' = [posted EXCEPT ![c] = Tail(@)]
       /\ reg' = IF m = Register THEN reg \cup {c} ELSE reg
       /\ queue' = IF m # Register /\ m \notin Ask
                   THEN [queue EXCEPT ![c] = Append(@, m)] ELSE queue
       /\ h' = IF m \in Ask
               THEN [h EXCEPT ![[ask |-> m]] =
                       [Idle EXCEPT !.pc = "fetch", !.ev = m, !.conn = c]]
               ELSE h
  /\ UNCHANGED <<agent, lost, live, objs, current, store, log, sessionFaults>>

HubRestart ==
  /\ sessionFaults < MaxSessionFaults /\ sessionFaults' = sessionFaults + 1
  /\ lost' = Conns \cap (1 .. cur) /\ live' = {} /\ reg' = {}
  /\ posted' = [c \in Conns |-> <<>>] /\ queue' = [c \in Conns |-> <<>>]
  /\ h' = [p \in Procs |-> IF h[p].pc = "idle" THEN Idle
                           ELSE IF IsAsk(p) THEN [Idle EXCEPT !.pc = "done"] ELSE Idle]
  /\ objs' = <<>> /\ current' = 0
  /\ UNCHANGED <<agent, store, log>>

-----------------------------------------------------------------------------
(* The hub's handlers.                                                     *)

Kind(p) == script[h[p].ev].kind

\* Whether p may take a step: always, or when no other handler is half done.
Runs(p) ==
  Overlap \/ \A q \in Procs \ {p} : h[q].pc \in {"idle", "fetch", "wait", "done"}

Go(p, pc) ==
  h' = [h EXCEPT ![p] = IF pc \in {"idle", "done"} THEN [Idle EXCEPT !.pc = pc]
                        ELSE [@ EXCEPT !.pc = pc]]

\* dispatch() of the next notification; the emit of its event is awaited.
Take(c) ==
  LET p == [conn |-> c] IN
  /\ h[p].pc = "idle" /\ queue[c] # <<>>
  /\ h' = [h EXCEPT ![p] = [Idle EXCEPT !.pc = "fetch", !.ev = Head(queue[c]), !.conn = c]]
  /\ queue' = [queue EXCEPT ![c] = Tail(@)]
  /\ log' = Append(log, Head(queue[c]))
  /\ UNCHANGED <<agent, link, objs, current, store, sessionFaults>>

\* sessionFor(): the current object unless the call carries a session id.
Fetch(p) ==
  /\ h[p].pc = "fetch"
  /\ h' = [h EXCEPT ![p].pc =
             IF current # 0 /\ Kind(p) # "registered" THEN "have" ELSE "ensure",
                    ![p].obj = current, ![p].base = current]
  /\ UNCHANGED <<agent, link, queue, objs, current, store, log, sessionFaults>>

\* ensureSession(), then a new object that copies what the old one holds.
Ensure(p) ==
  /\ h[p].pc = "ensure"
  /\ db' = IF db = "absent" THEN "starting" ELSE db
  /\ objs' = Append(objs, IF h[p].base = 0
                          THEN [state |-> "null", turnOpen |-> FALSE, settled |-> "idle"]
                          ELSE objs[h[p].base])
  /\ current' = Len(objs) + 1
  /\ h' = [h EXCEPT ![p].pc = "have", ![p].obj = Len(objs) + 1]
  /\ UNCHANGED <<agent, link, queue, approval, told, lines, log, sessionFaults>>

\* applyState() up to its UPDATE: nothing to do when the object says so already.
Apply(p, o, val, then) ==
  IF o.state = val THEN Go(p, then)
  ELSE h' = [h EXCEPT ![p].pc = "write", ![p].val = val, ![p].then = then]

SessionRegistered(p) ==
  /\ h[p].pc = "have" /\ Kind(p) = "registered"
  /\ Apply(p, objs[h[p].obj], "running", "idle")
  /\ UNCHANGED <<agent, link, queue, objs, current, store, log, sessionFaults>>

\* turn.started, or the first turn.item.started of a runtime that has no such event
Started(p) ==
  /\ h[p].pc = "have" /\ Kind(p) = "started"
  /\ objs' = [objs EXCEPT ![h[p].obj].turnOpen = TRUE]
  /\ Apply(p, objs[h[p].obj], "running", "idle")
  /\ UNCHANGED <<agent, link, queue, current, store, log, sessionFaults>>

\* writeAgentItem() of an item: the session is left alone.
Item(p) ==
  /\ h[p].pc = "have" /\ Kind(p) = "item"
  /\ Go(p, "idle")
  /\ UNCHANGED <<agent, link, queue, objs, current, store, log, sessionFaults>>

\* turn.completed: the turn's line is committed, then the state is settled.
CompletedLine(p) ==
  /\ h[p].pc = "have" /\ Kind(p) \in {"ok", "failed"}
  /\ lines' = lines \cup {script[h[p].ev].turn}
  /\ Go(p, "line")
  /\ UNCHANGED <<agent, link, queue, objs, current, db, approval, told, log, sessionFaults>>

Completed(p) ==
  /\ h[p].pc = "line"
  /\ objs' = [objs EXCEPT ![h[p].obj].turnOpen = FALSE,
                          ![h[p].obj].settled = IF Kind(p) = "ok" THEN "idle" ELSE "failed"]
  /\ h' = [h EXCEPT ![p].pc = "count", ![p].then = "idle"]
  /\ UNCHANGED <<agent, link, queue, current, store, log, sessionFaults>>

\* settleState(): the pending approvals are read, then the state is chosen.
HasPendingApproval(p) ==
  /\ h[p].pc = "count"
  /\ IF \E k \in Ask : approval[k] = "pending"
     THEN Apply(p, objs[h[p].obj], "waiting_approval", h[p].then)
     ELSE Go(p, "settle")
  /\ UNCHANGED <<agent, link, queue, objs, current, store, log, sessionFaults>>

SettleBackToWork(p) ==
  /\ h[p].pc = "settle"
  /\ Apply(p, objs[h[p].obj], "running", h[p].then)
  /\ UNCHANGED <<agent, link, queue, objs, current, store, log, sessionFaults>>

Settle(p) ==
  /\ h[p].pc = "settle"
  /\ LET o == objs[h[p].obj] IN
       Apply(p, o, IF o.turnOpen THEN "running" ELSE o.settled, h[p].then)
  /\ UNCHANGED <<agent, link, queue, objs, current, store, log, sessionFaults>>

SetSessionState(p) ==
  /\ h[p].pc = "write"
  /\ db' = h[p].val
  /\ Go(p, "note")
  /\ UNCHANGED <<agent, link, queue, objs, current, approval, told, lines, log, sessionFaults>>

NoteState(p) ==
  /\ h[p].pc = "note"
  /\ objs' = [objs EXCEPT ![h[p].obj].state = h[p].val]
  /\ Go(p, h[p].then)
  /\ UNCHANGED <<agent, link, queue, current, store, log, sessionFaults>>

-----------------------------------------------------------------------------
(* approval.requested, beside the queue.                                   *)

Propose(k) ==
  LET p == [ask |-> k] IN
  /\ h[p].pc = "have"
  /\ approval' = [approval EXCEPT ![k] = "pending"]
  /\ Go(p, "propose")
  /\ UNCHANGED <<agent, link, queue, objs, current, db, told, lines, log, sessionFaults>>

Block(k) ==
  LET p == [ask |-> k] IN
  /\ h[p].pc = "propose"
  /\ Apply(p, objs[h[p].obj], "waiting_approval", "subscribe")
  /\ UNCHANGED <<agent, link, queue, objs, current, store, log, sessionFaults>>

\* approvals.decide() by a human, and its NOTIFY to whoever listens now
Decide(k) ==
  /\ approval[k] = "pending"
  /\ approval' = [approval EXCEPT ![k] = "decided"]
  /\ told' = IF h[[ask |-> k]].pc \in {"listen", "wait"} THEN told \cup {k} ELSE told
  /\ UNCHANGED <<agent, link, hub, db, lines, log, sessionFaults>>

Subscribe(k) ==
  /\ h[[ask |-> k]].pc = "subscribe"
  /\ Go([ask |-> k], "listen")
  /\ UNCHANGED <<agent, link, queue, objs, current, store, log, sessionFaults>>

ToSettle(k) == h' = [h EXCEPT ![[ask |-> k]].pc = "count", ![[ask |-> k]].then = "reply"]

ReadNothing(k) ==
  /\ h[[ask |-> k]].pc = "listen"
  /\ Go([ask |-> k], "wait")
  /\ UNCHANGED <<agent, link, queue, objs, current, store, log, sessionFaults>>

\* The row is read once directly: the decision may have come before subscribe().
ReadDecision(k) ==
  /\ h[[ask |-> k]].pc = "listen"
  /\ IF approval[k] = "decided" THEN ToSettle(k) ELSE Go([ask |-> k], "wait")
  /\ UNCHANGED <<agent, link, queue, objs, current, store, log, sessionFaults>>

Notified(k) ==
  /\ h[[ask |-> k]].pc \in {"listen", "wait"} /\ k \in told
  /\ ToSettle(k)
  /\ UNCHANGED <<agent, link, queue, objs, current, store, log, sessionFaults>>

\* The answer goes to the socket the request came on, if that is still open.
Reply(k) ==
  LET p == [ask |-> k] IN
  /\ h[p].pc = "reply"
  /\ Go(p, "done")
  /\ answered' = IF h[p].conn \in live \ lost THEN answered \cup {k} ELSE answered
  /\ UNCHANGED <<script, next, open, cur, ids, outbox, link, queue, objs, current, store, log,
                 sessionFaults>>

-----------------------------------------------------------------------------
Handle(p) ==
  \/ Fetch(p) \/ Ensure(p) \/ HasPendingApproval(p) \/ Settle(p)
  \/ SetSessionState(p) \/ NoteState(p)
HandleNotification(c) ==
  LET p == [conn |-> c] IN
  /\ Runs(p)
  /\ \/ Take(c) \/ Handle(p)
     \/ SessionRegistered(p) \/ Started(p) \/ Item(p) \/ CompletedLine(p) \/ Completed(p)
HandleApproval(k) ==
  /\ Runs([ask |-> k])
  /\ \/ Handle([ask |-> k])
     \/ Propose(k) \/ Block(k) \/ Subscribe(k) \/ ReadDecision(k) \/ Notified(k) \/ Reply(k)

SessionsNext ==
  \/ EmitEvent \/ Connect \/ SeeClose \/ LoseLink \/ HubRestart
  \/ \E c \in Conns :
       Closed(c) \/ OnMessage(c) \/ HandleHubOpen(c) \/ HandleNotification(c)
  \/ \E k \in Ask : HandleApproval(k) \/ Decide(k)

\* The hub's event loop runs what is runnable; nobody has to decide, reconnect or emit.
SessionsFairness ==
  /\ \A c \in Conns : WF_sessionVars(HandleNotification(c))
  /\ \A k \in AllAsks : WF_sessionVars(k \in Ask /\ HandleApproval(k))

SessionsSpec == SessionsInit /\ [][SessionsNext]_sessionVars /\ SessionsFairness

-----------------------------------------------------------------------------
(* Properties.                                                             *)

\* No handler of the hub has anything left to do but wait for a human.
AtRest ==
  /\ \A c \in Conns : queue[c] = <<>> /\ h[[conn |-> c]].pc = "idle"
  /\ \A k \in Ask : h[[ask |-> k]].pc \in {"idle", "wait", "done"}
                    /\ (h[[ask |-> k]].pc = "wait" => k \notin told)

IsEnd(i) == script[i].kind \in {"ok", "failed"}

\* The turn event that counts: the last one taken up, when it ends a turn.
LastEnds == \E i \in 1 .. Len(log) : i = Len(log) /\ IsEnd(log[i])

\* A session whose last turn has ended, with no approval open, shows that
\* turn's outcome once the hub is at rest: it does not stay in running, nor in
\* waiting_approval, although the answer of an approval and the end of its turn
\* are settled by two handlers.  (The order of the events is the runtime's own
\* when no link was lost.)
EndedTurnIsSettled ==
  AtRest /\ sessionFaults = 0 /\ LastEnds /\ (\A k \in Ask : approval[k] # "pending")
    => db = IF script[log[Len(log)]].kind = "ok" THEN "idle" ELSE "failed"

\* The part of it the code's comment promises: no ordering of the request, the
\* end of the turn and the decision leaves the session in running for good.
NotStuckInRunning ==
  AtRest /\ sessionFaults = 0 /\ LastEnds /\ (\A k \in Ask : approval[k] # "pending")
    => db # "running"

\* A decision always reaches the runtime that waits for it, unless its link is
\* lost: whether it comes before subscribe(), between subscribe() and the direct
\* read of the row, or after both.
DecisionIsAnswered ==
  \A k \in AllAsks :
    (k \in Ask /\ approval[k] = "decided") ~> (k \in answered \/ sessionFaults > 0)

=============================================================================
