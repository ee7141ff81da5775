---------------------------- MODULE CaptureFeed ----------------------------
(***************************************************************************)
(* A message of KakaoTalk or LinkedIn on its way from the app on the       *)
(* capture host to the items table: the adapter reads it (watcher or poll) *)
(* and remembers it in `seen`, capture.ts batches what the adapter queues, *)
(* the batch travels to the hub or waits in the outbox, intakeCaptureItems *)
(* checks it whole, and the hub's pump takes it from the relay's queue to  *)
(* the ingest sink, which stores a source_hash once.                       *)
(*                                                                         *)
(* The app and the socket are outside src.  A link that has died swallows  *)
(* what is sent until the agent sees it close; BridgeSessions has the      *)
(* connections in detail.  The dedupe window is taken as never full.       *)
(***************************************************************************)
EXTENDS Naturals, Sequences, SequencesExt

CONSTANTS
  Msgs, Chats,
  ChatOf,       \* the conversation of a message
  BatchMax,     \* BATCH_MAX_EVENTS
  RelayRetries, \* of the hub's pump
  MaxCaptureFaults  \* bound on links, processes and statements that fail

ASSUME CaptureAssumption ==
  /\ ChatOf \in [Msgs -> Chats]
  /\ BatchMax \in Nat \ {0} /\ RelayRetries \in Nat /\ MaxCaptureFaults \in Nat

VARIABLES
  source,       \* which adapter this is
  malformed,    \* messages the hub's schema refuses
  window,       \* messages the app shows
  unread,       \* those the app marks unread
  seen, aq,     \* the adapter's dedupe map and its queue
  pending,      \* the batch being filled
  timer,        \* its flush timer is armed
  stopped,      \* the capture loops were stopped, or the agent is not running
  outbox,       \* batches kept on disk
  link,         \* the agent's socket
  wire,         \* batches on their way
  rq,           \* the relay's queue
  pumpAttempt,  \* of the pump, beyond RelayRetries when it has ended
  inbox,        \* items by source_hash
  lossy,        \* history: a fault after which the code promises nothing
  captureFaults

app == <<source, malformed, window, unread>>
agent == <<seen, aq, pending, timer, stopped, outbox>>
hub == <<rq, pumpAttempt, inbox>>
cvars == <<app, agent, link, wire, hub, lossy, captureFaults>>

Batches == UNION {[1 .. n -> Msgs] : n \in 1 .. BatchMax}

TypeOK ==
  /\ source \in {"kakaotalk", "linkedin"}
  /\ malformed \subseteq Msgs /\ unread \subseteq window /\ window \subseteq Msgs
  /\ seen \subseteq window /\ aq \in Seq(Msgs)
  /\ pending \in Seq(Msgs) /\ Len(pending) < BatchMax
  /\ timer \in BOOLEAN /\ stopped \in BOOLEAN /\ lossy \in BOOLEAN
  /\ outbox \in Seq(Batches) /\ wire \in Seq(Batches)
  /\ link \in {"up", "dead", "down"}
  /\ rq \in Seq(Msgs) /\ pumpAttempt \in 0 .. RelayRetries + 1 /\ inbox \subseteq window

Init ==
  /\ source \in {"kakaotalk", "linkedin"} /\ malformed \in SUBSET Msgs
  /\ window = {} /\ unread = {}
  /\ seen = {} /\ aq = <<>> /\ pending = <<>> /\ timer = FALSE /\ stopped = FALSE
  /\ outbox = <<>> /\ link = "up" /\ wire = <<>>
  /\ rq = <<>> /\ pumpAttempt = 0 /\ inbox = {}
  /\ lossy = FALSE /\ captureFaults = 0

\* One more fault; some lose messages for good.
CaptureFault(loses) ==
  /\ captureFaults < MaxCaptureFaults /\ captureFaults' = captureFaults + 1
  /\ lossy' = (lossy \/ loses)

-----------------------------------------------------------------------------
(* The adapter.                                                            *)

\* emit(): what was not seen yet goes to the queue, once.
Emit(ms) == seen' = seen \cup ms /\ aq' = aq \o SetToSeq(ms \ seen)

\* A message appears, and KakaoTalk's watcher reports it, if it watches the chat.
Appear(m) ==
  /\ m \notin window
  /\ window' = window \cup {m} /\ unread' = unread \cup {m}
  /\ \/ source = "kakaotalk" /\ ~stopped /\ Emit({m})
     \/ UNCHANGED <<seen, aq>>
  /\ UNCHANGED <<source, malformed, pending, timer, stopped, outbox, link, wire, hub, lossy, captureFaults>>

InChat(c) == {m \in window : ChatOf[m] = c}

\* pollOnce() at one conversation.  LinkedIn opens it only when it is unread,
\* and opening it marks it read.
ReadChat(c) ==
  /\ ~stopped
  /\ source = "linkedin" => InChat(c) \cap unread # {}
  /\ Emit(InChat(c))
  /\ unread' = IF source = "linkedin" THEN unread \ InChat(c) ELSE unread
  /\ UNCHANGED <<source, malformed, window, pending, timer, stopped, outbox, link, wire, hub,
                 lossy, captureFaults>>

\* The conversation opens, and what it shows cannot be read.
ReadFails(c) ==
  /\ ~stopped /\ InChat(c) \cap unread # {}
  /\ CaptureFault(source = "linkedin")
  /\ unread' = IF source = "linkedin" THEN unread \ InChat(c) ELSE unread
  /\ UNCHANGED <<source, malformed, window, agent, link, wire, hub>>

-----------------------------------------------------------------------------
(* capture.ts.                                                             *)

\* notify(): the socket when it is open, the outbox when it is not.
Notify(batch) ==
  IF batch = <<>> THEN UNCHANGED <<wire, outbox>>
  ELSE IF link = "down" THEN outbox' = Append(outbox, batch) /\ UNCHANGED wire
  ELSE /\ wire' = IF link = "up" THEN Append(wire, batch) ELSE wire
       /\ UNCHANGED outbox

\* pump(): one event from the queue into the batch, which is sent when it is
\* full or when its timer fires.
Pump ==
  /\ aq # <<>> /\ aq' = Tail(aq)
  /\ IF stopped THEN UNCHANGED <<pending, timer, wire, outbox>>
     ELSE IF Len(pending) + 1 < BatchMax
     THEN /\ pending' = Append(pending, Head(aq)) /\ timer' = TRUE
          /\ UNCHANGED <<wire, outbox>>
     ELSE /\ pending' = <<>> /\ timer' = FALSE
          /\ Notify(Append(pending, Head(aq)))
  /\ UNCHANGED <<app, seen, stopped, link, hub, lossy, captureFaults>>

Flush ==
  /\ timer /\ timer' = FALSE
  /\ pending' = <<>> /\ Notify(pending)
  /\ UNCHANGED <<app, seen, aq, stopped, link, hub, lossy, captureFaults>>

Stop ==
  /\ ~stopped /\ stopped' = TRUE
  /\ timer' = FALSE /\ pending' = <<>> /\ Notify(pending)
  /\ CaptureFault(source = "linkedin" /\ aq # <<>>)
  /\ UNCHANGED <<app, seen, aq, link, hub>>

\* The agent's process dies; only the outbox survives it.
AgentCrash ==
  /\ ~stopped /\ stopped' = TRUE
  /\ CaptureFault(source = "linkedin")
  /\ pending' = <<>> /\ timer' = FALSE /\ aq' = <<>>
  /\ link' = "down"
  /\ UNCHANGED <<app, seen, outbox, wire, hub>>

AgentStartKeepsSeen ==
  /\ stopped /\ stopped' = FALSE
  /\ aq' = <<>> /\ link' = "down"
  /\ UNCHANGED <<app, seen, pending, timer, outbox, wire, hub, lossy, captureFaults>>

AgentStart ==
  /\ stopped /\ stopped' = FALSE
  /\ seen' = {} /\ aq' = <<>> /\ link' = "down"
  /\ UNCHANGED <<app, pending, timer, outbox, wire, hub, lossy, captureFaults>>

-----------------------------------------------------------------------------
(* The link.                                                               *)

\* What is sent from now until the agent sees the close is gone.
LinkDies ==
  /\ link = "up" /\ link' = "dead" /\ wire' = <<>>
  /\ CaptureFault(TRUE)
  /\ UNCHANGED <<app, agent, hub>>

SeeClose ==
  /\ link = "dead" /\ link' = "down"
  /\ UNCHANGED <<app, agent, wire, hub, lossy, captureFaults>>

Reconnect ==
  /\ link = "down" /\ ~stopped /\ link' = "up"
  /\ wire' = wire \o outbox /\ outbox' = <<>>
  /\ UNCHANGED <<app, seen, aq, pending, timer, stopped, hub, lossy, captureFaults>>

-----------------------------------------------------------------------------
(* The hub.                                                                *)

\* intakeCaptureItems: one malformed event drops its whole batch.
Intake ==
  /\ wire # <<>> /\ wire' = Tail(wire)
  /\ rq' = IF ToSet(Head(wire)) \cap malformed = {} THEN rq \o Head(wire) ELSE rq
  /\ UNCHANGED <<app, agent, link, pumpAttempt, inbox, lossy, captureFaults>>

Sink ==
  /\ rq # <<>> /\ pumpAttempt <= RelayRetries
  /\ rq' = Tail(rq) /\ inbox' = inbox \cup {Head(rq)}
  /\ UNCHANGED <<app, agent, link, wire, pumpAttempt, lossy, captureFaults>>

\* The item is off the queue when the sink throws.
SinkFails ==
  /\ rq # <<>> /\ pumpAttempt <= RelayRetries
  /\ rq' = Tail(rq) /\ pumpAttempt' = pumpAttempt + 1
  /\ CaptureFault(TRUE)
  /\ UNCHANGED <<app, agent, link, wire, inbox>>

RelayRestart ==
  /\ rq' = <<>> /\ pumpAttempt' = 0 /\ wire' = <<>>
  /\ link' = IF link = "up" THEN "dead" ELSE link
  /\ CaptureFault(TRUE)
  /\ UNCHANGED <<app, agent, inbox>>

Next ==
  \/ \E m \in Msgs : Appear(m)
  \/ \E c \in Chats : ReadChat(c) \/ ReadFails(c)
  \/ Pump \/ Flush \/ Stop \/ AgentCrash \/ AgentStart
  \/ LinkDies \/ SeeClose \/ Reconnect
  \/ Intake \/ Sink \/ SinkFails \/ RelayRestart

\* Timers fire, sockets reconnect and launchd starts the agent again.
CaptureFairness ==
  /\ \A c \in Chats : WF_cvars(ReadChat(c))
  /\ WF_cvars(Pump) /\ WF_cvars(Flush) /\ WF_cvars(AgentStart)
  /\ WF_cvars(SeeClose) /\ WF_cvars(Reconnect) /\ WF_cvars(Intake) /\ WF_cvars(Sink)

Spec == Init /\ [][Next]_cvars /\ CaptureFairness

-----------------------------------------------------------------------------
(* Properties.                                                             *)

\* A message the app shows reaches the inbox, also when the agent is stopped or
\* dies on the way (KakaoTalk's window is read again; LinkedIn's conversation is
\* not, once opened), unless the link or the hub loses it or its batch holds a
\* malformed event.
CapturedReachesInbox ==
  \A m \in Msgs : m \in window ~> (m \in inbox \/ lossy \/ malformed # {})

=============================================================================
