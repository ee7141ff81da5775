---------------------------- MODULE WhatsAppFeed ----------------------------
(***************************************************************************)
(* Reading WhatsApp through the Beeper Desktop API (adapters/whatsapp): a  *)
(* WebSocket pushes messages, and a poll beneath it re-reads every chat    *)
(* from a cursor.  connect(), subscribe() and disconnect() may land while  *)
(* a pass of the poll waits for the list of chats or for a page, so each   *)
(* pass carries the generation it belongs to.                              *)
(*                                                                         *)
(* Time is the number of messages sent so far.  Beeper itself is outside   *)
(* src: a page holds the oldest messages after the cursor, as the comment  *)
(* of MESSAGE_PAGE_LIMIT assumes.                                          *)
(***************************************************************************)
EXTENDS Naturals, FiniteSets

CONSTANTS
  Chats, Msgs,
  ChatOf,       \* the chat of a message
  PageLimit,    \* MESSAGE_PAGE_LIMIT
  MaxGen,       \* bound on connects and subscriptions
  MaxFailures   \* bound on requests that fail

ASSUME WhatsAppAssumption ==
  /\ IsFiniteSet(Msgs) /\ ChatOf \in [Msgs -> Chats]
  /\ PageLimit \in Nat \ {0} /\ MaxGen \in Nat /\ MaxFailures \in Nat

VARIABLES
  sentAt,       \* when a message was sent, 0 for not yet
  up,           \* connected
  pollGeneration,
  armed,        \* timers waiting, by the generation they were made for
  pollTimer,    \* the generation of the timer the adapter holds, 0 for none
  onEvent,      \* the WebSocket callback is registered
  passes,       \* passes of the poll that wait for an answer
  seen,         \* messages emitted
  pollAfter,    \* the cursor
  failure,      \* what health() reports
  warming,      \* connect() waits for the chats
  failures

session == <<up, pollGeneration, onEvent, warming>>
timers == <<armed, pollTimer>>
capture == <<seen, pollAfter, failure>>
wvars == <<sentAt, session, timers, passes, capture, failures>>

NoChat == "list"
Clock == Cardinality({m \in Msgs : sentAt[m] # 0})
Gens == 0 .. MaxGen

PollTypeOK ==
  /\ sentAt \in [Msgs -> 0 .. Cardinality(Msgs)]
  /\ up \in BOOLEAN /\ onEvent \in BOOLEAN /\ warming \in BOOLEAN
  /\ pollGeneration \in Gens /\ pollTimer \in Gens
  /\ armed \in [Gens -> Nat]
  /\ passes \subseteq [gen : Gens, startedAt : Nat, left : SUBSET Chats,
                       chat : Chats \cup {NoChat}, after : Nat]
  /\ seen \subseteq Msgs /\ pollAfter \in Nat
  /\ failure \in {"none", "down", "degraded"}

PollInit ==
  /\ sentAt = [m \in Msgs |-> 0]
  /\ up = FALSE /\ pollGeneration = 0 /\ onEvent = FALSE /\ warming = FALSE
  /\ armed = [g \in Gens |-> 0] /\ pollTimer = 0
  /\ passes = {} /\ seen = {} /\ pollAfter = 0
  /\ failure = "none" /\ failures = 0

Superseded(g) == ~up \/ g # pollGeneration

\* clearTimeout(pollTimer), harmless when the timer has fired
Cleared == [armed EXCEPT ![pollTimer] = IF pollTimer = 0 \/ @ = 0 THEN @ ELSE @ - 1]

-----------------------------------------------------------------------------
Send(m) ==
  /\ sentAt[m] = 0
  /\ sentAt' = [sentAt EXCEPT ![m] = Clock + 1]
  /\ UNCHANGED <<session, timers, passes, capture, failures>>

\* Emits what the dedupe window has not seen; the kernel stores the rest once.
Emit(ms) == seen' = seen \cup ms

\* A frame of the WebSocket; a message it drops is left to the poll.
HandleEvent(m) ==
  /\ onEvent /\ sentAt[m] # 0 /\ m \notin seen
  /\ Emit({m})
  /\ UNCHANGED <<sentAt, session, timers, passes, pollAfter, failure, failures>>

Connect ==
  /\ pollGeneration < MaxGen /\ ~warming
  /\ up' = TRUE /\ pollGeneration' = pollGeneration + 1 /\ warming' = TRUE
  /\ failure' = "none"
  /\ UNCHANGED <<sentAt, onEvent, timers, passes, seen, pollAfter, failures>>

\* The warm-up of the chat cache; connect() resolves whether it worked or not.
Warmed ==
  /\ warming /\ warming' = FALSE
  /\ \/ UNCHANGED <<failure, failures>>
     \/ failures < MaxFailures /\ failures' = failures + 1 /\ failure' = "degraded"
  /\ UNCHANGED <<sentAt, up, pollGeneration, onEvent, timers, passes, seen, pollAfter>>

Subscribe ==
  /\ up /\ ~warming /\ pollGeneration < MaxGen
  /\ pollGeneration' = pollGeneration + 1
  /\ onEvent' = TRUE
  /\ armed' = [Cleared EXCEPT ![pollGeneration + 1] = @ + 1]
  /\ pollTimer' = pollGeneration + 1
  /\ UNCHANGED <<sentAt, up, warming, passes, capture, failures>>

Disconnect ==
  /\ up /\ up' = FALSE /\ onEvent' = FALSE
  /\ armed' = Cleared /\ pollTimer' = 0
  /\ UNCHANGED <<sentAt, pollGeneration, warming, passes, capture, failures>>

-----------------------------------------------------------------------------
(* The poll.                                                               *)

PollOnce(g) ==
  /\ armed[g] > 0
  /\ armed' = [armed EXCEPT ![g] = @ - 1]
  /\ passes' = IF Superseded(g) THEN passes
               ELSE passes \cup {[gen |-> g, startedAt |-> Clock, left |-> {},
                                  chat |-> NoChat, after |-> 0]}
  /\ UNCHANGED <<sentAt, session, pollTimer, capture, failures>>

\* schedulePoll() after a pass: a superseded chain ends here.
SchedulePoll(g) ==
  IF Superseded(g) THEN UNCHANGED timers
  ELSE armed' = [armed EXCEPT ![g] = @ + 1] /\ pollTimer' = g

\* pollOnce() from one await to the next, with the chats still to be read
Advance(p, left) ==
  IF left # {} /\ ~Superseded(p.gen)
  THEN /\ \E c \in left :
            passes' = (passes \ {p}) \cup
              {[p EXCEPT !.left = left \ {c}, !.chat = c, !.after = pollAfter]}
       /\ UNCHANGED <<timers, pollAfter, failure>>
  ELSE /\ passes' = passes \ {p}
       /\ IF left = {}
          THEN pollAfter' = p.startedAt /\ failure' = "none"
          ELSE UNCHANGED <<pollAfter, failure>>
       /\ SchedulePoll(p.gen)

Listed(p) ==
  /\ p.chat = NoChat
  /\ Advance(p, Chats)
  /\ UNCHANGED <<sentAt, session, seen, failures>>

\* listMessages(): the oldest PageLimit messages of the chat after the cursor
Page(p) ==
  LET later == {m \in Msgs : ChatOf[m] = p.chat /\ sentAt[m] > p.after}
      before(m) == {n \in later : sentAt[n] < sentAt[m]}
  IN {m \in later : Cardinality(before(m)) < PageLimit}

PageRead(p) ==
  /\ p.chat # NoChat
  /\ IF Superseded(p.gen) /\ Page(p) # {}
     THEN /\ passes' = passes \ {p} /\ SchedulePoll(p.gen)
          /\ UNCHANGED capture
     ELSE Emit(Page(p)) /\ Advance(p, p.left)
  /\ UNCHANGED <<sentAt, session, failures>>

PollFailsMovesCursor(p) ==
  /\ failures < MaxFailures /\ failures' = failures + 1
  /\ passes' = passes \ {p} /\ failure' = "down" /\ pollAfter' = p.startedAt
  /\ SchedulePoll(p.gen)
  /\ UNCHANGED <<sentAt, session, seen>>

PollFails(p) ==
  /\ failures < MaxFailures /\ failures' = failures + 1
  /\ passes' = passes \ {p} /\ failure' = "down"
  /\ SchedulePoll(p.gen)
  /\ UNCHANGED <<sentAt, session, seen, pollAfter>>

PollNext ==
  \/ \E m \in Msgs : Send(m) \/ HandleEvent(m)
  \/ Connect \/ Warmed \/ Subscribe \/ Disconnect
  \/ \E g \in Gens : PollOnce(g)
  \/ \E p \in passes : Listed(p) \/ PageRead(p) \/ PollFails(p)

PollSpec == PollInit /\ [][PollNext]_wvars

-----------------------------------------------------------------------------
(* Properties.                                                             *)

\* Whatever the cursor has moved past was emitted: passes that fail, are
\* superseded or run while messages arrive leave nothing behind.
CursorSkipsNothing ==
  \A m \in Msgs : sentAt[m] # 0 /\ sentAt[m] <= pollAfter => m \in seen

=============================================================================
