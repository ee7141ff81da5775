--------------------------- MODULE SchedulerProofs ---------------------------
(***************************************************************************)
(* Theorems about the hub's own work: the sessions of the bridge and the   *)
(* scheduler with its kill switch, which share no state.                   *)
(*                                                                         *)
(* Sessions, while no link was lost and one handler runs at a time: each   *)
(* event reaches the hub once (SentOnce), so an ask has one handler, and a *)
(* handler holds the current object (Holds), since an ask never makes      *)
(* another.  The object says what the row says except between the UPDATE   *)
(* and the note (Synced), so a state that is skipped as already noted is   *)
(* in the row.  An ended turn is shown unless an approval is still to come *)
(* and settle (Owes): whoever wrote something else then is followed by one *)
(* that settles again (SaysSo).                                            *)
(*                                                                         *)
(* Jobs, for any number of hub processes, jobs, presses of the switch and  *)
(* faults: that handlers never overlap follows from the claim once every   *)
(* running tick is known to hold the claim of its job (Exclusive); that a  *)
(* job is begun once per due time is a count in which a free, due row is a *)
(* run still owed (Counted).                                               *)
(*                                                                         *)
(* That the switch settles needs to know what is still to reach a cache:   *)
(* the last announcements wait before each session in their order, and a   *)
(* cache that is behind waits for one that it has heard already.           *)
(***************************************************************************)
EXTENDS BridgeSessions, Scheduler, SequenceTheorems, TLAPS

-----------------------------------------------------------------------------
(* The sessions.                                                           *)

\* A runtime that asks for approvals does not register its session with a turn.
AsksApart ==
  \A s \in Scripts : \A i, j \in DOMAIN s : s[i].kind = "ask" => s[j].kind # "registered"

Pcs == {"idle", "fetch", "ensure", "have", "line", "propose", "write", "note", "count",
        "settle", "subscribe", "listen", "wait", "reply", "done"}
Calls ==
  [pc : Pcs, ev : Nat, obj : Nat, base : Nat, val : Values, conn : Nat,
   then : {"idle", "subscribe", "reply"}]
Sessions == [state : Values \cup {"null"}, turnOpen : BOOLEAN, settled : {"idle", "failed"}]

Main == [conn |-> 1]

SessionTypes ==
  /\ script \in Scripts /\ next \in Nat \ {0}
  /\ h \in [Procs -> Calls]
  /\ objs \in Seq(Sessions) /\ current \in 0 .. Len(objs)
  /\ db \in Values \cup {"absent", "starting"}
  /\ approval \in [AllAsks -> {"absent", "pending", "decided"}]
  /\ log \in Seq(1 .. Len(script))
  /\ posted \in [Conns -> Seq(0 .. Len(script))]
  /\ queue \in [Conns -> Seq(1 .. Len(script))]

\* One connection, whose events are each sent once.
OneLink ==
  /\ lost = {} /\ outbox = <<>> /\ reg \subseteq {1} /\ cur \in {0, 1}
  /\ open => cur = 1
  /\ ~open => cur = 0 /\ ~ids /\ reg = {} /\ posted[1] = <<>>
  /\ \A c \in Conns \ {1} :
       posted[c] = <<>> /\ queue[c] = <<>> /\ h[[conn |-> c]].pc = "idle"
SentOnce ==
  /\ \A i, j \in 1 .. Len(posted[1]) : posted[1][i] = posted[1][j] => posted[1][i] = 0 \/ i = j
  /\ \A i \in 1 .. Len(posted[1]) :
       posted[1][i] < next
       /\ (posted[1][i] \in Ask => h[[ask |-> posted[1][i]]].pc = "idle")
  /\ \A k \in AllAsks : k >= next => h[[ask |-> k]].pc = "idle"

\* One handler at a time is in the middle of something.
Calm(p) == h[p].pc \in {"idle", "fetch", "wait", "done"}
OneAtWork == \A p, q \in Procs : p = q \/ Calm(p) \/ Calm(q)

\* Where a handler may be, and the object it holds.
Holds(p) ==
  /\ IF IsAsk(p)
     THEN /\ h[p].pc # "line"
          /\ h[p].pc \in {"write", "note"} => h[p].then \in {"subscribe", "reply"}
          /\ h[p].pc \in {"count", "settle"} => h[p].then = "reply"
     ELSE /\ h[p].pc \in {"idle", "fetch", "ensure", "have", "line", "write", "note", "count",
                          "settle"}
          /\ h[p].pc \in {"write", "note", "count", "settle"} => h[p].then = "idle"
  /\ h[p].pc \notin {"idle", "done"} => h[p].ev \in 1 .. Len(script)
  /\ h[p].pc \notin {"idle", "fetch", "ensure", "done"} => current # 0 /\ h[p].obj = current
  /\ h[p].pc = "ensure" => h[p].base = current /\ (Ask # {} => current = 0)
  /\ h[p].pc = "note" => db = h[p].val
AllHold ==
  /\ \A p \in Procs : Holds(p)
  /\ \A k \in AllAsks : h[[ask |-> k]].pc # "idle" => k \in Ask

\* The current object says what the row says, except between UPDATE and note.
Synced ==
  /\ current = 0 => db = "absent"
  /\ current # 0 /\ (\A p \in Procs : h[p].pc # "note") =>
       objs[current].state = db \/ (objs[current].state = "null" /\ db = "starting")

\* An ask that was proposed and has not come to settle the session again.
Owes(k) ==
  LET call == h[[ask |-> k]] IN
  call.pc \in {"propose", "subscribe", "listen", "wait"}
  \/ (call.pc \in {"write", "note"} /\ call.then = "subscribe")
Waits == \E k \in AllAsks : Owes(k)
AskedOf(k) ==
  /\ h[[ask |-> k]].pc \in {"idle", "fetch", "ensure", "have"} => approval[k] = "absent"
  /\ approval[k] = "pending" => Owes(k)
  /\ Owes(k) => approval[k] # "absent"
  /\ k \in told => approval[k] = "decided"
  /\ h[[ask |-> k]].pc = "wait" /\ k \notin told => approval[k] = "pending"
Asked == \A k \in AllAsks : AskedOf(k)

\* The end of a turn: what it came to, and whether its handler has said so.
Outcome == IF script[log[Len(log)]].kind = "ok" THEN "idle" ELSE "failed"
Ended == LastEnds /\ h[Main].pc \in {"idle", "count", "settle", "write", "note"}
Settles(p) ==
  h[p].pc \in {"count", "settle"} \/ (h[p].pc \in {"write", "note"} /\ h[p].then # "subscribe")
SaysSo ==
  /\ current # 0 /\ ~objs[current].turnOpen /\ objs[current].settled = Outcome
  /\ \A p \in Procs : h[p].pc \in {"write", "note"} => h[p].val = Outcome \/ Waits
  /\ (\A p \in Procs : ~Settles(p)) => db = Outcome \/ Waits
TurnsEnd ==
  /\ h[Main].pc # "idle" => Len(log) > 0 /\ h[Main].ev = log[Len(log)]
  /\ h[Main].pc = "line" => LastEnds
  /\ Ended => SaysSo

Undisturbed == SessionTypes /\ OneLink /\ SentOnce /\ OneAtWork /\ AllHold /\ Synced
               /\ Asked /\ TurnsEnd
SessionsInv == sessionFaults \in Nat /\ (sessionFaults = 0 => Undisturbed)

-----------------------------------------------------------------------------
\* The handlers: one for each connection and one for each ask.
LEMMA ProcsAre ==
  /\ Main \in Procs /\ ~IsAsk(Main)
  /\ \A c \in Conns : [conn |-> c] \in Procs /\ ~IsAsk([conn |-> c])
                      /\ (c # 1 => [conn |-> c] # Main)
  /\ \A k \in AllAsks : [ask |-> k] \in Procs /\ IsAsk([ask |-> k]) /\ [ask |-> k] # Main
  /\ \A p \in Procs : IF IsAsk(p) THEN \E k \in AllAsks : p = [ask |-> k]
                      ELSE \E c \in Conns : p = [conn |-> c]
  /\ \A k, l : [ask |-> k] = [ask |-> l] => k = l
<1>1. 1 \in Conns
  BY BridgeAssumption DEF Conns
<1>2. \A c : DOMAIN [conn |-> c] = {"conn"} /\ [conn |-> c].conn = c
  OBVIOUS
<1>3. \A k : DOMAIN [ask |-> k] = {"ask"} /\ [ask |-> k].ask = k
  OBVIOUS
<1>4. \A c \in Conns : [conn |-> c] \in Procs
  BY DEF Procs
<1>5. \A k \in AllAsks : [ask |-> k] \in Procs
  BY DEF Procs
<1>6. \A p \in Procs : (\E c \in Conns : p = [conn |-> c]) \/ (\E k \in AllAsks : p = [ask |-> k])
  BY DEF Procs
<1>7. \A c : ~IsAsk([conn |-> c])
  BY <1>2 DEF IsAsk
<1>8. \A k : IsAsk([ask |-> k])
  BY <1>3 DEF IsAsk
<1>9. \A c : [conn |-> c] = Main => c = 1
  BY <1>2 DEF Main
<1>10. ~IsAsk(Main) /\ Main \in Procs
  BY <1>1, <1>4, <1>7 DEF Main
<1> QED
  BY <1>3, <1>4, <1>5, <1>6, <1>7, <1>8, <1>9, <1>10

\* An ask of the script is one there may be.
LEMMA AsksAre ==
  ASSUME script \in Scripts
  PROVE  Ask \subseteq AllAsks /\ \A k \in Ask : k \in 1 .. Len(script) /\ script[k].kind = "ask"
BY DEF Ask, AllAsks

\* A step of the handler p: the others stay where they are.
Step(p) == h' \in [Procs -> Calls] /\ \A q \in Procs : q # p => h'[q] = h[q]
\* It goes on with the call it was at.
SameCall(p) ==
  /\ h'[p].ev = h[p].ev /\ h'[p].obj = h[p].obj /\ h'[p].val = h[p].val
  /\ h'[p].then = h[p].then /\ h'[p].base = h[p].base

\* Going to a step of the handler moves no other handler.
LEMMA GoMoves ==
  ASSUME h \in [Procs -> Calls], NEW p \in Procs, NEW pc \in Pcs, Go(p, pc)
  PROVE  Step(p) /\ h'[p].pc = pc /\ (pc \notin {"idle", "done"} => SameCall(p))
<1>1. h[p] \in Calls
  OBVIOUS
<1>2. CASE pc \in {"idle", "done"}
  <2>1. h' = [h EXCEPT ![p] = [Idle EXCEPT !.pc = pc]]
    BY <1>2 DEF Go
  <2>2. [Idle EXCEPT !.pc = pc] \in Calls /\ [Idle EXCEPT !.pc = pc].pc = pc
    BY <1>2 DEF Idle, Calls, Pcs, Values
  <2> QED
    BY <1>2, <2>1, <2>2 DEF Step
<1>3. CASE pc \notin {"idle", "done"}
  <2>1. h' = [h EXCEPT ![p] = [h[p] EXCEPT !.pc = pc]]
    BY <1>3 DEF Go
  <2>2. [h[p] EXCEPT !.pc = pc] \in Calls
    BY <1>1 DEF Calls
  <2>3. h'[p] = [h[p] EXCEPT !.pc = pc] /\ Step(p)
    BY <2>1, <2>2 DEF Step
  <2> QED
    BY <1>1, <2>3 DEF SameCall, Calls
<1> QED
  BY <1>2, <1>3

\* applyState() goes on at once, or to its UPDATE with the state to write.
LEMMA ApplyMoves ==
  ASSUME h \in [Procs -> Calls], NEW p \in Procs, NEW o, NEW val \in Values,
         NEW then \in {"idle", "subscribe", "reply"}, Apply(p, o, val, then)
  PROVE  /\ Step(p)
         /\ \/ o.state = val /\ h'[p].pc = then /\ (then # "idle" => SameCall(p))
            \/ /\ o.state # val /\ h'[p].pc = "write" /\ h'[p].val = val
               /\ h'[p].then = then /\ h'[p].ev = h[p].ev /\ h'[p].obj = h[p].obj
<1>1. h[p] \in Calls
  OBVIOUS
<1>2. CASE o.state = val
  <2>1. Go(p, then) /\ then \in Pcs /\ then # "done"
    BY <1>2 DEF Apply, Pcs
  <2> QED
    BY <1>2, <2>1, GoMoves
<1>3. CASE o.state # val
  <2> DEFINE r == [h[p] EXCEPT !.pc = "write", !.val = val, !.then = then]
  <2>1. h' = [h EXCEPT ![p] = r]
    BY <1>1, <1>3 DEF Apply, Calls
  <2>2. r \in Calls /\ r.pc = "write" /\ r.val = val /\ r.then = then /\ r.ev = h[p].ev
        /\ r.obj = h[p].obj
    BY <1>1 DEF Calls, Pcs
  <2> HIDE DEF r
  <2>3. h'[p] = r /\ Step(p)
    BY SMTT(60), <2>1, <2>2 DEF Step
  <2> QED
    BY <1>3, <2>2, <2>3
<1> QED
  BY <1>2, <1>3

\* The handlers that start, fetch and settle change their call in other ways.
LEMMA OtherMoves ==
  ASSUME h \in [Procs -> Calls], NEW p \in Procs
  PROVE  /\ \A e, c \in Nat :
              h' = [h EXCEPT ![p] = [Idle EXCEPT !.pc = "fetch", !.ev = e, !.conn = c]]
                => Step(p) /\ h'[p].pc = "fetch" /\ h'[p].ev = e
         /\ \A t \in Pcs, o \in Nat :
              h' = [h EXCEPT ![p].pc = t, ![p].obj = o, ![p].base = o]
                => /\ Step(p) /\ h'[p].pc = t /\ h'[p].obj = o /\ h'[p].base = o
                   /\ h'[p].ev = h[p].ev
         /\ \A t \in Pcs, o \in Nat :
              h' = [h EXCEPT ![p].pc = t, ![p].obj = o]
                => Step(p) /\ h'[p].pc = t /\ h'[p].obj = o /\ h'[p].ev = h[p].ev
         /\ \A t \in Pcs, u \in {"idle", "reply"} :
              h' = [h EXCEPT ![p].pc = t, ![p].then = u]
                => /\ Step(p) /\ h'[p].pc = t /\ h'[p].then = u
                   /\ h'[p].ev = h[p].ev /\ h'[p].obj = h[p].obj
<1>1. h[p] \in Calls
  OBVIOUS
<1>2. ASSUME NEW e \in Nat, NEW c \in Nat,
             h' = [h EXCEPT ![p] = [Idle EXCEPT !.pc = "fetch", !.ev = e, !.conn = c]]
      PROVE  Step(p) /\ h'[p].pc = "fetch" /\ h'[p].ev = e
  <2> DEFINE r == [Idle EXCEPT !.pc = "fetch", !.ev = e, !.conn = c]
  <2>1. r \in Calls /\ r.pc = "fetch" /\ r.ev = e
    BY DEF Idle, Calls, Pcs, Values
  <2> HIDE DEF r
  <2>2. h' = [h EXCEPT ![p] = r]
    BY <1>2 DEF r
  <2> QED
    BY <2>1, <2>2 DEF Step
<1>3. ASSUME NEW t \in Pcs, NEW o \in Nat,
             h' = [h EXCEPT ![p].pc = t, ![p].obj = o, ![p].base = o]
      PROVE  Step(p) /\ h'[p].pc = t /\ h'[p].obj = o /\ h'[p].base = o
             /\ h'[p].ev = h[p].ev
  <2> DEFINE r == [h[p] EXCEPT !.pc = t, !.obj = o, !.base = o]
  <2>1. r \in Calls /\ r.pc = t /\ r.obj = o /\ r.base = o /\ r.ev = h[p].ev
    BY <1>1 DEF Calls
  <2>2. h' = [h EXCEPT ![p] = r]
    BY <1>1, <1>3 DEF Calls
  <2> HIDE DEF r
  <2> QED
    BY <2>1, <2>2 DEF Step
<1>4. ASSUME NEW t \in Pcs, NEW o \in Nat, h' = [h EXCEPT ![p].pc = t, ![p].obj = o]
      PROVE  Step(p) /\ h'[p].pc = t /\ h'[p].obj = o /\ h'[p].ev = h[p].ev
  <2> DEFINE r == [h[p] EXCEPT !.pc = t, !.obj = o]
  <2>1. r \in Calls /\ r.pc = t /\ r.obj = o /\ r.ev = h[p].ev
    BY <1>1 DEF Calls
  <2>2. h' = [h EXCEPT ![p] = r]
    BY <1>1, <1>4 DEF Calls
  <2> HIDE DEF r
  <2> QED
    BY <2>1, <2>2 DEF Step
<1>5. ASSUME NEW t \in Pcs, NEW u \in {"idle", "reply"},
             h' = [h EXCEPT ![p].pc = t, ![p].then = u]
      PROVE  Step(p) /\ h'[p].pc = t /\ h'[p].then = u
             /\ h'[p].ev = h[p].ev /\ h'[p].obj = h[p].obj
  <2> DEFINE r == [h[p] EXCEPT !.pc = t, !.then = u]
  <2>1. r \in Calls /\ r.pc = t /\ r.then = u /\ r.ev = h[p].ev /\ r.obj = h[p].obj
    BY <1>1 DEF Calls
  <2>2. h' = [h EXCEPT ![p] = r]
    BY <1>1, <1>5 DEF Calls
  <2> HIDE DEF r
  <2> QED
    BY <2>1, <2>2 DEF Step
<1> QED
  BY <1>2, <1>3, <1>4, <1>5

-----------------------------------------------------------------------------
(* What a step of one handler leaves alone.                                *)

\* The agent and the messages under way are left alone, and so are the queues
\* of the connections that were never opened.
AgentRests ==
  /\ script' = script /\ next' = next /\ open' = open /\ cur' = cur /\ ids' = ids
  /\ outbox' = outbox /\ lost' = lost /\ posted' = posted /\ reg' = reg
  /\ \A c \in Conns : c # 1 => queue'[c] = queue[c]

\* Who may step: the handler of the one connection, and the asks of the script.
Stepping(p) ==
  /\ p \in Procs /\ Runs(p) /\ Step(p) /\ AgentRests
  /\ p = Main \/ (h[p].pc # "idle" /\ \E k \in Ask : p = [ask |-> k])

\* The others are calm, before and after.
LEMMA OthersCalm ==
  ASSUME ~Overlap, NEW p, Stepping(p)
  PROVE  \A q \in Procs : q # p => Calm(q) /\ Calm(q)' /\ h'[q] = h[q]
BY DEF Stepping, Runs, Step, Calm

\* So one handler is at work.
LEMMA HandlerAtWork ==
  ASSUME ~Overlap, NEW p, Stepping(p)
  PROVE  OneAtWork'
<1>1. SUFFICES ASSUME NEW q \in Procs, NEW r \in Procs PROVE (q = r \/ Calm(q) \/ Calm(r))'
  BY DEF OneAtWork
<1> QED
  BY OthersCalm

\* The one connection stays the only one, and what is under way was sent once.
LEMMA HandlerKeepsLink ==
  ASSUME ~Overlap, Undisturbed, NEW p, Stepping(p)
  PROVE  OneLink' /\ SentOnce'
<1>1. script \in Scripts /\ Ask' = Ask
  BY DEF Undisturbed, SessionTypes, Stepping, AgentRests, Ask
<1>2. \A c \in Conns \ {1} : h'[[conn |-> c]] = h[[conn |-> c]]
  BY ZenonT(60), ProcsAre DEF Stepping, Step
<1>3. OneLink'
  BY <1>2 DEF Undisturbed, OneLink, Stepping, AgentRests
<1>4. \A k \in AllAsks : h[[ask |-> k]].pc = "idle" => h'[[ask |-> k]] = h[[ask |-> k]]
  BY ProcsAre DEF Stepping, Step
<1>5. Ask \subseteq AllAsks
  BY <1>1, AsksAre
<1>6. \A i \in 1 .. Len(posted[1]) : posted[1][i] < next
        /\ (posted[1][i] \in Ask => h'[[ask |-> posted[1][i]]].pc = "idle")
  BY <1>4, <1>5 DEF Undisturbed, SentOnce
<1>7. \A k \in AllAsks : k >= next => h'[[ask |-> k]].pc = "idle"
  BY <1>4 DEF Undisturbed, SentOnce
<1>8. SentOnce'
  BY <1>1, <1>6, <1>7 DEF Undisturbed, SentOnce, Stepping, AgentRests
<1> QED
  BY <1>3, <1>8

\* Everyone else is where it was, with the object it held.
LEMMA HandlerHolds ==
  ASSUME ~Overlap, Undisturbed, NEW p, Stepping(p), Holds(p)',
         current' = current \/ (Ask # {} => current = 0)
  PROVE  AllHold'
<1>1. \A q \in Procs : q # p => Calm(q) /\ h'[q] = h[q]
  BY OthersCalm
<1>2. script' = script /\ script \in Scripts
  BY DEF Undisturbed, SessionTypes, Stepping, AgentRests
<1>3. \A k \in AllAsks : h'[[ask |-> k]].pc # "idle" => k \in Ask
  BY <1>1, ProcsAre DEF Undisturbed, AllHold, Stepping
<1>4. \A q \in Procs : q # p /\ h[q].pc = "wait" => current' = current
  <2>1. SUFFICES ASSUME NEW q \in Procs, h[q].pc = "wait", Ask # {} => current = 0,
                        current' # current
                 PROVE  FALSE
    OBVIOUS
  <2>2. Holds(q) /\ IsAsk(q)
    BY <2>1 DEF Undisturbed, AllHold, Holds
  <2>3. current # 0
    BY <2>1, <2>2 DEF Holds
  <2>4. Ask # {}
    BY <2>1, <2>2, ProcsAre DEF Undisturbed, AllHold
  <2> QED
    BY <2>1, <2>3, <2>4
<1>5. ASSUME NEW q \in Procs, q # p PROVE Holds(q)'
  <2>1. Calm(q) /\ h'[q] = h[q] /\ Holds(q)
    BY <1>1, <1>5 DEF Undisturbed, AllHold
  <2>2. h[q].pc = "wait" => current' = current
    BY <1>4, <1>5
  <2> QED
    BY <1>2, <2>1, <2>2 DEF Holds, Calm
<1>6. Ask' = Ask
  BY <1>2 DEF Ask
<1> QED
  BY <1>3, <1>5, <1>6 DEF AllHold

\* Who owes a settling is told by the ask's own handler.
LEMMA OthersOwe ==
  ASSUME NEW p, Stepping(p)
  PROVE  /\ \A k \in AllAsks : [ask |-> k] # p => Owes(k)' = Owes(k)
         /\ (\A k \in AllAsks : [ask |-> k] = p /\ Owes(k) => Owes(k)') => (Waits => Waits')
<1>1. \A k \in AllAsks : [ask |-> k] # p => h'[[ask |-> k]] = h[[ask |-> k]]
  BY ProcsAre DEF Stepping, Step
<1>2. \A k \in AllAsks : [ask |-> k] # p => Owes(k)' = Owes(k)
  BY <1>1 DEF Owes
<1> QED
  BY <1>2 DEF Waits

\* Where the approvals are left alone, only the ask that stepped is to be looked at.
LEMMA HandlerAsked ==
  ASSUME NEW p, Stepping(p), Asked, approval' = approval, told' = told,
         \A k \in AllAsks : [ask |-> k] = p => AskedOf(k)'
  PROVE  Asked'
<1>1. SUFFICES ASSUME NEW k \in AllAsks, [ask |-> k] # p PROVE AskedOf(k)'
  BY DEF Asked
<1>2. h'[[ask |-> k]] = h[[ask |-> k]] /\ Owes(k)' = Owes(k)
  BY <1>1, ProcsAre, OthersOwe DEF Stepping, Step
<1>3. AskedOf(k)
  BY DEF Asked
<1> QED
  BY <1>2, <1>3 DEF AskedOf

\* An ended turn: what the handler that stepped leaves to itself and to the row.
LEMMA HandlerSays ==
  ASSUME ~Overlap, NEW p, Stepping(p), log' = log,
         current' # 0, ~objs'[current'].turnOpen, objs'[current'].settled = Outcome,
         h'[p].pc \in {"write", "note"} => h'[p].val = Outcome \/ Waits',
         ~Settles(p)' => db' = Outcome \/ Waits'
  PROVE  SaysSo'
<1>1. Outcome' = Outcome
  BY DEF Outcome, Stepping, AgentRests
<1>2. p \in Procs
  BY DEF Stepping
<1>3. \A q \in Procs : q # p => Calm(q)'
  BY OthersCalm
<1>4. \A q \in Procs : h'[q].pc \in {"write", "note"} => h'[q].val = Outcome \/ Waits'
  BY <1>3 DEF Calm
<1> QED
  BY <1>1, <1>2, <1>4 DEF SaysSo

\* The updates of a session object.
LEMMA ObjectMoves ==
  ASSUME objs \in Seq(Sessions), NEW i \in 1 .. Len(objs)
  PROVE  /\ objs' = [objs EXCEPT ![i].turnOpen = TRUE]
              => /\ objs' \in Seq(Sessions) /\ Len(objs') = Len(objs)
                 /\ objs'[i].state = objs[i].state
         /\ \A v \in {"idle", "failed"} :
              objs' = [objs EXCEPT ![i].turnOpen = FALSE, ![i].settled = v]
                => /\ objs' \in Seq(Sessions) /\ Len(objs') = Len(objs)
                   /\ objs'[i].state = objs[i].state
                   /\ ~objs'[i].turnOpen /\ objs'[i].settled = v
         /\ \A v \in Values :
              objs' = [objs EXCEPT ![i].state = v]
                => /\ objs' \in Seq(Sessions) /\ Len(objs') = Len(objs)
                   /\ objs'[i].state = v
                   /\ objs'[i].turnOpen = objs[i].turnOpen
                   /\ objs'[i].settled = objs[i].settled
<1>1. objs[i] \in Sessions
  OBVIOUS
<1>2. \A r \in Sessions : objs' = [objs EXCEPT ![i] = r]
        => objs' \in Seq(Sessions) /\ Len(objs') = Len(objs) /\ objs'[i] = r
  OBVIOUS
<1>3. ASSUME objs' = [objs EXCEPT ![i].turnOpen = TRUE]
      PROVE  objs' \in Seq(Sessions) /\ Len(objs') = Len(objs) /\ objs'[i].state = objs[i].state
  <2> DEFINE r == [objs[i] EXCEPT !.turnOpen = TRUE]
  <2>1. r \in Sessions /\ r.state = objs[i].state
    BY <1>1 DEF Sessions
  <2>2. objs' = [objs EXCEPT ![i] = r]
    BY <1>3
  <2> HIDE DEF r
  <2> QED
    BY <1>2, <2>1, <2>2
<1>4. ASSUME NEW v \in {"idle", "failed"},
             objs' = [objs EXCEPT ![i].turnOpen = FALSE, ![i].settled = v]
      PROVE  /\ objs' \in Seq(Sessions) /\ Len(objs') = Len(objs)
             /\ objs'[i].state = objs[i].state
             /\ ~objs'[i].turnOpen /\ objs'[i].settled = v
  <2> DEFINE r == [objs[i] EXCEPT !.turnOpen = FALSE, !.settled = v]
  <2>1. r \in Sessions /\ r.state = objs[i].state /\ ~r.turnOpen /\ r.settled = v
    BY <1>1 DEF Sessions
  <2>2. objs' = [objs EXCEPT ![i] = r]
    BY <1>1, <1>4 DEF Sessions
  <2> HIDE DEF r
  <2> QED
    BY <1>2, <2>1, <2>2
<1>5. ASSUME NEW v \in Values, objs' = [objs EXCEPT ![i].state = v]
      PROVE  /\ objs' \in Seq(Sessions) /\ Len(objs') = Len(objs)
             /\ objs'[i].state = v
             /\ objs'[i].turnOpen = objs[i].turnOpen /\ objs'[i].settled = objs[i].settled
  <2> DEFINE r == [objs[i] EXCEPT !.state = v]
  <2>1. r \in Sessions /\ r.state = v /\ r.turnOpen = objs[i].turnOpen
        /\ r.settled = objs[i].settled
    BY <1>1 DEF Sessions
  <2>2. objs' = [objs EXCEPT ![i] = r]
    BY <1>5
  <2> HIDE DEF r
  <2> QED
    BY <1>2, <2>1, <2>2
<1> QED
  BY <1>3, <1>4, <1>5

\* The row and the end of the turn say what they said, where nobody settles.
LEMMA EndStays ==
  ASSUME ~Overlap, NEW p, Stepping(p), log' = log, SaysSo, ~Settles(p),
         current' = current, objs' = objs, db' = db,
         h'[p].pc \notin {"write", "note"},
         \A k \in AllAsks : [ask |-> k] = p /\ Owes(k) => Owes(k)'
  PROVE  SaysSo'
<1>1. \A q \in Procs : ~Settles(q)
  BY OthersCalm DEF Settles, Calm
<1>2. db = Outcome \/ Waits'
  BY <1>1, OthersOwe DEF SaysSo
<1> QED
  BY <1>2, HandlerSays DEF SaysSo

\* What is left of the turn's end when one handler stepped.
LEMMA HandlerEnds ==
  ASSUME ~Overlap, TurnsEnd, NEW p, Stepping(p), log' = log,
         h[p].pc # "idle", h'[p].pc # "idle" => h'[p].ev = h[p].ev,
         p = Main /\ h'[p].pc = "line" => LastEnds,
         LastEnds /\ (p = Main => h'[p].pc \in {"idle", "count", "settle", "write", "note"})
           /\ (p # Main => Ended) => SaysSo'
  PROVE  TurnsEnd'
<1>1. LastEnds' = LastEnds
  BY DEF LastEnds, IsEnd, Stepping, AgentRests
<1>2. p # Main => h'[Main] = h[Main]
  BY ProcsAre, OthersCalm
<1>3. Ended' => SaysSo'
  BY <1>1, <1>2 DEF Ended
<1> QED
  BY <1>1, <1>2, <1>3 DEF TurnsEnd

\* The parts of the invariant that a step of a handler has to be asked about.
LEMMA HandlerStep ==
  ASSUME ~Overlap, Undisturbed, NEW p, Stepping(p),
         objs' \in Seq(Sessions), current' \in 0 .. Len(objs'),
         db' \in Values \cup {"absent", "starting"},
         approval' \in [AllAsks -> {"absent", "pending", "decided"}],
         log' \in Seq(1 .. Len(script)), queue' \in [Conns -> Seq(1 .. Len(script))],
         current' = current \/ (Ask # {} => current = 0),
         Holds(p)', Synced', Asked', TurnsEnd'
  PROVE  Undisturbed'
<1>1. SessionTypes'
  BY DEF Undisturbed, SessionTypes, Stepping, Step, AgentRests
<1>2. OneAtWork'
  BY HandlerAtWork
<1>3. OneLink' /\ SentOnce'
  BY HandlerKeepsLink
<1>4. AllHold'
  BY HandlerHolds
<1> QED
  BY <1>1, <1>2, <1>3, <1>4 DEF Undisturbed

\* Whose turn it is to step.
MayStep(p) ==
  p \in Procs /\ Runs(p) /\ (p = Main \/ (h[p].pc # "idle" /\ \E k \in Ask : p = [ask |-> k]))

\* The row goes on saying what the object says, where neither is written.
LEMMA SyncedStays ==
  ASSUME ~Overlap, Undisturbed, NEW p, Stepping(p), current' = current, db' = db,
         h[p].pc # "note", current # 0 => objs'[current].state = objs[current].state
  PROVE  Synced'
<1>1. (\A q \in Procs : h'[q].pc # "note") => (\A q \in Procs : h[q].pc # "note")
  BY OthersCalm
<1> QED
  BY <1>1 DEF Undisturbed, Synced

-----------------------------------------------------------------------------
(* The steps every handler has.                                            *)

\* sessionFor() takes the current object, or goes to make one.
LEMMA FetchStep ==
  ASSUME ~Overlap, AsksApart, Undisturbed, NEW p, MayStep(p), Fetch(p)
  PROVE  Undisturbed'
<1>0. SessionTypes /\ Holds(p) /\ h[p].pc = "fetch" /\ TurnsEnd /\ Asked
  BY DEF Undisturbed, AllHold, MayStep, Fetch
<1>1. PICK t \in {"have", "ensure"} :
        /\ t = IF current # 0 /\ Kind(p) # "registered" THEN "have" ELSE "ensure"
        /\ h' = [h EXCEPT ![p].pc = t, ![p].obj = current, ![p].base = current]
  BY DEF Fetch
<1>2. t \in Pcs /\ current \in Nat
  BY <1>0 DEF Pcs, SessionTypes
<1>3. Step(p) /\ h'[p].pc = t /\ h'[p].obj = current /\ h'[p].base = current
      /\ h'[p].ev = h[p].ev
  <2>1. h \in [Procs -> Calls] /\ p \in Procs
    BY <1>0 DEF SessionTypes, MayStep
  <2>2. h' = [h EXCEPT ![p].pc = t, ![p].obj = current, ![p].base = current]
    BY <1>1
  <2> QED
    BY <1>2, <2>1, <2>2, OtherMoves
<1>4. Stepping(p)
  BY <1>3 DEF Stepping, MayStep, Fetch, AgentRests, agent, link
<1>5. UNCHANGED <<queue, objs, current, db, approval, told, log, script>>
  BY DEF Fetch, agent, store
<1>6. t = "ensure" /\ Ask # {} => current = 0
  <2>1. h[p].ev \in DOMAIN script
    BY <1>0, BridgeAssumption DEF Holds, SessionTypes
  <2>2. Ask # {} => \E i \in DOMAIN script : script[i].kind = "ask"
    BY <1>0, BridgeAssumption DEF Ask, SessionTypes
  <2> QED
    BY <1>0, <1>1, <2>1, <2>2 DEF AsksApart, Kind, SessionTypes
<1>7. Holds(p)'
  BY <1>0, <1>1, <1>3, <1>5, <1>6 DEF Holds, Ask
<1>8. Synced'
  BY <1>0, <1>4, <1>5, SyncedStays
<1>9. Asked'
  <2>1. ASSUME NEW k \in AllAsks, [ask |-> k] = p PROVE AskedOf(k)'
    BY <1>0, <1>3, <1>5, <2>1 DEF Asked, AskedOf, Owes
  <2> QED
    BY <1>0, <1>4, <1>5, <2>1, HandlerAsked
<1>10. TurnsEnd'
  <2>1. ASSUME p # Main, Ended PROVE SaysSo'
    <3>1. \A k \in AllAsks : [ask |-> k] = p => ~Owes(k)
      BY <1>0 DEF Owes
    <3> QED
      BY <1>0, <1>3, <1>4, <1>5, <2>1, <3>1, EndStays DEF TurnsEnd, Settles
  <2> QED
    BY <1>0, <1>3, <1>4, <1>5, <2>1, HandlerEnds
<1> QED
  BY <1>0, <1>4, <1>5, <1>7, <1>8, <1>9, <1>10, HandlerStep DEF SessionTypes

\* A session object is made, and is the current one.
LEMMA EnsureStep ==
  ASSUME ~Overlap, AsksApart, Undisturbed, NEW p, MayStep(p), Ensure(p)
  PROVE  Undisturbed'
<1>0. SessionTypes /\ Holds(p) /\ h[p].pc = "ensure" /\ TurnsEnd /\ Asked /\ Synced
  BY DEF Undisturbed, AllHold, MayStep, Ensure
<1>1. h[p].base = current /\ (Ask # {} => current = 0)
  BY <1>0 DEF Holds
<1>2. PICK n \in Nat : n = Len(objs)
  BY <1>0 DEF SessionTypes
<1>3. "have" \in Pcs /\ n + 1 \in Nat
  BY DEF Pcs
<1>4. h' = [h EXCEPT ![p].pc = "have", ![p].obj = n + 1] /\ current' = n + 1
  BY <1>2 DEF Ensure
<1>5. Step(p) /\ h'[p].pc = "have" /\ h'[p].obj = n + 1 /\ h'[p].ev = h[p].ev
  BY <1>0, <1>3, <1>4, OtherMoves DEF SessionTypes, MayStep
<1>6. Stepping(p)
  BY <1>5 DEF Stepping, MayStep, Ensure, AgentRests, agent, link
<1>7. UNCHANGED <<queue, approval, told, log, script>>
  BY DEF Ensure, agent
<1>8. PICK s \in Sessions :
        /\ objs' = Append(objs, s)
        /\ IF current = 0 THEN s.state = "null" ELSE s = objs[current]
  <2>1. CASE current = 0
    <3>1. [state |-> "null", turnOpen |-> FALSE, settled |-> "idle"] \in Sessions
      BY DEF Sessions
    <3> QED
      BY <1>1, <2>1, <3>1 DEF Ensure
  <2>2. CASE current # 0
    BY <1>0, <1>1, <2>2 DEF Ensure, SessionTypes
  <2> QED
    BY <2>1, <2>2
<1>9. objs' \in Seq(Sessions) /\ Len(objs') = n + 1 /\ objs'[n + 1] = s
  BY <1>0, <1>2, <1>8 DEF SessionTypes
<1>10. db' = IF db = "absent" THEN "starting" ELSE db
  BY DEF Ensure
<1>11. Synced'
  <2>1. \A q \in Procs : h[q].pc # "note"
    BY <1>0, <1>6, OthersCalm DEF Calm
  <2>2. current = 0 => db' = "starting" /\ s.state = "null"
    BY <1>0, <1>8, <1>10 DEF Synced
  <2>3. current # 0 => /\ s.state = db \/ (s.state = "null" /\ db = "starting")
                       /\ s.state \in Values \cup {"null"}
    BY <1>0, <1>8, <2>1 DEF Synced, Sessions
  <2>4. current # 0 => db' = db
    BY <1>10, <2>3 DEF Values
  <2>5. objs'[current'].state = db' \/ (objs'[current'].state = "null" /\ db' = "starting")
    BY <1>4, <1>9, <2>2, <2>3, <2>4
  <2> QED
    BY <1>2, <1>4, <2>5 DEF Synced
<1>12. Holds(p)'
  BY <1>0, <1>2, <1>4, <1>5, <1>7 DEF Holds
<1>13. Asked'
  <2>1. ASSUME NEW k \in AllAsks, [ask |-> k] = p PROVE AskedOf(k)'
    BY <1>0, <1>5, <1>7, <2>1 DEF Asked, AskedOf, Owes
  <2> QED
    BY <1>0, <1>6, <1>7, <2>1, HandlerAsked
<1>14. TurnsEnd'
  <2>1. p # Main => Ask # {}
    BY DEF MayStep
  <2>2. p # Main => ~Ended
    BY <1>0, <1>1, <2>1 DEF TurnsEnd, SaysSo
  <2> QED
    BY <1>0, <1>5, <1>6, <1>7, <2>2, HandlerEnds
<1>15. current' \in 0 .. Len(objs') /\ db' \in Values \cup {"absent", "starting"}
  BY <1>0, <1>4, <1>9, <1>10 DEF SessionTypes
<1> QED
  BY <1>0, <1>1, <1>6, <1>7, <1>9, <1>11, <1>12, <1>13, <1>14, <1>15, HandlerStep
     DEF SessionTypes

\* settleState(): what is pending, and then the state to settle on.
LEMMA CountStep ==
  ASSUME ~Overlap, AsksApart, Undisturbed, NEW p, MayStep(p), HasPendingApproval(p)
  PROVE  Undisturbed'
<1>0. SessionTypes /\ Holds(p) /\ h[p].pc = "count" /\ TurnsEnd /\ Asked /\ SentOnce
      /\ h \in [Procs -> Calls] /\ p \in Procs
  BY DEF Undisturbed, AllHold, MayStep, HasPendingApproval, SessionTypes
<1>1. UNCHANGED <<queue, objs, current, db, approval, told, log, script>>
  BY DEF HasPendingApproval, agent, store
<1>2. h[p].then \in {"idle", "reply"} /\ (h[p].then = "idle" <=> ~IsAsk(p))
      /\ current # 0 /\ h[p].obj = current
  BY <1>0 DEF Holds
<1>3. \A k \in AllAsks : [ask |-> k] = p => ~Owes(k)
  BY <1>0 DEF Owes
<1>4. /\ Step(p)
      /\ \/ (\E k \in Ask : approval[k] = "pending") /\ h'[p].pc = h[p].then
            /\ (h[p].then # "idle" => SameCall(p))
         \/ /\ (\E k \in Ask : approval[k] = "pending") /\ h'[p].pc = "write"
            /\ h'[p].val = "waiting_approval" /\ h'[p].then = h[p].then
            /\ h'[p].ev = h[p].ev /\ h'[p].obj = h[p].obj
         \/ h'[p].pc = "settle" /\ SameCall(p)
  <2>1. CASE \E k \in Ask : approval[k] = "pending"
    <3>1. Apply(p, objs[h[p].obj], "waiting_approval", h[p].then)
      BY <2>1 DEF HasPendingApproval
    <3> QED
      BY <1>0, <1>2, <2>1, <3>1, ApplyMoves DEF Values
  <2>2. CASE ~\E k \in Ask : approval[k] = "pending"
    <3>1. Go(p, "settle") /\ "settle" \in Pcs
      BY <2>2 DEF HasPendingApproval, Pcs
    <3> QED
      BY <1>0, <3>1, GoMoves
  <2> QED
    BY <2>1, <2>2
<1>5. Stepping(p)
  BY <1>4 DEF Stepping, MayStep, HasPendingApproval, AgentRests, agent, link
<1>6. (\E k \in Ask : approval[k] = "pending") => Waits'
  <2>1. Ask \subseteq AllAsks
    BY <1>0, AsksAre DEF SessionTypes
  <2>2. (\E k \in Ask : approval[k] = "pending") => Waits
    BY <1>0, <2>1 DEF Asked, AskedOf, Waits
  <2> QED
    BY <1>3, <1>5, <2>2, OthersOwe
<1>7. Holds(p)'
  BY <1>0, <1>1, <1>2, <1>4 DEF Holds, SameCall
<1>8. Synced'
  BY <1>0, <1>1, <1>5, SyncedStays
<1>9. Asked'
  <2>1. ASSUME NEW k \in AllAsks, [ask |-> k] = p PROVE AskedOf(k)'
    <3>1. AskedOf(k) /\ ~Owes(k) /\ IsAsk(p)
      BY <1>0, <1>3, <2>1, ProcsAre DEF Asked
    <3>2. ~Owes(k)' /\ h'[[ask |-> k]].pc \in {"reply", "write", "settle"}
      BY <1>2, <1>4, <2>1, <3>1 DEF Owes, SameCall
    <3> QED
      BY <1>1, <3>1, <3>2 DEF AskedOf
  <2> QED
    BY <1>0, <1>1, <1>5, <2>1, HandlerAsked
<1>10. TurnsEnd'
  <2>1. ASSUME Ended PROVE SaysSo'
    <3>1. current # 0 /\ ~objs[current].turnOpen /\ objs[current].settled = Outcome
      BY <1>0, <2>1 DEF TurnsEnd, SaysSo
    <3>2. h'[p].pc \in {"write", "note"} => Waits'
      BY <1>2, <1>4, <1>6
    <3>3. ~Settles(p)' => Waits'
      BY <1>4, <1>6 DEF Settles
    <3> QED
      BY <1>1, <1>5, <3>1, <3>2, <3>3, HandlerSays
  <2>2. h'[p].pc # "idle" => h'[p].ev = h[p].ev
    BY <1>4 DEF SameCall
  <2>3. LastEnds /\ p = Main => Ended
    BY <1>0 DEF Ended
  <2>4. h'[p].pc # "line"
    BY <1>2, <1>4
  <2> QED
    BY <1>0, <1>1, <1>5, <2>1, <2>2, <2>3, <2>4, HandlerEnds
<1> QED
  BY <1>0, <1>1, <1>5, <1>7, <1>8, <1>9, <1>10, HandlerStep DEF SessionTypes

\* The state settled on is that of the turn that ended.
LEMMA SettleStep ==
  ASSUME ~Overlap, AsksApart, Undisturbed, NEW p, MayStep(p), Settle(p)
  PROVE  Undisturbed'
<1>0. SessionTypes /\ Holds(p) /\ h[p].pc = "settle" /\ TurnsEnd /\ Asked /\ Synced
      /\ h \in [Procs -> Calls] /\ p \in Procs
  BY DEF Undisturbed, AllHold, MayStep, Settle, SessionTypes
<1>1. UNCHANGED <<queue, objs, current, db, approval, told, log, script>>
  BY DEF Settle, agent, store
<1>2. h[p].then \in {"idle", "reply"} /\ (h[p].then = "idle" <=> ~IsAsk(p))
      /\ current # 0 /\ h[p].obj = current
  BY <1>0 DEF Holds
<1>3. \A k \in AllAsks : [ask |-> k] = p => ~Owes(k)
  BY <1>0 DEF Owes
<1>4. PICK v \in Values :
        /\ v = IF objs[current].turnOpen THEN "running" ELSE objs[current].settled
        /\ Apply(p, objs[current], v, h[p].then)
  <2>1. objs[current] \in Sessions
    BY <1>0, <1>2 DEF SessionTypes
  <2>2. (IF objs[current].turnOpen THEN "running" ELSE objs[current].settled) \in Values
    BY <2>1 DEF Sessions, Values
  <2> QED
    BY <1>2, <2>2 DEF Settle
<1>5. /\ Step(p)
      /\ \/ objs[current].state = v /\ h'[p].pc = h[p].then
            /\ (h[p].then # "idle" => SameCall(p))
         \/ /\ h'[p].pc = "write" /\ h'[p].val = v /\ h'[p].then = h[p].then
            /\ h'[p].ev = h[p].ev /\ h'[p].obj = h[p].obj
  BY <1>0, <1>2, <1>4, ApplyMoves
<1>6. Stepping(p)
  BY <1>5 DEF Stepping, MayStep, Settle, AgentRests, agent, link
<1>7. Holds(p)'
  BY <1>0, <1>1, <1>2, <1>5 DEF Holds, SameCall
<1>8. Synced'
  BY <1>0, <1>1, <1>6, SyncedStays
<1>9. Asked'
  <2>1. ASSUME NEW k \in AllAsks, [ask |-> k] = p PROVE AskedOf(k)'
    <3>1. AskedOf(k) /\ ~Owes(k) /\ IsAsk(p)
      BY <1>0, <1>3, <2>1, ProcsAre DEF Asked
    <3>2. ~Owes(k)' /\ h'[[ask |-> k]].pc \in {"reply", "write"}
      BY <1>2, <1>5, <2>1, <3>1 DEF Owes, SameCall
    <3> QED
      BY <1>1, <3>1, <3>2 DEF AskedOf
  <2> QED
    BY <1>0, <1>1, <1>6, <2>1, HandlerAsked
<1>10. TurnsEnd'
  <2>1. ASSUME Ended PROVE SaysSo'
    <3>1. current # 0 /\ ~objs[current].turnOpen /\ objs[current].settled = Outcome
      BY <1>0, <2>1 DEF TurnsEnd, SaysSo
    <3>2. v = Outcome /\ v # "null"
      BY <1>4, <3>1 DEF Values
    <3>3. h'[p].pc \in {"write", "note"} => h'[p].val = Outcome
      BY <1>2, <1>5, <3>2
    <3>4. \A q \in Procs : h[q].pc # "note"
      BY <1>0, <1>6, OthersCalm DEF Calm
    <3>5. objs[current].state = v => db = Outcome
      BY <1>0, <3>1, <3>2, <3>4 DEF Synced
    <3>6. ~Settles(p)' => objs[current].state = v
      BY <1>2, <1>5 DEF Settles
    <3> QED
      BY <1>1, <1>6, <3>1, <3>3, <3>5, <3>6, HandlerSays
  <2>2. h'[p].pc # "idle" => h'[p].ev = h[p].ev
    BY <1>5 DEF SameCall
  <2>3. LastEnds /\ p = Main => Ended
    BY <1>0 DEF Ended
  <2>4. h'[p].pc # "line"
    BY <1>2, <1>5
  <2> QED
    BY <1>0, <1>1, <1>6, <2>1, <2>2, <2>3, <2>4, HandlerEnds
<1> QED
  BY <1>0, <1>1, <1>6, <1>7, <1>8, <1>9, <1>10, HandlerStep DEF SessionTypes

\* The row is written.
LEMMA WriteStep ==
  ASSUME ~Overlap, AsksApart, Undisturbed, NEW p, MayStep(p), SetSessionState(p)
  PROVE  Undisturbed'
<1>0. SessionTypes /\ Holds(p) /\ h[p].pc = "write" /\ TurnsEnd /\ Asked /\ Synced
      /\ h \in [Procs -> Calls] /\ p \in Procs /\ h[p].val \in Values
  BY DEF Undisturbed, AllHold, MayStep, SetSessionState, SessionTypes, Calls
<1>1. UNCHANGED <<queue, objs, current, approval, told, log, script>> /\ db' = h[p].val
  BY DEF SetSessionState, agent
<1>2. Step(p) /\ h'[p].pc = "note" /\ SameCall(p)
  <2>1. Go(p, "note") /\ "note" \in Pcs
    BY DEF SetSessionState, Pcs
  <2> QED
    BY <1>0, <2>1, GoMoves
<1>3. Stepping(p)
  BY <1>2 DEF Stepping, MayStep, SetSessionState, AgentRests, agent, link
<1>4. Holds(p)'
  BY <1>0, <1>1, <1>2 DEF Holds, SameCall
<1>5. Synced'
  BY <1>0, <1>1, <1>2 DEF Synced, Holds
<1>6. \A k \in AllAsks : [ask |-> k] = p => Owes(k)' = Owes(k)
  BY <1>0, <1>2 DEF Owes, SameCall
<1>7. Asked'
  <2>1. ASSUME NEW k \in AllAsks, [ask |-> k] = p PROVE AskedOf(k)'
    BY <1>0, <1>1, <1>2, <1>6, <2>1 DEF Asked, AskedOf
  <2> QED
    BY <1>0, <1>1, <1>3, <2>1, HandlerAsked
<1>8. TurnsEnd'
  <2>1. ASSUME Ended PROVE SaysSo'
    <3>1. /\ current # 0 /\ ~objs[current].turnOpen /\ objs[current].settled = Outcome
          /\ h[p].val = Outcome \/ Waits
      BY <1>0, <2>1 DEF TurnsEnd, SaysSo
    <3>2. h[p].val = Outcome \/ Waits'
      BY <1>3, <1>6, <3>1, OthersOwe
    <3> QED
      BY <1>1, <1>2, <1>3, <3>1, <3>2, HandlerSays DEF SameCall
  <2>2. h'[p].ev = h[p].ev
    BY <1>2 DEF SameCall
  <2>3. LastEnds /\ p = Main => Ended
    BY <1>0 DEF Ended
  <2> QED
    BY <1>0, <1>1, <1>2, <1>3, <2>1, <2>2, <2>3, HandlerEnds
<1> QED
  BY <1>0, <1>1, <1>3, <1>4, <1>5, <1>7, <1>8, HandlerStep DEF SessionTypes

\* The object says so too.
LEMMA NoteStep ==
  ASSUME ~Overlap, AsksApart, Undisturbed, NEW p, MayStep(p), NoteState(p)
  PROVE  Undisturbed'
<1>0. SessionTypes /\ Holds(p) /\ h[p].pc = "note" /\ TurnsEnd /\ Asked /\ Synced
      /\ h \in [Procs -> Calls] /\ p \in Procs /\ h[p].val \in Values
      /\ h[p].then \in {"idle", "subscribe", "reply"}
  BY DEF Undisturbed, AllHold, MayStep, NoteState, SessionTypes, Calls
<1>1. UNCHANGED <<queue, current, db, approval, told, log, script>>
  BY DEF NoteState, agent, store
<1>2. Step(p) /\ h'[p].pc = h[p].then /\ (h[p].then # "idle" => SameCall(p))
  <2>1. Go(p, h[p].then) /\ h[p].then \in Pcs /\ h[p].then # "done"
    BY <1>0 DEF NoteState, Pcs
  <2> QED
    BY <1>0, <2>1, GoMoves
<1>3. Stepping(p)
  BY <1>2 DEF Stepping, MayStep, NoteState, AgentRests, agent, link
<1>4. h[p].obj = current /\ current # 0 /\ db = h[p].val
      /\ (IsAsk(p) => h[p].then # "idle") /\ (~IsAsk(p) => h[p].then = "idle")
  BY <1>0 DEF Holds
<1>5. /\ objs' \in Seq(Sessions) /\ Len(objs') = Len(objs)
      /\ objs'[current].state = h[p].val
      /\ objs'[current].turnOpen = objs[current].turnOpen
      /\ objs'[current].settled = objs[current].settled
  <2>1. current \in 1 .. Len(objs) /\ objs \in Seq(Sessions)
    BY <1>0, <1>4 DEF SessionTypes
  <2>2. objs' = [objs EXCEPT ![current].state = h[p].val]
    BY <1>4 DEF NoteState
  <2> QED
    BY <1>0, <2>1, <2>2, ObjectMoves
<1>6. Holds(p)'
  BY <1>0, <1>1, <1>2, <1>4 DEF Holds, SameCall
<1>7. Synced'
  BY <1>1, <1>4, <1>5 DEF Synced
<1>8. \A k \in AllAsks : [ask |-> k] = p => Owes(k)' = Owes(k)
  BY <1>0, <1>2, <1>4, ProcsAre DEF Owes, SameCall
<1>9. Asked'
  <2>1. ASSUME NEW k \in AllAsks, [ask |-> k] = p PROVE AskedOf(k)'
    <3>1. AskedOf(k) /\ Owes(k)' = Owes(k) /\ IsAsk(p)
      BY <1>0, <1>8, <2>1, ProcsAre DEF Asked
    <3>2. h'[[ask |-> k]].pc \in {"subscribe", "reply"}
      BY <1>0, <1>2, <1>4, <2>1, <3>1
    <3> QED
      BY <1>1, <3>1, <3>2 DEF AskedOf
  <2> QED
    BY <1>0, <1>1, <1>3, <2>1, HandlerAsked
<1>10. TurnsEnd'
  <2>1. ASSUME Ended PROVE SaysSo'
    <3>1. /\ current # 0 /\ ~objs[current].turnOpen /\ objs[current].settled = Outcome
          /\ h[p].val = Outcome \/ Waits
      BY <1>0, <2>1 DEF TurnsEnd, SaysSo
    <3>2. h[p].val = Outcome \/ Waits'
      BY <1>3, <1>8, <3>1, OthersOwe
    <3>3. h'[p].pc \notin {"write", "note"}
      BY <1>0, <1>2
    <3> QED
      BY <1>1, <1>3, <1>4, <1>5, <3>1, <3>2, <3>3, HandlerSays
  <2>2. h'[p].pc # "idle" => h'[p].ev = h[p].ev
    BY <1>2 DEF SameCall
  <2>3. LastEnds /\ p = Main => Ended
    BY <1>0 DEF Ended
  <2>4. h'[p].pc # "line"
    BY <1>0, <1>2
  <2> QED
    BY <1>0, <1>1, <1>3, <2>1, <2>2, <2>3, <2>4, HandlerEnds
<1>11. current' \in 0 .. Len(objs')
  BY <1>0, <1>1, <1>5 DEF SessionTypes
<1> QED
  BY <1>0, <1>1, <1>3, <1>5, <1>6, <1>7, <1>9, <1>10, <1>11, HandlerStep DEF SessionTypes

-----------------------------------------------------------------------------
(* The queue's own steps.                                                  *)

\* An event that does not end a turn: the last turn has not ended.
LEMMA TurnGoesOn ==
  ASSUME TurnsEnd, h[Main].pc # "idle"
  PROVE  LastEnds <=> Kind(Main) \in {"ok", "failed"}
<1>1. PICK n \in Nat : n = Len(log) /\ n > 0 /\ h[Main].ev = log[n]
  BY DEF TurnsEnd
<1> QED
  BY <1>1 DEF LastEnds, IsEnd, Kind

\* Registered, started and item: the session may be put to work, and no more.
LEMMA MainGoesOn ==
  ASSUME ~Overlap, Undisturbed, MayStep(Main), Step(Main), AgentRests,
         h[Main].pc = "have", Kind(Main) \notin {"ok", "failed"},
         h'[Main].pc \in {"idle", "write"},
         h'[Main].pc = "write" => h'[Main].ev = h[Main].ev /\ h'[Main].obj = h[Main].obj
                                  /\ h'[Main].then = "idle",
         objs' \in Seq(Sessions), Len(objs') = Len(objs),
         objs'[current].state = objs[current].state,
         UNCHANGED <<queue, current, db, approval, told, log>>
  PROVE  Undisturbed'
<1>0. SessionTypes /\ Holds(Main) /\ TurnsEnd /\ Asked /\ ~IsAsk(Main)
  BY ProcsAre DEF Undisturbed, AllHold
<1>1. Stepping(Main)
  BY DEF Stepping, MayStep
<1>2. Holds(Main)'
  BY <1>0 DEF Holds, AgentRests
<1>3. Synced'
  BY <1>1, SyncedStays
<1>4. Asked'
  BY <1>0, <1>1, HandlerAsked, ProcsAre
<1>5. TurnsEnd'
  BY <1>0, <1>1, TurnGoesOn, HandlerEnds
<1>6. current' \in 0 .. Len(objs')
  BY <1>0 DEF SessionTypes
<1> QED
  BY <1>0, <1>1, <1>2, <1>3, <1>4, <1>5, <1>6, HandlerStep DEF SessionTypes

\* The next notification is taken up.
LEMMA TakeStep ==
  ASSUME ~Overlap, Undisturbed, MayStep(Main), Take(1)
  PROVE  Undisturbed'
<1>0. SessionTypes /\ Holds(Main) /\ TurnsEnd /\ Asked /\ ~IsAsk(Main) /\ Main \in Procs
      /\ h \in [Procs -> Calls]
  BY ProcsAre DEF Undisturbed, AllHold, SessionTypes
<1>1. 1 \in Conns /\ h[Main].pc = "idle"
  BY BridgeAssumption DEF Conns, Take, Main
<1>2. PICK m \in 1 .. Len(script) :
        /\ m = Head(queue[1])
        /\ log' = Append(log, m) /\ queue' = [queue EXCEPT ![1] = Tail(queue[1])]
        /\ h' = [h EXCEPT ![Main] = [Idle EXCEPT !.pc = "fetch", !.ev = m, !.conn = 1]]
        /\ Tail(queue[1]) \in Seq(1 .. Len(script))
  <2>1. queue[1] \in Seq(1 .. Len(script)) /\ queue[1] # <<>>
    BY <1>0, <1>1 DEF SessionTypes, Take
  <2>2. Head(queue[1]) \in 1 .. Len(script) /\ Tail(queue[1]) \in Seq(1 .. Len(script))
    BY <2>1, HeadTailProperties
  <2> QED
    BY <2>2 DEF Take, Main
<1>3. Step(Main) /\ h'[Main].pc = "fetch" /\ h'[Main].ev = m
  <2>1. m \in Nat /\ 1 \in Nat
    BY <1>0 DEF SessionTypes
  <2> QED
    BY ZenonT(60), <1>0, <1>2, <2>1, OtherMoves
<1>4. UNCHANGED <<agent, link, objs, current, store>>
  BY DEF Take
<1>5. queue' \in [Conns -> Seq(1 .. Len(script))] /\ \A c \in Conns : c # 1 => queue'[c] = queue[c]
  BY <1>0, <1>1, <1>2 DEF SessionTypes
<1>6. Stepping(Main)
  BY <1>3, <1>4, <1>5 DEF Stepping, MayStep, AgentRests, agent, link
<1>7. Holds(Main)'
  BY <1>0, <1>3, <1>4 DEF Holds, agent
<1>8. UNCHANGED <<objs, current, db, approval, told, script>>
  BY <1>4 DEF store, agent
<1>9. Synced'
  BY <1>1, <1>6, <1>8, SyncedStays
<1>10. Asked'
  BY <1>0, <1>6, <1>8, HandlerAsked, ProcsAre
<1>11. log' \in Seq(1 .. Len(script)) /\ Len(log') > 0 /\ m = log'[Len(log')]
  BY <1>0, <1>2 DEF SessionTypes
<1>12. TurnsEnd'
  BY <1>3, <1>11 DEF TurnsEnd, Ended
<1> QED
  BY <1>0, <1>5, <1>6, <1>7, <1>8, <1>9, <1>10, <1>11, <1>12, HandlerStep DEF SessionTypes

\* The steps of the events that do not end a turn.
LEMMA WorkSteps ==
  ASSUME ~Overlap, Undisturbed, MayStep(Main),
         SessionRegistered(Main) \/ Started(Main) \/ Item(Main)
  PROVE  Undisturbed'
<1>0. SessionTypes /\ Holds(Main) /\ ~IsAsk(Main) /\ Main \in Procs /\ h \in [Procs -> Calls]
      /\ h[Main].pc = "have" /\ Kind(Main) \in {"registered", "started", "item"}
  BY ProcsAre DEF Undisturbed, AllHold, SessionTypes, SessionRegistered, Started, Item
<1>1. h[Main].obj = current /\ current \in 1 .. Len(objs) /\ objs \in Seq(Sessions)
  BY <1>0 DEF Holds, SessionTypes
<1>2. AgentRests /\ UNCHANGED <<queue, current, db, approval, told, log>>
  BY DEF SessionRegistered, Started, Item, AgentRests, agent, link, store
<1>3. /\ Step(Main) /\ h'[Main].pc \in {"idle", "write"}
      /\ h'[Main].pc = "write" => h'[Main].ev = h[Main].ev /\ h'[Main].obj = h[Main].obj
                                  /\ h'[Main].then = "idle"
  <2>1. CASE Item(Main)
    BY <1>0, <2>1, GoMoves DEF Item, Pcs
  <2>2. CASE SessionRegistered(Main) \/ Started(Main)
    <3>1. Apply(Main, objs[h[Main].obj], "running", "idle")
      BY <2>2 DEF SessionRegistered, Started
    <3> QED
      BY <1>0, <3>1, ApplyMoves DEF Values
  <2> QED
    BY <2>1, <2>2
<1>4. objs' \in Seq(Sessions) /\ Len(objs') = Len(objs)
      /\ objs'[current].state = objs[current].state
  <2>1. CASE Started(Main)
    <3>1. objs' = [objs EXCEPT ![current].turnOpen = TRUE]
      BY <1>1, <2>1 DEF Started
    <3> QED
      BY <1>1, <3>1, ObjectMoves
  <2>2. CASE SessionRegistered(Main) \/ Item(Main)
    BY <1>1, <2>2 DEF SessionRegistered, Item
  <2> QED
    BY <2>1, <2>2
<1> QED
  BY <1>0, <1>2, <1>3, <1>4, MainGoesOn

\* The line of a turn that ends, and then what the turn came to.
LEMMA LineStep ==
  ASSUME ~Overlap, Undisturbed, MayStep(Main), CompletedLine(Main)
  PROVE  Undisturbed'
<1>0. SessionTypes /\ Holds(Main) /\ ~IsAsk(Main) /\ Main \in Procs /\ h \in [Procs -> Calls]
      /\ h[Main].pc = "have" /\ Kind(Main) \in {"ok", "failed"} /\ TurnsEnd /\ Asked
  BY ProcsAre DEF Undisturbed, AllHold, SessionTypes, CompletedLine
<1>1. UNCHANGED <<queue, objs, current, db, approval, told, log, script>>
  BY DEF CompletedLine, agent
<1>2. Step(Main) /\ h'[Main].pc = "line" /\ SameCall(Main)
  <2>1. Go(Main, "line") /\ "line" \in Pcs
    BY DEF CompletedLine, Pcs
  <2> QED
    BY <1>0, <2>1, GoMoves
<1>3. Stepping(Main)
  BY <1>2 DEF Stepping, MayStep, CompletedLine, AgentRests, agent, link
<1>4. Holds(Main)'
  BY <1>0, <1>1, <1>2 DEF Holds, SameCall
<1>5. Synced'
  BY <1>0, <1>1, <1>3, SyncedStays
<1>6. Asked'
  BY <1>0, <1>1, <1>3, HandlerAsked, ProcsAre
<1>7. TurnsEnd'
  <2>1. LastEnds /\ h'[Main].ev = h[Main].ev
    BY <1>0, <1>2, TurnGoesOn DEF SameCall
  <2> QED
    BY <1>0, <1>1, <1>2, <1>3, <2>1, HandlerEnds
<1> QED
  BY <1>0, <1>1, <1>3, <1>4, <1>5, <1>6, <1>7, HandlerStep DEF SessionTypes

LEMMA CompletedStep ==
  ASSUME ~Overlap, Undisturbed, MayStep(Main), Completed(Main)
  PROVE  Undisturbed'
<1>0. SessionTypes /\ Holds(Main) /\ ~IsAsk(Main) /\ Main \in Procs /\ h \in [Procs -> Calls]
      /\ h[Main].pc = "line" /\ TurnsEnd /\ Asked
  BY ProcsAre DEF Undisturbed, AllHold, SessionTypes, Completed
<1>1. UNCHANGED <<queue, current, db, approval, told, log, script>>
  BY DEF Completed, agent, store
<1>2. /\ Step(Main) /\ h'[Main].pc = "count" /\ h'[Main].then = "idle"
      /\ h'[Main].ev = h[Main].ev /\ h'[Main].obj = h[Main].obj
  <2>1. "count" \in Pcs /\ h' = [h EXCEPT ![Main].pc = "count", ![Main].then = "idle"]
    BY DEF Completed, Pcs
  <2> QED
    BY <1>0, <2>1, OtherMoves
<1>3. Stepping(Main)
  BY <1>2 DEF Stepping, MayStep, Completed, AgentRests, agent, link
<1>4. h[Main].obj = current /\ current \in 1 .. Len(objs) /\ objs \in Seq(Sessions)
  BY <1>0 DEF Holds, SessionTypes
<1>5. PICK v \in {"idle", "failed"} :
        /\ v = IF Kind(Main) = "ok" THEN "idle" ELSE "failed"
        /\ objs' = [objs EXCEPT ![current].turnOpen = FALSE, ![current].settled = v]
  BY <1>4 DEF Completed
<1>6. /\ objs' \in Seq(Sessions) /\ Len(objs') = Len(objs)
      /\ objs'[current].state = objs[current].state
      /\ ~objs'[current].turnOpen /\ objs'[current].settled = v
  <2>1. objs' = [objs EXCEPT ![current].turnOpen = FALSE, ![current].settled = v]
    BY <1>5
  <2> QED
    BY <1>4, <2>1, ObjectMoves
<1>7. Holds(Main)'
  BY <1>0, <1>1, <1>2 DEF Holds
<1>8. Synced'
  BY <1>0, <1>1, <1>3, <1>6, SyncedStays
<1>9. Asked'
  BY <1>0, <1>1, <1>3, HandlerAsked, ProcsAre
<1>10. TurnsEnd'
  <2>1. v = Outcome
    <3>1. PICK n \in Nat : n = Len(log) /\ h[Main].ev = log[n]
      BY <1>0 DEF TurnsEnd
    <3> QED
      BY <1>5, <3>1 DEF Outcome, Kind
  <2>2. SaysSo'
    BY <1>1, <1>2, <1>3, <1>4, <1>6, <2>1, HandlerSays DEF Settles
  <2> QED
    BY <1>0, <1>1, <1>2, <1>3, <2>2, HandlerEnds
<1>11. current' \in 0 .. Len(objs')
  BY <1>0, <1>1, <1>6 DEF SessionTypes
<1> QED
  BY <1>0, <1>1, <1>3, <1>6, <1>7, <1>8, <1>9, <1>10, <1>11, HandlerStep DEF SessionTypes

-----------------------------------------------------------------------------
(* The steps of an approval.                                               *)

\* What is to be shown of a step of an ask that leaves objects and row alone.
LEMMA AskStep ==
  ASSUME ~Overlap, Undisturbed, NEW k \in Ask, MayStep([ask |-> k]), Step([ask |-> k]), AgentRests,
         h[[ask |-> k]].pc \notin {"idle", "note"},
         UNCHANGED <<queue, objs, current, db, log, told>>,
         approval' \in [AllAsks -> {"absent", "pending", "decided"}],
         \A l \in AllAsks : l # k => approval'[l] = approval[l],
         Holds([ask |-> k])', AskedOf(k)', Ended => SaysSo'
  PROVE  Undisturbed'
<1>0. SessionTypes /\ TurnsEnd /\ Asked /\ k \in AllAsks
  BY AsksAre DEF Undisturbed, SessionTypes
<1>1. Stepping([ask |-> k]) /\ [ask |-> k] # Main
  BY <1>0, ProcsAre DEF Stepping, MayStep
<1>2. Synced'
  BY <1>1, SyncedStays
<1>3. Asked'
  <2>1. SUFFICES ASSUME NEW l \in AllAsks, l # k PROVE AskedOf(l)'
    BY DEF Asked
  <2>2. [ask |-> l] # [ask |-> k]
    BY <2>1, ProcsAre
  <2>3. h'[[ask |-> l]] = h[[ask |-> l]] /\ Owes(l)' = Owes(l)
    BY <1>1, <2>2, ProcsAre, OthersOwe DEF Stepping, Step
  <2>4. AskedOf(l) /\ approval'[l] = approval[l]
    BY <1>0, <2>1 DEF Asked
  <2> QED
    BY <2>3, <2>4 DEF AskedOf
<1>4. TurnsEnd'
  <2>1. LastEnds' = LastEnds /\ h'[Main] = h[Main]
    BY <1>1, ProcsAre DEF LastEnds, IsEnd, Stepping, AgentRests, Step
  <2>2. Ended' => SaysSo'
    BY <2>1 DEF Ended
  <2> QED
    BY <1>0, <2>1, <2>2 DEF TurnsEnd
<1> QED
  BY <1>0, <1>1, <1>2, <1>3, <1>4, HandlerStep DEF SessionTypes

\* While the ask owes a settling, nothing is asked of the row.
LEMMA AskWaits ==
  ASSUME ~Overlap, Undisturbed, NEW k \in Ask, MayStep([ask |-> k]), Step([ask |-> k]), AgentRests,
         UNCHANGED <<objs, current, log>>, Owes(k)', Ended
  PROVE  SaysSo'
<1>0. SessionTypes /\ TurnsEnd /\ k \in AllAsks
  BY AsksAre DEF Undisturbed, SessionTypes
<1>1. Stepping([ask |-> k]) /\ Waits'
  BY <1>0 DEF Stepping, MayStep, Waits
<1>2. current # 0 /\ ~objs[current].turnOpen /\ objs[current].settled = Outcome
  BY <1>0 DEF TurnsEnd, SaysSo
<1> QED
  BY <1>1, <1>2, HandlerSays

LEMMA ProposeStep ==
  ASSUME ~Overlap, Undisturbed, NEW k \in Ask, MayStep([ask |-> k]), Propose(k)
  PROVE  Undisturbed'
<1> DEFINE p == [ask |-> k]
<1>0. SessionTypes /\ Asked /\ k \in AllAsks /\ IsAsk(p) /\ p \in Procs /\ Holds(p)
      /\ h \in [Procs -> Calls] /\ h[p].pc = "have"
  BY AsksAre, ProcsAre DEF Undisturbed, SessionTypes, AllHold, Propose
<1>1. AgentRests /\ UNCHANGED <<queue, objs, current, db, log, told, script>>
      /\ approval' = [approval EXCEPT ![k] = "pending"]
  BY DEF Propose, AgentRests, agent, link
<1>2. Step(p) /\ h'[p].pc = "propose" /\ SameCall(p)
  <2>1. Go(p, "propose") /\ "propose" \in Pcs
    BY DEF Propose, Pcs
  <2> QED
    BY <1>0, <2>1, GoMoves
<1> HIDE DEF p
<1>3. Holds(p)'
  BY <1>0, <1>1, <1>2 DEF Holds, SameCall
<1>4. approval'[k] = "pending" /\ Owes(k)' /\ k \notin told
  BY <1>0, <1>1, <1>2 DEF Owes, p, SessionTypes, Asked, AskedOf
<1>5. AskedOf(k)'
  BY <1>1, <1>2, <1>4 DEF AskedOf, p
<1>6. Ended => SaysSo'
  BY <1>1, <1>2, <1>4, AskWaits DEF p
<1>7. approval' \in [AllAsks -> {"absent", "pending", "decided"}]
      /\ \A l \in AllAsks : l # k => approval'[l] = approval[l]
  BY <1>0, <1>1 DEF SessionTypes
<1> QED
  BY <1>0, <1>1, <1>2, <1>3, <1>5, <1>6, <1>7, AskStep DEF p

LEMMA BlockStep ==
  ASSUME ~Overlap, Undisturbed, NEW k \in Ask, MayStep([ask |-> k]), Block(k)
  PROVE  Undisturbed'
<1> DEFINE p == [ask |-> k]
<1>0. SessionTypes /\ Asked /\ k \in AllAsks /\ IsAsk(p) /\ p \in Procs /\ Holds(p)
      /\ h \in [Procs -> Calls] /\ h[p].pc = "propose"
  BY AsksAre, ProcsAre DEF Undisturbed, SessionTypes, AllHold, Block
<1>1. AgentRests /\ UNCHANGED <<queue, objs, current, db, log, told, script, approval>>
  BY DEF Block, AgentRests, agent, link, store
<1>2. /\ Step(p)
      /\ \/ h'[p].pc = "subscribe" /\ SameCall(p)
         \/ /\ h'[p].pc = "write" /\ h'[p].then = "subscribe"
            /\ h'[p].ev = h[p].ev /\ h'[p].obj = h[p].obj
  <2>1. Apply(p, objs[h[p].obj], "waiting_approval", "subscribe")
    BY DEF Block
  <2> QED
    BY <1>0, <2>1, ApplyMoves DEF Values
<1> HIDE DEF p
<1>3. Holds(p)'
  BY <1>0, <1>1, <1>2 DEF Holds, SameCall
<1>4. Owes(k)' /\ Owes(k)
  BY <1>0, <1>2 DEF Owes, p
<1>5. AskedOf(k)'
  BY <1>0, <1>1, <1>2, <1>4 DEF Asked, AskedOf, p
<1>6. Ended => SaysSo'
  BY <1>1, <1>2, <1>4, AskWaits DEF p
<1> QED
  BY <1>0, <1>1, <1>2, <1>3, <1>5, <1>6, AskStep DEF p, SessionTypes

LEMMA SubscribeStep ==
  ASSUME ~Overlap, Undisturbed, NEW k \in Ask, MayStep([ask |-> k]), Subscribe(k)
  PROVE  Undisturbed'
<1> DEFINE p == [ask |-> k]
<1>0. SessionTypes /\ Asked /\ k \in AllAsks /\ IsAsk(p) /\ p \in Procs /\ Holds(p)
      /\ h \in [Procs -> Calls] /\ h[p].pc = "subscribe"
  BY AsksAre, ProcsAre DEF Undisturbed, SessionTypes, AllHold, Subscribe
<1>1. AgentRests /\ UNCHANGED <<queue, objs, current, db, log, told, script, approval>>
  BY DEF Subscribe, AgentRests, agent, link, store
<1>2. Step(p) /\ h'[p].pc = "listen" /\ SameCall(p)
  <2>1. Go(p, "listen") /\ "listen" \in Pcs
    BY DEF Subscribe, Pcs
  <2> QED
    BY <1>0, <2>1, GoMoves
<1> HIDE DEF p
<1>3. Holds(p)'
  BY <1>0, <1>1, <1>2 DEF Holds, SameCall
<1>4. Owes(k)' /\ Owes(k)
  BY <1>0, <1>2 DEF Owes, p
<1>5. AskedOf(k)'
  BY <1>0, <1>1, <1>2, <1>4 DEF Asked, AskedOf, p
<1>6. Ended => SaysSo'
  BY <1>1, <1>2, <1>4, AskWaits DEF p
<1> QED
  BY <1>0, <1>1, <1>2, <1>3, <1>5, <1>6, AskStep DEF p, SessionTypes

\* The decision is found in the row or heard, or the ask goes on waiting for it.
LEMMA AnswerSteps ==
  ASSUME ~Overlap, Undisturbed, NEW k \in Ask, MayStep([ask |-> k]),
         ReadDecision(k) \/ Notified(k)
  PROVE  Undisturbed'
<1> DEFINE p == [ask |-> k]
<1>0. SessionTypes /\ Asked /\ k \in AllAsks /\ IsAsk(p) /\ p \in Procs /\ Holds(p)
      /\ h \in [Procs -> Calls] /\ h[p].pc \in {"listen", "wait"}
      /\ approval \in [AllAsks -> {"absent", "pending", "decided"}]
  BY AsksAre, ProcsAre DEF Undisturbed, SessionTypes, AllHold, ReadDecision, Notified
<1>1. AgentRests /\ UNCHANGED <<queue, objs, current, db, log, told, script, approval>>
  BY DEF ReadDecision, Notified, AgentRests, agent, link, store
<1>2. AskedOf(k) /\ Owes(k) /\ current # 0 /\ h[p].obj = current
  BY <1>0 DEF Asked, Holds, Owes
<1>3. /\ Step(p)
      /\ \/ approval[k] # "decided" /\ h'[p].pc = "wait" /\ SameCall(p)
         \/ /\ approval[k] = "decided" /\ h'[p].pc = "count" /\ h'[p].then = "reply"
            /\ h'[p].ev = h[p].ev /\ h'[p].obj = h[p].obj
  <2>1. CASE ReadDecision(k) /\ approval[k] # "decided"
    <3>1. Go(p, "wait") /\ "wait" \in Pcs
      BY <2>1 DEF ReadDecision, Pcs
    <3>2. h \in [Procs -> Calls] /\ p \in Procs
      BY <1>0
    <3> HIDE DEF p
    <3>3. Step(p) /\ h'[p].pc = "wait" /\ SameCall(p)
      BY <3>1, <3>2, GoMoves
    <3> QED
      BY <2>1, <3>3
  <2>2. CASE Notified(k) \/ (ReadDecision(k) /\ approval[k] = "decided")
    <3>1. ToSettle(k) /\ approval[k] = "decided"
      BY <1>2, <2>2 DEF ReadDecision, Notified, AskedOf
    <3>2. "count" \in Pcs /\ h' = [h EXCEPT ![p].pc = "count", ![p].then = "reply"]
      BY <3>1 DEF ToSettle, Pcs
    <3> QED
      BY ZenonT(60), <1>0, <3>1, <3>2, OtherMoves
  <2> QED
    BY <2>1, <2>2
<1> HIDE DEF p
<1>4. Holds(p)'
  BY <1>0, <1>1, <1>2, <1>3 DEF Holds, SameCall
<1>5. AskedOf(k)'
  <2>1. CASE h'[p].pc = "wait"
    <3>1. Owes(k)'
      BY <2>1 DEF Owes, p
    <3>2. approval[k] \in {"absent", "pending", "decided"} /\ approval[k] # "decided"
      BY <1>0, <1>3, <2>1
    <3> QED
      BY <1>1, <1>2, <2>1, <3>1, <3>2 DEF AskedOf, p
  <2>2. CASE h'[p].pc = "count"
    <3>1. ~Owes(k)' /\ approval[k] = "decided"
      BY <1>3, <2>2 DEF Owes, p
    <3> QED
      BY <1>1, <1>2, <2>2, <3>1 DEF AskedOf, p
  <2> QED
    BY <1>3, <2>1, <2>2
<1>6. ASSUME Ended PROVE SaysSo'
  <2>1. CASE h'[p].pc = "wait"
    <3>1. Owes(k)'
      BY <2>1 DEF Owes, p
    <3> QED
      BY <1>1, <1>3, <1>6, <3>1, AskWaits DEF p
  <2>2. CASE h'[p].pc = "count"
    <3>1. Stepping(p) /\ TurnsEnd
      BY <1>1, <1>3 DEF Stepping, MayStep, p, Undisturbed
    <3>2. current # 0 /\ ~objs[current].turnOpen /\ objs[current].settled = Outcome
      BY <1>6, <3>1 DEF TurnsEnd, SaysSo
    <3> QED
      BY <1>1, <2>2, <3>1, <3>2, HandlerSays DEF Settles
  <2> QED
    BY <1>3, <2>1, <2>2
<1> QED
  BY <1>0, <1>1, <1>3, <1>4, <1>5, <1>6, AskStep DEF p, SessionTypes

LEMMA ReplyStep ==
  ASSUME ~Overlap, Undisturbed, NEW k \in Ask, MayStep([ask |-> k]), Reply(k)
  PROVE  Undisturbed'
<1> DEFINE p == [ask |-> k]
<1>0. SessionTypes /\ Asked /\ k \in AllAsks /\ IsAsk(p) /\ p \in Procs /\ Holds(p)
      /\ h \in [Procs -> Calls] /\ h[p].pc = "reply"
  BY AsksAre, ProcsAre DEF Undisturbed, SessionTypes, AllHold, Reply
<1>1. AgentRests /\ UNCHANGED <<queue, objs, current, db, log, told, script, approval>>
  BY DEF Reply, AgentRests, link, store
<1>2. Step(p) /\ h'[p].pc = "done"
  <2>1. Go(p, "done") /\ "done" \in Pcs
    BY DEF Reply, Pcs
  <2> QED
    BY <1>0, <2>1, GoMoves
<1>3. Holds(p)'
  BY <1>0, <1>2 DEF Holds
<1>4. ~Owes(k)' /\ ~Owes(k)
  BY <1>0, <1>2 DEF Owes
<1>5. AskedOf(k)'
  BY <1>0, <1>1, <1>2, <1>4 DEF Asked, AskedOf
<1>6. Ended => SaysSo'
  <2>1. Stepping(p) /\ TurnsEnd /\ ~Settles(p)
    BY <1>0, <1>1, <1>2 DEF Stepping, MayStep, Undisturbed, Settles
  <2>2. \A l \in AllAsks : [ask |-> l] = p => ~Owes(l)
    BY <1>0 DEF Owes
  <2> HIDE DEF p
  <2> QED
    BY <1>1, <1>2, <2>1, <2>2, EndStays DEF TurnsEnd
<1> QED
  BY <1>0, <1>1, <1>2, <1>3, <1>5, <1>6, AskStep DEF SessionTypes

-----------------------------------------------------------------------------
(* The agent, the sockets and the human.                                   *)

\* No handler steps: what the handlers know stays.
LEMMA HandlersStay ==
  ASSUME Undisturbed, UNCHANGED <<script, h, objs, current, db, log>>
  PROVE  /\ OneAtWork' /\ AllHold' /\ Synced' /\ TurnsEnd'
         /\ UNCHANGED <<approval, told>> => Asked'
<1>1. UNCHANGED <<script, h, objs, current, db, log>>
  OBVIOUS
<1>2. OneAtWork' = OneAtWork
  BY <1>1 DEF OneAtWork, Calm
<1>3. AllHold' = AllHold
  BY <1>1 DEF AllHold, Holds, Ask
<1>4. Synced' = Synced
  BY <1>1 DEF Synced
<1>5. \A k \in AllAsks : Owes(k)' = Owes(k)
  BY <1>1 DEF Owes
<1>6. UNCHANGED <<approval, told>> => Asked' = Asked
  BY <1>1, <1>5 DEF Asked, AskedOf
<1>7. Waits' = Waits
  BY <1>5 DEF Waits
<1>8. \A p \in Procs : Settles(p)' = Settles(p)
  BY <1>1 DEF Settles
<1>9. Outcome' = Outcome /\ Ended' = Ended
  BY <1>1 DEF Ended, LastEnds, IsEnd, Outcome
<1>10. SaysSo' = SaysSo
  BY <1>1, <1>7, <1>8, <1>9 DEF SaysSo
<1>11. TurnsEnd' = TurnsEnd
  BY <1>1, <1>9, <1>10 DEF TurnsEnd, LastEnds, IsEnd
<1> QED
  BY <1>2, <1>3, <1>4, <1>6, <1>11 DEF Undisturbed

\* The handler of an ask that was never sent before starts, beside the others.
LEMMA AskStarts ==
  ASSUME Undisturbed, NEW m \in Ask, NEW c \in Nat, h[[ask |-> m]].pc = "idle",
         h' = [h EXCEPT ![[ask |-> m]] = [Idle EXCEPT !.pc = "fetch", !.ev = m, !.conn = c]],
         UNCHANGED <<script, objs, current, db, approval, told, log>>
  PROVE  /\ Step([ask |-> m]) /\ h'[[ask |-> m]].pc = "fetch"
         /\ OneAtWork' /\ AllHold' /\ Synced' /\ Asked' /\ TurnsEnd'
<1> DEFINE p == [ask |-> m]
<1>0. SessionTypes /\ m \in AllAsks /\ p \in Procs /\ IsAsk(p) /\ p # Main /\ m \in 1 .. Len(script)
      /\ h \in [Procs -> Calls] /\ m \in Nat /\ script \in Scripts
  BY AsksAre, ProcsAre DEF Undisturbed, SessionTypes
<1>1. Step(p) /\ h'[p].pc = "fetch" /\ h'[p].ev = m
  BY ZenonT(60), <1>0, OtherMoves
<1>2. \A q \in Procs : q # p => h'[q] = h[q]
  BY <1>1 DEF Step
<1>3. OneAtWork'
  <2>1. \A q \in Procs : Calm(q) => Calm(q)'
    BY <1>1, <1>2 DEF Calm
  <2> QED
    BY <2>1 DEF Undisturbed, OneAtWork
<1>4. AllHold'
  <2>1. \A q \in Procs : q # p => Holds(q)'
    BY <1>2 DEF Undisturbed, AllHold, Holds, Ask
  <2>2. Holds(p)'
    BY <1>0, <1>1 DEF Holds
  <2>3. \A k \in AllAsks : h'[[ask |-> k]].pc # "idle" => k \in Ask
    <3>1. ASSUME NEW k \in AllAsks, k # m PROVE h'[[ask |-> k]] = h[[ask |-> k]]
      BY <1>2, <3>1, ProcsAre
    <3> QED
      BY <3>1 DEF Undisturbed, AllHold
  <2> QED
    BY <2>1, <2>2, <2>3 DEF AllHold, Ask
<1>5. Synced'
  <2>1. (\A q \in Procs : h'[q].pc # "note") => (\A q \in Procs : h[q].pc # "note")
    BY <1>2
  <2> QED
    BY <2>1 DEF Undisturbed, Synced
<1>6. \A k \in AllAsks : Owes(k)' = Owes(k)
  <2>1. ASSUME NEW k \in AllAsks, k # m PROVE h'[[ask |-> k]] = h[[ask |-> k]]
    BY <1>2, <2>1, ProcsAre
  <2>2. ~Owes(m) /\ ~Owes(m)'
    BY <1>1 DEF Owes
  <2> QED
    BY <2>1, <2>2 DEF Owes
<1>7. Asked'
  <2>1. ASSUME NEW k \in AllAsks PROVE AskedOf(k)'
    <3>1. AskedOf(k)
      BY DEF Undisturbed, Asked
    <3>2. CASE k # m
      <4>1. h'[[ask |-> k]] = h[[ask |-> k]]
        BY <1>2, <3>2, ProcsAre
      <4> QED
        BY <1>6, <3>1, <4>1 DEF AskedOf
    <3>3. CASE k = m
      BY <1>1, <1>6, <3>1, <3>3 DEF AskedOf
    <3> QED
      BY <3>2, <3>3
  <2> QED
    BY <2>1 DEF Asked
<1>8. TurnsEnd'
  <2>1. h'[Main] = h[Main]
    BY <1>0, <1>2, ProcsAre
  <2>2. Waits' = Waits
    BY <1>6 DEF Waits
  <2>3. \A q \in Procs : Settles(q)' = Settles(q)
    BY <1>1, <1>2 DEF Settles
  <2>4. Outcome' = Outcome /\ Ended' = Ended /\ LastEnds' = LastEnds
    BY <2>1 DEF Ended, LastEnds, IsEnd, Outcome
  <2>5. \A q \in Procs : h'[q].pc \in {"write", "note"} => h'[q] = h[q]
    BY <1>1, <1>2
  <2>6. SaysSo => SaysSo'
    BY <2>2, <2>3, <2>4, <2>5 DEF SaysSo
  <2> QED
    BY <2>1, <2>4, <2>6 DEF Undisturbed, TurnsEnd
<1> HIDE DEF p
<1> QED
  BY <1>1, <1>3, <1>4, <1>5, <1>7, <1>8 DEF p

\* An event goes to the one connection there is.
LEMMA EmitStep ==
  ASSUME Undisturbed, EmitEvent
  PROVE  Undisturbed'
<1>0. SessionTypes /\ OneLink /\ SentOnce /\ 1 \in Conns
  BY BridgeAssumption DEF Undisturbed, Conns
<1>1. UNCHANGED <<script, h, objs, current, db, log, approval, told, queue, lost, reg, open,
                  cur, ids>>
      /\ next' = next + 1 /\ next <= Len(script) /\ ids
  BY DEF EmitEvent, hub, store
<1>2. open /\ cur = 1 /\ lost = {}
  BY <1>0, <1>1 DEF OneLink
<1>3. PICK q \in Seq(0 .. Len(script)) : q = posted[1] /\ posted' = [posted EXCEPT ![1] = q \o <<next>>]
  BY <1>0, <1>2 DEF EmitEvent, OnWire, SessionTypes
<1>4. next \in 0 .. Len(script) /\ next \in Nat \ {0}
  BY <1>0, <1>1 DEF SessionTypes
<1>5. PICK w \in Seq(0 .. Len(script)) : w = q \o <<next>>
  <2>1. <<next>> \in Seq(0 .. Len(script))
    BY <1>4
  <2> QED
    BY <1>3, <2>1, ConcatProperties
<1>6. posted'[1] = w /\ posted' \in [Conns -> Seq(0 .. Len(script))]
      /\ \A c \in Conns : c # 1 => posted'[c] = posted[c]
  BY <1>0, <1>3, <1>5 DEF SessionTypes
<1>7. outbox' = outbox
  BY <1>2 DEF EmitEvent
<1>8. SessionTypes'
  BY <1>0, <1>1, <1>4, <1>6 DEF SessionTypes
<1>9. OneLink'
  BY <1>0, <1>1, <1>2, <1>6, <1>7 DEF OneLink
<1>10. PICK n \in Nat : n = Len(q)
  BY <1>3
<1>11. Len(w) = n + 1 /\ w[n + 1] = next /\ \A i \in 1 .. n : w[i] = q[i]
  <2>1. <<next>> \in Seq(0 .. Len(script)) /\ Len(<<next>>) = 1 /\ <<next>>[1] = next
    BY <1>4
  <2> QED
    BY <1>3, <1>5, <1>10, <2>1, ConcatProperties
<1>12. \A i, j \in 1 .. n : q[i] = q[j] => q[i] = 0 \/ i = j
  BY <1>0, <1>3, <1>10 DEF SentOnce
<1>13. \A i \in 1 .. n : q[i] < next /\ (q[i] \in Ask => h[[ask |-> q[i]]].pc = "idle")
  BY <1>0, <1>3, <1>10 DEF SentOnce
<1>14. \A k \in AllAsks : k >= next => h[[ask |-> k]].pc = "idle"
  BY <1>0 DEF SentOnce
<1>15. Ask' = Ask /\ Ask \subseteq AllAsks
  BY <1>0, <1>1, AsksAre DEF Ask, SessionTypes
<1>16. next \in Ask => h[[ask |-> next]].pc = "idle"
  BY <1>4, <1>14, <1>15
<1>17. \A i \in 1 .. n : q[i] \in Nat
  BY <1>3, <1>10
<1>18. SentOnce'
  <2>1. \A i, j \in 1 .. Len(w) : w[i] = w[j] => w[i] = 0 \/ i = j
    <3>1. \A i \in 1 .. Len(w) : i = n + 1 \/ (i \in 1 .. n /\ w[i] = q[i] /\ w[i] < next)
      <4>1. \A i \in 1 .. n + 1 : i = n + 1 \/ i \in 1 .. n
        BY <1>10
      <4>2. \A i \in 1 .. Len(w) : i \in 1 .. n + 1
        BY <1>11
      <4> QED
        BY <1>11, <1>13, <4>1, <4>2
    <3>2. ~(next < next)
      BY <1>4
    <3> QED
      BY <1>11, <1>12, <3>1, <3>2
  <2>2. \A i \in 1 .. Len(w) : w[i] < next + 1 /\ (w[i] \in Ask => h[[ask |-> w[i]]].pc = "idle")
    BY SMTT(60), <1>4, <1>11, <1>13, <1>16, <1>17
  <2>3. \A k \in AllAsks : k >= next + 1 => h[[ask |-> k]].pc = "idle"
    <3>1. \A k \in AllAsks : k \in Nat
      BY BridgeAssumption DEF AllAsks
    <3> QED
      BY <1>4, <1>14, <3>1
  <2> QED
    BY <1>1, <1>6, <1>15, <2>1, <2>2, <2>3 DEF SentOnce
<1> QED
  BY <1>1, <1>8, <1>9, <1>18, HandlersStay DEF Undisturbed

\* The first connection is the only one: nothing closes it.
LEMMA ConnectStep ==
  ASSUME Undisturbed, Connect
  PROVE  Undisturbed'
<1>0. SessionTypes /\ OneLink /\ SentOnce /\ 1 \in Conns
  BY BridgeAssumption DEF Undisturbed, Conns
<1>1. UNCHANGED <<script, next, h, objs, current, db, log, approval, told, queue, reg, ids, outbox>>
      /\ ~open /\ open' = TRUE
  BY DEF Connect, hub, store
<1>2. cur = 0 /\ cur' = 1 /\ lost' = lost /\ posted' = [posted EXCEPT ![1] = <<0>>]
  BY <1>0, <1>1 DEF OneLink, Connect, Register
<1>3. Len(script) \in Nat
  BY <1>0, BridgeAssumption DEF SessionTypes
<1>4. <<0>> \in Seq(0 .. Len(script)) /\ Len(<<0>>) = 1 /\ <<0>>[1] = 0
  BY <1>3
<1>5. posted' \in [Conns -> Seq(0 .. Len(script))] /\ posted'[1] = <<0>>
      /\ \A c \in Conns : c # 1 => posted'[c] = posted[c]
  BY <1>0, <1>2, <1>4 DEF SessionTypes
<1>6. SessionTypes'
  BY <1>0, <1>1, <1>5 DEF SessionTypes
<1>7. OneLink'
  BY <1>0, <1>1, <1>2, <1>5 DEF OneLink
<1>8. 0 \notin Ask /\ Ask' = Ask
  BY <1>1 DEF Ask
<1>9. SentOnce'
  BY <1>0, <1>1, <1>4, <1>5, <1>8 DEF SentOnce, SessionTypes
<1> QED
  BY <1>1, <1>6, <1>7, <1>9, HandlersStay DEF Undisturbed

\* The answer of the registration: there was nothing to drain.
LEMMA HubOpenStep ==
  ASSUME Undisturbed, NEW c \in Conns, HandleHubOpen(c)
  PROVE  Undisturbed'
<1>0. SessionTypes /\ OneLink /\ SentOnce /\ 1 \in Conns
  BY BridgeAssumption DEF Undisturbed, Conns
<1>1. UNCHANGED <<script, next, h, objs, current, db, log, approval, told, queue, lost, open, cur>>
      /\ reg' \subseteq reg /\ reg # {}
  BY DEF HandleHubOpen, hub, store
<1>2. open /\ outbox = <<>> /\ outbox' = <<>>
  BY <1>0, <1>1 DEF OneLink, HandleHubOpen
<1>3. posted' = posted
  <2>1. posted[c] \in Seq(0 .. Len(script))
    BY <1>0 DEF SessionTypes
  <2>2. posted[c] \o <<>> = posted[c]
    BY <2>1, ConcatEmptySeq
  <2>3. posted' = posted \/ posted' = [posted EXCEPT ![c] = posted[c] \o outbox]
    BY DEF HandleHubOpen, OnWire
  <2> QED
    BY <1>0, <1>2, <2>2, <2>3 DEF SessionTypes
<1>4. SessionTypes'
  BY <1>0, <1>1, <1>3 DEF SessionTypes
<1>5. OneLink'
  BY <1>0, <1>1, <1>2, <1>3 DEF OneLink
<1>6. SentOnce'
  BY <1>0, <1>1, <1>3 DEF SentOnce, Ask
<1> QED
  BY <1>1, <1>4, <1>5, <1>6, HandlersStay DEF Undisturbed

\* A message of the connection is queued, or its request starts.
LEMMA MessageStep ==
  ASSUME Undisturbed, NEW c \in Conns, OnMessage(c)
  PROVE  Undisturbed'
<1>0. SessionTypes /\ OneLink /\ SentOnce /\ 1 \in Conns /\ h \in [Procs -> Calls]
  BY BridgeAssumption DEF Undisturbed, Conns, SessionTypes
<1>1. c = 1 /\ posted[1] \in Seq(0 .. Len(script)) /\ posted[1] # <<>>
  BY <1>0 DEF OneLink, OnMessage, SessionTypes
<1>2. PICK q \in Seq(0 .. Len(script)) : q = posted[1]
  BY <1>1
<1>3. PICK m \in 0 .. Len(script) : m = Head(q)
  BY <1>1, <1>2, HeadTailProperties
<1>4. PICK t \in Seq(0 .. Len(script)) : t = Tail(q)
  BY <1>1, <1>2, HeadTailProperties
<1>5. UNCHANGED <<script, next, objs, current, db, log, approval, told, lost, open, cur, ids, outbox>>
  BY DEF OnMessage, agent, store
<1>6. /\ posted' = [posted EXCEPT ![1] = t]
      /\ reg' = reg \/ reg' = reg \cup {1}
      /\ queue' = queue \/ (m # 0 /\ queue' = [queue EXCEPT ![1] = Append(queue[1], m)])
      /\ IF m \in Ask
         THEN h' = [h EXCEPT ![[ask |-> m]] = [Idle EXCEPT !.pc = "fetch", !.ev = m, !.conn = 1]]
         ELSE h' = h
  BY <1>1, <1>2, <1>3, <1>4 DEF OnMessage, Register
<1>7. PICK n \in Nat : n = Len(q)
  BY <1>2
<1>8. n > 0 /\ m = q[1] /\ Len(t) = n - 1 /\ (\A i \in 1 .. n - 1 : t[i] = q[i + 1])
  BY <1>1, <1>2, <1>3, <1>4, <1>7
<1>9. \A i, j \in 1 .. n : q[i] = q[j] => q[i] = 0 \/ i = j
  BY <1>0, <1>2, <1>7 DEF SentOnce
<1>10. \A i \in 1 .. n : q[i] < next /\ (q[i] \in Ask => h[[ask |-> q[i]]].pc = "idle")
  BY <1>0, <1>2, <1>7 DEF SentOnce
<1>11. Ask' = Ask /\ Ask \subseteq AllAsks /\ 0 \notin Ask
  BY <1>0, <1>5, AsksAre DEF Ask, SessionTypes
<1>12. m \in Ask => h[[ask |-> m]].pc = "idle"
  BY <1>8, <1>10
<1>13. /\ m \in Ask => Step([ask |-> m]) /\ h'[[ask |-> m]].pc = "fetch"
       /\ OneAtWork' /\ AllHold' /\ Synced' /\ Asked' /\ TurnsEnd'
  <2>1. CASE m \in Ask
    BY <1>5, <1>6, <1>12, <2>1, AskStarts
  <2>2. CASE m \notin Ask
    BY <1>5, <1>6, <2>2, HandlersStay
  <2> QED
    BY <2>1, <2>2
<1>14. h' \in [Procs -> Calls] /\ \A p \in Procs : (m \in Ask => p # [ask |-> m]) => h'[p] = h[p]
  BY <1>0, <1>6, <1>13 DEF Step
<1>15. \A k \in AllAsks : k # m \/ m \notin Ask => h'[[ask |-> k]] = h[[ask |-> k]]
  BY <1>14, ProcsAre
<1>16. \A d \in Conns : h'[[conn |-> d]] = h[[conn |-> d]]
  <2>1. ASSUME NEW d \in Conns PROVE h'[[conn |-> d]] = h[[conn |-> d]]
    <3>1. \A k \in AllAsks : [conn |-> d] # [ask |-> k]
      BY ProcsAre
    <3> QED
      BY <1>11, <1>14, <3>1, ProcsAre
  <2> QED
    BY <2>1
<1>17. posted' \in [Conns -> Seq(0 .. Len(script))] /\ posted'[1] = t
       /\ \A d \in Conns : d # 1 => posted'[d] = posted[d]
  BY <1>0, <1>6 DEF SessionTypes
<1>18. queue' \in [Conns -> Seq(1 .. Len(script))] /\ \A d \in Conns : d # 1 => queue'[d] = queue[d]
  <2>1. m # 0 => Append(queue[1], m) \in Seq(1 .. Len(script))
    <3>1. queue[1] \in Seq(1 .. Len(script))
      BY <1>0 DEF SessionTypes
    <3>2. m # 0 => m \in 1 .. Len(script)
      BY <1>3
    <3> QED
      BY <3>1, <3>2
  <2> QED
    BY <1>0, <1>6, <2>1 DEF SessionTypes
<1>19. SessionTypes'
  BY <1>0, <1>5, <1>14, <1>17, <1>18 DEF SessionTypes
<1>20. OneLink'
  <2>1. open
    BY <1>0, <1>1 DEF OneLink
  <2>2. reg' \subseteq {1}
    BY <1>0, <1>6 DEF OneLink
  <2> QED
    BY <1>0, <1>5, <1>16, <1>17, <1>18, <2>1, <2>2 DEF OneLink
<1>21. SentOnce'
  <2>1. \A i, j \in 1 .. n - 1 : t[i] = t[j] => t[i] = 0 \/ i = j
    <3>1. \A i, j \in 1 .. n - 1 : i + 1 \in 1 .. n /\ (i + 1 = j + 1 => i = j)
      BY <1>7
    <3> QED
      BY <1>8, <1>9, <3>1
  <2>2. \A i \in 1 .. n - 1 : t[i] < next /\ t[i] = q[i + 1] /\ i + 1 \in 1 .. n /\ i + 1 # 1
    <3>1. \A i \in 1 .. n - 1 : i + 1 \in 1 .. n /\ i + 1 # 1
      BY <1>7
    <3> QED
      BY <1>8, <1>10, <3>1
  <2>3. \A i \in 1 .. n - 1 : t[i] \in Ask => t[i] # m /\ h[[ask |-> t[i]]].pc = "idle"
    <3>1. SUFFICES ASSUME NEW i \in 1 .. n - 1, t[i] \in Ask
                   PROVE  t[i] # m /\ h[[ask |-> t[i]]].pc = "idle"
      OBVIOUS
    <3>2. q[i + 1] # 0 /\ i + 1 \in 1 .. n /\ i + 1 # 1 /\ 1 \in 1 .. n /\ t[i] = q[i + 1]
      BY SMTT(60), <1>7, <1>8, <1>11, <2>2, <3>1
    <3>3. q[i + 1] # q[1]
      BY <1>9, <3>2
    <3> QED
      BY <1>8, <1>10, <3>1, <3>2, <3>3
  <2>4. \A i \in 1 .. n - 1 : t[i] \in Ask => h'[[ask |-> t[i]]].pc = "idle"
    BY <1>11, <1>15, <2>3
  <2>5. \A k \in AllAsks : k >= next => h'[[ask |-> k]].pc = "idle"
    <3>1. m \in Nat /\ next \in Nat
      BY <1>0, <1>3 DEF SessionTypes
    <3>2. 1 \in 1 .. n
      BY <1>7, <1>8
    <3>3. m < next
      BY <1>8, <1>10, <3>2
    <3>4. \A k \in AllAsks : k >= next => k # m
      BY <3>1, <3>3
    <3> QED
      BY <1>0, <1>15, <3>4 DEF SentOnce
  <2> QED
    BY <1>5, <1>8, <1>11, <1>17, <2>1, <2>2, <2>4, <2>5 DEF SentOnce
<1> QED
  BY <1>13, <1>19, <1>20, <1>21 DEF Undisturbed

\* A decision: who waits is told of it.
LEMMA DecideStep ==
  ASSUME Undisturbed, NEW k \in Ask, Decide(k)
  PROVE  Undisturbed'
<1>0. SessionTypes /\ OneLink /\ SentOnce /\ Asked /\ k \in AllAsks
      /\ approval \in [AllAsks -> {"absent", "pending", "decided"}]
  BY AsksAre DEF Undisturbed, SessionTypes
<1>1. UNCHANGED <<script, next, h, objs, current, db, log, queue, posted, reg, lost, open, cur,
                  ids, outbox>>
      /\ approval' = [approval EXCEPT ![k] = "decided"] /\ approval[k] = "pending"
      /\ told' = IF h[[ask |-> k]].pc \in {"listen", "wait"} THEN told \cup {k} ELSE told
  BY DEF Decide, agent, link, hub
<1>2. SessionTypes'
  BY <1>0, <1>1 DEF SessionTypes
<1>3. OneLink'
  BY <1>0, <1>1 DEF OneLink
<1>4. SentOnce'
  BY <1>0, <1>1 DEF SentOnce, Ask
<1>5. Asked'
  <2>1. ASSUME NEW l \in AllAsks PROVE AskedOf(l)'
    <3>1. AskedOf(l) /\ Owes(l)' = Owes(l)
      BY <1>0, <1>1 DEF Asked, Owes
    <3>2. CASE l # k
      <4>1. approval'[l] = approval[l] /\ (l \in told' <=> l \in told)
        BY <1>0, <1>1, <3>2
      <4> QED
        BY <1>1, <3>1, <4>1 DEF AskedOf
    <3>3. CASE l = k
      <4>1. approval'[k] = "decided" /\ (h[[ask |-> k]].pc = "wait" => k \in told')
        BY <1>0, <1>1
      <4> QED
        BY <1>1, <3>1, <3>3, <4>1 DEF AskedOf
    <3> QED
      BY <3>2, <3>3
  <2> QED
    BY <2>1 DEF Asked
<1> QED
  BY <1>1, <1>2, <1>3, <1>4, <1>5, HandlersStay DEF Undisturbed

-----------------------------------------------------------------------------
(* The invariant, and the property it is for.                              *)

\* At the start nothing was sent, and no handler runs.
LEMMA SessionsStart ==
  ASSUME SessionsInit
  PROVE  SessionsInv
<1>1. script \in Scripts /\ Len(script) \in Nat
  BY BridgeAssumption DEF SessionsInit
<1>2. Idle \in Calls /\ Idle.pc = "idle"
  BY DEF Idle, Calls, Pcs, Values
<1>3. h = [p \in Procs |-> Idle] /\ h \in [Procs -> Calls]
  BY <1>2 DEF SessionsInit
<1>4. \A p \in Procs : h[p].pc = "idle"
  BY <1>2, <1>3
<1>5. \A k \in AllAsks : h[[ask |-> k]].pc = "idle"
  BY <1>4, ProcsAre
<1>6. \A c \in Conns : h[[conn |-> c]].pc = "idle"
  BY <1>4, ProcsAre
<1>7. 1 \in Conns
  BY BridgeAssumption DEF Conns
<1>8. posted[1] = <<>> /\ Len(posted[1]) = 0
  BY <1>7 DEF SessionsInit
<1>9. SessionTypes
  BY <1>1, <1>3 DEF SessionTypes, SessionsInit
<1>10. OneLink
  BY <1>6, <1>7 DEF OneLink, SessionsInit
<1>11. SentOnce
  BY <1>5, <1>8 DEF SentOnce
<1>12. OneAtWork
  BY <1>4 DEF OneAtWork, Calm
<1>13. AllHold
  BY <1>4, <1>5 DEF AllHold, Holds
<1>14. Synced
  BY DEF Synced, SessionsInit
<1>15. \A k \in AllAsks : ~Owes(k) /\ approval[k] = "absent" /\ k \notin told
  BY <1>5 DEF Owes, SessionsInit
<1>16. Asked
  BY <1>5, <1>15 DEF Asked, AskedOf
<1>17. h[Main].pc = "idle"
  BY <1>4, ProcsAre
<1>18. ~LastEnds
  BY DEF LastEnds, SessionsInit
<1>19. TurnsEnd
  BY <1>17, <1>18 DEF TurnsEnd, Ended
<1> QED
  BY <1>9, <1>10, <1>11, <1>12, <1>13, <1>14, <1>16, <1>19
     DEF SessionsInv, Undisturbed, SessionsInit

\* The handler of a connection that takes a step is that of the first.
LEMMA QueueStep ==
  ASSUME ~Overlap, AsksApart, Undisturbed, NEW c \in Conns, HandleNotification(c)
  PROVE  Undisturbed'
<1>0. OneLink /\ AllHold
  BY DEF Undisturbed
<1>1. c = 1
  <2>1. CASE Take(c)
    BY <1>0, <2>1 DEF Take, OneLink
  <2>2. CASE ~Take(c)
    <3>1. h[[conn |-> c]].pc # "idle"
      BY <2>2 DEF HandleNotification, Handle, Fetch, Ensure, HasPendingApproval, Settle,
                  SetSessionState, NoteState, SessionRegistered, Started, Item, CompletedLine,
                  Completed
    <3> QED
      BY SMTT(60), <1>0, <3>1 DEF OneLink
  <2> QED
    BY <2>1, <2>2
<1>2. [conn |-> c] = Main
  BY <1>1 DEF Main
<1>3. MayStep(Main)
  BY <1>2, ProcsAre DEF MayStep, HandleNotification
<1>4. Take(1) \/ Handle(Main) \/ SessionRegistered(Main) \/ Started(Main) \/ Item(Main)
      \/ CompletedLine(Main) \/ Completed(Main)
  BY <1>1, <1>2 DEF HandleNotification
<1>5. CASE Take(1)
  BY <1>3, <1>5, TakeStep
<1>6. CASE SessionRegistered(Main) \/ Started(Main) \/ Item(Main)
  BY <1>3, <1>6, WorkSteps
<1>7. CASE CompletedLine(Main)
  BY <1>3, <1>7, LineStep
<1>8. CASE Completed(Main)
  BY <1>3, <1>8, CompletedStep
<1>9. CASE Handle(Main)
  BY <1>3, <1>9, FetchStep, EnsureStep, CountStep, SettleStep, WriteStep, NoteStep DEF Handle
<1> QED
  BY <1>4, <1>5, <1>6, <1>7, <1>8, <1>9

\* The steps of an approval's handler.
LEMMA ApprovalStep ==
  ASSUME ~Overlap, AsksApart, Undisturbed, NEW k \in Ask, HandleApproval(k)
  PROVE  Undisturbed'
<1>1. Ask \subseteq AllAsks
  BY AsksAre DEF Undisturbed, SessionTypes
<1>2. h[[ask |-> k]].pc # "idle"
  BY DEF HandleApproval, Handle, Fetch, Ensure, HasPendingApproval, Settle, SetSessionState,
         NoteState, Propose, Block, Subscribe, ReadDecision, Notified, Reply
<1>3. MayStep([ask |-> k])
  BY <1>1, <1>2, ProcsAre DEF MayStep, HandleApproval
<1>4. Handle([ask |-> k]) \/ Propose(k) \/ Block(k) \/ Subscribe(k) \/ ReadDecision(k)
      \/ Notified(k) \/ Reply(k)
  BY DEF HandleApproval
<1>5. CASE Handle([ask |-> k])
  BY <1>3, <1>5, FetchStep, EnsureStep, CountStep, SettleStep, WriteStep, NoteStep DEF Handle
<1>6. CASE Propose(k)
  BY <1>3, <1>6, ProposeStep
<1>7. CASE Block(k)
  BY <1>3, <1>7, BlockStep
<1>8. CASE Subscribe(k)
  BY <1>3, <1>8, SubscribeStep
<1>9. CASE ReadDecision(k) \/ Notified(k)
  BY <1>3, <1>9, AnswerSteps
<1>10. CASE Reply(k)
  BY <1>3, <1>10, ReplyStep
<1> QED
  BY <1>4, <1>5, <1>6, <1>7, <1>8, <1>9, <1>10

\* A step that loses no link and restarts no hub.
LEMMA UndisturbedStep ==
  ASSUME ~Overlap, AsksApart, Undisturbed, [SessionsNext]_sessionVars,
         sessionFaults = 0, sessionFaults' = 0
  PROVE  Undisturbed'
<1>1. CASE EmitEvent
  BY <1>1, EmitStep
<1>2. CASE Connect
  BY <1>2, ConnectStep
<1>3. CASE SeeClose
  BY <1>3 DEF SeeClose, Undisturbed, OneLink
<1>4. CASE LoseLink \/ HubRestart
  BY <1>4 DEF LoseLink, HubRestart
<1>5. ASSUME NEW c \in Conns, Closed(c) PROVE FALSE
  BY <1>5 DEF Closed, Undisturbed, OneLink
<1>6. ASSUME NEW c \in Conns, OnMessage(c) PROVE Undisturbed'
  BY <1>6, MessageStep
<1>7. ASSUME NEW c \in Conns, HandleHubOpen(c) PROVE Undisturbed'
  BY <1>7, HubOpenStep
<1>8. ASSUME NEW c \in Conns, HandleNotification(c) PROVE Undisturbed'
  BY <1>8, QueueStep
<1>9. ASSUME NEW k \in Ask, HandleApproval(k) PROVE Undisturbed'
  BY <1>9, ApprovalStep
<1>10. ASSUME NEW k \in Ask, Decide(k) PROVE Undisturbed'
  BY <1>10, DecideStep
<1>11. CASE UNCHANGED sessionVars
  <2>1. UNCHANGED <<agent, link, hub, store, log>>
    BY <1>11 DEF sessionVars
  <2>2. UNCHANGED <<script, next, h, objs, current, db, log, queue, posted, reg, lost, open, cur,
                    ids, outbox, approval, told>>
    BY <2>1 DEF agent, link, hub, store
  <2>3. SessionTypes'
    BY <2>2 DEF SessionTypes, Undisturbed
  <2>4. OneLink'
    BY <2>2 DEF OneLink, Undisturbed
  <2>5. SentOnce'
    BY <2>2 DEF SentOnce, Undisturbed, Ask
  <2> QED
    BY <2>2, <2>3, <2>4, <2>5, HandlersStay DEF Undisturbed
<1> QED
  BY <1>1, <1>2, <1>3, <1>4, <1>5, <1>6, <1>7, <1>8, <1>9, <1>10, <1>11 DEF SessionsNext

\* Faults are only ever counted up.
LEMMA FaultsGrow ==
  ASSUME sessionFaults \in Nat, [SessionsNext]_sessionVars
  PROVE  sessionFaults' \in Nat /\ (sessionFaults' = 0 => sessionFaults = 0)
<1>1. sessionFaults' = sessionFaults \/ sessionFaults' = sessionFaults + 1
  <2>1. CASE EmitEvent \/ Connect \/ SeeClose \/ LoseLink \/ HubRestart
    BY <2>1 DEF EmitEvent, Connect, SeeClose, LoseLink, HubRestart
  <2>2. ASSUME NEW c \in Conns, Closed(c) \/ OnMessage(c) \/ HandleHubOpen(c)
        PROVE  sessionFaults' = sessionFaults
    BY <2>2 DEF Closed, OnMessage, HandleHubOpen
  <2>3. ASSUME NEW p, Handle(p) PROVE sessionFaults' = sessionFaults
    BY <2>3 DEF Handle, Fetch, Ensure, HasPendingApproval, Settle, SetSessionState, NoteState
  <2>4. ASSUME NEW c \in Conns, HandleNotification(c) PROVE sessionFaults' = sessionFaults
    BY <2>3, <2>4 DEF HandleNotification, Take, SessionRegistered, Started, Item, CompletedLine,
                      Completed
  <2>5. ASSUME NEW k \in Ask, HandleApproval(k) \/ Decide(k)
        PROVE  sessionFaults' = sessionFaults
    BY <2>3, <2>5 DEF HandleApproval, Propose, Block, Subscribe, ReadDecision, Notified, Reply,
                      Decide
  <2>6. CASE UNCHANGED sessionVars
    BY <2>6 DEF sessionVars
  <2> QED
    BY <2>1, <2>2, <2>4, <2>5, <2>6 DEF SessionsNext
<1> QED
  BY <1>1

\* Of every behaviour whose handlers run one at a time, for any scripts in
\* which a runtime that asks does not register with every turn: while no link
\* is lost, each event reaches the hub once, in one queue, and the handler of
\* that queue and those of the approvals keep the row and the current session
\* object in step (bridge.ts applyState, settleState, handleApprovalRequested).
THEOREM SessionsInvariant == ~Overlap /\ AsksApart => (SessionsSpec => []SessionsInv)
<1> SUFFICES ASSUME ~Overlap, AsksApart PROVE SessionsSpec => []SessionsInv
  OBVIOUS
<1>1. SessionsInit => SessionsInv
  BY SessionsStart
<1>2. SessionsInv /\ [SessionsNext]_sessionVars => SessionsInv'
  BY UndisturbedStep, FaultsGrow DEF SessionsInv
<1> QED
  BY <1>1, <1>2, PTL DEF SessionsSpec

\* At rest an approval that owes a settling is one that waits for a human.
LEMMA TurnsSettleAtRest ==
  ASSUME SessionsInv
  PROVE  EndedTurnIsSettled
<1>1. SUFFICES ASSUME AtRest, sessionFaults = 0, LastEnds, \A k \in Ask : approval[k] # "pending"
               PROVE  db = Outcome
  BY DEF EndedTurnIsSettled, Outcome
<1>2. Undisturbed
  BY <1>1 DEF SessionsInv
<1>3. \A k \in AllAsks : h[[ask |-> k]].pc # "idle" => k \in Ask
  BY <1>2 DEF Undisturbed, AllHold
<1>4. \A k \in AllAsks : h[[ask |-> k]].pc \in {"idle", "wait", "done"}
        /\ (h[[ask |-> k]].pc = "wait" => k \in Ask /\ k \notin told)
  BY <1>1, <1>3 DEF AtRest
<1>5. \A k \in AllAsks : AskedOf(k)
  BY <1>2 DEF Undisturbed, Asked
<1>6. ~Waits
  <2>1. \A k \in AllAsks : h[[ask |-> k]].pc # "wait"
    BY <1>1, <1>4, <1>5 DEF AskedOf
  <2> QED
    BY <1>4, <2>1 DEF Waits, Owes
<1>7. \A c \in Conns : h[[conn |-> c]].pc = "idle"
  BY <1>1 DEF AtRest
<1>8. \A p \in Procs : h[p].pc \in {"idle", "wait", "done"}
  BY <1>4, <1>7, ProcsAre
<1>9. \A p \in Procs : ~Settles(p)
  BY <1>8 DEF Settles
<1>10. Ended
  BY <1>1, <1>8, <1>7, BridgeAssumption DEF Ended, Main, Conns
<1> QED
  BY <1>2, <1>6, <1>9, <1>10 DEF Undisturbed, TurnsEnd, SaysSo

\* A session whose last turn has ended, with no approval open, shows that
\* turn's outcome once the hub is at rest: in every behaviour whose handlers run
\* one at a time.
THEOREM SettledTurnsShow == ~Overlap /\ AsksApart => (SessionsSpec => []EndedTurnIsSettled)
<1> SUFFICES ASSUME ~Overlap, AsksApart PROVE SessionsSpec => []EndedTurnIsSettled
  OBVIOUS
<1> QED
  BY SessionsInvariant, TurnsSettleAtRest, PTL

-----------------------------------------------------------------------------
(* The jobs.                                                               *)

Running(hb) == tick[hb].pc = "running"

Exclusive ==
  \A hb \in Hubs : Running(hb) =>
    /\ tick[hb].job \in Jobs
    /\ claimed[tick[hb].job]
    /\ \A g \in Hubs : Running(g) /\ tick[g].job = tick[hb].job => g = hb

Owed(j) == IF due[j] /\ ~claimed[j] THEN 1 ELSE 0

Counted == \A j \in Jobs : runs[j] + Owed(j) <= fires[j]

JobInv == TypeOK /\ Exclusive /\ Counted

USE SwitchAssumption, SchedulerAssumption
USE DEF Newest, Positions, Stages

-----------------------------------------------------------------------------
(* The switch's own steps keep its types; rows are only ever added.        *)

LEMMA ValueType == ASSUME SwitchTypeOK, NEW n \in 0 .. Newest PROVE Value(n) \in Positions
  BY DEF SwitchTypeOK, Value

SwitchMove ==
  \/ \E hb \in Hubs :
       \/ Listen(hb) \/ Deliver(hb) \/ AskRow(hb) \/ ReadRow(hb) \/ ReadFails(hb) \/ SwitchExit(hb)
       \/ \E position \in Positions : PressRecord(hb, position)
  \/ \E n \in 1 .. Newest : PressCache(n) \/ PressEmit(n) \/ PressEmitFails(n)
  \/ UNCHANGED switchVars

PressCall == [pc : {"recorded", "cached", "done", "failed"}, at : Hubs]

(* A press that goes on to its next statement is still a press.            *)
LEMMA PressGoes ==
  ASSUME NEW N, press \in [1 .. N -> PressCall], NEW n \in 1 .. N,
         NEW pc \in {"recorded", "cached", "done", "failed"}
  PROVE  [press EXCEPT ![n].pc = pc] \in [1 .. N -> PressCall]
  BY DEF PressCall

LEMMA FunctionIsSeq ==
  ASSUME NEW S, NEW N \in Nat, NEW f \in [1 .. N -> S]
  PROVE  f \in Seq(S) /\ Len(f) = N
<1>1. f \in Seq(S)
  BY SeqDef
<1>2. 1 .. Len(f) = 1 .. N /\ Len(f) \in Nat
  BY <1>1, LenProperties
<1> QED
  BY <1>1, <1>2

LEMMA SwitchMoveTypeOK ==
  SwitchTypeOK /\ SwitchMove => SwitchTypeOK' /\ Newest \in Nat /\ Newest' \in Nat /\ Newest <= Newest'
<1> SUFFICES ASSUME SwitchTypeOK, SwitchMove
             PROVE  SwitchTypeOK' /\ Newest \in Nat /\ Newest' \in Nat /\ Newest <= Newest'
  OBVIOUS
<1>0. Newest \in Nat
  BY DEF SwitchTypeOK
<1>1. ASSUME NEW hb \in Hubs, Listen(hb)
      PROVE SwitchTypeOK' /\ Newest' = Newest
  BY <1>0, <1>1 DEF Listen, SwitchTypeOK
<1>2. ASSUME NEW hb \in Hubs, Deliver(hb)
      PROVE SwitchTypeOK' /\ Newest' = Newest
  <2>1. Head(wire[hb]) \in 1 .. Newest /\ Tail(wire[hb]) \in Seq(1 .. Newest)
    BY <1>2 DEF Deliver, SwitchTypeOK
  <2>2. Value(Head(wire[hb])) \in Positions
    BY <2>1, ValueType
  <2> QED
    BY SMTT(60), <1>0, <1>2, <2>1, <2>2 DEF Deliver, CacheOf, Hear, SwitchTypeOK
<1>3. ASSUME NEW hb \in Hubs, AskRow(hb)
      PROVE SwitchTypeOK' /\ Newest' = Newest
  BY <1>0, <1>3 DEF AskRow, SwitchTypeOK
<1>4. ASSUME NEW hb \in Hubs, ReadRow(hb)
      PROVE SwitchTypeOK' /\ Newest' = Newest
  <2>1. Head(reading[hb]) \in 0 .. Newest
    BY <1>4 DEF ReadRow, SwitchTypeOK
  <2>2. Value(Head(reading[hb])) \in Positions
    BY <2>1, ValueType
  <2> QED
    BY <1>0, <1>4, <2>1, <2>2 DEF ReadRow, CacheOf, Hear, SwitchTypeOK
<1>5. ASSUME NEW hb \in Hubs, ReadFails(hb)
      PROVE SwitchTypeOK' /\ Newest' = Newest
  BY <1>0, <1>5 DEF ReadFails, SwitchTypeOK
<1>6. ASSUME NEW hb \in Hubs, SwitchExit(hb)
      PROVE SwitchTypeOK' /\ Newest' = Newest
  <2>1. press' \in [1 .. Newest -> PressCall]
    <3>1. \A n \in 1 .. Newest : press[n] \in PressCall
      BY DEF SwitchTypeOK, PressCall
    <3>2. \A n \in 1 .. Newest : [press[n] EXCEPT !.pc = "failed"] \in PressCall
      BY <3>1 DEF PressCall
    <3> QED
      BY <1>6, <3>1, <3>2 DEF SwitchExit
  <2> QED
    BY SMTT(60), <1>0, <1>6, <2>1, EmptySeq DEF SwitchExit, SwitchTypeOK, PressCall
<1>7. ASSUME NEW hb \in Hubs, NEW position \in Positions, PressRecord(hb, position)
      PROVE SwitchTypeOK' /\ Newest' = Newest + 1
  <2>1. switchLog' \in Seq(Positions) /\ Newest' = Newest + 1
    BY <1>7 DEF PressRecord, SwitchTypeOK
  <2>2. press' \in [1 .. Newest' -> PressCall]
    <3>1. press \in Seq(PressCall) /\ Len(press) = Newest
      <4>1. press \in [1 .. Newest -> PressCall]
        BY DEF SwitchTypeOK, PressCall
      <4> QED
        BY <1>0, <4>1, FunctionIsSeq
    <3>2. [pc |-> "recorded", at |-> hb] \in PressCall
      BY DEF PressCall
    <3>3. press' \in Seq(PressCall) /\ Len(press') = Newest + 1
      BY <1>7, <3>1, <3>2, AppendProperties DEF PressRecord
    <3> QED
      BY <2>1, <3>3, LenProperties
  <2>3. \A g \in Hubs : wire[g] \in Seq(1 .. Newest')
    BY <1>0, <2>1 DEF SwitchTypeOK
  <2> QED
    BY <1>0, <1>7, <2>1, <2>2, <2>3 DEF PressRecord, SwitchTypeOK, PressCall
<1>8. ASSUME NEW n \in 1 .. Newest, PressCache(n)
      PROVE SwitchTypeOK' /\ Newest' = Newest
  <2>1. Value(n) \in Positions
    BY <1>0, ValueType
  <2>2. press[n] \in PressCall
    BY DEF SwitchTypeOK, PressCall
  <2>3. cached' \in [Hubs -> Positions \cup {"none"}] /\ heard' \in [Hubs -> 0 .. Newest]
    BY <1>0, <1>8, <2>1, <2>2 DEF PressCache, CacheOf, Hear, SwitchTypeOK, PressCall
  <2>4. press' \in [1 .. Newest -> PressCall]
    BY <1>8, PressGoes DEF PressCache, SwitchTypeOK, PressCall
  <2> QED
    BY <1>8, <2>3, <2>4 DEF PressCache, SwitchTypeOK, PressCall
<1>9. ASSUME NEW n \in 1 .. Newest, PressEmit(n)
      PROVE SwitchTypeOK' /\ Newest' = Newest
  <2>1. wire' \in [Hubs -> Seq(1 .. Newest)]
    <3>1. \A hb \in Hubs : wire[hb] \in Seq(1 .. Newest)
      BY DEF SwitchTypeOK
    <3>2. \A hb \in Hubs : Append(wire[hb], n) \in Seq(1 .. Newest)
      BY <3>1, AppendProperties
    <3> QED
      BY <1>9, <3>1, <3>2 DEF PressEmit, Announce
  <2>2. press' \in [1 .. Newest -> PressCall]
    BY <1>9, PressGoes DEF PressEmit, SwitchTypeOK, PressCall
  <2> QED
    BY <1>9, <2>1, <2>2 DEF PressEmit, SwitchTypeOK, PressCall
<1>10. ASSUME NEW n \in 1 .. Newest, PressEmitFails(n)
       PROVE SwitchTypeOK' /\ Newest' = Newest
  <2>1. press' \in [1 .. Newest -> PressCall]
    BY <1>10, PressGoes DEF PressEmitFails, SwitchTypeOK, PressCall
  <2> QED
    BY <1>10, <2>1 DEF PressEmitFails, SwitchTypeOK, PressCall
<1>11. CASE UNCHANGED switchVars
  BY <1>0, <1>11 DEF switchVars, SwitchTypeOK
<1> QED
  BY <1>0, <1>1, <1>2, <1>3, <1>4, <1>5, <1>6, <1>7, <1>8, <1>9, <1>10, <1>11 DEF SwitchMove
-----------------------------------------------------------------------------
(* The switch settles on the newest row.  SettlesOnNewest speaks of a       *)
(* process at rest alone; between two rests a cache may be behind, and is   *)
(* put right by what is still on its way.                                   *)

NoneFailed == \A n \in 1 .. Newest : press[n].pc # "failed"

(* The rows up to here are announced. *)
Announced == IF Newest > 0 /\ ~Returned(Newest) THEN Newest - 1 ELSE Newest

(* A session has the last announcements before it, in order. *)
Ordered(hb) ==
  /\ wire[hb] # <<>> => listening[hb]
  /\ \A i \in 1 .. Len(wire[hb]) : wire[hb][i] = Announced - Len(wire[hb]) + i

(* A cache that is behind what its process heard will hear it again. *)
Behind(hb) == cached[hb] # "none" /\ cached[hb] # Value(heard[hb])

Recovers(hb) == Behind(hb) => listening[hb] /\ heard[hb] > Announced - Len(wire[hb])

SettleInv ==
  /\ SwitchTypeOK
  /\ \A n \in 1 .. Newest : ~Returned(n) => n = Newest
  /\ \A hb \in Hubs : reading[hb] # <<>> => reading[hb] = <<Newest>>
  /\ NoneFailed => \A hb \in Hubs : Ordered(hb) /\ Recovers(hb)

(* It holds before anything is pressed.                                    *)
LEMMA InitSettleInv == SwitchInit => SettleInv
<1> SUFFICES ASSUME SwitchInit PROVE SettleInv
  OBVIOUS
<1>1. SwitchTypeOK /\ Newest = 0 /\ \A hb \in Hubs : Len(wire[hb]) = 0 /\ wire[hb] = <<>>
  BY EmptySeq DEF SwitchInit, SwitchTypeOK
<1> QED
  BY <1>1 DEF SwitchInit, SettleInv, Ordered, Recovers, Behind

(* Each step of the switch keeps it so, if no press overlaps another. *)
LEMMA SwitchMoveSettles == ~Overlaps /\ SettleInv /\ SwitchMove => SettleInv'
<1> SUFFICES ASSUME ~Overlaps, SettleInv, SwitchMove PROVE SettleInv'
  OBVIOUS
<1> USE DEF SettleInv
<1>0. Newest \in Nat /\ SwitchTypeOK' /\ Newest' \in Nat /\ \A hb \in Hubs : wire[hb] \in Seq(1 .. Newest)
  BY SwitchMoveTypeOK DEF SwitchTypeOK
<1>1. ASSUME NEW hb \in Hubs, Listen(hb) PROVE SettleInv'
  BY <1>0, <1>1 DEF Listen, NoneFailed, Announced, Returned, Ordered, Recovers, Behind,
     Value, SwitchTypeOK
<1>2. ASSUME NEW hb \in Hubs, Deliver(hb) PROVE SettleInv'
  <2> USE DEF SwitchTypeOK
  <2>1. UNCHANGED <<switchLog, reading, listening, press>>
    BY <1>2 DEF Deliver
  <2>2. Announced' = Announced /\ (NoneFailed' <=> NoneFailed)
    BY <2>1 DEF Announced, Returned, NoneFailed
  <2>3. ASSUME NoneFailed, NEW g \in Hubs \ {hb} PROVE Ordered(g)' /\ Recovers(g)'
    BY <1>2, <2>1, <2>2, <2>3 DEF Deliver, CacheOf, Hear, Ordered, Recovers, Behind, Value
  <2>4. ASSUME NoneFailed PROVE Ordered(hb)' /\ Recovers(hb)'
    <3> DEFINE k == Head(wire[hb])
    <3>1. /\ wire[hb] # <<>> /\ wire'[hb] = Tail(wire[hb]) /\ cached'[hb] = Value(k)
          /\ heard'[hb] = IF k > heard[hb] THEN k ELSE heard[hb]
      BY <1>2 DEF Deliver, CacheOf, Hear
    <3>2. /\ Len(wire[hb]) \in Nat \ {0} /\ Len(wire'[hb]) = Len(wire[hb]) - 1
          /\ \A i \in 1 .. Len(wire'[hb]) : wire'[hb][i] = wire[hb][i + 1]
          /\ k = wire[hb][1]
      BY <1>0, <3>1, HeadTailProperties
    <3>3. Announced \in Int /\ heard[hb] \in Nat /\ Ordered(hb)
      BY <1>0, <2>4 DEF Announced
    <3>4. Ordered(hb)'
      <4>1. listening'[hb] /\ Announced' = Announced
        BY <2>1, <2>2, <3>1, <3>3 DEF Ordered
      <4>2. ASSUME NEW i \in 1 .. Len(wire'[hb]) PROVE wire'[hb][i] = Announced - Len(wire'[hb]) + i
        <5>1. i + 1 \in 1 .. Len(wire[hb])
          BY <3>2
        <5>3. wire'[hb][i] = wire[hb][i + 1]
          BY <3>2
        <5>2. wire[hb][i + 1] = Announced - Len(wire[hb]) + (i + 1)
          BY <3>3, <5>1 DEF Ordered
        <5> QED
          BY <3>2, <3>3, <5>2, <5>3
      <4> QED
        BY <4>1, <4>2 DEF Ordered
    <3>5. k = Announced - Len(wire'[hb])
      BY <3>2, <3>3 DEF Ordered
    <3> HIDE DEF k
    <3>6. CASE k > heard[hb]
      <4>1. cached'[hb] = Value(k) /\ heard'[hb] = k
        BY <3>1, <3>6
      <4>2. Value(heard[hb])' = Value(k)
        BY <2>1, <4>1 DEF Value
      <4>3. ~Behind(hb)'
        BY <2>1, <4>1, <4>2 DEF Behind, Value
      <4> QED
        BY <3>4, <4>3 DEF Recovers
    <3>7. CASE ~(k > heard[hb])
      <4>1. k = heard[hb] => ~Behind(hb)'
        BY <2>1, <3>1, <3>7 DEF Behind, Value
      <4>2. ASSUME k # heard[hb] PROVE heard'[hb] > Announced - Len(wire'[hb])
        <5>1. heard'[hb] = heard[hb]
          BY <3>1, <3>7
        <5>2. k \in Int
          BY <3>2, <3>3, <3>5
        <5>3. heard[hb] > k
          BY <3>3, <3>7, <4>2, <5>2
        <5> QED
          BY <3>5, <5>1, <5>3
      <4> QED
        BY <2>1, <2>2, <3>1, <3>3, <4>1, <4>2 DEF Recovers, Ordered, Behind
    <3> QED
      BY <3>4, <3>6, <3>7
  <2> QED
    BY <1>0, <2>1, <2>2, <2>3, <2>4 DEF Returned
<1>3. ASSUME NEW hb \in Hubs, AskRow(hb) PROVE SettleInv'
  <2>1. /\ UNCHANGED <<switchLog, press, cached, heard, listening, wire>>
        /\ \A g \in Hubs : reading'[g] = reading[g] \/ reading'[g] = <<Newest>>
    BY <1>3 DEF AskRow, SwitchTypeOK
  <2>2. UNCHANGED Announced /\ (NoneFailed' => NoneFailed) /\ \A n \in 1 .. Newest : Returned(n)' = Returned(n)
    BY <2>1 DEF Announced, NoneFailed, Returned
  <2>3. \A g \in Hubs : Ordered(g)' = Ordered(g) /\ Recovers(g)' = Recovers(g)
    BY <2>1, <2>2 DEF Ordered, Recovers, Behind, Value
  <2> QED
    BY <1>0, <2>1, <2>2, <2>3
<1>4. ASSUME NEW hb \in Hubs, ReadRow(hb) PROVE SettleInv'
  <2> USE DEF SwitchTypeOK
  <2>1. /\ UNCHANGED <<switchLog, press, listening, wire>>
        /\ Head(reading[hb]) = Newest /\ cached'[hb] = Value(Newest) /\ heard'[hb] = Newest
    BY <1>4 DEF ReadRow, CacheOf, Hear
  <2>2. \A g \in Hubs : g # hb => cached'[g] = cached[g] /\ heard'[g] = heard[g]
    BY <1>4 DEF ReadRow, CacheOf, Hear
  <2>3. \A g \in Hubs : reading'[g] = reading[g] \/ reading'[g] = <<>>
    BY <1>4 DEF ReadRow
  <2>4. /\ UNCHANGED Announced /\ (NoneFailed' => NoneFailed)
        /\ \A n \in 1 .. Newest : Returned(n)' = Returned(n)
    BY <2>1 DEF Announced, NoneFailed, Returned
  <2>5. \A g \in Hubs : Ordered(g)' = Ordered(g)
    BY <2>1, <2>4 DEF Ordered
  <2>6. ~Behind(hb)'
    BY <2>1 DEF Behind, Value
  <2>7. \A g \in Hubs : g # hb => Recovers(g)' = Recovers(g)
    BY <2>1, <2>2, <2>4 DEF Recovers, Behind, Value
  <2>8. NoneFailed' => \A g \in Hubs : Ordered(g)' /\ Recovers(g)'
    BY <2>4, <2>5, <2>6, <2>7 DEF Recovers
  <2> QED
    BY <1>0, <2>1, <2>3, <2>4, <2>8
<1>5. ASSUME NEW hb \in Hubs, ReadFails(hb) PROVE SettleInv'
  BY <1>0, <1>5 DEF ReadFails, NoneFailed, Announced, Returned, Ordered, Recovers, Behind,
     Value, SwitchTypeOK
<1>6. ASSUME NEW hb \in Hubs, SwitchExit(hb) PROVE SettleInv'
  <2> USE DEF SwitchTypeOK
  <2>1. /\ UNCHANGED switchLog
        /\ \A n \in 1 .. Newest : press'[n].pc = IF press[n].at = hb /\ ~Returned(n)
                                                 THEN "failed" ELSE press[n].pc
    BY <1>6 DEF SwitchExit, Returned
  <2>2. /\ \A n \in 1 .. Newest : ~Returned(n)' => n = Newest
        /\ \A g \in Hubs : reading'[g] # <<>> => reading'[g] = <<Newest>>
    BY <1>6, <2>1 DEF SwitchExit, Returned
  <2>3. ASSUME NoneFailed' PROVE NoneFailed /\ UNCHANGED Announced
    <3>1. \A n \in 1 .. Newest : press'[n].pc = press[n].pc
      BY <2>1, <2>3 DEF NoneFailed
    <3>2. NoneFailed /\ Newest' = Newest
      BY <2>1, <2>3, <3>1 DEF NoneFailed
    <3>3. Newest > 0 => Newest \in 1 .. Newest
      BY <1>0
    <3> HIDE DEF Newest
    <3>4. Newest > 0 => (Returned(Newest)' <=> Returned(Newest))
      BY <3>1, <3>2, <3>3 DEF Returned
    <3>5. UNCHANGED Announced
      BY <3>2, <3>4 DEF Announced
    <3> QED
      BY <3>2, <3>5
  <2>4. ASSUME NoneFailed', NEW g \in Hubs \ {hb} PROVE Ordered(g)' /\ Recovers(g)'
    BY <1>6, <2>3, <2>4 DEF SwitchExit, Ordered, Recovers, Behind, Value
  <2>5. ASSUME NoneFailed' PROVE Ordered(hb)' /\ Recovers(hb)'
    BY <1>6, EmptySeq DEF SwitchExit, Ordered, Recovers, Behind
  <2> QED
    BY <1>0, <2>1, <2>2, <2>4, <2>5
<1>7. ASSUME NEW hb \in Hubs, NEW position \in Positions, PressRecord(hb, position) PROVE SettleInv'
  <2> USE DEF SwitchTypeOK
  <2>1. /\ UNCHANGED <<cached, heard, reading, listening, wire>>
        /\ \A n \in 1 .. Newest : Returned(n)
        /\ \A g \in Hubs : reading[g] = <<>>
    BY <1>7 DEF PressRecord, Unhurried
  <2>2. Newest' = Newest + 1 /\ \A n \in 1 .. Newest : switchLog'[n] = switchLog[n]
    BY <1>7, AppendProperties DEF PressRecord
  <2>3. press \in Seq(PressCall) /\ Len(press) = Newest
    <3>1. press \in [1 .. Newest -> PressCall]
      BY DEF PressCall
    <3> HIDE DEF PressCall, Newest
    <3> QED
      BY <1>0, <3>1, FunctionIsSeq
  <2>4. (\A n \in 1 .. Newest : press'[n] = press[n]) /\ press'[Newest + 1].pc = "recorded"
    <3>1. [pc |-> "recorded", at |-> hb] \in PressCall
      BY DEF PressCall
    <3>2. press' = Append(press, [pc |-> "recorded", at |-> hb])
      BY <1>7 DEF PressRecord
    <3> HIDE DEF PressCall, Newest
    <3>3. \A n \in 1 .. Newest : press'[n] = press[n]
      BY <2>3, <3>1, <3>2, AppendProperties
    <3>4. press'[Newest + 1] = [pc |-> "recorded", at |-> hb]
      BY <2>3, <3>1, <3>2, AppendProperties
    <3> QED
      BY <3>3, <3>4
  <2>5. \A n \in 1 .. Newest' : ~Returned(n)' => n = Newest'
    <3>1. ASSUME NEW n \in 1 .. Newest', n # Newest' PROVE n \in 1 .. Newest
      BY <1>0, <2>2, <3>1
    <3>2. ASSUME NEW n \in 1 .. Newest PROVE Returned(n)'
      BY <2>1, <2>4, <3>2 DEF Returned
    <3> QED
      BY <3>1, <3>2
  <2>6. UNCHANGED Announced /\ (NoneFailed' => NoneFailed)
    <3>1. NoneFailed' => NoneFailed
      BY <1>0, <2>2, <2>4 DEF NoneFailed
    <3>2. Announced = Newest
      BY <1>0, <2>1 DEF Announced
    <3>3. ~Returned(Newest)' /\ Newest' > 0
      BY <1>0, <2>2, <2>4 DEF Returned
    <3> HIDE DEF Newest
    <3>4. Announced' = Newest
      BY <1>0, <2>2, <3>3 DEF Announced
    <3> QED
      BY <3>1, <3>2, <3>4
  <2>7. \A g \in Hubs : Value(heard[g])' = Value(heard[g])
    BY <1>0, <2>1, <2>2 DEF Value
  <2> QED
    BY <1>0, <2>1, <2>5, <2>6, <2>7 DEF Ordered, Recovers, Behind
<1>8. ASSUME NEW n \in 1 .. Newest, PressCache(n) PROVE SettleInv'
  <2> USE DEF SwitchTypeOK
  <2>1. /\ UNCHANGED <<switchLog, reading, listening, wire>>
        /\ ~Returned(n) /\ n = Newest
        /\ press' = [press EXCEPT ![n].pc = "cached"]
    BY <1>8 DEF PressCache, Returned
  <2>2. /\ \A m \in 1 .. Newest : Returned(m)' = Returned(m)
        /\ \A m \in 1 .. Newest : press'[m].pc = "failed" <=> press[m].pc = "failed"
    BY <1>0, <1>8, <2>1 DEF PressCache, Returned
  <2>3. UNCHANGED Announced /\ (NoneFailed' => NoneFailed)
    BY <1>0, <2>1, <2>2 DEF Announced, NoneFailed
  <2>4. /\ cached' = [cached EXCEPT ![press[n].at] = Value(n)]
        /\ heard' = [heard EXCEPT ![press[n].at] = IF n > @ THEN n ELSE @]
    BY <1>8 DEF PressCache, CacheOf, Hear
  <2>5. ASSUME NEW g \in Hubs, g # press[n].at PROVE cached'[g] = cached[g] /\ heard'[g] = heard[g]
    BY <2>4, <2>5
  <2>6. ASSUME NEW g \in Hubs, g = press[n].at PROVE ~Behind(g)'
    BY <1>0, <2>1, <2>4, <2>6 DEF Behind, Value
  <2>7. ASSUME NoneFailed', NEW g \in Hubs PROVE Ordered(g)' /\ Recovers(g)'
    <3>1. Ordered(g) /\ Recovers(g)
      BY <2>3, <2>7
    <3>2. Ordered(g)'
      BY <2>1, <2>3, <3>1 DEF Ordered
    <3>3. CASE g = press[n].at
      BY <2>6, <3>2, <3>3 DEF Recovers
    <3>4. CASE g # press[n].at
      <4>1. cached'[g] = cached[g] /\ heard'[g] = heard[g]
        BY <2>5, <3>4
      <4>2. Recovers(g)' <=> Recovers(g)
        BY <2>1, <2>3, <4>1 DEF Recovers, Behind, Value
      <4> QED
        BY <3>1, <3>2, <4>2
    <3> QED
      BY <3>3, <3>4
  <2> QED
    BY <1>0, <2>1, <2>2, <2>7
<1>9. ASSUME NEW n \in 1 .. Newest, PressEmit(n) PROVE SettleInv'
  <2> USE DEF SwitchTypeOK
  <2>1. /\ UNCHANGED <<switchLog, cached, heard, reading, listening>>
        /\ ~Returned(n) /\ n = Newest
        /\ press' = [press EXCEPT ![n].pc = "done"]
        /\ \A g \in Hubs : wire'[g] = IF listening[g] THEN Append(wire[g], n) ELSE wire[g]
    BY <1>9 DEF PressEmit, Announce, Returned
  <2>2. /\ \A m \in 1 .. Newest : Returned(m)'
        /\ \A m \in 1 .. Newest : press[m].pc = "failed" => press'[m].pc = "failed"
    BY SMTT(60), <1>0, <2>1 DEF Returned
  <2>3. Announced' = Newest /\ Announced = Newest - 1
    BY <1>0, <2>1, <2>2 DEF Announced
  <2>4. NoneFailed' => NoneFailed
    BY <2>1, <2>2 DEF NoneFailed
  <2>5. ASSUME NoneFailed', NEW g \in Hubs, listening[g] PROVE Ordered(g)' /\ Recovers(g)'
    <3>1. /\ wire[g] \in Seq(1 .. Newest) /\ wire'[g] = Append(wire[g], n)
          /\ Ordered(g) /\ Recovers(g)
      BY <1>0, <2>1, <2>4, <2>5
    <3>2. /\ Len(wire[g]) \in Nat /\ Len(wire'[g]) = Len(wire[g]) + 1
          /\ \A i \in 1 .. Len(wire[g]) : wire'[g][i] = wire[g][i]
          /\ wire'[g][Len(wire[g]) + 1] = Newest
      BY <2>1, <3>1, AppendProperties
    <3>3. Ordered(g)'
      <4>1. listening'[g]
        BY <2>1, <2>5
      <4>2. ASSUME NEW i \in 1 .. Len(wire'[g]) PROVE wire'[g][i] = Newest - Len(wire'[g]) + i
        <5>1. i \in 1 .. Len(wire[g]) \/ i = Len(wire[g]) + 1
          BY <3>2
        <5>2. CASE i \in 1 .. Len(wire[g])
          <6>1. wire[g][i] = Newest - 1 - Len(wire[g]) + i
            BY <2>3, <3>1, <5>2 DEF Ordered
          <6> QED
            BY <3>2, <5>2, <6>1
        <5>3. CASE i = Len(wire[g]) + 1
          BY <3>2, <5>3
        <5> QED
          BY <5>1, <5>2, <5>3
      <4> QED
        BY <2>3, <4>1, <4>2 DEF Ordered
    <3>4. Recovers(g)'
      BY <1>0, <2>1, <2>3, <2>4, <2>5, <3>1, <3>2 DEF Recovers, Behind, Value
    <3> QED
      BY <3>3, <3>4
  <2>6. ASSUME NoneFailed', NEW g \in Hubs, ~listening[g] PROVE Ordered(g)' /\ Recovers(g)'
    <3>1. Ordered(g) /\ Recovers(g) /\ wire'[g] = wire[g]
      BY <2>1, <2>4, <2>6
    <3>2. wire[g] = <<>> /\ Len(wire[g]) = 0
      BY <2>6, <3>1, EmptySeq DEF Ordered
    <3>3. Ordered(g)'
      BY <3>1, <3>2 DEF Ordered
    <3>4. ~Behind(g) /\ (Behind(g)' <=> Behind(g))
      BY <2>1, <2>6, <3>1 DEF Recovers, Behind, Value
    <3> QED
      BY <3>3, <3>4 DEF Recovers
  <2> QED
    BY <1>0, <2>1, <2>2, <2>5, <2>6
<1>10. ASSUME NEW n \in 1 .. Newest, PressEmitFails(n) PROVE SettleInv'
  <2>1. /\ UNCHANGED <<switchLog, reading>> /\ press'[n].pc = "failed"
        /\ \A m \in 1 .. Newest : m # n => press'[m] = press[m]
    BY <1>10 DEF PressEmitFails, SwitchTypeOK
  <2>2. ~NoneFailed'
    BY <2>1 DEF NoneFailed
  <2>3. \A m \in 1 .. Newest : ~Returned(m)' => m = Newest
    BY <2>1 DEF Returned
  <2> QED
    BY <1>0, <2>1, <2>2, <2>3
<1>11. CASE UNCHANGED switchVars
  BY <1>0, <1>11 DEF switchVars, NoneFailed, Announced, Returned, Ordered, Recovers,
     Behind, Value, SwitchTypeOK
<1> QED
  BY <1>1, <1>2, <1>3, <1>4, <1>5, <1>6, <1>7, <1>8, <1>9, <1>10, <1>11 DEF SwitchMove

(* A process at rest is behind nothing it has heard. *)
LEMMA SettledAtRest == SettleInv => SettlesOnNewest
<1> SUFFICES ASSUME SettleInv, NEW hb \in Hubs, Quiet(hb), cached[hb] # "none"
             PROVE  cached[hb] = Value(heard[hb])
  BY DEF SettlesOnNewest
<1>1. NoneFailed /\ Announced = Newest
  BY DEF Quiet, NoneFailed, Announced, Returned
<1>2. Len(wire[hb]) = 0 /\ heard[hb] <= Newest /\ Newest \in Nat
  BY EmptySeq DEF Quiet, SettleInv, SwitchTypeOK
<1> QED
  BY <1>1, <1>2 DEF SettleInv, SwitchTypeOK, Recovers, Behind

(* However presses, notifications and first reads reach a cache, a process *)
(* at rest acts on the newest row it has heard of, as long as no press     *)
(* begins before the one before it has returned.                           *)
THEOREM SwitchSettles == ~Overlaps => (SwitchSpec => []SettlesOnNewest)
<1> SUFFICES ASSUME ~Overlaps PROVE SwitchSpec => []SettlesOnNewest
  OBVIOUS
<1>1. SettleInv /\ [SwitchNext]_switchVars => SettleInv'
  BY SwitchMoveSettles DEF SwitchNext, SwitchMove
<1> QED
  BY InitSettleInv, <1>1, SettledAtRest, PTL DEF SwitchSpec

-----------------------------------------------------------------------------
(* Types of the scheduler.                                                 *)

TickRecord(n) ==
  [pc : {"idle", "asking", "looping", "running"},
   todo : Seq(Jobs), job : Jobs \cup {NoJob}, from : 0 .. n]

LEMMA InitJobInv == Init => JobInv
<1> SUFFICES ASSUME Init PROVE JobInv
  OBVIOUS
<1>1. SwitchTypeOK
  BY EmptySeq DEF Init, SwitchInit, SwitchTypeOK
<1>2. TypeOK
  BY <1>1, EmptySeq DEF Init, SwitchInit, TypeOK, NoTick
<1> QED
  BY <1>2 DEF Init, JobInv, Exclusive, Counted, Owed, Running, NoTick

LEMMA NoTickType == ASSUME NEW n \in Nat PROVE NoTick \in TickRecord(n)
  BY EmptySeq DEF NoTick, TickRecord

LEMMA VisitType ==
  ASSUME NEW todo \in Seq(Jobs), NEW n \in Nat, NEW row \in 0 .. n
  PROVE  Visit(todo, row) \in TickRecord(n)
  BY NoTickType DEF Visit, TickRecord

LEMMA RegisteredType == ASSUME NEW hb PROVE Registered(hb) \in Seq(Jobs)
  BY ConcatProperties DEF Registered

(* Every step is a step of the switch, or leaves it alone.                 *)
LEMMA NextMovesSwitch == [Next]_vars => SwitchMove
<1> SUFFICES ASSUME [Next]_vars PROVE SwitchMove
  OBVIOUS
<1>1. CASE SwitchStep
  BY <1>1 DEF SwitchStep, SwitchMove
<1>2. ASSUME NEW hb \in Hubs, TickAsks(hb) \/ TickReads(hb) \/ TickFails(hb) PROVE SwitchMove
  BY <1>2 DEF TickAsks, TickReads, TickFails, SwitchMove
<1>3. ASSUME NEW hb \in Hubs, Exit(hb) \/ Crash(hb) PROVE SwitchMove
  BY <1>3 DEF Exit, Crash, Ends, SwitchMove
<1>4. ASSUME NEW hb \in Hubs,
             \/ Boot(hb) \/ Open(hb) \/ Stop(hb) \/ TickCached(hb)
             \/ Claim(hb) \/ PassOver(hb) \/ Release(hb)
      PROVE SwitchMove
  BY <1>4 DEF Boot, Open, Stop, TickCached, Claim, PassOver, Release, SwitchMove
<1>5. ASSUME NEW j \in Jobs, Fire(j) PROVE SwitchMove
  BY <1>5 DEF Fire, SwitchMove
<1>6. CASE UNCHANGED vars
  BY <1>6 DEF vars, SwitchMove
<1> QED
  BY <1>1, <1>2, <1>3, <1>4, <1>5, <1>6 DEF Next, TickStep

(* So it settles under a scheduler too, whose processes open their session *)
(* when they boot and lose it when they end.                               *)
THEOREM SchedulerSettles == ~Overlaps => (Spec => []SettlesOnNewest)
<1> SUFFICES ASSUME ~Overlaps PROVE Spec => []SettlesOnNewest
  OBVIOUS
<1>1. Init => SettleInv
  BY InitSettleInv DEF Init
<1>2. SettleInv /\ [Next]_vars => SettleInv'
  BY NextMovesSwitch, SwitchMoveSettles
<1> QED
  BY <1>1, <1>2, SettledAtRest, PTL DEF Spec

JobTypeOK ==
  /\ stage \in [Hubs -> Stages]
  /\ claimed \in [Jobs -> BOOLEAN]
  /\ due \in [Jobs -> BOOLEAN]
  /\ fires \in [Jobs -> 0 .. MaxFires]
  /\ runs \in [Jobs -> Nat]
  /\ faults \in 0 .. MaxFaults

TickTyped == tick \in [Hubs -> TickRecord(Newest)]

LEMMA NextTypeOK == TypeOK /\ [Next]_vars => TypeOK'
<1> SUFFICES ASSUME TypeOK, [Next]_vars PROVE TypeOK'
  OBVIOUS
<1>1. Newest \in Nat /\ JobTypeOK /\ TickTyped
  BY DEF TypeOK, JobTypeOK, SwitchTypeOK, TickTyped, TickRecord
<1>2. SwitchTypeOK' /\ Newest' \in Nat /\ Newest <= Newest'
  BY NextMovesSwitch, SwitchMoveTypeOK DEF TypeOK
<1>3. tick \in [Hubs -> TickRecord(Newest')]
  BY <1>1, <1>2 DEF TickRecord, TickTyped
<1>4. \A hb \in Hubs : \A t \in TickRecord(Newest') :
        tick' = [tick EXCEPT ![hb] = t] => TickTyped'
  <2>1. \A hb \in Hubs : \A t \in TickRecord(Newest') :
          [tick EXCEPT ![hb] = t] \in [Hubs -> TickRecord(Newest')]
    BY <1>3
  <2>2. TickTyped' <=> tick' \in [Hubs -> TickRecord(Newest')]
    BY DEF TickTyped, TickRecord
  <2> QED
    BY <2>1, <2>2
<1>5. tick' = tick => TickTyped'
  BY <1>3 DEF TickTyped, TickRecord
<1>6. \A hb \in Hubs : tick[hb] \in TickRecord(Newest')
  BY <1>3
<1>7. \A hb \in Hubs : Settled(hb) \in 0 .. Newest'
  BY <1>1, <1>2 DEF Settled, SwitchTypeOK, TypeOK
<1> HIDE DEF Newest, Positions, Stages
<1>8. CASE SwitchStep
  <2>1. TickTyped'
    BY <1>5, <1>8 DEF SwitchStep
  <2>2. JobTypeOK'
    BY <1>1, <1>8 DEF SwitchStep, JobTypeOK, jobVars
  <2> QED
    BY <1>2, <2>1, <2>2 DEF TypeOK, JobTypeOK, TickTyped, TickRecord
<1>9. ASSUME NEW j \in Jobs, Fire(j) PROVE JobTypeOK' /\ TickTyped'
  <2>1. TickTyped'
    BY <1>5, <1>9 DEF Fire
  <2> QED
    BY <1>1, <1>9, <2>1 DEF Fire, JobTypeOK
<1>10. ASSUME NEW hb \in Hubs, Boot(hb) \/ Open(hb) \/ Stop(hb) PROVE JobTypeOK' /\ TickTyped'
  <2>1. TickTyped'
    BY <1>5, <1>10 DEF Boot, Open, Stop
  <2>2. stage' \in [Hubs -> Stages]
    BY <1>1, <1>10 DEF Boot, Open, Stop, JobTypeOK, Stages
  <2>3. faults' \in 0 .. MaxFaults
    BY <1>1, <1>10 DEF Boot, Open, Stop, Fault, JobTypeOK
  <2> QED
    BY <1>1, <1>10, <2>1, <2>2, <2>3 DEF Boot, Open, Stop, JobTypeOK, jobVars
<1>11. ASSUME NEW hb \in Hubs, Exit(hb) \/ Crash(hb) PROVE JobTypeOK' /\ TickTyped'
  <2>1. TickTyped'
    BY <1>2, <1>4, <1>11, NoTickType DEF Exit, Crash, Ends
  <2>2. stage' \in [Hubs -> Stages]
    BY <1>1, <1>11 DEF Exit, Crash, Ends, JobTypeOK, Stages
  <2>3. faults' \in 0 .. MaxFaults
    BY <1>1, <1>11 DEF Exit, Crash, Fault, JobTypeOK
  <2> QED
    BY <1>1, <1>11, <2>1, <2>2, <2>3 DEF Exit, Crash, Ends, JobTypeOK, jobVars
<1>12. ASSUME NEW hb \in Hubs, NEW position, NEW row \in 0 .. Newest',
              AfterSwitch(hb, position, row)
       PROVE  TickTyped'
  <2>1. Visit(Registered(hb), row) \in TickRecord(Newest')
    BY <1>2, VisitType, RegisteredType
  <2> QED
    BY <1>2, <1>4, <1>12, <2>1, NoTickType DEF AfterSwitch
<1>13. ASSUME NEW hb \in Hubs, TickCached(hb) PROVE JobTypeOK' /\ TickTyped'
  <2>1. TickTyped'
    BY <1>7, <1>12, <1>13 DEF TickCached
  <2> QED
    BY <1>1, <1>13, <2>1 DEF TickCached, Ticking, JobTypeOK, jobVars, Stages
<1>14. ASSUME NEW hb \in Hubs, TickAsks(hb) PROVE JobTypeOK' /\ TickTyped'
  <2>1. [tick[hb] EXCEPT !.pc = "asking"] \in TickRecord(Newest')
    BY <1>6 DEF TickRecord
  <2>2. TickTyped'
    BY <1>3, <1>4, <1>14, <2>1 DEF TickAsks
  <2> QED
    BY <1>1, <1>14, <2>2 DEF TickAsks, Ticking, JobTypeOK, jobVars, Stages
<1>15. ASSUME NEW hb \in Hubs, TickReads(hb) PROVE JobTypeOK' /\ TickTyped'
  <2>1. Head(reading[hb]) \in 0 .. Newest'
    BY <1>1, <1>2, <1>15 DEF TickReads, ReadRow, TypeOK, SwitchTypeOK
  <2>2. TickTyped'
    BY <1>12, <1>15, <2>1 DEF TickReads
  <2> QED
    BY <1>1, <1>15, <2>2 DEF TickReads, JobTypeOK, jobVars
<1>16. ASSUME NEW hb \in Hubs, Claim(hb) PROVE JobTypeOK' /\ TickTyped'
  <2> DEFINE j == Head(tick[hb].todo)
             t == [tick[hb] EXCEPT !.pc = "running", !.todo = Tail(@), !.job = j]
  <2>1. j \in Jobs /\ Tail(tick[hb].todo) \in Seq(Jobs)
    BY <1>6, <1>16 DEF Claim, TickRecord
  <2>2. t \in TickRecord(Newest')
    BY <1>6, <2>1 DEF TickRecord
  <2>3. TickTyped'
    BY <1>3, <1>4, <1>16, <2>2 DEF Claim
  <2>4. claimed' = [claimed EXCEPT ![j] = TRUE] /\ runs' = [runs EXCEPT ![j] = @ + 1]
    BY <1>16 DEF Claim
  <2>5. UNCHANGED <<stage, due, fires, faults>>
    BY <1>16 DEF Claim
  <2> HIDE DEF j
  <2>6. runs' \in [Jobs -> Nat]
    BY <1>1, <2>1, <2>4 DEF JobTypeOK
  <2>7. claimed' \in [Jobs -> BOOLEAN]
    BY <1>1, <2>4 DEF JobTypeOK
  <2> QED
    BY <1>1, <2>3, <2>5, <2>6, <2>7 DEF JobTypeOK
<1>17. ASSUME NEW hb \in Hubs, PassOver(hb) PROVE JobTypeOK' /\ TickTyped'
  <2>1. Visit(Tail(tick[hb].todo), tick[hb].from) \in TickRecord(Newest')
    <3>1. Tail(tick[hb].todo) \in Seq(Jobs) /\ tick[hb].from \in 0 .. Newest'
      BY <1>6, <1>17 DEF PassOver, TickRecord
    <3> QED
      BY <1>2, <3>1, VisitType
  <2>2. TickTyped'
    BY <1>3, <1>4, <1>17, <2>1 DEF PassOver
  <2> QED
    BY <1>1, <1>17, <2>2 DEF PassOver, JobTypeOK, jobVars
<1>18. ASSUME NEW hb \in Hubs, Release(hb) PROVE JobTypeOK' /\ TickTyped'
  <2>1. Visit(tick[hb].todo, tick[hb].from) \in TickRecord(Newest')
    BY <1>2, <1>6, VisitType DEF TickRecord
  <2>2. TickTyped'
    BY <1>3, <1>4, <1>18, <2>1 DEF Release
  <2> QED
    BY <1>1, <1>18, <2>2 DEF Release, NextRun, JobTypeOK
<1>19. ASSUME NEW hb \in Hubs, TickFails(hb) PROVE JobTypeOK' /\ TickTyped'
  <2>1. TickTyped'
    BY <1>2, <1>4, <1>19, NoTickType DEF TickFails
  <2> QED
    BY <1>1, <1>19, <2>1 DEF TickFails, Fault, JobTypeOK, jobVars
<1>20. CASE UNCHANGED vars
  BY <1>1, <1>2, <1>3, <1>20 DEF vars, jobVars, TypeOK, JobTypeOK, TickRecord
<1>21. (JobTypeOK /\ TickTyped)' => TypeOK'
  BY <1>2 DEF TypeOK, JobTypeOK, TickTyped, TickRecord
<1> QED
  BY <1>8, <1>9, <1>10, <1>11, <1>13, <1>14, <1>15, <1>16, <1>17, <1>18, <1>19, <1>20, <1>21
  DEF Next, TickStep
-----------------------------------------------------------------------------
(* The claim is held by the tick that runs the handler, and by no other.   *)

LEMMA NextExclusive == TypeOK /\ Exclusive /\ [Next]_vars => Exclusive'
<1> SUFFICES ASSUME TypeOK, Exclusive, [Next]_vars PROVE Exclusive'
  OBVIOUS
<1>1. \A hb \in Hubs : tick[hb].job \in Jobs \cup {NoJob} /\ tick[hb].todo \in Seq(Jobs)
  BY DEF TypeOK
<1>2. tick' = tick /\ claimed' = claimed => Exclusive'
  BY DEF Exclusive, Running
<1>3. ASSUME NEW hb \in Hubs, NEW t, t.pc # "running",
             tick' = [tick EXCEPT ![hb] = t], claimed' = claimed
      PROVE  Exclusive'
  <2>1. \A g \in Hubs : Running(g)' => Running(g) /\ tick'[g] = tick[g]
    BY <1>3 DEF Running, TypeOK
  <2> QED
    BY <1>3, <2>1 DEF Exclusive
<1>4. NoTick.pc # "running" /\ \A todo, row : Visit(todo, row).pc # "running"
  BY DEF Visit, NoTick
<1>5. CASE SwitchStep
  BY <1>2, <1>5 DEF SwitchStep, jobVars
<1>6. ASSUME NEW j \in Jobs, Fire(j) PROVE Exclusive'
  BY <1>2, <1>6 DEF Fire
<1>7. ASSUME NEW hb \in Hubs, Boot(hb) \/ Open(hb) \/ Stop(hb) PROVE Exclusive'
  BY <1>2, <1>7 DEF Boot, Open, Stop, jobVars
<1>8. ASSUME NEW hb \in Hubs, Exit(hb) \/ Crash(hb) \/ TickFails(hb) PROVE Exclusive'
  <2>1. tick' = [tick EXCEPT ![hb] = NoTick] /\ claimed' = claimed
    BY <1>8 DEF Exit, Crash, Ends, TickFails, jobVars
  <2> QED
    BY <1>3, <1>4, <2>1
<1>9. ASSUME NEW hb \in Hubs, TickCached(hb) \/ TickReads(hb) PROVE Exclusive'
  <2>1. PICK t : t.pc # "running" /\ tick' = [tick EXCEPT ![hb] = t]
    BY <1>4, <1>9 DEF TickCached, TickReads, AfterSwitch
  <2>2. claimed' = claimed
    BY <1>9 DEF TickCached, TickReads, jobVars
  <2> QED
    BY <1>3, <2>1, <2>2
<1>10. ASSUME NEW hb \in Hubs, TickAsks(hb) PROVE Exclusive'
  <2>1. [tick[hb] EXCEPT !.pc = "asking"].pc # "running"
    BY DEF TypeOK
  <2>2. tick' = [tick EXCEPT ![hb] = [tick[hb] EXCEPT !.pc = "asking"]] /\ claimed' = claimed
    BY <1>10 DEF TickAsks, jobVars
  <2> QED
    BY <1>3, <2>1, <2>2
<1>11. ASSUME NEW hb \in Hubs, PassOver(hb) PROVE Exclusive'
  <2>1. tick' = [tick EXCEPT ![hb] = Visit(Tail(tick[hb].todo), tick[hb].from)]
    BY <1>11 DEF PassOver
  <2>2. claimed' = claimed
    BY <1>11 DEF PassOver, jobVars
  <2> QED
    BY <1>3, <1>4, <2>1, <2>2
<1>12. ASSUME NEW hb \in Hubs, Claim(hb) PROVE Exclusive'
  <2> DEFINE j == Head(tick[hb].todo)
  <2>1. j \in Jobs /\ ~claimed[j] /\ claimed' = [claimed EXCEPT ![j] = TRUE]
    BY <1>1, <1>12 DEF Claim, Claimable
  <2>2. Running(hb)' /\ tick'[hb].job = j
    BY <1>12 DEF Claim, Running, TypeOK
  <2>3. \A g \in Hubs \ {hb} : tick'[g] = tick[g]
    BY <1>12 DEF Claim, TypeOK
  <2> HIDE DEF j
  <2>4. \A g \in Hubs \ {hb} : Running(g)' => Running(g) /\ tick'[g].job = tick[g].job /\ tick[g].job # j
    BY <2>1, <2>3 DEF Running, Exclusive
  <2>5. \A i \in Jobs : claimed[i] => claimed'[i]
    BY <2>1 DEF TypeOK
  <2>6. claimed'[j]
    BY <2>1 DEF TypeOK
  <2> QED
    BY <2>1, <2>2, <2>4, <2>5, <2>6 DEF Exclusive
<1>13. ASSUME NEW hb \in Hubs, Release(hb) PROVE Exclusive'
  <2> DEFINE j == tick[hb].job
  <2>1. Running(hb) /\ claimed' = [claimed EXCEPT ![j] = FALSE]
    BY <1>13 DEF Release, Running
  <2>2. \A g \in Hubs : Running(g)' => Running(g) /\ tick'[g] = tick[g] /\ g # hb
    BY <1>4, <1>13 DEF Release, Running, TypeOK
  <2>3. \A g \in Hubs : Running(g)' => tick[g].job # j
    BY <2>1, <2>2 DEF Exclusive
  <2>4. \A i \in Jobs : i # j => claimed'[i] = claimed[i]
    BY <2>1 DEF TypeOK
  <2> QED
    BY <2>2, <2>3, <2>4 DEF Exclusive
<1>14. CASE UNCHANGED vars
  BY <1>2, <1>14 DEF vars, jobVars
<1> QED
  BY <1>5, <1>6, <1>7, <1>8, <1>9, <1>10, <1>11, <1>12, <1>13, <1>14 DEF Next, TickStep

(* A run is begun against a due time, and uses it up: the row stays        *)
(* claimed until it is no longer due.                                      *)
LEMMA NextCounted == TypeOK /\ Counted /\ [Next]_vars => Counted'
<1> SUFFICES ASSUME TypeOK, Counted, [Next]_vars PROVE Counted'
  OBVIOUS
<1>1. \A j \in Jobs : runs[j] \in Nat /\ fires[j] \in Nat /\ claimed[j] \in BOOLEAN /\ due[j] \in BOOLEAN
  BY DEF TypeOK
<1>2. UNCHANGED jobVars => Counted'
  BY DEF jobVars, Counted, Owed
<1>3. ASSUME NEW j \in Jobs, Fire(j) PROVE Counted'
  <2>1. ~due[j] /\ fires' = [fires EXCEPT ![j] = @ + 1] /\ runs' = runs
    BY <1>3 DEF Fire
  <2>2. \A i \in Jobs : i # j => Owed(i)' = Owed(i) /\ fires'[i] = fires[i]
    BY <1>3 DEF Fire, Owed, TypeOK
  <2>3. Owed(j) = 0 /\ Owed(j)' \in {0, 1} /\ fires'[j] = fires[j] + 1
    BY <2>1 DEF Owed, TypeOK
  <2> QED
    BY <1>1, <2>1, <2>2, <2>3 DEF Counted
<1>4. ASSUME NEW hb \in Hubs, Claim(hb) PROVE Counted'
  <2>0. Head(tick[hb].todo) \in Jobs
    BY <1>4 DEF Claim, TypeOK
  <2>1. PICK j \in Jobs :
        /\ ~claimed[j] /\ due[j]
        /\ claimed' = [claimed EXCEPT ![j] = TRUE]
        /\ runs' = [runs EXCEPT ![j] = @ + 1]
        /\ due' = due /\ fires' = fires
    BY <2>0, <1>4 DEF Claim, Claimable
  <2>2. \A i \in Jobs : i # j => Owed(i)' = Owed(i) /\ runs'[i] = runs[i]
    BY <2>1 DEF Owed, TypeOK
  <2>3. Owed(j) = 1 /\ Owed(j)' = 0 /\ runs'[j] = runs[j] + 1
    BY <2>1 DEF Owed, TypeOK
  <2> QED
    BY <1>1, <2>1, <2>2, <2>3 DEF Counted
<1>5. ASSUME NEW hb \in Hubs, Release(hb) PROVE Counted'
  <2>1. PICK j :
        /\ claimed' = [claimed EXCEPT ![j] = FALSE]
        /\ due' = [due EXCEPT ![j] = FALSE]
        /\ runs' = runs /\ fires' = fires
    BY <1>5 DEF Release, NextRun
  <2>2. \A i \in Jobs : i # j => Owed(i)' = Owed(i)
    BY <2>1 DEF Owed, TypeOK
  <2>3. j \in Jobs => Owed(j)' = 0 /\ Owed(j) \in {0, 1}
    BY <2>1 DEF Owed, TypeOK
  <2> QED
    BY <1>1, <2>1, <2>2, <2>3 DEF Counted
<1>6. CASE UNCHANGED vars
  BY <1>2, <1>6 DEF vars
<1> QED
  BY <1>2, <1>3, <1>4, <1>5, <1>6
  DEF Next, TickStep, SwitchStep, Boot, Open, Stop, Exit, Crash, Ends,
      TickCached, TickAsks, TickReads, PassOver, TickFails

-----------------------------------------------------------------------------
(* The inductive invariant of the scheduler: types, the claim of every     *)
(* running handler, and the count of due times used up.                    *)
THEOREM JobInvariant == Spec => []JobInv
<1>1. JobInv /\ [Next]_vars => JobInv'
  BY NextTypeOK, NextExclusive, NextCounted DEF JobInv
<1> QED
  BY InitJobInv, <1>1, PTL DEF Spec

(* The jobs table, the ticks and the processes keep their types.           *)
THEOREM TypeCorrect == Spec => []TypeOK
<1>1. JobInv => TypeOK
  BY DEF JobInv
<1> QED
  BY JobInvariant, <1>1, PTL

(* No two ticks, of however many processes, are ever in the handler of the *)
(* same job (runOne's claim, scheduler.ts).                                *)
THEOREM HandlersExclude == Spec => []JobsNeverOverlap
<1>1. JobInv => JobsNeverOverlap
  BY DEF JobInv, Exclusive, Running, JobsNeverOverlap
<1> QED
  BY JobInvariant, <1>1, PTL

(* A handler is begun at most as often as its job fell due, whatever       *)
(* crashes and whichever statement of a tick fails.                        *)
THEOREM BegunOncePerDue == Spec => []OncePerDue
<1>1. JobInv => OncePerDue
  <2> SUFFICES ASSUME JobInv, NEW j \in Jobs PROVE runs[j] <= fires[j]
    BY DEF OncePerDue
  <2>1. runs[j] \in Nat /\ fires[j] \in Nat
    BY DEF JobInv, TypeOK
  <2>2. runs[j] + Owed(j) <= fires[j] /\ Owed(j) \in {0, 1}
    BY DEF JobInv, Counted, Owed
  <2> QED
    BY <2>1, <2>2
<1> QED
  BY JobInvariant, <1>1, PTL
=============================================================================
