------------------------------ MODULE KillSwitch ------------------------------
(***************************************************************************)
(* The kill switch of the hub (packages/kernel/src/kill-switch.ts) and the *)
(* NOTIFY channel that carries it between processes (events.ts).           *)
(*                                                                         *)
(* The newest kill_switch.set row of audit_log is the switch; a process    *)
(* answers isOn() from a cache which it fills from that row once, and from *)
(* then on from its own presses and from the omnis_control notifications.  *)
(* A row is named by its number, and so is the notification about it.      *)
(***************************************************************************)
EXTENDS Naturals, Sequences

CONSTANTS
  Hubs,       \* processes with a kernel
  MaxPresses, \* bound on the calls of POST /kill-switch
  Overlaps    \* whether a press may begin before an earlier one has returned

ASSUME SwitchAssumption == MaxPresses \in Nat /\ Overlaps \in BOOLEAN

VARIABLES
  switchLog,  \* audit_log rows of kill_switch.set, oldest first
  cached,     \* the process's `cached`, "none" before the first read
  heard,      \* the newest row the process has heard of (history)
  reading,    \* the row an isOn() whose SELECT is not answered yet has seen
  listening,  \* the process's LISTEN session is up
  wire,       \* notifications on their way to that session
  press       \* the call of set() behind each row

switchVars == <<switchLog, cached, heard, reading, listening, wire, press>>

Positions == {"on", "off"}
Newest == Len(switchLog)
Value(n) == IF n = 0 THEN "off" ELSE switchLog[n]

SwitchTypeOK ==
  /\ switchLog \in Seq(Positions)
  /\ cached \in [Hubs -> Positions \cup {"none"}]
  /\ heard \in [Hubs -> 0 .. Newest]
  /\ reading \in [Hubs -> {<<>>} \cup {<<n>> : n \in 0 .. Newest}]
  /\ listening \in [Hubs -> BOOLEAN]
  /\ wire \in [Hubs -> Seq(1 .. Newest)]
  /\ press \in [1 .. Newest -> [pc : {"recorded", "cached", "done", "failed"}, at : Hubs]]

SwitchInit ==
  /\ switchLog = <<>>
  /\ cached = [h \in Hubs |-> "none"]
  /\ heard = [h \in Hubs |-> 0]
  /\ reading = [h \in Hubs |-> <<>>]
  /\ listening = [h \in Hubs |-> FALSE]
  /\ wire = [h \in Hubs |-> <<>>]
  /\ press = <<>>

Hear(h, n) == heard' = [heard EXCEPT ![h] = IF n > @ THEN n ELSE @]

-----------------------------------------------------------------------------
(* The process's own LISTEN session, opened when the kernel subscribes.    *)

Listen(h) ==
  /\ ~listening[h]
  /\ listening' = [listening EXCEPT ![h] = TRUE]
  /\ UNCHANGED <<switchLog, cached, heard, reading, wire, press>>

CacheOnce(h, n) ==
  IF cached[h] = "none" THEN [cached EXCEPT ![h] = Value(n)] ELSE cached

CacheOf(h, n) == [cached EXCEPT ![h] = Value(n)]

Deliver(h) ==
  /\ wire[h] # <<>>
  /\ cached' = CacheOf(h, Head(wire[h]))
  /\ Hear(h, Head(wire[h]))
  /\ wire' = [wire EXCEPT ![h] = Tail(@)]
  /\ UNCHANGED <<switchLog, reading, listening, press>>

-----------------------------------------------------------------------------
(* isOn(): the cache, or else the newest row, which then fills the cache   *)
(* whatever has happened to it while the SELECT was under way.             *)

AskRow(h) ==
  /\ cached[h] = "none"
  /\ reading[h] = <<>>
  /\ reading' = [reading EXCEPT ![h] = <<Newest>>]
  /\ UNCHANGED <<switchLog, cached, heard, listening, wire, press>>

ReadRow(h) ==
  /\ reading[h] # <<>>
  /\ cached' = CacheOf(h, Head(reading[h]))
  /\ Hear(h, Head(reading[h]))
  /\ reading' = [reading EXCEPT ![h] = <<>>]
  /\ UNCHANGED <<switchLog, listening, wire, press>>

ReadFails(h) ==
  /\ reading[h] # <<>>
  /\ reading' = [reading EXCEPT ![h] = <<>>]
  /\ UNCHANGED <<switchLog, cached, heard, listening, wire, press>>

-----------------------------------------------------------------------------
(* set(): the audit row, the cache, the NOTIFY, which waits for the own    *)
(* LISTEN session and may fail: then the caller gets an error.             *)

Returned(n) == press[n].pc \in {"done", "failed"}

Unhurried ==
  /\ \A n \in 1 .. Newest : Returned(n)
  /\ \A h \in Hubs : reading[h] = <<>>

PressRecord(h, position) ==
  /\ Newest < MaxPresses
  /\ Overlaps \/ Unhurried
  /\ switchLog' = Append(switchLog, position)
  /\ press' = Append(press, [pc |-> "recorded", at |-> h])
  /\ UNCHANGED <<cached, heard, reading, listening, wire>>

PressCache(n) ==
  /\ press[n].pc = "recorded"
  /\ cached' = CacheOf(press[n].at, n)
  /\ Hear(press[n].at, n)
  /\ press' = [press EXCEPT ![n].pc = "cached"]
  /\ UNCHANGED <<switchLog, reading, listening, wire>>

AnnounceAtHome(n) ==
  wire' = [wire EXCEPT ![press[n].at] = Append(@, n)]

Announce(n) ==
  wire' = [h \in Hubs |-> IF listening[h] THEN Append(wire[h], n) ELSE wire[h]]

PressEmit(n) ==
  /\ press[n].pc = "cached"
  /\ listening[press[n].at]
  /\ Announce(n)
  /\ press' = [press EXCEPT ![n].pc = "done"]
  /\ UNCHANGED <<switchLog, cached, heard, reading, listening>>

PressEmitFails(n) ==
  /\ press[n].pc = "cached"
  /\ press' = [press EXCEPT ![n].pc = "failed"]
  /\ UNCHANGED <<switchLog, cached, heard, reading, listening, wire>>

-----------------------------------------------------------------------------
(* The process ends: its memory and its session go, its calls go unheard.  *)

SwitchExit(h) ==
  /\ cached' = [cached EXCEPT ![h] = "none"]
  /\ heard' = [heard EXCEPT ![h] = 0]
  /\ reading' = [reading EXCEPT ![h] = <<>>]
  /\ listening' = [listening EXCEPT ![h] = FALSE]
  /\ wire' = [wire EXCEPT ![h] = <<>>]
  /\ press' = [n \in 1 .. Newest |->
       IF press[n].at = h /\ ~Returned(n) THEN [press[n] EXCEPT !.pc = "failed"]
                                           ELSE press[n]]
  /\ UNCHANGED switchLog

-----------------------------------------------------------------------------
(* The switch by itself: any process may start, ask, be pressed and end.   *)

SwitchNext ==
  \/ \E h \in Hubs :
       \/ Listen(h) \/ Deliver(h)
       \/ AskRow(h) \/ ReadRow(h) \/ ReadFails(h)
       \/ \E position \in Positions : PressRecord(h, position)
       \/ SwitchExit(h)
  \/ \E n \in 1 .. Newest : PressCache(n) \/ PressEmit(n) \/ PressEmitFails(n)

(* The NOTIFY statement ends, and Postgres delivers what it has accepted   *)
(* to a session that lives.                                                *)
SwitchSpec ==
  /\ SwitchInit /\ [][SwitchNext]_switchVars
  /\ \A h \in Hubs : WF_switchVars(Deliver(h))
  /\ WF_switchVars(\E n \in 1 .. Newest : PressEmit(n) \/ PressEmitFails(n))

-----------------------------------------------------------------------------
(* Nothing that will touch the cache of h is under way, and every row was  *)
(* announced: a press that failed, or whose process died, has told its     *)
(* caller so.                                                              *)
Quiet(h) ==
  /\ wire[h] = <<>>
  /\ reading[h] = <<>>
  /\ \A n \in 1 .. Newest : press[n].pc = "done"

(* A process at rest acts on the newest row it has heard of: presses,      *)
(* notifications and first reads, in whatever order they reach the cache,  *)
(* never leave it on an older position of the switch.                      *)
SettlesOnNewest ==
  \A h \in Hubs : Quiet(h) /\ cached[h] # "none" => cached[h] = Value(heard[h])

PressIs(n, pc) == n <= Newest /\ press[n].pc = pc

(* A press that does not fail reaches every process that listens, unless  *)
(* the process ends; it then asks for the row when it is back.             *)
PressReachesAll ==
  \A h \in Hubs : \A n \in 1 .. MaxPresses :
    PressIs(n, "cached") /\ listening[h]
      ~> heard[h] >= n \/ cached[h] = "none" \/ PressIs(n, "failed")
=============================================================================
