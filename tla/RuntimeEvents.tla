--------------------------- MODULE RuntimeEvents ---------------------------
(***************************************************************************)
(* What one turn of each runtime becomes on its way to the hub: the events *)
(* its adapter makes of the runtime's own output, in order.  Deltas are    *)
(* left out (they change nothing), so is the text of the items.            *)
(***************************************************************************)
EXTENDS Naturals, Sequences

Ev(kind, turn) == [kind |-> kind, turn |-> turn]

\* claude -p: every turn announces its session; there is no turn.started, the
\* first item opens the turn.  A completed item is held back by the debouncer
\* but flushed before the result.  A process that dies has no result.
ClaudeTurn(turn, end) ==
  <<Ev("registered", turn), Ev("started", turn), Ev("item", turn)>>
    \o (IF end = "none" THEN <<>> ELSE <<Ev(end, turn)>>)

\* codex app-server: a thread is announced once, by the first turn in it.
CodexTurn(turn, newThread, end) ==
  (IF newThread THEN <<Ev("registered", turn)>> ELSE <<>>)
    \o <<Ev("started", turn), Ev("item", turn), Ev(end, turn)>>

\* Hermes: an approval is asked for off the read loop, so that the turn may end
\* before its answer; a stream ends at most once, and never as failed.
HermesTurn(turn, asks, end) ==
  <<Ev("started", turn)>> \o [i \in 1 .. asks |-> Ev("ask", turn)]
    \o (IF end = "none" THEN <<>> ELSE <<Ev("item", turn), Ev("ok", turn)>>)

=============================================================================
