-------------------------- MODULE MCBridgeSessions --------------------------
(* The sessions of the three kinds of runtime, on small instances.         *)
EXTENDS BridgeSessions, RuntimeEvents

\* Hermes asks in the middle of a turn; Claude Code registers its session with
\* every turn and never asks.
AskingScripts == {HermesTurn(1, 1, "ok"), ClaudeTurn(1, "failed")}

\* Codex registers a new thread once.
RacingScripts == {HermesTurn(1, 1, "ok"), CodexTurn(1, TRUE, "failed")}

=============================================================================
