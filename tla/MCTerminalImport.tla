-------------------------- MODULE MCTerminalImport --------------------------
(* Two vendors' transcripts on one host, one on the other; two of the      *)
(* three share a session key.  The first goes on after it was imported.    *)
EXTENDS TerminalImport, TLC

CONSTANTS f1, f2, f3, k1, k2
ImportHostOf == (f1 :> "mini") @@ (f2 :> "mini") @@ (f3 :> "macbook")
ImportVendorOf == (f1 :> "claude_code") @@ (f2 :> "codex") @@ (f3 :> "codex")
ImportKeyOf == (f1 :> k1) @@ (f2 :> k2) @@ (f3 :> k2)
TurnsWritten == (f1 :> 3) @@ (f2 :> 1) @@ (f3 :> 1)
=============================================================================
