----------------------------- MODULE MCApprovals -----------------------------
(***************************************************************************)
(* Two approvals about the same draft item, one of which expires; two      *)
(* concurrent deciders and executors, one sweeper, one fault.              *)
(***************************************************************************)
EXTENDS Approvals

CONSTANTS a1, a2, i1

MCItemOf == [a \in Ids |-> i1]
MCAllowed == [a \in Ids |-> IF a = a1 THEN {"accept", "ignore"} ELSE {"edit", "respond"}]
=============================================================================
