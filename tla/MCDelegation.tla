---------------------------- MODULE MCDelegation ----------------------------
(***************************************************************************)
(* Two approvals in list order: the first is proposed by the loop; the     *)
(* second is proposed by the loop too, or is the first one's re-approval.  *)
(***************************************************************************)
EXTENDS Delegation

Independent == [a \in Ids |-> None]
SecondRetriesFirst == [a \in Ids |-> IF a = 1 THEN 2 ELSE None]
=============================================================================
