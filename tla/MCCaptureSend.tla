---------------------------- MODULE MCCaptureSend ----------------------------
(***************************************************************************)
(* One ordinary ask, and one whose proposer filled in confirm_of itself:   *)
(* naming the first dry run, with the right or the wrong thread or text,   *)
(* or naming the confirm.                                                  *)
(***************************************************************************)
EXTENDS CaptureSend

CONSTANTS a1, a2, c1, t1, t2, x, y

Draft(thread, text, confirmOf) == [thread |-> thread, text |-> text, confirmOf |-> confirmOf]

MCDrafts == [a \in Asks |->
  IF a = a1
    THEN {Draft(t1, x, None)}
    ELSE {Draft(t1, x, a1), Draft(t2, x, a1), Draft(t1, x, c1)}]

MCEdits == [a \in Ids |-> IF a \in {a1, c1} THEN {y} ELSE {}]
=============================================================================
