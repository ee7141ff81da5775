---------------------------- MODULE OneShotPermit ----------------------------
(***************************************************************************)
(* What the approval gate promises, and nothing of how it keeps it.        *)
(*                                                                         *)
(* An approval is a permit for one irreversible act.  It is asked for, a   *)
(* decision grants or refuses it once, a granted permit is used up by the  *)
(* first executor that claims it, and the act it permits takes effect at   *)
(* most once, only after the permit was used.  Refusal and use are final:  *)
(* a second attempt needs a second permit.                                 *)
(*                                                                         *)
(* Approvals.tla, CaptureSend.tla and Delegation.tla implement this module. *)
(***************************************************************************)
EXTENDS Naturals

CONSTANT Ids            \* one identifier per row of pending_approvals

VARIABLES
  permit,               \* permit[a]: where the permit stands
  effects               \* effects[a]: how often the permitted act took effect

vars == <<permit, effects>>

PermitStates == {"absent", "asked", "granted", "refused", "used"}

TypeOK ==
  /\ permit \in [Ids -> PermitStates]
  /\ effects \in [Ids -> Nat]

Init ==
  /\ permit = [a \in Ids |-> "absent"]
  /\ effects = [a \in Ids |-> 0]

Move(a, from, to) ==
  /\ permit[a] = from
  /\ permit' = [permit EXCEPT ![a] = to]
  /\ UNCHANGED effects

Ask(a)    == Move(a, "absent", "asked")
Grant(a)  == Move(a, "asked", "granted")
Refuse(a) == Move(a, "asked", "refused")
Use(a)    == Move(a, "granted", "used")

Act(a) ==
  /\ permit[a] = "used"
  /\ effects[a] = 0
  /\ effects' = [effects EXCEPT ![a] = 1]
  /\ UNCHANGED permit

Next == \E a \in Ids : Ask(a) \/ Grant(a) \/ Refuse(a) \/ Use(a) \/ Act(a)

Spec == Init /\ [][Next]_vars

(* No act without a permit that was granted and then used, and never two.  *)
OneEffectPerPermit ==
  \A a \in Ids : effects[a] <= 1 /\ (effects[a] = 1 => permit[a] = "used")
=============================================================================
