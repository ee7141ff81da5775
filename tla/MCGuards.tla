------------------------------ MODULE MCGuards ------------------------------
(***************************************************************************)
(* Sends to KakaoTalk and the kill switch in one run: they share no state, *)
(* and a behaviour is one of either (part).                                *)
(***************************************************************************)
EXTENDS MCCaptureSend, KillSwitch

VARIABLE part

GuardsInit == Init /\ SwitchInit /\ part \in {"sends", "switch"}

GuardsNext ==
  \/ part = "sends" /\ Next /\ UNCHANGED <<switchVars, part>>
  \/ part = "switch" /\ SwitchNext /\ UNCHANGED <<vars, part>>

GuardsSpec ==
  /\ GuardsInit /\ [][GuardsNext]_<<vars, switchVars, part>>
  /\ \A h \in Hubs : WF_switchVars(part = "switch" /\ Deliver(h))
  /\ WF_switchVars(part = "switch" /\ \E n \in 1 .. Newest : PressEmit(n) \/ PressEmitFails(n))
=============================================================================
