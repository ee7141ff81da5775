------------------------------ MODULE MCDesktop ------------------------------
(***************************************************************************)
(* What a person decides, in one run of eight parts that share no state:   *)
(* the kernel's approvals (part = "gate"), and at the desktop the          *)
(* archiving of threads ("archive"), the shell's toast ("toasts"), the     *)
(* boxes a text is written in ("compose"), the shell itself ("shell"), the *)
(* Settings screen ("settings"), the keys and the focus ("keys") and the   *)
(* gestures of a finger ("gestures").                                      *)
(***************************************************************************)
EXTENDS MCApprovals, DesktopArchive, DesktopToasts, DesktopCompose, DesktopShell,
  DesktopSettings, DesktopKeys, DesktopGestures

CONSTANTS t1, t2, s1, s2, k1, k2, c1, c2, c3
VARIABLE part

ThreadRows == <<t1, t2>>
TwoSubjects == <<s1, s2>>
TwoRows == <<k1, k2>>
ThreeTiles == <<c1, c2, c3>>

DesktopInit ==
  /\ Init /\ ArchiveInit /\ ToastsInit /\ ComposeInit /\ ShellInit /\ SettingsInit
  /\ KeysInit /\ GesturesInit
  /\ part \in {"gate", "archive", "toasts", "compose", "shell", "settings", "keys",
              "gestures"}
  /\ part # "compose" => field.kind = "line"
  /\ part # "shell" => tier = "column"
  /\ part # "settings" => setting = "kill"

DesktopNext ==
  \/ /\ part = "gate" /\ Next
     /\ UNCHANGED <<archiveVars, toastVars, composeVars, shellVars, settingVars,
                    keyVars, gestureVars, part>>
  \/ /\ part = "archive" /\ ArchiveNext
     /\ UNCHANGED <<vars, toastVars, composeVars, shellVars, settingVars,
                    keyVars, gestureVars, part>>
  \/ /\ part = "toasts" /\ ToastsNext
     /\ UNCHANGED <<vars, archiveVars, composeVars, shellVars, settingVars,
                    keyVars, gestureVars, part>>
  \/ /\ part = "compose" /\ ComposeNext
     /\ UNCHANGED <<vars, archiveVars, toastVars, shellVars, settingVars,
                    keyVars, gestureVars, part>>
  \/ /\ part = "shell" /\ ShellNext
     /\ UNCHANGED <<vars, archiveVars, toastVars, composeVars, settingVars,
                    keyVars, gestureVars, part>>
  \/ /\ part = "settings" /\ SettingsNext
     /\ UNCHANGED <<vars, archiveVars, toastVars, composeVars, shellVars,
                    keyVars, gestureVars, part>>
  \/ /\ part = "keys" /\ KeysNext
     /\ UNCHANGED <<vars, archiveVars, toastVars, composeVars, shellVars, settingVars,
                    gestureVars, part>>
  \/ /\ part = "gestures" /\ GesturesNext
     /\ UNCHANGED <<vars, archiveVars, toastVars, composeVars, shellVars, settingVars,
                    keyVars, part>>

DesktopSpec ==
  DesktopInit
    /\ [][DesktopNext]_<<vars, archiveVars, toastVars, composeVars, shellVars, settingVars,
                         keyVars, gestureVars, part>>
=============================================================================
