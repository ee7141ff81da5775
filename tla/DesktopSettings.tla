--------------------------- MODULE DesktopSettings ---------------------------
(***************************************************************************)
(* The Settings screen (screens/Settings.tsx, settings/DelegationRules.tsx)*)
(* over the hub's settings (kernel settings.ts): a behaviour is about one  *)
(* setting, for a write touches one.                                       *)
(*                                                                         *)
(*   autonomy    channels in autonomy.rules: written back with the entries *)
(*               the screen does not understand                            *)
(*   allowlist, delegation   lists written back as the screen reads them   *)
(*   field       the cap, quiet hours, the threshold: a text and Save      *)
(*   switch      archive.enabled, notify.vip_override, the terminal import *)
(*   kill        POST /kill-switch                                         *)
(*                                                                         *)
(* Every write sends the whole value, made of the one on the screen.       *)
(***************************************************************************)
EXTENDS Naturals, Sequences, FiniteSets

CONSTANTS
  Entries,           \* of a list
  Foreign,           \* entries of a stored list that the screen does not understand
  NoEntry,
  Patient,           \* the person waits for the reads, and for the answer to a write
  Alone,             \* nobody else writes the setting while the screen is up
  ReadsAnswer,       \* GET /settings is answered
  MaxSettingActs, MaxSettingFaults   \* bounds

ASSUME SettingsAssumption ==
  /\ NoEntry \notin Entries /\ Entries \cap Foreign = {}
  /\ Patient \in BOOLEAN /\ Alone \in BOOLEAN /\ ReadsAnswer \in BOOLEAN
  /\ MaxSettingActs \in Nat /\ MaxSettingFaults \in Nat

VARIABLES
  setting,       \* which one the behaviour is about
  saved,         \* its value at the hub
  phase, value,  \* the screen: SettingsState, and its settings map
  typed, asking, \* the text not saved yet; the question of a dialog
  reads,         \* the three GETs of the mount
  saves,         \* the requests that write
  alert,         \* a save was announced as failed since the screen was read
  audited,       \* audit_log rows
  meant,         \* history: what the hub's value would be, had each edit been made to it
  settingActs, settingFaults

screenVars == <<phase, value, typed, asking, reads>>
settingVars == <<setting, saved, screenVars, saves, alert, audited, meant,
                 settingActs, settingFaults>>

Lists == {"autonomy", "allowlist", "delegation"}
Out(s) == s.pc \in {"sent", "upserted", "stored"}
\* SETTING_DEFAULTS, and what the screen shows for a value it was not given.
Default == IF setting \in Lists THEN {} ELSE 0
NoReads == [pc |-> "none", value |-> Default]

SettingsInit ==
  /\ setting \in Lists \cup {"field", "switch", "kill"}
  /\ saved = IF setting \in Lists THEN Entries \cup Foreign ELSE 1
  /\ phase = "away" /\ value = Default /\ typed = NoEntry /\ asking = NoEntry
  /\ reads = NoReads /\ saves = <<>> /\ alert = FALSE /\ audited = {}
  /\ meant = saved
  /\ settingActs = 0 /\ settingFaults = 0

Touch == settingActs < MaxSettingActs /\ settingActs' = settingActs + 1
SettingFault == settingFaults < MaxSettingFaults /\ settingFaults' = settingFaults + 1

-----------------------------------------------------------------------------
(* The mount and its reads.                                                *)

OpenSettings ==
  /\ phase = "away" /\ Touch
  /\ phase' = "loading" /\ value' = Default /\ typed' = NoEntry /\ asking' = NoEntry
  /\ reads' = [NoReads EXCEPT !.pc = "asked"]
  /\ alert' = FALSE
  /\ UNCHANGED <<setting, saved, saves, audited, meant, settingFaults>>

GetAllSettings ==
  /\ reads.pc = "asked"
  /\ reads' = [pc |-> "answered", value |-> saved]
  /\ UNCHANGED <<setting, saved, phase, value, typed, asking, saves, alert, audited,
                 meant, settingActs, settingFaults>>

\* fetchSettings answers {} when its request fails; the other two reject.
FailedReads ==
  {[NoReads EXCEPT !.pc = "failed"]} \cup
    (IF ReadsAnswer \/ setting = "kill" THEN {} ELSE {[pc |-> "answered", value |-> Default]})

FetchFails ==
  /\ reads.pc \in {"asked", "answered"} /\ SettingFault
  /\ reads' \in FailedReads
  /\ UNCHANGED <<setting, saved, phase, value, typed, asking, saves, alert, audited,
                 meant, settingActs>>

ReadsArrive ==
  /\ reads.pc \in {"answered", "failed"}
  /\ IF reads.pc = "answered"
     THEN /\ phase' = "ready" /\ value' = reads.value
          /\ typed' = IF setting = "field" THEN reads.value ELSE typed
          /\ meant' = IF \E n \in DOMAIN saves : Out(saves[n]) THEN meant ELSE saved
     ELSE phase' = "error" /\ UNCHANGED <<value, typed, meant>>
  /\ reads' = NoReads
  /\ UNCHANGED <<setting, saved, asking, saves, alert, audited, settingActs, settingFaults>>

\* An answer that comes after the screen has gone changes nothing.
LeaveSettings ==
  /\ phase # "away" /\ (Patient => \A n \in DOMAIN saves : ~Out(saves[n]))
  /\ phase' = "away" /\ reads' = NoReads
  /\ saves' = [n \in DOMAIN saves |-> [saves[n] EXCEPT !.mounted = FALSE]]
  /\ UNCHANGED <<setting, saved, value, typed, asking, alert, audited, meant,
                 settingActs, settingFaults>>

-----------------------------------------------------------------------------
(* What the person changes.                                                *)

MayEdit ==
  /\ phase # "away" /\ Touch
  /\ Patient => phase = "ready" /\ ~alert /\ \A n \in DOMAIN saves : ~Out(saves[n])

UnderstoodOnly == IF setting \in Lists THEN value \ Foreign ELSE value

\* allowlistOf and delegationRulesOf drop what they do not understand.
Understood == IF setting \in {"allowlist", "delegation"} THEN value \ Foreign ELSE value

\* write(): `whole` is sent, `edited` is what the edit makes of the hub's value.
Write(whole, edited, clears) ==
  /\ saves' = Append(saves, [value |-> whole, clears |-> clears, mounted |-> TRUE, pc |-> "sent"])
  /\ meant' = edited
  /\ UNCHANGED <<setting, saved, phase, value, reads, alert, audited, settingFaults>>

Without(e) == Write(Understood \ {e}, meant \ {e}, FALSE)
With(e, clears) == Write(Understood \cup {e}, meant \cup {e}, clears)
Becomes(v) == Write(v, v, FALSE)

\* Turning a channel on is asked about first, and so is the kill switch.
PressSwitch(e) ==
  /\ setting = "autonomy" /\ asking = NoEntry /\ MayEdit
  /\ IF e \in value
     THEN Without(e) /\ UNCHANGED <<typed, asking>>
     ELSE /\ asking' = e
          /\ UNCHANGED <<setting, saved, phase, value, typed, reads, saves, alert, audited,
                         meant, settingFaults>>

PressKill ==
  /\ setting = "kill" /\ asking = NoEntry /\ MayEdit
  /\ IF value = 1
     THEN Becomes(0) /\ UNCHANGED <<typed, asking>>
     ELSE /\ asking' = "stop"
          /\ UNCHANGED <<setting, saved, phase, value, typed, reads, saves, alert, audited,
                         meant, settingFaults>>

Confirm ==
  /\ asking # NoEntry /\ MayEdit
  /\ IF setting = "kill" THEN Becomes(1) ELSE With(asking, FALSE)
  /\ asking' = NoEntry /\ UNCHANGED typed

CancelQuestion ==
  /\ asking # NoEntry
  /\ asking' = NoEntry
  /\ UNCHANGED <<setting, saved, phase, value, typed, reads, saves, alert, audited, meant,
                 settingActs, settingFaults>>

Flip == setting = "switch" /\ MayEdit /\ Becomes(1 - value) /\ UNCHANGED <<typed, asking>>

TypeDraft(e) ==
  /\ typed # e /\ MayEdit
  /\ \/ setting \in {"allowlist", "delegation"} /\ e \in Entries
     \/ setting = "field" /\ e \in {0, 1}
  /\ typed' = e
  /\ UNCHANGED <<setting, saved, phase, value, asking, reads, saves, alert, audited, meant,
                 settingFaults>>

\* A duplicate is not written.  The dialog of a delegation rule closes at once,
\* an allowlist keeps its text until the write is answered.
AddDraft ==
  /\ setting \in {"allowlist", "delegation"} /\ typed # NoEntry /\ MayEdit
  /\ IF typed \in Understood
     THEN UNCHANGED <<setting, saved, phase, value, reads, saves, alert, audited, meant,
                      settingFaults>>
     ELSE With(typed, setting = "allowlist")
  /\ typed' = IF setting = "delegation" THEN NoEntry ELSE typed
  /\ UNCHANGED asking

RemoveEntry(e) ==
  /\ setting \in {"allowlist", "delegation"} /\ e \in Understood /\ MayEdit
  /\ Without(e) /\ UNCHANGED <<typed, asking>>

SaveField ==
  /\ setting = "field" /\ typed # NoEntry /\ MayEdit
  /\ Becomes(typed) /\ UNCHANGED <<typed, asking>>

-----------------------------------------------------------------------------
(* The hub's setSetting: the upsert and the audit row are two statements.  *)

Upsert(n) ==
  /\ saves[n].pc = "sent"
  /\ saved' = saves[n].value
  /\ saves' = [saves EXCEPT ![n].pc = "upserted"]
  /\ UNCHANGED <<setting, screenVars, alert, audited, meant, settingActs, settingFaults>>

Audit(n) ==
  /\ saves[n].pc = "upserted"
  /\ audited' = audited \cup {n}
  /\ saves' = [saves EXCEPT ![n].pc = "stored"]
  /\ UNCHANGED <<setting, saved, screenVars, alert, meant, settingActs, settingFaults>>

\* The local map takes the value that was sent; a field's text is seeded again
\* when its value has changed.
Accepted(n) == saves[n].value

SaveAnswered(n) ==
  /\ saves[n].pc = "stored"
  /\ saves' = [saves EXCEPT ![n].pc = "done"]
  /\ IF saves[n].mounted
     THEN /\ value' = Accepted(n)
          /\ typed' = CASE setting = "field" /\ value # saves[n].value -> saves[n].value
                        [] saves[n].clears -> NoEntry
                        [] OTHER -> typed
     ELSE UNCHANGED <<value, typed>>
  /\ UNCHANGED <<setting, saved, phase, asking, reads, alert, audited, meant, settingActs,
                 settingFaults>>

\* The request, a statement, or the answer is lost.
SaveFails(n) ==
  /\ Out(saves[n]) /\ SettingFault
  /\ saves' = [saves EXCEPT ![n].pc = "failed"]
  /\ alert' = (alert \/ saves[n].mounted)
  /\ UNCHANGED <<setting, saved, screenVars, audited, meant, settingActs>>

\* Another screen of the same hub, or another writer of its table.
OtherWrites(e) ==
  /\ Touch
  /\ Alone => phase = "away" /\ \A n \in DOMAIN saves : ~Out(saves[n])
  /\ saved' = IF setting \in Lists THEN saved \ {e} ELSE 1 - saved
  /\ meant' = IF setting \in Lists THEN meant \ {e} ELSE 1 - saved
  /\ UNCHANGED <<setting, screenVars, saves, alert, audited, settingFaults>>

SettingsNext ==
  \/ OpenSettings \/ GetAllSettings \/ FetchFails \/ ReadsArrive \/ LeaveSettings
  \/ \E e \in Entries : PressSwitch(e) \/ RemoveEntry(e) \/ OtherWrites(e)
  \/ \E e \in Entries \cup {0, 1} : TypeDraft(e)
  \/ PressKill \/ Confirm \/ CancelQuestion \/ Flip \/ AddDraft \/ SaveField
  \/ \E n \in DOMAIN saves : Upsert(n) \/ Audit(n) \/ SaveAnswered(n) \/ SaveFails(n)

SettingsSpec == SettingsInit /\ [][SettingsNext]_settingVars

-----------------------------------------------------------------------------
(* Properties.                                                             *)

\* When no write is under way and none was announced as failed, the hub has what
\* the edits made of its own value, although whole values were sent, and the
\* screen shows it.  Entries the screen drops from a list it rewrites are left out
\* of the comparison, those of autonomy.rules are not.
EditsAreKept ==
  (phase = "ready" /\ ~alert /\ \A n \in DOMAIN saves : ~Out(saves[n])) =>
    LET kept(v) == IF setting \in {"allowlist", "delegation"} THEN v \ Foreign ELSE v
    IN  /\ kept(saved) = kept(meant)
        /\ Understood = kept(saved)

\* Of autonomy.rules "only the one channel's entry is replaced": what the screen
\* does not understand, "including the delegation rules", stays at the hub.
ForeignRulesStay == setting = "autonomy" => Foreign \subseteq saved

=============================================================================
