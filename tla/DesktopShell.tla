---------------------------- MODULE DesktopShell ----------------------------
(***************************************************************************)
(* The desktop's shell (App.tsx): which screen is up, what its detail pane *)
(* draws, the layout a person arranges while the stored one is still being *)
(* read, and the ask bar (command-palette.tsx), whose searches are asked   *)
(* after a pause and may be answered in any order.                         *)
(*                                                                         *)
(* A query is a number, in the order of typing; 0 is an input that asks    *)
(* the hub nothing (empty, or commands only).  Focus is left out.          *)
(***************************************************************************)
EXTENDS Integers, FiniteSets, Sequences

CONSTANTS
  Tiers,          \* widths of the window: "narrow", "floating", "column"
  MaxShellActs,   \* bound: presses, typings and gestures
  MaxShellFaults  \* bound: searches that fail

VARIABLES
  tier, screen, pane, dismissed, pending, wanted,
  layout, hubLayout, restore, puts, arranged, chosen, dragging,
  ask, timer, gen, asked, searches, results, hits, shellActs, shellFaults

paneVars == <<tier, screen, pane, dismissed, pending, wanted>>
layoutVars == <<layout, hubLayout, restore, puts, arranged, chosen, dragging>>
askVars == <<ask, timer, gen, asked, searches, results, hits>>
shellVars == <<paneVars, layoutVars, askVars, shellActs, shellFaults>>

Widths == {0, 1}                      \* 0: the width the shell ships with
Shipped == [collapsed |-> FALSE, width |-> 0]
ColdPane == [open |-> FALSE, person |-> FALSE, queue |-> FALSE]
NoResults == [of |-> 0, loading |-> FALSE]

Act == shellActs < MaxShellActs /\ shellActs' = shellActs + 1

ShellInit ==
  /\ tier \in Tiers /\ screen = "inbox" /\ pane = ColdPane
  /\ dismissed = FALSE /\ pending = TRUE /\ wanted = "nothing"
  /\ layout = Shipped
  /\ hubLayout = [collapsed |-> TRUE, width |-> 1]
  /\ restore = [at |-> "asked", layout |-> Shipped]
  /\ puts = <<>>
  /\ arranged = FALSE /\ dragging = FALSE
  /\ chosen = [collapsed |-> {}, width |-> {}]
  /\ ask = [open |-> FALSE, closing |-> FALSE, query |-> 0]
  /\ timer = 0 /\ gen = 0 /\ asked = 0
  /\ searches = {} /\ results = NoResults /\ hits = 0
  /\ shellActs = 0 /\ shellFaults = 0

-----------------------------------------------------------------------------
(* The pane: three targets, and the approvals that open it unasked.        *)

Collapsed == layout.collapsed /\ tier # "narrow"

PaneVisible ==
  \/ pane.open \/ pane.person \/ pane.queue
  \/ /\ tier = "column" /\ ~Collapsed /\ ~dismissed
     /\ screen = "inbox" /\ pending

\* What the pane's box holds.
PaneBody ==
  CASE ~PaneVisible -> "nothing"
    [] pane.person  -> "person"
    [] pane.open    -> "thread"
    [] OTHER        -> "queue"

\* An explicit target releases an earlier dismissal.
Shows(p) ==
  /\ pane' = p
  /\ dismissed' = (dismissed /\ ~p.open /\ ~p.person)

\* A row of the list; Network's own rows open people.
OpenRow ==
  /\ Act /\ screen = "inbox"
  /\ Shows([pane EXCEPT !.open = TRUE]) /\ wanted' = "thread"
  /\ UNCHANGED <<tier, screen, pending, layoutVars, askVars, shellFaults>>

OpenPerson ==
  /\ Act /\ screen = "network"
  /\ Shows([pane EXCEPT !.person = TRUE]) /\ wanted' = "person"
  /\ UNCHANGED <<tier, screen, pending, layoutVars, askVars, shellFaults>>

OpenThreadFromPerson ==
  /\ Act /\ PaneBody = "person"
  /\ Shows([pane EXCEPT !.person = FALSE, !.open = TRUE]) /\ wanted' = "thread"
  /\ UNCHANGED <<tier, screen, pending, layoutVars, askVars, shellFaults>>

OpenQueue ==
  /\ Act /\ screen = "inbox" /\ pending
  /\ pane' = [pane EXCEPT !.queue = TRUE]
  /\ wanted' = IF pane.open \/ pane.person THEN wanted ELSE "queue"
  /\ UNCHANGED <<tier, screen, dismissed, pending, layoutVars, askVars, shellFaults>>

\* goTo: the thread and the person belong to the screen that goes.
Goes(next) ==
  /\ screen' = next
  /\ Shows([pane EXCEPT !.open = FALSE, !.person = FALSE]) /\ wanted' = "nothing"

GoTo ==
  /\ Act /\ \E next \in {"inbox", "network"} : Goes(next)
  /\ UNCHANGED <<tier, pending, layoutVars, askVars, shellFaults>>

\* The back row, the sheet's cross, Escape.
ClosePane ==
  /\ Act /\ PaneVisible
  /\ Shows(ColdPane) /\ wanted' = "nothing"
  /\ UNCHANGED <<tier, screen, pending, layoutVars, askVars, shellFaults>>

\* The drawer is dragged away.
OnPaneDismiss ==
  /\ Act /\ tier = "narrow" /\ PaneVisible
  /\ pane' = ColdPane /\ dismissed' = TRUE /\ wanted' = "nothing"
  /\ UNCHANGED <<tier, screen, pending, layoutVars, askVars, shellFaults>>

Resize ==
  /\ Act /\ tier' \in Tiers \ {tier}
  /\ UNCHANGED <<screen, pane, dismissed, pending, wanted, layoutVars, askVars,
                 shellFaults>>

-----------------------------------------------------------------------------
(* The layout: drawn at once, remembered at the hub, restored at boot.     *)

\* `remember`: nobody waits for the answer.
Remember(key, value) == puts' = Append(puts, [key |-> key, value |-> value])

ArrangesUnmarked(key, value) ==
  /\ UNCHANGED arranged
  /\ layout' = [layout EXCEPT ![key] = value]
  /\ chosen' = [chosen EXCEPT ![key] = {value}]
  /\ Remember(key, value)

Arranges(key, value) ==
  /\ arranged' = TRUE
  /\ layout' = [layout EXCEPT ![key] = value]
  /\ chosen' = [chosen EXCEPT ![key] = {value}]
  /\ Remember(key, value)

\* A pane that collapses puts the thread away with it.
Toggles ==
  /\ Arranges("collapsed", ~layout.collapsed)
  /\ pane' = [pane EXCEPT !.open = @ /\ layout.collapsed]
  /\ wanted' = IF wanted = "thread" /\ ~pane'.open THEN "nothing" ELSE wanted
  /\ UNCHANGED <<screen, dismissed, hubLayout, restore, dragging>>

OnPaneToggle ==
  /\ Act /\ tier # "narrow" /\ Toggles
  /\ UNCHANGED <<tier, pending, askVars, shellFaults>>

Drag ==
  /\ Act /\ PaneVisible /\ tier # "narrow" /\ ~dragging /\ dragging' = TRUE
  /\ UNCHANGED <<paneVars, layout, hubLayout, restore, puts, arranged, chosen,
                 askVars, shellFaults>>

OnWidthCommit ==
  /\ dragging /\ dragging' = FALSE
  /\ \E w \in Widths : Arranges("width", w)
  /\ UNCHANGED <<paneVars, hubLayout, restore, askVars, shellActs, shellFaults>>

OnWidthCancel ==
  /\ dragging /\ dragging' = FALSE
  /\ UNCHANGED <<paneVars, layout, hubLayout, restore, puts, arranged, chosen,
                 askVars, shellActs, shellFaults>>

\* A double-click on the grip goes back to the width of the window.
OnReset ==
  /\ Act /\ PaneVisible /\ Arranges("width", 0)
  /\ UNCHANGED <<paneVars, hubLayout, restore, dragging, askVars, shellFaults>>

\* The hub takes the writes in any order, or never.
SettingIsStored ==
  /\ \E i \in DOMAIN puts :
       /\ puts' = SubSeq(puts, 1, i - 1) \o SubSeq(puts, i + 1, Len(puts))
       /\ \/ /\ hubLayout' = [hubLayout EXCEPT ![puts[i].key] = puts[i].value]
             /\ UNCHANGED shellFaults
          \/ /\ shellFaults < MaxShellFaults /\ shellFaults' = shellFaults + 1
             /\ UNCHANGED hubLayout
  /\ UNCHANGED <<paneVars, layout, restore, arranged, chosen, dragging, askVars, shellActs>>

\* The boot's one read: the hub's answer, or an empty one, is on its way.
HubReadsSettings ==
  /\ restore.at = "asked"
  /\ \E l \in {hubLayout, Shipped} : restore' = [at |-> "answered", layout |-> l]
  /\ UNCHANGED <<paneVars, layout, hubLayout, puts, arranged, chosen, dragging,
                 askVars, shellActs, shellFaults>>

\* What the person has arranged meanwhile stays.
Restore ==
  /\ restore.at = "answered" /\ restore' = [at |-> "done", layout |-> Shipped]
  /\ layout' = IF arranged THEN layout ELSE restore.layout
  /\ UNCHANGED <<paneVars, hubLayout, puts, arranged, chosen, dragging, askVars,
                 shellActs, shellFaults>>

-----------------------------------------------------------------------------
(* The ask bar.                                                            *)

\* Cmd+K; in the narrow tier not while another drawer is up.  A panel opened
\* again before it was gone has kept its query, and asks it again.
CommandKey ==
  /\ Act /\ ~(tier = "narrow" /\ PaneVisible)
  /\ ask' = [ask EXCEPT !.open = ~@, !.closing = ask.open]
  /\ timer' = IF ask.open THEN 0 ELSE ask.query
  /\ UNCHANGED <<paneVars, layoutVars, gen, asked, searches, results, hits,
                 shellFaults>>

\* A keystroke starts the pause again; one that asks nothing only ends it.
TypeQuery ==
  /\ Act
  /\ \E q \in {0, shellActs + 1} :
       /\ ask' = [open |-> TRUE, closing |-> FALSE, query |-> q]
       /\ timer' = q
  /\ UNCHANGED <<paneVars, layoutVars, gen, asked, searches, results, hits,
                 shellFaults>>

\* Escape, a press outside, the caret leaving.
ClosesAsk == ask' = [ask EXCEPT !.open = FALSE, !.closing = TRUE] /\ timer' = 0

CloseAsk ==
  /\ Act /\ ask.open /\ ClosesAsk
  /\ UNCHANGED <<paneVars, layoutVars, gen, asked, searches, results, hits,
                 shellFaults>>

\* The panel is gone, and its query with it.
AskIsGone ==
  /\ ~ask.open /\ ask.closing
  /\ ask' = [open |-> FALSE, closing |-> FALSE, query |-> 0]
  /\ UNCHANGED <<paneVars, layoutVars, timer, gen, asked, searches, results,
                 hits, shellActs, shellFaults>>

\* The pause is over: runSearch.
RunSearch ==
  /\ timer # 0 /\ timer' = 0
  /\ gen' = gen + 1 /\ asked' = timer
  /\ searches' = searches \cup {[gen |-> gen + 1, query |-> timer]}
  /\ results' = [results EXCEPT !.loading = TRUE]
  /\ UNCHANGED <<paneVars, layoutVars, ask, hits, shellActs, shellFaults>>

ReplyInAnyOrder(r) ==
  /\ searches' = searches \ {r}
  /\ results' = [of |-> r.query, loading |-> FALSE] /\ hits' = r.query

SearchReply(r) ==
  /\ searches' = searches \ {r}
  /\ IF r.gen = gen
     THEN results' = [of |-> r.query, loading |-> FALSE] /\ hits' = r.query
     ELSE UNCHANGED <<results, hits>>

SearchAnswered ==
  /\ \E r \in searches : SearchReply(r)
  /\ UNCHANGED <<paneVars, layoutVars, ask, timer, gen, asked, shellActs, shellFaults>>

SearchFails ==
  /\ shellFaults < MaxShellFaults /\ shellFaults' = shellFaults + 1
  /\ \E r \in searches :
       /\ searches' = searches \ {r}
       /\ results' = IF r.gen = gen THEN NoResults ELSE results
  /\ UNCHANGED <<paneVars, layoutVars, ask, timer, gen, asked, hits, shellActs>>

\* A row of the answer is chosen: its deep link is that of the same answer.
OpenHit ==
  /\ Act /\ ask.open /\ ask.query # 0 /\ results.of # 0 /\ hits # 0
  /\ ClosesAsk
  /\ \/ Shows([pane EXCEPT !.open = TRUE]) /\ wanted' = "thread"
     \/ /\ Shows([pane EXCEPT !.open = FALSE, !.person = TRUE]) /\ wanted' = "person"
  /\ UNCHANGED <<tier, screen, pending, layoutVars, gen, asked, searches, results, hits,
                 shellFaults>>

\* A command's row runs and closes the panel.
RunCommand ==
  /\ Act /\ ask.open /\ ClosesAsk
  /\ \/ (\E next \in {"inbox", "network"} : Goes(next)) /\ UNCHANGED layoutVars
     \/ Toggles
  /\ UNCHANGED <<tier, pending, gen, asked, searches, results, hits,
                 shellFaults>>

-----------------------------------------------------------------------------
\* The replica brings an approval, or takes the last one away.
ApprovalsChange ==
  /\ Act /\ pending' = ~pending
  /\ wanted' = IF wanted = "queue" THEN "nothing" ELSE wanted
  /\ UNCHANGED <<tier, screen, pane, dismissed, layoutVars, askVars, shellFaults>>

ShellNext ==
  \/ OpenRow \/ OpenPerson \/ OpenThreadFromPerson \/ OpenQueue
  \/ GoTo \/ ClosePane \/ OnPaneDismiss \/ Resize
  \/ OnPaneToggle \/ Drag \/ OnWidthCommit \/ OnWidthCancel \/ OnReset
  \/ SettingIsStored \/ HubReadsSettings \/ Restore
  \/ CommandKey \/ TypeQuery \/ CloseAsk \/ AskIsGone
  \/ RunSearch \/ SearchAnswered \/ SearchFails \/ OpenHit \/ RunCommand
  \/ ApprovalsChange

ShellSpec == ShellInit /\ [][ShellNext]_shellVars

-----------------------------------------------------------------------------
(* Properties.                                                             *)

\* The layout is the one the person last chose, whenever the stored one
\* arrives: the answer to the boot's read never lands on a press made since.
LayoutIsTheUsers ==
  \A key \in {"collapsed", "width"} :
    chosen[key] # {} => layout[key] \in chosen[key]

\* What the list shows at rest is the answer to the query asked last, or
\* nothing: no older answer comes back over it, and the link of a row is
\* looked up in the answer the row is from.
LatestAnswerIsShown ==
  results.of # 0 =>
    /\ hits = results.of
    /\ results.loading \/ results.of = asked

\* "The pane draws one of PersonDetail or Thread, never a mix": a thread, a
\* person or the queue that was asked for last is what the pane draws.
PaneDrawsWhatWasAsked == wanted # "nothing" => PaneBody = wanted

\* The last gesture decides: no answer that was under way when it was made, of
\* the boot's read or of an earlier search, takes the screen back.
LastGestureWins == LayoutIsTheUsers /\ LatestAnswerIsShown

=============================================================================
