----------------------------- MODULE DesktopKeys -----------------------------
(***************************************************************************)
(* Where a key goes at the desktop, from 900 pixels up: the one keymap of  *)
(* the shell, the Inbox and Thread (hooks/use-keymap.ts), the listeners    *)
(* that take Escape, and where the focus is left by each of the layers - a *)
(* thread in the pane, the ask bar with its panel and model menu, a row's  *)
(* menu, the filters sheet and the prompts over it (App.tsx, Inbox.tsx,    *)
(* Thread.tsx and packages/ui).                                            *)
(*                                                                         *)
(* A press is one action: the shell's listener (window, capture) first,    *)
(* then the layer that holds the focus.  The focus moves in the press or   *)
(* in a frame after it.  What the archive does to rows is DesktopArchive;  *)
(* here its requests succeed at once.  Browsers focus the button that is   *)
(* pressed, and drop the focus to the body when its element goes.          *)
(***************************************************************************)
EXTENDS Naturals, Sequences, FiniteSets, SequencesExt

CONSTANTS
  KeyRows,       \* the threads, in the order of the list
  NoRow,
  MaxKeyActs     \* bound on the presses

VARIABLES
  ui,            \* what is up, what is selected, and where the focus is
  shelved,       \* the threads that are archived
  parting,       \* leavingIds: rows held for their animation
  filteredOut,   \* rows a filter takes off the list
  undoable,      \* undoStack
  frames,        \* requestAnimationFrame callbacks not run yet
  pressed,       \* history: what the last step was
  keyActs

keyVars == <<ui, shelved, parting, filteredOut, undoable, frames, pressed, keyActs>>
listVars == <<shelved, parting, filteredOut, undoable>>

RowSet == ToSet(KeyRows)
Editable == {"input", "composer"}
AskBar == {"input", "barButton"}
Spots == RowSet \cup Editable \cup AskBar
           \cup {"body", "title", "pill", "toolbar", "menu", "sheet", "prompt"}

KeysInit ==
  /\ ui = [screen |-> "inbox", view |-> "inbox", focus |-> "body", selected |-> NoRow,
           ask |-> FALSE, models |-> FALSE, opener |-> "body", menu |-> NoRow,
           pane |-> NoRow, composer |-> FALSE, modals |-> <<>>]
  /\ shelved = {} /\ parting = {} /\ filteredOut = {} /\ undoable = <<>>
  /\ frames = <<>> /\ pressed = "none" /\ keyActs = 0

KeyAct(what) == keyActs < MaxKeyActs /\ keyActs' = keyActs + 1 /\ pressed' = what

-----------------------------------------------------------------------------
(* What is on screen.                                                      *)

\* rowIds: a row that leaves is held for its animation.
RowsOf(u, archived, leaving, hidden) ==
  IF u.screen # "inbox" THEN <<>>
  ELSE SelectSeq(KeyRows, LAMBDA r :
         r \notin hidden /\ (r \in leaving \/ (r \in archived <=> u.view = "archived")))

Listed == RowsOf(ui, shelved, parting, filteredOut)

Modal(u) == u.modals # <<>>
TopModal(u) == u.modals[Len(u.modals)]

OnScreen(u, rows) ==
  ToSet(rows) \cup {"body", "title", "input"}
    \cup (IF u.screen = "inbox" THEN {"pill"} ELSE {})
    \cup (IF u.ask THEN {"barButton"} ELSE {})
    \cup (IF u.menu \in ToSet(rows) THEN {"menu"} ELSE {})
    \cup (IF u.pane # NoRow THEN {"toolbar"} ELSE {})
    \cup (IF u.pane # NoRow /\ u.composer THEN {"composer"} ELSE {})
    \cup {u.modals[i].at : i \in DOMAIN u.modals}

\* focus(): focusin reaches the row it lands in, whose onFocusRow selects it;
\* the ask bar closes when the focus leaves it, a menu when it leaves the menu.
Focused(u, spot) ==
  LET leaves == u.focus \in AskBar /\ spot \notin AskBar
  IN  [u EXCEPT !.focus = spot,
                !.selected = IF spot \in RowSet THEN spot ELSE @,
                !.ask = @ /\ ~leaves, !.models = @ /\ ~leaves,
                !.menu = IF spot = "menu" THEN @ ELSE NoRow]

\* An element that is gone takes the focus with it, and no handler hears of it.
Drawn(u, rows) ==
  [u EXCEPT !.focus = IF @ \in OnScreen(u, rows) THEN @ ELSE "body",
            !.menu = IF @ \in ToSet(rows) THEN @ ELSE NoRow]

Show(u) == ui' = Drawn(u, RowsOf(u, shelved', parting', filteredOut'))

\* document's pointerdown: outside the bar it closes the panel.
Clicked(u, spot) == Focused([u EXCEPT !.ask = FALSE, !.models = FALSE], spot)

-----------------------------------------------------------------------------
(* The keymap.                                                             *)

\* isEditableTarget, isInsideOverlay: a text box and a layer keep their letters.
LettersRun == ui.focus \notin Editable /\ ui.focus # "menu" /\ ~Modal(ui)

InFrame(f) == frames' = Append(frames, f)
RowFrame(r) == [to |-> "row", row |-> r]
TitleFrame == [to |-> "title", row |-> NoRow]
ScreenFrame == [to |-> "screen", row |-> NoRow]

At(r) == CHOOSE i \in DOMAIN Listed : Listed[i] = r

\* stepRow: with nothing selected, or a row that is not listed, the first one.
StepRow(down) ==
  CASE Listed = <<>> -> NoRow
    [] ui.selected \notin ToSet(Listed) -> Listed[1]
    [] down -> Listed[IF At(ui.selected) < Len(Listed) THEN At(ui.selected) + 1
                      ELSE At(ui.selected)]
    [] OTHER -> Listed[IF At(ui.selected) > 1 THEN At(ui.selected) - 1 ELSE 1]

\* moveTo: select now, focus in the next frame.
MoveTo(u, r) ==
  /\ Show([u EXCEPT !.selected = r])
  /\ IF r = NoRow THEN UNCHANGED frames ELSE InFrame(RowFrame(r))

\* j and k, and on a row the arrows.
Step(down) ==
  /\ LettersRun /\ ui.screen = "inbox" /\ KeyAct("letter")
  /\ UNCHANGED listVars
  /\ MoveTo(ui, StepRow(down))

\* Home and End, on a row.
Jump(down) ==
  /\ ui.focus \in RowSet /\ KeyAct("letter")
  /\ UNCHANGED listVars
  /\ MoveTo(ui, IF down THEN Listed[Len(Listed)] ELSE Listed[1])

NeighbourOf(r) ==
  IF r \notin ToSet(Listed) \/ Len(Listed) = 1 THEN NoRow
  ELSE Listed[IF At(r) < Len(Listed) THEN At(r) + 1 ELSE At(r) - 1]

\* archiveAndAdvance, for a selection u; in the archived view an empty list
\* hands the focus to the title.
ArchiveAndAdvanceIn(u, r) ==
  LET next == NeighbourOf(r)
  IN  /\ shelved' = IF u.view = "inbox" THEN shelved \cup {r} ELSE shelved \ {r}
      /\ parting' = parting \cup {r}
      /\ undoable' = Append(undoable, [row |-> r, archived |-> u.view = "inbox"])
      /\ UNCHANGED filteredOut
      /\ CASE r # u.selected -> Show(u) /\ UNCHANGED frames
           [] next = NoRow /\ u.view = "archived" ->
                Show([u EXCEPT !.selected = NoRow]) /\ InFrame(TitleFrame)
           [] OTHER -> MoveTo(u, next)

\* e in the inbox, u in the archived view.
ArchiveKey ==
  /\ LettersRun /\ ui.screen = "inbox" /\ ui.selected # NoRow /\ KeyAct("letter")
  /\ ArchiveAndAdvanceIn(ui, ui.selected)

\* undoArchive: the selection follows the row that comes back.
UndoArchive ==
  LET entry == undoable[Len(undoable)]
  IN  /\ undoable # <<>> /\ ui.screen = "inbox"
      /\ undoable' = Front(undoable)
      /\ shelved' = IF entry.archived THEN shelved \ {entry.row} ELSE shelved \cup {entry.row}
      /\ parting' = parting \cup {entry.row}
      /\ UNCHANGED filteredOut
      /\ Show([ui EXCEPT !.selected = entry.row])
      /\ InFrame(IF ui.view = "archived" THEN TitleFrame ELSE RowFrame(entry.row))

UndoKey == LettersRun /\ KeyAct("letter") /\ UndoArchive

\* Cmd-Z: its listener knows text boxes, and no layer.
CommandZ == ui.focus \notin Editable /\ KeyAct("command") /\ UndoArchive

\* r, where a thread is open: openComposer, which focuses its box.
ReplyKey ==
  /\ LettersRun /\ ui.pane # NoRow /\ ui.pane \notin shelved /\ KeyAct("letter")
  /\ UNCHANGED <<listVars, frames>>
  /\ Show(Focused([ui EXCEPT !.composer = TRUE], "composer"))

\* goTo: the pane goes, and with the Inbox what it had open; the selection is
\* remembered.  A change of screen cancels the frame of an earlier one.
GoesTo(u, screen) ==
  /\ parting' = IF screen = ui.screen THEN parting ELSE {}
  /\ undoable' = IF screen = ui.screen THEN undoable ELSE <<>>
  /\ filteredOut' = IF screen = ui.screen THEN filteredOut ELSE {}
  /\ UNCHANGED shelved
  /\ Show([u EXCEPT !.screen = screen, !.pane = NoRow, !.composer = FALSE,
                    !.view = IF screen = ui.screen THEN @ ELSE "inbox",
                    !.modals = IF screen = ui.screen THEN @ ELSE <<>>])
  /\ frames' = IF screen = ui.screen THEN frames
               ELSE Append(SelectSeq(frames, LAMBDA f : f.to # "screen"), ScreenFrame)

\* g and a letter within its window, taken as one press.
GoKey(screen) == LettersRun /\ KeyAct("letter") /\ GoesTo(ui, screen)

\* A tile of the rail.
PressTile(screen) == ~Modal(ui) /\ KeyAct("click") /\ GoesTo(Clicked(ui, "body"), screen)

-----------------------------------------------------------------------------
(* The ask bar.                                                            *)

\* The effects of an opening: what had the focus is kept, the input gets it.
Opened(u) ==
  Focused([u EXCEPT !.ask = TRUE,
                    !.opener = IF u.focus \in {"body", "input"} THEN @ ELSE u.focus],
          "input")

CommandK ==
  /\ KeyAct("command") /\ UNCHANGED <<listVars, frames>>
  /\ Show(IF ui.ask THEN [ui EXCEPT !.ask = FALSE, !.models = FALSE] ELSE Opened(ui))

\* A press on the bar focuses its input before the panel opens; a letter typed
\* in a closed bar opens it as well.
PressBar ==
  /\ ~Modal(ui) /\ KeyAct("click") /\ UNCHANGED <<listVars, frames>>
  /\ Show([Focused(ui, "input") EXCEPT !.ask = TRUE])

TypeInBar ==
  /\ ui.focus = "input" /\ ~ui.ask /\ KeyAct("typed") /\ UNCHANGED <<listVars, frames>>
  /\ Show(Opened(ui))

\* ModelPicker: its toggle, and a model chosen, whose button goes with the menu.
ToggleModels ==
  /\ ui.ask /\ ~Modal(ui) /\ KeyAct("click") /\ UNCHANGED <<listVars, frames>>
  /\ Show([Focused(ui, "barButton") EXCEPT !.models = ~@])

PickModel ==
  /\ ui.models /\ ~Modal(ui) /\ KeyAct("click") /\ UNCHANGED <<listVars, frames>>
  /\ Show([ui EXCEPT !.models = FALSE, !.focus = "body"])

\* A "Go to" row of the panel: the panel closes with it.
PickScreen(screen) ==
  /\ ui.ask /\ KeyAct("enter")
  /\ GoesTo([ui EXCEPT !.ask = FALSE, !.models = FALSE], screen)

-----------------------------------------------------------------------------
(* Rows, the pane, menus and modals.                                       *)

\* A click or Enter on a row: the menu of a row is its child in React's tree, so
\* Enter on an item of the menu is the row's.
PressRow(r) ==
  /\ r \in ToSet(Listed) /\ ~Modal(ui) /\ KeyAct("click") /\ UNCHANGED <<listVars, frames>>
  /\ Show([Clicked(ui, r) EXCEPT !.pane = r])

EnterKey ==
  LET r == IF ui.focus = "menu" THEN ui.menu ELSE ui.focus
  IN  /\ r \in RowSet /\ KeyAct("enter") /\ UNCHANGED <<listVars, frames>>
      /\ Show([ui EXCEPT !.selected = r, !.pane = r])

\* The Archive button of a row, or the item of its menu; both are in the row.
PressArchiveOf(r) ==
  /\ r \in ToSet(Listed) /\ ~Modal(ui) /\ KeyAct("click")
  /\ ArchiveAndAdvanceIn(Clicked(ui, r), r)

OpenMenu(r) ==
  /\ r \in ToSet(Listed) /\ ~Modal(ui) /\ KeyAct("click") /\ UNCHANGED <<listVars, frames>>
  /\ Show(Focused([Clicked(ui, r) EXCEPT !.menu = r], "menu"))

PressReply ==
  /\ ui.pane # NoRow /\ ~Modal(ui) /\ KeyAct("click") /\ UNCHANGED <<listVars, frames>>
  /\ Show(Focused([Clicked(ui, "toolbar") EXCEPT !.composer = TRUE], "composer"))

PressClosePane ==
  /\ ui.pane # NoRow /\ ~Modal(ui) /\ KeyAct("click") /\ UNCHANGED <<listVars, frames>>
  /\ Show([Clicked(ui, "toolbar") EXCEPT !.pane = NoRow, !.composer = FALSE])

SwitchArchived ==
  /\ ui.screen = "inbox" /\ ~Modal(ui) /\ KeyAct("click") /\ UNCHANGED <<listVars, frames>>
  /\ Show([Clicked(ui, "pill") EXCEPT !.view = IF @ = "inbox" THEN "archived" ELSE "inbox"])

\* useReturnFocus, useInitialFocus: a modal takes the focus and keeps where from.
Raised(u, at, about) ==
  Focused([u EXCEPT !.modals = Append(@, [at |-> at, from |-> u.focus, about |-> about])], at)

\* What a prompt asks about: rows to archive, or, with none, a text to discard.
Discards(m) == m.at = "prompt" /\ m.about = {}

Lowered(u) ==
  LET m == TopModal(u)
      below == [u EXCEPT !.modals = Front(@)]
  IN  IF m.from \in OnScreen(below, Listed) THEN Focused(below, m.from) ELSE below

OpenFilters ==
  /\ ui.screen = "inbox" /\ ~Modal(ui) /\ KeyAct("click") /\ UNCHANGED <<listVars, frames>>
  /\ Show(Raised(Clicked(ui, "pill"), "sheet", {}))

ToggleFilter(r) ==
  /\ Modal(ui) /\ TopModal(ui).at = "sheet" /\ KeyAct("click")
  /\ filteredOut' = IF r \in filteredOut THEN filteredOut \ {r} ELSE filteredOut \cup {r}
  /\ UNCHANGED <<shelved, parting, undoable, frames>>
  /\ Show(Clicked(ui, "sheet"))

\* The sheet's bulk action asks first, about the rows shown at that moment.
AskBulkArchive ==
  /\ Modal(ui) /\ TopModal(ui).at = "sheet" /\ ui.view = "inbox" /\ Listed # <<>>
  /\ KeyAct("click") /\ UNCHANGED <<listVars, frames>>
  /\ Show(Raised(Clicked(ui, "sheet"), "prompt", ToSet(Listed)))

\* Cancel, the overlay, or the confirmation of a prompt: archive all, or discard.
CloseModal(confirms) ==
  LET asked == TopModal(ui)
      all == IF confirms THEN asked.about ELSE {}
      low == Lowered(Clicked(ui, asked.at))
  IN  /\ Modal(ui) /\ KeyAct("click")
      /\ shelved' = shelved \cup all /\ parting' = parting \cup all
      /\ undoable' = undoable \o [i \in 1 .. Cardinality(all) |->
                                    [row |-> SelectSeq(KeyRows, LAMBDA r : r \in all)[i],
                                     archived |-> TRUE]]
      /\ UNCHANGED <<filteredOut, frames>>
      /\ Show(IF confirms /\ Discards(asked) THEN [low EXCEPT !.composer = FALSE] ELSE low)

\* A press on the text of a modal, where nothing takes the focus.
PressModalText ==
  /\ Modal(ui) /\ ui.focus # "body" /\ KeyAct("click") /\ UNCHANGED <<listVars, frames>>
  /\ Show(Clicked(ui, "body"))

\* Tab: the list has one stop, the selected row or the first; a modal that holds
\* the focus keeps it (trapTab).
TabStop ==
  IF ui.selected \in ToSet(Listed) THEN ui.selected
  ELSE IF Listed = <<>> THEN "title" ELSE Listed[1]

Tab(spot) ==
  /\ Modal(ui) => ui.focus # TopModal(ui).at
  /\ spot \in OnScreen(ui, Listed) \cap {TabStop, "pill", "toolbar", "input", "barButton"}
  /\ ui.focus # "menu" /\ spot # ui.focus /\ KeyAct("tab") /\ UNCHANGED <<listVars, frames>>
  /\ Show(Focused(ui, spot))

-----------------------------------------------------------------------------
(* Escape.                                                                 *)

\* Mutant: the listener knows text boxes and layers, and not the bar's buttons.
StandsDownInTextOnly ==
  ui.focus \in Editable \/ ui.focus = "menu" \/ Modal(ui)

\* The shell's listener leaves the press to a text box, a layer and the ask bar.
StandsDown ==
  ui.focus \in Editable \/ ui.focus = "menu" \/ ui.focus \in AskBar \/ Modal(ui)

\* closePane, and the focus back on the row of the thread.
ShellEscape(u) ==
  LET shut == [u EXCEPT !.pane = NoRow, !.composer = FALSE]
  IN  IF StandsDown \/ u.pane = NoRow THEN u
      ELSE IF u.pane \in ToSet(Listed) THEN Focused(shut, u.pane) ELSE shut

\* returnFocusAfterClose: to the opener, else to the selected row.
Returned(u) ==
  LET shut == [u EXCEPT !.ask = FALSE, !.models = FALSE, !.opener = "body", !.focus = "body"]
  IN  CASE u.opener # "body" /\ u.opener \in OnScreen(shut, Listed) -> Focused(shut, u.opener)
        [] u.selected \in ToSet(Listed) -> Focused(shut, u.selected)
        [] OTHER -> shut

\* A composer with text asks before it goes.
LayerEscape(u, blank) ==
  CASE ui.focus = "menu" -> Focused(u, u.menu)
    [] ui.focus = "barButton" /\ u.models -> [u EXCEPT !.models = FALSE]
    [] ui.focus \in AskBar /\ ~(ui.focus = "barButton" /\ u.models) -> Returned(u)
    [] ui.focus \in {"sheet", "prompt"} /\ Modal(u) -> Lowered(u)
    [] ui.focus = "composer" /\ blank -> [u EXCEPT !.composer = FALSE]
    [] ui.focus = "composer" /\ ~blank -> Raised(u, "prompt", {})
    [] OTHER -> u

Escape(blank) ==
  /\ KeyAct("escape") /\ UNCHANGED <<listVars, frames>>
  /\ Show(LayerEscape(ShellEscape(ui), blank))

-----------------------------------------------------------------------------
(* What comes by itself.                                                   *)

\* The frame of a screen waits some frames for the remembered row, which come
\* before anything else here, and falls back to the title.
RunFrame ==
  LET f == Head(frames)
      row == IF f.to = "row" THEN f.row ELSE IF f.to = "screen" THEN ui.selected ELSE NoRow
  IN  /\ frames # <<>>
      /\ frames' = Tail(frames) /\ pressed' = "frame"
      /\ UNCHANGED <<listVars, keyActs>>
      /\ CASE row \in ToSet(Listed) -> Show(Focused(ui, row))
           [] row \notin ToSet(Listed) /\ f.to = "row" -> UNCHANGED ui
           [] OTHER -> Show(Focused(ui, "title"))

\* The animation lasts longer than a frame.
LeaveEnded(r) ==
  /\ r \in parting /\ frames = <<>>
  /\ parting' = parting \ {r} /\ pressed' = "timer"
  /\ UNCHANGED <<shelved, filteredOut, undoable, frames, keyActs>>
  /\ Show(ui)

Keys ==
  \/ \E down \in BOOLEAN : Step(down) \/ Jump(down)
  \/ ArchiveKey \/ UndoKey \/ CommandZ \/ ReplyKey \/ CommandK \/ TypeInBar \/ EnterKey
  \/ \E screen \in {"inbox", "tasks"} : GoKey(screen)
  \/ \E spot \in Spots : Tab(spot)
  \/ \E blank \in BOOLEAN : Escape(blank)

Clicks ==
  \/ PressBar \/ ToggleModels \/ PickModel \/ PressReply \/ PressClosePane \/ SwitchArchived
  \/ OpenFilters \/ AskBulkArchive \/ PressModalText
  \/ \E screen \in {"inbox", "tasks"} : PressTile(screen) \/ PickScreen(screen)
  \/ \E r \in RowSet : PressRow(r) \/ PressArchiveOf(r) \/ OpenMenu(r) \/ ToggleFilter(r)
  \/ \E confirms \in BOOLEAN : CloseModal(confirms)

KeysNext ==
  \/ Keys \/ Clicks \/ RunFrame
  \/ \E r \in RowSet : LeaveEnded(r)

KeysSpec == KeysInit /\ [][KeysNext]_keyVars

-----------------------------------------------------------------------------
(* Properties.                                                             *)

\* The model menu is a layer while the focus is on its button.
Layers ==
  (IF ui.pane # NoRow THEN {"pane"} ELSE {}) \cup (IF ui.ask THEN {"ask"} ELSE {})
    \cup (IF ui.models /\ ui.focus = "barButton" THEN {"models"} ELSE {})
    \cup (IF ui.menu # NoRow THEN {"menu"} ELSE {})
    \cup (IF Modal(ui) THEN {"modal"} ELSE {})
    \cup (IF Len(ui.modals) > 1 THEN {"modal over it"} ELSE {})

\* "Focus is selection", once the frames have run.
RingIsSelection ==
  frames = <<>> /\ ui.focus \in RowSet /\ ui.selected \in ToSet(Listed)
    => ui.selected = ui.focus

\* One Escape closes one layer; when that is the ask panel, the focus is left on
\* the list if the selected row is there to take it; and wherever the focus
\* comes to rest in the list, the selection is there.
KeysKeepTheirPlace ==
  /\ []RingIsSelection
  /\ [][pressed' = "escape" =>
          /\ Cardinality(Layers \ Layers') <= 1
          /\ "ask" \in Layers \ Layers' /\ ui'.focus = "body"
               => ui'.selected \notin ToSet(Listed')]_keyVars
=============================================================================
