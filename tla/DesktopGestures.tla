--------------------------- MODULE DesktopGestures ---------------------------
(***************************************************************************)
(* What a finger does to the rail and to the rows of the list: the one     *)
(* drag primitive (ui/lib/pointer-drag.ts) with its slop, its hold and its *)
(* listeners on window; the reorder of the rail's tiles (channel-rail.tsx, *)
(* lib/rail-order.ts) and the swipe of a row (inbox-row.tsx,               *)
(* lib/open-row.ts).                                                       *)
(*                                                                         *)
(* A place along the rail is a slot; a swipe's travel is 0, half the       *)
(* action (-1) or the whole of it (-2).  A press keeps what it read of the *)
(* render it was made on, as its handlers' closures do.  A click follows a *)
(* release, or the browser sends none.                                     *)
(***************************************************************************)
EXTENDS Integers, Sequences, SequencesExt

CONSTANTS
  Fingers,
  RailTiles,       \* the channels in the hub's order; the last is Agents' own tile
  SwipeRows,
  NoTarget,
  BarTileLimit,    \* NARROW_RAIL_TILE_LIMIT
  Undisturbed,     \* while a finger is down nothing else touches rail, rows or width
  MaxGestures      \* bound on presses and on what happens around them

VARIABLES
  fingers,         \* the pointers that are down and the gesture each one tracks
  rail,            \* tiles connected, order, stored, preview, drag, suppressClick, selected
  swipe,           \* rows mounted, openId, dragX and the dragged latch of each, archived
  narrowShell,
  touched,         \* history: what the last step was, and whether its click acted
  gestureActs

gestureVars == <<fingers, rail, swipe, narrowShell, touched, gestureActs>>

TileSet == ToSet(RailTiles)
Up == [on |-> "none", of |-> NoTarget, mode |-> "up", drags |-> FALSE, shown |-> <<>>,
       slots |-> 0, rest |-> 0, alive |-> FALSE, dx |-> 0]
NoDrag == [of |-> NoTarget, order |-> <<>>, index |-> 0, moved |-> FALSE]
NotDragged == 9        \* dragX is null

GesturesInit ==
  /\ fingers = [f \in Fingers |-> Up]
  /\ rail = [tiles |-> TileSet, order |-> <<>>, stored |-> <<>>, preview |-> <<>>,
             drag |-> NoDrag, suppress |-> NoTarget, selected |-> NoTarget]
  /\ swipe = [mounted |-> SwipeRows, open |-> NoTarget, archived |-> {},
              dragX |-> [r \in SwipeRows |-> NotDragged], latch |-> [r \in SwipeRows |-> FALSE]]
  /\ narrowShell = TRUE /\ touched = [by |-> "none", acted |-> FALSE]
  /\ gestureActs = 0

Did(what) == touched' = [by |-> what, acted |-> FALSE]
Counted == gestureActs < MaxGestures /\ gestureActs' = gestureActs + 1
Hands == {f \in Fingers : fingers[f].on # "none"}
Undisturbing == Undisturbed => Hands = {}

-----------------------------------------------------------------------------
(* The order of the rail.                                                  *)

\* applyOrder: the stored order, without what is gone, then what is new.
ApplyOrder(tiles, stored) ==
  LET kept == SelectSeq(stored, LAMBDA c : c \in tiles)
  IN  kept \o SelectSeq(RailTiles, LAMBDA c : c \in tiles /\ c \notin ToSet(kept))

Shown(r) == IF r.preview # <<>> THEN r.preview ELSE ApplyOrder(r.tiles, r.order)

BarTiles(r) ==
  IF narrowShell /\ Len(Shown(r)) > BarTileLimit THEN SubSeq(Shown(r), 1, BarTileLimit)
  ELSE Shown(r)

SlotOf(s, c) == CHOOSE i \in DOMAIN s : s[i] = c

\* The splice of a tile into a slot; moveTile's, and the pointer's.
Spliced(order, from, to) == InsertAt(RemoveAt(order, from), to, order[from])

\* setOrder and writeRailOrder.
Reordered(r, order) == [r EXCEPT !.order = order, !.stored = order]

-----------------------------------------------------------------------------
(* The revealed row.                                                       *)

OpenedRow(s, r) == [s EXCEPT !.open = r]
ClosedRow(s, r) == [s EXCEPT !.open = IF @ = r THEN NoTarget ELSE @]

RestX(r) == IF narrowShell /\ swipe.open = r THEN -2 ELSE 0
Clamped(x) == IF x < -2 THEN -2 ELSE IF x > 0 THEN 0 ELSE x
DrawnX(r) == Clamped(IF swipe.dragX[r] = NotDragged THEN RestX(r) ELSE RestX(r) + swipe.dragX[r])

-----------------------------------------------------------------------------
(* A press.                                                                *)

MayTouch(f) == fingers[f].on = "none" /\ Undisturbing /\ Counted

\* A fresh press clears the click the last drag suppressed.  On touch a tile waits
\* for its hold; with a mouse for the slop alone.
TouchTile(f, c, touch) ==
  /\ MayTouch(f) /\ c \in ToSet(BarTiles(rail))
  /\ rail' = [rail EXCEPT !.suppress = NoTarget]
  /\ fingers' = [fingers EXCEPT ![f] =
                   [Up EXCEPT !.on = "tile", !.of = c, !.mode = IF touch THEN "hold" ELSE "armed",
                              !.shown = Shown(rail), !.slots = Len(BarTiles(rail))]]
  /\ Did("press") /\ UNCHANGED <<swipe, narrowShell>>

\* Mutant: a press leaves the latch of the last gesture.
LatchKept(s, r) == s

\* The latch belongs to one gesture, which begins at the press.
LatchCleared(s, r) == [s EXCEPT !.latch[r] = FALSE]

\* From 900 up no gesture is bound to a row.
TouchRow(f, r) ==
  /\ MayTouch(f) /\ r \in swipe.mounted
  /\ swipe' = IF narrowShell THEN LatchCleared(swipe, r) ELSE swipe
  /\ fingers' = [fingers EXCEPT ![f] =
                   [Up EXCEPT !.on = "row", !.of = r, !.mode = IF narrowShell THEN "armed" ELSE "over",
                              !.rest = RestX(r), !.alive = TRUE]]
  /\ Did("press") /\ UNCHANGED <<rail, narrowShell>>

-----------------------------------------------------------------------------
(* Moves.                                                                  *)

\* onStart of the rail, for the render the press was made on.
Lifted(r, g) ==
  [r EXCEPT !.drag = [of |-> g.of, order |-> g.shown, index |-> SlotOf(g.shown, g.of),
                      moved |-> FALSE],
            !.suppress = g.of]

HoldElapses(f) ==
  LET g == fingers[f]
      connected == g.of \in ToSet(BarTiles(rail))
  IN  /\ g.mode = "hold"
      /\ fingers' = [fingers EXCEPT ![f].mode = IF connected THEN "started" ELSE "over",
                                    ![f].drags = connected]
      /\ rail' = IF connected THEN Lifted(rail, g) ELSE rail
      /\ Did("hold") /\ UNCHANGED <<swipe, narrowShell, gestureActs>>

\* A finger that moves before its hold has elapsed is scrolling.
ScrollsAway(f) ==
  /\ fingers[f].mode = "hold"
  /\ fingers' = [fingers EXCEPT ![f].mode = "over"]
  /\ Did("move") /\ UNCHANGED <<rail, swipe, narrowShell, gestureActs>>

\* onMove of the rail: whichever tile is lifted goes to the nearest slot.
Crossed(r, slot) ==
  IF r.drag.of = NoTarget \/ slot = r.drag.index THEN r
  ELSE LET next == Spliced(r.drag.order, r.drag.index, slot)
       IN  [r EXCEPT !.drag = [@ EXCEPT !.order = next, !.index = slot, !.moved = TRUE],
                     !.preview = next]

DragTile(f, slot) ==
  LET g == fingers[f]
  IN  /\ g.on = "tile" /\ g.mode \in {"armed", "started"} /\ slot \in 1 .. g.slots
      /\ rail' = Crossed(IF g.mode = "armed" THEN Lifted(rail, g) ELSE rail, slot)
      /\ fingers' = [fingers EXCEPT ![f].mode = "started", ![f].drags = TRUE]
      /\ Did("move") /\ UNCHANGED <<swipe, narrowShell, gestureActs>>

\* A row that was unmounted keeps the pointer's listeners, and nothing to draw.
DragRow(f, dx) ==
  LET g == fingers[f]
  IN  /\ g.on = "row" /\ g.mode \in {"armed", "started"} /\ dx # g.dx
      /\ swipe' = IF g.alive THEN [swipe EXCEPT !.dragX[g.of] = dx, !.latch[g.of] = TRUE] ELSE swipe
      /\ fingers' = [fingers EXCEPT ![f].mode = "started", ![f].drags = TRUE, ![f].dx = dx]
      /\ Did("move") /\ UNCHANGED <<rail, narrowShell, gestureActs>>

-----------------------------------------------------------------------------
(* The end of a gesture, and the click after it.                           *)

\* onEnd of the rail: one write, and none if the tile never left its slot.
TileDropped(r) ==
  LET idle == [r EXCEPT !.drag = NoDrag, !.preview = <<>>]
  IN  IF r.drag.of = NoTarget THEN [r EXCEPT !.drag = NoDrag]
      ELSE IF r.drag.moved THEN Reordered(idle, r.drag.order) ELSE idle

Still(s, g) == IF g.alive THEN [s EXCEPT !.dragX[g.of] = NotDragged] ELSE s

\* onEnd of a row: past the action it archives, past its half it stays revealed.
Landed(s, g) ==
  LET at == Clamped(g.rest + g.dx)
      still == Still(s, g)
  IN  CASE at = -2 -> [OpenedRow(still, g.of) EXCEPT !.archived = @ \cup {g.of}]
        [] at = -1 -> OpenedRow(still, g.of)
        [] OTHER -> ClosedRow(still, g.of)

\* A tile that was just dragged keeps its click to itself.
TileClicked(r, c) ==
  IF r.suppress = c THEN [r EXCEPT !.suppress = NoTarget] ELSE [r EXCEPT !.selected = c]

\* swallowAfterDrag in the capture phase; then the row, or the button in it.
RowClicked(s, r, target) ==
  CASE s.latch[r] -> [s EXCEPT !.latch[r] = FALSE]
    [] ~s.latch[r] /\ target = "button" -> [s EXCEPT !.archived = @ \cup {r}]
    [] OTHER -> ClosedRow(s, r)

\* A release: onEnd if the gesture had started, then the click if one is sent.
Release(f, clicks, target) ==
  LET g == fingers[f]
      ended == g.mode = "started"
      dropped == IF ended /\ g.on = "tile" THEN TileDropped(rail) ELSE rail
      landed == IF ended /\ g.on = "row" THEN Landed(swipe, g) ELSE swipe
      onTile == clicks /\ g.on = "tile" /\ g.of \in ToSet(BarTiles(dropped))
      onRow == clicks /\ g.on = "row" /\ g.alive
  IN  /\ g.on # "none" /\ clicks = (onTile \/ onRow)
      /\ rail' = IF onTile THEN TileClicked(dropped, g.of) ELSE dropped
      /\ swipe' = IF onRow THEN RowClicked(landed, g.of, target) ELSE landed
      /\ fingers' = [fingers EXCEPT ![f] = Up]
      /\ touched' = [by |-> IF clicks THEN "click" ELSE "up",
                     acted |-> \/ onTile /\ dropped.suppress # g.of
                               \/ onRow /\ ~landed.latch[g.of]]
      /\ UNCHANGED <<narrowShell, gestureActs>>

\* onCancel of each: the tile goes home, the row to where it rests.
CancelledRail(r) ==
  IF r.drag.of = NoTarget THEN r ELSE [r EXCEPT !.drag = NoDrag, !.preview = <<>>]

\* The browser takes the pointer, for a scroll.
PointerCancel(f) ==
  LET g == fingers[f]
  IN  /\ g.on # "none"
      /\ rail' = IF g.on = "tile" /\ g.mode = "started" THEN CancelledRail(rail) ELSE rail
      /\ swipe' = IF g.on = "row" /\ g.mode = "started" THEN Still(swipe, g) ELSE swipe
      /\ fingers' = [fingers EXCEPT ![f] = Up]
      /\ Did("cancel") /\ UNCHANGED <<narrowShell, gestureActs>>

\* Escape ends every gesture; the fingers are still down.
EscapeGesture(f) ==
  LET g == fingers[f]
  IN  /\ Hands = {f} /\ g.mode \in {"hold", "armed", "started"}
      /\ rail' = IF g.on = "tile" /\ g.mode = "started" THEN CancelledRail(rail) ELSE rail
      /\ swipe' = IF g.on = "row" /\ g.mode = "started" THEN Still(swipe, g) ELSE swipe
      /\ fingers' = [fingers EXCEPT ![f].mode = "over"]
      /\ Did("cancel") /\ UNCHANGED <<narrowShell, gestureActs>>

-----------------------------------------------------------------------------
(* What happens around it.                                                 *)

\* Ctrl and an arrow on a tile; Enter on a tile is a click with no press.
ArrowTile(c, delta) ==
  LET from == SlotOf(Shown(rail), c)
  IN  /\ Undisturbing /\ Counted /\ c \in ToSet(BarTiles(rail))
      /\ from + delta \in DOMAIN Shown(rail)
      /\ rail' = Reordered(rail, Spliced(Shown(rail), from, from + delta))
      /\ Did("key") /\ UNCHANGED <<fingers, swipe, narrowShell>>

EnterTile(c) ==
  /\ Undisturbing /\ Counted /\ c \in ToSet(BarTiles(rail))
  /\ rail' = TileClicked(rail, c)
  /\ Did("key") /\ UNCHANGED <<fingers, swipe, narrowShell>>

\* A tile of the More popover, where those that do not fit are.
PickFromMore(c) ==
  /\ Undisturbing /\ Counted /\ c \in ToSet(Shown(rail)) \ ToSet(BarTiles(rail))
  /\ rail' = [rail EXCEPT !.selected = c]
  /\ Did("key") /\ UNCHANGED <<fingers, swipe, narrowShell>>

\* An account is connected or goes, whatever the fingers do.
Reconnects(c) ==
  /\ c # Last(RailTiles) /\ Counted
  /\ rail' = [rail EXCEPT !.tiles = IF c \in @ THEN @ \ {c} ELSE @ \cup {c}]
  /\ Did("hub") /\ UNCHANGED <<fingers, swipe, narrowShell>>

\* The window crosses 900 pixels: a row that cannot be swiped is not revealed.
CrossWidth ==
  /\ Undisturbing /\ Counted /\ narrowShell' = ~narrowShell
  /\ swipe' = IF narrowShell THEN [swipe EXCEPT !.open = NoTarget] ELSE swipe
  /\ Did("width") /\ UNCHANGED <<fingers, rail>>

\* A row leaves the window of the list, or comes back with none of its state.
Unmounts(r) ==
  /\ Undisturbing /\ Counted /\ r \in swipe.mounted
  /\ swipe' = [ClosedRow(swipe, r) EXCEPT !.mounted = @ \ {r}, !.dragX[r] = NotDragged,
                                          !.latch[r] = FALSE]
  /\ fingers' = [f \in Fingers |-> IF fingers[f].of = r THEN [fingers[f] EXCEPT !.alive = FALSE]
                                   ELSE fingers[f]]
  /\ Did("list") /\ UNCHANGED <<rail, narrowShell>>

Mounts(r) ==
  /\ Undisturbing /\ Counted /\ r \notin swipe.mounted \cup swipe.archived
  /\ swipe' = [swipe EXCEPT !.mounted = @ \cup {r}]
  /\ Did("list") /\ UNCHANGED <<fingers, rail, narrowShell>>

\* The app again: the order is what was stored.
Reopened ==
  /\ Hands = {} /\ Counted
  /\ rail' = [rail EXCEPT !.order = rail.stored, !.suppress = NoTarget, !.selected = NoTarget]
  /\ swipe' = [swipe EXCEPT !.open = NoTarget, !.latch = [r \in SwipeRows |-> FALSE]]
  /\ Did("reload") /\ UNCHANGED <<fingers, narrowShell>>

GesturesNext ==
  \/ \E f \in Fingers :
       \/ \E c \in TileSet, touch \in BOOLEAN : TouchTile(f, c, touch)
       \/ \E r \in SwipeRows : TouchRow(f, r)
       \/ HoldElapses(f) \/ ScrollsAway(f) \/ PointerCancel(f) \/ EscapeGesture(f)
       \/ \E slot \in 1 .. Len(RailTiles) : DragTile(f, slot)
       \/ \E dx \in -2 .. 2 : DragRow(f, dx)
       \/ \E clicks \in BOOLEAN, target \in {"row", "button"} : Release(f, clicks, target)
  \/ \E c \in TileSet :
       \/ EnterTile(c) \/ PickFromMore(c) \/ Reconnects(c)
       \/ \E delta \in {-1, 1} : ArrowTile(c, delta)
  \/ \E r \in SwipeRows : Unmounts(r) \/ Mounts(r)
  \/ CrossWidth \/ Reopened

GesturesSpec == GesturesInit /\ [][GesturesNext]_gestureVars

-----------------------------------------------------------------------------
(* Properties.                                                             *)

\* What is revealed is a row on screen, at the width that can swipe it; and a rail
\* nobody holds is in the order that is stored, each connected tile once.
RestsAsStored ==
  /\ swipe.open # NoTarget => swipe.open \in swipe.mounted /\ narrowShell
  /\ rail.drag.of = NoTarget =>
       /\ rail.preview = <<>> /\ rail.order = rail.stored
       /\ ToSet(Shown(rail)) = rail.tiles /\ IsInjective(Shown(rail))

\* Two orders of the rail, as far as the tiles of a third are in both.
Agree(s, t, u) ==
  LET both == ToSet(s) \cap ToSet(t) \cap ToSet(u)
  IN  SelectSeq(s, LAMBDA c : c \in both) = SelectSeq(t, LAMBDA c : c \in both)

\* A click does what it says exactly when no drag came before it (on a row, below 900
\* pixels); a drop leaves the tiles as they were drawn, and a cancelled one as
\* they were before; a swipe ends where the row was drawn.
GesturesMeanWhatTheyShow ==
  /\ []RestsAsStored
  /\ [][\A f \in Fingers :
           LET g == fingers[f]
               clicks == touched'.by = "click" /\ g.on # "none" /\ fingers'[f].on = "none"
               ends == g.mode = "started" /\ fingers'[f].mode # "started"
               cancels == touched'.by = "cancel"
           IN  /\ clicks /\ (g.on = "tile" \/ narrowShell) => touched'.acted = ~g.drags
               /\ ends /\ g.on = "tile" =>
                    Agree(Shown(rail'), IF cancels THEN g.shown ELSE Shown(rail), g.shown)
               /\ ends /\ g.on = "row" /\ ~cancels =>
                    /\ (swipe'.open = g.of) = (DrawnX(g.of) <= -1)
                    /\ DrawnX(g.of) = -2 => g.of \in swipe'.archived]_gestureVars
=============================================================================
