------------------------------- MODULE LayoutTree -------------------------------
(***************************************************************************)
(* The partitions of the wall.  An SN_LayoutWidget either holds windows    *)
(* (SN_BaseWidgets) or has an SN_WallPartitionBar and two child layouts.   *)
(* Users split layouts, drag bars, remove partitions, launch windows, drag *)
(* them to another place, minimize, restore and close them, and save and   *)
(* load sessions; several users drag at a time.                            *)
(*                                                                         *)
(* As in the code a layout and a window have a position relative to their  *)
(* parent and move along with it; Origin and ScenePos are scene positions. *)
(* Lengths are in a unit in which halving is exact.  Windows are squares   *)
(* of one size: scaling and tiling (_isTileOn) are left out.  A layout is  *)
(* named by a number that is free again when it is deleted.                *)
(***************************************************************************)
EXTENDS Integers, Sequences, FiniteSets

CONSTANTS
    Window,         \* the windows, by their globalAppId
    Side,           \* their width and height
    Web,            \* those of them that show a web page
    WallWidth, WallHeight,
    Positions,      \* the scene positions windows are launched at and dragged to
    Steps,          \* how far a bar is dragged at once
    MaxLayouts,     \* bound on the number of layouts
    Sessions,       \* the saved sessions, sequences of entries
    Reloads         \* bound: sessions are loaded onto a wall with partitions, too

ASSUME WallAssumption == {WallWidth, WallHeight, Side, MaxLayouts} \subseteq Nat \ {0}
ASSUME WindowAssumption == IsFiniteSet(Window) /\ Web \subseteq Window
ASSUME ReloadsAssumption == Reloads \in BOOLEAN
ASSUME PositionsAssumption == Positions \subseteq [x : Int, y : Int] /\ Steps \subseteq Int

Rectangles == [x : Int, y : Int, w : Nat, h : Nat]

\* The first of two areas begins at (0,0), the second where the first one ends.
Meet(bar, first, second) ==
    /\ first.x = 0 /\ first.y = 0
    /\ IF bar = "horizontal" THEN second.x = 0 /\ second.y = first.h
                             ELSE second.y = 0 /\ second.x = first.w

Entries == [header : {"LAYOUT"}, bar : {"horizontal", "vertical"}, first : Rectangles, second : Rectangles]
           \cup [header : {"ITEM"}, window : Window, pos : [x : Int, y : Int]]
           \cup [header : {"URL", "RETURN"}]

\* What saveSession() writes: no window twice, and areas that meet.
ASSUME SessionsAssumption ==
    \A s \in Sessions :
        /\ s \in Seq(Entries)
        /\ \A i \in 1..Len(s) : s[i].header = "LAYOUT" => Meet(s[i].bar, s[i].first, s[i].second)
        /\ \A i, j \in 1..Len(s) : s[i].header = "ITEM" /\ s[j].header = "ITEM" /\ s[i].window = s[j].window
                                      => i = j

VARIABLES
    layout,     \* the layouts
    window,     \* where each window is
    minimized,  \* the windows in state W_MINIMIZED
    held,       \* the windows that are being dragged
    recent      \* SN_AppInfo's recentPos of each window

layoutVars == <<layout, window, minimized, held, recent>>

Root        == 1
Nowhere     == 0            \* the window is not on the wall
MinimizeBar == -1

Point(x, y) == [x |-> x, y |-> y]
Rect(x, y, w, h) == [x |-> x, y |-> y, w |-> w, h |-> h]

NewLayout(parent, position) ==
    [parent |-> parent, position |-> position, x |-> 0, y |-> 0, w |-> 0, h |-> 0,
     bar |-> "none", line |-> 0, first |-> Nowhere, second |-> Nowhere]

Absent == [at |-> Nowhere, x |-> 0, y |-> 0]

EmptyWall == [layout |-> [l \in {Root} |-> [NewLayout(Nowhere, "ROOT") EXCEPT !.w = WallWidth, !.h = WallHeight]],
              window |-> [i \in Window |-> Absent]]

Scene == [layout |-> layout, window |-> window]

LayoutInit == /\ layout = EmptyWall.layout
              /\ window = EmptyWall.window
              /\ minimized = {}
              /\ held = {}
              /\ recent = [i \in Window |-> Point(0, 0)]

-------------------------------------------------------------------------------
(* Positions                                                                 *)

\* Scene positions are measured from the root layout; the minimize bar is below it.
Origins(wall) ==
    LET origin[l \in DOMAIN wall.layout] ==
            IF l = Root THEN Point(0, 0)
            ELSE LET n == wall.layout[l]
                     o == origin[n.parent]
                 IN  Point(o.x + n.x, o.y + n.y)
    IN  origin

Origin(wall, l) == IF l = MinimizeBar THEN Point(0, WallHeight) ELSE Origins(wall)[l]

ScenePos(wall, i) ==
    LET v == wall.window[i]
        o == Origin(wall, v.at)
    IN  Point(o.x + v.x, o.y + v.y)

Centre(p) == Point(p.x + Side \div 2, p.y + Side \div 2)

\* QRectF::contains(): the border belongs to it, an empty rectangle has none.
Surrounds(wall, l, p) ==
    LET o == Origin(wall, l)
        n == wall.layout[l]
    IN  /\ n.w > 0 /\ o.x <= p.x /\ p.x <= o.x + n.w
        /\ n.h > 0 /\ o.y <= p.y /\ p.y <= o.y + n.h

\* The window as a child of layout l at scene position p.
In(wall, l, p) == [at |-> l, x |-> p.x - Origin(wall, l).x, y |-> p.y - Origin(wall, l).y]

\* The leaf below l that takes a window with centre c: addItem() looks at where the
\* window is, not at where it shall be put.
Taker(wall, l, c) ==
    LET taker[k \in DOMAIN wall.layout] ==
            LET n == wall.layout[k]
            IN  IF n.bar = "none" THEN k
                ELSE taker[IF Surrounds(wall, n.first, c) THEN n.first ELSE n.second]
    IN  taker[l]

AddItem(wall, i, c, p) == [wall EXCEPT !.window[i] = In(wall, Taker(wall, Root, Centre(c)), p)]

-------------------------------------------------------------------------------
(* Sizes                                                                     *)

\* QGraphicsWidget keeps a size from becoming negative.
Bounded(n) == IF n < 0 THEN 0 ELSE n

Clipped(r) == [r EXCEPT !.w = Bounded(r.w), !.h = Bounded(r.h)]

AreaOf(n) == Rect(n.x, n.y, n.w, n.h)

\* What the children of layout n get when it has area a.
FirstArea(n, a)  == IF n.bar = "horizontal" THEN Rect(0, 0, a.w, n.line) ELSE Rect(0, 0, n.line, a.h)
SecondArea(n, a) == IF n.bar = "horizontal" THEN Rect(0, n.line, a.w, a.h - n.line)
                                            ELSE Rect(n.line, 0, a.w - n.line, a.h)

\* setRectangle() of the layouts in given, and resizeEvent() below them: a layout whose
\* size changes gives its children their areas, with the bar where it was.
ResizeEvent(wall, given) ==
    LET area[k \in DOMAIN wall.layout] ==
            LET n == wall.layout[k]
                p == wall.layout[n.parent]
                a == area[n.parent]
            IN  IF k \in DOMAIN given THEN Clipped(given[k])
                ELSE IF k = Root \/ k \notin {p.first, p.second} \/ (a.w = p.w /\ a.h = p.h) THEN AreaOf(n)
                ELSE Clipped(IF k = p.first THEN FirstArea(p, a) ELSE SecondArea(p, a))
    IN  area

\* resized() of the first child: the bar is put where that child ends.
AdjustBar(n, a, resized) ==
    IF n.bar = "none" \/ ~resized[n.first] THEN n.line
    ELSE IF n.bar = "horizontal" THEN a[n.first].h ELSE a[n.first].w

\* The bar of layout n, whose origin is o, touches a window at p.
Collides(n, o, p) ==
    LET Meets(a, b, from, to) == a <= to /\ from <= b
    IN  IF n.bar = "horizontal"
        THEN Meets(p.x, p.x + Side, o.x, o.x + n.w) /\ Meets(p.y, p.y + Side, o.y + n.line, o.y + n.line)
        ELSE Meets(p.x, p.x + Side, o.x + n.line, o.x + n.line) /\ Meets(p.y, p.y + Side, o.y, o.y + n.h)

\* A window of a resized leaf that the bar of the leaf's parent touches is moved away from
\* it.  Which way depends on the side that changed, not on the bar; the layouts have their
\* new sizes, but are not moved yet.
AdjustChildPos(wall, sized, i) ==
    LET v == wall.window[i]
        n == sized[v.at]
    IN  IF ~Collides(sized[n.parent], Origin(wall, n.parent), ScenePos(wall, i)) THEN v
        ELSE IF n.h = wall.layout[v.at].h
             THEN [v EXCEPT !.x = IF n.position = "first" THEN n.w - Side ELSE 0]
        ELSE IF n.w = wall.layout[v.at].w
             THEN [v EXCEPT !.y = IF n.position = "first" THEN n.h - Side ELSE 0]
        ELSE v

\* Layouts get the areas given, and everything in them follows.
SetRectangles(wall, given) ==
    LET area == ResizeEvent(wall, given)
        resized == [k \in DOMAIN wall.layout |->
                        area[k].w # wall.layout[k].w \/ area[k].h # wall.layout[k].h]
        sized == [k \in DOMAIN wall.layout |->
                    [wall.layout[k] EXCEPT !.x = area[k].x, !.y = area[k].y, !.w = area[k].w, !.h = area[k].h,
                                           !.line = AdjustBar(wall.layout[k], area, resized)]]
        Follows(i) == LET l == wall.window[i].at
                      IN  l \in DOMAIN wall.layout /\ wall.layout[l].bar = "none" /\ resized[l]
    IN  [layout |-> sized,
         window |-> [i \in Window |-> IF Follows(i) THEN AdjustChildPos(wall, sized, i) ELSE wall.window[i]]]

-------------------------------------------------------------------------------
(* Partitions                                                                *)

Unused(used) == CHOOSE n \in 1..Cardinality(used) + 1 : n \notin used

\* The areas of two layouts.
Areas(f, s, first, second) == [k \in {f, s} |-> IF k = f THEN first ELSE second]

\* Layout l of the wall is given a bar and two children, f and s.
Split(wall, l, bar, f, s, first, second) ==
    LET with == [k \in DOMAIN wall.layout \cup {f, s} |->
                    CASE k = f -> NewLayout(l, "first")
                      [] k = s -> NewLayout(l, "second")
                      [] k = l -> [wall.layout[l] EXCEPT !.bar = bar, !.line = 0, !.first = f, !.second = s]
                      [] OTHER -> wall.layout[k]]
    IN  SetRectangles([wall EXCEPT !.layout = with], Areas(f, s, first, second))

\* The windows of l go to the child that contains their centre.
HandDown(wall, l, f, s) ==
    LET Child(i) == IF Surrounds(wall, f, Centre(ScenePos(wall, i))) THEN f ELSE s
    IN  [wall EXCEPT !.window =
            [i \in Window |-> IF @[i].at # l THEN @[i] ELSE In(wall, Child(i), ScenePos(wall, i))]]

\* Mutant: the windows stay with the layout that is split.
PartitionsOnly(wall, l, bar, first, second) ==
    LET f == Unused(DOMAIN wall.layout)
        s == Unused(DOMAIN wall.layout \cup {f})
    IN  Split(wall, l, bar, f, s, first, second)

\* What l's first and second were is forgotten.
CreateChildPartitions(wall, l, bar, first, second) ==
    LET f == Unused(DOMAIN wall.layout)
        s == Unused(DOMAIN wall.layout \cup {f})
    IN  HandDown(Split(wall, l, bar, f, s, first, second), l, f, s)

Halves(n, bar) ==
    IF bar = "horizontal"
    THEN <<Rect(0, 0, n.w, n.h \div 2), Rect(0, n.h \div 2, n.w, n.h \div 2)>>
    ELSE <<Rect(0, 0, n.w \div 2, n.h), Rect(n.w \div 2, 0, n.w \div 2, n.h)>>

\* The least set with l, and with each layout those next to it.
Reach(next, l) ==
    {k \in DOMAIN next : \A S \in SUBSET DOMAIN next : l \in S /\ (\A j \in S : next[j] \subseteq S) => k \in S}

\* l and everything below it in the scene.
Below(wall, l) ==
    Reach([j \in DOMAIN wall.layout |-> {k \in DOMAIN wall.layout : wall.layout[k].parent = j}], l)

\* Mutant: only the windows of the two children are kept.
ChildrenOnly(wall, l) == {wall.layout[l].first, wall.layout[l].second}

\* The leaves reached by reparentMyChildBasewidgets().
Leaves(wall, l) ==
    LET children == [j \in DOMAIN wall.layout |->
                        IF wall.layout[j].bar = "none" THEN {} ELSE {wall.layout[j].first, wall.layout[j].second}]
    IN  {k \in Reach(children, l) : wall.layout[k].bar = "none"}

\* Windows of the leaves go to l; the children are deleted with all that is left in
\* them, and so is the bar.
DeleteChildPartitions(wall, l) ==
    LET n == wall.layout[l]
        lost == Below(wall, n.first) \cup Below(wall, n.second)
        kept == DOMAIN wall.layout \ lost
    IN  [layout |-> [[k \in kept |-> wall.layout[k]] EXCEPT ![l].bar = "none", ![l].line = 0,
                        ![l].first = Nowhere, ![l].second = Nowhere],
         window |-> [i \in Window |->
                        IF wall.window[i].at \in Leaves(wall, l) THEN In(wall, l, ScenePos(wall, i))
                        ELSE IF wall.window[i].at \in lost THEN Absent
                        ELSE wall.window[i]]]

-------------------------------------------------------------------------------
(* Sessions                                                                  *)

Inside(wall, l) == {i \in Window : wall.window[i].at = l}

\* Mutant: the position in the layout is written.
RelativeEntry(wall, i) ==
    <<[header |-> "ITEM", window |-> i, pos |-> Point(wall.window[i].x, wall.window[i].y)]>>

ItemEntry(wall, i) ==
    <<[header |-> "ITEM", window |-> i, pos |-> ScenePos(wall, i)]>>
        \o IF i \in Web THEN <<[header |-> "URL"]>> ELSE <<>>

\* The entries of the windows in l, in some order.
ItemEntries(wall, l) ==
    LET entries[rest \in SUBSET Inside(wall, l)] ==
            IF rest = {} THEN <<>>
            ELSE LET i == CHOOSE k \in rest : TRUE
                 IN  ItemEntry(wall, i) \o entries[rest \ {i}]
    IN  entries[Inside(wall, l)]

LayoutEntry(wall, n) == [header |-> "LAYOUT", bar |-> n.bar, first |-> AreaOf(wall.layout[n.first]),
                         second |-> AreaOf(wall.layout[n.second])]

SaveSession(wall, l) ==
    LET save[k \in DOMAIN wall.layout] ==
            LET n == wall.layout[k]
            IN  IF n.bar = "none" THEN ItemEntries(wall, k) \o <<[header |-> "RETURN"]>>
                ELSE <<LayoutEntry(wall, n)>> \o save[n.first] \o save[n.second]
    IN  save[l]

\* A window that is already there is closed and not started again.  A new one is
\* launched like any other and becomes a child of l.  Web pages are not launched.
LoadItem(wall, l, e) ==
    IF wall.window[e.window].at # Nowhere THEN [wall EXCEPT !.window[e.window] = Absent]
    ELSE IF e.window \in Web THEN wall
    ELSE [wall EXCEPT !.window[e.window] = In(wall, l, e.pos)]

\* The next entry of a session: it is for the first of the layouts in todo.  The entries
\* of a layout's first child come before those of the second.  The address of a web
\* page is not read: it is taken for an unknown header, and that ends the layout.
LoadEntry(load, e) ==
    LET l == Head(load.todo)
        split == CreateChildPartitions(load.wall, l, e.bar, e.first, e.second)
    IN  CASE load.todo = <<>> -> load
          [] load.todo # <<>> /\ e.header = "LAYOUT" ->
                [wall |-> split,
                 todo |-> <<split.layout[l].first, split.layout[l].second>> \o Tail(load.todo)]
          [] load.todo # <<>> /\ e.header = "ITEM" -> [load EXCEPT !.wall = LoadItem(@, l, e)]
          [] OTHER -> [load EXCEPT !.todo = Tail(@)]

\* The wall with the session loaded into layout l.
LoadSession(s, wall, l) ==
    LET load[n \in 0..Len(s)] == IF n = 0 THEN [wall |-> wall, todo |-> <<l>>]
                                 ELSE LoadEntry(load[n - 1], s[n])
    IN  load[Len(s)].wall

-------------------------------------------------------------------------------
(* What users do                                                             *)

OnLayout(i) == window[i].at \notin {Nowhere, MinimizeBar}

Becomes(wall) == layout' = wall.layout /\ window' = wall.window

\* recentPos is read of minimized windows only: others need it while they are held.
Forget(closed) == recent' = [i \in Window |-> IF i \in (minimized' \cup held') \ closed THEN recent[i]
                                             ELSE Point(0, 0)]

\* A window that is launched has position (0,0) while its layout is looked for.
AddItemOnTheLayout(i, p) == /\ window[i].at = Nowhere
                            /\ Becomes(AddItem(Scene, i, Point(0, 0), p))
                            /\ UNCHANGED <<minimized, held, recent>>

\* handlePointerPress(), which is not called on the minimize bar; an icon can be
\* dragged off the bar because nothing has reset _isMoving.
Press(i) == /\ window[i].at # Nowhere
            /\ i \notin held
            /\ held' = held \cup {i}
            /\ recent' = IF i \in minimized THEN recent ELSE [recent EXCEPT ![i] = ScenePos(Scene, i)]
            /\ UNCHANGED <<layout, window, minimized>>

\* handlePointerDrag(): the window stays with its parent.
Drag(i, p) == /\ i \in held
              /\ window' = [window EXCEPT ![i] = In(Scene, window[i].at, p)]
              /\ UNCHANGED <<layout, minimized, held, recent>>

\* pointerRelease() on the wall: an icon stays an icon ...
Release(i) == /\ i \in held
              /\ Becomes(AddItem(Scene, i, ScenePos(Scene, i), ScenePos(Scene, i)))
              /\ held' = held \ {i}
              /\ UNCHANGED minimized
              /\ Forget({})

\* ... on the minimize bar ...
Minimize(i, p) == /\ i \in held
                  /\ window' = [window EXCEPT ![i] = [at |-> MinimizeBar, x |-> p.x, y |-> 0]]
                  /\ minimized' = minimized \cup {i}
                  /\ held' = held \ {i}
                  /\ UNCHANGED <<layout, recent>>

\* ... and on the remove button.
CloseWindow(i) == /\ i \in held
                  /\ window' = [window EXCEPT ![i] = Absent]
                  /\ minimized' = minimized \ {i}
                  /\ held' = held \ {i}
                  /\ Forget({i})
                  /\ UNCHANGED layout

\* restoreWidget(), by a click on an icon: the layout is looked for where the icon is.
\* An icon that is not on the bar is not found.
Restore(i) == /\ window[i].at = MinimizeBar
              /\ Becomes(AddItem(Scene, i, ScenePos(Scene, i), recent[i]))
              /\ minimized' = minimized \ {i}
              /\ UNCHANGED held
              /\ Forget({})

\* The buttons of a leaf.
CreateBar(l, bar) ==
    /\ layout[l].bar = "none"
    /\ Cardinality(DOMAIN layout) + 2 <= MaxLayouts
    /\ LET h == Halves(layout[l], bar) IN Becomes(CreateChildPartitions(Scene, l, bar, h[1], h[2]))
    /\ UNCHANGED <<minimized, held, recent>>

\* The button of a leaf child of l.
RemoveBar(l) == /\ layout[l].bar # "none"
                /\ \E k \in {layout[l].first, layout[l].second} : layout[k].bar = "none"
                /\ Becomes(DeleteChildPartitions(Scene, l))
                /\ UNCHANGED <<minimized, held, recent>>

\* Mutant: the second child is not moved.
MoveFirstOnly(wall, l, d) ==
    LET n == wall.layout[l]
        f == wall.layout[n.first]
        g == wall.layout[n.second]
    IN  SetRectangles(wall,
            IF n.bar = "horizontal"
            THEN Areas(n.first, n.second, Rect(f.x, f.y, f.w, f.h + d), Rect(g.x, g.y, g.w, g.h - d))
            ELSE Areas(n.first, n.second, Rect(f.x, f.y, f.w + d, f.h), Rect(g.x, g.y, g.w - d, g.h)))

\* pointerMove(): the first child is resized, the second resized and then moved.
MoveBar(wall, l, d) ==
    LET n == wall.layout[l]
        f == wall.layout[n.first]
        g == wall.layout[n.second]
    IN  SetRectangles(wall,
            IF n.bar = "horizontal"
            THEN Areas(n.first, n.second, Rect(f.x, f.y, f.w, f.h + d), Rect(g.x, g.y + d, g.w, g.h - d))
            ELSE Areas(n.first, n.second, Rect(f.x, f.y, f.w + d, f.h), Rect(g.x + d, g.y, g.w - d, g.h)))

\* Bound: bars push no window off the wall.
WindowsNear(wall) ==
    \A i \in Window : wall.window[i].at \in DOMAIN wall.layout =>
        LET p == ScenePos(wall, i)
        IN  p.x \in 0..WallWidth - Side /\ p.y \in 0..WallHeight - Side

\* The pointer does not leave the layout: over its near edge the first child keeps
\* size 0 while the second moves on, and they no longer meet.
DragBar(l, d) == /\ layout[l].bar # "none"
                 /\ layout[l].line + d >= 0
                 /\ layout[l].line + d <= IF layout[l].bar = "horizontal" THEN layout[l].h ELSE layout[l].w
                 /\ \E moved \in {MoveBar(Scene, l, d)} : WindowsNear(moved) /\ Becomes(moved)
                 /\ UNCHANGED <<minimized, held, recent>>

\* Pointers let go of windows that are closed.
Load(s) == /\ Reloads \/ layout[Root].bar = "none"
           /\ \E loaded \in {LoadSession(s, Scene, Root)} :
                  /\ DOMAIN loaded.layout \subseteq 1..MaxLayouts
                  /\ Becomes(loaded)
                  /\ held' = {i \in held : loaded.window[i].at # Nowhere}
                  /\ minimized' = {i \in minimized : loaded.window[i].at # Nowhere}
                  /\ Forget({i \in Window : loaded.window[i].at = Nowhere})

-------------------------------------------------------------------------------
LayoutNext ==
    \/ \E i \in Window : \/ Press(i) \/ Release(i) \/ CloseWindow(i) \/ Restore(i)
                         \/ \E p \in Positions : AddItemOnTheLayout(i, p) \/ Drag(i, p) \/ Minimize(i, p)
    \/ \E l \in DOMAIN layout : \/ RemoveBar(l)
                                \/ \E bar \in {"horizontal", "vertical"} : CreateBar(l, bar)
                                \/ \E d \in Steps : DragBar(l, d)
    \/ \E s \in Sessions : Load(s)

LayoutSpec == LayoutInit /\ [][LayoutNext]_layoutVars

-------------------------------------------------------------------------------
\* Sizes are never negative; windows are nowhere, minimized or in a layout that
\* exists; what is on the minimize bar is minimized.
LayoutTypes ==
    /\ DOMAIN layout \subseteq 1..MaxLayouts /\ Root \in DOMAIN layout
    /\ \A l \in DOMAIN layout :
          /\ {layout[l].w, layout[l].h, layout[l].line} \subseteq Nat
          /\ {layout[l].x, layout[l].y} \subseteq Int
          /\ layout[l].bar \in {"none", "horizontal", "vertical"}
    /\ \A i \in Window : window[i].at \in {Nowhere, MinimizeBar} \cup DOMAIN layout
    /\ held \cup minimized \subseteq {i \in Window : window[i].at # Nowhere}
    /\ {i \in Window : window[i].at = MinimizeBar} \subseteq minimized
    /\ DOMAIN recent = Window

\* The layouts are a tree: all of them are below the root, each is the first or second
\* child of its parent, and parent leads back.  Only leaves hold windows (the class
\* comment: a layout that contains windows has no bar).
IsTree == /\ Below(Scene, Root) = DOMAIN layout
          /\ \A l \in DOMAIN layout \ {Root} :
                LET p == layout[l].parent
                IN  /\ p \in DOMAIN layout /\ layout[p].bar # "none"
                    /\ l = IF layout[l].position = "first" THEN layout[p].first ELSE layout[p].second
          /\ \A l \in DOMAIN layout : layout[l].bar # "none" =>
                /\ {layout[l].first, layout[l].second} \subseteq DOMAIN layout
                /\ layout[l].first # layout[l].second
                /\ layout[layout[l].first].parent = l /\ layout[layout[l].second].parent = l
          /\ \A i \in Window : OnLayout(i) => layout[window[i].at].bar = "none"

\* The bar is where the first child ends and the second begins.
SiblingsMeet == \A l \in DOMAIN layout : layout[l].bar # "none" =>
    LET n == layout[l]
        f == layout[n.first]
        g == layout[n.second]
    IN  /\ f.x = 0 /\ f.y = 0
        /\ IF n.bar = "horizontal" THEN f.h = n.line /\ g.y = n.line /\ g.x = 0
                                   ELSE f.w = n.line /\ g.x = n.line /\ g.y = 0

\* Splitting and removing partitions does not move a window on the screen, and
\* removing them closes none.
WindowsStay ==
    [][DOMAIN layout' # DOMAIN layout =>
        \A i \in Window : /\ OnLayout(i) /\ OnLayout(i)' => ScenePos(Scene, i)' = ScenePos(Scene, i)
                          /\ OnLayout(i) /\ DOMAIN layout' \subseteq DOMAIN layout => OnLayout(i)']_layoutVars

\* A minimized window goes back to where it was when it was last pressed at its normal
\* size, whatever is done to its icon (the comment above pointerPress()'s call of
\* handlePointerPress()).
IconKeepsPlace == [][\A i \in minimized : i \in minimized' => recent'[i] = recent[i]]_layoutVars

\* Splitting, dragging and removing keep the layouts a tree of leaves with windows.
TreeInv == LayoutTypes /\ IsTree

\* Windows keep their places on the screen through partitions and the minimize bar.
PlacesKept == WindowsStay /\ IconKeepsPlace

\* What is on the wall: the areas of its leaves and the windows in each.
Extent(wall, l) == [at |-> Origin(wall, l), w |-> wall.layout[l].w, h |-> wall.layout[l].h]

Pane(wall, l) == [area |-> Extent(wall, l), windows |-> {<<i, ScenePos(wall, i)>> : i \in Inside(wall, l)}]

Picture(wall) == {Pane(wall, l) : l \in Leaves(wall, Root)}

\* A session that is saved now and loaded onto an empty wall restores the partitions
\* and every window that is not minimized, in its layout and in its place.
SessionRestores ==
    Picture(LoadSession(SaveSession(Scene, Root), EmptyWall, Root)) = Picture(Scene)
===============================================================================
