----------------------------- MODULE SharedPointers -----------------------------
(***************************************************************************)
(* SN_PolygonArrowPointer over windows (SN_BaseWidget), the minimize bar   *)
(* and the remove button of the scene.  A client turns what its mouse does *)
(* into PRESS, DRAGGING, RELEASE, CLICK, DOUBLECLICK, MOVING and WHEEL      *)
(* messages; the server calls one handler for each, always in the GUI      *)
(* thread.  Several pointers may work on one window, whose flags they       *)
(* share: _isMoving and _isResizing belong to the window.                  *)
(*                                                                         *)
(* Places stand for positions in the scene: one with the remove button,    *)
(* some of the wall, one with the bar.  A window lies at the place of its  *)
(* handle, a maximized one covers the wall.  A pointer whose _basewidget   *)
(* was destroyed by another one makes no step here: what the code does     *)
(* then is undefined.                                                      *)
(***************************************************************************)
EXTENDS Integers, Sequences, FiniteSets, SequencesExt

CONSTANTS
    Pointers, Windows,
    Hovering,           \* windows with setRegisterForMouseHover(true)
    WallPlaces,         \* how many places the wall has
    MaxSteps            \* bound: how often users act

ASSUME PointersAssumption ==
    /\ IsFiniteSet(Windows) /\ IsFiniteSet(Pointers)
    /\ Hovering \subseteq Windows
    /\ "nothing" \notin Windows
    /\ WallPlaces \in Nat \ {0} /\ MaxSteps \in Nat

RemoveButton == 0
Wall == 1 .. WallPlaces
Bar == WallPlaces + 1
Places == RemoveButton .. Bar
Nothing == "nothing"

\* Sizes of a window: the one it came with and any its users give it; those of a
\* minimized and of a maximized one; and what resize() makes of a size that was
\* never set, the least one.
UserSizes == {"normal", "other"}
NoSize == "unset"
Sizes == UserSizes \cup {"tiny", "full", NoSize}

VARIABLES
    ptr,                \* the pointers shared, each with what it points at
    win,                \* the windows that exist
    stack,              \* windows by z value, the topmost last
    hoverAcceptingApps, \* SN_TheScene::hoverAcceptingApps
    steps               \* what users did so far

vars == <<ptr, win, stack, hoverAcceptingApps, steps>>

Shared == DOMAIN ptr
Exists == DOMAIN win

\* A pointer: its place; the buttons held and where they were pressed last;
\* _basewidget; _selectionRect and its list.
NewPointer == [at |-> 1, down |-> {}, pressedAt |-> RemoveButton, basewidget |-> Nothing,
               rectShown |-> FALSE, selected |-> {}]

\* A window: visible until it is closed; a Qt::Window is resized, another one scaled;
\* its geometry and the one saved last, lostSize if it was resized to none;
\* corner is _isResizing, stretched says the resize rectangle differs from the
\* window; grip only records what the last left press took hold of.
Constructed ==
    [open |-> TRUE, state |-> "normal", onBar |-> FALSE, at |-> 1, size |-> "normal",
     isWindow |-> TRUE, recent |-> [at |-> 1, size |-> NoSize], lostSize |-> FALSE,
     isMoving |-> FALSE, corner |-> FALSE, stretched |-> FALSE,
     selectedByPointer |-> FALSE, pointerMap |-> {}, grip |-> "none"]

\* A widget that was never pressed has nothing to come back to but the corner, and
\* no size.
NewWindow(place, isWindow) == [Constructed EXCEPT !.at = place, !.isWindow = isWindow]

\* The scene starts with its buttons and nothing else on it.
Init == /\ ptr = <<>>
        /\ win = <<>>
        /\ stack = <<>>
        /\ hoverAcceptingApps = {}
        /\ steps = 0

Act == steps < MaxSteps /\ steps' = steps + 1

-------------------------------------------------------------------------------
(* Windows                                                                   *)

\* The windows in the same order, without w.
Without(w) == LET I == {i \in DOMAIN stack : stack[i] = w}
              IN  IF I = {} THEN stack ELSE RemoveAt(stack, CHOOSE i \in I : TRUE)

\* setTopmost(): above all other windows.
Raise(w) == Append(Without(w), w)

\* A window that is closed is hidden and hit by no pointer any more.
Covers(w, place) == /\ win[w].open
                    /\ win[w].at = place \/ (win[w].size = "full" /\ place \in Wall)

\* setAppUnderPointer(): the topmost window at a place.
AppUnder(place) ==
    LET hit == {i \in DOMAIN stack : Covers(stack[i], place)}
        top == {i \in hit : \A j \in hit : j <= i}
    IN  IF top = {} THEN Nothing ELSE stack[CHOOSE i \in top : TRUE]

\* A new window is none of those a pointer still points at.
Launch(w) ==
    /\ Act
    /\ w \notin Exists /\ w \notin UNION {ptr[p].selected \cup {ptr[p].basewidget} : p \in Shared}
    /\ \E place \in Wall, isWindow \in BOOLEAN :
         win' = [v \in Exists \cup {w} |-> IF v = w THEN NewWindow(place, isWindow) ELSE win[v]]
    /\ hoverAcceptingApps' = hoverAcceptingApps \cup ({w} \cap Hovering)
    /\ stack' = Raise(w)
    /\ UNCHANGED ptr

\* minimize() of the context menu: to a corner of the wall, not on the bar.
Minimized(r) == IF r.state = "minimized" THEN r
                ELSE [r EXCEPT !.state = "minimized", !.at = 1, !.size = "tiny"]

\* restore() resizes a Qt::Window to what was saved, if anything was; another one
\* keeps its size() and takes the scale that was saved, which is 1 at first.
SizeToRestore(r) == IF ~r.isWindow /\ r.recent.size = NoSize /\ ~r.lostSize
                    THEN "normal" ELSE r.recent.size

Restored(r) == IF r.state = "normal" THEN r
               ELSE [r EXCEPT !.state = "normal", !.at = IF r.onBar THEN Bar ELSE r.recent.at,
                              !.size = SizeToRestore(r)]

\* A child of the bar is maximized within the bar.
Maximized(r) == IF r.state = "maximized" THEN Restored(r)
                ELSE [r EXCEPT !.state = "maximized",
                               !.at = IF r.onBar THEN Bar ELSE 1,
                               !.size = IF r.onBar THEN "tiny" ELSE "full"]

\* The menu of the wall's own mouse; that an entry may be disabled is left out.
ContextMenu(w) ==
    /\ Act
    /\ w \in Exists /\ win[w].open
    /\ \/ win' = [win EXCEPT ![w] = Minimized(@)]
       \/ win' = [win EXCEPT ![w] = Maximized(@)]
       \/ win' = [win EXCEPT ![w] = Restored(@)]
    /\ UNCHANGED <<ptr, stack, hoverAcceptingApps>>

\* close() by the menu, by a message of a client or with the scene.
Close(w) ==
    /\ Act
    /\ w \in Exists /\ win[w].open
    /\ win' = [win EXCEPT ![w].open = FALSE]
    /\ UNCHANGED <<ptr, stack, hoverAcceptingApps>>

\* Mutant: nobody listens to destroyed().
DestroyUnnoticed(w) ==
    /\ w \in Exists /\ ~win[w].open
    /\ win' = [v \in Exists \ {w} |-> win[v]]
    /\ stack' = Without(w)
    /\ UNCHANGED <<ptr, hoverAcceptingApps, steps>>

\* The deferred deletion; destroyed() calls prepareWidgetRemoval().
Destroy(w) ==
    /\ w \in Exists /\ ~win[w].open
    /\ win' = [v \in Exists \ {w} |-> win[v]]
    /\ stack' = Without(w)
    /\ hoverAcceptingApps' = hoverAcceptingApps \ {w}
    /\ UNCHANGED <<ptr, steps>>

-------------------------------------------------------------------------------
(* Pointers come and go                                                      *)

SharePointer(p) ==
    /\ Act
    /\ p \notin Shared
    /\ ptr' = [q \in Shared \cup {p} |-> IF q = p THEN NewPointer ELSE ptr[q]]
    /\ UNCHANGED <<win, stack, hoverAcceptingApps>>

\* The destructor; buttons may be held, windows may be half moved.
UnsharePointer(p) ==
    /\ Act
    /\ p \in Shared
    /\ ptr' = [q \in Shared \ {p} |-> ptr[q]]
    /\ win' = [w \in Exists |-> IF w \in hoverAcceptingApps
                                THEN [win[w] EXCEPT !.pointerMap = @ \ {p}] ELSE win[w]]
    /\ UNCHANGED <<stack, hoverAcceptingApps>>

-------------------------------------------------------------------------------
(* Moving and dragging                                                       *)

\* The button a client reports with a move; the left one takes precedence.
DragsWith(p) == IF "left" \in ptr[p].down THEN "left"
                ELSE IF "right" \in ptr[p].down THEN "right" ELSE Nothing

\* No button: every window that asked for it hears of the pointer, under it or not.
Move(p, place) ==
    /\ Act
    /\ p \in Shared /\ DragsWith(p) = Nothing
    /\ ptr' = [ptr EXCEPT ![p].at = place]
    /\ win' = [w \in Exists |-> IF w \in hoverAcceptingApps
                                THEN [win[w] EXCEPT !.pointerMap = @ \cup {p}] ELSE win[w]]
    /\ UNCHANGED <<stack, hoverAcceptingApps>>

\* handlePointerDrag(): the window moves as far as the pointer does, or the resize
\* rectangle follows it, or nothing happens; a place beyond the scene is not followed.
Dragged(r, delta) ==
    IF r.isMoving    THEN [r EXCEPT !.at = @ + delta]
    ELSE IF r.corner THEN [r EXCEPT !.stretched = TRUE]
    ELSE r

LeftDrag(p, place) ==
    /\ Act
    /\ p \in Shared /\ DragsWith(p) = "left"
    /\ ptr[p].basewidget \in Exists \cup {Nothing}
    /\ ptr' = [ptr EXCEPT ![p].at = place]
    /\ IF ptr[p].basewidget = Nothing THEN UNCHANGED win
       ELSE LET w == ptr[p].basewidget
                r == Dragged(win[w], place - ptr[p].at)
            IN  /\ r.at \in Places
                /\ win' = [win EXCEPT ![w] = r]
    /\ UNCHANGED <<stack, hoverAcceptingApps>>

\* Only the selection rectangle follows.
RightDrag(p, place) ==
    /\ Act
    /\ p \in Shared /\ DragsWith(p) = "right"
    /\ ptr' = [ptr EXCEPT ![p].at = place]
    /\ UNCHANGED <<win, stack, hoverAcceptingApps>>

-------------------------------------------------------------------------------
(* Pressing                                                                  *)

\* What a client reports a press of a button as: the capture helpers of Mac and
\* Windows tell the buttons apart, Qt's event handler does not.
ReportedAs(button) == IF button = "left" THEN {"left"} ELSE {"left", "right"}

\* Mutant: what an earlier press left in _isResizing stays.
GrippedStale(r, cornerHit) ==
    LET held == [r EXCEPT !.corner = @ \/ cornerHit, !.isMoving = ~cornerHit,
                          !.stretched = @ /\ ~cornerHit,
                          !.grip = IF cornerHit THEN "corner" ELSE "inside"]
    IN  IF r.state = "normal"
        THEN [held EXCEPT !.recent = [at |-> r.at, size |-> r.size]] ELSE held

\* Mutant: the geometry is saved in every state.
GrippedAnyState(r, cornerHit) ==
    [r EXCEPT !.corner = cornerHit, !.isMoving = ~cornerHit,
              !.stretched = @ /\ ~cornerHit,
              !.grip = IF cornerHit THEN "corner" ELSE "inside",
              !.recent = [at |-> r.at, size |-> r.size]]

\* handlePointerPress() with the left button: a corner starts a resize, the inside
\* a move; the geometry of a window in its normal state is saved.
Gripped(r, cornerHit) ==
    LET held == [r EXCEPT !.corner = cornerHit, !.isMoving = ~cornerHit,
                          !.stretched = IF cornerHit THEN FALSE ELSE @,
                          !.grip = IF cornerHit THEN "corner" ELSE "inside"]
    IN  IF r.state = "normal"
        THEN [held EXCEPT !.recent = [at |-> r.at, size |-> r.size]] ELSE held

\* btn is what the client reports, button the one that will drag.
PointerPress(p, button, btn) ==
    /\ Act
    /\ p \in Shared /\ button \notin ptr[p].down
    /\ btn \in ReportedAs(button)
    /\ LET w == AppUnder(ptr[p].at)
       IN  /\ ptr' = [ptr EXCEPT ![p].down = @ \cup {button},
                                 ![p].pressedAt = ptr[p].at,
                                 ![p].basewidget = w,
                                 ![p].rectShown = @ \/ btn = "right"]
           /\ IF w = Nothing \/ ptr[p].at = Bar THEN UNCHANGED <<win, stack>>
              ELSE /\ stack' = Raise(w)
                   /\ \E cornerHit \in BOOLEAN :
                        win' = IF btn = "left" THEN [win EXCEPT ![w] = Gripped(@, cornerHit)] ELSE win
    /\ UNCHANGED hoverAcceptingApps

-------------------------------------------------------------------------------
(* Releasing                                                                 *)

\* handlePointerRelease() does not ask which button it was: a resize ends and
\* the window takes the rectangle's size; its corner may have moved as well.
LetGo(r, place) ==
    LET done == [r EXCEPT !.isMoving = FALSE, !.corner = FALSE, !.stretched = FALSE]
    IN  IF r.corner /\ r.stretched THEN [done EXCEPT !.size = "other", !.at = place] ELSE done

\* minimizeAndPlaceWidget(): neither a move nor a resize ends here.
OntoBar(r) == [r EXCEPT !.onBar = TRUE, !.state = "minimized", !.size = "tiny", !.at = Bar]

\* Releasing on the remove button or on the bar returns early: _basewidget stays.
ReleaseEarly(p, button) ==
    /\ Act
    /\ p \in Shared /\ button \in ptr[p].down /\ button = "left"
    /\ ptr[p].basewidget \in Exists
    /\ ptr[p].at \in {RemoveButton, Bar}
    /\ ptr' = [ptr EXCEPT ![p].down = @ \ {button}]
    /\ LET w == ptr[p].basewidget
       IN  IF ptr[p].at = Bar
           THEN win' = [win EXCEPT ![w] = OntoBar(@)] /\ UNCHANGED hoverAcceptingApps
           ELSE /\ win' = [win EXCEPT ![w].open = FALSE]
                /\ hoverAcceptingApps' = hoverAcceptingApps \ {w}
    /\ UNCHANGED stack

\* getCollidingUserWidgets(): the visible windows the selection rectangle meets, any
\* of them; those selected earlier stay in the list.
Selecting(p) == {ptr[p].selected \cup S : S \in SUBSET {w \in Exists : win[w].open}}

\* Every other release: addItemOnTheLayout() for the left button, the window's own
\* handler, the selection for the right button.
PointerRelease(p, button) ==
    /\ Act
    /\ p \in Shared /\ button \in ptr[p].down
    /\ LET w == ptr[p].basewidget
           onLayout(r) == IF button = "left" THEN [r EXCEPT !.onBar = FALSE] ELSE r
       IN  /\ w \in Exists \cup {Nothing}
           /\ w = Nothing \/ button = "right" \/ ptr[p].at \in Wall
           /\ \E list \in IF button = "right" THEN Selecting(p) ELSE {ptr[p].selected},
                 place \in IF w = Nothing THEN {1} ELSE {win[w].at, ptr[p].at} :
                /\ button = "right" => list \subseteq Exists
                /\ ptr' = [ptr EXCEPT ![p].down = @ \ {button},
                                      ![p].basewidget = Nothing,
                                      ![p].selected = list,
                                      ![p].rectShown = @ /\ button = "left"]
                /\ win' = [v \in Exists |->
                             LET r == IF v = w THEN LetGo(onLayout(win[v]), place) ELSE win[v]
                             IN  IF button = "right" /\ v \in list
                                 THEN [r EXCEPT !.selectedByPointer = TRUE] ELSE r]
    /\ UNCHANGED <<stack, hoverAcceptingApps>>

-------------------------------------------------------------------------------
(* Clicking                                                                  *)

\* restoreWidget(): only a child of the bar is restored, and resized to what was
\* saved whether it is a Qt::Window or not.
OffBar(r) == IF ~r.onBar THEN r
             ELSE [r EXCEPT !.onBar = FALSE, !.state = "normal", !.at = r.recent.at,
                            !.size = r.recent.size, !.lostSize = r.recent.size = NoSize]

\* A press and a release within three pixels: the client sends CLICK, not RELEASE.
IsClick(p) == ptr[p].at = ptr[p].pressedAt

\* A click ends neither a move nor a resize.
LeftClick(p) ==
    /\ Act
    /\ p \in Shared /\ "left" \in ptr[p].down /\ IsClick(p)
    /\ LET w == ptr[p].basewidget
       IN  /\ w \in Exists \cup {Nothing}
           /\ win' = [v \in Exists |-> IF v = w /\ win[v].state = "minimized"
                                       THEN OffBar(win[v]) ELSE win[v]]
    /\ ptr' = [ptr EXCEPT ![p].down = @ \ {"left"}]
    /\ UNCHANGED <<stack, hoverAcceptingApps>>

\* The window's mark is toggled, in this pointer's list only.
RightClick(p) ==
    /\ Act
    /\ p \in Shared /\ "right" \in ptr[p].down /\ IsClick(p)
    /\ LET w == ptr[p].basewidget
       IN  /\ w \in Exists \cup {Nothing}
           /\ IF w = Nothing
              THEN ptr' = [ptr EXCEPT ![p].down = @ \ {"right"}] /\ UNCHANGED win
              ELSE /\ win' = [win EXCEPT ![w].selectedByPointer = ~@]
                   /\ ptr' = [ptr EXCEPT ![p].down = @ \ {"right"},
                                         ![p].selected = IF win[w].selectedByPointer
                                                         THEN @ \ {w} ELSE @ \cup {w}]
    /\ UNCHANGED <<stack, hoverAcceptingApps>>

\* The second press of a double click sends DOUBLECLICK and no PRESS.  Over nothing
\* a media browser is launched; else the scene gives the event to what is topmost.
DoubleClick(p) ==
    /\ Act
    /\ p \in Shared /\ ptr[p].down = {} /\ IsClick(p)
    /\ ptr' = [ptr EXCEPT ![p].down = {"left"}]
    /\ LET w == AppUnder(ptr[p].at)
       IN  win' = IF w = Nothing \/ ptr[p].basewidget = Nothing THEN win
                  ELSE [win EXCEPT ![w] = Maximized(@)]
    /\ UNCHANGED <<stack, hoverAcceptingApps>>

\* The client swallows the release after a double click.
SwallowRelease(p) ==
    /\ Act
    /\ p \in Shared /\ ptr[p].down = {"left"} /\ IsClick(p)
    /\ ptr' = [ptr EXCEPT ![p].down = {}]
    /\ UNCHANGED <<win, stack, hoverAcceptingApps>>

\* wheelEvent() leaves a Qt::Window alone; reScale(): a window that is very small
\* already is not made smaller.
ReScaled(r) == IF r.isWindow THEN {r} ELSE {r, [r EXCEPT !.size = "other"]}

\* The topmost window under the pointer is rescaled, whatever its state.
Wheel(p) ==
    /\ Act
    /\ p \in Shared
    /\ LET w == AppUnder(ptr[p].at)
       IN  /\ w # Nothing
           /\ \E r \in ReScaled(win[w]) : win' = [win EXCEPT ![w] = r]
    /\ UNCHANGED <<ptr, stack, hoverAcceptingApps>>

-------------------------------------------------------------------------------
\* One handler for each message of a client.
PointerOperation(p) ==
    \/ \E place \in Places : Move(p, place) \/ LeftDrag(p, place) \/ RightDrag(p, place)
    \/ \E button, btn \in {"left", "right"} : PointerPress(p, button, btn)
    \/ \E button \in {"left", "right"} : ReleaseEarly(p, button) \/ PointerRelease(p, button)
    \/ LeftClick(p) \/ RightClick(p)
    \/ DoubleClick(p)
    \/ Wheel(p)

Next == \/ \E w \in Windows : Launch(w) \/ ContextMenu(w) \/ Close(w) \/ Destroy(w)
        \/ \E p \in Pointers : \/ SharePointer(p) \/ UnsharePointer(p)
                               \/ PointerOperation(p)
                               \/ SwallowRelease(p)

Spec == Init /\ [][Next]_vars

-------------------------------------------------------------------------------
(* Properties                                                                *)

PointerType == [at : Places, down : SUBSET {"left", "right"}, pressedAt : Places,
                basewidget : Windows \cup {Nothing}, rectShown : BOOLEAN,
                selected : SUBSET Windows]

WindowType == [open : BOOLEAN, state : {"normal", "minimized", "maximized"}, onBar : BOOLEAN,
               at : Places, size : Sizes, isWindow : BOOLEAN,
               recent : [at : Places, size : UserSizes \cup {NoSize}], lostSize : BOOLEAN,
               isMoving : BOOLEAN, corner : BOOLEAN, stretched : BOOLEAN,
               selectedByPointer : BOOLEAN, pointerMap : SUBSET Pointers,
               grip : {"none", "corner", "inside"}]

\* The windows of the scene are those that exist, each at one height; what is saved
\* of a size is one a user gave, if anything is, whatever the window went through.
TypeOK == /\ Shared \subseteq Pointers /\ Exists \subseteq Windows
          /\ ptr \in [Shared -> PointerType] /\ win \in [Exists -> WindowType]
          /\ stack \in Seq(Exists) /\ Range(stack) = Exists /\ IsInjective(stack)

\* Every pointer's move calls every window in hoverAcceptingApps, and a pointer
\* that leaves tells only those: none of them is destroyed, and none of them knows
\* of a pointer that left.
HoverListTrue ==
    \A w \in hoverAcceptingApps : w \in Exists /\ win[w].pointerMap \subseteq Shared

\* A window in its normal state has a size its users gave it, not the one of a window
\* on the bar or of a maximized one: no way through the states saves or keeps it.
\* What restore() and restoreWidget() do to a window nobody has pressed while it was
\* normal is the one exception: it comes back with the size that nobody gave it.
NormalHasOwnSize ==
    \A w \in Exists : win[w].state = "normal" =>
        \/ win[w].size \in UserSizes
        \/ win[w].size = NoSize /\ win[w].recent.size = NoSize

\* Dropping a window resizes it only when the last press on it took a corner, though
\* clicks and drops on the bar leave _isResizing and the resize rectangle behind.
MoveKeepsSize ==
    [][\A p \in Shared : \A w \in Exists \cap {ptr[p].basewidget} :
         /\ p \in DOMAIN ptr' /\ ptr'[p].basewidget = Nothing
         /\ w \in DOMAIN win' /\ win'[w].size # win[w].size
         => win[w].grip = "corner"]_vars

\* What scene and windows remember of pointers and of one another is still there.
HoverInv == TypeOK /\ HoverListTrue
==============================================================================
