---------------------------- MODULE WindowProofs ----------------------------
(***************************************************************************)
(* Proofs about the window manager (module WindowManager), for every size  *)
(* of the screen, of the cursor and of the windows, and any number of      *)
(* programs, requests and movements: what the cursor may hide, what a drag *)
(* keeps hold of, and that programs' drawings are in their windows when    *)
(* everybody is at rest.                                                   *)
(***************************************************************************)
EXTENDS WindowManager, SequenceTheorems, FiniteSetTheorems, WellFoundedInduction, TLAPS

-----------------------------------------------------------------------------

(***************************************************************************)
(* The cursor and what is saved from under it                              *)
(***************************************************************************)

\* What is saved is what the cursor lies on, no more and no less.
CursorHides ==
    /\ DOMAIN mouseBG = CursorCells(mouse)
    /\ OnlyCursorHides

LEMMA PaintedCells ==
    ASSUME NEW picture, NEW cells, NEW colour, NEW k \in Visible
    PROVE  /\ k \in cells => Painted(picture, cells, colour)[k] = colour
           /\ k \notin cells => Painted(picture, cells, colour)[k] = picture[k]
BY DEF Painted

LEMMA DrawnCells ==
    ASSUME NEW p, NEW q, NEW win, NEW k \in Visible,
           k \in WindowCells(win) \/ p[k] = q[k]
    PROVE  DrawWindow(p, win)[k] = DrawWindow(q, win)[k]
<1> DEFINE titled(r) == Painted(r, TitleCells(win), Title)
<1>1. CASE k \in BodyCells(win)
  BY <1>1, PaintedCells DEF DrawWindow
<1>2. CASE k \notin BodyCells(win) /\ k \in TitleCells(win)
  <2>1. titled(p)[k] = Title /\ titled(q)[k] = Title
    BY <1>2, PaintedCells
  <2>2. DrawWindow(p, win)[k] = titled(p)[k] /\ DrawWindow(q, win)[k] = titled(q)[k]
    BY <1>2, PaintedCells DEF DrawWindow
  <2> QED BY <2>1, <2>2
<1>3. CASE k \notin BodyCells(win) /\ k \notin TitleCells(win)
  <2>1. titled(p)[k] = p[k] /\ titled(q)[k] = q[k]
    BY <1>3, PaintedCells
  <2>2. DrawWindow(p, win)[k] = titled(p)[k] /\ DrawWindow(q, win)[k] = titled(q)[k]
    BY <1>3, PaintedCells DEF DrawWindow
  <2>3. p[k] = q[k]
    BY <1>3 DEF WindowCells
  <2> QED BY <2>1, <2>2, <2>3
<1> QED BY <1>1, <1>2, <1>3

\* The cursor taken away, the screen is the scene.
LEMMA RestoredScene ==
    ASSUME CursorHides, ~wild, ~off, NEW k \in Visible \ covered
    PROVE  Restored(screen)[k] = scene[k]
<1>1. CASE k \in CursorCells(mouse)
  BY <1>1 DEF CursorHides, OnlyCursorHides, Restored
<1>2. CASE k \notin CursorCells(mouse)
  BY <1>2 DEF CursorHides, OnlyCursorHides, Restored
<1> QED BY <1>1, <1>2

LEMMA MoveHides ==
    ASSUME CursorHides, ~off, NEW move, NEW left, HandleMove(move, left)
    PROVE  CursorHides'
<1>1. CASE left /\ OverPower(mouse)
  BY <1>1 DEF HandleMove, CursorHides, OnlyCursorHides
<1>2. CASE ~(left /\ OverPower(mouse))
  <2> DEFINE i == IF left THEN Grip(move) ELSE 0
             win == Dragged(windows[i], move)
             drawn == IF i = 0 THEN Restored(screen) ELSE DrawWindow(Restored(screen), win)
             pos == Moved(mouse, move)
  <2>1. /\ mouse' = pos /\ mouseBG' = SavedFrom(drawn, pos)
        /\ screen' = Painted(drawn, CursorCells(pos), Cursor)
        /\ scene' = IF i = 0 THEN scene ELSE DrawWindow(scene, win)
        /\ covered' = IF i = 0 THEN covered ELSE covered \ WindowCells(win)
        /\ UNCHANGED <<off, wild>>
    BY <1>2 DEF HandleMove
  <2> HIDE DEF pos, i, win
  <2>2. DOMAIN mouseBG' = CursorCells(mouse')
    BY <2>1 DEF SavedFrom
  <2>3. ASSUME ~wild, NEW k \in Visible, k \notin covered'
        PROVE  drawn[k] = scene'[k]
    <3>1. CASE i = 0
      <4>1. Restored(screen)[k] = scene[k]
        BY <2>1, <2>3, <3>1, RestoredScene
      <4> QED BY <4>1, <3>1, <2>1
    <3>2. CASE i # 0
      <4>1. k \in WindowCells(win) \/ k \notin covered
        BY <2>1, <2>3, <3>2
      <4>2. k \in WindowCells(win) \/ Restored(screen)[k] = scene[k]
        BY <4>1, <2>3, RestoredScene
      <4>3. DrawWindow(Restored(screen), win)[k] = DrawWindow(scene, win)[k]
        BY <4>2, DrawnCells
      <4> QED BY <4>3, <3>2, <2>1
    <3> QED BY <3>1, <3>2
  <2> HIDE DEF drawn
  <2>4. CursorCells(pos) \subseteq Visible
    BY DEF CursorCells
  <2>5. ASSUME ~wild, NEW k \in Visible, k \notin CursorCells(pos), k \notin covered'
        PROVE  screen'[k] = scene'[k]
    BY <2>1, <2>3, <2>5, PaintedCells
  <2>6. ASSUME ~wild, NEW k \in CursorCells(pos), k \notin covered'
        PROVE  mouseBG'[k] = scene'[k]
    BY <2>1, <2>3, <2>4, <2>6 DEF SavedFrom
  <2> QED BY <2>1, <2>2, <2>5, <2>6 DEF CursorHides, OnlyCursorHides
<1> QED BY <1>1, <1>2

\* What is drawn on the screen and in the scene alike hides nothing, if the cells
\* drawn under the cursor are set aside.
LEMMA DrawingHides ==
    ASSUME CursorHides, NEW cells,
           UNCHANGED <<mouse, mouseBG, off, wild>>,
           \A k \in Visible : k \in cells \/ screen[k] = scene[k] => screen'[k] = scene'[k],
           \A k \in Visible \ cells : scene'[k] = scene[k],
           covered' = DrawnUnder(cells)
    PROVE  CursorHides'
<1>1. CursorCells(mouse) \subseteq Visible
  BY DEF CursorCells
<1>2. ASSUME ~wild, ~off, NEW k \in Visible \ (CursorCells(mouse) \cup covered')
      PROVE  screen'[k] = scene'[k]
  BY <1>2 DEF DrawnUnder, CursorHides, OnlyCursorHides
<1>3. ASSUME ~wild, ~off, NEW k \in CursorCells(mouse) \ covered'
      PROVE  mouseBG[k] = scene'[k]
  <2>1. k \notin cells /\ k \notin covered /\ k \in Visible
    BY <1>1, <1>3 DEF DrawnUnder
  <2> QED BY <2>1, <1>3 DEF CursorHides, OnlyCursorHides
<1> QED BY <1>2, <1>3 DEF CursorHides, OnlyCursorHides

LEMMA DrawHides ==
    ASSUME CursorHides, NEW pid, NEW req, HandleDraw(pid, req)
    PROVE  CursorHides'
<1> DEFINE win == windows[WindowOf(pid)]
<1>1. CASE WindowOf(pid) = 0 \/ ~Inside(win, req)
  BY <1>1 DEF HandleDraw, CursorHides, OnlyCursorHides, wmVars
<1>2. CASE ~(WindowOf(pid) = 0 \/ ~Inside(win, req))
  <2> DEFINE cells == MarkCells(win, req)
  <2>1. /\ screen' = Painted(screen, cells, pid)
        /\ scene' = Painted(scene, cells, pid)
        /\ covered' = DrawnUnder(cells)
        /\ UNCHANGED <<mouse, mouseBG, off, wild>>
    BY <1>2 DEF HandleDraw
  <2> HIDE DEF cells
  <2>2. \A k \in Visible : k \in cells \/ screen[k] = scene[k] => screen'[k] = scene'[k]
    BY <2>1, PaintedCells
  <2>3. \A k \in Visible \ cells : scene'[k] = scene[k]
    BY <2>1, PaintedCells
  <2> QED BY <2>1, <2>2, <2>3, DrawingHides
<1> QED BY <1>1, <1>2

LEMMA CreateHides ==
    ASSUME CursorHides, NEW pid, NEW ask, HandleCreate(pid, ask)
    PROVE  CursorHides'
<1> DEFINE win == Created(pid, ask)
<1>1. CASE Len(windows) >= MaxWindows
  BY <1>1 DEF HandleCreate, CursorHides, OnlyCursorHides
<1>2. CASE ~(Len(windows) >= MaxWindows)
  <2> DEFINE cells == WindowCells(win)
  <2>1. /\ screen' = DrawWindow(screen, win)
        /\ scene' = DrawWindow(scene, win)
        /\ covered' = DrawnUnder(cells)
        /\ UNCHANGED <<mouse, mouseBG, off, wild>>
    BY <1>2 DEF HandleCreate
  <2> HIDE DEF win
  <2>2. \A k \in Visible : k \in cells \/ screen[k] = scene[k] => screen'[k] = scene'[k]
    BY <2>1, DrawnCells
  <2>3. \A k \in Visible \ cells : scene'[k] = scene[k]
    BY <2>1, PaintedCells DEF DrawWindow, WindowCells
  <2> QED BY <2>1, <2>2, <2>3, DrawingHides
<1> QED BY <1>1, <1>2

LEMMA HidesStep ==
    ASSUME CursorHides, [Next]_allVars
    PROVE  CursorHides'
<1>1. CASE PopMsg
  BY <1>1, MoveHides, DrawHides, CreateHides DEF PopMsg
<1>2. CASE UNCHANGED wmVars
  BY <1>2 DEF wmVars, CursorHides, OnlyCursorHides
<1> QED BY <1>1, <1>2
        DEF Next, CreateWindow, ReadMov, Draw, MouseMoves, wmVars, allVars

\* The cursor never leaves anything behind and never takes anything along: each
\* movement gives back what it had saved before it saves what lies under its new
\* place, after the window it drags has been drawn.
THEOREM CursorGivesBack == Spec => []OnlyCursorHides
<1>1. Init => CursorHides
  <2> SUFFICES ASSUME Init PROVE CursorHides
    OBVIOUS
  <2>1. /\ mouse = Start /\ scene = FirstScene
        /\ mouseBG = [k \in CursorCells(Start) |-> FirstScene[k]]
        /\ screen = Painted(FirstScene, CursorCells(Start), Cursor)
    BY DEF Init
  <2> QED BY <2>1, PaintedCells DEF CursorHides, OnlyCursorHides
<1>2. CursorHides => OnlyCursorHides
  BY DEF CursorHides
<1> QED BY <1>1, <1>2, HidesStep, PTL DEF Spec

-----------------------------------------------------------------------------

(***************************************************************************)
(* Types, and searches in the windows table                                *)
(***************************************************************************)

Window == [x : Coordinate, y : Coordinate, w : Coordinate, h : Coordinate,
           pid : Clients \cup {0}]

Movement == [kind : {"MOUMOV"}, move : Moves, left : BOOLEAN]
Drawing == [kind : {"DREQ"}, from : Clients, req : Marks]
Creation == {[kind |-> "CWIN", from |-> c, ask |-> Ask[c]] : c \in Clients}
Message == Movement \cup Drawing \cup Creation

WinTypes ==
    /\ windows \in Seq(Window)
    /\ mouse \in (0 .. Width - 1) \X (0 .. Height - 1)
    /\ inbox \in Seq(Message)
    /\ mail \in [Clients -> Nat]
    /\ doing \in [Clients -> {"create", "draw", "wait"}]

\* A set of naturals has a least element.
LEMMA MinIsLeast ==
    ASSUME NEW S \in SUBSET Nat, S # {}
    PROVE  /\ Min(S) \in S
           /\ \A y \in S : Min(S) <= y
<1> DEFINE T == {0 .. k : k \in S}
           R == StrictSubsetOrdering(Nat)
<1>1. IsWellFoundedOn(R, FiniteSubsetsOf(Nat))
  BY FS_StrictSubsetOrderingWellFounded
<1>2. T \subseteq FiniteSubsetsOf(Nat) /\ T # {}
  <2>1. \A k \in S : IsFiniteSet(0 .. k) /\ 0 .. k \in SUBSET Nat
    BY FS_Interval
  <2> QED BY <2>1 DEF FiniteSubsetsOf
<1>3. PICK X \in T : \A Y \in T : ~(<<Y, X>> \in R)
  <2> HIDE DEF R, T
  <2> QED BY <1>1, <1>2, WFMin
<1>4. PICK x \in S : X = 0 .. x
  BY <1>3
<1>5. \A y \in S : x <= y
  <2>1. SUFFICES ASSUME NEW y \in S, y < x PROVE FALSE
    OBVIOUS
  <2>2. 0 .. y \subseteq X /\ 0 .. y # X
    <3>1. x \in X /\ x \notin 0 .. y
      BY <1>4, <2>1
    <3>2. 0 .. y \subseteq X
      BY <1>4, <2>1
    <3> QED BY <3>1, <3>2
  <2>3. <<0 .. y, X>> \in R
    BY <2>2, <1>4 DEF StrictSubsetOrdering
  <2> QED BY <2>3, <1>3
<1> QED BY <1>5 DEF Min

\* The loops over the windows stop at the first match.
LEMMA FirstFound ==
    ASSUME NEW S \in SUBSET (Nat \ {0})
    PROVE  /\ S = {} => FirstOf(S) = 0
           /\ S # {} => /\ FirstOf(S) \in S /\ FirstOf(S) # 0
                        /\ \A y \in S : FirstOf(S) <= y
<1>1. ASSUME S # {}
      PROVE  Min(S) \in S /\ \A y \in S : Min(S) <= y
  <2>1. S \in SUBSET Nat
    OBVIOUS
  <2> QED BY <1>1, <2>1, MinIsLeast
<1> QED BY <1>1 DEF FirstOf

\* Coordinates wrap, and those that fit stay as they are.
LEMMA CoordWraps ==
    ASSUME NEW n \in Int
    PROVE  /\ Coord(n) \in Coordinate
           /\ n \in Coordinate => Coord(n) = n
<1>1. Word \in Nat /\ Word > 0
  BY WindowAssumption
<1>2. n % Word \in 0 .. Word - 1
  BY <1>1
<1>3. ASSUME n \in 0 .. Word - 1
      PROVE  n % Word = n
  BY <1>1, <1>3
<1> QED BY <1>2, <1>3 DEF Coord, Coordinate

\* The mouse stays on the screen.
LEMMA MouseStays ==
    ASSUME NEW pos \in (0 .. Width - 1) \X (0 .. Height - 1), NEW move \in Moves
    PROVE  Moved(pos, move) \in (0 .. Width - 1) \X (0 .. Height - 1)
<1>1. ASSUME NEW n \in Int, NEW size \in Nat \ {0}
      PROVE  Clamped(n, size) \in 0 .. size - 1
  BY <1>1 DEF Clamped
<1>2. /\ pos[1] \in Int /\ pos[2] \in Int /\ move[1] \in Int /\ move[2] \in Int
      /\ Width \in Nat \ {0} /\ Height \in Nat \ {0}
  BY WindowAssumption
<1>3. pos[1] + move[1] \in Int /\ pos[2] - move[2] \in Int
  BY <1>2
<1>4. Clamped(pos[1] + move[1], Width) \in 0 .. Width - 1
  BY <1>1, <1>2, <1>3
<1>5. Clamped(pos[2] - move[2], Height) \in 0 .. Height - 1
  BY <1>1, <1>2, <1>3
<1> QED BY <1>4, <1>5 DEF Moved

LEMMA DraggedIs ==
    ASSUME NEW win \in Window, NEW move \in Moves
    PROVE  /\ Dragged(win, move) \in Window
           /\ Dragged(win, move).x = Coord(win.x + move[1])
           /\ Dragged(win, move).y = Coord(win.y - move[2])
           /\ Dragged(win, move).w = win.w /\ Dragged(win, move).h = win.h
           /\ Dragged(win, move).pid = win.pid
<1> DEFINE nx == Coord(win.x + move[1])
           ny == Coord(win.y - move[2])
<1>1. /\ win.x \in Int /\ win.y \in Int /\ move[1] \in Int /\ move[2] \in Int
  BY WindowAssumption DEF Window, Coordinate
<1>2. win.x + move[1] \in Int /\ win.y - move[2] \in Int
  BY <1>1
<1>3. nx \in Coordinate /\ ny \in Coordinate
  BY <1>2, CoordWraps
<1>4. Dragged(win, move) = [win EXCEPT !.x = nx, !.y = ny]
  BY DEF Dragged, Window
<1> HIDE DEF nx, ny
<1>5. Dragged(win, move) \in Window
  BY <1>3, <1>4 DEF Window
<1>6. /\ Dragged(win, move).x = nx /\ Dragged(win, move).y = ny
      /\ Dragged(win, move).w = win.w /\ Dragged(win, move).h = win.h
      /\ Dragged(win, move).pid = win.pid
  BY <1>4 DEF Window
<1> QED BY <1>5, <1>6 DEF nx, ny

\* The title bar reaches the point.
Grips(win, pos) ==
    /\ win.x <= pos[1] /\ pos[1] <= win.x + win.w
    /\ win.y - TitleHeight <= pos[2] /\ pos[2] <= win.y

LEMMA HoverFinds ==
    ASSUME NEW wins \in Seq(Window), NEW pos
    PROVE  /\ Hover(wins, pos) = 0 \/ Hover(wins, pos) \in DOMAIN wins
           /\ \A i \in DOMAIN wins : Grips(wins[i], pos) => Hover(wins, pos) \in 1 .. i
           /\ DOMAIN wins = 1 .. Len(wins) /\ Len(wins) \in Nat
<1> DEFINE S == {i \in DOMAIN wins : Grips(wins[i], pos)}
<1>1. DOMAIN wins = 1 .. Len(wins) /\ Len(wins) \in Nat
  BY LenProperties
<1>2. S \in SUBSET (Nat \ {0})
  BY <1>1
<1>3. Hover(wins, pos) = FirstOf(S)
  BY DEF Hover, Grips
<1> HIDE DEF S
<1>4. /\ S = {} => Hover(wins, pos) = 0
      /\ S # {} => /\ Hover(wins, pos) \in S /\ \A y \in S : Hover(wins, pos) <= y
  BY <1>2, <1>3, FirstFound
<1>5. Hover(wins, pos) = 0 \/ Hover(wins, pos) \in DOMAIN wins
  BY <1>4 DEF S
<1>6. ASSUME NEW i \in DOMAIN wins, Grips(wins[i], pos)
      PROVE  Hover(wins, pos) \in 1 .. i
  <2>1. i \in S
    BY <1>6 DEF S
  <2>2. Hover(wins, pos) \in S /\ Hover(wins, pos) <= i
    BY <2>1, <1>4
  <2>3. Hover(wins, pos) \in Nat \ {0}
    BY <2>2, <1>2
  <2>4. i \in Nat
    BY <1>1
  <2> QED BY <2>2, <2>3, <2>4
<1> QED BY <1>1, <1>5, <1>6

LEMMA WindowOfFinds ==
    ASSUME WinTypes, NEW pid
    PROVE  /\ WindowOf(pid) = 0 => \A i \in DOMAIN windows : windows[i].pid # pid
           /\ WindowOf(pid) # 0 => /\ WindowOf(pid) \in DOMAIN windows
                                   /\ windows[WindowOf(pid)].pid = pid
           /\ DOMAIN windows = 1 .. Len(windows) /\ Len(windows) \in Nat
           /\ \A i \in DOMAIN windows : windows[i] \in Window
<1> DEFINE S == {i \in DOMAIN windows : windows[i].pid = pid}
<1>1. DOMAIN windows = 1 .. Len(windows) /\ Len(windows) \in Nat
  BY LenProperties DEF WinTypes
<1>2. \A i \in DOMAIN windows : windows[i] \in Window
  BY <1>1, ElementOfSeq DEF WinTypes
<1>3. S \in SUBSET (Nat \ {0})
  BY <1>1
<1>4. WindowOf(pid) = FirstOf(S)
  BY DEF WindowOf
<1> HIDE DEF S
<1>5. /\ S = {} => WindowOf(pid) = 0
      /\ S # {} => /\ WindowOf(pid) \in S /\ WindowOf(pid) # 0
  BY <1>3, <1>4, FirstFound
<1> QED BY <1>1, <1>2, <1>5 DEF S

\* The message at the head of the box, and what stays in it.
LEMMA BoxPopped ==
    ASSUME WinTypes, inbox # <<>>
    PROVE  /\ Head(inbox) \in Message
           /\ Tail(inbox) \in Seq(Message)
           /\ Len(inbox) \in Nat /\ Len(inbox) >= 1
           /\ DOMAIN inbox = 1 .. Len(inbox)
           /\ Head(inbox) = inbox[1]
           /\ Len(Tail(inbox)) = Len(inbox) - 1
           /\ DOMAIN Tail(inbox) = 1 .. Len(inbox) - 1
           /\ \A q \in 1 .. Len(inbox) - 1 : Tail(inbox)[q] = inbox[q + 1]
           /\ Tail(inbox) # inbox
<1>1. inbox \in Seq(Message)
  BY DEF WinTypes
<1>2. Len(inbox) \in Nat /\ Len(inbox) >= 1 /\ DOMAIN inbox = 1 .. Len(inbox)
  BY <1>1, EmptySeq, LenProperties
<1>3. /\ Head(inbox) \in Message /\ Tail(inbox) \in Seq(Message)
      /\ Len(Tail(inbox)) = Len(inbox) - 1
      /\ \A q \in 1 .. Len(Tail(inbox)) : Tail(inbox)[q] = inbox[q + 1]
  BY <1>1, HeadTailProperties
<1>4. DOMAIN Tail(inbox) = 1 .. Len(inbox) - 1
  BY <1>3, LenProperties
<1>5. Head(inbox) = inbox[1]
  BY <1>1, <1>2
<1>6. Tail(inbox) # inbox
  <2> SUFFICES ASSUME Tail(inbox) = inbox PROVE FALSE
    OBVIOUS
  <2>1. Len(inbox) = Len(inbox) - 1
    BY <1>3
  <2> QED BY <2>1, <1>2
<1> QED BY <1>2, <1>3, <1>4, <1>5, <1>6

\* A message posted.
LEMMA BoxPosted ==
    ASSUME WinTypes, NEW msg \in Message, Post(msg)
    PROVE  \/ lost' /\ inbox' = inbox
           \/ /\ inbox' \in Seq(Message) /\ lost' = lost
              /\ Len(inbox) \in Nat
              /\ DOMAIN inbox = 1 .. Len(inbox)
              /\ DOMAIN inbox' = 1 .. Len(inbox) + 1
              /\ \A q \in 1 .. Len(inbox) : inbox'[q] = inbox[q]
              /\ inbox'[Len(inbox) + 1] = msg
<1>1. inbox \in Seq(Message) /\ Len(inbox) \in Nat /\ DOMAIN inbox = 1 .. Len(inbox)
  BY LenProperties DEF WinTypes
<1>2. ASSUME inbox' = Append(inbox, msg)
      PROVE  /\ inbox' \in Seq(Message)
             /\ DOMAIN inbox' = 1 .. Len(inbox) + 1
             /\ \A q \in 1 .. Len(inbox) : inbox'[q] = inbox[q]
             /\ inbox'[Len(inbox) + 1] = msg
  <2>1. /\ inbox' \in Seq(Message) /\ Len(inbox') = Len(inbox) + 1
        /\ \A q \in 1 .. Len(inbox) : inbox'[q] = inbox[q]
        /\ inbox'[Len(inbox) + 1] = msg
    BY <1>1, <1>2, AppendProperties
  <2> QED BY <2>1, LenProperties
<1> QED BY <1>1, <1>2 DEF Post

-----------------------------------------------------------------------------

(***************************************************************************)
(* What a message does                                                     *)
(***************************************************************************)

LEMMA PopSteps ==
    ASSUME WinTypes, PopMsg
    PROVE  /\ ~off /\ inbox # <<>> /\ inbox' = Tail(inbox) /\ doing' = doing
           /\ \/ \E move \in Moves, left \in BOOLEAN :
                    /\ Head(inbox) = [kind |-> "MOUMOV", move |-> move, left |-> left]
                    /\ HandleMove(move, left)
              \/ \E c \in Clients, req \in Marks :
                    /\ Head(inbox) = [kind |-> "DREQ", from |-> c, req |-> req]
                    /\ HandleDraw(c, req)
                    /\ UNCHANGED <<mail, lost>>
              \/ \E c \in Clients :
                    /\ Head(inbox) = [kind |-> "CWIN", from |-> c, ask |-> Ask[c]]
                    /\ HandleCreate(c, Ask[c])
                    /\ UNCHANGED <<mail, lost>>
<1> DEFINE msg == Head(inbox)
<1>1. /\ ~off /\ inbox # <<>> /\ inbox' = Tail(inbox) /\ doing' = doing
      /\ \/ msg.kind = "MOUMOV" /\ HandleMove(msg.move, msg.left)
         \/ msg.kind = "DREQ" /\ HandleDraw(msg.from, msg.req) /\ UNCHANGED <<mail, lost>>
         \/ msg.kind = "CWIN" /\ HandleCreate(msg.from, msg.ask) /\ UNCHANGED <<mail, lost>>
  BY DEF PopMsg
<1>2. msg \in Message
  BY <1>1, BoxPopped
<1> HIDE DEF msg
<1>3. CASE msg \in Movement
  <2>1. PICK move \in Moves, left \in BOOLEAN :
           msg = [kind |-> "MOUMOV", move |-> move, left |-> left]
    BY <1>3 DEF Movement
  <2>2. HandleMove(move, left)
    BY <2>1, <1>1
  <2> QED BY <2>1, <2>2, <1>1 DEF msg
<1>4. CASE msg \in Drawing
  <2>1. PICK c \in Clients, req \in Marks : msg = [kind |-> "DREQ", from |-> c, req |-> req]
    BY <1>4 DEF Drawing
  <2>2. HandleDraw(c, req) /\ UNCHANGED <<mail, lost>>
    BY <2>1, <1>1
  <2> QED BY <2>1, <2>2, <1>1 DEF msg
<1>5. CASE msg \in Creation
  <2>1. PICK c \in Clients : msg = [kind |-> "CWIN", from |-> c, ask |-> Ask[c]]
    BY <1>5 DEF Creation
  <2>2. HandleCreate(c, Ask[c]) /\ UNCHANGED <<mail, lost>>
    BY <2>1, <1>1
  <2> QED BY <2>1, <2>2, <1>1 DEF msg
<1> QED BY <1>2, <1>3, <1>4, <1>5 DEF Message

\* A movement drags the window whose title bar the mouse is on, or none.
LEMMA MoveDrags ==
    ASSUME WinTypes, NEW move \in Moves, NEW left \in BOOLEAN, HandleMove(move, left),
           ~(left /\ OverPower(mouse))
    PROVE  LET i == IF left THEN Hover(windows, mouse) ELSE 0
               win == Dragged(windows[i], move)
           IN  /\ mouse' = Moved(mouse, move) /\ wild' = wild
               /\ i = 0 => UNCHANGED <<windows, mail, lost, scene, top>>
               /\ i # 0 => /\ i \in DOMAIN windows
                           /\ windows' \in Seq(Window) /\ DOMAIN windows' = DOMAIN windows
                           /\ \A j \in DOMAIN windows :
                                 windows'[j] = IF j = i THEN win ELSE windows[j]
                           /\ SendMov(win, move)
                           /\ scene' = DrawWindow(scene, win)
                           /\ top' = Painted(top, WindowCells(win), win.pid)
<1> DEFINE i == IF left THEN Hover(windows, mouse) ELSE 0
           win == Dragged(windows[i], move)
<1>1. /\ mouse' = Moved(mouse, move) /\ wild' = wild
      /\ windows' = IF i = 0 THEN windows ELSE [windows EXCEPT ![i] = win]
      /\ IF i = 0 THEN UNCHANGED <<mail, lost>> ELSE SendMov(win, move)
      /\ scene' = IF i = 0 THEN scene ELSE DrawWindow(scene, win)
      /\ top' = IF i = 0 THEN top ELSE Painted(top, WindowCells(win), win.pid)
  BY DEF HandleMove, Grip
<1>2. i = 0 \/ i \in DOMAIN windows
  BY HoverFinds DEF WinTypes
<1> HIDE DEF i, win
<1>3. ASSUME i # 0
      PROVE  /\ windows' \in Seq(Window) /\ DOMAIN windows' = DOMAIN windows
             /\ \A j \in DOMAIN windows : windows'[j] = IF j = i THEN win ELSE windows[j]
  <2>1. /\ windows \in Seq(Window) /\ DOMAIN windows = 1 .. Len(windows)
        /\ i \in 1 .. Len(windows)
    BY <1>2, <1>3, LenProperties DEF WinTypes
  <2>2. windows[i] \in Window
    BY <2>1, ElementOfSeq
  <2>3. win \in Window
    BY <2>2, DraggedIs DEF win
  <2>4. /\ windows' \in Seq(Window) /\ Len(windows') = Len(windows)
        /\ \A j \in 1 .. Len(windows) : windows'[j] = IF j = i THEN win ELSE windows[j]
    BY <2>1, <2>3, <1>1, <1>3, ExceptSeq
  <2> QED BY <2>1, <2>4, LenProperties
<1>4. /\ i = 0 => UNCHANGED <<windows, mail, lost, scene, top>>
      /\ i # 0 => /\ i \in DOMAIN windows
                  /\ SendMov(win, move)
                  /\ scene' = DrawWindow(scene, win)
                  /\ top' = Painted(top, WindowCells(win), win.pid)
  BY <1>1, <1>2
<1> QED BY <1>1, <1>3, <1>4 DEF i, win

\* A window is created at the end of the table.
LEMMA CreateAppends ==
    ASSUME WinTypes, NEW c \in Clients, HandleCreate(c, Ask[c])
    PROVE  \/ wild' /\ UNCHANGED <<windows, mouse>>
           \/ LET win == Created(c, Ask[c])
                  n == Len(windows) + 1
              IN  /\ UNCHANGED <<wild, mouse>> /\ win \in Window /\ win.pid = c
                  /\ windows' \in Seq(Window) /\ n \in Nat
                  /\ DOMAIN windows = 1 .. n - 1 /\ DOMAIN windows' = 1 .. n
                  /\ \A j \in 1 .. n - 1 : windows'[j] = windows[j]
                  /\ windows'[n] = win
                  /\ scene' = DrawWindow(scene, win)
                  /\ top' = Painted(top, WindowCells(win), c)
<1> DEFINE win == Created(c, Ask[c])
<1>1. CASE Len(windows) >= MaxWindows
  BY <1>1 DEF HandleCreate
<1>2. CASE ~(Len(windows) >= MaxWindows)
  <2>1. /\ windows' = Append(windows, win) /\ UNCHANGED <<wild, mouse>>
        /\ scene' = DrawWindow(scene, win)
        /\ top' = Painted(top, WindowCells(win), c)
    BY <1>2 DEF HandleCreate
  <2>2. win \in Window /\ win.pid = c
    <3>1. Ask[c] \in [x : Coordinate, y : Coordinate, w : Coordinate, h : Coordinate]
      BY WindowAssumption
    <3> QED BY <3>1 DEF Created, Window
  <2> HIDE DEF win
  <2>3. windows \in Seq(Window) /\ Len(windows) \in Nat /\ DOMAIN windows = 1 .. Len(windows)
    BY LenProperties DEF WinTypes
  <2>4. /\ windows' \in Seq(Window) /\ Len(windows') = Len(windows) + 1
        /\ \A j \in 1 .. Len(windows) : windows'[j] = windows[j]
        /\ windows'[Len(windows) + 1] = win
    BY <2>1, <2>2, <2>3, AppendProperties
  <2>5. DOMAIN windows' = 1 .. Len(windows) + 1
    BY <2>4, LenProperties
  <2>6. Len(windows) + 1 \in Nat /\ (Len(windows) + 1) - 1 = Len(windows)
    BY <2>3
  <2> QED BY <2>1, <2>2, <2>3, <2>4, <2>5, <2>6 DEF win
<1> QED BY <1>1, <1>2

LEMMA WinTypesInit == Init => WinTypes
<1> SUFFICES ASSUME Init PROVE WinTypes
  OBVIOUS
<1>1. windows = FirstWindows /\ mouse = Start /\ inbox = <<>>
      /\ mail = [c \in Clients |-> 0] /\ doing = [c \in Clients |-> "create"]
  BY DEF Init
<1>2. windows \in Seq(Window)
  <2>1. [x : Coordinate, y : Coordinate, w : Coordinate, h : Coordinate, pid : {0}]
           \subseteq Window
    BY DEF Window
  <2> QED BY <2>1, <1>1, WindowAssumption, SeqMonotonic
<1>3. inbox \in Seq(Message)
  BY <1>1, EmptySeq
<1> QED BY <1>1, <1>2, <1>3, WindowAssumption DEF WinTypes

LEMMA PostTypes ==
    ASSUME WinTypes, NEW msg \in Message, Post(msg)
    PROVE  inbox' \in Seq(Message)
BY BoxPosted DEF WinTypes

LEMMA PopTypes ==
    ASSUME WinTypes, PopMsg
    PROVE  WinTypes'
<1>1. inbox' \in Seq(Message) /\ doing' = doing
  BY PopSteps, BoxPopped
<1>2. ASSUME NEW move \in Moves, NEW left \in BOOLEAN, HandleMove(move, left)
      PROVE  WinTypes'
  <2>1. CASE left /\ OverPower(mouse)
    BY <1>1, <1>2, <2>1 DEF HandleMove, WinTypes
  <2>2. CASE ~(left /\ OverPower(mouse))
    <3> DEFINE i == IF left THEN Hover(windows, mouse) ELSE 0
               win == Dragged(windows[i], move)
    <3>1. /\ mouse' = Moved(mouse, move)
          /\ i = 0 => UNCHANGED <<windows, mail>>
          /\ i # 0 => windows' \in Seq(Window) /\ SendMov(win, move)
                      /\ i \in DOMAIN windows
      BY <1>2, <2>2, MoveDrags
    <3>2. mouse' \in (0 .. Width - 1) \X (0 .. Height - 1)
      BY <3>1, MouseStays DEF WinTypes
    <3>3. i # 0 => win.pid \in Clients \cup {0}
      <4>1. ASSUME i # 0 PROVE windows[i] \in Window
        BY <3>1, <4>1, WindowOfFinds
      <4>2. i # 0 => win \in Window
        BY <4>1, DraggedIs
      <4> HIDE DEF win, i
      <4> QED BY <4>2 DEF Window
    <3> HIDE DEF win, i
    <3>4. mail' \in [Clients -> Nat]
      BY <3>1, <3>3 DEF SendMov, Reported, WinTypes
    <3> QED BY <3>1, <3>2, <3>4, <1>1 DEF WinTypes
  <2> QED BY <2>1, <2>2
<1>3. ASSUME NEW c, NEW req, HandleDraw(c, req), UNCHANGED <<mail, lost>>
      PROVE  WinTypes'
  BY <1>1, <1>3 DEF HandleDraw, wmVars, WinTypes
<1>4. ASSUME NEW c \in Clients, HandleCreate(c, Ask[c]), UNCHANGED <<mail, lost>>
      PROVE  WinTypes'
  <2>1. windows' \in Seq(Window) /\ mouse' = mouse
    BY <1>4, CreateAppends DEF WinTypes
  <2> QED BY <2>1, <1>1, <1>4 DEF WinTypes
<1> QED BY <1>2, <1>3, <1>4, PopSteps

LEMMA WinTypesStep ==
    ASSUME WinTypes, [Next]_allVars
    PROVE  WinTypes'
<1>1. ASSUME NEW c \in Clients, CreateWindow(c)
      PROVE  WinTypes'
  <2>1. [kind |-> "CWIN", from |-> c, ask |-> Ask[c]] \in Message
    BY DEF Message, Creation
  <2>2. inbox' \in Seq(Message)
    BY <1>1, <2>1, PostTypes DEF CreateWindow
  <2> QED BY <1>1, <2>2 DEF CreateWindow, WinTypes, wmVars
<1>2. ASSUME NEW c \in Clients, NEW req \in Marks, Draw(c, req)
      PROVE  WinTypes'
  <2>1. [kind |-> "DREQ", from |-> c, req |-> req] \in Message
    BY DEF Message, Drawing
  <2>2. inbox' \in Seq(Message)
    BY <1>2, <2>1, PostTypes DEF Draw
  <2> QED BY <1>2, <2>2 DEF Draw, WinTypes, wmVars
<1>3. ASSUME NEW c \in Clients, ReadMov(c)
      PROVE  WinTypes'
  <2>1. mail' = [mail EXCEPT ![c] = mail[c] - 1] /\ mail[c] > 0
        /\ doing' = [doing EXCEPT ![c] = "draw"]
        /\ UNCHANGED <<windows, mouse, inbox>>
    BY <1>3 DEF ReadMov, wmVars
  <2>2. mail[c] - 1 \in Nat
    BY <2>1 DEF WinTypes
  <2> QED BY <2>1, <2>2 DEF WinTypes
<1>4. ASSUME NEW move \in Moves, NEW left \in BOOLEAN, MouseMoves(move, left)
      PROVE  WinTypes'
  <2>1. [kind |-> "MOUMOV", move |-> move, left |-> left] \in Message
    BY DEF Message, Movement
  <2>2. inbox' \in Seq(Message)
    BY <1>4, <2>1, PostTypes DEF MouseMoves
  <2> QED BY <1>4, <2>2 DEF MouseMoves, WinTypes, wmVars, clientVars
<1>5. CASE UNCHANGED allVars
  BY <1>5 DEF allVars, wmVars, clientVars, WinTypes
<1> QED BY <1>1, <1>2, <1>3, <1>4, <1>5, PopTypes DEF Next

-----------------------------------------------------------------------------

(***************************************************************************)
(* Dragging                                                                *)
(***************************************************************************)

\* Only the manager takes a message out of its box.
LEMMA OnlyPops ==
    ASSUME WinTypes, [Next]_allVars, inbox # <<>>, inbox' = Tail(inbox)
    PROVE  PopMsg
<1>1. inbox \in Seq(Message) /\ Len(inbox) \in Nat /\ Len(inbox') = Len(inbox) - 1
  BY BoxPopped DEF WinTypes
<1>2. inbox' # inbox
  BY BoxPopped
<1>3. ASSUME NEW msg \in Message, Post(msg)
      PROVE  FALSE
  <2>1. inbox' = Append(inbox, msg)
    BY <1>2, <1>3 DEF Post
  <2>2. inbox \in Seq(Message) /\ msg \in Message
    BY <1>1, <1>3
  <2>3. Len(Append(inbox, msg)) = Len(inbox) + 1
    BY <2>2, AppendProperties
  <2> QED BY <1>1, <2>1, <2>3
<1>4. \A c \in Clients : ~CreateWindow(c)
  BY <1>3 DEF CreateWindow, Message, Creation
<1>5. \A c \in Clients, req \in Marks : ~Draw(c, req)
  BY <1>3 DEF Draw, Message, Drawing
<1>6. \A move \in Moves, left \in BOOLEAN : ~MouseMoves(move, left)
  BY <1>3 DEF MouseMoves, Message, Movement
<1>7. ~UNCHANGED allVars /\ \A c \in Clients : ~ReadMov(c)
  BY <1>2 DEF ReadMov, allVars
<1> QED BY <1>4, <1>5, <1>6, <1>7 DEF Next

LEMMA DragHolds ==
    ASSUME WinTypes, [Next]_allVars, NEW i \in DOMAIN windows, NEW move \in Moves,
           Hover(windows, mouse) = i, ~OverPower(mouse),
           inbox # <<>>, inbox' = Tail(inbox),
           Head(inbox) = [kind |-> "MOUMOV", move |-> move, left |-> TRUE],
           Moved(mouse, move) = <<mouse[1] + move[1], mouse[2] - move[2]>>,
           {windows[i].x + move[1], windows[i].y - move[2]} \subseteq 0 .. Word - 1
    PROVE  Hover(windows', mouse') \in 1 .. i
<1> DEFINE win == Dragged(windows[i], move)
<1>1. HandleMove(move, TRUE)
  <2>1. PopMsg
    BY OnlyPops
  <2>2. CASE \E mv \in Moves, left \in BOOLEAN :
                /\ Head(inbox) = [kind |-> "MOUMOV", move |-> mv, left |-> left]
                /\ HandleMove(mv, left)
    <3>1. PICK mv \in Moves, left \in BOOLEAN :
                /\ Head(inbox) = [kind |-> "MOUMOV", move |-> mv, left |-> left]
                /\ HandleMove(mv, left)
      BY <2>2
    <3>2. mv = move /\ left = TRUE
      BY <3>1
    <3> QED BY <3>1, <3>2
  <2>3. Head(inbox).kind = "MOUMOV"
    OBVIOUS
  <2>4. ~\E c \in Clients, req \in Marks :
            Head(inbox) = [kind |-> "DREQ", from |-> c, req |-> req]
    BY <2>3
  <2>5. ~\E c \in Clients :
            Head(inbox) = [kind |-> "CWIN", from |-> c, ask |-> Ask[c]]
    BY <2>3
  <2> QED BY <2>1, <2>2, <2>4, <2>5, PopSteps
<1>2. i # 0 /\ windows[i] \in Window /\ i \in Nat
  BY HoverFinds, WindowOfFinds DEF WinTypes
<1>3. /\ mouse' = Moved(mouse, move)
      /\ windows' \in Seq(Window) /\ DOMAIN windows' = DOMAIN windows
      /\ windows'[i] = win
  BY <1>1, <1>2, MoveDrags
<1>4. Grips(windows[i], mouse)
  <2> DEFINE S == {j \in DOMAIN windows : Grips(windows[j], mouse)}
  <2>1. S \in SUBSET (Nat \ {0})
    BY HoverFinds DEF WinTypes
  <2>2. Hover(windows, mouse) = FirstOf(S)
    BY DEF Hover, Grips
  <2>3. i \in S
    <3> HIDE DEF S
    <3> QED BY <2>1, <2>2, <1>2, FirstFound
  <2> QED BY <2>3
<1>5. /\ win.x = windows[i].x + move[1] /\ win.y = windows[i].y - move[2]
      /\ win.w = windows[i].w
  <2>1. windows[i].x + move[1] \in Int /\ windows[i].y - move[2] \in Int
    BY <1>2, WindowAssumption DEF Window, Coordinate
  <2>2. /\ Coord(windows[i].x + move[1]) = windows[i].x + move[1]
        /\ Coord(windows[i].y - move[2]) = windows[i].y - move[2]
    BY <2>1, CoordWraps DEF Coordinate
  <2> QED BY <2>2, <1>2, DraggedIs
<1>6. Grips(win, mouse')
  <2> DEFINE wx == windows[i].x
             wy == windows[i].y
             ww == windows[i].w
  <2>1. /\ wx \in Int /\ wy \in Int /\ ww \in Int
        /\ mouse[1] \in Int /\ mouse[2] \in Int /\ move[1] \in Int /\ move[2] \in Int
        /\ TitleHeight \in Int
    BY <1>2, WindowAssumption DEF WinTypes, Window, Coordinate
  <2>2. /\ wx <= mouse[1] /\ mouse[1] <= wx + ww
        /\ wy - TitleHeight <= mouse[2] /\ mouse[2] <= wy
    BY <1>4 DEF Grips
  <2>3. mouse'[1] = mouse[1] + move[1] /\ mouse'[2] = mouse[2] - move[2]
    BY <1>3
  <2>4. /\ win.x = wx + move[1] /\ win.y = wy - move[2] /\ win.w = ww
    BY <1>5
  <2> HIDE DEF wx, wy, ww, win
  <2>5. win.x <= mouse'[1] /\ mouse'[1] <= win.x + win.w
    BY <2>1, <2>2, <2>3, <2>4
  <2>6. win.y - TitleHeight <= mouse'[2] /\ mouse'[2] <= win.y
    BY <2>1, <2>2, <2>3, <2>4
  <2> QED BY <2>5, <2>6 DEF Grips
<1> QED BY <1>3, <1>6, HoverFinds

\* A drag keeps hold of its window, or of an older one that it passes, however the
\* windows lie: the manager looks for the window where the mouse was, and moves
\* both by the same amount.
THEOREM DragsKeepHold == Spec => DragKeepsHold
<1>1. WinTypes /\ [Next]_allVars =>
         [\A i \in DOMAIN windows, move \in Moves :
            /\ Hover(windows, mouse) = i /\ ~OverPower(mouse)
            /\ inbox # <<>> /\ inbox' = Tail(inbox)
            /\ Head(inbox) = [kind |-> "MOUMOV", move |-> move, left |-> TRUE]
            /\ Moved(mouse, move) = <<mouse[1] + move[1], mouse[2] - move[2]>>
            /\ {windows[i].x + move[1], windows[i].y - move[2]} \subseteq 0 .. Word - 1
            => Hover(windows, mouse)' \in 1 .. i]_allVars
  <2>1. Hover(windows, mouse)' = Hover(windows', mouse')
    BY DEF Hover
  <2> QED BY <2>1, DragHolds
<1> QED BY <1>1, WinTypesInit, WinTypesStep, PTL DEF Spec, DragKeepsHold

-----------------------------------------------------------------------------

(***************************************************************************)
(* Drawings                                                                *)
(***************************************************************************)

\* The drawings lie in the windows asked for, as the manager creates them.
MarksFit == \A c \in Clients, req \in Marks : Inside(Created(c, Ask[c]), req)

\* The message at a place in the box is one of the program.
Creates(q, c) == inbox[q].kind = "CWIN" /\ inbox[q].from = c
Draws(q, c) == inbox[q].kind = "DREQ" /\ inbox[q].from = c

ToCreate(c) == \E q \in DOMAIN inbox : Creates(q, c)
ToDraw(c) == \E q \in DOMAIN inbox : Draws(q, c)

CreatedOnce(c) == \A p, q \in DOMAIN inbox : Creates(p, c) /\ Creates(q, c) => p = q
CreatedFirst(c) == \A p, q \in DOMAIN inbox : Creates(p, c) /\ Draws(q, c) => p < q

Shown(c) ==
    \E req \in Marks :
        \A k \in MarkCells(windows[WindowOf(c)], req) : top[k] = c => scene[k] \in Clients

\* How far a program is: its window is asked for before it draws, and what it has
\* drawn is shown unless a movement is in its box, or a drawing in the manager's.
Along(c) ==
    /\ CreatedOnce(c) /\ CreatedFirst(c)
    /\ doing[c] = "create" => ~ToCreate(c) /\ ~ToDraw(c) /\ WindowOf(c) = 0
    /\ doing[c] # "create" => ToCreate(c) \/ WindowOf(c) # 0
    /\ ToCreate(c) => /\ WindowOf(c) = 0
                      /\ doing[c] = "wait" => ToDraw(c)
    /\ doing[c] = "wait" /\ mail[c] = 0 /\ ~ToDraw(c) => Shown(c)
    /\ \A i \in DOMAIN windows :
          windows[i].pid = c => windows[i].w = Ask[c].h /\ windows[i].h = Ask[c].w

AllAlong == ~lost /\ ~wild => \A c \in Clients : Along(c)

\* What posting a message changes of it.
LEMMA PostedAlong ==
    ASSUME WinTypes, NEW msg \in Message, Post(msg), ~lost', NEW c,
           CreatedOnce(c), CreatedFirst(c),
           msg.kind = "CWIN" /\ msg.from = c => ~ToCreate(c) /\ ~ToDraw(c)
    PROVE  /\ ~lost
           /\ CreatedOnce(c)' /\ CreatedFirst(c)'
           /\ ToCreate(c)' <=> ToCreate(c) \/ (msg.kind = "CWIN" /\ msg.from = c)
           /\ ToDraw(c)' <=> ToDraw(c) \/ (msg.kind = "DREQ" /\ msg.from = c)
<1>1. PICK n \in Nat :
         /\ lost' = lost
         /\ DOMAIN inbox = 1 .. n /\ DOMAIN inbox' = 1 .. n + 1
         /\ \A q \in 1 .. n : inbox'[q] = inbox[q]
         /\ inbox'[n + 1] = msg
  BY BoxPosted
<1>2. /\ n + 1 \in 1 .. n + 1
      /\ \A q \in 1 .. n : q \in 1 .. n + 1 /\ q # n + 1 /\ q < n + 1
      /\ \A q \in 1 .. n + 1 : q \in 1 .. n \/ q = n + 1
  BY <1>1
<1>3. ASSUME NEW q \in 1 .. n
      PROVE  (Creates(q, c)' <=> Creates(q, c)) /\ (Draws(q, c)' <=> Draws(q, c))
  BY <1>1, <1>3 DEF Creates, Draws
<1>4. /\ Creates(n + 1, c)' <=> msg.kind = "CWIN" /\ msg.from = c
      /\ Draws(n + 1, c)' <=> msg.kind = "DREQ" /\ msg.from = c
  BY <1>1 DEF Creates, Draws
<1>5. ToCreate(c)' <=> ToCreate(c) \/ (msg.kind = "CWIN" /\ msg.from = c)
  BY <1>1, <1>2, <1>3, <1>4 DEF ToCreate
<1>6. ToDraw(c)' <=> ToDraw(c) \/ (msg.kind = "DREQ" /\ msg.from = c)
  BY <1>1, <1>2, <1>3, <1>4 DEF ToDraw
<1>7. CreatedOnce(c)'
  <2> SUFFICES ASSUME NEW p \in 1 .. n + 1, NEW q \in 1 .. n + 1,
                      Creates(p, c)', Creates(q, c)'
               PROVE  p = q
    BY <1>1 DEF CreatedOnce
  <2>1. CASE p \in 1 .. n /\ q \in 1 .. n
    BY <2>1, <1>1, <1>3 DEF CreatedOnce
  <2>2. CASE p = n + 1 /\ q = n + 1
    BY <2>2
  <2>3. CASE p \in 1 .. n /\ q = n + 1
    BY <2>3, <1>1, <1>3, <1>4 DEF ToCreate
  <2>4. CASE p = n + 1 /\ q \in 1 .. n
    BY <2>4, <1>1, <1>3, <1>4 DEF ToCreate
  <2> QED BY <2>1, <2>2, <2>3, <2>4, <1>2
<1>8. CreatedFirst(c)'
  <2> SUFFICES ASSUME NEW p \in 1 .. n + 1, NEW q \in 1 .. n + 1,
                      Creates(p, c)', Draws(q, c)'
               PROVE  p < q
    BY <1>1 DEF CreatedFirst
  <2>1. CASE p \in 1 .. n /\ q \in 1 .. n
    BY <2>1, <1>1, <1>3 DEF CreatedFirst
  <2>2. CASE p = n + 1 /\ q = n + 1
    BY <2>2, <1>4
  <2>3. CASE p \in 1 .. n /\ q = n + 1
    BY <2>3, <1>2
  <2>4. CASE p = n + 1 /\ q \in 1 .. n
    BY <2>4, <1>1, <1>3, <1>4 DEF ToDraw
  <2> QED BY <2>1, <2>2, <2>3, <2>4, <1>2
<1> QED BY <1>1, <1>5, <1>6, <1>7, <1>8

\* What taking one out changes.
LEMMA PoppedAlong ==
    ASSUME WinTypes, inbox # <<>>, inbox' = Tail(inbox), NEW c,
           CreatedOnce(c), CreatedFirst(c)
    PROVE  /\ CreatedOnce(c)' /\ CreatedFirst(c)'
           /\ ToCreate(c) <=> ToCreate(c)' \/ Creates(1, c)
           /\ ToDraw(c) <=> ToDraw(c)' \/ Draws(1, c)
           /\ Creates(1, c) => ~ToCreate(c)'
           /\ Draws(1, c) => ~ToCreate(c)
<1> DEFINE n == Len(inbox)
<1>1. /\ n \in Nat /\ n >= 1
      /\ DOMAIN inbox = 1 .. n /\ DOMAIN inbox' = 1 .. n - 1
      /\ \A q \in 1 .. n - 1 : inbox'[q] = inbox[q + 1]
  BY BoxPopped
<1> HIDE DEF n
<1>2. /\ 1 \in 1 .. n
      /\ \A q \in 1 .. n - 1 : q + 1 \in 1 .. n /\ q + 1 # 1 /\ ~(q + 1 < 1)
      /\ \A q \in 1 .. n : q = 1 \/ (q - 1 \in 1 .. n - 1 /\ (q - 1) + 1 = q)
      /\ \A q \in 1 .. n : ~(q < 1)
  BY <1>1
<1>3. ASSUME NEW q \in 1 .. n - 1
      PROVE  (Creates(q, c)' <=> Creates(q + 1, c)) /\ (Draws(q, c)' <=> Draws(q + 1, c))
  BY <1>1, <1>3 DEF Creates, Draws
<1>4. ToCreate(c) <=> ToCreate(c)' \/ Creates(1, c)
  <2>1. ASSUME ToCreate(c), ~Creates(1, c) PROVE ToCreate(c)'
    <3>1. PICK q \in 1 .. n : Creates(q, c)
      BY <2>1, <1>1 DEF ToCreate
    <3>2. q - 1 \in 1 .. n - 1 /\ (q - 1) + 1 = q
      BY <3>1, <2>1, <1>2
    <3>3. Creates(q - 1, c)'
      BY <3>1, <3>2, <1>3
    <3> QED BY <3>2, <3>3, <1>1 DEF ToCreate
  <2>2. ASSUME ToCreate(c)' PROVE ToCreate(c)
    <3>1. PICK q \in 1 .. n - 1 : Creates(q, c)'
      BY <2>2, <1>1 DEF ToCreate
    <3> QED BY <3>1, <1>1, <1>2, <1>3 DEF ToCreate
  <2> QED BY <2>1, <2>2, <1>1, <1>2 DEF ToCreate
<1>5. ToDraw(c) <=> ToDraw(c)' \/ Draws(1, c)
  <2>1. ASSUME ToDraw(c), ~Draws(1, c) PROVE ToDraw(c)'
    <3>1. PICK q \in 1 .. n : Draws(q, c)
      BY <2>1, <1>1 DEF ToDraw
    <3>2. q - 1 \in 1 .. n - 1 /\ (q - 1) + 1 = q
      BY <3>1, <2>1, <1>2
    <3>3. Draws(q - 1, c)'
      BY <3>1, <3>2, <1>3
    <3> QED BY <3>2, <3>3, <1>1 DEF ToDraw
  <2>2. ASSUME ToDraw(c)' PROVE ToDraw(c)
    <3>1. PICK q \in 1 .. n - 1 : Draws(q, c)'
      BY <2>2, <1>1 DEF ToDraw
    <3> QED BY <3>1, <1>1, <1>2, <1>3 DEF ToDraw
  <2> QED BY <2>1, <2>2, <1>1, <1>2 DEF ToDraw
<1>6. Creates(1, c) => ~ToCreate(c)'
  <2> SUFFICES ASSUME Creates(1, c), NEW q \in 1 .. n - 1, Creates(q, c)' PROVE FALSE
    BY <1>1 DEF ToCreate
  <2> QED BY <1>1, <1>2, <1>3 DEF CreatedOnce
<1>7. Draws(1, c) => ~ToCreate(c)
  BY <1>1, <1>2 DEF ToCreate, CreatedFirst
<1>8. CreatedOnce(c)'
  <2> SUFFICES ASSUME NEW p \in 1 .. n - 1, NEW q \in 1 .. n - 1,
                      Creates(p, c)', Creates(q, c)'
               PROVE  p = q
    BY <1>1 DEF CreatedOnce
  <2>1. p + 1 = q + 1
    BY <1>1, <1>2, <1>3 DEF CreatedOnce
  <2> QED BY <2>1, <1>1
<1>9. CreatedFirst(c)'
  <2> SUFFICES ASSUME NEW p \in 1 .. n - 1, NEW q \in 1 .. n - 1,
                      Creates(p, c)', Draws(q, c)'
               PROVE  p < q
    BY <1>1 DEF CreatedFirst
  <2>1. p + 1 < q + 1
    BY <1>1, <1>2, <1>3 DEF CreatedFirst
  <2> QED BY <2>1, <1>1
<1> QED BY <1>4, <1>5, <1>6, <1>7, <1>8, <1>9

\* As long as the windows stay with their programs, the search finds the same.
LEMMA SearchKept ==
    ASSUME DOMAIN windows' = DOMAIN windows,
           \A j \in DOMAIN windows : windows'[j].pid = windows[j].pid,
           NEW c
    PROVE  WindowOf(c)' = WindowOf(c)
<1>1. {i \in DOMAIN windows : windows[i].pid = c}' = {i \in DOMAIN windows : windows[i].pid = c}
  OBVIOUS
<1> QED BY <1>1 DEF WindowOf

\* Programs and the mouse only post messages and read their own.
LEMMA ClientsAlong ==
    ASSUME WinTypes, NEW c \in Clients, Along(c), ~lost',
           \/ \E d \in Clients : CreateWindow(d) \/ ReadMov(d)
           \/ \E d \in Clients, req \in Marks : Draw(d, req)
           \/ \E move \in Moves, left \in BOOLEAN : MouseMoves(move, left)
           \/ UNCHANGED allVars
    PROVE  ~lost /\ Along(c)'
<1>1. UNCHANGED <<windows, scene, top>>
  BY DEF CreateWindow, ReadMov, Draw, MouseMoves, wmVars, allVars
<1>2. /\ WindowOf(c)' = WindowOf(c)
      /\ Shown(c)' <=> Shown(c)
  BY <1>1 DEF WindowOf, Shown
<1>3. (\A i \in DOMAIN windows :
          windows[i].pid = c => windows[i].w = Ask[c].h /\ windows[i].h = Ask[c].w)'
  BY <1>1 DEF Along
<1>4. ASSUME NEW msg \in Message, Post(msg), UNCHANGED <<doing, mail>>,
             msg.kind \in {"CWIN", "DREQ"} => msg.from # c
      PROVE  ~lost /\ Along(c)'
  <2>1. /\ ~lost /\ CreatedOnce(c)' /\ CreatedFirst(c)'
        /\ ToCreate(c)' <=> ToCreate(c)
        /\ ToDraw(c)' <=> ToDraw(c)
    BY <1>4, PostedAlong DEF Along
  <2> QED BY <2>1, <1>2, <1>3, <1>4 DEF Along
<1>5. ASSUME NEW d \in Clients, CreateWindow(d)
      PROVE  ~lost /\ Along(c)'
  <2> DEFINE msg == [kind |-> "CWIN", from |-> d, ask |-> Ask[d]]
  <2>1. /\ msg \in Message /\ msg.kind = "CWIN" /\ msg.from = d
        /\ doing[d] = "create" /\ Post(msg)
        /\ doing' = [doing EXCEPT ![d] = "draw"] /\ mail' = mail
    BY <1>5 DEF CreateWindow, Message, Creation
  <2> HIDE DEF msg
  <2>2. d = c => ~ToCreate(c) /\ ~ToDraw(c) /\ WindowOf(c) = 0
    BY <2>1 DEF Along
  <2>3. /\ ~lost /\ CreatedOnce(c)' /\ CreatedFirst(c)'
        /\ ToCreate(c)' <=> ToCreate(c) \/ d = c
        /\ ToDraw(c)' <=> ToDraw(c)
    BY <2>1, <2>2, PostedAlong DEF Along
  <2>4. doing'[c] = IF c = d THEN "draw" ELSE doing[c]
    BY <2>1 DEF WinTypes
  <2>5. CASE c = d
    BY <2>2, <2>3, <2>4, <2>5, <1>2, <1>3 DEF Along
  <2>6. CASE c # d
    BY <2>1, <2>3, <2>4, <2>6, <1>2, <1>3 DEF Along
  <2> QED BY <2>5, <2>6
<1>6. ASSUME NEW d \in Clients, NEW req \in Marks, Draw(d, req)
      PROVE  ~lost /\ Along(c)'
  <2> DEFINE msg == [kind |-> "DREQ", from |-> d, req |-> req]
  <2>1. /\ msg \in Message /\ msg.kind = "DREQ" /\ msg.from = d
        /\ doing[d] = "draw" /\ Post(msg)
        /\ doing' = [doing EXCEPT ![d] = "wait"] /\ mail' = mail
    BY <1>6 DEF Draw, Message, Drawing
  <2> HIDE DEF msg
  <2>2. /\ ~lost /\ CreatedOnce(c)' /\ CreatedFirst(c)'
        /\ ToCreate(c)' <=> ToCreate(c)
        /\ ToDraw(c)' <=> ToDraw(c) \/ d = c
    BY <2>1, PostedAlong DEF Along
  <2>3. doing'[c] = IF c = d THEN "wait" ELSE doing[c]
    BY <2>1 DEF WinTypes
  <2>4. CASE c = d
    BY <2>1, <2>2, <2>3, <2>4, <1>2, <1>3 DEF Along
  <2>5. CASE c # d
    BY <2>1, <2>2, <2>3, <2>5, <1>2, <1>3 DEF Along
  <2> QED BY <2>4, <2>5
<1>7. ASSUME NEW d \in Clients, ReadMov(d)
      PROVE  ~lost /\ Along(c)'
  <2>1. /\ UNCHANGED <<inbox, lost>> /\ doing[d] = "wait"
        /\ doing' = [doing EXCEPT ![d] = "draw"]
        /\ mail' = [mail EXCEPT ![d] = mail[d] - 1]
    BY <1>7 DEF ReadMov
  <2>2. /\ CreatedOnce(c)' /\ CreatedFirst(c)'
        /\ ToCreate(c)' <=> ToCreate(c)
        /\ ToDraw(c)' <=> ToDraw(c)
    BY <2>1 DEF Along, CreatedOnce, CreatedFirst, ToCreate, ToDraw, Creates, Draws
  <2>3. doing'[c] = IF c = d THEN "draw" ELSE doing[c]
    BY <2>1 DEF WinTypes
  <2>4. c # d => mail'[c] = mail[c]
    BY <2>1 DEF WinTypes
  <2>5. CASE c = d
    BY <2>1, <2>2, <2>3, <2>5, <1>2, <1>3 DEF Along
  <2>6. CASE c # d
    BY <2>1, <2>2, <2>3, <2>4, <2>6, <1>2, <1>3 DEF Along
  <2> QED BY <2>1, <2>5, <2>6
<1>8. ASSUME NEW move \in Moves, NEW left \in BOOLEAN, MouseMoves(move, left)
      PROVE  ~lost /\ Along(c)'
  <2> DEFINE msg == [kind |-> "MOUMOV", move |-> move, left |-> left]
  <2>1. msg \in Message /\ msg.kind = "MOUMOV" /\ Post(msg) /\ UNCHANGED <<doing, mail>>
    BY <1>8 DEF MouseMoves, Message, Movement, clientVars
  <2> HIDE DEF msg
  <2> QED BY <2>1, <1>4
<1>9. CASE UNCHANGED allVars
  <2>1. UNCHANGED <<inbox, lost, doing, mail>>
    BY <1>9 DEF allVars, clientVars
  <2>2. /\ CreatedOnce(c)' /\ CreatedFirst(c)'
        /\ ToCreate(c)' <=> ToCreate(c)
        /\ ToDraw(c)' <=> ToDraw(c)
    BY <2>1 DEF Along, CreatedOnce, CreatedFirst, ToCreate, ToDraw, Creates, Draws
  <2> QED BY <2>1, <2>2, <1>2, <1>3 DEF Along
<1> QED BY <1>5, <1>6, <1>7, <1>8, <1>9

\* Outside the window drawn nothing changes, and inside it the window is on top.
LEMMA DrawnOver ==
    ASSUME NEW win, NEW k \in Visible, NEW c,
           scene' = DrawWindow(scene, win), top' = Painted(top, WindowCells(win), win.pid),
           win.pid # c, top'[k] = c
    PROVE  top[k] = c /\ scene'[k] = scene[k]
<1>1. k \notin WindowCells(win)
  BY PaintedCells
<1>2. top[k] = c
  BY <1>1, PaintedCells
<1>3. scene'[k] = scene[k]
  BY <1>1, PaintedCells DEF DrawWindow, WindowCells
<1> QED BY <1>2, <1>3

LEMMA MoveAlong ==
    ASSUME WinTypes, NEW c \in Clients, Along(c), ~lost',
           inbox # <<>>, inbox' = Tail(inbox), doing' = doing,
           NEW move \in Moves, NEW left \in BOOLEAN,
           Head(inbox) = [kind |-> "MOUMOV", move |-> move, left |-> left],
           HandleMove(move, left)
    PROVE  ~lost /\ Along(c)'
<1>1. Head(inbox).kind = "MOUMOV" /\ Head(inbox) = inbox[1]
  <2>1. Head(inbox).kind = "MOUMOV"
    OBVIOUS
  <2> QED BY <2>1, BoxPopped
<1>2. ~Creates(1, c) /\ ~Draws(1, c)
  BY <1>1 DEF Creates, Draws
<1>3. /\ CreatedOnce(c)' /\ CreatedFirst(c)'
      /\ ToCreate(c)' <=> ToCreate(c)
      /\ ToDraw(c)' <=> ToDraw(c)
  BY <1>2, PoppedAlong DEF Along
<1>4. ASSUME UNCHANGED <<windows, mail, lost, scene, top>>
      PROVE  ~lost /\ Along(c)'
  <2>1. /\ WindowOf(c)' = WindowOf(c)
        /\ Shown(c)' <=> Shown(c)
    BY <1>4 DEF WindowOf, Shown
  <2>2. (\A i \in DOMAIN windows :
            windows[i].pid = c => windows[i].w = Ask[c].h /\ windows[i].h = Ask[c].w)'
    BY <1>4 DEF Along
  <2> QED BY <2>1, <2>2, <1>3, <1>4 DEF Along
<1>5. CASE left /\ OverPower(mouse)
  BY <1>4, <1>5 DEF HandleMove
<1>6. CASE ~(left /\ OverPower(mouse))
  <2> DEFINE i == IF left THEN Hover(windows, mouse) ELSE 0
             win == Dragged(windows[i], move)
  <2>1. CASE i = 0
    BY <2>1, <1>4, <1>6, MoveDrags
  <2>2. CASE i # 0
    <3>1. /\ i \in DOMAIN windows /\ DOMAIN windows' = DOMAIN windows
          /\ \A j \in DOMAIN windows : windows'[j] = IF j = i THEN win ELSE windows[j]
          /\ SendMov(win, move)
          /\ scene' = DrawWindow(scene, win)
          /\ top' = Painted(top, WindowCells(win), win.pid)
      BY <2>2, <1>6, MoveDrags
    <3>2. windows[i] \in Window
      BY <3>1, WindowOfFinds
    <3>3. win.pid = windows[i].pid /\ win.w = windows[i].w /\ win.h = windows[i].h
          /\ win.pid \in Clients \cup {0}
      BY <3>2, DraggedIs DEF Window
    <3> HIDE DEF i, win
    <3>4. \A j \in DOMAIN windows : /\ windows'[j].pid = windows[j].pid
                                    /\ windows'[j].w = windows[j].w
                                    /\ windows'[j].h = windows[j].h
      BY <3>1, <3>3
    <3>5. WindowOf(c)' = WindowOf(c)
      BY <3>1, <3>4, SearchKept
    <3>6. (\A j \in DOMAIN windows :
              windows[j].pid = c => windows[j].w = Ask[c].h /\ windows[j].h = Ask[c].w)'
      BY <3>1, <3>4 DEF Along
    <3>7. ~lost
      BY <3>1 DEF SendMov
    <3>8. ASSUME win.pid = c
          PROVE  mail'[c] # 0
      <4>1. win.pid # 0
        BY <3>8, WindowAssumption
      <4>2. mail' = [mail EXCEPT ![c] = mail[c] + 1]
        BY <4>1, <3>1, <3>8 DEF SendMov, Reported
      <4> QED BY <4>2 DEF WinTypes
    <3>9. ASSUME win.pid # c
          PROVE  mail'[c] = mail[c]
      BY <3>1, <3>3, <3>9 DEF SendMov, WinTypes
    <3>10. ASSUME doing'[c] = "wait", mail'[c] = 0, ~ToDraw(c)'
           PROVE  Shown(c)'
      <4>1. win.pid # c
        BY <3>8, <3>10
      <4>2. mail[c] = 0 /\ ~ToDraw(c)
        BY <4>1, <3>9, <3>10, <1>3
      <4>3. PICK req \in Marks :
               \A k \in MarkCells(windows[WindowOf(c)], req) : top[k] = c => scene[k] \in Clients
        BY <4>2, <3>10 DEF Along, Shown
      <4>4. WindowOf(c) # 0
        BY <4>2, <3>10 DEF Along
      <4>5. WindowOf(c) \in DOMAIN windows /\ windows[WindowOf(c)].pid = c
        BY <4>4, WindowOfFinds
      <4>6. windows'[WindowOf(c)] = windows[WindowOf(c)]
        BY <4>1, <4>5, <3>1, <3>3
      <4>7. ASSUME NEW k \in MarkCells(windows[WindowOf(c)], req), top'[k] = c
            PROVE  scene'[k] \in Clients
        <5>1. k \in Visible
          BY DEF MarkCells
        <5>2. top[k] = c /\ scene'[k] = scene[k]
          BY <5>1, <4>1, <4>7, <3>1, DrawnOver
        <5> QED BY <5>2, <4>3
      <4> QED BY <4>6, <4>7, <3>5 DEF Shown
    <3> QED BY <3>5, <3>6, <3>7, <3>10, <1>3 DEF Along
  <2> QED BY <2>1, <2>2
<1> QED BY <1>5, <1>6

LEMMA DrawAlong ==
    ASSUME WinTypes, MarksFit, NEW c \in Clients, Along(c),
           inbox # <<>>, inbox' = Tail(inbox), UNCHANGED <<doing, mail, lost>>,
           NEW d \in Clients, NEW req \in Marks,
           Head(inbox) = [kind |-> "DREQ", from |-> d, req |-> req],
           HandleDraw(d, req)
    PROVE  Along(c)'
<1>1. Head(inbox).kind = "DREQ" /\ Head(inbox).from = d
  OBVIOUS
<1>2. Head(inbox) = inbox[1]
  BY BoxPopped
<1>3. ~Creates(1, c) /\ (Draws(1, c) <=> c = d)
  BY <1>1, <1>2 DEF Creates, Draws
<1>4. /\ CreatedOnce(c)' /\ CreatedFirst(c)'
      /\ ToCreate(c)' <=> ToCreate(c)
      /\ ToDraw(c) <=> ToDraw(c)' \/ c = d
      /\ c = d => ~ToCreate(c)
  BY <1>3, PoppedAlong DEF Along
<1>5. UNCHANGED <<windows, top>>
  BY DEF HandleDraw, wmVars
<1>6. WindowOf(c)' = WindowOf(c)
  BY <1>5 DEF WindowOf
<1>7. (\A i \in DOMAIN windows :
          windows[i].pid = c => windows[i].w = Ask[c].h /\ windows[i].h = Ask[c].w)'
  BY <1>5 DEF Along
<1> DEFINE cells == MarkCells(windows[WindowOf(d)], req)
<1>8. \/ scene' = scene /\ (WindowOf(d) = 0 \/ ~Inside(windows[WindowOf(d)], req))
      \/ scene' = Painted(scene, cells, d)
  BY DEF HandleDraw, wmVars
<1>9. ASSUME c # d, Shown(c)
      PROVE  Shown(c)'
  <2>1. PICK r \in Marks :
           \A k \in MarkCells(windows[WindowOf(c)], r) : top[k] = c => scene[k] \in Clients
    BY <1>9 DEF Shown
  <2>2. ASSUME NEW k \in MarkCells(windows[WindowOf(c)], r), top[k] = c
        PROVE  scene'[k] \in Clients
    <3>1. k \in Visible
      BY DEF MarkCells
    <3>2. scene'[k] = scene[k] \/ scene'[k] = d
      BY <1>8, <3>1, PaintedCells
    <3> QED BY <3>2, <2>1, <2>2
  <2> QED BY <2>2, <1>5, <1>6 DEF Shown
<1>10. ASSUME c = d
       PROVE  Shown(c)'
  <2>1. WindowOf(c) # 0
    <3>1. ToDraw(c) /\ ~ToCreate(c)
      BY <1>4, <1>10
    <3> QED BY <3>1 DEF Along
  <2>2. /\ WindowOf(c) \in DOMAIN windows /\ windows[WindowOf(c)].pid = c
    BY <2>1, WindowOfFinds
  <2>3. windows[WindowOf(c)].w = Ask[c].h /\ windows[WindowOf(c)].h = Ask[c].w
    BY <2>2 DEF Along
  <2>4. Inside(windows[WindowOf(c)], req)
    <3>1. Inside(Created(c, Ask[c]), req)
      BY DEF MarksFit
    <3> QED BY <3>1, <2>3 DEF Inside, Created
  <2>5. scene' = Painted(scene, cells, d)
    BY <1>8, <1>10, <2>1, <2>4
  <2>6. \A k \in cells : k \in Visible /\ scene'[k] = d
    <3>1. cells \subseteq Visible
      BY DEF MarkCells
    <3> HIDE DEF cells
    <3> QED BY <2>5, <3>1, PaintedCells
  <2>7. \A k \in MarkCells(windows[WindowOf(c)], req) : scene'[k] \in Clients
    BY <1>10, <2>6
  <2> QED BY <2>7, <1>5, <1>6 DEF Shown
<1>11. CASE c = d
  BY <1>4, <1>6, <1>7, <1>10, <1>11 DEF Along
<1>12. CASE c # d
  BY <1>4, <1>6, <1>7, <1>9, <1>12 DEF Along
<1> QED BY <1>11, <1>12

LEMMA CreateAlong ==
    ASSUME WinTypes, NEW c \in Clients, Along(c), ~wild',
           inbox # <<>>, inbox' = Tail(inbox), UNCHANGED <<doing, mail, lost>>,
           NEW d \in Clients,
           Head(inbox) = [kind |-> "CWIN", from |-> d, ask |-> Ask[d]],
           HandleCreate(d, Ask[d])
    PROVE  ~wild /\ Along(c)'
<1>1. Head(inbox).kind = "CWIN" /\ Head(inbox).from = d
  OBVIOUS
<1>2. Head(inbox) = inbox[1]
  BY BoxPopped
<1>3. (Creates(1, c) <=> c = d) /\ ~Draws(1, c)
  BY <1>1, <1>2 DEF Creates, Draws
<1>4. /\ CreatedOnce(c)' /\ CreatedFirst(c)'
      /\ ToCreate(c) <=> ToCreate(c)' \/ c = d
      /\ ToDraw(c)' <=> ToDraw(c)
      /\ c = d => ~ToCreate(c)'
  BY <1>3, PoppedAlong DEF Along
<1> DEFINE win == Created(d, Ask[d])
<1>5. PICK n \in Nat :
         /\ wild' = wild /\ win \in Window /\ win.pid = d
         /\ DOMAIN windows = 1 .. n - 1 /\ DOMAIN windows' = 1 .. n
         /\ \A j \in 1 .. n - 1 : windows'[j] = windows[j]
         /\ windows'[n] = win
         /\ scene' = DrawWindow(scene, win)
         /\ top' = Painted(top, WindowCells(win), d)
         /\ n >= 1
  <2>1. Len(windows) \in Nat
    BY LenProperties DEF WinTypes
  <2>2. Len(windows) + 1 \in Nat /\ Len(windows) + 1 >= 1
    BY <2>1
  <2> HIDE DEF win
  <2> QED BY <2>2, CreateAppends DEF win
<1>6. /\ n \in 1 .. n
      /\ \A j \in 1 .. n - 1 : j \in 1 .. n /\ j # n
      /\ \A j \in 1 .. n : j \in 1 .. n - 1 \/ j = n
  BY <1>5
<1>7. win.w = Ask[d].h /\ win.h = Ask[d].w
  BY DEF Created
<1> HIDE DEF win
<1>8. (\A i \in DOMAIN windows :
          windows[i].pid = c => windows[i].w = Ask[c].h /\ windows[i].h = Ask[c].w)'
  BY <1>5, <1>6, <1>7 DEF Along
<1>9. CASE c = d
  <2>1. ToCreate(c) /\ ~ToCreate(c)' /\ doing[c] # "create"
    BY <1>4, <1>9 DEF Along
  <2>2. doing[c] = "wait" => ToDraw(c)'
    BY <2>1, <1>4 DEF Along
  <2>3. WindowOf(c)' # 0
    <3>1. n \in {i \in DOMAIN windows' : windows'[i].pid = c}
      BY <1>5, <1>6, <1>9
    <3>2. {i \in DOMAIN windows' : windows'[i].pid = c} \in SUBSET (Nat \ {0})
      BY <1>5
    <3>3. FirstOf({i \in DOMAIN windows' : windows'[i].pid = c}) # 0
      BY <3>1, <3>2, FirstFound
    <3> QED BY <3>3 DEF WindowOf
  <2> QED BY <2>1, <2>2, <2>3, <1>4, <1>5, <1>8 DEF Along
<1>10. CASE c # d
  <2>1. WindowOf(c)' = WindowOf(c)
    <3>1. {i \in DOMAIN windows' : windows'[i].pid = c} =
             {i \in DOMAIN windows : windows[i].pid = c}
      BY <1>5, <1>6, <1>10
    <3> QED BY <3>1 DEF WindowOf
  <2>2. ASSUME doing[c] = "wait", mail[c] = 0, ~ToDraw(c)
        PROVE  Shown(c)'
    <3>1. WindowOf(c) # 0 /\ Shown(c)
      BY <2>2 DEF Along
    <3>2. WindowOf(c) \in DOMAIN windows
      BY <3>1, WindowOfFinds
    <3>3. windows'[WindowOf(c)] = windows[WindowOf(c)]
      BY <3>2, <1>5
    <3>4. PICK req \in Marks :
             \A k \in MarkCells(windows[WindowOf(c)], req) : top[k] = c => scene[k] \in Clients
      BY <3>1 DEF Shown
    <3>5. ASSUME NEW k \in MarkCells(windows[WindowOf(c)], req), top'[k] = c
          PROVE  scene'[k] \in Clients
      <4>1. k \in Visible
        BY DEF MarkCells
      <4>2. top[k] = c /\ scene'[k] = scene[k]
        BY <4>1, <3>5, <1>5, <1>10, DrawnOver
      <4> QED BY <4>2, <3>4
    <3> QED BY <3>3, <3>5, <2>1 DEF Shown
  <2> QED BY <2>1, <2>2, <1>4, <1>5, <1>8, <1>10 DEF Along
<1> QED BY <1>9, <1>10

LEMMA AlongStep ==
    ASSUME WinTypes, MarksFit, AllAlong, [Next]_allVars
    PROVE  AllAlong'
<1> SUFFICES ASSUME ~lost', ~wild', NEW c \in Clients
             PROVE  Along(c)'
  BY DEF AllAlong
<1>1. CASE PopMsg
  <2>1. inbox # <<>> /\ inbox' = Tail(inbox) /\ doing' = doing
    BY <1>1, PopSteps
  <2>2. ASSUME NEW move \in Moves, NEW left \in BOOLEAN,
               Head(inbox) = [kind |-> "MOUMOV", move |-> move, left |-> left],
               HandleMove(move, left)
        PROVE  Along(c)'
    <3>1. wild' = wild
      BY <2>2, MoveDrags DEF HandleMove
    <3>2. ~lost
      BY <2>2 DEF HandleMove, SendMov
    <3>3. Along(c)
      BY <3>1, <3>2 DEF AllAlong
    <3> QED BY <3>3, <2>1, <2>2, MoveAlong
  <2>3. ASSUME NEW d \in Clients, NEW req \in Marks,
               Head(inbox) = [kind |-> "DREQ", from |-> d, req |-> req],
               HandleDraw(d, req), UNCHANGED <<mail, lost>>
        PROVE  Along(c)'
    <3>1. wild' = wild
      BY <2>3 DEF HandleDraw, wmVars
    <3>2. Along(c)
      BY <3>1, <2>3 DEF AllAlong
    <3> QED BY <3>2, <2>1, <2>3, DrawAlong
  <2>4. ASSUME NEW d \in Clients,
               Head(inbox) = [kind |-> "CWIN", from |-> d, ask |-> Ask[d]],
               HandleCreate(d, Ask[d]), UNCHANGED <<mail, lost>>
        PROVE  Along(c)'
    <3>1. ~wild
      BY <2>4, CreateAppends
    <3>2. Along(c)
      BY <3>1, <2>4 DEF AllAlong
    <3> QED BY <3>2, <2>1, <2>4, CreateAlong
  <2> QED BY <1>1, <2>2, <2>3, <2>4, PopSteps
<1>2. CASE ~PopMsg
  <2>1. \/ \E d \in Clients : CreateWindow(d) \/ ReadMov(d)
        \/ \E d \in Clients, req \in Marks : Draw(d, req)
        \/ \E move \in Moves, left \in BOOLEAN : MouseMoves(move, left)
        \/ UNCHANGED allVars
    BY <1>2 DEF Next
  <2>2. wild' = wild /\ (lost' = lost \/ lost')
    BY <2>1 DEF CreateWindow, ReadMov, Draw, MouseMoves, Post, wmVars, allVars
  <2>3. Along(c)
    BY <2>2 DEF AllAlong
  <2> QED BY <2>1, <2>3, ClientsAlong
<1> QED BY <1>1, <1>2

\* A program's drawing is in its window as it lies, when everybody is at rest: each
\* movement the manager has drawn the window for is in the program's box until it
\* draws again, and its drawing is in the manager's box until it is made.
THEOREM ClientsShow == ASSUME MarksFit PROVE Spec => []ClientShown
<1>1. Init => AllAlong
  <2> SUFFICES ASSUME Init, NEW c \in Clients PROVE Along(c)
    BY DEF AllAlong
  <2>1. inbox = <<>> /\ doing[c] = "create" /\ windows = FirstWindows
    BY DEF Init
  <2>2. DOMAIN inbox = {}
    BY <2>1
  <2>3. \A i \in DOMAIN windows : windows[i].pid # c
    <3>1. \A i \in DOMAIN FirstWindows : FirstWindows[i].pid = 0
      <4> DEFINE W == [x : Coordinate, y : Coordinate, w : Coordinate, h : Coordinate, pid : {0}]
      <4>1. FirstWindows \in Seq(W)
        BY WindowAssumption
      <4>2. \A r \in W : r.pid = 0
        OBVIOUS
      <4> HIDE DEF W
      <4>3. \A i \in DOMAIN FirstWindows : FirstWindows[i] \in W
        BY <4>1, LenProperties, ElementOfSeq
      <4> QED BY <4>2, <4>3
    <3> QED BY <3>1, <2>1, WindowAssumption
  <2>4. WindowOf(c) = 0
    <3>1. {i \in DOMAIN windows : windows[i].pid = c} = {}
      BY <2>3
    <3> QED BY <3>1 DEF WindowOf, FirstOf
  <2> QED BY <2>1, <2>2, <2>3, <2>4
          DEF Along, CreatedOnce, CreatedFirst, ToCreate, ToDraw
<1>2. AllAlong => ClientShown
  <2> SUFFICES ASSUME AllAlong, ~lost, ~wild, NEW c \in Clients, AtRest(c)
               PROVE  Shown(c)
    BY DEF ClientShown, Shown
  <2>1. DOMAIN inbox = {} /\ doing[c] = "wait" /\ mail[c] = 0
    BY DEF AtRest
  <2>2. ~ToDraw(c)
    BY <2>1 DEF ToDraw
  <2> QED BY <2>1, <2>2 DEF AllAlong, Along
<1>3. WinTypes /\ AllAlong /\ [Next]_allVars => WinTypes' /\ AllAlong'
  BY WinTypesStep, AlongStep
<1> QED BY <1>1, <1>2, <1>3, WinTypesInit, PTL DEF Spec

=============================================================================
