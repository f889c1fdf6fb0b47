--------------------------- MODULE WindowManager ----------------------------
(***************************************************************************)
(* The window manager (src/user/apps/wm) and programs that draw in windows *)
(* (src/user/apps/launcher.c): the messages between them, the windows[]    *)
(* table, the mouse cursor with the background saved from under it, and    *)
(* the screen as the kernel's putPixel (src/foki/vga.c) addresses it.      *)
(*                                                                         *)
(* Boxes keep the order of messages and lose those that do not fit, which  *)
(* nobody is told: the module Desktop shows that of the kernel.            *)
(***************************************************************************)
EXTENDS Integers, Sequences, FiniteSetsExt

CONSTANTS
    Width, Height,      \* of the screen (1024, 768)
    Word,               \* values of a uint16_t (2^16)
    TitleHeight,        \* of a title bar (12)
    CursorSize,         \* <<width, height>> of the cursor (12, 19)
    PowerSize,          \* <<width, height>> of the power button (18, 23)
    MaxWindows,         \* MAX_WINDOWS_COUNT (255)
    QueueSize,          \* PROCESS_MSG_QUEUE_SIZE (16)
    Desk, Title, Body, Cursor,  \* what a cell shows, or else the pid that drew on it
    FirstWindows,       \* the windows main() creates for itself
    Clients,            \* programs with a window, pids other than 0
    Ask,                \* per client: the window it creates
    Marks,              \* the requests clients draw with
    Moves,              \* mouse movements <<x, y>>
    Start,              \* mouseX and mouseY at first
    MaxEvents           \* bound: mouse messages

Coordinate == 0 .. Word - 1

ASSUME WindowAssumption ==
    /\ Width \in Nat \ {0} /\ Height \in Nat \ {0} /\ Word \in Nat \ {0}
    /\ TitleHeight \in Nat
    /\ Clients \subseteq Nat \ {0}
    /\ FirstWindows \in Seq([x : Coordinate, y : Coordinate,
                              w : Coordinate, h : Coordinate, pid : {0}])
    /\ Ask \in [Clients -> [x : Coordinate, y : Coordinate, w : Coordinate, h : Coordinate]]
    /\ Marks \subseteq [x1 : Coordinate, y1 : Coordinate, x2 : Coordinate, y2 : Coordinate]
    /\ Moves \subseteq Int \X Int
    /\ Start \in (0 .. Width - 1) \X (0 .. Height - 1)

VARIABLES
    windows,        \* windows[0 .. windowCount - 1], as a sequence
    mouse,          \* <<mouseX, mouseY>>
    mouseBG,        \* what was under the cursor
    screen,         \* the visible cells of the frame buffer
    inbox,          \* the window manager's messages
    mail,           \* per client, the number of WINMOVs it has not read
    doing,          \* per client: "create", "draw" or "wait"
    off,            \* shut down
    events,         \* mouse messages so far
    scene,          \* history: the screen as it were without a cursor
    top,            \* history: the pid of the window last drawn at each cell, or 0
    covered,        \* history: cells last drawn while they lay under the cursor
    lost,           \* history: some message did not fit
    wild            \* history: drawWindow(-1) has read what lies before windows[]

wmVars == <<windows, mouse, mouseBG, screen, off, scene, top, covered, wild>>
clientVars == <<mail, doing>>
allVars == <<wmVars, inbox, clientVars, events, lost>>

-----------------------------------------------------------------------------

(***************************************************************************)
(* The frame buffer                                                        *)
(***************************************************************************)

Visible == 0 .. Width * Height - 1

\* putPixel: no coordinate is checked, so a row that is too long goes on in the
\* next one.  Programs pass coordinates as uint16_t.
At(x, y) == y * Width + x
Coord(n) == n % Word

\* The cells of a square, and those of the screen that are drawn.
Square(x, y, w, h) ==
    {At(Coord(x) + i, Coord(y) + j) : i \in 0 .. w - 1, j \in 0 .. h - 1} \cap Visible
Painted(picture, cells, colour) == [k \in Visible |-> IF k \in cells THEN colour ELSE picture[k]]

TitleCells(win) == Square(win.x, win.y - TitleHeight, win.w, TitleHeight)
BodyCells(win) == Square(win.x, win.y, win.w, win.h)
WindowCells(win) == TitleCells(win) \cup BodyCells(win)

\* drawWindow; all windows have the same colours.
DrawWindow(picture, win) ==
    Painted(Painted(picture, TitleCells(win), Title), BodyCells(win), Body)

CursorCells(pos) ==
    {At(pos[1] + j, pos[2] + i) : j \in 0 .. CursorSize[1] - 1, i \in 0 .. CursorSize[2] - 1}
        \cap Visible

\* The cursor taken away.
Restored(picture) ==
    [k \in Visible |-> IF k \in DOMAIN mouseBG THEN mouseBG[k] ELSE picture[k]]

-----------------------------------------------------------------------------

(***************************************************************************)
(* Messages                                                                *)
(***************************************************************************)

\* A message into the window manager's box, from the kernel.
Post(msg) ==
    IF Len(inbox) < QueueSize
    THEN inbox' = Append(inbox, msg) /\ UNCHANGED lost
    ELSE lost' = TRUE /\ UNCHANGED inbox

\* What if a movement straight up or down were not reported.
ReportedAcross(win, move) == win.pid # 0 /\ move[1] # 0

\* Who has a window, other than the manager itself, is told that it has moved.
Reported(win, move) == win.pid # 0

SendMov(win, move) ==
    IF ~Reported(win, move) THEN UNCHANGED <<mail, lost>>
    ELSE IF mail[win.pid] < QueueSize
    THEN mail' = [mail EXCEPT ![win.pid] = @ + 1] /\ UNCHANGED lost
    ELSE lost' = TRUE /\ UNCHANGED mail

-----------------------------------------------------------------------------

(***************************************************************************)
(* The window manager: one message                                         *)
(***************************************************************************)

FirstOf(S) == IF S = {} THEN 0 ELSE Min(S)

\* checkWindowHover: the first window whose title bar the point is in.
Hover(wins, pos) ==
    FirstOf({i \in DOMAIN wins :
                /\ wins[i].x <= pos[1] /\ pos[1] <= wins[i].x + wins[i].w
                /\ wins[i].y - TitleHeight <= pos[2] /\ pos[2] <= wins[i].y})

\* getIndexFromPID.
WindowOf(pid) == FirstOf({i \in DOMAIN windows : windows[i].pid = pid})

Clamped(n, size) == IF n < 0 THEN 0 ELSE IF n > size - 1 THEN size - 1 ELSE n
Moved(pos, move) == <<Clamped(pos[1] + move[1], Width), Clamped(pos[2] - move[2], Height)>>

\* checkPower.
OverPower(pos) ==
    /\ PowerSize[1] > 0
    /\ 3 <= pos[1] /\ pos[1] <= PowerSize[1]
    /\ 3 <= pos[2] /\ pos[2] <= PowerSize[2]

\* What if the window under the cursor were looked for once it has moved.
GripAfter(move) == Hover(windows, Moved(mouse, move))

\* The window that a movement with the button down drags.
Grip(move) == Hover(windows, mouse)

\* What if the background were saved before the window is drawn.
SavedFromStale(drawn, pos) == [k \in CursorCells(pos) |-> Restored(screen)[k]]

\* The background under the cursor's new place.
SavedFrom(drawn, pos) == [k \in CursorCells(pos) |-> drawn[k]]

Dragged(win, move) == [win EXCEPT !.x = Coord(@ + move[1]), !.y = Coord(@ - move[2])]

\* The mouse has moved: the cursor is taken away, the window it drags drawn at its
\* new place, and the cursor drawn at its own.
HandleMove(move, left) ==
    LET i == IF left THEN Grip(move) ELSE 0
        win == Dragged(windows[i], move)
        drawn == IF i = 0 THEN Restored(screen) ELSE DrawWindow(Restored(screen), win)
        pos == Moved(mouse, move)
    IN  IF left /\ OverPower(mouse)
        THEN /\ off' = TRUE
             /\ screen' = Restored(screen)
             /\ UNCHANGED <<windows, mouse, mouseBG, scene, top, covered, wild, mail, lost>>
        ELSE /\ windows' = IF i = 0 THEN windows ELSE [windows EXCEPT ![i] = win]
             /\ IF i = 0 THEN UNCHANGED <<mail, lost>> ELSE SendMov(win, move)
             /\ mouse' = pos
             /\ mouseBG' = SavedFrom(drawn, pos)
             /\ screen' = Painted(drawn, CursorCells(pos), Cursor)
             /\ scene' = IF i = 0 THEN scene ELSE DrawWindow(scene, win)
             /\ top' = IF i = 0 THEN top ELSE Painted(top, WindowCells(win), win.pid)
             /\ covered' = IF i = 0 THEN covered ELSE covered \ WindowCells(win)
             /\ UNCHANGED <<off, wild>>

\* What is drawn in between is drawn over the cursor, and the background saved
\* from under it is not told.
DrawnUnder(cells) == (covered \ cells) \cup (cells \cap CursorCells(mouse))

\* The cells of a pixel or a line: a line keeps to the height of its end.
MarkCells(win, req) ==
    {At(Coord(win.x + x), Coord(win.y + req.y2)) :
        x \in Min({req.x1, req.x2}) .. Max({req.x1, req.x2})} \cap Visible

Inside(win, req) == /\ req.x1 <= win.w /\ req.x2 <= win.w
                    /\ req.y1 <= win.h /\ req.y2 <= win.h

HandleDraw(pid, req) ==
    LET win == windows[WindowOf(pid)]
    IN  IF WindowOf(pid) = 0 \/ ~Inside(win, req)
        THEN UNCHANGED wmVars
        ELSE /\ screen' = Painted(screen, MarkCells(win, req), pid)
             /\ scene' = Painted(scene, MarkCells(win, req), pid)
             /\ covered' = DrawnUnder(MarkCells(win, req))
             /\ UNCHANGED <<windows, mouse, mouseBG, off, top, wild>>

\* The call passes height and width the way window.h declares them; window.c
\* takes them the other way round.
Created(pid, ask) == [x |-> ask.x, y |-> ask.y, w |-> ask.h, h |-> ask.w, pid |-> pid]

\* A table that is full makes it drawWindow(-1).
HandleCreate(pid, ask) ==
    LET win == Created(pid, ask)
    IN  IF Len(windows) >= MaxWindows
        THEN /\ wild' = TRUE
             /\ UNCHANGED <<windows, mouse, mouseBG, screen, off, scene, top, covered>>
        ELSE /\ windows' = Append(windows, win)
             /\ screen' = DrawWindow(screen, win)
             /\ scene' = DrawWindow(scene, win)
             /\ top' = Painted(top, WindowCells(win), pid)
             /\ covered' = DrawnUnder(WindowCells(win))
             /\ UNCHANGED <<mouse, mouseBG, off, wild>>

\* A round of the loop of main() that finds a message.
PopMsg ==
    /\ ~off
    /\ inbox # <<>>
    /\ inbox' = Tail(inbox)
    /\ LET msg == Head(inbox)
       IN  \/ msg.kind = "MOUMOV" /\ HandleMove(msg.move, msg.left)
           \/ msg.kind = "DREQ" /\ HandleDraw(msg.from, msg.req) /\ UNCHANGED <<mail, lost>>
           \/ msg.kind = "CWIN" /\ HandleCreate(msg.from, msg.ask) /\ UNCHANGED <<mail, lost>>
    /\ UNCHANGED <<doing, events>>

-----------------------------------------------------------------------------

(***************************************************************************)
(* The clients and the mouse                                               *)
(***************************************************************************)

CreateWindow(c) ==
    /\ ~off
    /\ doing[c] = "create"
    /\ Post([kind |-> "CWIN", from |-> c, ask |-> Ask[c]])
    /\ doing' = [doing EXCEPT ![c] = "draw"]
    /\ UNCHANGED <<wmVars, mail, events>>

Draw(c, req) ==
    /\ ~off
    /\ doing[c] = "draw"
    /\ Post([kind |-> "DREQ", from |-> c, req |-> req])
    /\ doing' = [doing EXCEPT ![c] = "wait"]
    /\ UNCHANGED <<wmVars, mail, events>>

\* popMsg finds a WINMOV: the window has been drawn anew, empty.
ReadMov(c) ==
    /\ ~off
    /\ doing[c] = "wait"
    /\ mail[c] > 0
    /\ mail' = [mail EXCEPT ![c] = @ - 1]
    /\ doing' = [doing EXCEPT ![c] = "draw"]
    /\ UNCHANGED <<wmVars, inbox, events, lost>>

MouseMoves(move, left) ==
    /\ ~off
    /\ events < MaxEvents
    /\ events' = events + 1
    /\ Post([kind |-> "MOUMOV", move |-> move, left |-> left])
    /\ UNCHANGED <<wmVars, clientVars>>

FirstScene ==
    [k \in Visible |->
        IF \E i \in DOMAIN FirstWindows : k \in BodyCells(FirstWindows[i]) THEN Body
        ELSE IF \E i \in DOMAIN FirstWindows : k \in TitleCells(FirstWindows[i]) THEN Title
        ELSE Desk]

Init ==
    /\ windows = FirstWindows
    /\ mouse = Start
    /\ scene = FirstScene
    /\ mouseBG = [k \in CursorCells(Start) |-> FirstScene[k]]
    /\ screen = Painted(FirstScene, CursorCells(Start), Cursor)
    /\ inbox = <<>>
    /\ mail = [c \in Clients |-> 0]
    /\ doing = [c \in Clients |-> "create"]
    /\ events = 0
    /\ top = [k \in Visible |-> 0]
    /\ covered = {}
    /\ off = FALSE
    /\ lost = FALSE
    /\ wild = FALSE

Next ==
    \/ PopMsg
    \/ \E c \in Clients : CreateWindow(c) \/ ReadMov(c)
    \/ \E c \in Clients, req \in Marks : Draw(c, req)
    \/ \E move \in Moves, left \in BOOLEAN : MouseMoves(move, left)

Spec == Init /\ [][Next]_allVars

-----------------------------------------------------------------------------

\* The cursor hides only what it lies on, and what it hides comes back: every
\* other cell shows what programs have drawn last, except one that was drawn while
\* the cursor lay on it, which the old background will overwrite.
OnlyCursorHides ==
    ~wild /\ ~off =>
        /\ \A k \in Visible \ (CursorCells(mouse) \cup covered) : screen[k] = scene[k]
        /\ \A k \in CursorCells(mouse) \ covered : mouseBG[k] = scene[k]

\* The window that the cursor has by its title bar while the button is down is still
\* had after the movement, so the next movement drags it on, until the cursor is
\* stopped by an edge of the screen, the window's position wraps or an older window
\* gets the grip.
DragKeepsHold ==
    [][\A i \in DOMAIN windows, move \in Moves :
          /\ Hover(windows, mouse) = i /\ ~OverPower(mouse)
          /\ inbox # <<>> /\ inbox' = Tail(inbox)
          /\ Head(inbox) = [kind |-> "MOUMOV", move |-> move, left |-> TRUE]
          /\ Moved(mouse, move) = <<mouse[1] + move[1], mouse[2] - move[2]>>
          /\ {windows[i].x + move[1], windows[i].y - move[2]} \subseteq 0 .. Word - 1
          => Hover(windows, mouse)' \in 1 .. i]_allVars

AtRest(c) == inbox = <<>> /\ doing[c] = "wait" /\ mail[c] = 0

\* When nothing is under way to or from a program any more, its drawing is in its
\* window as it lies now, whatever movements came before, between and after the
\* window's creation, its drawing and its drawing it again: unless a message was
\* lost, the table was full, another window has been drawn over it, or another
\* program has drawn there, which no window on top keeps it from.
ClientShown ==
    ~lost /\ ~wild =>
        \A c \in Clients :
            AtRest(c) =>
                \E req \in Marks :
                    \A k \in MarkCells(windows[WindowOf(c)], req) :
                        top[k] = c => scene[k] \in Clients

=============================================================================
