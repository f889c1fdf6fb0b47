-------------------------------- MODULE Console --------------------------------
(***************************************************************************)
(* The text screen (src/foki/vga.c, text mode) with the line editor of the *)
(* keyboard (src/foki/ps2kbd.c): what a user sees of the line being typed, *)
(* while other programs print, one SC_PRINTCHAR after the other.           *)
(*                                                                         *)
(* The editor keeps a count of characters; printChar keeps a pointer into  *)
(* the screen and knows nothing of the editor.  A backspace takes one off  *)
(* the count, and the pointer wherever printChar thinks the last character *)
(* is.                                                                     *)
(***************************************************************************)
EXTENDS FiniteSetsExt, Integers, Sequences

CONSTANTS
    Width, Height,  \* 80 and 25
    VideoMem,       \* VIDEO_MEM_ADDR in cells of two bytes
    Glyphs,         \* characters that show
    Sizes           \* sizes of the buffers programs read into

ASSUME ConsoleAssumption ==
    /\ Width \in Nat \ {0} /\ Height \in Nat \ {0}
    /\ VideoMem \in Nat
    /\ Sizes \subseteq Nat \ {0}
    /\ {"blank", "newline", "backspace", "bus"} \cap Glyphs = {}

VARIABLES
    screen,                 \* the character in each cell of the frame buffer
    video_mem,              \* the pointer, as a number of cells into it
    typed,                  \* the line: its length is processBufferPos
    processBufferSize,
    processWaitingForInput,
    mixed                   \* history: since the line is empty no more,
                            \* others have printed or asked for input, or a backspace
                            \* has fallen on several blanks at the seam

vars == <<screen, video_mem, typed, processBufferSize, processWaitingForInput, mixed>>

-----------------------------------------------------------------------------

(***************************************************************************)
(* printChar                                                               *)
(***************************************************************************)

Cells == 0 .. Width * Height - 1
Visible == Glyphs \cup {"blank"}

\* Beside the frame buffer no memory answers: what is read there is no blank.
Cell(i) == IF i \in Cells THEN screen[i] ELSE "bus"

\* A character at place i; beside the frame buffer it is lost.
With(i, c) == [k \in Cells |-> IF k = i THEN c ELSE screen[k]]

\* The remainder in C, which has the sign of the pointer.
Column == IF video_mem >= 0 THEN video_mem % Width ELSE -((-video_mem) % Width)

\* The test for the beginning of a row takes the address itself, and the frame
\* buffer does not begin at a multiple of a row: it holds in a column in the
\* middle of the screen, the seam.
AtSeam == (VideoMem + video_mem) % Width = 0

\* What if the pointer stayed on that character.
BackOntoGlyph == Max({0} \cup {i \in Cells : i <= video_mem /\ screen[i] # "blank"})

\* Back over all the blanks, the one under the pointer first, to the one after
\* the last character that shows.
BackOverBlanks == 1 + Max({-1} \cup {i \in Cells : i <= video_mem /\ screen[i] # "blank"})

\* Where a backspace leads.
Back == IF Cell(video_mem - 1) = "blank" /\ AtSeam
        THEN IF Cell(video_mem) = "blank" THEN BackOverBlanks ELSE video_mem + 1
        ELSE video_mem - 1

\* What if the rows only moved up.
RowsUpOnly(cells) ==
    [i \in Cells |-> IF i + Width \in Cells THEN cells[i + Width] ELSE cells[i]]

\* All rows move up and the last one is cleared.
RowsUp(cells) ==
    [i \in Cells |-> IF i + Width \in Cells THEN cells[i + Width] ELSE "blank"]

\* The end of printChar: a pointer beyond the last cell scrolls.
Settle(cells, at) ==
    IF at >= Width * Height
    THEN screen' = RowsUp(cells) /\ video_mem' = Width * (Height - 1)
    ELSE screen' = cells /\ video_mem' = at

printChar(c) ==
    \/ c = "newline" /\ Settle(screen, video_mem + Width - Column)
    \/ c = "backspace" /\ Settle(With(Back, "blank"), Back)
    \/ c \in Visible /\ Settle(With(video_mem, c), video_mem + 1)

-----------------------------------------------------------------------------

(***************************************************************************)
(* The keyboard                                                            *)
(***************************************************************************)

editor == <<typed, processBufferSize, processWaitingForInput>>

Enter ==
    /\ processWaitingForInput
    /\ processWaitingForInput' = FALSE
    /\ typed' = <<>>
    /\ processBufferSize' = 0
    /\ mixed' = FALSE
    /\ printChar("newline")

\* The last two cells before the seam are blank: a backspace takes both.
BlanksAtSeam == AtSeam /\ Cell(video_mem - 1) = "blank" /\ Cell(video_mem - 2) = "blank"

Return ==
    /\ processWaitingForInput
    /\ typed # <<>>
    /\ typed' = SubSeq(typed, 1, Len(typed) - 1)
    /\ printChar("backspace")
    /\ mixed' = (Len(typed) > 1 /\ (mixed \/ BlanksAtSeam))
    /\ UNCHANGED <<processBufferSize, processWaitingForInput>>

Character(c) ==
    /\ processWaitingForInput
    /\ Len(typed) < processBufferSize - 1
    /\ typed' = Append(typed, c)
    /\ printChar(c)
    /\ UNCHANGED <<processBufferSize, processWaitingForInput, mixed>>

-----------------------------------------------------------------------------

(***************************************************************************)
(* Programs                                                                *)
(***************************************************************************)

\* A request for input.  One that overtakes another goes on with its count.
SC_GETUINPUT(size) ==
    /\ processBufferSize' = size
    /\ processWaitingForInput' = TRUE
    /\ mixed' = (typed # <<>>)
    /\ UNCHANGED <<screen, video_mem, typed>>

\* A string is printed in as many system calls as it has characters, so others
\* may come between them.
SC_PRINTCHAR(c) ==
    /\ printChar(c)
    /\ mixed' = (typed # <<>>)
    /\ UNCHANGED editor

\* SC_CLEARSCR and the switch back to text mode.
clearScr ==
    /\ screen' = [i \in Cells |-> "blank"]
    /\ video_mem' = 0
    /\ mixed' = (typed # <<>>)
    /\ UNCHANGED editor

-----------------------------------------------------------------------------

\* kmain clears the screen before it prints anything.
Init ==
    /\ screen = [i \in Cells |-> "blank"]
    /\ video_mem = 0
    /\ typed = <<>>
    /\ processBufferSize = 0
    /\ processWaitingForInput = FALSE
    /\ mixed = FALSE

Next ==
    \/ Enter
    \/ Return
    \/ \E c \in Visible : Character(c)
    \/ \E size \in Sizes : SC_GETUINPUT(size)
    \/ \E c \in Visible \cup {"newline"} : SC_PRINTCHAR(c)
    \/ clearScr

Spec == Init /\ [][Next]_vars

-----------------------------------------------------------------------------

(***************************************************************************)
(* Properties                                                              *)
(***************************************************************************)

\* What the user sees is what the reader gets: the cells before the pointer hold
\* the line, through wrapped rows, scrolling and backspaces (ps2kbd.c:66,
\* ps2kbd.c:98 and printChar), unless others have printed since it was begun or
\* a backspace has fallen on several blanks at the seam.
EchoShown ==
    ~mixed => \A i \in 1 .. Len(typed) :
                 video_mem - i \in Cells =>
                    screen[video_mem - i] = typed[Len(typed) + 1 - i]

\* Nothing is left from the pointer on, whatever was printed, erased, scrolled
\* or cleared: the loop of the backspace (vga.c:61) looks under the pointer first
\* and would otherwise go forward.
BlankAhead == \A i \in Cells : i >= video_mem => screen[i] = "blank"

=============================================================================
