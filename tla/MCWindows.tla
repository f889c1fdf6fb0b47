------------------------------ MODULE MCWindows -----------------------------
(***************************************************************************)
(* The window manager for TLC: a screen of a few cells, a window of the    *)
(* manager's own and one for each program, all on the same place.          *)
(***************************************************************************)
EXTENDS WindowManager

MCCursorSize == <<1, 2>>
MCPowerSize == <<3, 3>>
MCFirstWindows == <<[x |-> 0, y |-> 2, w |-> 1, h |-> 1, pid |-> 0]>>
MCAsk == [c \in Clients |-> [x |-> 1, y |-> 2, w |-> 2, h |-> 2]]

\* A line of two cells: a pixel is a line that ends where it starts.
MCMarks == {[x1 |-> 1, y1 |-> 0, x2 |-> 0, y2 |-> 1]}
MCMoves == {<<1, 0>>, <<-1, 1>>, <<0, 1>>, <<0, -1>>}
MCStart == <<2, 3>>

=============================================================================
