---------------------------- MODULE ConsoleProofs ----------------------------
(***************************************************************************)
(* Proofs about the text screen under the line editor (module Console),    *)
(* for every size of the screen, every place of the frame buffer and every *)
(* length of a line: nothing is ever left from the pointer on, and what is *)
(* shown before it is the line being typed.                                *)
(***************************************************************************)
EXTENDS Console, SequenceTheorems, FiniteSetTheorems, WellFoundedInduction, TLAPS

-----------------------------------------------------------------------------

(***************************************************************************)
(* The screen                                                              *)
(***************************************************************************)

Size == Width * Height

LEMMA SizeIs ==
    /\ Size \in Nat /\ Size >= Width /\ Width \in Nat /\ Width > 0
    /\ Width * (Height - 1) = Size - Width
    /\ Cells = 0 .. Size - 1
<1>1. Width \in Nat /\ Width > 0 /\ Height \in Nat /\ Height > 0
  BY ConsoleAssumption
<1>2. Width * Height \in Nat
  BY <1>1
<1>3. Width * (Height - 1) = Width * Height - Width
  BY <1>1
<1>4. Width * (Height - 1) \in Nat
  BY <1>1
<1>5. Size >= Width
  BY <1>1, <1>2, <1>3, <1>4 DEF Size
<1> QED BY <1>1, <1>2, <1>3, <1>5 DEF Size, Cells

\* The pointer can leave the screen at its beginning only.
ScreenTypes ==
    /\ screen \in [Cells -> Visible]
    /\ video_mem \in Int /\ video_mem < Size
    /\ typed \in Seq(Visible)

\* Sets of cells, or of one before them, have a greatest element.
LEMMA MaxIsGreatest ==
    ASSUME NEW n \in Nat, NEW S \in SUBSET (-1 .. n), S # {}
    PROVE  /\ Max(S) \in S
           /\ \A y \in S : y <= Max(S)
<1> DEFINE T == {(k + 1) .. n : k \in S}
           R == StrictSubsetOrdering(Nat)
<1>1. IsWellFoundedOn(R, FiniteSubsetsOf(Nat))
  BY FS_StrictSubsetOrderingWellFounded
<1>2. T \subseteq FiniteSubsetsOf(Nat) /\ T # {}
  <2>1. ASSUME NEW k \in S
        PROVE  IsFiniteSet((k + 1) .. n) /\ (k + 1) .. n \in SUBSET Nat
    <3>1. k + 1 \in Nat
      OBVIOUS
    <3> QED BY <3>1, FS_Interval
  <2> QED BY <2>1 DEF FiniteSubsetsOf
<1>3. PICK X \in T : \A Y \in T : ~(<<Y, X>> \in R)
  <2> HIDE DEF R, T
  <2> QED BY <1>1, <1>2, WFMin
<1>4. PICK x \in S : X = (x + 1) .. n
  BY <1>3
<1>5. \A y \in S : y <= x
  <2>1. SUFFICES ASSUME NEW y \in S, x < y PROVE FALSE
    OBVIOUS
  <2>2. (y + 1) .. n \subseteq X /\ (y + 1) .. n # X
    <3>1. y \in X /\ y \notin (y + 1) .. n
      BY <1>4, <2>1
    <3>2. (y + 1) .. n \subseteq X
      BY <1>4, <2>1
    <3> QED BY <3>1, <3>2
  <2>3. X \in SUBSET Nat /\ (y + 1) .. n \in SUBSET Nat
    BY <1>4
  <2>4. <<(y + 1) .. n, X>> \in R
    BY <2>2, <2>3 DEF StrictSubsetOrdering
  <2> QED BY <2>4, <1>3
<1>6. \A y \in S : x >= y
  <2>1. ASSUME NEW y \in S PROVE x >= y
    <3>1. y <= x /\ y \in Int /\ x \in Int
      BY <1>5
    <3> QED BY <3>1
  <2> QED BY <2>1
<1>7. Max(S) \in S /\ \A y \in S : Max(S) >= y
  BY <1>6 DEF Max
<1>8. ASSUME NEW y \in S PROVE y <= Max(S)
  <2>1. Max(S) >= y
    BY <1>7
  <2>2. Max(S) \in -1 .. n
    BY <1>7
  <2>3. y \in -1 .. n
    BY <1>8
  <2> QED BY <2>1, <2>2, <2>3
<1> QED BY <1>7, <1>8

\* A new line starts further on.
LEMMA LineFurther ==
    ASSUME video_mem \in Int
    PROVE  video_mem + Width - Column \in Int /\ video_mem + Width - Column > video_mem
<1>1. Width \in Nat /\ Width > 0
  BY SizeIs
<1>2. CASE video_mem >= 0
  <2>1. video_mem % Width \in 0 .. Width - 1
    BY <1>1, <1>2
  <2> QED BY <2>1, <1>1, <1>2 DEF Column
<1>3. CASE ~(video_mem >= 0)
  <2>1. -video_mem \in Int
    OBVIOUS
  <2>2. (-video_mem) % Width \in 0 .. Width - 1
    BY <1>1, <2>1
  <2>3. Column \in Int /\ Column <= 0
    BY <2>2, <1>1, <1>3 DEF Column
  <2> QED BY <2>3, <1>1
<1> QED BY <1>2, <1>3

\* Where a backspace leads: to the last character that shows, or one back. The
\* branch that goes forward is never taken, as there is nothing at the pointer.
LEMMA BackIs ==
    ASSUME ScreenTypes, BlankAhead
    PROVE  /\ Back \in Int /\ Back < Size /\ Back <= video_mem
           /\ \A i \in Cells : i >= Back /\ i # Back => screen[i] = "blank"
           /\ ~BlanksAtSeam => Back = video_mem - 1
<1>1. /\ video_mem \in Int /\ video_mem < Size /\ Size \in Nat /\ Cells = 0 .. Size - 1
      /\ screen \in [Cells -> Visible]
  BY SizeIs DEF ScreenTypes
<1>2. CASE ~(Cell(video_mem - 1) = "blank" /\ AtSeam)
  <2>1. Back = video_mem - 1
    BY <1>2 DEF Back
  <2>2. ASSUME NEW i \in Cells, i >= video_mem - 1, i # video_mem - 1
        PROVE  screen[i] = "blank"
    <3>1. i >= video_mem
      BY <1>1, <2>2
    <3> QED BY <3>1 DEF BlankAhead
  <2> QED BY <2>1, <2>2, <1>1
<1>3. CASE Cell(video_mem - 1) = "blank" /\ AtSeam
  <2> DEFINE shows == {i \in Cells : i <= video_mem /\ screen[i] # "blank"}
             S == {-1} \cup shows
  <2>1. video_mem - 1 \in Cells /\ screen[video_mem - 1] = "blank"
    BY <1>3 DEF Cell
  <2>2. video_mem \in Cells
    BY <2>1, <1>1
  <2>3. screen[video_mem] = "blank" /\ Cell(video_mem) = "blank"
    <3>1. video_mem >= video_mem
      BY <1>1
    <3> QED BY <3>1, <2>2 DEF BlankAhead, Cell
  <2>4. Back = 1 + Max(S)
    BY <1>3, <2>3 DEF Back, BackOverBlanks
  <2>5. S \in SUBSET (-1 .. Size) /\ S # {}
    BY <1>1
  <2>6. /\ Max(S) \in S /\ \A y \in S : y <= Max(S)
    <3> HIDE DEF S
    <3> QED BY <2>5, <1>1, MaxIsGreatest
  <2>7. Max(S) \in Int
    <3> HIDE DEF S
    <3>1. Max(S) \in -1 .. Size
      BY <2>5, <2>6
    <3> HIDE DEF Size
    <3> QED BY <3>1, <1>1
  <2> DEFINE m == Max(S)
  <2> HIDE DEF m
  <2>8. m \in Int /\ m >= -1 /\ m <= video_mem - 2
    <3>1. m = -1 \/ (m \in Cells /\ m <= video_mem /\ screen[m] # "blank")
      BY <2>6 DEF m
    <3>2. (m # video_mem /\ m # video_mem - 1) \/ m = -1
      BY <3>1, <2>1, <2>3
    <3> QED BY <3>1, <3>2, <2>1, <1>1
  <2>9. Back = 1 + m
    BY <2>4 DEF m
  <2>10. ASSUME NEW i \in Cells, i >= Back, i # Back
         PROVE  screen[i] = "blank"
    <3>1. i > m
      BY <2>8, <2>9, <2>10, <1>1
    <3>2. i \notin S
      <4> SUFFICES ASSUME i \in S PROVE FALSE
        OBVIOUS
      <4>1. i <= m
        BY <2>6 DEF m
      <4> QED BY <4>1, <3>1, <2>8, <1>1
    <3>3. CASE i <= video_mem
      BY <3>2, <3>3
    <3>4. CASE ~(i <= video_mem)
      <4>1. i >= video_mem
        BY <3>4, <1>1
      <4> QED BY <4>1 DEF BlankAhead
    <3> QED BY <3>3, <3>4
  <2>11. ASSUME ~BlanksAtSeam
         PROVE  m = video_mem - 2
    <3>1. Cell(video_mem - 2) # "blank"
      BY <1>3, <2>11 DEF BlanksAtSeam
    <3>2. CASE video_mem - 2 \in Cells
      <4>1. video_mem - 2 \in S
        BY <3>1, <3>2, <1>1 DEF Cell
      <4>2. video_mem - 2 <= m
        BY <4>1, <2>6 DEF m
      <4> QED BY <4>2, <2>8, <1>1
    <3>3. CASE video_mem - 2 \notin Cells
      <4>1. video_mem - 2 = -1
        BY <3>3, <2>1, <1>1
      <4> QED BY <4>1, <2>8, <1>1
    <3> QED BY <3>2, <3>3
  <2>12. Back \in Int /\ Back < Size /\ Back <= video_mem
    BY <2>8, <2>9, <1>1
  <2>13. ~BlanksAtSeam => Back = video_mem - 1
    BY <2>8, <2>9, <2>11, <1>1
  <2> QED BY <2>10, <2>12, <2>13
<1> QED BY <1>2, <1>3

-----------------------------------------------------------------------------

(***************************************************************************)
(* What printChar leaves                                                   *)
(***************************************************************************)

\* Cells painted up to a place, and the pointer put there.
LEMMA SettleBlank ==
    ASSUME NEW cells \in [Cells -> Visible], NEW at \in Int, Settle(cells, at),
           \A i \in Cells : i >= at => cells[i] = "blank"
    PROVE  /\ screen' \in [Cells -> Visible]
           /\ video_mem' \in Int /\ video_mem' < Size
           /\ \A i \in Cells : i >= video_mem' => screen'[i] = "blank"
<1>1. /\ Size \in Nat /\ Size >= Width /\ Width \in Nat /\ Width > 0
      /\ Width * (Height - 1) = Size - Width
      /\ Cells = 0 .. Size - 1
  BY SizeIs
<1>2. CASE at >= Width * Height
  <2>1. screen' = RowsUp(cells) /\ video_mem' = Size - Width
    BY <1>1, <1>2 DEF Settle
  <2>2. screen' \in [Cells -> Visible]
    BY <2>1 DEF RowsUp, Visible
  <2>3. ASSUME NEW i \in Cells, i >= Size - Width
        PROVE  screen'[i] = "blank"
    <3>1. i + Width \notin Cells
      BY <1>1, <2>3
    <3> QED BY <3>1, <2>1 DEF RowsUp
  <2>4. Size - Width \in Int /\ Size - Width < Size
    BY <1>1
  <2> QED BY <2>1, <2>2, <2>3, <2>4
<1>3. CASE ~(at >= Width * Height)
  <2>1. screen' = cells /\ video_mem' = at
    BY <1>3 DEF Settle
  <2>2. at < Size
    BY <1>1, <1>3 DEF Size
  <2> QED BY <2>1, <2>2
<1> QED BY <1>2, <1>3

LEMMA WithIs ==
    ASSUME ScreenTypes, NEW i \in Int, NEW c \in Visible
    PROVE  /\ With(i, c) \in [Cells -> Visible]
           /\ \A k \in Cells : With(i, c)[k] = IF k = i THEN c ELSE screen[k]
BY DEF With, ScreenTypes

\* A character is printed for the caller's own.
LEMMA PrintBlank ==
    ASSUME ScreenTypes, BlankAhead, NEW c \in Visible \cup {"newline", "backspace"}, printChar(c)
    PROVE  /\ screen' \in [Cells -> Visible]
           /\ video_mem' \in Int /\ video_mem' < Size
           /\ BlankAhead'
<1>1. /\ video_mem \in Int /\ screen \in [Cells -> Visible] /\ Cells \subseteq Int
  BY SizeIs DEF ScreenTypes
<1>2. ASSUME Settle(screen, video_mem + Width - Column)
      PROVE  /\ screen' \in [Cells -> Visible]
             /\ video_mem' \in Int /\ video_mem' < Size
             /\ BlankAhead'
  <2> DEFINE at == video_mem + Width - Column
  <2>1. at \in Int /\ at > video_mem
    BY <1>1, LineFurther
  <2> HIDE DEF at
  <2>2. ASSUME NEW i \in Cells, i >= at PROVE screen[i] = "blank"
    <3>1. i >= video_mem
      BY <1>1, <2>1, <2>2
    <3> QED BY <3>1 DEF BlankAhead
  <2>3. Settle(screen, at)
    BY <1>2 DEF at
  <2> QED BY <1>1, <2>1, <2>2, <2>3, SettleBlank DEF BlankAhead
<1>3. ASSUME Settle(With(Back, "blank"), Back)
      PROVE  /\ screen' \in [Cells -> Visible]
             /\ video_mem' \in Int /\ video_mem' < Size
             /\ BlankAhead'
  <2>1. Back \in Int /\ \A i \in Cells : i >= Back /\ i # Back => screen[i] = "blank"
    BY BackIs
  <2>2. "blank" \in Visible
    BY DEF Visible
  <2>3. /\ With(Back, "blank") \in [Cells -> Visible]
        /\ \A i \in Cells : i >= Back => With(Back, "blank")[i] = "blank"
    BY <2>1, <2>2, WithIs
  <2> HIDE DEF Back, With
  <2> QED BY <1>3, <2>1, <2>3, SettleBlank DEF BlankAhead
<1>4. ASSUME c \in Visible, Settle(With(video_mem, c), video_mem + 1)
      PROVE  /\ screen' \in [Cells -> Visible]
             /\ video_mem' \in Int /\ video_mem' < Size
             /\ BlankAhead'
  <2>1. With(video_mem, c) \in [Cells -> Visible]
    BY <1>1, <1>4, WithIs
  <2>2. ASSUME NEW i \in Cells, i >= video_mem + 1
        PROVE  With(video_mem, c)[i] = "blank"
    <3>1. i >= video_mem /\ i # video_mem
      BY <1>1, <2>2
    <3>2. screen[i] = "blank"
      BY <3>1 DEF BlankAhead
    <3> QED BY <3>1, <3>2, <1>1, <1>4, WithIs
  <2>3. video_mem + 1 \in Int
    BY <1>1
  <2> HIDE DEF With
  <2> QED BY <1>4, <2>1, <2>2, <2>3, SettleBlank DEF BlankAhead
<1> QED BY <1>2, <1>3, <1>4 DEF printChar

LEMMA ScreenStep ==
    ASSUME ScreenTypes, BlankAhead, [Next]_vars
    PROVE  ScreenTypes' /\ BlankAhead'
<1>1. ASSUME NEW c \in Visible \cup {"newline", "backspace"}, printChar(c),
             typed' \in Seq(Visible)
      PROVE  ScreenTypes' /\ BlankAhead'
  BY <1>1, PrintBlank DEF ScreenTypes
<1>2. CASE Enter
  <2>1. typed' \in Seq(Visible)
    BY <1>2, EmptySeq DEF Enter
  <2> QED BY <1>1, <1>2, <2>1 DEF Enter
<1>3. CASE Return
  <2>1. typed' = SubSeq(typed, 1, Len(typed) - 1)
    BY <1>3 DEF Return
  <2>2. typed \in Seq(Visible) /\ Len(typed) \in Nat
    BY LenProperties DEF ScreenTypes
  <2>3. \A i \in 1 .. Len(typed) - 1 : typed[i] \in Visible
    <3>1. ASSUME NEW i \in 1 .. Len(typed) - 1 PROVE typed[i] \in Visible
      <4>1. i \in 1 .. Len(typed)
        BY <2>2
      <4> QED BY <4>1, <2>2, ElementOfSeq
    <3> QED BY <3>1
  <2>4. typed' \in Seq(Visible)
    BY <2>1, <2>2, <2>3, SubSeqProperties
  <2> QED BY <1>1, <1>3, <2>4 DEF Return
<1>4. ASSUME NEW c \in Visible, Character(c)
      PROVE  ScreenTypes' /\ BlankAhead'
  <2>1. typed' \in Seq(Visible)
    BY <1>4, AppendProperties DEF Character, ScreenTypes
  <2> QED BY <1>1, <1>4, <2>1 DEF Character
<1>5. ASSUME NEW size, SC_GETUINPUT(size)
      PROVE  ScreenTypes' /\ BlankAhead'
  BY <1>5 DEF SC_GETUINPUT, ScreenTypes, BlankAhead
<1>6. ASSUME NEW c \in Visible \cup {"newline"}, SC_PRINTCHAR(c)
      PROVE  ScreenTypes' /\ BlankAhead'
  <2>1. typed' \in Seq(Visible)
    BY <1>6 DEF SC_PRINTCHAR, editor, ScreenTypes
  <2> QED BY <1>1, <1>6, <2>1 DEF SC_PRINTCHAR
<1>7. CASE clearScr
  <2>1. /\ screen' = [i \in Cells |-> "blank"] /\ video_mem' = 0 /\ typed' = typed
    BY <1>7 DEF clearScr, editor
  <2>2. 0 \in Int /\ 0 < Size
    BY SizeIs
  <2> QED BY <2>1, <2>2 DEF ScreenTypes, BlankAhead, Visible
<1>8. CASE UNCHANGED vars
  BY <1>8 DEF vars, ScreenTypes, BlankAhead
<1> QED BY <1>2, <1>3, <1>4, <1>5, <1>6, <1>7, <1>8 DEF Next

LEMMA ScreenInit == Init => ScreenTypes /\ BlankAhead
<1> SUFFICES ASSUME Init PROVE ScreenTypes /\ BlankAhead
  OBVIOUS
<1>1. /\ screen = [i \in Cells |-> "blank"] /\ video_mem = 0 /\ typed = <<>>
  BY DEF Init
<1>2. 0 \in Int /\ 0 < Size
  BY SizeIs
<1> QED BY <1>1, <1>2, EmptySeq DEF ScreenTypes, BlankAhead, Visible

\* Nothing is left from the pointer on: characters are printed at the pointer and
\* move it on, a new line and a scrolled one leave it before blanks, and a
\* backspace goes back to the last character or over blanks.
THEOREM NothingAhead == Spec => []BlankAhead
<1>1. ScreenTypes /\ BlankAhead /\ [Next]_vars => (ScreenTypes /\ BlankAhead)'
  BY ScreenStep
<1> QED BY <1>1, ScreenInit, PTL DEF Spec

-----------------------------------------------------------------------------

(***************************************************************************)
(* The line                                                                *)
(***************************************************************************)

\* The first L characters of a line stand before a place.
Stands(cells, at, line, L) ==
    \A i \in 1 .. L : at - i \in Cells => cells[at - i] = line[L + 1 - i]

LEMMA EchoStands == EchoShown <=> (~mixed => Stands(screen, video_mem, typed, Len(typed)))
BY DEF EchoShown, Stands

\* What stands before the pointer is scrolled with it.
LEMMA SettleStands ==
    ASSUME NEW cells \in [Cells -> Visible], NEW at \in Int, at <= Size, Settle(cells, at),
           NEW line, NEW L \in Nat, Stands(cells, at, line, L)
    PROVE  Stands(screen', video_mem', line, L)
<1>1. /\ Size \in Nat /\ Size >= Width /\ Width \in Nat /\ Width > 0
      /\ Width * (Height - 1) = Size - Width
      /\ Cells = 0 .. Size - 1
  BY SizeIs
<1>2. CASE at >= Width * Height
  <2>1. screen' = RowsUp(cells) /\ video_mem' = Size - Width /\ at = Size
    BY <1>1, <1>2 DEF Settle, Size
  <2>2. ASSUME NEW i \in 1 .. L, video_mem' - i \in Cells
        PROVE  screen'[video_mem' - i] = line[L + 1 - i]
    <3>1. (video_mem' - i) + Width = at - i /\ at - i \in Cells
      BY <1>1, <2>1, <2>2
    <3>2. screen'[video_mem' - i] = cells[at - i]
      BY <2>1, <2>2, <3>1 DEF RowsUp
    <3> QED BY <3>1, <3>2 DEF Stands
  <2> QED BY <2>2 DEF Stands
<1>3. CASE ~(at >= Width * Height)
  BY <1>3 DEF Settle
<1> QED BY <1>2, <1>3

LEMMA CharacterStands ==
    ASSUME ScreenTypes, EchoShown, ~mixed, NEW c \in Visible, Character(c)
    PROVE  Stands(screen', video_mem', typed', Len(typed'))
<1> DEFINE cells == With(video_mem, c)
           L == Len(typed)
<1>1. /\ video_mem \in Int /\ video_mem < Size /\ Size \in Int /\ Cells \subseteq Int
      /\ typed \in Seq(Visible) /\ L \in Nat
  BY SizeIs, LenProperties DEF ScreenTypes
<1>2. /\ typed' = Append(typed, c) /\ printChar(c)
      /\ Settle(cells, video_mem + 1)
  BY ConsoleAssumption DEF Character, printChar, Visible
<1>3. /\ Len(typed') = L + 1 /\ typed'[L + 1] = c
      /\ \A k \in 1 .. L : typed'[k] = typed[k]
  BY <1>1, <1>2, AppendProperties
<1>4. /\ cells \in [Cells -> Visible]
      /\ \A k \in Cells : cells[k] = IF k = video_mem THEN c ELSE screen[k]
  BY <1>1, WithIs
<1>5. Stands(screen, video_mem, typed, L)
  BY EchoStands
<1> HIDE DEF cells, L
<1>6. ASSUME NEW i \in 1 .. L + 1, (video_mem + 1) - i \in Cells
      PROVE  cells[(video_mem + 1) - i] = typed'[(L + 1) + 1 - i]
  <2>1. CASE i = 1
    <3>1. (video_mem + 1) - i = video_mem /\ (L + 1) + 1 - i = L + 1
      BY <1>1, <2>1
    <3> QED BY <3>1, <1>3, <1>4, <1>6
  <2>2. CASE i # 1
    <3>1. /\ i - 1 \in 1 .. L /\ (video_mem + 1) - i = video_mem - (i - 1)
          /\ (L + 1) + 1 - i = L + 1 - (i - 1) /\ L + 1 - (i - 1) \in 1 .. L
          /\ video_mem - (i - 1) # video_mem
      BY <1>1, <2>2
    <3>2. screen[video_mem - (i - 1)] = typed[L + 1 - (i - 1)]
      BY <3>1, <1>5, <1>6 DEF Stands
    <3> QED BY <3>1, <3>2, <1>3, <1>4, <1>6
  <2> QED BY <2>1, <2>2
<1>7. Stands(cells, video_mem + 1, typed', L + 1)
  BY <1>6 DEF Stands
<1>8. video_mem + 1 \in Int /\ video_mem + 1 <= Size /\ L + 1 \in Nat
  BY <1>1
<1> QED BY <1>2, <1>3, <1>4, <1>7, <1>8, SettleStands

LEMMA ReturnStands ==
    ASSUME ScreenTypes, BlankAhead, EchoShown, ~mixed, ~BlanksAtSeam, Return
    PROVE  Stands(screen', video_mem', typed', Len(typed'))
<1> DEFINE cells == With(video_mem - 1, "blank")
           L == Len(typed)
<1>1. /\ video_mem \in Int /\ video_mem < Size /\ Size \in Int /\ Cells \subseteq Int
      /\ typed \in Seq(Visible) /\ L \in Nat /\ L >= 1
  BY SizeIs, LenProperties, EmptySeq DEF ScreenTypes, Return
<1>2. /\ typed' = SubSeq(typed, 1, L - 1)
      /\ Settle(With(Back, "blank"), Back)
  BY ConsoleAssumption DEF Return, printChar, Visible
<1>3. Settle(cells, video_mem - 1)
  BY <1>2, BackIs
<1>4. /\ Len(typed') = L - 1
      /\ \A k \in 1 .. L - 1 : typed'[k] = typed[k]
  <2>1. ASSUME NEW k \in 1 .. L - 1 PROVE typed[k] \in Visible
    <3>1. k \in 1 .. L
      BY <1>1
    <3> QED BY <3>1, <1>1, ElementOfSeq
  <2>2. 1 \in Int /\ L - 1 \in Int
    BY <1>1
  <2> HIDE DEF L
  <2>3. /\ Len(typed') = IF 1 <= L - 1 THEN (L - 1) - 1 + 1 ELSE 0
        /\ \A k \in 1 .. (L - 1) - 1 + 1 : typed'[k] = typed[1 + k - 1]
    BY <1>2, <2>1, <2>2, SubSeqProperties
  <2>4. Len(typed') = L - 1
    BY <2>3, <1>1
  <2>5. ASSUME NEW k \in 1 .. L - 1 PROVE typed'[k] = typed[k]
    <3>1. k \in 1 .. (L - 1) - 1 + 1 /\ 1 + k - 1 = k
      BY <1>1
    <3> QED BY <3>1, <2>3
  <2> QED BY <2>4, <2>5
<1>5. /\ cells \in [Cells -> Visible]
      /\ \A k \in Cells : cells[k] = IF k = video_mem - 1 THEN "blank" ELSE screen[k]
  <2>1. video_mem - 1 \in Int /\ "blank" \in Visible
    BY <1>1 DEF Visible
  <2> QED BY <2>1, WithIs
<1>6. Stands(screen, video_mem, typed, L)
  BY EchoStands
<1> HIDE DEF cells, L
<1>7. ASSUME NEW i \in 1 .. L - 1, (video_mem - 1) - i \in Cells
      PROVE  cells[(video_mem - 1) - i] = typed'[(L - 1) + 1 - i]
  <2>1. /\ i + 1 \in 1 .. L /\ (video_mem - 1) - i = video_mem - (i + 1)
        /\ (L - 1) + 1 - i = L + 1 - (i + 1) /\ L + 1 - (i + 1) \in 1 .. L - 1
        /\ video_mem - (i + 1) # video_mem - 1
    BY <1>1
  <2>2. screen[video_mem - (i + 1)] = typed[L + 1 - (i + 1)]
    BY <2>1, <1>6, <1>7 DEF Stands
  <2> QED BY <2>1, <2>2, <1>4, <1>5, <1>7
<1>8. Stands(cells, video_mem - 1, typed', L - 1)
  BY <1>7 DEF Stands
<1>9. video_mem - 1 \in Int /\ video_mem - 1 <= Size /\ L - 1 \in Nat
  BY <1>1
<1> QED BY <1>3, <1>4, <1>5, <1>8, <1>9, SettleStands

LEMMA EmptyStands ==
    ASSUME NEW cells, NEW at, NEW line, NEW L, L = 0
    PROVE  Stands(cells, at, line, L)
BY DEF Stands

LEMMA EchoStep ==
    ASSUME ScreenTypes, BlankAhead, EchoShown, [Next]_vars
    PROVE  EchoShown'
<1>1. EchoShown' <=> (~mixed' => Stands(screen', video_mem', typed', Len(typed')))
  BY DEF EchoShown, Stands
<1>2. ASSUME typed' = <<>> PROVE EchoShown'
  <2>1. Len(typed') = 0
    BY <1>2
  <2> QED BY <2>1, <1>1, EmptyStands
<1>3. CASE Enter
  BY <1>2, <1>3 DEF Enter
<1>4. CASE Return
  <2>1. typed \in Seq(Visible) /\ Len(typed) \in Nat /\ Len(typed) >= 1
    BY <1>4, LenProperties, EmptySeq DEF ScreenTypes, Return
  <2>2. CASE Len(typed) > 1
    <3>1. mixed' = (mixed \/ BlanksAtSeam)
      BY <1>4, <2>2 DEF Return
    <3> QED BY <3>1, <1>1, <1>4, ReturnStands
  <2>3. CASE ~(Len(typed) > 1)
    <3> DEFINE L == Len(typed)
    <3>1. L - 1 = 0
      <4> HIDE DEF L
      <4>1. L \in Nat /\ L >= 1 /\ ~(L > 1)
        BY <2>1, <2>3 DEF L
      <4> QED BY <4>1
    <3>2. typed' = SubSeq(typed, 1, 0)
      BY <1>4, <3>1 DEF Return
    <3>3. typed' = <<>>
      BY <3>2, SubSeqEmpty
    <3> QED BY <3>3, <1>2
  <2> QED BY <2>2, <2>3
<1>5. ASSUME NEW c \in Visible, Character(c)
      PROVE  EchoShown'
  <2>1. mixed' = mixed
    BY <1>5 DEF Character
  <2> QED BY <2>1, <1>1, <1>5, CharacterStands
<1>6. ASSUME typed' = typed, mixed' = (typed # <<>>)
      PROVE  EchoShown'
  <2>1. CASE typed = <<>>
    BY <1>2, <1>6, <2>1
  <2>2. CASE typed # <<>>
    BY <1>1, <1>6, <2>2
  <2> QED BY <2>1, <2>2
<1>7. CASE UNCHANGED vars
  BY <1>7 DEF vars, EchoShown
<1> QED BY <1>3, <1>4, <1>5, <1>6, <1>7
        DEF Next, SC_GETUINPUT, SC_PRINTCHAR, clearScr, editor

\* The line on the screen is the line the reader gets, however it wraps, scrolls and
\* is taken back, as long as nobody else prints: each key moves the pointer and the
\* end of the line alike, but for a backspace on several blanks at the seam.
THEOREM LineShown == Spec => []EchoShown
<1>1. Init => EchoShown
  <2> SUFFICES ASSUME Init PROVE EchoShown
    OBVIOUS
  <2>1. typed = <<>>
    BY DEF Init
  <2>2. Len(typed) = 0
    BY <2>1
  <2> QED BY <2>2, EchoStands, EmptyStands
<1>2. /\ ScreenTypes /\ BlankAhead /\ EchoShown /\ [Next]_vars
      => (ScreenTypes /\ BlankAhead /\ EchoShown)'
  BY ScreenStep, EchoStep
<1> QED BY <1>1, <1>2, ScreenInit, PTL DEF Spec

=============================================================================
