---------------------------- MODULE ScreenProofs ----------------------------
(***************************************************************************)
(* Proofs about Screen, for every size of the screen that the cursor       *)
(* registers can address and every sequence of calls.                      *)
(***************************************************************************)
EXTENDS Screen, SequenceTheorems, WellFoundedInduction, TLAPS

(* A nonempty set of natural numbers has a least element.                  *)
LEMMA LeastNat ==
  ASSUME NEW S, S \subseteq Nat, S # {}
  PROVE  \E x \in S : \A y \in S : x <= y
<1> DEFINE Less == {ss \in Nat \X Nat : ss[1] < ss[2]}
<1>1. OpToRel(<, Nat) = Less
  BY DEF OpToRel
<1>2. IsWellFoundedOn(Less, Nat)
  BY <1>1, NatLessThanWellFounded, Zenon
<1>3. \A a, b \in Nat : b < a => <<b, a>> \in Less
  BY DEF Less
<1> HIDE DEF Less
<1>4. PICK x \in S : \A y \in S : ~(<<y, x>> \in Less)
  BY <1>2, WFMin, Zenon
<1>5. ASSUME NEW y \in S, ~(x <= y) PROVE FALSE
  <2>1. x \in Nat /\ y \in Nat /\ y < x
    BY <1>5
  <2>2. <<y, x>> \in Less
    BY <1>3, <2>1
  <2> QED BY <1>4, <2>2
<1> QED BY <1>5

---------------------------------------------------------------------------
(* Arithmetic of rows, columns and registers.                              *)

(* Multiplication is monotone.                                             *)
LEMMA TimesMonotone ==
  ASSUME NEW a \in Nat, NEW b \in Nat, a <= b, NEW c \in Nat
  PROVE  a * c <= b * c /\ a * c \in Nat /\ b * c \in Nat
  BY SMT

(* The number of cells.                                                    *)
LEMMA SizeFacts ==
  /\ VGA_WIDTH \in Nat /\ VGA_WIDTH > 0 /\ VGA_HEIGHT \in Nat /\ VGA_HEIGHT > 1
  /\ BYTE \in Nat /\ BYTE > 0
  /\ SIZE \in Nat /\ SIZE > 0 /\ SIZE <= BYTE * BYTE
<1>1. VGA_WIDTH \in Nat /\ VGA_WIDTH > 0 /\ VGA_HEIGHT \in Nat /\ VGA_HEIGHT > 1
      /\ BYTE \in Nat /\ BYTE > 0 /\ SIZE <= BYTE * BYTE
  BY ScreenAssumption
<1>2. VGA_WIDTH * VGA_HEIGHT \in Nat /\ VGA_WIDTH * VGA_HEIGHT > 0
  BY <1>1, SMT
<1> QED BY <1>1, <1>2 DEF SIZE

(* The clamp of a coordinate.                                              *)
LEMMA ClampRange ==
  ASSUME NEW v \in Int, NEW limit \in Nat, limit > 0
  PROVE  Clamp(v, limit) \in 0 .. (limit - 1)
  BY SMT DEF Clamp

(* Row y, column x is a cell.                                              *)
LEMMA CellOf ==
  ASSUME NEW x \in 0 .. (VGA_WIDTH - 1), NEW y \in 0 .. (VGA_HEIGHT - 1)
  PROVE  y * VGA_WIDTH + x \in Cells
<1>1. VGA_WIDTH \in Nat /\ VGA_HEIGHT \in Nat /\ x \in Nat /\ y \in Nat
      /\ y <= VGA_HEIGHT - 1 /\ VGA_HEIGHT - 1 \in Nat /\ x <= VGA_WIDTH - 1
  BY SizeFacts, SMT
<1>2. y * VGA_WIDTH <= (VGA_HEIGHT - 1) * VGA_WIDTH /\ y * VGA_WIDTH \in Nat
  BY <1>1, TimesMonotone
<1>3. (VGA_HEIGHT - 1) * VGA_WIDTH = VGA_WIDTH * VGA_HEIGHT - VGA_WIDTH
  BY <1>1, SMT
<1>4. VGA_WIDTH * VGA_HEIGHT \in Int
  BY <1>1
<1> QED BY <1>1, <1>2, <1>3, <1>4, SMT DEF Cells, SIZE

(* Two byte registers hold a position below BYTE * BYTE and give it back.  *)
LEMMA RegistersHold ==
  ASSUME NEW p \in Nat, p < BYTE * BYTE
  PROVE  /\ p % BYTE \in 0 .. (BYTE - 1) /\ (p \div BYTE) % BYTE \in 0 .. (BYTE - 1)
         /\ (p % BYTE) + BYTE * ((p \div BYTE) % BYTE) = p
<1> DEFINE q == p \div BYTE
           r == p % BYTE
<1>1. BYTE \in Nat /\ BYTE > 0
  BY SizeFacts
<1>2. q \in Nat /\ r \in 0 .. (BYTE - 1) /\ p = BYTE * q + r
  BY <1>1, SMT
<1> HIDE DEF q, r
<1>3. q < BYTE
  <2>1. CASE q >= BYTE
    <3>1. BYTE * BYTE <= q * BYTE
      BY <1>1, <1>2, <2>1, TimesMonotone
    <3>2. q * BYTE = BYTE * q /\ BYTE * q \in Int /\ BYTE * BYTE \in Int
      BY <1>1, <1>2, SMT
    <3> QED BY <1>1, <1>2, <3>1, <3>2, SMT
  <2> QED BY <1>1, <1>2, <2>1, SMT
<1>4. q % BYTE = q
  BY <1>1, <1>2, <1>3, SMT
<1>5. q \in 0 .. (BYTE - 1) /\ r + BYTE * q = p
  BY <1>1, <1>2, <1>3, SMT
<1> QED BY <1>2, <1>4, <1>5 DEF q, r

---------------------------------------------------------------------------
(* The operations on the screen.                                           *)

(* A screen whose cursor points at one of its cells.                       *)
GoodScreen(s) ==
  /\ DOMAIN s.cells = Cells
  /\ s.lo \in 0 .. (BYTE - 1) /\ s.hi \in 0 .. (BYTE - 1)
  /\ VGA_GetCursorPosition(s) \in Cells

(* The registers hold the position they are set to.                        *)
LEMMA CursorAtGood ==
  ASSUME NEW s, NEW p \in Cells, DOMAIN s.cells = Cells
  PROVE  /\ GoodScreen(CursorAt(s, p))
         /\ VGA_GetCursorPosition(CursorAt(s, p)) = p
         /\ CursorAt(s, p).cells = s.cells
<1>1. p \in Nat /\ p < BYTE * BYTE
  <2>1. BYTE * BYTE \in Int
    BY SizeFacts
  <2> QED BY <2>1, SizeFacts, SMT DEF Cells
<1>2. /\ p % BYTE \in 0 .. (BYTE - 1) /\ (p \div BYTE) % BYTE \in 0 .. (BYTE - 1)
      /\ (p % BYTE) + BYTE * ((p \div BYTE) % BYTE) = p
  BY <1>1, RegistersHold
<1>3. PICK l, h : l = p % BYTE /\ h = (p \div BYTE) % BYTE
  OBVIOUS
<1>4. CursorAt(s, p) = [cells |-> s.cells, lo |-> l, hi |-> h]
  BY <1>3 DEF CursorAt
<1>5. l \in 0 .. (BYTE - 1) /\ h \in 0 .. (BYTE - 1) /\ l + BYTE * h = p
  BY <1>2, <1>3
<1> QED BY <1>4, <1>5 DEF GoodScreen, VGA_GetCursorPosition

(* VGA_SetCursor, with any coordinates.                                    *)
LEMMA SetCursorGood ==
  ASSUME NEW s, DOMAIN s.cells = Cells, NEW x \in Int, NEW y \in Int
  PROVE  /\ GoodScreen(VGA_SetCursor(s, x, y))
         /\ VGA_GetCursorPosition(VGA_SetCursor(s, x, y)) =
              Clamp(y, VGA_HEIGHT) * VGA_WIDTH + Clamp(x, VGA_WIDTH)
         /\ VGA_SetCursor(s, x, y).cells = s.cells
<1>1. /\ Clamp(x, VGA_WIDTH) \in 0 .. (VGA_WIDTH - 1)
      /\ Clamp(y, VGA_HEIGHT) \in 0 .. (VGA_HEIGHT - 1)
  BY SizeFacts, ClampRange
<1>2. PICK p : p = Clamp(y, VGA_HEIGHT) * VGA_WIDTH + Clamp(x, VGA_WIDTH)
  OBVIOUS
<1>3. p \in Cells /\ VGA_SetCursor(s, x, y) = CursorAt(s, p)
  BY <1>1, <1>2, CellOf DEF VGA_SetCursor
<1> QED BY <1>2, <1>3, CursorAtGood

(* A position splits into a row and a column.                              *)
LEMMA RowAndColumn ==
  ASSUME NEW p \in Nat
  PROVE  /\ p % VGA_WIDTH \in 0 .. (VGA_WIDTH - 1) /\ p \div VGA_WIDTH \in Nat
         /\ p = (p \div VGA_WIDTH) * VGA_WIDTH + (p % VGA_WIDTH)
  BY SizeFacts, SMT

(* The update of the cursor after a character.                             *)
LEMMA SetCursorToGood ==
  ASSUME NEW s, DOMAIN s.cells = Cells, NEW p \in Nat
  PROVE  GoodScreen(SetCursorTo(s, p)) /\ SetCursorTo(s, p).cells = s.cells
<1>1. p % VGA_WIDTH \in Int /\ p \div VGA_WIDTH \in Int
  BY RowAndColumn
<1> QED BY <1>1, SetCursorGood DEF SetCursorTo

(* Scrolling keeps the size of the screen and the cursor.                  *)
LEMMA ScrollGood ==
  ASSUME NEW s, NEW col, GoodScreen(s)
  PROVE  GoodScreen(scroll(s, col))
  BY DEF GoodScreen, scroll, scrolled, VGA_GetCursorPosition

(* VGA_Putc leaves the cursor on the screen, whatever the character.       *)
LEMMA PutGood ==
  ASSUME NEW s, NEW c, NEW col, GoodScreen(s)
  PROVE  GoodScreen(Put(s, c, col)) /\ GoodScreen(VGA_Putc(s, c, col))
<1>1. VGA_GetCursorPosition(s) \in Nat /\ VGA_GetCursorPosition(s) < SIZE
      /\ DOMAIN s.cells = Cells
  BY SizeFacts, SMT DEF GoodScreen, Cells
<1>2. PICK p : p = VGA_GetCursorPosition(s)
  OBVIOUS
<1>3. p \in Nat /\ p < SIZE /\ p \div VGA_WIDTH \in Nat
  BY <1>1, <1>2, RowAndColumn
<1>4. GoodScreen(Newline(s, col))
  <2>1. DOMAIN scroll(s, col).cells = Cells
    BY ScrollGood DEF GoodScreen
  <2>2. /\ VGA_HEIGHT - 1 \in Int /\ 0 \in Int /\ (p \div VGA_WIDTH) + 1 \in Int
    BY SizeFacts, <1>3
  <2>3. /\ GoodScreen(VGA_SetCursor(scroll(s, col), 0, VGA_HEIGHT - 1))
        /\ GoodScreen(VGA_SetCursor(s, 0, (p \div VGA_WIDTH) + 1))
    BY <1>1, <2>1, <2>2, SetCursorGood
  <2> QED BY <1>2, <2>3 DEF Newline
<1>5. GoodScreen(Backspace(s, col))
  <2>1. CASE p = 0
    BY <1>2, <2>1 DEF Backspace
  <2>2. CASE p # 0
    <3>1. PICK b : b = SetCursorTo(s, p - 1)
      OBVIOUS
    <3>2. p - 1 \in Nat
      BY <1>3, <2>2
    <3>3. GoodScreen(b)
      BY <1>1, <3>1, <3>2, SetCursorToGood
    <3>4. GoodScreen(WithCell(b, p - 1, Blank(col)))
      BY <3>3 DEF GoodScreen, WithCell, VGA_GetCursorPosition
    <3> QED BY <1>2, <2>2, <3>1, <3>4 DEF Backspace
  <2> QED BY <2>1, <2>2
<1>6. GoodScreen(Glyph(s, c, col))
  <2> DEFINE next == VGA_GetCursorPosition(s) + 1
             cells == [s.cells EXCEPT ![next - 1] = Cell(c, col)]
             w == [cells |-> IF BeyondLast(next) THEN scrolled(cells, col) ELSE cells,
                   lo |-> s.lo, hi |-> s.hi]
  <2>1. Glyph(s, c, col) = SetCursorTo(w, next)
    BY DEF Glyph
  <2>2. DOMAIN cells = Cells /\ DOMAIN scrolled(cells, col) = Cells
    BY <1>1 DEF scrolled
  <2> HIDE DEF cells
  <2>3. DOMAIN w.cells = Cells
    BY <2>2
  <2>4. next \in Nat
    BY <1>1
  <2> HIDE DEF w, next
  <2> QED BY <2>1, <2>3, <2>4, SetCursorToGood
<1>7. GoodScreen(Put(s, c, col))
  <2>1. CASE c = NL
    BY <1>4, <2>1 DEF Put, NL, TAB, BS
  <2>2. CASE c = TAB
    BY <2>2 DEF Put, NL, TAB, BS
  <2>3. CASE c = BS
    BY <1>5, <2>3 DEF Put, NL, TAB, BS
  <2>4. CASE c # NL /\ c # TAB /\ c # BS
    BY <1>6, <2>4 DEF Put
  <2> QED BY <2>1, <2>2, <2>3, <2>4
<1>8. VGA_Putc(s, c, col) = Put(s, c, col)
  BY <1>1, SizeFacts, SMT DEF VGA_Putc
<1> QED BY <1>7, <1>8

---------------------------------------------------------------------------
(* rmline.                                                                 *)

(* The screens that writing k spaces, one after the other, passes through. *)
SpacesFrom(a, col, k, g) ==
  g = [n \in 0 .. k |-> IF n = 0 THEN a ELSE VGA_Putc(g[n - 1], " ", col)]

(* There are such screens for every k: the recursion in rmline defines a   *)
(* function.                                                               *)
LEMMA SpacesExist ==
  ASSUME NEW a, NEW col, NEW k \in Nat
  PROVE  \E g : SpacesFrom(a, col, k, g)
<1> DEFINE Missing == {n \in Nat : ~\E g : SpacesFrom(a, col, n, g)}
<1>1. SUFFICES ASSUME Missing # {} PROVE FALSE
  OBVIOUS
<1>2. PICK n \in Missing : \A m \in Missing : n <= m
  BY <1>1, LeastNat, Zenon
<1>3. n \in Nat /\ ~\E g : SpacesFrom(a, col, n, g)
  OBVIOUS
<1>4. CASE n = 0
  <2>1. PICK g : g = [i \in 0 .. 0 |-> a]
    OBVIOUS
  <2>2. \A i \in 0 .. 0 : i = 0 /\ g[i] = a
    BY <2>1, SMT
  <2>3. \A i \in 0 .. 0 : g[i] = IF i = 0 THEN a ELSE VGA_Putc(g[i - 1], " ", col)
    BY <2>2
  <2>4. SpacesFrom(a, col, 0, g)
    BY <2>1, <2>3 DEF SpacesFrom
  <2> QED BY <1>3, <1>4, <2>4
<1>5. CASE n # 0
  <2>1. n - 1 \in Nat /\ ~(n <= n - 1)
    BY <1>3, <1>5
  <2>2. n - 1 \notin Missing
    BY <1>2, <2>1
  <2>3. PICK g : SpacesFrom(a, col, n - 1, g)
    BY <2>1, <2>2
  <2>4. PICK h : h = [i \in 0 .. n |-> IF i = n THEN VGA_Putc(g[n - 1], " ", col) ELSE g[i]]
    OBVIOUS
  <2>5. \A i \in 0 .. (n - 1) : g[i] = IF i = 0 THEN a ELSE VGA_Putc(g[i - 1], " ", col)
    BY <2>3 DEF SpacesFrom
  <2>6. \A i \in 0 .. (n - 1) : h[i] = g[i] /\ i \in 0 .. n
    <3>1. \A i \in 0 .. (n - 1) : i \in 0 .. n /\ i # n
      BY <1>3, SMT
    <3> QED BY <2>4, <3>1
  <2>7. \A i \in 0 .. n : h[i] = IF i = 0 THEN a ELSE VGA_Putc(h[i - 1], " ", col)
    <3> SUFFICES ASSUME NEW i \in 0 .. n
                 PROVE  h[i] = IF i = 0 THEN a ELSE VGA_Putc(h[i - 1], " ", col)
      OBVIOUS
    <3>1. CASE i = n
      <4>1. n - 1 \in 0 .. (n - 1)
        BY <2>1, SMT
      <4>2. h[n - 1] = g[n - 1]
        BY <2>6, <4>1
      <4>3. h[n] = VGA_Putc(g[n - 1], " ", col)
        BY <2>4, <3>1
      <4> QED BY <1>5, <3>1, <4>2, <4>3
    <3>2. CASE i # n /\ i = 0
      <4>1. i \in 0 .. (n - 1)
        BY <1>3, <3>2, SMT
      <4> QED BY <2>5, <2>6, <3>2, <4>1
    <3>3. CASE i # n /\ i # 0
      <4>1. i \in 0 .. (n - 1) /\ i - 1 \in 0 .. (n - 1)
        BY <1>3, <3>3, SMT
      <4> QED BY <2>5, <2>6, <3>3, <4>1
    <3> QED BY <3>1, <3>2, <3>3
  <2>8. SpacesFrom(a, col, n, h)
    BY <2>4, <2>7 DEF SpacesFrom
  <2> QED BY <1>3, <2>8
<1> QED BY <1>4, <1>5

(* What rmline computes: VGA_WIDTH steps of that loop, then the cursor     *)
(* goes back to the start of the row.                                      *)
LEMMA RmlineUnfolds ==
  ASSUME NEW s, NEW col
  PROVE  LET y == VGA_GetCursorPosition(s) \div VGA_WIDTH
         IN  \E g : /\ SpacesFrom(VGA_SetCursor(s, 0, y), col, VGA_WIDTH, g)
                    /\ rmline(s, col) = VGA_SetCursor(g[VGA_WIDTH], 0, y)
<1> DEFINE y == VGA_GetCursorPosition(s) \div VGA_WIDTH
           a == VGA_SetCursor(s, 0, y)
           spaces == CHOOSE g : g = [n \in 0 .. VGA_WIDTH |->
                       IF n = 0 THEN a ELSE VGA_Putc(g[n - 1], " ", col)]
<1>1. rmline(s, col) = VGA_SetCursor(spaces[VGA_WIDTH], 0, y)
  BY DEF rmline
<1> HIDE DEF y, a
<1>2. \E g : g = [n \in 0 .. VGA_WIDTH |->
                       IF n = 0 THEN a ELSE VGA_Putc(g[n - 1], " ", col)]
  <2>1. \E g : SpacesFrom(a, col, VGA_WIDTH, g)
    BY SpacesExist, SizeFacts
  <2> QED BY <2>1 DEF SpacesFrom
<1>3. SpacesFrom(a, col, VGA_WIDTH, spaces)
  BY <1>2, Zenon DEF SpacesFrom
<1> HIDE DEF spaces
<1> QED BY <1>1, <1>3 DEF y, a

(* A property of screens that a space keeps holds after the loop.          *)
LEMMA SpacesGood ==
  ASSUME NEW a, NEW col, GoodScreen(a), NEW k \in Nat, NEW g, SpacesFrom(a, col, k, g)
  PROVE  \A n \in 0 .. k : GoodScreen(g[n])
<1> DEFINE Bad == {n \in 0 .. k : ~GoodScreen(g[n])}
<1>1. SUFFICES ASSUME Bad # {} PROVE FALSE
  OBVIOUS
<1>2. PICK n \in Bad : \A m \in Bad : n <= m
  <2>1. Bad \subseteq Nat
    BY SMT
  <2> QED BY <1>1, <2>1, LeastNat, Zenon
<1>3. n \in 0 .. k /\ n \in Nat /\ ~GoodScreen(g[n])
  BY SMT
<1>4. g[n] = IF n = 0 THEN a ELSE VGA_Putc(g[n - 1], " ", col)
  BY <1>3 DEF SpacesFrom
<1>5. n # 0
  BY <1>3, <1>4
<1>6. n - 1 \in 0 .. k /\ ~(n <= n - 1)
  BY <1>3, <1>5, SMT
<1>7. GoodScreen(g[n - 1])
  BY <1>2, <1>6
<1> QED BY <1>3, <1>4, <1>5, <1>7, PutGood

(* Erasing a line leaves the cursor on the screen.                         *)
LEMMA RmlineGood ==
  ASSUME NEW s, NEW col, GoodScreen(s)
  PROVE  GoodScreen(rmline(s, col))
<1>1. PICK y : y = VGA_GetCursorPosition(s) \div VGA_WIDTH
  OBVIOUS
<1>2. y \in Int /\ 0 \in Int /\ DOMAIN s.cells = Cells
  BY <1>1, RowAndColumn, SizeFacts, SMT DEF GoodScreen, Cells
<1>3. PICK g : /\ SpacesFrom(VGA_SetCursor(s, 0, y), col, VGA_WIDTH, g)
               /\ rmline(s, col) = VGA_SetCursor(g[VGA_WIDTH], 0, y)
  BY <1>1, RmlineUnfolds
<1>4. GoodScreen(VGA_SetCursor(s, 0, y))
  BY <1>2, SetCursorGood
<1>5. VGA_WIDTH \in Nat /\ VGA_WIDTH \in 0 .. VGA_WIDTH
  BY SizeFacts
<1>6. GoodScreen(g[VGA_WIDTH])
  BY <1>3, <1>4, <1>5, SpacesGood
<1>7. DOMAIN g[VGA_WIDTH].cells = Cells
  BY <1>6 DEF GoodScreen
<1> QED BY <1>2, <1>3, <1>7, SetCursorGood

---------------------------------------------------------------------------
(* The invariant.  Before Init_VGA the registers hold what the BIOS left   *)
(* and nothing prints.                                                     *)
SilentBefore == ~ready => call = "none" /\ todo = <<>> /\ fmt = <<>>

ScreenInv == TypeOK /\ CursorOnScreen /\ SilentBefore

(* A step of a call that is running, or that does not print, which leaves  *)
(* the colour alone.                                                       *)
LEMMA ScreenOnly ==
  ASSUME ScreenInv, ready, GoodScreen(screen'), ready' = ready, shape' = shape,
         color' = color, call' = call, temp' = temp
  PROVE  ScreenInv'
  BY DEF ScreenInv, TypeOK, CursorOnScreen, SilentBefore, GoodScreen

(* A step that changes neither screen nor colours.                         *)
LEMMA SameScreen ==
  ASSUME ScreenInv, ready, screen' = screen, ready' = ready, color' = color,
         shape'.start \in 0 .. 255, shape'.end \in 0 .. 255,
         call' \in {call, "VGA_Putc", "kprintf", "sys_write"}, temp' = temp
  PROVE  ScreenInv'
  BY DEF ScreenInv, TypeOK, CursorOnScreen, SilentBefore

(* Init_VGA puts the cursor on the screen wherever the BIOS left it.       *)
LEMMA InitVGAKeeps ==
  ASSUME ScreenInv, Init_VGA
  PROVE  ScreenInv'
<1>1. PICK c : c = VGA_Clear(screen)
  OBVIOUS
<1>2. DOMAIN c.cells = Cells
  BY <1>1 DEF VGA_Clear
<1>3. GoodScreen(screen')
  <2>1. screen' = VGA_SetCursor(c, 0, 0)
    BY <1>1 DEF Init_VGA
  <2>2. GoodScreen(VGA_SetCursor(c, 0, 0))
    BY <1>2, SetCursorGood
  <2> QED BY <2>1, <2>2
<1>4. LIGHT_RED \in 0 .. 255 /\ LIGHT_GREEN \in 0 .. 255
  BY SMT DEF LIGHT_RED, LIGHT_GREEN
<1>5. shape'.start = 14 /\ shape'.end = 15
  BY DEF Init_VGA
<1>6. shape'.start \in 0 .. 255 /\ shape'.end \in 0 .. 255
  BY <1>5, SMT
<1> QED BY <1>3, <1>4, <1>6
        DEF Init_VGA, ScreenInv, TypeOK, CursorOnScreen, SilentBefore, GoodScreen

(* The initial state.                                                      *)
LEMMA ScreenInit == Init => ScreenInv
<1> SUFFICES ASSUME Init PROVE ScreenInv
  OBVIOUS
<1>1. PICK c \in BOOT_CURSORS :
        screen = [cells |-> [i \in Cells |-> [ch |-> "?", attr |-> WHITE]],
                  lo |-> c.lo, hi |-> c.hi]
  BY DEF Init
<1>2. c.lo \in 0 .. (BYTE - 1) /\ c.hi \in 0 .. (BYTE - 1)
  BY ScreenAssumption
<1>3. /\ DOMAIN screen.cells = Cells
      /\ screen.lo \in 0 .. (BYTE - 1) /\ screen.hi \in 0 .. (BYTE - 1)
  BY <1>1, <1>2
<1>4. shape.start = 32 /\ shape.end = 0
  BY DEF Init
<1>5. WHITE \in 0 .. 255 /\ 32 \in 0 .. 255 /\ 0 \in 0 .. 255
  BY SMT DEF WHITE
<1>6. TypeOK
  BY <1>3, <1>4, <1>5 DEF Init, TypeOK
<1> QED BY <1>6 DEF Init, ScreenInv, CursorOnScreen, SilentBefore

(* Every step keeps the invariant.                                         *)
LEMMA ScreenNext == ScreenInv /\ [Next]_vars => ScreenInv'
<1> SUFFICES ASSUME ScreenInv, [Next]_vars PROVE ScreenInv'
  OBVIOUS
<1>1. ready => GoodScreen(screen)
  BY DEF ScreenInv, TypeOK, CursorOnScreen, GoodScreen
<1>2. shape.start \in 0 .. 255 /\ shape.end \in 0 .. 255
  BY DEF ScreenInv, TypeOK
<1>3. ready \in BOOLEAN /\ (~ready => todo = <<>> /\ fmt = <<>> /\ call = "none")
  BY DEF ScreenInv, TypeOK, SilentBefore
<1>4. CASE Init_VGA
  BY <1>4, InitVGAKeeps
<1>5. ASSUME NEW x \in CALLS, kprintf(x) PROVE ScreenInv'
  BY <1>2, <1>5, SameScreen DEF kprintf, Idle
<1>6. ASSUME NEW x \in CALLS, NEW new \in COLORS, kprintcolor(new, x) PROVE ScreenInv'
  <2>1. new \in 0 .. 255
    BY ScreenAssumption
  <2> QED BY <1>6, <2>1 DEF kprintcolor, Idle, ScreenInv, TypeOK, CursorOnScreen,
                            SilentBefore
<1>7. ASSUME NEW x \in WRITES, sys_write(x) PROVE ScreenInv'
  <2>1. /\ ready /\ call' = "sys_write"
        /\ ready' = ready /\ screen' = screen /\ shape' = shape /\ color' = color /\ temp' = temp
    BY <1>7 DEF sys_write, Idle
  <2> QED BY <1>2, <2>1, SameScreen
<1>8. CASE PutNext
  <2>1. ready
    BY <1>3, <1>8 DEF PutNext
  <2>2. PICK c : c = Head(todo)
    OBVIOUS
  <2>3. GoodScreen(screen')
    BY <1>1, <1>8, <2>1, <2>2, PutGood DEF PutNext
  <2> QED BY <1>8, <2>1, <2>3, ScreenOnly DEF PutNext
<1>9. CASE Literal
  <2>1. ready
    BY <1>3, <1>9 DEF Literal
  <2> QED BY <1>2, <1>9, <2>1, SameScreen DEF Literal
<1>10. CASE PrintNumber \/ PrintString \/ PrintChar \/ PrintBoth
  <2>1. Directive
    BY <1>10 DEF PrintNumber, PrintString, PrintChar, PrintBoth
  <2>2. ready
    <3>1. fmt # <<>>
      BY <2>1 DEF Directive
    <3> QED BY <1>3, <3>1
  <2>3. GoodScreen(screen')
    BY <1>1, <1>10, <2>2, RmlineGood DEF PrintNumber, PrintString, PrintChar, PrintBoth
  <2> QED BY <2>1, <2>2, <2>3, ScreenOnly DEF Directive
<1>11. CASE Return
  <2>1. /\ ready /\ call # "none" /\ call' = "none" /\ color' = ColorAfter
        /\ ready' = ready /\ screen' = screen /\ shape' = shape /\ temp' = temp
    BY <1>3, <1>11 DEF Return
  <2>2. color' \in 0 .. 255
    BY <2>1 DEF ColorAfter, ScreenInv, TypeOK
  <2> QED BY <2>1, <2>2 DEF ScreenInv, TypeOK, CursorOnScreen, SilentBefore
<1>12. ASSUME NEW c \in CHARS, Putc(c) PROVE ScreenInv'
  BY <1>2, <1>12, SameScreen DEF Putc, Idle
<1>13. CASE Rmline
  BY <1>1, <1>13, RmlineGood, ScreenOnly DEF Rmline, Idle, printing
<1>14. CASE Clear
  <2>1. ready /\ GoodScreen(screen')
    BY <1>1, <1>14 DEF Clear, Idle, VGA_Clear, GoodScreen, VGA_GetCursorPosition
  <2> QED BY <1>14, <2>1, ScreenOnly DEF Clear, printing
<1>15. ASSUME NEW p \in PLACES, SetCursor(p) PROVE ScreenInv'
  <2>1. p.x \in Int /\ p.y \in Int
    BY ScreenAssumption
  <2>2. ready /\ GoodScreen(screen) /\ screen' = VGA_SetCursor(screen, p.x, p.y)
    BY <1>1, <1>15 DEF SetCursor, Idle
  <2>3. DOMAIN screen.cells = Cells
    BY <2>2 DEF GoodScreen
  <2>4. GoodScreen(screen')
    BY <2>1, <2>2, <2>3, SetCursorGood
  <2> QED BY <1>15, <2>2, <2>4, ScreenOnly DEF SetCursor, printing
<1>16. ASSUME NEW c \in COLORS, SetColor(c) PROVE ScreenInv'
  <2>1. c \in 0 .. 255
    BY ScreenAssumption
  <2> QED BY <1>16, <2>1 DEF SetColor, Idle, printing, ScreenInv, TypeOK, CursorOnScreen,
                             SilentBefore
<1>17. CASE VGA_EnableCursor
  <2>1. shape'.start = 14 /\ shape'.end = 15
    BY <1>17 DEF VGA_EnableCursor
  <2>2. shape'.start \in 0 .. 255 /\ shape'.end \in 0 .. 255
    BY <2>1, SMT
  <2> QED BY <1>17, <2>2, SameScreen DEF VGA_EnableCursor, Idle, printing
<1>18. CASE VGA_DisableCursor
  <2>1. shape'.start = 32 /\ shape'.end = shape.end
    BY <1>18 DEF VGA_DisableCursor
  <2>2. shape'.start \in 0 .. 255 /\ shape'.end \in 0 .. 255
    BY <1>2, <2>1, SMT
  <2> QED BY <1>18, <2>2, SameScreen DEF VGA_DisableCursor, Idle, printing
<1>19. CASE UNCHANGED vars
  BY <1>19 DEF vars, ScreenInv, TypeOK, CursorOnScreen, SilentBefore
<1> QED
  BY <1>4, <1>5, <1>6, <1>7, <1>8, <1>9, <1>10, <1>11, <1>12, <1>13, <1>14, <1>15,
     <1>16, <1>17, <1>18, <1>19 DEF Next, Printing

(* The invariant holds in every reachable state of the screen.             *)
THEOREM ScreenInvariance == Spec => []ScreenInv
  BY ScreenInit, ScreenNext, PTL DEF Spec

(* Screen memory keeps its size, and the registers and colours fit a byte. *)
THEOREM ScreenTypeCorrect == Spec => []TypeOK
<1>1. ScreenInv => TypeOK
  BY DEF ScreenInv
<1> QED BY <1>1, ScreenInvariance, PTL

(* VGA_Putc never writes outside screen memory: the cursor registers point *)
(* at a cell after any calls, for every width and height the registers can *)
(* address.                                                                *)
THEOREM CursorCorrect == Spec => []CursorOnScreen
<1>1. ScreenInv => CursorOnScreen
  BY DEF ScreenInv
<1> QED BY <1>1, ScreenInvariance, PTL

---------------------------------------------------------------------------
(* Numbers.  The loops that make digits and the sum that reads them back   *)
(* are recursive functions on an interval.                                 *)

(* g goes from a to the next value by F, k times.                          *)
Iterates(S, a, F, k, g) ==
  g \in [0 .. k -> S] /\ g[0] = a /\ \A n \in 1 .. k : g[n] = F[n][g[n - 1]]

(* A value, and a step from each value and its number to the next, define  *)
(* a sequence of values of any length.                                     *)
LEMMA IterationExists ==
  ASSUME NEW S, NEW a \in S, NEW F \in [Nat -> [S -> S]], NEW k \in Nat
  PROVE  \E g : Iterates(S, a, F, k, g)
<1> DEFINE Missing == {n \in Nat : ~\E g : Iterates(S, a, F, n, g)}
<1>1. SUFFICES ASSUME Missing # {} PROVE FALSE
  OBVIOUS
<1>2. PICK n \in Missing : \A m \in Missing : n <= m
  BY <1>1, LeastNat, Zenon
<1>3. n \in Nat /\ ~\E g : Iterates(S, a, F, n, g)
  OBVIOUS
<1>4. CASE n = 0
  <2>1. PICK g : g = [i \in 0 .. 0 |-> a]
    OBVIOUS
  <2>2. g \in [0 .. 0 -> S] /\ g[0] = a /\ \A m \in 1 .. 0 : g[m] = F[m][g[m - 1]]
    BY <2>1, SMT
  <2> QED BY <1>3, <1>4, <2>2 DEF Iterates
<1>5. CASE n # 0
  <2>1. n - 1 \in Nat /\ ~(n <= n - 1)
    BY <1>3, <1>5
  <2>2. n - 1 \notin Missing
    BY <1>2, <2>1
  <2>3. PICK g : Iterates(S, a, F, n - 1, g)
    BY <2>1, <2>2
  <2>4. /\ g \in [0 .. (n - 1) -> S] /\ g[0] = a
        /\ \A m \in 1 .. (n - 1) : g[m] = F[m][g[m - 1]]
    BY <2>3 DEF Iterates
  <2>5. PICK h : h = [i \in 0 .. n |-> IF i = n THEN F[n][g[n - 1]] ELSE g[i]]
    OBVIOUS
  <2>6. g[n - 1] \in S /\ F[n][g[n - 1]] \in S
    BY <2>1, <2>4, <1>3
  <2>7. h \in [0 .. n -> S] /\ h[0] = a
    BY <1>3, <1>5, <2>4, <2>5, <2>6
  <2>8. ASSUME NEW m \in 1 .. n PROVE h[m] = F[m][h[m - 1]]
    <3>1. h[m - 1] = g[m - 1]
      BY <1>3, <2>5
    <3>2. CASE m = n
      BY <2>5, <3>1, <3>2
    <3>3. CASE m # n
      <4>1. m \in 1 .. (n - 1) /\ h[m] = g[m]
        BY <1>3, <2>5, <3>3
      <4> QED BY <2>4, <3>1, <4>1
    <3> QED BY <3>2, <3>3
  <2>9. Iterates(S, a, F, n, h)
    BY <2>7, <2>8 DEF Iterates
  <2> QED BY <1>3, <2>9
<1> QED BY <1>4, <1>5

(* q has n and what max divisions by b leave of it.                        *)
DividedBy(b, n, max, q) ==
  /\ q \in [0 .. max -> Nat] /\ q[0] = n
  /\ \A k \in 1 .. max : q[k] = q[k - 1] \div b

(* The quotients are what repeated division leaves.                        *)
LEMMA QuotientsAre ==
  ASSUME NEW n \in Nat, NEW b \in Nat, b > 0, NEW max \in Nat
  PROVE  DividedBy(b, n, max, Quotients(n, b, max))
<1> DEFINE F == [k \in Nat |-> [v \in Nat |-> v \div b]]
<1>1. F \in [Nat -> [Nat -> Nat]] /\ \A k \in Nat, v \in Nat : F[k][v] = v \div b
  BY SMT
<1> HIDE DEF F
<1>2. PICK g : Iterates(Nat, n, F, max, g)
  BY <1>1, IterationExists
<1>3. g \in [0 .. max -> Nat] /\ g[0] = n /\ \A k \in 1 .. max : g[k] = F[k][g[k - 1]]
  BY <1>2 DEF Iterates
<1>4. \A k \in 1 .. max : g[k] = g[k - 1] \div b
  <2> SUFFICES ASSUME NEW k \in 1 .. max PROVE g[k] = g[k - 1] \div b
    OBVIOUS
  <2>1. k \in Nat /\ k - 1 \in 0 .. max
    OBVIOUS
  <2>2. g[k - 1] \in Nat
    BY <1>3, <2>1
  <2> QED BY <1>1, <1>3, <2>1, <2>2
<1>5. g = [k \in 0 .. max |-> IF k = 0 THEN n ELSE g[k - 1] \div b]
  <2>1. \A k \in 0 .. max : g[k] = IF k = 0 THEN n ELSE g[k - 1] \div b
    BY <1>3, <1>4
  <2> QED BY <1>3, <2>1
<1> DEFINE q == CHOOSE f : f = [k \in 0 .. max |-> IF k = 0 THEN n ELSE f[k - 1] \div b]
<1>6. q = [k \in 0 .. max |-> IF k = 0 THEN n ELSE q[k - 1] \div b]
  BY <1>5, Zenon
<1>7. Quotients(n, b, max) = q
  BY DEF Quotients
<1> HIDE DEF q
<1>8. q[0] = n /\ \A k \in 1 .. max : q[k] = q[k - 1] \div b
  BY <1>6
<1>9. \A k \in 0 .. max : q[k] \in Nat
  <2> DEFINE Bad == {k \in 0 .. max : q[k] \notin Nat}
  <2>1. SUFFICES ASSUME Bad # {} PROVE FALSE
    OBVIOUS
  <2>2. Bad \subseteq Nat
    OBVIOUS
  <2>3. PICK k \in Bad : \A m \in Bad : k <= m
    BY <2>1, <2>2, LeastNat, Zenon
  <2>4. k \in 0 .. max /\ q[k] \notin Nat /\ k # 0
    BY <1>8
  <2>5. k - 1 \in 0 .. max /\ ~(k <= k - 1) /\ k \in 1 .. max
    BY <2>4
  <2>6. q[k - 1] \in Nat
    BY <2>3, <2>5
  <2>7. \A v \in Nat : v \div b \in Nat
    BY SMT
  <2> QED BY <1>8, <2>4, <2>5, <2>6, <2>7
<1>10. q \in [0 .. max -> Nat]
  BY <1>6, <1>9
<1> QED BY <1>7, <1>8, <1>10 DEF DividedBy

(* Larger numbers have larger quotients.                                   *)
LEMMA QuotientsMonotone ==
  ASSUME NEW n \in Nat, NEW m \in Nat, n <= m, NEW b \in Nat, b > 0, NEW max \in Nat,
         Quotients(m, b, max)[max] = 0
  PROVE  Quotients(n, b, max)[max] = 0
<1>1. PICK q : q = Quotients(n, b, max)
  OBVIOUS
<1>2. PICK r : r = Quotients(m, b, max)
  OBVIOUS
<1>3. DividedBy(b, n, max, q) /\ DividedBy(b, m, max, r)
  BY <1>1, <1>2, QuotientsAre
<1> DEFINE Bad == {k \in 0 .. max : ~(q[k] <= r[k])}
<1>4. Bad = {}
  <2>1. SUFFICES ASSUME Bad # {} PROVE FALSE
    OBVIOUS
  <2>2. Bad \subseteq Nat
    OBVIOUS
  <2>3. PICK k \in Bad : \A j \in Bad : k <= j
    BY <2>1, <2>2, LeastNat, Zenon
  <2>4. k \in 0 .. max /\ ~(q[k] <= r[k]) /\ k # 0
    BY <1>3 DEF DividedBy
  <2>5. k - 1 \in 0 .. max /\ ~(k <= k - 1) /\ k \in 1 .. max
    BY <2>4
  <2>6. q[k - 1] <= r[k - 1]
    BY <2>3, <2>5
  <2>7. q[k - 1] \in Nat /\ r[k - 1] \in Nat /\ q[k] = q[k - 1] \div b /\ r[k] = r[k - 1] \div b
    BY <1>3, <2>5 DEF DividedBy
  <2>8. \A x \in Nat, y \in Nat : x <= y => x \div b <= y \div b
    BY SMT
  <2> QED BY <2>4, <2>6, <2>7, <2>8
<1>5. q[max] <= r[max] /\ q[max] \in Nat /\ r[max] = 0
  <2>1. max \in 0 .. max
    OBVIOUS
  <2> QED BY <1>2, <1>3, <1>4, <2>1 DEF DividedBy
<1> QED BY <1>1, <1>5

(* Min is the least element.                                               *)
LEMMA MinOf ==
  ASSUME NEW S, S \subseteq Nat, S # {}
  PROVE  Min(S) \in S /\ \A x \in S : Min(S) <= x
<1>1. \E x \in S : \A y \in S : x <= y
  BY LeastNat
<1> QED BY <1>1, Zenon DEF Min

(* The digits stored upwards: as many as it takes to divide num down to 0. *)
Stored(n, b, max, q, count) ==
  /\ DividedBy(b, n, max, q)
  /\ count \in 1 .. max /\ q[count] = 0 /\ (count > 1 => q[count - 1] # 0)
  /\ DigitsUpwards(n, b, max) = [i \in 1 .. count |-> DIGITS[(q[i - 1] % b) + 1]]

(* There are such quotients and such a count.                              *)
LEMMA DigitsAre ==
  ASSUME NEW n \in Nat, NEW b \in Nat, b > 0, NEW max \in Nat, max > 0,
         Quotients(n, b, max)[max] = 0
  PROVE  \E q, count : Stored(n, b, max, q, count)
<1>1. PICK q : q = Quotients(n, b, max)
  OBVIOUS
<1>2. DividedBy(b, n, max, q) /\ q[max] = 0
  BY <1>1, QuotientsAre
<1>3. PICK S : S = {k \in 1 .. max : k = max \/ q[k] = 0}
  OBVIOUS
<1>4. S \subseteq Nat /\ max \in S
  BY <1>3
<1>5. PICK count : count = Min(S)
  OBVIOUS
<1>6. count \in S /\ \A x \in S : count <= x
  BY <1>4, <1>5, MinOf
<1>7. count \in 1 .. max /\ q[count] = 0
  BY <1>2, <1>3, <1>6
<1>8. count > 1 => q[count - 1] # 0
  <2> SUFFICES ASSUME count > 1, q[count - 1] = 0 PROVE FALSE
    OBVIOUS
  <2>1. count - 1 \in S
    BY <1>3, <1>7
  <2> QED BY <1>6, <1>7, <2>1
<1>9. DigitsUpwards(n, b, max) = [i \in 1 .. count |-> DIGITS[(q[i - 1] % b) + 1]]
  <2>1. ~(n < 0)
    OBVIOUS
  <2> QED BY <1>1, <1>3, <1>5, <2>1 DEF DigitsUpwards
<1> QED BY <1>2, <1>7, <1>8, <1>9 DEF Stored

(* The sixteen digits are different characters, none of them the minus.    *)
LEMMA DigitsDiffer ==
  /\ DOMAIN DIGITS = 1 .. 16
  /\ \A i, j \in 1 .. 16 : DIGITS[i] = DIGITS[j] => i = j
  /\ DIGITS[1] = "0"
<1>1. /\ DIGITS[1] = "0" /\ DIGITS[2] = "1" /\ DIGITS[3] = "2" /\ DIGITS[4] = "3"
      /\ DIGITS[5] = "4" /\ DIGITS[6] = "5" /\ DIGITS[7] = "6" /\ DIGITS[8] = "7"
      /\ DIGITS[9] = "8" /\ DIGITS[10] = "9" /\ DIGITS[11] = "a" /\ DIGITS[12] = "b"
      /\ DIGITS[13] = "c" /\ DIGITS[14] = "d" /\ DIGITS[15] = "e" /\ DIGITS[16] = "f"
  BY SMT DEF DIGITS
<1>2. DOMAIN DIGITS = 1 .. 16
  BY SMT DEF DIGITS
<1>3. \A i \in 1 .. 16 : i \in {1, 2, 3, 4, 5, 6, 7, 8, 9, 10, 11, 12, 13, 14, 15, 16}
  BY SMT
<1>4. \A i, j \in 1 .. 16 : DIGITS[i] = DIGITS[j] => i = j
  BY <1>1, <1>3, SMT
<1> QED BY <1>1, <1>2, <1>4

(* What a digit is worth when it is read.                                  *)
LEMMA DigitRead ==
  ASSUME NEW b \in 1 .. 16, NEW d \in 0 .. (b - 1)
  PROVE  DigitOf(DIGITS[d + 1], b) = d
<1>1. d + 1 \in 1 .. b /\ \A k \in 1 .. b : k \in 1 .. 16
  BY SMT
<1>2. \A k \in 1 .. b : DIGITS[k] = DIGITS[d + 1] => k = d + 1
  BY <1>1, DigitsDiffer
<1>3. PICK x : x = DIGITS[d + 1]
  OBVIOUS
<1>4. PICK c : c = CHOOSE k \in 1 .. b : DIGITS[k] = x
  OBVIOUS
<1>5. c \in 1 .. b /\ DIGITS[c] = x
  BY <1>1, <1>3, <1>4, Zenon
<1>6. c = d + 1
  BY <1>2, <1>3, <1>5
<1>7. DigitOf(x, b) = c - 1
  BY <1>4 DEF DigitOf
<1> QED BY <1>3, <1>6, <1>7

(* text is made of the remainders in the quotients of n, the last first.   *)
Spells(text, n, b, max, q, c) ==
  /\ n \in Nat /\ b \in 1 .. 16 /\ max \in Nat /\ c \in 1 .. max
  /\ DividedBy(b, n, max, q) /\ q[c] = 0 /\ Len(text) = c
  /\ \A i \in 1 .. c : text[i] = DIGITS[(q[c - i] % b) + 1]

(* Such a text reads as n.                                                 *)
LEMMA ValuesAre ==
  ASSUME NEW text, NEW n, NEW b, NEW max, NEW q, NEW c, Spells(text, n, b, max, q, c)
  PROVE  Values(text, b)[Len(text)] = n
<1>0. /\ n \in Nat /\ b \in 1 .. 16 /\ max \in Nat /\ c \in 1 .. max
      /\ DividedBy(b, n, max, q) /\ q[c] = 0 /\ Len(text) = c
      /\ \A i \in 1 .. c : text[i] = DIGITS[(q[c - i] % b) + 1]
  BY DEF Spells
<1>1. /\ q \in [0 .. max -> Nat] /\ q[0] = n
      /\ \A k \in 1 .. max : q[k] = q[k - 1] \div b
  BY <1>0 DEF DividedBy
<1>2. PICK g : g = [i \in 0 .. c |-> q[c - i]]
  OBVIOUS
<1>3. \A i \in 1 .. c :
        g[i] = b * g[i - 1] + DigitOf(text[i], b)
  <2> SUFFICES ASSUME NEW i \in 1 .. c
               PROVE  g[i] = b * g[i - 1] + DigitOf(text[i], b)
    OBVIOUS
  <2>1. g[i] = q[c - i] /\ g[i - 1] = q[c - (i - 1)]
    BY <1>0, <1>2
  <2>2. c - i \in 0 .. max /\ c - (i - 1) \in 1 .. max /\ (c - (i - 1)) - 1 = c - i
    BY <1>0, SMT
  <2>3. PICK m \in Nat : m = q[c - i]
    BY <1>0, <1>1, <2>2
  <2>4. q[c - (i - 1)] = m \div b
    <3>1. q[c - (i - 1)] = q[(c - (i - 1)) - 1] \div b
      BY <1>0, <1>1, <2>2
    <3> QED BY <2>2, <2>3, <3>1
  <2>5. m % b \in 0 .. (b - 1) /\ m = b * (m \div b) + (m % b) /\ m \div b \in Nat
    <3>1. b \in 1 .. 16
      BY <1>0
    <3> QED BY <3>1, SMT
  <2>6. PICK d \in 0 .. (b - 1) : d = m % b
    BY <2>5
  <2>7. text[i] = DIGITS[d + 1]
    BY <1>0, <2>3, <2>6
  <2>8. DigitOf(text[i], b) = d
    BY <1>0, <2>7, DigitRead
  <2>9. g[i] = m /\ g[i - 1] = m \div b
    BY <2>1, <2>3, <2>4
  <2> QED BY <1>0, <2>5, <2>6, <2>8, <2>9
<1>4. g[0] = 0 /\ g[c] = n /\ DOMAIN g = 0 .. c /\ 0 \in 0 .. c /\ c \in 0 .. c
  <2>1. 0 \in 0 .. c /\ c \in 0 .. c /\ c - 0 = c /\ c - c = 0
    BY <1>0, SMT
  <2> QED BY <1>0, <1>1, <1>2, <2>1
<1>5. g = [i \in 0 .. Len(text) |->
             IF i = 0 THEN 0
             ELSE b * g[i - 1] + DigitOf(text[i], b)]
  <2>1. \A i \in 0 .. c : i # 0 => i \in 1 .. c
    BY <1>0, SMT
  <2>2. \A i \in 0 .. c :
          g[i] = IF i = 0 THEN 0
                 ELSE b * g[i - 1] + DigitOf(text[i], b)
    BY <1>3, <1>4, <2>1, Zenon
  <2>3. g = [i \in 0 .. c |-> g[i]]
    BY <1>0, <1>2
  <2> QED BY <1>0, <2>2, <2>3, Zenon
<1> DEFINE v == CHOOSE f : f = [i \in 0 .. Len(text) |->
                  IF i = 0 THEN 0
                  ELSE b * f[i - 1] + DigitOf(text[i], b)]
<1>6. v = [i \in 0 .. Len(text) |->
             IF i = 0 THEN 0
             ELSE b * v[i - 1] + DigitOf(text[i], b)]
  BY <1>5, Zenon
<1>7. Values(text, b) = v
  BY DEF Values
<1> HIDE DEF v
<1>8. v[0] = 0
  BY <1>4, <1>6
<1>9. \A i \in 1 .. c :
        v[i] = b * v[i - 1] + DigitOf(text[i], b)
  <2>1. \A i \in 1 .. c : i \in 0 .. Len(text) /\ i # 0
    BY <1>0, SMT
  <2> QED BY <1>6, <2>1, Zenon
<1> DEFINE Bad == {i \in 0 .. c : v[i] # g[i]}
<1>10. Bad = {}
  <2>1. SUFFICES ASSUME Bad # {} PROVE FALSE
    OBVIOUS
  <2>2. Bad \subseteq Nat
    BY <1>0
  <2>3. PICK i \in Bad : \A j \in Bad : i <= j
    BY <2>1, <2>2, LeastNat, Zenon
  <2>4. i \in 0 .. c /\ v[i] # g[i] /\ i # 0
    BY <1>0, <1>4, <1>8
  <2>5. i \in 1 .. c /\ i - 1 \in 0 .. c /\ ~(i <= i - 1)
    BY <1>0, <2>4
  <2>6. v[i - 1] = g[i - 1]
    BY <2>3, <2>5
  <2>7. v[i] = b * v[i - 1] + DigitOf(text[i], b) /\ g[i] = b * g[i - 1] + DigitOf(text[i], b)
    BY <1>3, <1>9, <2>5, Zenon
  <2> QED BY <2>4, <2>6, <2>7
<1>11. v[c] = n
  BY <1>0, <1>4, <1>10
<1> QED BY <1>0, <1>7, <1>11

(* Digits stored upwards and reversed are the number.                      *)
LEMMA ReversedNumeral ==
  ASSUME NEW n \in Nat, NEW b \in 2 .. 16, NEW max \in Nat, max > 0,
         Quotients(n, b, max)[max] = 0
  PROVE  /\ Numeral(Reverse(DigitsUpwards(n, b, max)), b, n)
         /\ DigitsUpwards(n, b, max) \in Seq(Range(DIGITS))
         /\ DigitsUpwards(n, b, max) # <<>>
<1>1. PICK q, c : Stored(n, b, max, q, c)
  BY DigitsAre
<1>2. PICK D : D = DigitsUpwards(n, b, max)
  OBVIOUS
<1>3. /\ q \in [0 .. max -> Nat] /\ DividedBy(b, n, max, q)
      /\ c \in 1 .. max /\ q[c] = 0 /\ (c > 1 => q[c - 1] # 0)
      /\ D = [i \in 1 .. c |-> DIGITS[(q[i - 1] % b) + 1]]
  BY <1>1, <1>2 DEF Stored, DividedBy
<1>4. \A i \in 1 .. c : (q[i - 1] % b) + 1 \in 1 .. b /\ (q[i - 1] % b) + 1 \in 1 .. 16
  <2> SUFFICES ASSUME NEW i \in 1 .. c
               PROVE  (q[i - 1] % b) + 1 \in 1 .. b /\ (q[i - 1] % b) + 1 \in 1 .. 16
    OBVIOUS
  <2>1. PICK m \in Nat : m = q[i - 1]
    BY <1>3
  <2>2. m % b \in 0 .. (b - 1)
    BY SMT
  <2> QED BY <2>1, <2>2
<1>5. \A i \in 1 .. c : D[i] = DIGITS[(q[i - 1] % b) + 1] /\ D[i] \in Range(DIGITS)
  BY <1>3, <1>4, DigitsDiffer DEF Range
<1>6. D \in Seq(Range(DIGITS)) /\ Len(D) = c /\ D # <<>>
  BY <1>3, <1>5
<1>7. PICK R : R = Reverse(D)
  OBVIOUS
<1>8. R = [i \in 1 .. c |-> D[(c - i) + 1]]
  BY <1>6, <1>7 DEF Reverse
<1>9. ASSUME NEW i \in 1 .. c
      PROVE  /\ R[i] = DIGITS[(q[c - i] % b) + 1]
             /\ (q[c - i] % b) + 1 \in 1 .. b /\ c - i \in 0 .. max
  <2>1. (c - i) + 1 \in 1 .. c /\ ((c - i) + 1) - 1 = c - i /\ c - i \in 0 .. max
    BY <1>3
  <2> QED BY <1>4, <1>5, <1>8, <2>1
<1>10. R \in Seq(Range(DIGITS)) /\ Len(R) = c /\ R # <<>> /\ DOMAIN R = 1 .. c
  <2>1. \A i \in 1 .. c : D[(c - i) + 1] \in Range(DIGITS)
    <3> SUFFICES ASSUME NEW i \in 1 .. c PROVE D[(c - i) + 1] \in Range(DIGITS)
      OBVIOUS
    <3>1. (c - i) + 1 \in 1 .. c
      BY <1>3
    <3> QED BY <1>5, <3>1
  <2>2. c \in Nat /\ c > 0
    BY <1>3
  <2> QED BY <1>8, <2>1, <2>2
<1>11. \A i \in DOMAIN R : \E k \in 1 .. b : R[i] = DIGITS[k]
  BY <1>9, <1>10
<1>12. Len(R) > 1 => R[1] # "0"
  <2> SUFFICES ASSUME c > 1 PROVE R[1] # "0"
    BY <1>10
  <2>1. PICK m \in Nat : m = q[c - 1]
    BY <1>3
  <2>2. m # 0 /\ q[c] = m \div b
    BY <1>3, <2>1 DEF DividedBy
  <2>3. m < b /\ m % b = m
    BY <1>3, <2>2, SMT
  <2>4. m + 1 \in 1 .. 16 /\ m + 1 # 1 /\ 1 \in 1 .. c
    BY <1>3, <2>2, <2>3
  <2>5. R[1] = DIGITS[m + 1]
    BY <1>9, <2>1, <2>3, <2>4
  <2> QED BY <2>4, <2>5, DigitsDiffer
<1>13. Values(R, b)[Len(R)] = n
  <2>1. b \in 1 .. 16
    OBVIOUS
  <2>2. Spells(R, n, b, max, q, c)
    BY <1>3, <1>9, <1>10, <2>1 DEF Spells
  <2> QED BY <2>2, ValuesAre
<1>14. Numeral(R, b, n)
  BY <1>10, <1>11, <1>12, <1>13 DEF Numeral
<1> QED BY <1>2, <1>6, <1>7, <1>14

(* max digits are enough for n.                                            *)
Fits(n, b, max) == n \in Nat /\ Quotients(n, b, max)[max] = 0

(* Every unsigned int fits buf and every 64-bit word fits hex_buf.         *)
LEMMA NumbersFit ==
  /\ \A n \in 0 .. (UINT - 1) : Fits(n, 10, NUM_BUF - 1)
  /\ \A n \in 0 .. (UINT64 - 1) : Fits(n, 16, HEX_BUF - 1)
  /\ NUM_BUF - 1 \in Nat /\ NUM_BUF - 1 > 0 /\ HEX_BUF - 1 \in Nat /\ HEX_BUF - 1 > 0
<1>1. /\ UINT \in Nat /\ UINT > 0 /\ UINT64 \in Nat /\ UINT64 > 0
      /\ NUM_BUF - 1 \in Nat /\ NUM_BUF - 1 > 0 /\ HEX_BUF - 1 \in Nat /\ HEX_BUF - 1 > 0
  BY NumberAssumption
<1>2. /\ Quotients(UINT - 1, 10, NUM_BUF - 1)[NUM_BUF - 1] = 0
      /\ Quotients(UINT64 - 1, 16, HEX_BUF - 1)[HEX_BUF - 1] = 0
  BY NumberAssumption
<1>3. ASSUME NEW n \in 0 .. (UINT - 1) PROVE Fits(n, 10, NUM_BUF - 1)
  <2>1. n \in Nat /\ UINT - 1 \in Nat /\ n <= UINT - 1 /\ 10 \in Nat /\ 10 > 0
    BY <1>1
  <2>2. Quotients(n, 10, NUM_BUF - 1)[NUM_BUF - 1] = 0
    BY <1>1, <1>2, <2>1, QuotientsMonotone
  <2> QED BY <2>1, <2>2 DEF Fits
<1>4. ASSUME NEW n \in 0 .. (UINT64 - 1) PROVE Fits(n, 16, HEX_BUF - 1)
  <2>1. n \in Nat /\ UINT64 - 1 \in Nat /\ n <= UINT64 - 1 /\ 16 \in Nat /\ 16 > 0
    BY <1>1
  <2>2. Quotients(n, 16, HEX_BUF - 1)[HEX_BUF - 1] = 0
    BY <1>1, <1>2, <2>1, QuotientsMonotone
  <2> QED BY <2>1, <2>2 DEF Fits
<1> QED BY <1>1, <1>3, <1>4

(* An unsigned number, in base ten or sixteen.                             *)
LEMMA UnsignedExact ==
  ASSUME NEW n, NEW b \in 2 .. 16, NEW max \in Nat, max > 0, Fits(n, b, max)
  PROVE  /\ Numeral(Reverse(DigitsUpwards(n, b, max)), b, n)
         /\ DigitsUpwards(n, b, max) \in Seq(Range(DIGITS))
  BY ReversedNumeral DEF Fits

(* A minus stored behind the digits comes out before them.                 *)
LEMMA ReverseAppend ==
  ASSUME NEW S, NEW D \in Seq(S), NEW e
  PROVE  /\ Reverse(Append(D, e)) # <<>>
         /\ Head(Reverse(Append(D, e))) = e
         /\ Tail(Reverse(Append(D, e))) = Reverse(D)
<1>1. PICK c \in Nat : c = Len(D)
  OBVIOUS
<1>2. PICK A : A = Append(D, e)
  OBVIOUS
<1>3. Len(A) = c + 1 /\ A[c + 1] = e /\ \A i \in 1 .. c : A[i] = D[i]
  BY <1>1, <1>2
<1>4. PICK R : R = [i \in 1 .. (c + 1) |-> A[((c + 1) - i) + 1]]
  OBVIOUS
<1>5. Reverse(A) = R
  BY <1>3, <1>4 DEF Reverse
<1>6. R[1] = e
  BY <1>1, <1>3, <1>4
<1>7. R \in Seq(S \cup {e}) /\ Len(R) = c + 1
  <2>1. \A i \in 1 .. (c + 1) : ((c + 1) - i) + 1 \in 1 .. (c + 1)
    BY <1>1
  <2>2. A \in Seq(S \cup {e})
    BY <1>2
  <2>3. \A i \in 1 .. (c + 1) : A[((c + 1) - i) + 1] \in S \cup {e}
    BY <1>3, <2>1, <2>2
  <2> QED BY <1>4, <2>3
<1>8. R # <<>> /\ Head(R) = e
  BY <1>6, <1>7
<1>9. Tail(R) = [i \in 1 .. c |-> D[(c - i) + 1]]
  <2>1. ASSUME NEW i \in 1 .. c PROVE R[i + 1] = D[(c - i) + 1]
    <3>1. i + 1 \in 1 .. (c + 1) /\ ((c + 1) - (i + 1)) + 1 = (c - i) + 1 /\ (c - i) + 1 \in 1 .. c
      BY <1>1
    <3> QED BY <1>3, <1>4, <3>1
  <2>2. /\ Tail(R) \in Seq(S \cup {e}) /\ Len(Tail(R)) = c
        /\ \A i \in 1 .. c : Tail(R)[i] = R[i + 1]
    BY <1>7, <1>8
  <2>3. PICK X : X = Tail(R)
    OBVIOUS
  <2>4. X = [i \in 1 .. c |-> X[i]]
    <3>1. X \in [1 .. c -> S \cup {e}]
      BY <2>2, <2>3, LenProperties
    <3> QED BY <3>1
  <2> QED BY <2>1, <2>2, <2>3, <2>4
<1>10. Reverse(D) = [i \in 1 .. c |-> D[(c - i) + 1]]
  BY <1>1 DEF Reverse
<1> QED BY <1>2, <1>5, <1>8, <1>9, <1>10

(* %d, %u and %x of every number, the smallest int included.               *)
LEMMA NumbersAreExact ==
  /\ \A n \in 0 .. (UINT - 1) : Numeral(kprint_unsigned(n), 10, n)
  /\ \A n \in 0 .. (UINT64 - 1) : Numeral(kprint_hex(n), 16, n)
  /\ \A n \in 0 .. ((UINT \div 2) - 1) : Numeral(kprint_num(n), 10, n)
  /\ \A n \in INT_MIN .. -1 : /\ Head(kprint_num(n)) = "-"
                              /\ Numeral(Tail(kprint_num(n)), 10, -n)
<1>1. ASSUME NEW n \in 0 .. (UINT - 1)
      PROVE  /\ Numeral(Reverse(DigitsUpwards(n, 10, NUM_BUF - 1)), 10, n)
             /\ DigitsUpwards(n, 10, NUM_BUF - 1) \in Seq(Range(DIGITS))
  <2>1. 10 \in 2 .. 16
    OBVIOUS
  <2> QED BY <2>1, NumbersFit, UnsignedExact
<1>2. ASSUME NEW n \in 0 .. (UINT - 1) PROVE Numeral(kprint_unsigned(n), 10, n)
  BY <1>1 DEF kprint_unsigned
<1>3. ASSUME NEW n \in 0 .. (UINT64 - 1) PROVE Numeral(kprint_hex(n), 16, n)
  <2>1. 16 \in 2 .. 16
    OBVIOUS
  <2> QED BY <2>1, NumbersFit, UnsignedExact DEF kprint_hex
<1>4. PICK h \in Nat : h = UINT \div 2
  BY NumberAssumption, SMT
<1>5. h > 0 /\ h <= UINT - 1 /\ UINT \in Nat /\ INT_MIN = -h
  <2>1. UINT \in Nat /\ UINT > 0 /\ UINT % 2 = 0
    BY NumberAssumption
  <2>2. h > 0 /\ h <= UINT - 1
    BY <1>4, <2>1, SMT
  <2> QED BY <1>4, <2>1, <2>2 DEF INT_MIN
<1>6. ASSUME NEW n \in 0 .. (h - 1) PROVE Numeral(kprint_num(n), 10, n)
  <2>1. n \in 0 .. (UINT - 1) /\ n # INT_MIN /\ ~(n < 0)
    BY <1>5
  <2> QED BY <1>1, <2>1 DEF kprint_num
<1>7. ASSUME NEW n \in (-h) .. -1
      PROVE  Head(kprint_num(n)) = "-" /\ Numeral(Tail(kprint_num(n)), 10, -n)
  <2>1. CASE n = INT_MIN
    <3>1. -n = UINT \div 2
      BY <1>4, <1>5, <2>1
    <3>2. kprint_num(n) = INT_MIN_TEXT
      BY <2>1 DEF kprint_num
    <3> QED BY <3>1, <3>2, LiteralAssumption
  <2>2. CASE n # INT_MIN
    <3>1. -n \in 0 .. (UINT - 1) /\ n < 0
      BY <1>5
    <3>2. PICK m : m = -n
      OBVIOUS
    <3>3. PICK D : D = DigitsUpwards(m, 10, NUM_BUF - 1)
      OBVIOUS
    <3>4. Numeral(Reverse(D), 10, m) /\ D \in Seq(Range(DIGITS))
      BY <1>1, <3>1, <3>2, <3>3
    <3>5. kprint_num(n) = Reverse(Append(D, "-"))
      BY <2>2, <3>1, <3>2, <3>3 DEF kprint_num
    <3>6. Head(Reverse(Append(D, "-"))) = "-" /\ Tail(Reverse(Append(D, "-"))) = Reverse(D)
      BY <3>4, ReverseAppend
    <3> QED BY <3>2, <3>4, <3>5, <3>6
  <2> QED BY <2>1, <2>2
<1> QED BY <1>2, <1>3, <1>4, <1>5, <1>6, <1>7

(* %d, %u and %x print numbers exactly: for every width of an int, the     *)
(* smallest int included, what kprint_num, kprint_unsigned and the loop of *)
(* %x write reads back as the number.                                      *)
THEOREM NumbersCorrect == Spec => []NumbersExact
<1>1. NumbersExact
  BY NumbersAreExact DEF NumbersExact
<1> QED BY <1>1, PTL

---------------------------------------------------------------------------
(* Rows and columns: the screen as a terminal sees it.                     *)
Cols == 0 .. (VGA_WIDTH - 1)
RowNumbers == 0 .. (VGA_HEIGHT - 1)

(* Screen memory cut into rows.                                            *)
Grid(cells) ==
  [i \in 1 .. VGA_HEIGHT |-> [x \in Cols |-> cells[(i - 1) * VGA_WIDTH + x]]]

(* A row of blanks.                                                        *)
BlankLine(col) == [x \in Cols |-> Blank(col)]

(* A row erased, and a cell of a row replaced.                             *)
Erased(rows, y, col) == [rows EXCEPT ![y] = BlankLine(col)]
Written(rows, y, x, cell) == [rows EXCEPT ![y][x] = cell]

(* A terminal.                                                             *)
Term(rows, x, y) == [rows |-> rows, x |-> x, y |-> y]

(* The terminal that a screen shows.                                       *)
Shown(s) ==
  Term(Grid(s.cells), VGA_GetCursorPosition(s) % VGA_WIDTH,
       (VGA_GetCursorPosition(s) \div VGA_WIDTH) + 1)

(* A row and a column determine the cell.                                  *)
LEMMA PlaceOf ==
  ASSUME NEW x \in Cols, NEW y \in Nat
  PROVE  (y * VGA_WIDTH + x) % VGA_WIDTH = x /\ (y * VGA_WIDTH + x) \div VGA_WIDTH = y
<1>1. VGA_WIDTH \in Nat /\ VGA_WIDTH > 0 /\ x \in 0 .. (VGA_WIDTH - 1)
  BY SizeFacts DEF Cols
<1>2. PICK w \in Nat : w = VGA_WIDTH /\ w > 0 /\ x < w
  BY <1>1
<1>3. y * w + x \in Nat
  <2>1. y * w \in Nat
    BY <1>2, TimesMonotone
  <2> QED BY <1>1, <2>1
<1>4. PICK p \in Nat : p = y * w + x
  BY <1>3
<1>5. PICK q \in Nat, r \in 0 .. (w - 1) : p = w * q + r /\ p % w = r /\ p \div w = q
  <2>1. PICK q, r : q = p \div w /\ r = p % w
    OBVIOUS
  <2>2. p \div w \in Nat /\ p % w \in 0 .. (w - 1) /\ p = w * (p \div w) + (p % w)
    BY <1>2, SMT
  <2>3. q \in Nat /\ r \in 0 .. (w - 1) /\ p = w * q + r /\ p % w = r /\ p \div w = q
    BY <2>1, <2>2
  <2> QED BY <2>3
<1>6. q = y
  <2>1. CASE q < y
    <3>1. (q + 1) * w <= y * w
      BY <1>2, <2>1, TimesMonotone
    <3>2. (q + 1) * w = w * q + w /\ w * q \in Nat /\ y * w \in Nat
      BY <1>2, SMT
    <3> QED BY <1>1, <1>2, <1>4, <1>5, <3>1, <3>2
  <2>2. CASE y < q
    <3>1. (y + 1) * w <= q * w
      BY <1>2, <2>2, TimesMonotone
    <3>2. (y + 1) * w = y * w + w /\ q * w = w * q /\ w * q \in Nat /\ y * w \in Nat
      BY <1>2, SMT
    <3> QED BY <1>1, <1>2, <1>4, <1>5, <3>1, <3>2
  <2> QED BY <2>1, <2>2
<1>7. r = x
  <2>1. y * w = w * y /\ w * y \in Nat
    BY <1>2, SMT
  <2> QED BY <1>1, <1>2, <1>4, <1>5, <1>6, <2>1
<1> QED BY <1>2, <1>4, <1>5, <1>6, <1>7

(* And a cell its row and column.                                          *)
LEMMA CellPlace ==
  ASSUME NEW p \in Cells
  PROVE  /\ p \in Nat /\ p % VGA_WIDTH \in Cols /\ p \div VGA_WIDTH \in RowNumbers
         /\ p = (p \div VGA_WIDTH) * VGA_WIDTH + (p % VGA_WIDTH)
<1>1. p \in Nat /\ p < SIZE
  BY SizeFacts DEF Cells
<1>2. /\ p % VGA_WIDTH \in 0 .. (VGA_WIDTH - 1) /\ p \div VGA_WIDTH \in Nat
      /\ p = (p \div VGA_WIDTH) * VGA_WIDTH + (p % VGA_WIDTH)
  BY <1>1, RowAndColumn
<1>3. PICK y, x : y = p \div VGA_WIDTH /\ x = p % VGA_WIDTH
  OBVIOUS
<1>4. x \in 0 .. (VGA_WIDTH - 1) /\ y \in Nat /\ p = y * VGA_WIDTH + x
  BY <1>2, <1>3
<1>5. y < VGA_HEIGHT
  <2>1. CASE VGA_HEIGHT <= y
    <3>1. VGA_HEIGHT * VGA_WIDTH <= y * VGA_WIDTH /\ y * VGA_WIDTH \in Nat
      BY <1>4, <2>1, SizeFacts, TimesMonotone
    <3>2. VGA_HEIGHT * VGA_WIDTH = SIZE
      BY SizeFacts, SMT DEF SIZE
    <3> QED BY <1>1, <1>4, <3>1, <3>2, SizeFacts
  <2> QED BY <1>4, <2>1, SizeFacts
<1> QED BY <1>1, <1>2, <1>3, <1>4, <1>5, SizeFacts DEF Cols, RowNumbers

(* Writing a cell of the screen is writing a cell of its row.              *)
LEMMA GridWrite ==
  ASSUME NEW cells, DOMAIN cells = Cells, NEW x \in Cols, NEW y \in RowNumbers, NEW v
  PROVE  Grid([cells EXCEPT ![y * VGA_WIDTH + x] = v]) = Written(Grid(cells), y + 1, x, v)
<1>1. PICK p : p = y * VGA_WIDTH + x
  OBVIOUS
<1>2. p \in Cells /\ y \in Nat /\ y + 1 \in 1 .. VGA_HEIGHT
  <2>1. x \in 0 .. (VGA_WIDTH - 1) /\ y \in 0 .. (VGA_HEIGHT - 1)
    BY DEF Cols, RowNumbers
  <2>2. p \in Cells
    BY <1>1, <2>1, CellOf
  <2> QED BY <2>1, <2>2, SizeFacts
<1>3. PICK c : c = [cells EXCEPT ![p] = v]
  OBVIOUS
<1>4. ASSUME NEW i \in 1 .. VGA_HEIGHT, NEW z \in Cols
      PROVE  c[(i - 1) * VGA_WIDTH + z] =
               IF i = y + 1 /\ z = x THEN v ELSE cells[(i - 1) * VGA_WIDTH + z]
  <2>1. i - 1 \in Nat /\ i - 1 \in RowNumbers /\ (i - 1 = y <=> i = y + 1)
    BY <1>2, SizeFacts DEF RowNumbers
  <2>2. PICK k : k = (i - 1) * VGA_WIDTH + z
    OBVIOUS
  <2>3. k \in Cells
    BY <2>1, <2>2, CellOf DEF Cols, RowNumbers
  <2>4. k % VGA_WIDTH = z /\ k \div VGA_WIDTH = i - 1
    BY <2>1, <2>2, PlaceOf
  <2>5. p % VGA_WIDTH = x /\ p \div VGA_WIDTH = y
    BY <1>1, <1>2, PlaceOf
  <2>6. k = p <=> i = y + 1 /\ z = x
    <3>1. CASE k = p
      BY <2>1, <2>4, <2>5, <3>1
    <3>2. CASE i = y + 1 /\ z = x
      BY <1>1, <2>1, <2>2, <3>2
    <3> QED BY <3>1, <3>2
  <2>7. c[k] = IF k = p THEN v ELSE cells[k]
    BY <1>3, <2>3
  <2> QED BY <2>2, <2>6, <2>7
<1>5. Grid(c) = [Grid(cells) EXCEPT ![y + 1][x] = v]
  <2>1. PICK G : G = [i \in 1 .. VGA_HEIGHT |-> [z \in Cols |-> cells[(i - 1) * VGA_WIDTH + z]]]
    OBVIOUS
  <2>2. Grid(cells) = G
    BY <2>1 DEF Grid
  <2>3. PICK E : E = [G EXCEPT ![y + 1] = [G[y + 1] EXCEPT ![x] = v]]
    OBVIOUS
  <2>4. E = [i \in 1 .. VGA_HEIGHT |-> [z \in Cols |->
              IF i = y + 1 /\ z = x THEN v ELSE cells[(i - 1) * VGA_WIDTH + z]]]
    BY <1>2, <2>1, <2>3
  <2>5. Grid(c) = E
    BY <1>4, <2>4 DEF Grid
  <2>6. [Grid(cells) EXCEPT ![y + 1][x] = v] = E
    BY <2>2, <2>3
  <2> QED BY <2>5, <2>6
<1> QED BY <1>1, <1>3, <1>5 DEF Written

(* A row off the top and one below the bottom.                             *)
LEMMA TailAppend ==
  ASSUME NEW S, NEW h \in Nat, h > 0, NEW G \in [1 .. h -> S], NEW r \in S
  PROVE  Append(Tail(G), r) = [i \in 1 .. h |-> IF i < h THEN G[i + 1] ELSE r]
<1>1. G \in Seq(S) /\ Len(G) = h /\ G # <<>>
  <2>1. G \in Seq(S) /\ Len(G) = h
    BY SeqDef
  <2> QED BY <2>1
<1>2. PICK A : A = Append(Tail(G), r)
  OBVIOUS
<1>3. /\ Tail(G) \in Seq(S) /\ Len(Tail(G)) = h - 1
      /\ \A i \in 1 .. (h - 1) : Tail(G)[i] = G[i + 1]
  BY <1>1, HeadTailProperties
<1>4. /\ A \in Seq(S) /\ Len(A) = h /\ A[h] = r
      /\ \A i \in 1 .. (h - 1) : A[i] = G[i + 1]
  BY <1>2, <1>3
<1>5. A \in [1 .. h -> S]
  BY <1>4, LenProperties
<1>6. \A i \in 1 .. h : A[i] = IF i < h THEN G[i + 1] ELSE r
  BY <1>4
<1> QED BY <1>2, <1>5, <1>6

(* Scrolling is that.                                                      *)
LEMMA GridScroll ==
  ASSUME NEW cells, DOMAIN cells = Cells, NEW col
  PROVE  Grid(scrolled(cells, col)) = Append(Tail(Grid(cells)), BlankLine(col))
<1>1. PICK S : S = {Grid(cells)[i] : i \in 1 .. VGA_HEIGHT} \cup {BlankLine(col)}
  OBVIOUS
<1>2. Grid(cells) \in [1 .. VGA_HEIGHT -> S] /\ BlankLine(col) \in S
  BY <1>1 DEF Grid
<1>3. Append(Tail(Grid(cells)), BlankLine(col)) =
        [i \in 1 .. VGA_HEIGHT |-> IF i < VGA_HEIGHT THEN Grid(cells)[i + 1]
                                   ELSE BlankLine(col)]
  BY <1>2, SizeFacts, TailAppend
<1>4. ASSUME NEW i \in 1 .. VGA_HEIGHT, NEW z \in Cols
      PROVE  scrolled(cells, col)[(i - 1) * VGA_WIDTH + z] =
               IF i < VGA_HEIGHT THEN cells[((i + 1) - 1) * VGA_WIDTH + z] ELSE Blank(col)
  <2>1. i - 1 \in RowNumbers /\ z \in 0 .. (VGA_WIDTH - 1)
    BY SizeFacts DEF RowNumbers, Cols
  <2>2. PICK k : k = (i - 1) * VGA_WIDTH + z
    OBVIOUS
  <2>3. k \in Cells /\ k \in Int
    <3>1. i - 1 \in 0 .. (VGA_HEIGHT - 1)
      BY <2>1 DEF RowNumbers
    <3>2. k \in Cells
      BY <2>1, <2>2, <3>1, CellOf
    <3> QED BY <3>2 DEF Cells
  <2>4. k + VGA_WIDTH = i * VGA_WIDTH + z /\ (i + 1) - 1 = i
    <3>1. (i - 1) * VGA_WIDTH = i * VGA_WIDTH - VGA_WIDTH /\ i * VGA_WIDTH \in Int
      BY SizeFacts, SMT
    <3> QED BY <2>1, <2>2, <3>1, SizeFacts
  <2>5. i < VGA_HEIGHT => k + VGA_WIDTH \in Cells
    <3> SUFFICES ASSUME i < VGA_HEIGHT PROVE k + VGA_WIDTH \in Cells
      OBVIOUS
    <3>1. i \in 0 .. (VGA_HEIGHT - 1)
      BY SizeFacts
    <3>2. i * VGA_WIDTH + z \in Cells
      BY <2>1, <3>1, CellOf
    <3> QED BY <2>4, <3>2
  <2>6. ~(i < VGA_HEIGHT) => k + VGA_WIDTH \notin Cells
    <3> SUFFICES ASSUME i = VGA_HEIGHT PROVE k + VGA_WIDTH \notin Cells
      BY SizeFacts
    <3>1. i * VGA_WIDTH = SIZE
      BY SizeFacts, SMT DEF SIZE
    <3> QED BY <2>1, <2>4, <3>1, SizeFacts DEF Cells
  <2>7. scrolled(cells, col)[k] =
          IF k + VGA_WIDTH \in Cells THEN cells[k + VGA_WIDTH] ELSE Blank(col)
    BY <2>3 DEF scrolled
  <2> QED BY <2>2, <2>4, <2>5, <2>6, <2>7
<1>5. PICK c : c = scrolled(cells, col)
  OBVIOUS
<1>6. ASSUME NEW i \in 1 .. VGA_HEIGHT
      PROVE  Grid(c)[i] = IF i < VGA_HEIGHT THEN Grid(cells)[i + 1]
                          ELSE BlankLine(col)
  <2>1. Grid(c)[i] = [z \in Cols |-> c[(i - 1) * VGA_WIDTH + z]]
    BY DEF Grid
  <2>2. CASE i < VGA_HEIGHT
    <3>1. i + 1 \in 1 .. VGA_HEIGHT
      BY <2>2, SizeFacts
    <3>2. Grid(cells)[i + 1] = [z \in Cols |-> cells[((i + 1) - 1) * VGA_WIDTH + z]]
      BY <3>1 DEF Grid
    <3> QED BY <1>4, <1>5, <2>1, <2>2, <3>2
  <2>3. CASE ~(i < VGA_HEIGHT)
    BY <1>4, <1>5, <2>1, <2>3 DEF BlankLine
  <2> QED BY <2>2, <2>3
<1>7. Grid(c) = [i \in 1 .. VGA_HEIGHT |-> Grid(c)[i]]
  BY DEF Grid
<1> QED BY <1>3, <1>5, <1>6, <1>7

(* The operations of a terminal, on its three parts.  A new line.          *)
LEMMA TermNewLine ==
  ASSUME NEW g, NEW x, NEW y, NEW a
  PROVE  T!NewLine(Term(g, x, y), a) =
           IF y < VGA_HEIGHT THEN Term(g, 0, y + 1)
           ELSE Term(Append(Tail(g), BlankLine(a)), 0, y)
<1>1. PICK v : v = BlankLine(a)
  OBVIOUS
<1>2. v = T!BlankRow(T!Blank(a))
  BY <1>1 DEF BlankLine, Blank, T!Blank, T!BlankRow, T!Columns, Cols
<1>3. PICK s : s = Term(g, x, y)
  OBVIOUS
<1>4. s.rows = g /\ s.y = y
  BY <1>3 DEF Term
<1>5. [s EXCEPT !.x = 0, !.y = @ + 1] = Term(g, 0, y + 1)
  <2>1. PICK r : r = [s EXCEPT !.x = 0]
    OBVIOUS
  <2>2. [s EXCEPT !.x = 0, !.y = @ + 1] = [r EXCEPT !.y = s.y + 1]
    BY <2>1
  <2>3. r = Term(g, 0, y)
    BY <1>3, <2>1 DEF Term
  <2> QED BY <1>4, <2>2, <2>3 DEF Term
<1>6. [s EXCEPT !.x = 0, !.rows = Append(Tail(@), v)] = Term(Append(Tail(g), v), 0, y)
  <2>1. PICK r : r = [s EXCEPT !.x = 0]
    OBVIOUS
  <2>2. [s EXCEPT !.x = 0, !.rows = Append(Tail(@), v)] =
          [r EXCEPT !.rows = Append(Tail(s.rows), v)]
    BY <2>1
  <2>3. r = Term(g, 0, y)
    BY <1>3, <2>1 DEF Term
  <2> QED BY <1>4, <2>2, <2>3 DEF Term
<1>7. T!NewLine(s, a) = IF y < VGA_HEIGHT THEN Term(g, 0, y + 1)
                        ELSE Term(Append(Tail(g), v), 0, y)
  BY <1>2, <1>4, <1>5, <1>6 DEF T!NewLine
<1> QED BY <1>1, <1>3, <1>7

(* Printing a character.                                                   *)
LEMMA TermShow ==
  ASSUME NEW g, NEW x, NEW y, NEW c, NEW a
  PROVE  T!Show(Term(g, x, y), c, a) =
           IF x < VGA_WIDTH - 1 THEN Term(Written(g, y, x, Cell(c, a)), x + 1, y)
           ELSE T!NewLine(Term(Written(g, y, x, Cell(c, a)), x, y), a)
<1>1. PICK v : v = Cell(c, a)
  OBVIOUS
<1>2. v = [ch |-> c, attr |-> IF c \in HIGH THEN 255 ELSE a]
  BY <1>1 DEF Cell
<1>3. PICK h : h = Written(g, y, x, v)
  OBVIOUS
<1>4. PICK s : s = Term(g, x, y)
  OBVIOUS
<1>5. s.x = x /\ s.y = y /\ [s EXCEPT !.rows[y][x] = v] = Term(h, x, y)
  <2>1. [s EXCEPT !.rows[y][x] = v] = [s EXCEPT !.rows = [s.rows EXCEPT ![y][x] = v]]
    OBVIOUS
  <2> QED BY <1>3, <1>4, <2>1 DEF Term, Written
<1>6. PICK r : r = [s EXCEPT !.rows[y][x] = v]
  OBVIOUS
<1>7. T!Show(s, c, a) = IF x < VGA_WIDTH - 1 THEN [r EXCEPT !.x = @ + 1] ELSE T!NewLine(r, a)
  BY <1>2, <1>5, <1>6 DEF T!Show
<1>8. [r EXCEPT !.x = @ + 1] = Term(h, x + 1, y)
  <2>1. [r EXCEPT !.x = @ + 1] = [r EXCEPT !.x = r.x + 1]
    OBVIOUS
  <2>2. r = Term(h, x, y)
    BY <1>5, <1>6
  <2> QED BY <2>1, <2>2 DEF Term
<1> QED BY <1>1, <1>3, <1>4, <1>5, <1>6, <1>7, <1>8

(* A backspace.                                                            *)
LEMMA TermBack ==
  ASSUME NEW g, NEW x, NEW y, NEW a
  PROVE  T!Back(Term(g, x, y), a) =
           IF x = 0 /\ y = 1 THEN Term(g, x, y)
           ELSE IF x > 0 THEN Term(Written(g, y, x - 1, Blank(a)), x - 1, y)
           ELSE Term(Written(g, y - 1, VGA_WIDTH - 1, Blank(a)), VGA_WIDTH - 1, y - 1)
<1>1. PICK v : v = Blank(a)
  OBVIOUS
<1>2. v = T!Blank(a)
  BY <1>1 DEF Blank, T!Blank
<1>3. PICK s : s = Term(g, x, y)
  OBVIOUS
<1>4. s.x = x /\ s.y = y
  BY <1>3 DEF Term
<1>5. PICK b : b = IF s.x > 0 THEN [s EXCEPT !.x = @ - 1]
                   ELSE [s EXCEPT !.x = VGA_WIDTH - 1, !.y = @ - 1]
  OBVIOUS
<1>6. b = IF x > 0 THEN Term(g, x - 1, y) ELSE Term(g, VGA_WIDTH - 1, y - 1)
  <2>1. [s EXCEPT !.x = @ - 1] = [s EXCEPT !.x = s.x - 1]
    OBVIOUS
  <2>2. PICK r : r = [s EXCEPT !.x = VGA_WIDTH - 1]
    OBVIOUS
  <2>3. [s EXCEPT !.x = @ - 1] = Term(g, x - 1, y) /\ r = Term(g, VGA_WIDTH - 1, y)
    BY <1>3, <1>4, <2>1, <2>2 DEF Term
  <2>4. [s EXCEPT !.x = VGA_WIDTH - 1, !.y = @ - 1] = Term(g, VGA_WIDTH - 1, y - 1)
    <3>1. [s EXCEPT !.x = VGA_WIDTH - 1, !.y = @ - 1] = [r EXCEPT !.y = s.y - 1]
      BY <2>2
    <3> QED BY <1>4, <2>3, <3>1 DEF Term
  <2> QED BY <1>4, <1>5, <2>3, <2>4
<1>7. T!Back(s, a) = IF x = 0 /\ y = 1 THEN s ELSE [b EXCEPT !.rows[b.y][b.x] = v]
  BY <1>2, <1>4, <1>5 DEF T!Back
<1>8. [b EXCEPT !.rows[b.y][b.x] = v] = [b EXCEPT !.rows = [b.rows EXCEPT ![b.y][b.x] = v]]
  OBVIOUS
<1>9. CASE x > 0
  <2>1. b.rows = g /\ b.x = x - 1 /\ b.y = y
    BY <1>6, <1>9 DEF Term
  <2>2. [b EXCEPT !.rows[b.y][b.x] = v] = Term(Written(g, y, x - 1, v), x - 1, y)
    BY <1>6, <1>8, <1>9, <2>1 DEF Term, Written
  <2> QED BY <1>1, <1>3, <1>7, <1>9, <2>2
<1>10. CASE ~(x > 0)
  <2>1. b.rows = g /\ b.x = VGA_WIDTH - 1 /\ b.y = y - 1
    BY <1>6, <1>10 DEF Term
  <2>2. [b EXCEPT !.rows[b.y][b.x] = v] =
          Term(Written(g, y - 1, VGA_WIDTH - 1, v), VGA_WIDTH - 1, y - 1)
    BY <1>6, <1>8, <1>10, <2>1 DEF Term, Written
  <2> QED BY <1>1, <1>3, <1>7, <1>10, <2>2
<1> QED BY <1>9, <1>10

(* Erasing a row.                                                          *)
LEMMA TermErase ==
  ASSUME NEW g, NEW x, NEW y, NEW a
  PROVE  T!Erase(Term(g, x, y), a) =
           IF y < VGA_HEIGHT THEN Term(Erased(g, y, a), 0, y)
           ELSE T!NewLine(Term(Erased(g, y, a), 0, y), a)
<1>1. PICK v : v = BlankLine(a)
  OBVIOUS
<1>2. v = T!BlankRow(T!Blank(a))
  BY <1>1 DEF BlankLine, Blank, T!Blank, T!BlankRow, T!Columns, Cols
<1>3. PICK s : s = Term(g, x, y)
  OBVIOUS
<1>4. s.y = y /\ [s EXCEPT !.x = 0, !.rows[y] = v] = Term([g EXCEPT ![y] = v], 0, y)
  <2>1. PICK r : r = [s EXCEPT !.x = 0]
    OBVIOUS
  <2>2. [s EXCEPT !.x = 0, !.rows[y] = v] = [r EXCEPT !.rows = [s.rows EXCEPT ![y] = v]]
    BY <2>1
  <2>3. r = Term(g, 0, y) /\ s.y = y /\ s.rows = g
    BY <1>3, <2>1 DEF Term
  <2> QED BY <2>2, <2>3 DEF Term
<1>5. T!Erase(s, a) = IF y < VGA_HEIGHT THEN Term([g EXCEPT ![y] = v], 0, y)
                      ELSE T!NewLine(Term([g EXCEPT ![y] = v], 0, y), a)
  BY <1>2, <1>4 DEF T!Erase
<1> QED BY <1>1, <1>3, <1>5 DEF Erased

---------------------------------------------------------------------------
(* Each operation on the screen is the operation of the terminal.          *)

(* The cursor at a row and a column.                                       *)
LEMMA ShownAt ==
  ASSUME NEW s, DOMAIN s.cells = Cells, NEW x \in Cols, NEW y \in RowNumbers
  PROVE  Shown(VGA_SetCursor(s, x, y)) = Term(Grid(s.cells), x, y + 1)
<1>1. x \in Int /\ y \in Int /\ y \in Nat /\ Clamp(x, VGA_WIDTH) = x /\ Clamp(y, VGA_HEIGHT) = y
  BY SizeFacts DEF Cols, RowNumbers, Clamp
<1>2. PICK r : r = VGA_SetCursor(s, x, y)
  OBVIOUS
<1>3. VGA_GetCursorPosition(r) = y * VGA_WIDTH + x /\ r.cells = s.cells
  BY <1>1, <1>2, SetCursorGood
<1>4. VGA_GetCursorPosition(r) % VGA_WIDTH = x /\ VGA_GetCursorPosition(r) \div VGA_WIDTH = y
  BY <1>1, <1>3, PlaceOf
<1> QED BY <1>2, <1>3, <1>4 DEF Shown

(* The cursor behind the last cell, where its row is clamped.              *)
LEMMA BehindLast ==
  ASSUME NEW s
  PROVE  SetCursorTo(s, SIZE) = VGA_SetCursor(s, 0, VGA_HEIGHT - 1)
<1>1. SIZE = VGA_HEIGHT * VGA_WIDTH + 0
  BY SizeFacts, SMT DEF SIZE
<1>2. 0 \in Cols /\ VGA_HEIGHT \in Nat
  BY SizeFacts DEF Cols
<1>3. SIZE % VGA_WIDTH = 0 /\ SIZE \div VGA_WIDTH = VGA_HEIGHT
  BY <1>1, <1>2, PlaceOf
<1>4. Clamp(VGA_HEIGHT, VGA_HEIGHT) = VGA_HEIGHT - 1
      /\ Clamp(VGA_HEIGHT - 1, VGA_HEIGHT) = VGA_HEIGHT - 1
  BY SizeFacts DEF Clamp
<1>5. VGA_SetCursor(s, 0, VGA_HEIGHT) = VGA_SetCursor(s, 0, VGA_HEIGHT - 1)
  BY <1>4 DEF VGA_SetCursor
<1> QED BY <1>3, <1>5 DEF SetCursorTo

(* A screen whose cursor is in column x of row y, counted from 0.          *)
At(s, x, y) ==
  /\ DOMAIN s.cells = Cells /\ x \in Cols /\ y \in RowNumbers
  /\ VGA_GetCursorPosition(s) = y * VGA_WIDTH + x

(* The cursor of every good screen is somewhere.                           *)
LEMMA SomeWhere ==
  ASSUME NEW s, GoodScreen(s)
  PROVE  \E x, y : At(s, x, y)
<1>1. PICK p : p = VGA_GetCursorPosition(s)
  OBVIOUS
<1>2. p \in Cells /\ DOMAIN s.cells = Cells
  BY <1>1 DEF GoodScreen
<1>3. p % VGA_WIDTH \in Cols /\ p \div VGA_WIDTH \in RowNumbers
      /\ p = (p \div VGA_WIDTH) * VGA_WIDTH + (p % VGA_WIDTH)
  BY <1>2, CellPlace
<1> QED BY <1>1, <1>2, <1>3 DEF At

(* What is shown then.                                                     *)
LEMMA ShownIs ==
  ASSUME NEW s, NEW x, NEW y, At(s, x, y)
  PROVE  /\ Shown(s) = Term(Grid(s.cells), x, y + 1)
         /\ VGA_GetCursorPosition(s) \div VGA_WIDTH = y
         /\ y \in Nat /\ y + 1 <= VGA_HEIGHT /\ x \in Nat /\ x <= VGA_WIDTH - 1
<1>1. y \in RowNumbers /\ x \in Cols /\ VGA_GetCursorPosition(s) = y * VGA_WIDTH + x
  BY DEF At
<1>2. y \in Nat /\ y + 1 <= VGA_HEIGHT /\ x \in Nat /\ x <= VGA_WIDTH - 1
  BY <1>1, SizeFacts DEF RowNumbers, Cols
<1>3. (y * VGA_WIDTH + x) % VGA_WIDTH = x /\ (y * VGA_WIDTH + x) \div VGA_WIDTH = y
  BY <1>1, <1>2, PlaceOf
<1> QED BY <1>1, <1>2, <1>3 DEF Shown

(* A newline.                                                              *)
LEMMA NewlineShown ==
  ASSUME NEW s, GoodScreen(s), NEW col
  PROVE  Shown(Newline(s, col)) = T!NewLine(Shown(s), col)
<1>1. PICK x, y : At(s, x, y)
  BY SomeWhere
<1>2. /\ Shown(s) = Term(Grid(s.cells), x, y + 1)
      /\ VGA_GetCursorPosition(s) \div VGA_WIDTH = y
      /\ y \in Nat /\ y + 1 <= VGA_HEIGHT
  BY <1>1, ShownIs
<1>3. DOMAIN s.cells = Cells /\ 0 \in Cols
  BY <1>1, SizeFacts DEF At, Cols
<1>4. CASE y >= VGA_HEIGHT - 1
  <2>1. ~(y + 1 < VGA_HEIGHT) /\ y + 1 = VGA_HEIGHT /\ (VGA_HEIGHT - 1) + 1 = y + 1
        /\ VGA_HEIGHT - 1 \in RowNumbers
    BY <1>2, <1>4, SizeFacts DEF RowNumbers
  <2>2. PICK r : r = scroll(s, col)
    OBVIOUS
  <2>3. DOMAIN r.cells = Cells /\ r.cells = scrolled(s.cells, col)
    BY <2>2 DEF scroll, scrolled
  <2>4. Newline(s, col) = VGA_SetCursor(r, 0, VGA_HEIGHT - 1)
    BY <1>2, <1>4, <2>2 DEF Newline
  <2>5. Shown(Newline(s, col)) = Term(Grid(r.cells), 0, (VGA_HEIGHT - 1) + 1)
    BY <1>3, <2>1, <2>3, <2>4, ShownAt
  <2>6. Grid(r.cells) = Append(Tail(Grid(s.cells)), BlankLine(col))
    BY <1>3, <2>3, GridScroll
  <2>7. T!NewLine(Shown(s), col) =
          Term(Append(Tail(Grid(s.cells)), BlankLine(col)), 0, y + 1)
    <3>1. PICK g : g = Grid(s.cells)
      OBVIOUS
    <3>2. T!NewLine(Term(g, x, y + 1), col) = Term(Append(Tail(g), BlankLine(col)), 0, y + 1)
      BY <2>1, TermNewLine
    <3> QED BY <1>2, <3>1, <3>2
  <2> QED BY <2>1, <2>5, <2>6, <2>7
<1>5. CASE ~(y >= VGA_HEIGHT - 1)
  <2>1. y + 1 < VGA_HEIGHT /\ y + 1 \in RowNumbers
    BY <1>2, <1>5, SizeFacts DEF RowNumbers
  <2>2. Newline(s, col) = VGA_SetCursor(s, 0, y + 1)
    BY <1>2, <1>5 DEF Newline
  <2>3. Shown(Newline(s, col)) = Term(Grid(s.cells), 0, (y + 1) + 1)
    BY <1>3, <2>1, <2>2, ShownAt
  <2>4. T!NewLine(Shown(s), col) = Term(Grid(s.cells), 0, (y + 1) + 1)
    <3>1. PICK g : g = Grid(s.cells)
      OBVIOUS
    <3>2. T!NewLine(Term(g, x, y + 1), col) = Term(g, 0, (y + 1) + 1)
      BY <2>1, TermNewLine
    <3> QED BY <1>2, <3>1, <3>2
  <2> QED BY <2>3, <2>4
<1> QED BY <1>4, <1>5

(* Moving the cursor leaves a screen with the cursor there.                *)
LEMMA AtCursor ==
  ASSUME NEW s, DOMAIN s.cells = Cells, NEW x \in Cols, NEW y \in RowNumbers
  PROVE  At(VGA_SetCursor(s, x, y), x, y) /\ VGA_SetCursor(s, x, y).cells = s.cells
<1>1. x \in Int /\ y \in Int /\ Clamp(x, VGA_WIDTH) = x /\ Clamp(y, VGA_HEIGHT) = y
  BY SizeFacts DEF Cols, RowNumbers, Clamp
<1>2. PICK r : r = VGA_SetCursor(s, x, y)
  OBVIOUS
<1>3. VGA_GetCursorPosition(r) = y * VGA_WIDTH + x /\ r.cells = s.cells
  BY <1>1, <1>2, SetCursorGood
<1> QED BY <1>2, <1>3 DEF At

(* The cursor after a character: in the next column, or in the first one   *)
(* of the next row, or, behind the last cell, of the last row again.       *)
LEMMA CursorAfter ==
  ASSUME NEW s, DOMAIN s.cells = Cells, NEW x \in Cols, NEW y \in RowNumbers,
         NEW next, next = (y * VGA_WIDTH + x) + 1
  PROVE  /\ x < VGA_WIDTH - 1 => At(SetCursorTo(s, next), x + 1, y) /\ ~BeyondLast(next)
         /\ ~(x < VGA_WIDTH - 1) /\ y + 1 < VGA_HEIGHT =>
              At(SetCursorTo(s, next), 0, y + 1) /\ ~BeyondLast(next)
         /\ ~(x < VGA_WIDTH - 1) /\ ~(y + 1 < VGA_HEIGHT) =>
              At(SetCursorTo(s, next), 0, y) /\ BeyondLast(next)
         /\ SetCursorTo(s, next).cells = s.cells
<1>1. y \in Nat /\ x \in Nat /\ x <= VGA_WIDTH - 1 /\ y + 1 <= VGA_HEIGHT
  BY SizeFacts DEF Cols, RowNumbers
<1>2. y * VGA_WIDTH \in Nat /\ (y + 1) * VGA_WIDTH = y * VGA_WIDTH + VGA_WIDTH
      /\ VGA_HEIGHT * VGA_WIDTH = SIZE
  BY <1>1, SizeFacts, SMT DEF SIZE
<1>3. next \in Nat
  BY <1>1, <1>2
<1>4. SetCursorTo(s, next).cells = s.cells
  BY <1>3, SetCursorToGood
<1>5. ASSUME NEW i \in Cols, NEW j \in RowNumbers, next = j * VGA_WIDTH + i
      PROVE  At(SetCursorTo(s, next), i, j) /\ ~BeyondLast(next)
  <2>1. j \in Nat /\ i \in 0 .. (VGA_WIDTH - 1) /\ j \in 0 .. (VGA_HEIGHT - 1)
    BY SizeFacts DEF RowNumbers, Cols
  <2>2. next % VGA_WIDTH = i /\ next \div VGA_WIDTH = j
    BY <1>5, <2>1, PlaceOf
  <2>3. SetCursorTo(s, next) = VGA_SetCursor(s, i, j)
    BY <2>2 DEF SetCursorTo
  <2>4. next \in Cells
    BY <1>5, <2>1, CellOf
  <2>5. ~BeyondLast(next)
    BY <2>4, SizeFacts DEF BeyondLast, Cells
  <2> QED BY <2>3, <2>5, AtCursor
<1>6. CASE x < VGA_WIDTH - 1
  <2>1. x + 1 \in Cols /\ next = y * VGA_WIDTH + (x + 1)
    BY <1>1, <1>2, <1>6, SizeFacts DEF Cols
  <2> QED BY <1>4, <1>5, <1>6, <2>1
<1>7. CASE ~(x < VGA_WIDTH - 1) /\ y + 1 < VGA_HEIGHT
  <2>1. 0 \in Cols /\ y + 1 \in RowNumbers
    BY <1>1, <1>7, SizeFacts DEF Cols, RowNumbers
  <2>2. next = (y + 1) * VGA_WIDTH + 0
    BY <1>1, <1>2, <1>7, SizeFacts
  <2> QED BY <1>4, <1>5, <1>7, <2>1, <2>2
<1>8. CASE ~(x < VGA_WIDTH - 1) /\ ~(y + 1 < VGA_HEIGHT)
  <2>1. y + 1 = VGA_HEIGHT /\ x = VGA_WIDTH - 1 /\ 0 \in Cols
    BY <1>1, <1>8, SizeFacts DEF Cols
  <2>2. next = SIZE
    BY <1>1, <1>2, <2>1, SizeFacts
  <2>3. BeyondLast(next)
    BY <2>2, SizeFacts DEF BeyondLast
  <2>4. SetCursorTo(s, SIZE) = VGA_SetCursor(s, 0, VGA_HEIGHT - 1)
    BY BehindLast
  <2>5. VGA_HEIGHT - 1 = y
    BY <1>1, <2>1, SizeFacts
  <2> QED BY <1>4, <1>8, <2>1, <2>2, <2>3, <2>4, <2>5, AtCursor
<1> QED BY <1>6, <1>7, <1>8

(* A screen with the rows h after a character was written in column x of   *)
(* row y: where the cursor is, and whether the screen scrolled.            *)
After(r, x, y, h, col) ==
  /\ x < VGA_WIDTH - 1 => At(r, x + 1, y) /\ Grid(r.cells) = h
  /\ ~(x < VGA_WIDTH - 1) /\ y + 1 < VGA_HEIGHT => At(r, 0, y + 1) /\ Grid(r.cells) = h
  /\ ~(x < VGA_WIDTH - 1) /\ ~(y + 1 < VGA_HEIGHT) =>
       At(r, 0, y) /\ Grid(r.cells) = Append(Tail(h), BlankLine(col))

(* A character that is shown.                                              *)
LEMMA GlyphIs ==
  ASSUME NEW s, NEW x, NEW y, At(s, x, y), NEW c, NEW col
  PROVE  After(Glyph(s, c, col), x, y, Written(Grid(s.cells), y + 1, x, Cell(c, col)), col)
<1> DEFINE h == Written(Grid(s.cells), y + 1, x, Cell(c, col))
<1> HIDE DEF h
<1>1. /\ DOMAIN s.cells = Cells /\ x \in Cols /\ y \in RowNumbers
      /\ VGA_GetCursorPosition(s) = y * VGA_WIDTH + x
  BY DEF At
<1>2. PICK next : next = (y * VGA_WIDTH + x) + 1
  OBVIOUS
<1>3. PICK cells : cells = [s.cells EXCEPT ![y * VGA_WIDTH + x] = Cell(c, col)]
  OBVIOUS
<1>4. y * VGA_WIDTH + x = next - 1
  <2>1. y * VGA_WIDTH + x \in Cells
    BY <1>1, CellOf DEF Cols, RowNumbers
  <2>2. y * VGA_WIDTH + x \in Int
    BY <2>1 DEF Cells
  <2> QED BY <1>2, <2>2
<1>5. DOMAIN cells = Cells /\ Grid(cells) = h
  BY <1>1, <1>3, GridWrite DEF h
<1>6. PICK w : w = [cells |-> IF BeyondLast(next) THEN scrolled(cells, col) ELSE cells,
                    lo |-> s.lo, hi |-> s.hi]
  OBVIOUS
<1>7. w.cells = IF BeyondLast(next) THEN scrolled(cells, col) ELSE cells
  BY <1>6
<1>8. DOMAIN w.cells = Cells
  BY <1>5, <1>7 DEF scrolled
<1>9. Glyph(s, c, col) = SetCursorTo(w, next)
  BY <1>1, <1>2, <1>3, <1>4, <1>6 DEF Glyph
<1>10. /\ x < VGA_WIDTH - 1 => At(SetCursorTo(w, next), x + 1, y) /\ ~BeyondLast(next)
       /\ ~(x < VGA_WIDTH - 1) /\ y + 1 < VGA_HEIGHT =>
            At(SetCursorTo(w, next), 0, y + 1) /\ ~BeyondLast(next)
       /\ ~(x < VGA_WIDTH - 1) /\ ~(y + 1 < VGA_HEIGHT) =>
            At(SetCursorTo(w, next), 0, y) /\ BeyondLast(next)
       /\ SetCursorTo(w, next).cells = w.cells
  BY <1>1, <1>2, <1>8, CursorAfter
<1>11. Grid(scrolled(cells, col)) = Append(Tail(h), BlankLine(col))
  BY <1>5, GridScroll
<1>12. After(SetCursorTo(w, next), x, y, h, col)
  BY <1>5, <1>7, <1>10, <1>11 DEF After
<1> QED BY <1>9, <1>12 DEF h

(* So a character is shown as on a terminal.                               *)
LEMMA GlyphShown ==
  ASSUME NEW s, GoodScreen(s), NEW c, NEW col
  PROVE  Shown(Glyph(s, c, col)) = T!Show(Shown(s), c, col)
<1>1. PICK x, y : At(s, x, y)
  BY SomeWhere
<1>2. PICK g : g = Grid(s.cells)
  OBVIOUS
<1>3. PICK h : h = Written(g, y + 1, x, Cell(c, col))
  OBVIOUS
<1>4. Shown(s) = Term(g, x, y + 1) /\ y \in Nat /\ y + 1 <= VGA_HEIGHT
  BY <1>1, <1>2, ShownIs
<1>5. T!Show(Term(g, x, y + 1), c, col) =
        IF x < VGA_WIDTH - 1 THEN Term(h, x + 1, y + 1)
        ELSE T!NewLine(Term(h, x, y + 1), col)
  BY <1>3, TermShow
<1>6. T!NewLine(Term(h, x, y + 1), col) =
        IF y + 1 < VGA_HEIGHT THEN Term(h, 0, (y + 1) + 1)
        ELSE Term(Append(Tail(h), BlankLine(col)), 0, y + 1)
  BY TermNewLine
<1>7. PICK r : r = Glyph(s, c, col)
  OBVIOUS
<1>8. /\ x < VGA_WIDTH - 1 => At(r, x + 1, y) /\ Grid(r.cells) = h
      /\ ~(x < VGA_WIDTH - 1) /\ y + 1 < VGA_HEIGHT => At(r, 0, y + 1) /\ Grid(r.cells) = h
      /\ ~(x < VGA_WIDTH - 1) /\ ~(y + 1 < VGA_HEIGHT) =>
           At(r, 0, y) /\ Grid(r.cells) = Append(Tail(h), BlankLine(col))
  <2>1. After(r, x, y, Written(Grid(s.cells), y + 1, x, Cell(c, col)), col)
    BY <1>1, <1>7, GlyphIs
  <2>2. After(r, x, y, h, col)
    BY <1>2, <1>3, <2>1
  <2> QED BY <2>2 DEF After
<1>9. CASE x < VGA_WIDTH - 1
  <2>1. Shown(r) = Term(Grid(r.cells), x + 1, y + 1)
    BY <1>8, <1>9, ShownIs
  <2> QED BY <1>4, <1>5, <1>7, <1>8, <1>9, <2>1
<1>10. CASE ~(x < VGA_WIDTH - 1) /\ y + 1 < VGA_HEIGHT
  <2>1. Shown(r) = Term(Grid(r.cells), 0, (y + 1) + 1)
    BY <1>8, <1>10, ShownIs
  <2> QED BY <1>4, <1>5, <1>6, <1>7, <1>8, <1>10, <2>1
<1>11. CASE ~(x < VGA_WIDTH - 1) /\ ~(y + 1 < VGA_HEIGHT)
  <2>1. Shown(r) = Term(Grid(r.cells), 0, y + 1)
    BY <1>8, <1>11, ShownIs
  <2> QED BY <1>4, <1>5, <1>6, <1>7, <1>8, <1>11, <2>1
<1> QED BY <1>9, <1>10, <1>11

(* A backspace.                                                            *)
LEMMA BackspaceShown ==
  ASSUME NEW s, GoodScreen(s), NEW col
  PROVE  Shown(Backspace(s, col)) = T!Back(Shown(s), col)
<1>1. PICK x, y : At(s, x, y)
  BY SomeWhere
<1>2. PICK g : g = Grid(s.cells)
  OBVIOUS
<1>3. /\ Shown(s) = Term(g, x, y + 1) /\ y \in Nat /\ y + 1 <= VGA_HEIGHT
      /\ x \in Nat /\ x <= VGA_WIDTH - 1
  BY <1>1, <1>2, ShownIs
<1>4. PICK p : p = VGA_GetCursorPosition(s)
  OBVIOUS
<1>5. DOMAIN s.cells = Cells /\ p = y * VGA_WIDTH + x /\ y * VGA_WIDTH \in Nat
  BY <1>1, <1>3, <1>4, SizeFacts, TimesMonotone DEF At
<1>6. T!Back(Term(g, x, y + 1), col) =
        IF x = 0 /\ y + 1 = 1 THEN Term(g, x, y + 1)
        ELSE IF x > 0 THEN Term(Written(g, y + 1, x - 1, Blank(col)), x - 1, y + 1)
        ELSE Term(Written(g, (y + 1) - 1, VGA_WIDTH - 1, Blank(col)), VGA_WIDTH - 1, (y + 1) - 1)
  BY TermBack
<1>7. ASSUME NEW i \in Cols, NEW j \in RowNumbers, p - 1 = j * VGA_WIDTH + i, p # 0
      PROVE  Shown(Backspace(s, col)) = Term(Written(g, j + 1, i, Blank(col)), i, j + 1)
  <2>1. PICK b : b = SetCursorTo(s, p - 1)
    OBVIOUS
  <2>2. (p - 1) % VGA_WIDTH = i /\ (p - 1) \div VGA_WIDTH = j
    <3>1. j \in Nat
      BY SizeFacts DEF RowNumbers
    <3> QED BY <1>7, <3>1, PlaceOf
  <2>3. b = VGA_SetCursor(s, i, j)
    BY <2>1, <2>2 DEF SetCursorTo
  <2>4. At(b, i, j) /\ b.cells = s.cells
    BY <1>5, <2>3, AtCursor
  <2>5. PICK r : r = WithCell(b, p - 1, Blank(col))
    OBVIOUS
  <2>6. r.cells = [s.cells EXCEPT ![p - 1] = Blank(col)] /\ r.lo = b.lo /\ r.hi = b.hi
    BY <2>4, <2>5 DEF WithCell
  <2>7. VGA_GetCursorPosition(r) = VGA_GetCursorPosition(b) /\ DOMAIN r.cells = Cells
    BY <1>5, <2>6 DEF VGA_GetCursorPosition
  <2>8. At(r, i, j)
    BY <2>4, <2>7 DEF At
  <2>9. Grid(r.cells) = Written(g, j + 1, i, Blank(col))
    BY <1>2, <1>5, <1>7, <2>6, GridWrite
  <2>10. Shown(r) = Term(Grid(r.cells), i, j + 1)
    BY <2>8, ShownIs
  <2>11. Backspace(s, col) = r
    BY <1>4, <1>7, <2>1, <2>5 DEF Backspace
  <2> QED BY <2>9, <2>10, <2>11
<1>8. CASE x = 0 /\ y = 0
  <2>1. p = 0
    BY <1>5, <1>8, SizeFacts
  <2>2. Backspace(s, col) = s
    BY <1>4, <2>1 DEF Backspace
  <2> QED BY <1>3, <1>6, <1>8, <2>2
<1>9. CASE x > 0
  <2>1. x - 1 \in Cols /\ y \in RowNumbers /\ p - 1 = y * VGA_WIDTH + (x - 1) /\ p # 0
    BY <1>3, <1>5, <1>9, SizeFacts DEF Cols, RowNumbers
  <2>2. Shown(Backspace(s, col)) = Term(Written(g, y + 1, x - 1, Blank(col)), x - 1, y + 1)
    BY <1>7, <2>1
  <2>3. ~(x = 0)
    BY <1>9
  <2> QED BY <1>3, <1>6, <1>9, <2>2, <2>3
<1>10. CASE x = 0 /\ y > 0
  <2>1. VGA_WIDTH - 1 \in Cols /\ y - 1 \in RowNumbers /\ (y + 1) - 1 = (y - 1) + 1
        /\ ~(y + 1 = 1) /\ ~(x > 0)
    BY <1>3, <1>10, SizeFacts DEF Cols, RowNumbers
  <2>2. y * VGA_WIDTH = (y - 1) * VGA_WIDTH + VGA_WIDTH /\ (y - 1) * VGA_WIDTH \in Nat
    <3>1. y - 1 \in Nat
      BY <1>3, <1>10
    <3>2. (y - 1) * VGA_WIDTH \in Nat
      BY <3>1, SizeFacts, TimesMonotone
    <3>3. y * VGA_WIDTH = (y - 1) * VGA_WIDTH + VGA_WIDTH
      BY <1>3, SizeFacts, SMT
    <3> QED BY <3>2, <3>3
  <2>3. p - 1 = (y - 1) * VGA_WIDTH + (VGA_WIDTH - 1) /\ p # 0
    BY <1>5, <1>10, <2>2, SizeFacts
  <2>4. Shown(Backspace(s, col)) =
          Term(Written(g, (y - 1) + 1, VGA_WIDTH - 1, Blank(col)), VGA_WIDTH - 1, (y - 1) + 1)
    BY <1>7, <2>1, <2>3
  <2> QED BY <1>3, <1>6, <2>1, <2>4
<1> QED BY <1>3, <1>8, <1>9, <1>10

(* The first n cells of a row erased.                                      *)
Filled(rows, y, n, col) ==
  [rows EXCEPT ![y] = [z \in Cols |-> IF z < n THEN Blank(col) ELSE rows[y][z]]]

(* Erasing a row cell by cell.                                             *)
LEMMA FillRow ==
  ASSUME NEW cells, NEW g, g = Grid(cells), NEW y \in 1 .. VGA_HEIGHT, NEW col
  PROVE  /\ Filled(g, y, 0, col) = g
         /\ \A n \in Cols :
              Written(Filled(g, y, n, col), y, n, Blank(col)) = Filled(g, y, n + 1, col)
         /\ Filled(g, y, VGA_WIDTH, col) = Erased(g, y, col)
<1>1. PICK row : row = [z \in Cols |-> cells[(y - 1) * VGA_WIDTH + z]]
  OBVIOUS
<1>2. g[y] = row /\ g = [i \in 1 .. VGA_HEIGHT |-> g[i]]
  BY <1>1 DEF Grid
<1>3. \A z \in Cols : z \in Int /\ ~(z < 0) /\ z < VGA_WIDTH
  BY SizeFacts DEF Cols
<1>4. Filled(g, y, 0, col) = g
  <2>1. [z \in Cols |-> IF z < 0 THEN Blank(col) ELSE g[y][z]] = row
    BY <1>1, <1>2, <1>3
  <2>2. [g EXCEPT ![y] = row] = g
    BY <1>2
  <2> QED BY <2>1, <2>2 DEF Filled
<1>5. ASSUME NEW n \in Cols
      PROVE  Written(Filled(g, y, n, col), y, n, Blank(col)) = Filled(g, y, n + 1, col)
  <2>1. PICK r : r = [z \in Cols |-> IF z < n THEN Blank(col) ELSE g[y][z]]
    OBVIOUS
  <2>2. PICK h : h = [g EXCEPT ![y] = r]
    OBVIOUS
  <2>3. Filled(g, y, n, col) = h /\ h[y] = r
    BY <1>2, <2>1, <2>2 DEF Filled
  <2>4. \A z \in Cols : z < n + 1 <=> z < n \/ z = n
    BY <1>3
  <2>5. [r EXCEPT ![n] = Blank(col)] =
          [z \in Cols |-> IF z < n + 1 THEN Blank(col) ELSE g[y][z]]
    BY <2>1, <2>4
  <2>6. PICK q : q = [z \in Cols |-> IF z < n + 1 THEN Blank(col) ELSE g[y][z]]
    OBVIOUS
  <2>7. Written(h, y, n, Blank(col)) = [h EXCEPT ![y] = [h[y] EXCEPT ![n] = Blank(col)]]
    BY DEF Written
  <2>8. Written(h, y, n, Blank(col)) = [h EXCEPT ![y] = q]
    BY <2>3, <2>5, <2>6, <2>7
  <2>9. [h EXCEPT ![y] = q] = [g EXCEPT ![y] = q]
    BY <1>2, <2>2
  <2> QED BY <2>3, <2>6, <2>8, <2>9 DEF Filled
<1>6. Filled(g, y, VGA_WIDTH, col) = Erased(g, y, col)
  <2>1. [z \in Cols |-> IF z < VGA_WIDTH THEN Blank(col) ELSE g[y][z]] = BlankLine(col)
    BY <1>3 DEF BlankLine
  <2> QED BY <2>1 DEF Filled, Erased
<1> QED BY <1>4, <1>5, <1>6

(* A space.                                                                *)
LEMMA SpaceIs ==
  ASSUME NEW s, NEW x, NEW y, At(s, x, y), NEW col
  PROVE  VGA_Putc(s, " ", col) = Glyph(s, " ", col) /\ Cell(" ", col) = Blank(col)
<1>1. /\ x \in 0 .. (VGA_WIDTH - 1) /\ y \in 0 .. (VGA_HEIGHT - 1)
      /\ VGA_GetCursorPosition(s) = y * VGA_WIDTH + x
  BY DEF At, Cols, RowNumbers
<1>2. VGA_GetCursorPosition(s) \in Cells
  BY <1>1, CellOf
<1>3. ~(VGA_GetCursorPosition(s) >= SIZE)
  BY <1>2, SizeFacts DEF Cells
<1>4. Put(s, " ", col) = Glyph(s, " ", col)
  BY DEF Put, NL, TAB, BS
<1>5. Cell(" ", col) = Blank(col)
  <2>1. " " \notin HIGH
    BY TextAssumption
  <2> QED BY <2>1 DEF Cell, Blank
<1> QED BY <1>3, <1>4, <1>5 DEF VGA_Putc

(* The row while rmline's loop is writing it.                              *)
LEMMA SpacesShown ==
  ASSUME NEW a, NEW y, At(a, 0, y), NEW col, NEW k \in Nat, NEW g, SpacesFrom(a, col, k, g),
         NEW G, G = Grid(a.cells)
  PROVE  \A n \in 0 .. k : n \in Cols =>
           At(g[n], n, y) /\ Grid(g[n].cells) = Filled(G, y + 1, n, col)
<1> DEFINE Right(n) == At(g[n], n, y) /\ Grid(g[n].cells) = Filled(G, y + 1, n, col)
           Bad == {n \in 0 .. k : n \in Cols /\ ~Right(n)}
<1>1. SUFFICES ASSUME Bad # {} PROVE FALSE
  OBVIOUS
<1>2. PICK n \in Bad : \A m \in Bad : n <= m
  <2>1. Bad \subseteq Nat
    BY SMT
  <2> QED BY <1>1, <2>1, LeastNat, Zenon
<1>3. n \in 0 .. k /\ n \in Nat /\ n \in Cols /\ ~Right(n)
  BY SMT
<1>4. g[n] = IF n = 0 THEN a ELSE VGA_Putc(g[n - 1], " ", col)
  BY <1>3 DEF SpacesFrom
<1>5. y + 1 \in 1 .. VGA_HEIGHT
  BY SizeFacts DEF At, RowNumbers
<1>6. /\ Filled(G, y + 1, 0, col) = G
      /\ \A m \in Cols : Written(Filled(G, y + 1, m, col), y + 1, m, Blank(col)) =
                           Filled(G, y + 1, m + 1, col)
  BY <1>5, FillRow
<1>7. n # 0
  BY <1>3, <1>4, <1>6
<1>8. PICK m : m = n - 1
  OBVIOUS
<1>9. m \in 0 .. k /\ m \in Cols /\ ~(n <= m) /\ m + 1 = n /\ m < VGA_WIDTH - 1
  BY <1>3, <1>7, <1>8, SizeFacts DEF Cols
<1>10. Right(m)
  BY <1>2, <1>9
<1>11. g[n] = Glyph(g[m], " ", col) /\ Cell(" ", col) = Blank(col)
  BY <1>4, <1>7, <1>8, <1>10, SpaceIs
<1>12. PICK s, r : s = g[m] /\ r = g[n]
  OBVIOUS
<1>13. At(s, m, y) /\ Grid(s.cells) = Filled(G, y + 1, m, col) /\ r = Glyph(s, " ", col)
  BY <1>10, <1>11, <1>12
<1>14. PICK h : h = Written(Grid(s.cells), y + 1, m, Cell(" ", col))
  OBVIOUS
<1>15. At(r, m + 1, y) /\ Grid(r.cells) = h
  <2>1. After(r, m, y, h, col)
    BY <1>13, <1>14, GlyphIs
  <2> QED BY <1>9, <2>1 DEF After
<1>16. h = Filled(G, y + 1, m + 1, col)
  BY <1>6, <1>9, <1>11, <1>13, <1>14
<1> QED BY <1>3, <1>9, <1>12, <1>15, <1>16

(* Erasing the row of the cursor.                                          *)
LEMMA RmlineShown ==
  ASSUME NEW s, GoodScreen(s), NEW col
  PROVE  Shown(rmline(s, col)) = T!Erase(Shown(s), col)
<1>1. PICK x, y : At(s, x, y)
  BY SomeWhere
<1>2. PICK G : G = Grid(s.cells)
  OBVIOUS
<1>3. /\ Shown(s) = Term(G, x, y + 1) /\ VGA_GetCursorPosition(s) \div VGA_WIDTH = y
      /\ y \in Nat /\ y + 1 <= VGA_HEIGHT
  BY <1>1, <1>2, ShownIs
<1>4. PICK g : /\ SpacesFrom(VGA_SetCursor(s, 0, y), col, VGA_WIDTH, g)
               /\ rmline(s, col) = VGA_SetCursor(g[VGA_WIDTH], 0, y)
  BY <1>3, RmlineUnfolds
<1>5. DOMAIN s.cells = Cells /\ 0 \in Cols /\ y \in RowNumbers /\ y + 1 \in 1 .. VGA_HEIGHT
  BY <1>1, <1>3, SizeFacts DEF At, Cols
<1>6. PICK a : a = VGA_SetCursor(s, 0, y)
  OBVIOUS
<1>7. At(a, 0, y) /\ Grid(a.cells) = G
  BY <1>2, <1>5, <1>6, AtCursor
<1>8. PICK m : m = VGA_WIDTH - 1
  OBVIOUS
<1>9. /\ m \in Cols /\ m \in 0 .. VGA_WIDTH /\ m + 1 = VGA_WIDTH /\ ~(m < VGA_WIDTH - 1)
      /\ VGA_WIDTH \in Nat /\ VGA_WIDTH \in 0 .. VGA_WIDTH /\ VGA_WIDTH # 0
  BY <1>8, SizeFacts DEF Cols
<1>10. At(g[m], m, y) /\ Grid(g[m].cells) = Filled(G, y + 1, m, col)
  <2>1. SpacesFrom(a, col, VGA_WIDTH, g)
    BY <1>4, <1>6
  <2>2. \A n \in 0 .. VGA_WIDTH : n \in Cols =>
          At(g[n], n, y) /\ Grid(g[n].cells) = Filled(G, y + 1, n, col)
    BY <1>7, <1>9, <2>1, SpacesShown
  <2> QED BY <1>9, <2>2
<1>11. PICK r, b : r = g[VGA_WIDTH] /\ b = g[m]
  OBVIOUS
<1>12. /\ At(b, m, y) /\ Grid(b.cells) = Filled(G, y + 1, m, col)
       /\ r = Glyph(b, " ", col) /\ Cell(" ", col) = Blank(col)
  <2>1. r = VGA_Putc(g[VGA_WIDTH - 1], " ", col)
    BY <1>4, <1>9, <1>11 DEF SpacesFrom
  <2>2. r = VGA_Putc(b, " ", col) /\ At(b, m, y)
    BY <1>8, <1>10, <1>11, <2>1
  <2> QED BY <1>10, <1>11, <2>2, SpaceIs
<1>13. PICK h : h = Erased(G, y + 1, col)
  OBVIOUS
<1>14. h = Written(Grid(b.cells), y + 1, m, Cell(" ", col))
  <2>1. /\ \A n \in Cols : Written(Filled(G, y + 1, n, col), y + 1, n, Blank(col)) =
                            Filled(G, y + 1, n + 1, col)
        /\ Filled(G, y + 1, VGA_WIDTH, col) = Erased(G, y + 1, col)
    BY <1>2, <1>5, FillRow
  <2> QED BY <1>9, <1>12, <1>13, <2>1
<1>15. /\ y + 1 < VGA_HEIGHT => At(r, 0, y + 1) /\ Grid(r.cells) = h
       /\ ~(y + 1 < VGA_HEIGHT) => At(r, 0, y) /\ Grid(r.cells) = Append(Tail(h), BlankLine(col))
  <2>1. After(r, m, y, h, col)
    BY <1>12, <1>14, GlyphIs
  <2> QED BY <1>9, <2>1 DEF After
<1>16. DOMAIN r.cells = Cells
  BY <1>15 DEF At
<1>17. Shown(rmline(s, col)) = Term(Grid(r.cells), 0, y + 1)
  BY <1>4, <1>5, <1>11, <1>16, ShownAt
<1>18. T!Erase(Term(G, x, y + 1), col) =
         IF y + 1 < VGA_HEIGHT THEN Term(h, 0, y + 1) ELSE T!NewLine(Term(h, 0, y + 1), col)
  BY <1>13, TermErase
<1>19. T!NewLine(Term(h, 0, y + 1), col) =
         IF y + 1 < VGA_HEIGHT THEN Term(h, 0, (y + 1) + 1)
         ELSE Term(Append(Tail(h), BlankLine(col)), 0, y + 1)
  BY TermNewLine
<1> QED BY <1>3, <1>15, <1>17, <1>18, <1>19

(* VGA_Putc, for every character that it does not go on to replace.        *)
LEMMA PutcShown ==
  ASSUME NEW s, GoodScreen(s), NEW c, NEW col
  PROVE  /\ c # TAB => Shown(VGA_Putc(s, c, col)) = T!Put(Shown(s), c, col)
         /\ c = TAB => VGA_Putc(s, c, col) = s
<1>1. ~(VGA_GetCursorPosition(s) >= SIZE)
  BY SizeFacts DEF GoodScreen, Cells
<1>2. VGA_Putc(s, c, col) = Put(s, c, col)
  BY <1>1 DEF VGA_Putc
<1>3. PICK t : t = Shown(s)
  OBVIOUS
<1>4. CASE c = NL
  <2>1. Put(s, c, col) = Newline(s, col) /\ T!Put(t, c, col) = T!NewLine(t, col) /\ c # TAB
    BY <1>4 DEF Put, T!Put, NL, TAB, BS
  <2> QED BY <1>2, <1>3, <2>1, NewlineShown
<1>5. CASE c = TAB
  BY <1>2, <1>5 DEF Put, NL, TAB, BS
<1>6. CASE c = BS
  <2>1. Put(s, c, col) = Backspace(s, col) /\ T!Put(t, c, col) = T!Back(t, col) /\ c # TAB
    BY <1>6 DEF Put, T!Put, NL, TAB, BS
  <2> QED BY <1>2, <1>3, <2>1, BackspaceShown
<1>7. CASE c # NL /\ c # TAB /\ c # BS
  <2>1. Put(s, c, col) = Glyph(s, c, col) /\ T!Put(t, c, col) = T!Show(t, c, col)
    BY <1>7 DEF Put, T!Put, NL, TAB, BS
  <2> QED BY <1>2, <1>3, <1>7, <2>1, GlyphShown
<1> QED BY <1>4, <1>5, <1>6, <1>7

(* Clearing the screen, and moving the cursor.                             *)
LEMMA ClearShown ==
  ASSUME NEW s, DOMAIN s.cells = Cells
  PROVE  /\ Grid(VGA_Clear(s).cells) = T!Fresh.rows
         /\ GoodScreen(s) => Shown(VGA_Clear(s)) = [Shown(s) EXCEPT !.rows = T!Fresh.rows]
         /\ Shown(VGA_SetCursor(VGA_Clear(s), 0, 0)) = T!Fresh
<1>1. PICK r : r = VGA_Clear(s)
  OBVIOUS
<1>2. r.cells = [i \in Cells |-> Blank(WHITE)] /\ r.lo = s.lo /\ r.hi = s.hi
  BY <1>1 DEF VGA_Clear
<1>3. PICK F : F = [i \in 1 .. VGA_HEIGHT |-> BlankLine(WHITE)]
  OBVIOUS
<1>4. Grid(r.cells) = F
  <2>1. ASSUME NEW i \in 1 .. VGA_HEIGHT, NEW z \in Cols
        PROVE  r.cells[(i - 1) * VGA_WIDTH + z] = Blank(WHITE)
    <3>1. i - 1 \in 0 .. (VGA_HEIGHT - 1) /\ z \in 0 .. (VGA_WIDTH - 1)
      BY SizeFacts DEF Cols
    <3>2. (i - 1) * VGA_WIDTH + z \in Cells
      BY <3>1, CellOf
    <3> QED BY <1>2, <3>2
  <2> QED BY <1>3, <2>1 DEF Grid, BlankLine
<1>5. T!Fresh = Term(F, 0, 1)
  BY <1>3 DEF T!Fresh, T!BlankRow, T!Columns, Term, BlankLine, Cols
<1>6. T!Fresh.rows = F
  BY <1>5 DEF Term
<1>7. GoodScreen(s) => Shown(r) = [Shown(s) EXCEPT !.rows = F]
  <2>1. VGA_GetCursorPosition(r) = VGA_GetCursorPosition(s)
    BY <1>2 DEF VGA_GetCursorPosition
  <2>2. PICK x, y : x = VGA_GetCursorPosition(s) % VGA_WIDTH
                    /\ y = (VGA_GetCursorPosition(s) \div VGA_WIDTH) + 1
    OBVIOUS
  <2>3. Shown(r) = Term(F, x, y) /\ Shown(s) = Term(Grid(s.cells), x, y)
    BY <1>4, <2>1, <2>2 DEF Shown
  <2>4. [Term(Grid(s.cells), x, y) EXCEPT !.rows = F] = Term(F, x, y)
    BY DEF Term
  <2> QED BY <2>3, <2>4
<1>8. Shown(VGA_SetCursor(r, 0, 0)) = Term(F, 0, 0 + 1)
  <2>1. DOMAIN r.cells = Cells /\ 0 \in Cols /\ 0 \in RowNumbers
    BY <1>2, SizeFacts DEF Cols, RowNumbers
  <2> QED BY <1>4, <2>1, ShownAt
<1> QED BY <1>1, <1>4, <1>5, <1>6, <1>7, <1>8

---------------------------------------------------------------------------
(* What waits to be printed.  The format and the arguments that are left   *)
(* are in a set of formats and arguments that vkprintf can read, each with *)
(* what is left of it after a step.                                        *)
Readable(S) == \A y \in S : Matches(y) /\ Rest(y) \in S

Left(f, a) == \E S : Readable(S) /\ [fmt |-> f, args |-> a] \in S

Pending ==
  /\ todo \in Seq(Printable) /\ Left(fmt, args)
  /\ color \in COLORS /\ temp \in COLORS

(* What is left of x after each of k steps.                                *)
RestsFrom(x, k, g) ==
  g = [n \in 0 .. k |-> IF n = 0 THEN x ELSE Rest(g[n - 1])]

(* The recursion in WellFormed defines a function.                         *)
LEMMA RestsExist ==
  ASSUME NEW x, NEW k \in Nat
  PROVE  \E g : RestsFrom(x, k, g)
<1> DEFINE Missing == {n \in Nat : ~\E g : RestsFrom(x, n, g)}
<1>1. SUFFICES ASSUME Missing # {} PROVE FALSE
  OBVIOUS
<1>2. PICK n \in Missing : \A m \in Missing : n <= m
  BY <1>1, LeastNat, Zenon
<1>3. n \in Nat /\ ~\E g : RestsFrom(x, n, g)
  OBVIOUS
<1>4. CASE n = 0
  <2>1. PICK g : g = [i \in 0 .. 0 |-> x]
    OBVIOUS
  <2>2. \A i \in 0 .. 0 : i = 0 /\ g[i] = x
    BY <2>1, SMT
  <2>3. \A i \in 0 .. 0 : g[i] = IF i = 0 THEN x ELSE Rest(g[i - 1])
    BY <2>2
  <2>4. RestsFrom(x, 0, g)
    BY <2>1, <2>3 DEF RestsFrom
  <2> QED BY <1>3, <1>4, <2>4
<1>5. CASE n # 0
  <2>1. n - 1 \in Nat /\ ~(n <= n - 1)
    BY <1>3, <1>5
  <2>2. n - 1 \notin Missing
    BY <1>2, <2>1
  <2>3. PICK g : RestsFrom(x, n - 1, g)
    BY <2>1, <2>2
  <2>4. PICK h : h = [i \in 0 .. n |-> IF i = n THEN Rest(g[n - 1]) ELSE g[i]]
    OBVIOUS
  <2>5. \A i \in 0 .. (n - 1) : g[i] = IF i = 0 THEN x ELSE Rest(g[i - 1])
    BY <2>3 DEF RestsFrom
  <2>6. \A i \in 0 .. (n - 1) : h[i] = g[i] /\ i \in 0 .. n
    <3>1. \A i \in 0 .. (n - 1) : i \in 0 .. n /\ i # n
      BY <1>3, SMT
    <3> QED BY <2>4, <3>1
  <2>7. \A i \in 0 .. n : h[i] = IF i = 0 THEN x ELSE Rest(h[i - 1])
    <3> SUFFICES ASSUME NEW i \in 0 .. n
                 PROVE  h[i] = IF i = 0 THEN x ELSE Rest(h[i - 1])
      OBVIOUS
    <3>1. CASE i = n
      <4>1. n - 1 \in 0 .. (n - 1)
        BY <2>1, SMT
      <4>2. h[n - 1] = g[n - 1]
        BY <2>6, <4>1
      <4>3. h[n] = Rest(g[n - 1])
        BY <2>4, <3>1
      <4> QED BY <1>5, <3>1, <4>2, <4>3
    <3>2. CASE i # n /\ i = 0
      <4>1. i \in 0 .. (n - 1)
        BY <1>3, <3>2, SMT
      <4> QED BY <2>5, <2>6, <3>2, <4>1
    <3>3. CASE i # n /\ i # 0
      <4>1. i \in 0 .. (n - 1) /\ i - 1 \in 0 .. (n - 1)
        BY <1>3, <3>3, SMT
      <4> QED BY <2>5, <2>6, <3>3, <4>1
    <3> QED BY <3>1, <3>2, <3>3
  <2>8. RestsFrom(x, n, h)
    BY <2>4, <2>7 DEF RestsFrom
  <2> QED BY <1>3, <2>8
<1> QED BY <1>4, <1>5

(* Nothing is left of nothing.                                             *)
LEMMA NothingLeft == \A a : Left(<<>>, a)
<1> SUFFICES ASSUME NEW a PROVE Left(<<>>, a)
  OBVIOUS
<1>1. PICK y : y = [fmt |-> <<>>, args |-> a]
  OBVIOUS
<1>2. Matches(y) /\ Rest(y) = y
  BY <1>1 DEF Matches, Rest
<1>3. Readable({y})
  BY <1>2 DEF Readable
<1> QED BY <1>1, <1>3 DEF Left

(* A well-formed call can be read to its end.                              *)
LEMMA WellFormedLeft ==
  ASSUME NEW f, NEW a, NEW S, f \in Seq(S), WellFormed([fmt |-> f, args |-> a])
  PROVE  Left(f, a)
<1>1. PICK x : x = [fmt |-> f, args |-> a]
  OBVIOUS
<1>2. PICK k : k = Len(x.fmt)
  OBVIOUS
<1>3. k \in Nat
  BY <1>1, <1>2
<1> DEFINE rest == CHOOSE g : g = [n \in 0 .. k |-> IF n = 0 THEN x ELSE Rest(g[n - 1])]
<1>4. /\ \A n \in 0 .. k : Matches(rest[n])
      /\ rest[k].fmt = <<>>
  BY <1>1, <1>2 DEF WellFormed
<1>5. RestsFrom(x, k, rest)
  <2>1. \E g : g = [n \in 0 .. k |-> IF n = 0 THEN x ELSE Rest(g[n - 1])]
    BY <1>3, RestsExist DEF RestsFrom
  <2> QED BY <2>1, Zenon DEF RestsFrom
<1> HIDE DEF rest
<1>6. PICK R : R = {rest[n] : n \in 0 .. k}
  OBVIOUS
<1>7. \A n \in 0 .. k : rest[n] = IF n = 0 THEN x ELSE Rest(rest[n - 1])
  BY <1>5 DEF RestsFrom
<1>8. ASSUME NEW n \in 0 .. k PROVE Rest(rest[n]) \in R
  <2>1. CASE n = k
    <3>1. Rest(rest[n]) = rest[n]
      BY <1>4, <2>1 DEF Rest
    <3> QED BY <1>6, <3>1
  <2>2. CASE n # k
    <3>1. n + 1 \in 0 .. k /\ n + 1 # 0 /\ (n + 1) - 1 = n
      BY <1>3, <2>2
    <3>2. rest[n + 1] = Rest(rest[n])
      BY <1>7, <3>1
    <3> QED BY <1>6, <3>1, <3>2
  <2> QED BY <2>1, <2>2
<1>9. Readable(R)
  BY <1>4, <1>6, <1>8 DEF Readable
<1>10. x \in R
  <2>1. 0 \in 0 .. k
    BY <1>3
  <2> QED BY <1>6, <1>7, <2>1
<1> QED BY <1>1, <1>9, <1>10 DEF Left

(* Reversing a sequence keeps its elements.                                *)
LEMMA ReverseTyped ==
  ASSUME NEW S, NEW D \in Seq(S)
  PROVE  Reverse(D) \in Seq(S)
<1>1. PICK c \in Nat : c = Len(D)
  OBVIOUS
<1>2. \A i \in 1 .. c : D[(c - i) + 1] \in S
  <2> SUFFICES ASSUME NEW i \in 1 .. c PROVE D[(c - i) + 1] \in S
    OBVIOUS
  <2>1. (c - i) + 1 \in 1 .. c
    BY <1>1
  <2> QED BY <1>1, <2>1
<1>3. Reverse(D) = [i \in 1 .. c |-> D[(c - i) + 1]]
  BY <1>1 DEF Reverse
<1> QED BY <1>2, <1>3

(* Numbers are printable: digits, and the minus.                           *)
LEMMA NumbersPrintable ==
  ASSUME NEW w \in Nat
  PROVE  /\ kprint_num(AsInt(w)) \in Seq(Printable)
         /\ kprint_unsigned(w % UINT) \in Seq(Printable)
         /\ kprint_hex(w % UINT64) \in Seq(Printable)
<1>1. Range(DIGITS) \subseteq Printable /\ "-" \in Printable
  BY DEF Printable
<1>2. UINT \in Nat /\ UINT > 0 /\ UINT64 \in Nat /\ UINT64 > 0 /\ UINT % 2 = 0
  BY NumberAssumption
<1>3. w % UINT \in 0 .. (UINT - 1) /\ w % UINT64 \in 0 .. (UINT64 - 1)
  BY <1>2, SMT
<1>4. ASSUME NEW n \in 0 .. (UINT - 1)
      PROVE  /\ DigitsUpwards(n, 10, NUM_BUF - 1) \in Seq(Printable)
             /\ Reverse(DigitsUpwards(n, 10, NUM_BUF - 1)) \in Seq(Printable)
  <2>1. PICK D : D = DigitsUpwards(n, 10, NUM_BUF - 1)
    OBVIOUS
  <2>2. 10 \in 2 .. 16
    OBVIOUS
  <2>3. D \in Seq(Range(DIGITS))
    BY <2>1, <2>2, NumbersFit, UnsignedExact
  <2>4. D \in Seq(Printable)
    BY <1>1, <2>3, SeqMonotonic
  <2> QED BY <2>1, <2>4, ReverseTyped
<1>5. kprint_unsigned(w % UINT) \in Seq(Printable)
  BY <1>3, <1>4 DEF kprint_unsigned
<1>6. kprint_hex(w % UINT64) \in Seq(Printable)
  <2>1. PICK n \in 0 .. (UINT64 - 1) : n = w % UINT64
    BY <1>3
  <2>2. PICK D : D = DigitsUpwards(n, 16, HEX_BUF - 1)
    OBVIOUS
  <2>3. 16 \in 2 .. 16
    OBVIOUS
  <2>4. D \in Seq(Range(DIGITS))
    BY <2>2, <2>3, NumbersFit, UnsignedExact
  <2>5. D \in Seq(Printable)
    BY <1>1, <2>4, SeqMonotonic
  <2> QED BY <2>1, <2>2, <2>5, ReverseTyped DEF kprint_hex
<1>7. PICK h \in Nat : h = UINT \div 2
  BY <1>2, SMT
<1>8. h > 0 /\ 2 * h = UINT /\ INT_MIN = -h
  <2>1. h > 0 /\ 2 * h = UINT
    BY <1>2, <1>7, SMT
  <2> QED BY <1>7, <2>1 DEF INT_MIN
<1>9. PICK n : n = AsInt(w)
  OBVIOUS
<1>10. n \in (-h) .. (h - 1)
  <2>1. PICK u \in 0 .. (UINT - 1) : u = w % UINT
    BY <1>3
  <2>2. n = IF u >= h THEN u - UINT ELSE u
    BY <1>7, <1>9, <2>1 DEF AsInt
  <2> QED BY <1>2, <1>8, <2>1, <2>2
<1>11. kprint_num(n) \in Seq(Printable)
  <2>1. CASE n = INT_MIN
    BY <2>1, TextAssumption DEF kprint_num
  <2>2. CASE n # INT_MIN /\ n < 0
    <3>1. -n \in 0 .. (UINT - 1)
      BY <1>2, <1>8, <1>10, <2>2
    <3>2. PICK D : D = DigitsUpwards(-n, 10, NUM_BUF - 1)
      OBVIOUS
    <3>3. D \in Seq(Printable)
      BY <1>4, <3>1, <3>2
    <3>4. Append(D, "-") \in Seq(Printable)
      BY <1>1, <3>3
    <3>5. kprint_num(n) = Reverse(Append(D, "-"))
      BY <2>2, <3>2 DEF kprint_num
    <3> QED BY <3>4, <3>5, ReverseTyped
  <2>3. CASE n # INT_MIN /\ ~(n < 0)
    <3>1. n \in 0 .. (UINT - 1)
      BY <1>2, <1>8, <1>10, <2>3
    <3> QED BY <1>4, <2>3, <3>1 DEF kprint_num
  <2> QED BY <2>1, <2>2, <2>3
<1> QED BY <1>5, <1>6, <1>9, <1>11

(* sys_write passes on characters only: what is before the first NUL.      *)
LEMMA WritePrintable ==
  ASSUME NEW x \in WRITES, sys_write(x)
  PROVE  todo' \in Seq(Printable)
<1>1. PICK b : b = x.buffer
  OBVIOUS
<1>2. b \in Seq(CHARS \cup {NUL})
  BY <1>1, TextAssumption
<1>3. PICK stop : stop = {i \in DOMAIN b : i > x.count \/ b[i] = NUL}
  OBVIOUS
<1>4. todo' = IF stop = {} THEN b ELSE SubSeq(b, 1, Min(stop) - 1)
  BY <1>1, <1>3 DEF sys_write
<1>5. DOMAIN b = 1 .. Len(b) /\ Len(b) \in Nat
  BY <1>2
<1>6. ASSUME NEW i \in 1 .. Len(b), i \notin stop PROVE b[i] \in Printable
  <2>1. b[i] # NUL /\ b[i] \in CHARS \cup {NUL}
    BY <1>2, <1>3, <1>5, <1>6
  <2> QED BY <2>1 DEF Printable
<1>7. CASE stop = {}
  <2>1. \A i \in 1 .. Len(b) : b[i] \in Printable
    BY <1>6, <1>7
  <2>2. b = [i \in 1 .. Len(b) |-> b[i]]
    BY <1>2, LenProperties
  <2>3. b \in Seq(Printable)
    BY <1>5, <2>1, <2>2
  <2> QED BY <1>4, <1>7, <2>3
<1>8. CASE stop # {}
  <2>1. stop \subseteq Nat
    BY <1>3, <1>5
  <2>2. PICK m : m = Min(stop)
    OBVIOUS
  <2>3. m \in stop /\ \A i \in stop : m <= i
    BY <1>8, <2>1, <2>2, MinOf
  <2>4. m \in 1 .. Len(b)
    BY <1>3, <1>5, <2>3
  <2>5. \A i \in 1 .. (m - 1) : b[i] \in Printable
    <3> SUFFICES ASSUME NEW i \in 1 .. (m - 1) PROVE b[i] \in Printable
      OBVIOUS
    <3>1. i \in 1 .. Len(b) /\ ~(m <= i)
      BY <1>5, <2>4
    <3> QED BY <1>6, <2>3, <3>1
  <2>6. SubSeq(b, 1, m - 1) \in Seq(Printable)
    <3>1. 1 \in Int /\ m - 1 \in Int
      BY <2>4
    <3> QED BY <2>5, <3>1, SubSeqProperties
  <2> QED BY <1>4, <1>8, <2>2, <2>6
<1> QED BY <1>7, <1>8

(* What is left after a step of vkprintf.                                  *)
LEMMA LeftStep ==
  ASSUME NEW f, NEW a, Left(f, a)
  PROVE  LET y == [fmt |-> f, args |-> a]
         IN  Matches(y) /\ Left(Rest(y).fmt, Rest(y).args)
<1>1. PICK y : y = [fmt |-> f, args |-> a]
  OBVIOUS
<1>2. PICK S : Readable(S) /\ y \in S
  BY <1>1 DEF Left
<1>3. Matches(y) /\ Rest(y) \in S
  BY <1>2 DEF Readable
<1>4. Rest(y) = [fmt |-> Rest(y).fmt, args |-> Rest(y).args]
  BY <1>1 DEF Rest
<1>5. Left(Rest(y).fmt, Rest(y).args)
  BY <1>2, <1>3, <1>4 DEF Left
<1> QED BY <1>1, <1>3, <1>5

(* An ordinary character of the format.                                    *)
LEMMA LiteralStep ==
  ASSUME NEW f, NEW a, Left(f, a), f # <<>>, Head(f) # "%"
  PROVE  Head(f) \in Printable /\ Left(Tail(f), a)
<1>1. PICK y : y = [fmt |-> f, args |-> a]
  OBVIOUS
<1>2. Matches(y) /\ Left(Rest(y).fmt, Rest(y).args)
  BY <1>1, LeftStep
<1>3. y.fmt = f /\ y.args = a
  BY <1>1
<1>4. Head(f) \in Printable
  BY <1>2, <1>3 DEF Matches
<1>5. Rest(y) = [fmt |-> Tail(f), args |-> a]
  BY <1>3 DEF Rest
<1> QED BY <1>2, <1>4, <1>5

(* A directive, and the argument that it takes.                            *)
LEMMA DirectiveStep ==
  ASSUME NEW f, NEW a, Left(f, a), Len(f) >= 2, Head(f) = "%"
  PROVE  /\ f[2] \notin DIRECTIVES => f[2] \in Printable /\ Left(SubSeq(f, 3, Len(f)), a)
         /\ f[2] \in DIRECTIVES => Left(SubSeq(f, 3, Len(f)), Tail(a))
         /\ f[2] \in {"d", "u", "x"} => Head(a) \in Nat
         /\ f[2] = "s" => Head(a) = ERASE_LINE \/ Head(a) \in Seq(Printable)
         /\ f[2] = "c" => Head(a) \in Printable
<1>1. PICK y : y = [fmt |-> f, args |-> a]
  OBVIOUS
<1>2. Matches(y) /\ Left(Rest(y).fmt, Rest(y).args)
  BY <1>1, LeftStep
<1>3. y.fmt = f /\ y.args = a /\ f # <<>>
  BY <1>1
<1>4. IF f[2] \notin DIRECTIVES THEN f[2] \in Printable
      ELSE CASE f[2] = "s" -> Head(a) = ERASE_LINE \/ Head(a) \in Seq(Printable)
             [] f[2] = "c" -> Head(a) \in Printable
             [] OTHER      -> Head(a) \in Nat
  BY <1>2, <1>3 DEF Matches
<1>5. Rest(y) = [fmt  |-> SubSeq(f, 3, Len(f)),
                 args |-> IF f[2] \in DIRECTIVES THEN Tail(a) ELSE a]
  BY <1>3 DEF Rest
<1>6. Left(SubSeq(f, 3, Len(f)), IF f[2] \in DIRECTIVES THEN Tail(a) ELSE a)
  BY <1>2, <1>5
<1>7. {"d", "u", "x", "s", "c"} \subseteq DIRECTIVES
  BY DEF DIRECTIVES
<1>8. f[2] \in {"d", "u", "x"} => Head(a) \in Nat
  BY <1>4, <1>7
<1>9. f[2] = "s" => Head(a) = ERASE_LINE \/ Head(a) \in Seq(Printable)
  BY <1>4, <1>7
<1>10. f[2] = "c" => Head(a) \in Printable
  BY <1>4, <1>7
<1> QED BY <1>4, <1>6, <1>8, <1>9, <1>10

(* The calls of the other parts of the kernel can be read.                 *)
LEMMA CallsLeft ==
  /\ \A x \in CALLS : Left(x.fmt, x.args)
  /\ Left(INIT_MESSAGE, <<>>)
<1>1. ASSUME NEW x \in CALLS \cup {[fmt |-> INIT_MESSAGE, args |-> <<>>]}
      PROVE  Left(x.fmt, x.args)
  <2>1. /\ x = [fmt |-> x.fmt, args |-> x.args] /\ x.fmt \in Seq(Printable \cup DIRECTIVES)
        /\ WellFormed(x)
    BY TextAssumption
  <2>2. PICK f, a : f = x.fmt /\ a = x.args
    OBVIOUS
  <2>3. f \in Seq(Printable \cup DIRECTIVES) /\ WellFormed([fmt |-> f, args |-> a])
    BY <2>1, <2>2
  <2> QED BY <2>2, <2>3, WellFormedLeft
<1>2. PICK m : m = [fmt |-> INIT_MESSAGE, args |-> <<>>]
  OBVIOUS
<1>3. Left(m.fmt, m.args) /\ m.fmt = INIT_MESSAGE /\ m.args = <<>>
  BY <1>1, <1>2
<1> QED BY <1>1, <1>3

(* Colours are in range and nothing waits at first.                        *)
LEMMA PendingInit == Init => Pending
<1>1. WHITE \in COLORS
  BY ScreenAssumption
<1>2. <<>> \in Seq(Printable)
  OBVIOUS
<1> QED BY <1>1, <1>2, NothingLeft DEF Init, Pending

(* Every step keeps what waits readable.                                   *)
LEMMA PendingNext == Pending /\ [Next]_vars => Pending'
<1> SUFFICES ASSUME Pending, [Next]_vars PROVE Pending'
  OBVIOUS
<1>1. todo \in Seq(Printable) /\ Left(fmt, args) /\ color \in COLORS /\ temp \in COLORS
  BY DEF Pending
<1>2. /\ <<>> \in Seq(Printable)
      /\ \A c \in Printable : <<c>> \in Seq(Printable) /\ <<c, c, c, c>> \in Seq(Printable)
      /\ \A c, d \in Printable : <<c, d>> \in Seq(Printable)
  OBVIOUS
<1>3. /\ {WHITE, LIGHT_GREEN, LIGHT_RED} \subseteq COLORS
      /\ " " \in Printable /\ "%" \in Printable /\ CHARS \subseteq Printable
  <2>1. {WHITE, LIGHT_GREEN, LIGHT_RED} \subseteq COLORS
    BY ScreenAssumption
  <2>2. {" ", "%"} \subseteq CHARS
    BY TextAssumption
  <2> QED BY <2>1, <2>2 DEF Printable
<1>4. CASE Init_VGA
  BY <1>2, <1>3, <1>4, CallsLeft DEF Init_VGA, Pending
<1>5. ASSUME NEW x \in CALLS, kprintf(x) PROVE Pending'
  BY <1>1, <1>2, <1>5, CallsLeft DEF kprintf, Pending
<1>6. ASSUME NEW x \in CALLS, NEW new \in COLORS, kprintcolor(new, x) PROVE Pending'
  BY <1>1, <1>2, <1>6, CallsLeft DEF kprintcolor, Pending
<1>7. ASSUME NEW x \in WRITES, sys_write(x) PROVE Pending'
  <2>1. todo' \in Seq(Printable)
    BY <1>7, WritePrintable
  <2>2. fmt' = <<>> /\ args' = <<>> /\ color' = color /\ temp' = temp
    BY <1>7 DEF sys_write
  <2> QED BY <1>1, <2>1, <2>2, NothingLeft DEF Pending
<1>8. CASE PutNext
  <2>1. PICK c : c = Head(todo)
    OBVIOUS
  <2>2. Tail(todo) \in Seq(Printable) /\ todo # <<>>
    BY <1>1, <1>8 DEF PutNext
  <2>3. Calls(c) \in Seq(Printable)
    BY <1>2, <1>3 DEF Calls
  <2>4. todo' \in Seq(Printable)
    BY <1>8, <2>1, <2>2, <2>3 DEF PutNext
  <2> QED BY <1>1, <1>8, <2>4 DEF PutNext, Pending
<1>9. CASE Literal
  <2>1. Head(fmt) \in Printable /\ Left(Tail(fmt), args)
    BY <1>1, <1>9, LiteralStep DEF Literal
  <2> QED BY <1>1, <1>2, <1>9, <2>1 DEF Literal, Pending
<1>10. CASE Directive /\ fmt[2] \in DIRECTIVES /\ args' = Tail(args) /\ todo' \in Seq(Printable)
  <2>1. Left(fmt', args')
    BY <1>1, <1>10, DirectiveStep DEF Directive
  <2> QED BY <1>1, <1>10, <2>1 DEF Directive, Pending
<1>11. CASE PrintNumber
  <2>1. Directive /\ fmt[2] \in {"d", "u", "x"}
    BY <1>11 DEF PrintNumber
  <2>2. PICK w : w = Head(args)
    OBVIOUS
  <2>3. w \in Nat
    BY <1>1, <2>1, <2>2, DirectiveStep DEF Directive
  <2>4. /\ kprint_num(AsInt(w)) \in Seq(Printable)
        /\ kprint_unsigned(w % UINT) \in Seq(Printable)
        /\ kprint_hex(w % UINT64) \in Seq(Printable)
    BY <2>3, NumbersPrintable
  <2>5. /\ args' = Tail(args)
        /\ todo' = CASE fmt[2] = "d" -> kprint_num(AsInt(w))
                     [] fmt[2] = "u" -> kprint_unsigned(w % UINT)
                     [] fmt[2] = "x" -> kprint_hex(w % UINT64)
    BY <1>11, <2>2 DEF PrintNumber
  <2>6. todo' \in Seq(Printable)
    BY <2>1, <2>4, <2>5
  <2>7. fmt[2] \in DIRECTIVES
    BY <2>1 DEF DIRECTIVES
  <2> QED BY <1>10, <2>1, <2>5, <2>6, <2>7
<1>12. CASE PrintString
  <2>1. Directive /\ fmt[2] = "s" /\ args' = Tail(args) /\ fmt[2] \in DIRECTIVES
    BY <1>12 DEF PrintString, DIRECTIVES
  <2>2. Head(args) = ERASE_LINE \/ Head(args) \in Seq(Printable)
    BY <1>1, <2>1, DirectiveStep DEF Directive
  <2>3. todo' \in Seq(Printable)
    BY <1>1, <1>12, <2>2 DEF PrintString
  <2> QED BY <1>10, <2>1, <2>3
<1>13. CASE PrintChar
  <2>1. Directive /\ fmt[2] = "c" /\ args' = Tail(args) /\ fmt[2] \in DIRECTIVES
    BY <1>13 DEF PrintChar, DIRECTIVES
  <2>2. Head(args) \in Printable
    BY <1>1, <2>1, DirectiveStep DEF Directive
  <2>3. todo' \in Seq(Printable)
    BY <1>2, <1>13, <2>2 DEF PrintChar
  <2> QED BY <1>10, <2>1, <2>3
<1>14. CASE PrintBoth
  <2>1. Directive /\ fmt[2] \notin DIRECTIVES /\ args' = args /\ todo' = <<"%", fmt[2]>>
    BY <1>14 DEF PrintBoth
  <2>2. fmt[2] \in Printable /\ Left(fmt', args)
    BY <1>1, <2>1, DirectiveStep DEF Directive
  <2>3. todo' \in Seq(Printable)
    BY <1>2, <1>3, <2>1, <2>2
  <2> QED BY <1>1, <2>1, <2>2, <2>3 DEF Directive, Pending
<1>15. CASE Return
  BY <1>1, <1>15 DEF Return, ColorAfter, Pending
<1>16. ASSUME NEW c \in CHARS, Putc(c) PROVE Pending'
  BY <1>1, <1>2, <1>3, <1>16 DEF Putc, Pending
<1>17. CASE Rmline \/ Clear \/ VGA_EnableCursor \/ VGA_DisableCursor
  BY <1>1, <1>17 DEF Rmline, Clear, VGA_EnableCursor, VGA_DisableCursor, printing, Pending
<1>18. ASSUME NEW p \in PLACES, SetCursor(p) PROVE Pending'
  BY <1>1, <1>18 DEF SetCursor, printing, Pending
<1>19. ASSUME NEW c \in COLORS, SetColor(c) PROVE Pending'
  BY <1>1, <1>19 DEF SetColor, printing, Pending
<1>20. CASE UNCHANGED vars
  BY <1>1, <1>20 DEF vars, Pending
<1> QED
  BY <1>4, <1>5, <1>6, <1>7, <1>8, <1>9, <1>11, <1>12, <1>13, <1>14, <1>15, <1>16,
     <1>17, <1>18, <1>19, <1>20 DEF Next, Printing

---------------------------------------------------------------------------
(* The refinement.                                                         *)

(* A screen that works is never shown as a terminal that is off.           *)
LEMMA ShownIsOn == \A s : Shown(s) # T!Off
<1> SUFFICES ASSUME NEW s, Shown(s) = T!Off PROVE FALSE
  OBVIOUS
<1>1. PICK g, x, y : Shown(s) = Term(g, x, y)
  BY DEF Shown
<1>2. Term(g, x, y) = <<>>
  BY <1>1 DEF T!Off
<1>3. "x" \in DOMAIN Term(g, x, y)
  BY DEF Term
<1>4. "x" \notin DOMAIN <<>>
  OBVIOUS
<1> QED BY <1>2, <1>3, <1>4

(* What the refinement shows of the screen.                                *)
LEMMA DisplayIs ==
  /\ ready => Display = Shown(screen)
  /\ ~ready => Display = T!Off
  BY DEF Display, AsTerminal, Shown, Term, Grid, Cols, T!Off

(* A step that leaves Init_VGA's flag and the screen alone.                *)
LEMMA SameDisplay ==
  ASSUME ready' = ready, screen' = screen
  PROVE  Display' = Display
  BY DEF Display, AsTerminal, VGA_GetCursorPosition

(* A step of the screen, once it works, is shown as a step.                *)
LEMMA DisplayStep ==
  ASSUME ready, ready' = ready
  PROVE  Display = Shown(screen) /\ Display' = Shown(screen') /\ Display # T!Off
<1>1. Display = Shown(screen)
  BY DisplayIs
<1>2. Display' = Shown(screen')
  BY DEF Display, AsTerminal, Shown, Term, Grid, Cols, VGA_GetCursorPosition
<1> QED BY <1>1, <1>2, ShownIsOn

(* Printing a character or erasing a line, in a colour of the terminal.    *)
LEMMA TypeStep ==
  ASSUME ready, ready' = ready, GoodScreen(screen), color \in COLORS,
         \/ screen' = rmline(screen, color)
         \/ \E c \in Printable : screen' = VGA_Putc(screen, c, color)
  PROVE  T!Next \/ Display' = Display
<1>1. Display = Shown(screen) /\ Display' = Shown(screen') /\ Display # T!Off
  BY DisplayStep
<1>2. CASE screen' = rmline(screen, color)
  <2>1. Display' = T!Erase(Display, color)
    BY <1>1, <1>2, RmlineShown
  <2> QED BY <1>1, <2>1 DEF T!Next, T!Type
<1>3. ASSUME NEW c \in Printable, screen' = VGA_Putc(screen, c, color)
      PROVE  T!Next \/ Display' = Display
  <2>1. CASE c = TAB
    <3>1. screen' = screen
      BY <1>3, <2>1, PutcShown
    <3> QED BY <3>1, SameDisplay
  <2>2. CASE c # TAB
    <3>1. Display' = T!Put(Display, c, color)
      BY <1>1, <1>3, <2>2, PutcShown
    <3>2. c \in Printable \ {TAB}
      BY <2>2
    <3> QED BY <1>1, <3>1, <3>2 DEF T!Next, T!Type
  <2> QED BY <2>1, <2>2
<1> QED BY <1>2, <1>3

(* Every step of the screen is a step of the terminal, or none.            *)
LEMMA TerminalStep ==
  ASSUME ScreenInv, Pending, [Next]_vars
  PROVE  T!Next \/ Display' = Display
<1>1. ready => GoodScreen(screen)
  BY DEF ScreenInv, TypeOK, CursorOnScreen, GoodScreen
<1>2. /\ ready \in BOOLEAN /\ DOMAIN screen.cells = Cells
      /\ (~ready => todo = <<>> /\ fmt = <<>> /\ call = "none")
  BY DEF ScreenInv, TypeOK, SilentBefore
<1>3. todo \in Seq(Printable) /\ color \in COLORS
  BY DEF Pending
<1>4. CASE Init_VGA
  <2>1. ~ready /\ ready' /\ screen' = VGA_SetCursor(VGA_Clear(screen), 0, 0)
    BY <1>4 DEF Init_VGA
  <2>2. Display = T!Off
    BY <2>1, DisplayIs
  <2>3. Display' = Shown(screen')
    BY <2>1 DEF Display, AsTerminal, Shown, Term, Grid, Cols, VGA_GetCursorPosition
  <2>4. Display' = T!Fresh
    BY <1>2, <2>1, <2>3, ClearShown
  <2> QED BY <2>2, <2>4 DEF T!Next, T!PowerOn
<1>5. CASE \/ \E x \in CALLS : kprintf(x)
           \/ \E x \in CALLS, new \in COLORS : kprintcolor(new, x)
           \/ \E x \in WRITES : sys_write(x)
           \/ Literal \/ PrintNumber \/ PrintChar \/ PrintBoth \/ Return
           \/ \E c \in CHARS : Putc(c)
           \/ \E c \in COLORS : SetColor(c)
           \/ VGA_EnableCursor \/ VGA_DisableCursor \/ UNCHANGED vars
  <2>1. ready' = ready /\ screen' = screen
    BY <1>5 DEF kprintf, kprintcolor, sys_write, Literal, PrintNumber, PrintChar, PrintBoth,
                Directive, Return, Putc, SetColor, VGA_EnableCursor, VGA_DisableCursor, vars
  <2> QED BY <2>1, SameDisplay
<1>6. CASE PutNext
  <2>1. ready /\ todo # <<>> /\ ready' = ready /\ screen' = VGA_Putc(screen, Head(todo), color)
    BY <1>2, <1>6 DEF PutNext
  <2>2. Head(todo) \in Printable
    BY <1>3, <2>1
  <2> QED BY <1>1, <1>3, <2>1, <2>2, TypeStep
<1>7. CASE PrintString
  <2>1. ready' = ready /\ Len(fmt) >= 2
    BY <1>7 DEF PrintString, Directive
  <2>2. ready
    BY <1>2, <2>1
  <2>3. CASE screen' = screen
    BY <2>1, <2>3, SameDisplay
  <2>4. CASE screen' = rmline(screen, color)
    BY <1>1, <1>3, <2>1, <2>2, <2>4, TypeStep
  <2> QED BY <1>7, <2>3, <2>4 DEF PrintString
<1>8. CASE Rmline
  <2>1. ready /\ ready' = ready /\ screen' = rmline(screen, color)
    BY <1>8 DEF Rmline, Idle
  <2> QED BY <1>1, <1>3, <2>1, TypeStep
<1>9. CASE Clear
  <2>1. ready /\ ready' = ready /\ screen' = VGA_Clear(screen)
    BY <1>9 DEF Clear, Idle
  <2>2. Display = Shown(screen) /\ Display' = Shown(screen') /\ Display # T!Off
    BY <2>1, DisplayStep
  <2>3. Display' = [Display EXCEPT !.rows = T!Fresh.rows]
    BY <1>1, <1>2, <2>1, <2>2, ClearShown
  <2> QED BY <2>2, <2>3 DEF T!Next, T!Clear
<1>10. ASSUME NEW p \in PLACES, SetCursor(p) PROVE T!Next
  <2>1. ready /\ ready' = ready /\ screen' = VGA_SetCursor(screen, p.x, p.y)
    BY <1>10 DEF SetCursor, Idle
  <2>2. PICK u \in Int, v \in Int : u = p.x /\ v = p.y
    BY ScreenAssumption
  <2>3. PICK x, y : x = Clamp(u, VGA_WIDTH) /\ y = Clamp(v, VGA_HEIGHT)
    OBVIOUS
  <2>4. x \in 0 .. (VGA_WIDTH - 1) /\ y \in 0 .. (VGA_HEIGHT - 1)
    BY <2>3, SizeFacts, ClampRange
  <2>5. x \in Cols /\ y \in RowNumbers /\ y + 1 \in 1 .. VGA_HEIGHT
    BY <2>4, SizeFacts DEF Cols, RowNumbers
  <2>6. screen' = VGA_SetCursor(screen, x, y)
    <3>1. Clamp(x, VGA_WIDTH) = x /\ Clamp(y, VGA_HEIGHT) = y
      BY <2>4, SizeFacts DEF Clamp
    <3> QED BY <2>1, <2>2, <2>3, <3>1 DEF VGA_SetCursor
  <2>7. Display = Shown(screen) /\ Display' = Shown(screen') /\ Display # T!Off
    BY <2>1, DisplayStep
  <2>8. Display' = Term(Grid(screen.cells), x, y + 1)
    BY <1>2, <2>5, <2>6, <2>7, ShownAt
  <2>9. Display' = [Display EXCEPT !.x = x, !.y = y + 1]
    <3>1. PICK g, i, j : Display = Term(g, i, j) /\ g = Grid(screen.cells)
      BY <2>7 DEF Shown
    <3>2. PICK r : r = [Display EXCEPT !.x = x]
      OBVIOUS
    <3>3. r = Term(g, x, j)
      BY <3>1, <3>2 DEF Term
    <3>4. [Display EXCEPT !.x = x, !.y = y + 1] = [r EXCEPT !.y = y + 1]
      BY <3>2
    <3>5. [Term(g, x, j) EXCEPT !.y = y + 1] = Term(g, x, y + 1)
      BY DEF Term
    <3> QED BY <2>8, <3>1, <3>3, <3>4, <3>5
  <2>10. T!Move
    BY <2>5, <2>9 DEF T!Move, T!Columns, Cols
  <2> QED BY <2>7, <2>10 DEF T!Next
<1> QED
  BY <1>4, <1>5, <1>6, <1>7, <1>8, <1>9, <1>10 DEF Next, Printing

(* The screen memory and the two registers implement a terminal: whatever  *)
(* is printed, erased, cleared or moved, each step of vga.c is the step of *)
(* a terminal's rows and cursor, scrolling, wrapping and the clamps at the *)
(* edges included, or changes nothing that can be seen.                    *)
THEOREM TerminalRefinement == Spec => ImplementsTerminal
<1>1. Init => T!Init
  BY DisplayIs DEF Init, T!Init
<1>2. ScreenInv /\ Pending /\ [Next]_vars => [T!Next]_Display
  BY TerminalStep
<1>3. Spec => []Pending
  BY PendingInit, PendingNext, PTL DEF Spec
<1> QED BY <1>1, <1>2, <1>3, ScreenInvariance, PTL DEF Spec, ImplementsTerminal, T!Spec
=============================================================================
