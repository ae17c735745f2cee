------------------------------- MODULE Screen -------------------------------
(***************************************************************************)
(* The text screen of kernel/vga.c: linear screen memory, the cursor in    *)
(* two byte registers of the CRT controller, the current colour, and the   *)
(* printing functions on top of VGA_Putc.                                  *)
(*                                                                         *)
(* A string is a sequence of characters.  Printing is modelled a character *)
(* or a conversion at a time: fmt is what vkprintf has still to read, todo *)
(* what kprint has still to write.  Everything else is one action per      *)
(* call.  The size of the screen, a byte and an int are scaled down.       *)
(***************************************************************************)
EXTENDS Integers, Sequences, SequencesExt

CONSTANTS VGA_WIDTH,        \* 80
          VGA_HEIGHT,       \* 25
          BYTE,             \* 256, the values of a register of the controller
          UINT,             \* 2^32
          UINT64,           \* 2^64
          NUM_BUF,          \* 16, the size of buf
          HEX_BUF,          \* 20, the size of hex_buf
          INT_MIN_TEXT,     \* "-2147483648", what kprint_num has for INT_MIN
          INIT_MESSAGE,     \* what Init_VGA prints
          BOOT_CURSORS,     \* where the BIOS may have left the cursor
          CHARS,            \* arguments of VGA_Putc
          HIGH,             \* the characters above 127, negative as a char
          CALLS,            \* arguments [fmt, args] of kprintf and kprintcolor
          WRITES,           \* arguments [buffer, count] of sys_write
          PLACES,           \* arguments [x, y] of VGA_SetCursor
          COLORS,           \* arguments of SetColor and kprintcolor
          MAX_CALLS         \* bound: calls after Init_VGA

NL == "\n"
TAB == "\t"
BS == "BS"
NUL == "NUL"
WHITE == 15                 \* 0x0F, the initial colour and that of VGA_Clear
LIGHT_GREEN == 10
LIGHT_RED == 12
ERASE_LINE == <<"ESC", "[", "2", "k">>
SIZE == VGA_WIDTH * VGA_HEIGHT
Cells == 0 .. (SIZE - 1)

(* What reaches VGA_Putc: the characters of strings, digits and the minus. *)
DIGITS == <<"0", "1", "2", "3", "4", "5", "6", "7", "8", "9",
            "a", "b", "c", "d", "e", "f">>
Printable == CHARS \cup Range(DIGITS) \cup {"-"}

DIRECTIVES == {"d", "s", "c", "x", "u"}

(* The next character or directive of vkprintf's format has the argument   *)
(* that it asks for.                                                       *)
Matches(y) ==
  \/ y.fmt = <<>>
  \/ Head(y.fmt) \in Printable \ {"%"}
  \/ /\ Head(y.fmt) = "%" /\ Len(y.fmt) >= 2
     /\ IF y.fmt[2] \notin DIRECTIVES THEN y.fmt[2] \in Printable
        ELSE /\ y.args # <<>>
             /\ CASE y.fmt[2] = "s" -> Head(y.args) = ERASE_LINE \/ Head(y.args) \in Seq(Printable)
                  [] y.fmt[2] = "c" -> Head(y.args) \in Printable
                  [] OTHER          -> Head(y.args) \in Nat

Rest(y) ==
  IF y.fmt = <<>> THEN y
  ELSE IF Head(y.fmt) # "%" THEN [fmt |-> Tail(y.fmt), args |-> y.args]
  ELSE [fmt  |-> SubSeq(y.fmt, 3, Len(y.fmt)),
        args |-> IF y.fmt[2] \in DIRECTIVES THEN Tail(y.args) ELSE y.args]

(* Format and arguments match, as C asks of the caller, and no format ends *)
(* in a single "%", after which vkprintf would read on past the end.       *)
WellFormed(x) ==
  LET rest[k \in 0 .. Len(x.fmt)] == IF k = 0 THEN x ELSE Rest(rest[k - 1])
  IN  /\ \A k \in 0 .. Len(x.fmt) : Matches(rest[k])
      /\ rest[Len(x.fmt)].fmt = <<>>

(* num before the first division by base and after each of the next max.   *)
Quotients(num, base, max) ==
  LET q[k \in 0 .. max] == IF k = 0 THEN num ELSE q[k - 1] \div base
  IN  q

ASSUME ScreenAssumption ==
  /\ VGA_WIDTH \in Nat \ {0} /\ VGA_HEIGHT \in Nat \ {0, 1}
  /\ BYTE \in Nat \ {0} /\ SIZE <= BYTE * BYTE
  /\ BOOT_CURSORS \subseteq {[lo |-> l, hi |-> h] : l, h \in 0 .. (BYTE - 1)}
  /\ PLACES \subseteq [x : Int, y : Int]
  /\ COLORS \subseteq 0 .. 255 /\ {WHITE, LIGHT_GREEN, LIGHT_RED} \subseteq COLORS
  /\ MAX_CALLS \in Nat

(* The buffers hold the digits of the largest numbers.                     *)
ASSUME NumberAssumption ==
  /\ UINT \in Nat \ {0} /\ UINT % 2 = 0 /\ UINT64 \in Nat /\ UINT <= UINT64
  /\ NUM_BUF \in Nat \ {0, 1} /\ HEX_BUF \in Nat \ {0, 1}
  /\ Quotients(UINT - 1, 10, NUM_BUF - 1)[NUM_BUF - 1] = 0
  /\ Quotients(UINT64 - 1, 16, HEX_BUF - 1)[HEX_BUF - 1] = 0

ASSUME TextAssumption ==
  /\ {" ", "%"} \subseteq CHARS /\ " " \notin HIGH
  /\ INT_MIN_TEXT \in Seq(Printable)
  /\ WRITES \subseteq [buffer : Seq(CHARS \cup {NUL}), count : Nat]
  /\ \A x \in CALLS \cup {[fmt |-> INIT_MESSAGE, args |-> <<>>]} :
       /\ x = [fmt |-> x.fmt, args |-> x.args] /\ x.fmt \in Seq(Printable \cup DIRECTIVES)
       /\ WellFormed(x)

VARIABLES ready,    \* Init_VGA has been called
          screen,   \* [cells, lo, hi]: VGA_MEMORY and the cursor registers
          shape,    \* [start, end]: the scanlines of the cursor
          color,
          call,     \* the printing function that is running, or "none"
          temp,     \* kprintcolor's local variable
          fmt, args, todo,
          calls     \* calls made since Init_VGA

vars == <<ready, screen, shape, color, call, temp, fmt, args, todo, calls>>
printing == <<call, temp, fmt, args, todo>>

---------------------------------------------------------------------------
Blank(col) == [ch |-> " ", attr |-> col]

(* The word for a character: a negative one fills the attribute with ones. *)
Cell(c, col) == [ch |-> c, attr |-> IF c \in HIGH THEN 255 ELSE col]

VGA_GetCursorPosition(s) == s.lo + BYTE * s.hi

(* Mutant: a coordinate beyond the end is let through.                     *)
Clamp_LowOnly(v, limit) == IF v < 0 THEN 0 ELSE v

Clamp(v, limit) == IF v < 0 THEN 0 ELSE IF v >= limit THEN limit - 1 ELSE v

(* Mutant: the low byte of the position is not cut off.                    *)
CursorAt_NoMask(s, position) ==
  [cells |-> s.cells, lo |-> position, hi |-> (position \div BYTE) % BYTE]

CursorAt(s, position) ==
  [cells |-> s.cells, lo |-> position % BYTE, hi |-> (position \div BYTE) % BYTE]

VGA_SetCursor(s, x, y) ==
  CursorAt(s, Clamp(y, VGA_HEIGHT) * VGA_WIDTH + Clamp(x, VGA_WIDTH))

SetCursorTo(s, position) ==
  VGA_SetCursor(s, position % VGA_WIDTH, position \div VGA_WIDTH)

WithCell(s, position, cell) ==
  [cells |-> [s.cells EXCEPT ![position] = cell], lo |-> s.lo, hi |-> s.hi]

scrolled(cells, col) ==
  [i \in Cells |-> IF i + VGA_WIDTH \in Cells THEN cells[i + VGA_WIDTH] ELSE Blank(col)]

scroll(s, col) == [cells |-> scrolled(s.cells, col), lo |-> s.lo, hi |-> s.hi]

Newline(s, col) ==
  LET row == VGA_GetCursorPosition(s) \div VGA_WIDTH
  IN  IF row >= VGA_HEIGHT - 1
        THEN VGA_SetCursor(scroll(s, col), 0, VGA_HEIGHT - 1)
        ELSE VGA_SetCursor(s, 0, row + 1)

Backspace(s, col) ==
  LET position == VGA_GetCursorPosition(s)
  IN  IF position = 0 THEN s
      ELSE WithCell(SetCursorTo(s, position - 1), position - 1, Blank(col))

(* Mutant: the screen scrolls one character too late.                      *)
BeyondLast_Late(position) == position > SIZE

BeyondLast(position) == position >= SIZE

(* Any other character: it is written, the cursor moves, and behind the    *)
(* last cell, where the row is clamped, the screen scrolls.                *)
Glyph(s, c, col) ==
  LET next == VGA_GetCursorPosition(s) + 1
      cells == [s.cells EXCEPT ![next - 1] = Cell(c, col)]
  IN  SetCursorTo([cells |-> IF BeyondLast(next) THEN scrolled(cells, col) ELSE cells,
                   lo |-> s.lo, hi |-> s.hi], next)

(* VGA_Putc after the check at its head, without the four spaces it goes   *)
(* on to write for a tab.                                                  *)
Put(s, c, col) ==
  CASE c = NL  -> Newline(s, col)
    [] c = TAB -> s
    [] c = BS  -> Backspace(s, col)
    [] OTHER   -> Glyph(s, c, col)

(* The check at the head scrolls but leaves the cursor where it is.        *)
VGA_Putc(s, c, col) ==
  IF VGA_GetCursorPosition(s) >= SIZE THEN Put(scroll(s, col), c, col) ELSE Put(s, c, col)

(* Mutant: a tab writes a tab.                                             *)
Calls_Tab(c) == IF c = TAB THEN <<TAB>> ELSE <<>>

(* What is still to be written once VGA_Putc has begun on c.               *)
Calls(c) == IF c = TAB THEN <<" ", " ", " ", " ">> ELSE <<>>

(* A line is erased by writing VGA_WIDTH spaces, on the last row over its  *)
(* end.                                                                    *)
rmline(s, col) ==
  LET y == VGA_GetCursorPosition(s) \div VGA_WIDTH
      spaces[n \in 0 .. VGA_WIDTH] ==
        IF n = 0 THEN VGA_SetCursor(s, 0, y) ELSE VGA_Putc(spaces[n - 1], " ", col)
  IN  VGA_SetCursor(spaces[VGA_WIDTH], 0, y)

VGA_Clear(s) == [cells |-> [i \in Cells |-> Blank(WHITE)], lo |-> s.lo, hi |-> s.hi]

---------------------------------------------------------------------------
(* Numbers.  An argument is a 64-bit word; %d and %u take its lower half.  *)
AsInt(word) ==
  LET u == word % UINT IN IF u >= UINT \div 2 THEN u - UINT ELSE u

INT_MIN == -(UINT \div 2)

(* The loop that stores the digits of num, the lowest first, at most max.  *)
DigitsUpwards(num, base, max) ==
  LET q == Quotients(num, base, max)
      count == Min({k \in 1 .. max : k = max \/ q[k] = 0})
  IN  IF num < 0 THEN <<>>
      ELSE [i \in 1 .. count |-> DIGITS[(q[i - 1] % base) + 1]]

(* Mutant: the smallest number is not treated apart; -num overflows to it. *)
kprint_num_NoMin(num) ==
  LET negated == IF num = INT_MIN THEN num ELSE -num
  IN  IF num < 0 THEN Reverse(Append(DigitsUpwards(negated, 10, NUM_BUF - 1), "-"))
      ELSE Reverse(DigitsUpwards(num, 10, NUM_BUF - 1))

kprint_num(num) ==
  IF num = INT_MIN THEN INT_MIN_TEXT
  ELSE IF num < 0 THEN Reverse(Append(DigitsUpwards(-num, 10, NUM_BUF - 1), "-"))
  ELSE Reverse(DigitsUpwards(num, 10, NUM_BUF - 1))

kprint_unsigned(num) == Reverse(DigitsUpwards(num, 10, NUM_BUF - 1))

(* %x fills hex_buf from its end; its loop has no other bound than num.    *)
kprint_hex(num) == Reverse(DigitsUpwards(num, 16, HEX_BUF - 1))

---------------------------------------------------------------------------
Init ==
  /\ ready = FALSE
  /\ \E c \in BOOT_CURSORS :
       screen = [cells |-> [i \in Cells |-> [ch |-> "?", attr |-> WHITE]],
                 lo |-> c.lo, hi |-> c.hi]
  /\ shape = [start |-> 32, end |-> 0]
  /\ color = WHITE
  /\ call = "none" /\ temp = WHITE
  /\ fmt = <<>> /\ args = <<>> /\ todo = <<>> /\ calls = 0

(* Init_VGA, up to the message it prints at its end.                       *)
Init_VGA ==
  /\ ~ready
  /\ ready' = TRUE
  /\ screen' = VGA_SetCursor(VGA_Clear(screen), 0, 0)
  /\ shape' = [start |-> 14, end |-> 15]
  /\ color' = LIGHT_RED
  /\ call' = "kprintcolor" /\ temp' = LIGHT_GREEN
  /\ fmt' = INIT_MESSAGE /\ args' = <<>> /\ todo' = <<>>
  /\ UNCHANGED calls

(* No call is running, and one begins.                                     *)
Idle ==
  /\ ready /\ call = "none"
  /\ calls < MAX_CALLS /\ calls' = calls + 1

kprintf(x) ==
  /\ Idle
  /\ call' = "kprintf"
  /\ fmt' = x.fmt /\ args' = x.args /\ todo' = <<>>
  /\ UNCHANGED <<ready, screen, shape, color, temp>>

kprintcolor(new, x) ==
  /\ Idle
  /\ call' = "kprintcolor"
  /\ temp' = color /\ color' = new
  /\ fmt' = x.fmt /\ args' = x.args /\ todo' = <<>>
  /\ UNCHANGED <<ready, screen, shape>>

(* sys_write prints up to count characters, or up to a NUL.                *)
sys_write(x) ==
  /\ Idle
  /\ call' = "sys_write"
  /\ todo' = LET stop == {i \in DOMAIN x.buffer : i > x.count \/ x.buffer[i] = NUL}
             IN  IF stop = {} THEN x.buffer ELSE SubSeq(x.buffer, 1, Min(stop) - 1)
  /\ fmt' = <<>> /\ args' = <<>>
  /\ UNCHANGED <<ready, screen, shape, color, temp>>

(* kprint's loop: the next character of a string or number.                *)
PutNext ==
  /\ todo # <<>>
  /\ screen' = VGA_Putc(screen, Head(todo), color)
  /\ todo' = Calls(Head(todo)) \o Tail(todo)
  /\ UNCHANGED <<ready, shape, color, call, temp, fmt, args, calls>>

(* vkprintf's loop: a character that is not "%".                           *)
Literal ==
  /\ todo = <<>> /\ fmt # <<>> /\ Head(fmt) # "%"
  /\ todo' = <<Head(fmt)>>
  /\ fmt' = Tail(fmt)
  /\ UNCHANGED <<ready, screen, shape, color, call, temp, args, calls>>

(* vkprintf's loop: "%" and a directive, which is what fmt[2] is.          *)
Directive ==
  /\ todo = <<>> /\ Len(fmt) >= 2 /\ Head(fmt) = "%"
  /\ fmt' = SubSeq(fmt, 3, Len(fmt))
  /\ UNCHANGED <<ready, shape, color, call, temp, calls>>

(* %d, %u and %x: a number is formatted and printed by kprint.             *)
PrintNumber ==
  /\ Directive
  /\ fmt[2] \in {"d", "u", "x"}
  /\ todo' = CASE fmt[2] = "d" -> kprint_num(AsInt(Head(args)))
               [] fmt[2] = "u" -> kprint_unsigned(Head(args) % UINT)
               [] fmt[2] = "x" -> kprint_hex(Head(args) % UINT64)
  /\ args' = Tail(args)
  /\ UNCHANGED screen

(* %s: kprint takes one string to mean that the line is to be erased.      *)
PrintString ==
  /\ Directive
  /\ fmt[2] = "s"
  /\ IF Head(args) = ERASE_LINE
       THEN screen' = rmline(screen, color) /\ UNCHANGED todo
       ELSE todo' = Head(args) /\ UNCHANGED screen
  /\ args' = Tail(args)

PrintChar ==
  /\ Directive
  /\ fmt[2] = "c"
  /\ todo' = <<Head(args)>>
  /\ args' = Tail(args)
  /\ UNCHANGED screen

(* Any other character after "%": both are printed.                        *)
PrintBoth ==
  /\ Directive
  /\ fmt[2] \notin DIRECTIVES
  /\ todo' = <<"%", fmt[2]>>
  /\ UNCHANGED <<args, screen>>

ColorAfter == IF call = "kprintcolor" THEN temp ELSE color

(* The running call returns; kprintcolor restores the colour.              *)
Return ==
  /\ call # "none" /\ fmt = <<>> /\ todo = <<>>
  /\ call' = "none"
  /\ color' = ColorAfter
  /\ UNCHANGED <<ready, screen, shape, temp, fmt, args, todo, calls>>

---------------------------------------------------------------------------
(* The functions that other kernel code calls directly.                    *)
Putc(c) ==
  /\ Idle
  /\ call' = "VGA_Putc"
  /\ todo' = <<c>>
  /\ UNCHANGED <<ready, screen, shape, color, temp, fmt, args>>

Rmline ==
  /\ Idle
  /\ screen' = rmline(screen, color)
  /\ UNCHANGED <<ready, shape, color, printing>>

Clear ==
  /\ Idle
  /\ screen' = VGA_Clear(screen)
  /\ UNCHANGED <<ready, shape, color, printing>>

SetCursor(p) ==
  /\ Idle
  /\ screen' = VGA_SetCursor(screen, p.x, p.y)
  /\ UNCHANGED <<ready, shape, color, printing>>

SetColor(new_color) ==
  /\ Idle
  /\ color' = new_color
  /\ UNCHANGED <<ready, screen, shape, printing>>

(* VGA_EnableCursor writes both registers; bit 5 of the first, which hides *)
(* the cursor, is clear afterwards.  VGA_DisableCursor sets only that bit. *)
VGA_EnableCursor ==
  /\ Idle
  /\ shape' = [start |-> 14, end |-> 15]
  /\ UNCHANGED <<ready, screen, color, printing>>

VGA_DisableCursor ==
  /\ Idle
  /\ shape' = [start |-> 32, end |-> shape.end]
  /\ UNCHANGED <<ready, screen, color, printing>>

Printing ==
  \/ PutNext
  \/ Literal
  \/ PrintNumber
  \/ PrintString
  \/ PrintChar
  \/ PrintBoth
  \/ Return

Next ==
  \/ Init_VGA
  \/ \E x \in CALLS : kprintf(x)
  \/ \E x \in CALLS, new \in COLORS : kprintcolor(new, x)
  \/ \E x \in WRITES : sys_write(x)
  \/ Printing
  \/ \E c \in CHARS : Putc(c)
  \/ Rmline
  \/ Clear
  \/ \E p \in PLACES : SetCursor(p)
  \/ \E c \in COLORS : SetColor(c)
  \/ VGA_EnableCursor
  \/ VGA_DisableCursor

(* A call that prints runs to its end: it waits for nothing.               *)
Spec == Init /\ [][Next]_vars /\ WF_vars(Printing)

---------------------------------------------------------------------------
(* Type correctness.                                                       *)
TypeOK ==
  /\ ready \in BOOLEAN
  /\ DOMAIN screen.cells = Cells
  /\ screen.lo \in 0 .. (BYTE - 1) /\ screen.hi \in 0 .. (BYTE - 1)
  /\ shape.start \in 0 .. 255 /\ shape.end \in 0 .. 255
  /\ color \in 0 .. 255 /\ temp \in 0 .. 255
  /\ call \in {"none", "VGA_Putc", "kprintf", "kprintcolor", "sys_write"}

(* VGA_Putc writes where the cursor registers point, without a check that  *)
(* could still help: after any calls, with any coordinates, they point at  *)
(* a cell of the screen, the last cell having just been written included.  *)
CursorOnScreen == ready => VGA_GetCursorPosition(screen) \in Cells

DigitOf(c, base) == (CHOOSE k \in 1 .. base : DIGITS[k] = c) - 1

(* What the digits read so far are worth, after each of them.              *)
Values(text, base) ==
  LET v[i \in 0 .. Len(text)] ==
        IF i = 0 THEN 0 ELSE base * v[i - 1] + DigitOf(text[i], base)
  IN  v

(* text is n written in base, without leading zeros.                       *)
Numeral(text, base, n) ==
  /\ text # <<>>
  /\ \A i \in DOMAIN text : \E k \in 1 .. base : text[i] = DIGITS[k]
  /\ Len(text) > 1 => text[1] # "0"
  /\ Values(text, base)[Len(text)] = n

(* The literal in kprint_num spells the number it stands for.              *)
ASSUME LiteralAssumption ==
  /\ INT_MIN_TEXT # <<>> /\ Head(INT_MIN_TEXT) = "-"
  /\ Numeral(Tail(INT_MIN_TEXT), 10, UINT \div 2)

(* What kprintf writes for %d, %u and %x, digits stored upwards and then   *)
(* reversed or downwards from the end of a buffer, reads back as the       *)
(* number, the smallest int included.  This does not depend on the state;  *)
(* it is evaluated before Init_VGA only, to save time.                     *)
NumbersExact ==
  ~ready =>
    /\ \A n \in 0 .. (UINT - 1) : Numeral(kprint_unsigned(n), 10, n)
    /\ \A n \in 0 .. (UINT64 - 1) : Numeral(kprint_hex(n), 16, n)
    /\ \A n \in 0 .. ((UINT \div 2) - 1) : Numeral(kprint_num(n), 10, n)
    /\ \A n \in INT_MIN .. -1 : /\ Head(kprint_num(n)) = "-"
                                /\ Numeral(Tail(kprint_num(n)), 10, -n)

(* The screen as rows and a cursor on one of their cells.                  *)
AsTerminal ==
  [rows |-> [i \in 1 .. VGA_HEIGHT |-> [x \in 0 .. (VGA_WIDTH - 1) |->
               screen.cells[(i - 1) * VGA_WIDTH + x]]],
   x |-> VGA_GetCursorPosition(screen) % VGA_WIDTH,
   y |-> (VGA_GetCursorPosition(screen) \div VGA_WIDTH) + 1]

Display == IF ready THEN AsTerminal ELSE <<>>

T == INSTANCE Terminal WITH
       Width <- VGA_WIDTH, Height <- VGA_HEIGHT,
       Characters <- Printable \ {TAB}, High <- HIGH,
       Attributes <- COLORS, Cleared <- Blank(WHITE),
       t <- Display

(* The cells, the cursor and the scrolling behave like a terminal's: every *)
(* step of the screen memory and the two registers is a step of Terminal.  *)
ImplementsTerminal == T!Spec

(* Every call that prints comes to its end.                                *)
CallReturns == call # "none" ~> call = "none"
=============================================================================
