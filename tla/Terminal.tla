------------------------------ MODULE Terminal ------------------------------
(***************************************************************************)
(* What the text screen promises, without linear memory and registers: a   *)
(* sequence of rows and a cursor that is always on one of their cells.     *)
(* Text that reaches the end of the last row moves everything up by a row. *)
(***************************************************************************)
EXTENDS Integers, Sequences

CONSTANTS Width, Height,
          Characters, \* what can be typed
          High,       \* characters that lose their colour
          Attributes, \* colours of a cell
          Cleared     \* the cell that clearing the screen leaves

VARIABLE t            \* the terminal, or Off before it is initialised

Off == <<>>
Columns == 0 .. (Width - 1)
Blank(a) == [ch |-> " ", attr |-> a]
BlankRow(cell) == [x \in Columns |-> cell]

Fresh == [rows |-> [i \in 1 .. Height |-> BlankRow(Cleared)], x |-> 0, y |-> 1]

(* The cursor at the start of the next row; below the last one, the rows   *)
(* move up.                                                                *)
NewLine(s, a) ==
  IF s.y < Height
    THEN [s EXCEPT !.x = 0, !.y = @ + 1]
    ELSE [s EXCEPT !.x = 0, !.rows = Append(Tail(@), BlankRow(Blank(a)))]

Show(s, ch, a) ==
  LET shown == [s EXCEPT !.rows[s.y][s.x] = [ch |-> ch, attr |-> IF ch \in High THEN 255 ELSE a]]
  IN  IF s.x < Width - 1 THEN [shown EXCEPT !.x = @ + 1] ELSE NewLine(shown, a)

(* A backspace erases the cell before the cursor, at the start of a row    *)
(* the last one of the row above, and nothing at the top left.             *)
Back(s, a) ==
  LET back == IF s.x > 0 THEN [s EXCEPT !.x = @ - 1]
              ELSE [s EXCEPT !.x = Width - 1, !.y = @ - 1]
  IN  IF s.x = 0 /\ s.y = 1 THEN s
      ELSE [back EXCEPT !.rows[back.y][back.x] = Blank(a)]

(* Erasing the cursor's row moves the cursor to its start.  The last row   *)
(* is erased by writing over its end: the rows move up as well.            *)
Erase(s, a) ==
  LET erased == [s EXCEPT !.x = 0, !.rows[s.y] = BlankRow(Blank(a))]
  IN  IF s.y < Height THEN erased ELSE NewLine(erased, a)

Put(s, ch, a) == CASE ch = "\n" -> NewLine(s, a)
                   [] ch = "BS" -> Back(s, a)
                   [] OTHER     -> Show(s, ch, a)

PowerOn == t = Off /\ t' = Fresh

Type ==
  \E a \in Attributes :
    \/ \E ch \in Characters : t' = Put(t, ch, a)
    \/ t' = Erase(t, a)

Clear == t' = [t EXCEPT !.rows = Fresh.rows]
Move == \E x \in Columns, y \in 1 .. Height : t' = [t EXCEPT !.x = x, !.y = y]

Init == t = Off
Next == PowerOn \/ (t # Off /\ (Type \/ Clear \/ Move))

Spec == Init /\ [][Next]_t
=============================================================================
