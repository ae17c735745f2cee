------------------------------ MODULE MCScreen ------------------------------
(***************************************************************************)
(* An instance of Screen for TLC: three rows of two cells, registers of    *)
(* two bits, ints of eight bits and 64-bit words of twelve.  The BIOS may  *)
(* leave the cursor past the end; the calls print every kind of argument,  *)
(* reach the last cell, erase lines and move the cursor off the screen.    *)
(***************************************************************************)
EXTENDS Screen

MCIntMinText == <<"-", "1", "2", "8">>
MCInitMessage == <<"k", NL>>
MCBootCursors == {[lo |-> 0, hi |-> 0], [lo |-> 3, hi |-> 3]}
MCChars == {"k", "z", " ", "%", "HI", NL, TAB, BS}
MCHigh == {"HI"}
MCColors == {WHITE, LIGHT_GREEN, LIGHT_RED}

Format(f, a) == [fmt |-> f, args |-> a]

MCCalls ==
  {Format(<<"%", "d", "%", "x">>, <<384, 2730>>),
   Format(<<"%", "u", "%", "c">>, <<263, "HI">>),
   Format(<<"%", "s", "k">>, <<ERASE_LINE>>),
   Format(<<"%", "s">>, << <<"k", TAB, NL>> >>),
   Format(<<"%", "z", "%", "%">>, <<>>)}

MCWrites == {[buffer |-> <<"k", "z", BS, NUL, "z">>, count |-> 5],
             [buffer |-> <<"k", "z">>, count |-> 1]}

MCPlaces == {[x |-> 1, y |-> 2], [x |-> -1, y |-> 3], [x |-> 9, y |-> -1]}
=============================================================================
