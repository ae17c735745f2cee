------------------------------ MODULE MCProcess ------------------------------
(***************************************************************************)
(* An instance of Process for TLC: three slots, memories of one page (the  *)
(* idle process cannot be created), of four (the third process finds no    *)
(* page for its stacks or, with a page taken, none for its second stack)   *)
(* and of five pages, of which the last is not mapped.                     *)
(***************************************************************************)
EXTENDS Process

MCMemoryEnds == {PageAddr(1), PageAddr(4), PageAddr(5)}
MCMappedLimit == PageAddr(4)
=============================================================================
