--------------------------- MODULE MCPageAllocator ---------------------------
(***************************************************************************)
(* Instances of PageAllocator for TLC: memories of a few pages, one of     *)
(* which ends in the middle of a page, and every kind of pointer a caller  *)
(* may pass to free_physical_page.                                         *)
(***************************************************************************)
EXTENDS PageAllocator

(* No whole page; three pages and 100 bytes; nine pages: two bitmap bytes. *)
MCMemoryEnds == {memory_start + 100, PageAddr(3) + 100, PageAddr(9)}

(* The identity mapping ends before the last of nine pages, or after two.  *)
MCMostlyMapped == PageAddr(8)
MCShortlyMapped == PageAddr(2)

(* Every page of the largest memory and the page after it, NULL, below the *)
(* managed memory, and unaligned.                                          *)
MCPointers ==
  {PageAddr(i) : i \in 0 .. 9} \cup {NULL, memory_start - PAGE_SIZE, PageAddr(1) + 8}

MCShortPointers == {PageAddr(0), PageAddr(2)}

=============================================================================
