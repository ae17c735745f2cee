----------------------------- MODULE MCMemoryMap -----------------------------
(***************************************************************************)
(* An instance of MemoryMap for TLC.  A word holds 16 values and 64KB is 2 *)
(* units, so that memory_start = 4 and the 4GB limit is 16.  The entries   *)
(* are the cases of safe_parse_memory_map: below 1MB, across it, from it,  *)
(* above it and equally long, reserved, across 4GB, longer than 4GB, and   *)
(* beyond it; with an odd base, which is no multiple of 64KB, across 1MB,  *)
(* above it and just beyond 4GB.                                           *)
(***************************************************************************)
EXTENDS MemoryMap

MCAlignedEntries ==
  {[base |-> 0,  length |-> 3,  type |-> 1],
   [base |-> 0,  length |-> 7,  type |-> 1],
   [base |-> 4,  length |-> 5,  type |-> 1],
   [base |-> 10, length |-> 5,  type |-> 1],
   [base |-> 6,  length |-> 9,  type |-> 2],
   [base |-> 12, length |-> 6,  type |-> 1],
   [base |-> 2,  length |-> 17, type |-> 1],
   [base |-> 32, length |-> 6,  type |-> 1]}

MCEntries ==
  MCAlignedEntries \cup
  {[base |-> 3,  length |-> 6,  type |-> 1],
   [base |-> 9,  length |-> 5,  type |-> 1],
   [base |-> 17, length |-> 7,  type |-> 1]}
=============================================================================
