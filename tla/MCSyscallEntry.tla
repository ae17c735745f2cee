--------------------------- MODULE MCSyscallEntry ---------------------------
(***************************************************************************)
(* An instance of SyscallEntry for TLC: two callers' stacks, zeroed .bss.  *)
(***************************************************************************)
EXTENDS SyscallEntry
=============================================================================
