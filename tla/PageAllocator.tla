---------------------------- MODULE PageAllocator ----------------------------
(***************************************************************************)
(* The page allocator of kernel/memory.c as a state machine: kernel code   *)
(* calls Init_Memory once, then get_physical_page and free_physical_page   *)
(* in any order, the latter with any pointer.                              *)
(***************************************************************************)
EXTENDS PhysMem

CONSTANTS MEMORY_ENDS,  \* the ends of memory safe_parse_memory_map may find
          POINTERS      \* the pointers a caller may pass to free_physical_page

(* safe_parse_memory_map limits the end to MAX_MEMORY = 2^32 (RangeSane of *)
(* MemoryMap); 2^32 is spelt so that it stays within TLC's integers.       *)
ASSUME MemoryEndsAssumption ==
  MEMORY_ENDS \subseteq {e \in Nat : e > memory_start /\ (e - 1) \div 65536 < 65536}

ASSUME PointersAssumption == POINTERS \subseteq Nat

VARIABLES mm,     \* memory.c's static variables
          ret,    \* what the last get_physical_page returned
          cpu,    \* "running", or "faulting" for ever in the page-fault handler
          held    \* history: pointers returned and not yet passed to free

vars == <<mm, ret, cpu, held>>

Init ==
  /\ mm = BootMemory
  /\ ret = NULL
  /\ cpu = "running"
  /\ held = {}

InitMemory(memory_end) ==
  /\ cpu = "running" /\ ~mm.ready
  /\ mm' = Init_Memory(mm, memory_end)
  /\ UNCHANGED <<ret, cpu, held>>

(* If the memset faults, the bit is already cleared and nothing returns.   *)
GetPage ==
  LET r == get_physical_page(mm)
  IN  /\ cpu = "running"
      /\ mm' = r.m
      /\ IF MemsetFaults(r.ret)
           THEN cpu' = "faulting" /\ UNCHANGED <<ret, held>>
           ELSE /\ ret' = r.ret
                /\ held' = held \cup ({r.ret} \ {NULL})
                /\ UNCHANGED cpu

FreePage(page) ==
  /\ cpu = "running"
  /\ mm' = free_physical_page(mm, page)
  /\ cpu' = IF Freeable(mm, page) /\ MemsetFaults(page) THEN "faulting" ELSE cpu
  /\ held' = held \ {page}
  /\ UNCHANGED ret

Next ==
  \/ \E e \in MEMORY_ENDS : InitMemory(e)
  \/ GetPage
  \/ \E p \in POINTERS : FreePage(p)

Spec == Init /\ [][Next]_vars

---------------------------------------------------------------------------
TypeOK ==
  /\ mm \in [ready : BOOLEAN, memory_map : SUBSET Nat, memory_end : Nat,
             total_pages : Nat, used_pages : Nat]
  /\ ret \in Nat
  /\ cpu \in {"running", "faulting"}
  /\ held \subseteq Nat

(* used_pages, which MemoryInfo and get_free_memory report, agrees with    *)
(* the bitmap after any sequence of allocations and of valid, invalid and  *)
(* repeated frees: it neither drifts nor wraps below zero.                 *)
UsedPagesExact == mm.used_pages + Cardinality(FreePages(mm)) = mm.total_pages

(* While the CPU runs, the pages whose bit is 0 are exactly those some     *)
(* caller of get_physical_page holds: none is granted twice, none leaks.   *)
HeldExact ==
  cpu = "running" => held = {PageAddr(i) : i \in Pages(mm) \ FreePages(mm)}

(* A page in a caller's hands is a whole page inside the managed memory,   *)
(* aligned, never the NULL pointer and never beyond what is mapped; the    *)
(* bits past total_pages that the 0xFF fill sets are never handed out.     *)
HeldInsideMemory ==
  \A p \in held : /\ p % PAGE_SIZE = 0
                  /\ memory_start <= p /\ p + PAGE_SIZE <= mm.memory_end
                  /\ p < MAPPED_LIMIT

(* find_contiguous_free_pages answers with the first run of count free     *)
(* pages, 0 if there is none: the one-pass scan agrees with a search over  *)
(* all starting pages.  (A run that starts at page 0 also answers 0.)      *)
RunStarts(count) ==
  {s \in Pages(mm) : /\ s + count <= mm.total_pages
                     /\ \A k \in s .. (s + count - 1) : k \in mm.memory_map}

FindContiguousExact ==
  \A count \in 0 .. mm.total_pages + 1 :
    LET found == find_contiguous_free_pages(mm, count)
    IN  IF count = 0 \/ RunStarts(count) = {}
          THEN found = 0
          ELSE found \in RunStarts(count) /\ \A s \in RunStarts(count) : found <= s

(* The allocator implements the abstract pool: the frames it has taken out *)
(* of the bitmap are the granted ones, get_physical_page never returns a   *)
(* granted frame and returns NULL only when no frame is left.              *)
AbstractPool ==
  INSTANCE PagePool
    WITH Frames  <- {a \in Nat : a % PAGE_SIZE = 0},
         NoFrame <- NULL,
         pool    <- {PageAddr(i) : i \in Pages(mm)},
         granted <- {PageAddr(i) : i \in Pages(mm) \ FreePages(mm)},
         answer  <- ret

ImplementsPool == AbstractPool!Spec

(* "Memory initialized: %d MB, %d free pages" (memory.c:186): the pages    *)
(* counted as free can be allocated, i.e. taking one never hangs the CPU.  *)
FreePagesAllocatable == cpu # "faulting"
=============================================================================
