------------------------------- MODULE PhysMem -------------------------------
(***************************************************************************)
(* The physical page allocator of kernel/memory.c as operators on a record *)
(* that holds its static variables, so that a caller such as               *)
(* create_process, which takes and returns several pages within one call,  *)
(* can thread the allocator's state through its own action.                *)
(*                                                                         *)
(* A record m has the fields                                               *)
(*   ready        memory_map # NULL, i.e. Init_Memory has run              *)
(*   memory_map   the set of bits of the bitmap that are 1 (page is free)  *)
(*   memory_end   end of the managed memory, a byte address                *)
(*   total_pages, used_pages                                               *)
(*                                                                         *)
(* Addresses are the code's own byte addresses.  The only scaled quantity  *)
(* is MAPPED_LIMIT, the end of the identity mapping that boot.asm builds   *)
(* (0x200000): the memset of a page at or above it raises a page fault     *)
(* from which isr_handler returns to the same instruction, for ever.       *)
(***************************************************************************)
EXTENDS Integers, FiniteSets

CONSTANT MAPPED_LIMIT   \* end of the identity-mapped memory (boot/boot.asm:82)

NULL == 0
PAGE_SIZE == 4096
memory_start == 1048576                  \* 0x100000
DEFAULT_MEMORY_END == 536870912          \* 0x20000000

ASSUME MappedLimitAssumption ==
  /\ MAPPED_LIMIT \in Nat
  /\ MAPPED_LIMIT % PAGE_SIZE = 0

(* memory.c's static variables as the loader leaves them.                  *)
BootMemory ==
  [ready |-> FALSE, memory_map |-> {}, memory_end |-> DEFAULT_MEMORY_END,
   total_pages |-> 0, used_pages |-> 0]

PageAddr(i) == memory_start + i * PAGE_SIZE
PageIndex(page) == (page - memory_start) \div PAGE_SIZE

(* The pages the loops "for i < total_pages" visit, and the free ones.  A  *)
(* definition commented "Mutant" is a faulty variant of the one after it:  *)
(* PROJECT.json names the property that exposes it.                        *)
Pages(m) == 0 .. (m.total_pages - 1)

(* Mutant: the loop runs over every bit of the bitmap.                     *)
FreePages_AllBits(m) == m.memory_map

FreePages(m) == {i \in Pages(m) : i \in m.memory_map}

calculate_bitmap_size(total_pages) == (total_pages + 7) \div 8

(* Bytes of 0xFF: bits past total_pages are 1 as well.                     *)
BitmapBits(total_pages) == 0 .. (8 * calculate_bitmap_size(total_pages) - 1)

(* m with another bitmap and count of used pages.                          *)
WithBitmap(m, bits, used) ==
  [ready |-> m.ready, memory_map |-> bits, memory_end |-> m.memory_end,
   total_pages |-> m.total_pages, used_pages |-> used]

---------------------------------------------------------------------------
(* mark_memory_range_used clips the range to the managed memory and clears *)
(* the bits of its pages; each bit that was 1 counts as a used page.       *)
RangePages(m, start, end) ==
  LET s == IF start < memory_start THEN memory_start ELSE start
      e == IF end > m.memory_end THEN m.memory_end ELSE end
  IN  IF s >= e
        THEN {}
        ELSE {i \in FreePages(m) : /\ (s - memory_start) \div PAGE_SIZE <= i
                                   /\ i < (e - memory_start) \div PAGE_SIZE}

mark_memory_range_used(m, start, end) ==
  LET marked == RangePages(m, start, end)
  IN  WithBitmap(m, m.memory_map \ marked, m.used_pages + Cardinality(marked))

(* The bitmap filled with 0xFF for a memory that ends at memory_end.       *)
FreshBitmap(m, memory_end) ==
  LET total == (memory_end - memory_start) \div PAGE_SIZE
  IN  [ready |-> TRUE, memory_map |-> BitmapBits(total), memory_end |-> memory_end,
       total_pages |-> total, used_pages |-> m.used_pages]

(* Init_Memory: memory_end is what safe_parse_memory_map stored, or the    *)
(* default (module MemoryMap).  Then five ranges are marked: the kernel,   *)
(* the boot page tables, the memory map, the bitmap and the VGA memory.    *)
Init_Memory(m, memory_end) ==
  LET m0 == FreshBitmap(m, memory_end)
      m1 == mark_memory_range_used(m0, 65536, 131072)
      m2 == mark_memory_range_used(m1, 4096, 20480)
      m3 == mark_memory_range_used(m2, 20480, 24576)
      m4 == mark_memory_range_used(m3, 393216,
                        393216 + calculate_bitmap_size(m3.total_pages))
  IN  mark_memory_range_used(m4, 753664, 753664 + 32768)

---------------------------------------------------------------------------
(* memset(page, 0, PAGE_SIZE) of a page that is not mapped.                *)
MemsetFaults(page) == page # NULL /\ page >= MAPPED_LIMIT

(* The first bit that the scan from page 0 finds set.                      *)
FirstFree(m) == CHOOSE i \in FreePages(m) : \A j \in FreePages(m) : i <= j

(* Mutant: only the pages of whole bitmap bytes are scanned.               *)
get_physical_page_WholeBytes(m) ==
  LET i == FirstFree(m)
  IN  IF ~m.ready \/ FreePages(m) = {} \/ i >= 8 * (m.total_pages \div 8)
        THEN [m |-> m, ret |-> NULL]
        ELSE [m |-> WithBitmap(m, m.memory_map \ {i}, m.used_pages + 1),
              ret |-> PageAddr(i)]

(* get_physical_page: the new allocator state and the page, which is       *)
(* cleared (MemsetFaults) before it is returned.                           *)
get_physical_page(m) ==
  LET i == FirstFree(m)
  IN  IF ~m.ready \/ FreePages(m) = {} \/ PageAddr(i) >= m.memory_end
        THEN [m |-> m, ret |-> NULL]
        ELSE [m |-> WithBitmap(m, m.memory_map \ {i}, m.used_pages + 1),
              ret |-> PageAddr(i)]

(* Mutant: the test of the bit is missing, a page can be freed twice.      *)
Freeable_Twice(m, page) ==
  /\ m.ready
  /\ memory_start <= page /\ page < m.memory_end
  /\ page % PAGE_SIZE = 0
  /\ PageIndex(page) < m.total_pages

(* Mutant: the alignment check is missing.                                 *)
Freeable_Unaligned(m, page) ==
  /\ m.ready
  /\ memory_start <= page /\ page < m.memory_end
  /\ PageIndex(page) < m.total_pages
  /\ PageIndex(page) \notin m.memory_map

(* free_physical_page accepts any pointer and ignores one that is out of   *)
(* range, unaligned, past the last whole page, or of a page already free.  *)
(* A page it accepts is cleared (MemsetFaults) after its bit is set.       *)
Freeable(m, page) ==
  /\ m.ready
  /\ memory_start <= page /\ page < m.memory_end
  /\ page % PAGE_SIZE = 0
  /\ PageIndex(page) < m.total_pages
  /\ PageIndex(page) \notin m.memory_map

(* Mutant: used_pages-- is missing.                                        *)
free_physical_page_NoCount(m, page) ==
  IF ~Freeable(m, page)
    THEN m
    ELSE WithBitmap(m, m.memory_map \cup {PageIndex(page)}, m.used_pages)

free_physical_page(m, page) ==
  IF ~Freeable(m, page)
    THEN m
    ELSE WithBitmap(m, m.memory_map \cup {PageIndex(page)}, m.used_pages - 1)

---------------------------------------------------------------------------
(* Mutant: a used page does not reset the run.                             *)
ScanStep_NoReset(m, count, i, s) ==
  IF s.found \/ i \notin m.memory_map THEN s
  ELSE [run |-> s.run + 1,
        start |-> IF s.run = 0 THEN i ELSE s.start,
        found |-> s.run + 1 >= count]

(* The scan of find_contiguous_free_pages: scan[i] is the state of its     *)
(* locals after the loop body ran for pages 0 .. i-1.                      *)
ScanStep(m, count, i, s) ==
  IF s.found THEN s
  ELSE IF i \in m.memory_map
    THEN [run |-> s.run + 1,
          start |-> IF s.run = 0 THEN i ELSE s.start,
          found |-> s.run + 1 >= count]
    ELSE [s EXCEPT !.run = 0]

find_contiguous_free_pages(m, count) ==
  LET scan[i \in 0 .. m.total_pages] ==
        IF i = 0 THEN [run |-> 0, start |-> 0, found |-> FALSE]
                 ELSE ScanStep(m, count, i - 1, scan[i - 1])
      last == scan[m.total_pages]
  IN  IF ~m.ready \/ count = 0 \/ count > m.total_pages \/ ~last.found
        THEN 0
        ELSE last.start
=============================================================================
