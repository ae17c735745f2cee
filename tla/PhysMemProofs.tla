---------------------------- MODULE PhysMemProofs ----------------------------
(***************************************************************************)
(* Facts about the operators of PhysMem that the proofs about its callers  *)
(* share: the arithmetic of pages, what Init_Memory leaves, and what one   *)
(* call of get_physical_page or free_physical_page does to the set of      *)
(* frames in use.                                                          *)
(***************************************************************************)
EXTENDS PhysMem, FiniteSetTheorems, WellFoundedInduction, TLAPS

---------------------------------------------------------------------------
(* Arithmetic of pages and addresses.                                      *)

(* The page with index i is aligned, in range and found again by the       *)
(* division that free_physical_page performs.                              *)
LEMMA PageAddrFacts ==
  ASSUME NEW i \in Nat
  PROVE  /\ PageAddr(i) \in Nat
         /\ PageAddr(i) >= memory_start
         /\ PageAddr(i) # NULL
         /\ PageAddr(i) % PAGE_SIZE = 0
         /\ PageIndex(PageAddr(i)) = i
BY SMT DEF PageAddr, PageIndex, PAGE_SIZE, memory_start, NULL

(* An aligned address of the managed memory is the address of its page.    *)
LEMMA AddrOfIndex ==
  ASSUME NEW p \in Nat, p >= memory_start, p % PAGE_SIZE = 0
  PROVE  /\ PageIndex(p) \in Nat
         /\ PageAddr(PageIndex(p)) = p
BY SMT DEF PageAddr, PageIndex, PAGE_SIZE, memory_start

(* Different pages have different addresses.                               *)
LEMMA PageAddrInjective ==
  ASSUME NEW i \in Nat, NEW j \in Nat, PageAddr(i) = PageAddr(j)
  PROVE  i = j
BY SMT DEF PageAddr, PageIndex, PAGE_SIZE, memory_start

(* A page with index below (e - memory_start) / PAGE_SIZE ends at or       *)
(* before e: no partial page is counted.                                   *)
LEMMA WholePages ==
  ASSUME NEW e \in Nat, e > memory_start, NEW i \in Nat,
         i < (e - memory_start) \div PAGE_SIZE
  PROVE  PageAddr(i) + PAGE_SIZE <= e
BY SMT DEF PageAddr, PageIndex, PAGE_SIZE, memory_start

(* A nonempty set of natural numbers has a least element.                  *)
LEMMA LeastNat ==
  ASSUME NEW T, T \subseteq Nat, T # {}
  PROVE  \E x \in T : \A y \in T : x <= y
<1> DEFINE Less == {ss \in Nat \X Nat : ss[1] < ss[2]}
<1>1. OpToRel(<, Nat) = Less
  BY DEF OpToRel
<1>2. IsWellFoundedOn(Less, Nat)
  BY <1>1, NatLessThanWellFounded, Zenon
<1>3. \A a, b \in Nat : b < a => <<b, a>> \in Less
  BY DEF Less
<1> HIDE DEF Less
<1>4. PICK x \in T : \A y \in T : ~(<<y, x>> \in Less)
  BY <1>2, WFMin, Zenon
<1>5. ASSUME NEW y \in T, ~(x <= y) PROVE FALSE
  <2>1. x \in Nat /\ y \in Nat /\ y < x
    BY <1>5
  <2>2. <<y, x>> \in Less
    BY <1>3, <2>1
  <2> QED BY <1>4, <2>2
<1> QED BY <1>5

---------------------------------------------------------------------------
(* The operators of PhysMem.                                               *)

MemType ==
  [ready : BOOLEAN, memory_map : SUBSET Nat, memory_end : Nat,
   total_pages : Nat, used_pages : Nat]

(* The scan for the first free page finds one when there is one.           *)
LEMMA FirstFreeIsFree ==
  ASSUME NEW m \in MemType, FreePages(m) # {}
  PROVE  FirstFree(m) \in FreePages(m)
<1>1. FreePages(m) \subseteq Nat
  BY DEF FreePages, Pages, MemType
<1>2. \E i \in FreePages(m) : \A j \in FreePages(m) : i <= j
  BY <1>1, LeastNat, Zenon
<1> QED
  BY <1>2, Zenon DEF FirstFree

(* Only finitely many pages are free.                                      *)
LEMMA FreePagesFinite ==
  ASSUME NEW m \in MemType
  PROVE  /\ IsFiniteSet(FreePages(m))
         /\ Cardinality(FreePages(m)) \in Nat
<1>1. IsFiniteSet(Pages(m))
  BY FS_Interval DEF Pages, MemType
<1>2. FreePages(m) \in SUBSET Pages(m)
  BY DEF FreePages
<1> QED
  BY <1>1, <1>2, FS_Subset, FS_CardinalityType

(* None of the five ranges that Init_Memory marks as used reaches the      *)
(* managed memory, which begins at 1MB: the calls change nothing.          *)
LEMMA LowRangesMarkNothing ==
  ASSUME NEW m \in MemType, NEW start \in Nat, NEW end \in Nat,
         end <= memory_start, start <= memory_start, m.memory_end > memory_start
  PROVE  mark_memory_range_used(m, start, end) = m
<1>1. RangePages(m, start, end) = {}
  BY SMT DEF RangePages, memory_start, MemType
<1>2. m.memory_map \ {} = m.memory_map
  OBVIOUS
<1>3. Cardinality({}) = 0 /\ m.used_pages \in Nat
  BY FS_EmptySet DEF MemType
<1> QED
  BY <1>1, <1>2, <1>3 DEF mark_memory_range_used, WithBitmap, MemType

(* The bitmap that Init_Memory fills, and the range it stands for.         *)
LEMMA FreshBitmapType ==
  ASSUME NEW m \in MemType, NEW e \in Nat, e > memory_start
  PROVE  /\ FreshBitmap(m, e) \in MemType
         /\ FreshBitmap(m, e).memory_end = e
<1>1. e \in Nat /\ e > memory_start
  OBVIOUS
<1>2. (e - memory_start) \div PAGE_SIZE \in Nat
  BY <1>1, SMT DEF memory_start, PAGE_SIZE
<1>3. \A n \in Nat : BitmapBits(n) \subseteq Nat
  BY DEF BitmapBits, calculate_bitmap_size
<1> QED
  BY <1>1, <1>2, <1>3 DEF FreshBitmap, MemType

(* For 4GB at most, the bitmap at 0x60000 ends below the managed memory.   *)
LEMMA BitmapBelowManagedMemory ==
  ASSUME NEW e \in Nat, e > memory_start, (e - 1) \div 65536 < 65536
  PROVE  LET size == calculate_bitmap_size((e - memory_start) \div PAGE_SIZE)
         IN  size \in Nat /\ 393216 + size <= memory_start
<1>1. e \in Nat /\ e > memory_start /\ (e - 1) \div 65536 < 65536
  OBVIOUS
<1>2. e - 1 < 65536 * 65536
  BY <1>1, SMT DEF memory_start
<1>3. /\ (e - memory_start) \div PAGE_SIZE \in Nat
      /\ (e - memory_start) \div PAGE_SIZE <= 1048576
  BY <1>1, <1>2, SMT DEF memory_start, PAGE_SIZE
<1>4. ASSUME NEW t \in Nat, t <= 1048576
      PROVE  (t + 7) \div 8 \in Nat /\ (t + 7) \div 8 <= 131072
  BY <1>4, SMT
<1> QED
  BY <1>3, <1>4, SMT DEF calculate_bitmap_size, memory_start

(* Init_Memory leaves every page of the managed memory free.               *)
LEMMA InitMemoryFresh ==
  ASSUME NEW m \in MemType, NEW e \in Nat, e > memory_start,
         (e - 1) \div 65536 < 65536
  PROVE  Init_Memory(m, e) = FreshBitmap(m, e)
<1> DEFINE f == FreshBitmap(m, e)
<1>1. f \in MemType /\ f.memory_end = e /\ e \in Nat /\ e > memory_start
  BY FreshBitmapType
<1>2. f.total_pages = (e - memory_start) \div PAGE_SIZE
  BY DEF FreshBitmap, MemType
<1>3. /\ calculate_bitmap_size(f.total_pages) \in Nat
      /\ 393216 + calculate_bitmap_size(f.total_pages) <= memory_start
  BY <1>2, BitmapBelowManagedMemory
<1> HIDE DEF f
<1>4. /\ mark_memory_range_used(f, 65536, 131072) = f
      /\ mark_memory_range_used(f, 4096, 20480) = f
      /\ mark_memory_range_used(f, 20480, 24576) = f
      /\ mark_memory_range_used(f, 753664, 753664 + 32768) = f
  BY <1>1, LowRangesMarkNothing, SMT DEF memory_start
<1>5. mark_memory_range_used(f, 393216,
                 393216 + calculate_bitmap_size(f.total_pages)) = f
  <2>1. /\ 393216 + calculate_bitmap_size(f.total_pages) \in Nat
        /\ 393216 + calculate_bitmap_size(f.total_pages) <= memory_start
        /\ 393216 \in Nat /\ 393216 <= memory_start
    BY <1>3, SMT DEF memory_start
  <2> QED
    BY <1>1, <2>1, LowRangesMarkNothing, SMT
<1> QED
  BY <1>4, <1>5 DEF Init_Memory, f

(* Clearing a bit takes its page out of the set of free pages.             *)
LEMMA ClearBit ==
  ASSUME NEW m \in MemType, NEW i \in Pages(m), NEW used \in Nat,
         NEW n, n = WithBitmap(m, m.memory_map \ {i}, used)
  PROVE  n \in MemType /\ FreePages(n) = FreePages(m) \ {i} /\ Pages(n) = Pages(m)
BY DEF WithBitmap, FreePages, Pages, MemType

(* Setting a bit adds its page.                                            *)
LEMMA SetBit ==
  ASSUME NEW m \in MemType, NEW i \in Pages(m), NEW used \in Nat,
         NEW n, n = WithBitmap(m, m.memory_map \cup {i}, used)
  PROVE  n \in MemType /\ FreePages(n) = FreePages(m) \cup {i} /\ Pages(n) = Pages(m)
BY DEF WithBitmap, FreePages, Pages, MemType


---------------------------------------------------------------------------
(* What a caller may rely on: the frames in use, and the shape and the     *)
(* count of an allocator that Init_Memory has set up.                      *)
UsedFrames(m) == {PageAddr(i) : i \in Pages(m) \ FreePages(m)}

Consistent(m) ==
  /\ m \in MemType /\ m.ready
  /\ m.memory_end > memory_start
  /\ m.total_pages = (m.memory_end - memory_start) \div PAGE_SIZE
  /\ m.used_pages + Cardinality(FreePages(m)) = m.total_pages

(* A frame in use is a page of the memory whose bit is 0, never NULL.      *)
LEMMA UsedFrameIndex ==
  ASSUME NEW m \in MemType, NEW p \in UsedFrames(m)
  PROVE  /\ p \in Nat /\ p # NULL /\ p >= memory_start /\ p % PAGE_SIZE = 0
         /\ PageIndex(p) \in Pages(m) \ FreePages(m)
         /\ PageIndex(p) \in Nat /\ p = PageAddr(PageIndex(p))
<1>1. PICK i \in Pages(m) \ FreePages(m) : p = PageAddr(i)
  BY DEF UsedFrames
<1>2. i \in Nat
  BY DEF Pages, MemType
<1> QED
  BY <1>1, <1>2, PageAddrFacts

(* After Init_Memory no frame is in use.                                   *)
LEMMA InitMemoryConsistent ==
  ASSUME NEW e \in Nat, e > memory_start, (e - 1) \div 65536 < 65536
  PROVE  /\ Consistent(Init_Memory(BootMemory, e))
         /\ UsedFrames(Init_Memory(BootMemory, e)) = {}
<1> DEFINE total == (e - memory_start) \div PAGE_SIZE
           m == Init_Memory(BootMemory, e)
<1>1. BootMemory \in MemType
  BY SMT DEF BootMemory, MemType, DEFAULT_MEMORY_END
<1>2. m = FreshBitmap(BootMemory, e)
  BY <1>1, InitMemoryFresh
<1>3. m \in MemType /\ m.memory_end = e
  BY <1>1, <1>2, FreshBitmapType
<1>4. m.ready /\ m.total_pages = total /\ m.used_pages = 0
  BY <1>2 DEF FreshBitmap, BootMemory
<1>5. total \in Nat
  BY SMT DEF memory_start, PAGE_SIZE
<1>6. m.memory_map = BitmapBits(total)
  BY <1>2 DEF FreshBitmap
<1> HIDE DEF m
<1>7. FreePages(m) = Pages(m) /\ Pages(m) = 0 .. total - 1
  <2>1. 0 .. total - 1 \subseteq BitmapBits(total)
    <3> HIDE DEF total
    <3> QED BY <1>5, SMT DEF BitmapBits, calculate_bitmap_size
  <2> QED
    BY <1>4, <1>6, <2>1 DEF FreePages, Pages
<1>8. Cardinality(FreePages(m)) = total
  <2> HIDE DEF total
  <2> QED BY <1>5, <1>7, FS_Interval
<1>9. Consistent(m)
  BY <1>3, <1>4, <1>5, <1>8 DEF Consistent
<1>10. UsedFrames(m) = {}
  BY <1>7 DEF UsedFrames
<1> QED
  BY <1>9, <1>10 DEF m

(* get_physical_page returns NULL and changes nothing, exactly when no     *)
(* page is free, or takes a frame that was not in use.                     *)
LEMMA GetPageEffect ==
  ASSUME NEW m, Consistent(m), NEW g, g = get_physical_page(m)
  PROVE  \/ FreePages(m) = {} /\ g.ret = NULL /\ g.m = m
         \/ /\ FreePages(m) # {}
            /\ g.ret \in Nat /\ g.ret # NULL /\ g.ret \notin UsedFrames(m)
            /\ UsedFrames(g.m) = UsedFrames(m) \cup {g.ret}
            /\ Consistent(g.m)
            /\ g.m.memory_end = m.memory_end /\ g.m.total_pages = m.total_pages
<1>1. m \in MemType
  BY DEF Consistent
<1>2. CASE FreePages(m) = {}
  BY <1>2 DEF get_physical_page
<1>3. CASE FreePages(m) # {}
  <2> DEFINE i == FirstFree(m)
             used == m.used_pages + 1
  <2>1. i \in FreePages(m)
    BY <1>1, <1>3, FirstFreeIsFree
  <2>2. g = IF ~m.ready \/ FreePages(m) = {} \/ PageAddr(i) >= m.memory_end
              THEN [m |-> m, ret |-> NULL]
              ELSE [m |-> WithBitmap(m, m.memory_map \ {i}, used), ret |-> PageAddr(i)]
    BY DEF get_physical_page
  <2> HIDE DEF i
  <2>3. i \in Pages(m) /\ i \in Nat /\ i < m.total_pages
    BY <1>1, <2>1 DEF FreePages, Pages, MemType
  <2>4. PageAddr(i) + PAGE_SIZE <= m.memory_end
    BY <1>1, <2>3, WholePages DEF Consistent, MemType
  <2>5. ~(PageAddr(i) >= m.memory_end)
    BY <1>1, <2>3, <2>4, PageAddrFacts, SMT DEF PAGE_SIZE, MemType
  <2>6. used \in Nat
    BY <1>1 DEF MemType
  <2> HIDE DEF used
  <2>7. g.m = WithBitmap(m, m.memory_map \ {i}, used) /\ g.ret = PageAddr(i)
    BY <1>3, <2>2, <2>5 DEF Consistent
  <2>8. g.m \in MemType /\ FreePages(g.m) = FreePages(m) \ {i} /\ Pages(g.m) = Pages(m)
    <3> DEFINE n == g.m
    <3>1. m \in MemType /\ i \in Pages(m) /\ used \in Nat
          /\ n = WithBitmap(m, m.memory_map \ {i}, used)
      BY <1>1, <2>3, <2>6, <2>7
    <3> HIDE DEF n
    <3>2. n \in MemType /\ FreePages(n) = FreePages(m) \ {i} /\ Pages(n) = Pages(m)
      BY <3>1, ClearBit
    <3> QED
      BY <3>2 DEF n
  <2>9. /\ g.m.ready = m.ready /\ g.m.memory_end = m.memory_end
        /\ g.m.total_pages = m.total_pages /\ g.m.used_pages = used
    BY <2>7 DEF WithBitmap
  <2>10. Consistent(g.m)
    <3>1. Cardinality(FreePages(m) \ {i}) = Cardinality(FreePages(m)) - 1
      BY <1>1, <2>1, FreePagesFinite, FS_RemoveElement
    <3>2. Cardinality(FreePages(m)) \in Nat /\ m.used_pages \in Nat
      BY <1>1, FreePagesFinite DEF MemType
    <3>3. m.used_pages + Cardinality(FreePages(m)) = m.total_pages
      BY DEF Consistent
    <3>4. used + Cardinality(FreePages(g.m)) = m.total_pages
      BY <2>8, <3>1, <3>2, <3>3 DEF used
    <3> QED
      BY <2>8, <2>9, <3>4 DEF Consistent
  <2>11. \A j \in Pages(m) : PageAddr(j) = PageAddr(i) => j = i
    BY <1>1, <2>3, PageAddrInjective DEF Pages, MemType
  <2>12. g.ret \notin UsedFrames(m)
    BY <2>1, <2>7, <2>11 DEF UsedFrames
  <2>13. UsedFrames(g.m) = UsedFrames(m) \cup {g.ret}
    <3>1. Pages(m) \ (FreePages(m) \ {i}) = (Pages(m) \ FreePages(m)) \cup {i}
      BY <2>1, <2>3
    <3> QED
      BY <2>7, <2>8, <3>1 DEF UsedFrames
  <2>14. g.ret \in Nat /\ g.ret # NULL
    BY <2>3, <2>7, PageAddrFacts
  <2> QED
    BY <1>3, <2>9, <2>10, <2>12, <2>13, <2>14
<1> QED
  BY <1>2, <1>3

(* A frame in use that is freed is in use no more, and nothing else is.    *)
LEMMA FreePageEffect ==
  ASSUME NEW m, Consistent(m), NEW p \in UsedFrames(m)
  PROVE  LET n == free_physical_page(m, p)
         IN  /\ Consistent(n)
             /\ UsedFrames(n) = UsedFrames(m) \ {p}
             /\ n.memory_end = m.memory_end /\ n.total_pages = m.total_pages
<1> DEFINE n == free_physical_page(m, p)
           i == PageIndex(p)
           used == m.used_pages - 1
<1>1. m \in MemType
  BY DEF Consistent
<1>2. /\ p \in Nat /\ p >= memory_start /\ p % PAGE_SIZE = 0
      /\ i \in Pages(m) \ FreePages(m) /\ i \in Nat /\ p = PageAddr(i)
  BY <1>1, UsedFrameIndex
<1>3. i < m.total_pages /\ i \notin m.memory_map
  BY <1>1, <1>2 DEF Pages, FreePages, MemType
<1>4. PageAddr(i) + PAGE_SIZE <= m.memory_end
  BY <1>1, <1>2, <1>3, WholePages DEF Consistent, MemType
<1>5. p < m.memory_end
  BY <1>1, <1>2, <1>4, SMT DEF PAGE_SIZE, MemType
<1>6. Freeable(m, p)
  BY <1>2, <1>3, <1>5 DEF Freeable, Consistent
<1>7. n = WithBitmap(m, m.memory_map \cup {i}, used)
  BY <1>6 DEF free_physical_page
<1> HIDE DEF n, i
<1>8. /\ Cardinality(FreePages(m) \cup {i}) = Cardinality(FreePages(m)) + 1
      /\ Cardinality(FreePages(m)) \in Nat
  BY <1>1, <1>2, FreePagesFinite, FS_AddElement
<1>9. m.used_pages \in Nat /\ m.used_pages >= 1
  <2>1. FreePages(m) \cup {i} \in SUBSET Pages(m)
    BY <1>2 DEF FreePages
  <2>2. IsFiniteSet(Pages(m)) /\ Cardinality(Pages(m)) = m.total_pages
    <3>1. m.total_pages \in Nat /\ m.total_pages - 1 \in Int /\ 0 \in Int
      BY <1>1 DEF MemType
    <3>2. Cardinality(0 .. m.total_pages - 1) = m.total_pages
      BY <3>1, FS_Interval
    <3> QED
      BY <3>1, <3>2, FS_Interval DEF Pages
  <2>3. Cardinality(FreePages(m) \cup {i}) <= m.total_pages
    BY <2>1, <2>2, FS_Subset
  <2> QED
    BY <1>1, <1>8, <2>3 DEF MemType, Consistent
<1>10. used \in Nat
  BY <1>9
<1> HIDE DEF used
<1>11. n \in MemType /\ FreePages(n) = FreePages(m) \cup {i} /\ Pages(n) = Pages(m)
  <2>1. m \in MemType /\ i \in Pages(m) /\ used \in Nat
        /\ n = WithBitmap(m, m.memory_map \cup {i}, used)
    BY <1>1, <1>2, <1>7, <1>10
  <2> QED
    BY <2>1, SetBit
<1>12. /\ n.ready = m.ready /\ n.memory_end = m.memory_end
       /\ n.total_pages = m.total_pages /\ n.used_pages = used
  BY <1>7 DEF WithBitmap
<1>13. Consistent(n)
  <2>1. used + Cardinality(FreePages(n)) = m.total_pages
    BY <1>8, <1>9, <1>11 DEF Consistent, used
  <2> QED
    BY <1>11, <1>12, <2>1 DEF Consistent
<1>14. \A j \in Pages(m) : PageAddr(j) = PageAddr(i) => j = i
  BY <1>1, <1>2, PageAddrInjective DEF Pages, MemType
<1>15. UsedFrames(n) = UsedFrames(m) \ {p}
  BY <1>2, <1>11, <1>14 DEF UsedFrames
<1> QED
  BY <1>12, <1>13, <1>15 DEF n
=============================================================================
