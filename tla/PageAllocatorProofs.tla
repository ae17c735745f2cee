------------------------- MODULE PageAllocatorProofs -------------------------
(***************************************************************************)
(* Proofs about PageAllocator, for every size of memory, every limit of    *)
(* the identity mapping and every pointer passed to free_physical_page.    *)
(***************************************************************************)
EXTENDS PageAllocator, PhysMemProofs

---------------------------------------------------------------------------
(* The inductive invariant.  The shape of the managed memory ties          *)
(* total_pages to memory_end: without it a free bit would not be known to  *)
(* lie inside the memory.                                                  *)
Geometry ==
  /\ mm.ready => /\ mm.memory_end > memory_start
                 /\ mm.total_pages = (mm.memory_end - memory_start) \div PAGE_SIZE
  /\ ~mm.ready => mm.total_pages = 0 /\ mm.used_pages = 0

IInv ==
  TypeOK /\ Geometry /\ UsedPagesExact /\ HeldExact /\ HeldInsideMemory

(* get_physical_page takes the first free page if there is one: the check  *)
(* against memory_end never fails.                                         *)
LEMMA GetPageTakesFirstFree ==
  ASSUME TypeOK, Geometry, FreePages(mm) # {}
  PROVE  LET i == FirstFree(mm)
         IN  /\ i \in FreePages(mm) /\ i \in Pages(mm) /\ i \in Nat /\ mm.ready
             /\ get_physical_page(mm) =
                  [m |-> WithBitmap(mm, mm.memory_map \ {i}, mm.used_pages + 1),
                   ret |-> PageAddr(i)]
<1> DEFINE i == FirstFree(mm)
<1>1. mm \in MemType
  BY DEF TypeOK, MemType
<1>2. i \in FreePages(mm)
  BY <1>1, FirstFreeIsFree
<1> HIDE DEF i
<1>3. i \in Pages(mm) /\ i \in Nat /\ i < mm.total_pages
  BY <1>1, <1>2 DEF FreePages, Pages, MemType
<1>4. mm.ready
  BY <1>1, <1>3 DEF Geometry, MemType
<1>5. PageAddr(i) + PAGE_SIZE <= mm.memory_end
  BY <1>1, <1>3, <1>4, WholePages DEF Geometry, MemType
<1>6. ~(PageAddr(i) >= mm.memory_end)
  BY <1>1, <1>3, <1>5, PageAddrFacts, SMT DEF PAGE_SIZE, MemType
<1> QED
  BY <1>2, <1>3, <1>4, <1>6 DEF get_physical_page, i

(* With no free page it returns NULL and changes nothing.                  *)
LEMMA GetPageRefuses ==
  ASSUME FreePages(mm) = {}
  PROVE  get_physical_page(mm) = [m |-> mm, ret |-> NULL]
BY DEF get_physical_page

(* A pointer that free_physical_page accepts is the address of a page that *)
(* is in use.                                                              *)
LEMMA FreeableIsUsedPage ==
  ASSUME TypeOK, NEW page \in Nat, Freeable(mm, page)
  PROVE  /\ PageIndex(page) \in Pages(mm) \ FreePages(mm)
         /\ PageIndex(page) \in Nat
         /\ page = PageAddr(PageIndex(page))
<1>1. mm \in MemType
  BY DEF TypeOK, MemType
<1>2. PageIndex(page) \in Nat /\ PageAddr(PageIndex(page)) = page
  BY AddrOfIndex DEF Freeable
<1>3. PageIndex(page) < mm.total_pages /\ PageIndex(page) \notin mm.memory_map
  BY DEF Freeable
<1> QED
  BY <1>1, <1>2, <1>3 DEF Pages, FreePages, MemType

(* Conversely the address of a page in use is accepted.                    *)
LEMMA UsedPageIsFreeable ==
  ASSUME TypeOK, Geometry, NEW i \in Pages(mm) \ FreePages(mm)
  PROVE  Freeable(mm, PageAddr(i))
<1>1. mm \in MemType
  BY DEF TypeOK, MemType
<1>2. i \in Nat /\ i < mm.total_pages /\ i \notin mm.memory_map
  BY <1>1 DEF Pages, FreePages, MemType
<1>3. mm.ready
  BY <1>1, <1>2 DEF Geometry, MemType
<1>4. PageAddr(i) + PAGE_SIZE <= mm.memory_end
  BY <1>1, <1>2, <1>3, WholePages DEF Geometry, MemType
<1>5. PageAddr(i) < mm.memory_end
  BY <1>1, <1>2, <1>4, PageAddrFacts, SMT DEF PAGE_SIZE, MemType
<1> QED
  BY <1>2, <1>3, <1>5, PageAddrFacts DEF Freeable

---------------------------------------------------------------------------
(* The state that the loader leaves satisfies the invariant.               *)
LEMMA InitEstablishes == Init => IInv
<1> SUFFICES ASSUME Init PROVE IInv
  OBVIOUS
<1>1. TypeOK
  BY SMT DEF Init, BootMemory, TypeOK, NULL, DEFAULT_MEMORY_END
<1>2. Pages(mm) = {} /\ FreePages(mm) = {}
  BY SMT DEF Init, BootMemory, Pages, FreePages
<1>3. UsedPagesExact
  <2>1. Cardinality(FreePages(mm)) = 0
    BY <1>2, FS_EmptySet
  <2> QED
    BY <2>1, SMT DEF UsedPagesExact, Init, BootMemory
<1>4. Geometry
  BY DEF Geometry, Init, BootMemory
<1>5. HeldExact /\ HeldInsideMemory
  BY <1>2 DEF HeldExact, HeldInsideMemory, Init
<1> QED
  BY <1>1, <1>3, <1>4, <1>5 DEF IInv

(* Init_Memory: every page becomes free, the count is still zero.          *)
LEMMA InitMemoryPreserves ==
  ASSUME IInv, NEW e \in MEMORY_ENDS, InitMemory(e)
  PROVE  IInv'
<1> DEFINE total == (e - memory_start) \div PAGE_SIZE
<1>1. mm \in MemType
  BY DEF IInv, TypeOK, MemType
<1>0. e \in Nat /\ e > memory_start /\ (e - 1) \div 65536 < 65536
  BY MemoryEndsAssumption
<1>2. mm' = FreshBitmap(mm, e)
  BY <1>0, <1>1, InitMemoryFresh DEF InitMemory
<1>3. mm' \in MemType /\ mm'.memory_end = e /\ e \in Nat /\ e > memory_start
  BY <1>0, <1>1, <1>2, FreshBitmapType
<1>4. mm'.ready /\ mm'.total_pages = total /\ mm'.used_pages = 0
  BY <1>2 DEF FreshBitmap, InitMemory, IInv, Geometry
<1>5. total \in Nat
  BY <1>3, SMT DEF memory_start, PAGE_SIZE
<1> HIDE DEF total
<1>6. FreePages(mm') = Pages(mm') /\ Pages(mm') = 0 .. total - 1
  <2>1. mm'.memory_map = BitmapBits(total)
    BY <1>2 DEF FreshBitmap, total
  <2>2. 0 .. total - 1 \subseteq BitmapBits(total)
    BY <1>5, SMT DEF BitmapBits, calculate_bitmap_size
  <2> QED
    BY <1>4, <2>1, <2>2 DEF FreePages, Pages
<1>7. Cardinality(FreePages(mm')) = total
  BY <1>5, <1>6, FS_Interval
<1>8. held = {}
  <2>1. Pages(mm) = {}
    BY <1>1, SMT DEF Pages, MemType, InitMemory, IInv, Geometry
  <2> QED
    BY <2>1 DEF IInv, HeldExact, InitMemory
<1>9. TypeOK'
  BY <1>3 DEF TypeOK, MemType, InitMemory, IInv
<1>10. Geometry'
  BY <1>3, <1>4 DEF Geometry, total
<1>11. UsedPagesExact'
  BY <1>4, <1>5, <1>7 DEF UsedPagesExact
<1>12. HeldExact' /\ HeldInsideMemory'
  BY <1>6, <1>8 DEF HeldExact, HeldInsideMemory, InitMemory
<1> QED
  BY <1>9, <1>10, <1>11, <1>12 DEF IInv

(* get_physical_page: the bit it clears is the page it hands out.          *)
LEMMA GetPagePreserves ==
  ASSUME IInv, GetPage
  PROVE  IInv'
<1>1. mm \in MemType
  BY DEF IInv, TypeOK, MemType
<1>2. CASE FreePages(mm) = {}
  <2>1. mm' = mm /\ ret' = NULL /\ held' = held /\ cpu' = cpu
    BY <1>2, GetPageRefuses DEF GetPage, MemsetFaults
  <2> QED
    BY <2>1 DEF IInv, TypeOK, Geometry, UsedPagesExact, HeldExact,
                HeldInsideMemory, FreePages, Pages, NULL
<1>3. CASE FreePages(mm) # {}
  <2> DEFINE i == FirstFree(mm)
             used == mm.used_pages + 1
  <2>1. /\ i \in FreePages(mm) /\ i \in Pages(mm) /\ i \in Nat /\ mm.ready
        /\ get_physical_page(mm) =
             [m |-> WithBitmap(mm, mm.memory_map \ {i}, used),
              ret |-> PageAddr(i)]
    BY <1>3, GetPageTakesFirstFree DEF IInv
  <2> HIDE DEF i
  <2>2. used \in Nat
    BY <1>1 DEF MemType
  <2> HIDE DEF used
  <2>3. mm' = WithBitmap(mm, mm.memory_map \ {i}, used)
    BY <2>1 DEF GetPage
  <2>4. /\ mm' \in MemType
        /\ FreePages(mm') = FreePages(mm) \ {i}
        /\ Pages(mm') = Pages(mm)
    BY <1>1, <2>1, <2>2, <2>3, ClearBit
  <2>5. /\ mm'.ready = mm.ready /\ mm'.memory_end = mm.memory_end
        /\ mm'.total_pages = mm.total_pages /\ mm'.used_pages = used
    BY <2>3 DEF WithBitmap
  <2>6. Geometry'
    BY <2>1, <2>5 DEF IInv, Geometry
  <2>7. UsedPagesExact'
    <3>1. Cardinality(FreePages(mm) \ {i}) = Cardinality(FreePages(mm)) - 1
      BY <1>1, <2>1, FreePagesFinite, FS_RemoveElement
    <3>2. Cardinality(FreePages(mm)) \in Nat /\ mm.used_pages \in Nat
      BY <1>1, FreePagesFinite DEF MemType
    <3>3. mm.used_pages + Cardinality(FreePages(mm)) = mm.total_pages
      BY DEF IInv, UsedPagesExact
    <3> QED
      BY <2>4, <2>5, <3>1, <3>2, <3>3 DEF UsedPagesExact, used
  <2>8. CASE PageAddr(i) >= MAPPED_LIMIT
    <3>1. cpu' = "faulting" /\ ret' = ret /\ held' = held
      BY <2>1, <2>8, PageAddrFacts DEF GetPage, MemsetFaults
    <3>2. TypeOK'
      BY <2>4, <3>1 DEF IInv, TypeOK, MemType
    <3>3. HeldExact' /\ HeldInsideMemory'
      BY <2>5, <3>1 DEF IInv, HeldExact, HeldInsideMemory
    <3> QED
      BY <2>6, <2>7, <3>2, <3>3 DEF IInv
  <2>9. CASE ~(PageAddr(i) >= MAPPED_LIMIT)
    <3>1. PageAddr(i) # NULL /\ PageAddr(i) \in Nat /\ PageAddr(i) % PAGE_SIZE = 0
          /\ memory_start <= PageAddr(i)
      BY <2>1, PageAddrFacts, SMT DEF PageAddr, memory_start, PAGE_SIZE
    <3>2. /\ cpu' = cpu /\ cpu = "running"
          /\ ret' = PageAddr(i) /\ held' = held \cup {PageAddr(i)}
      BY <2>1, <2>9, <3>1 DEF GetPage, MemsetFaults
    <3>3. TypeOK'
      BY <2>4, <3>1, <3>2 DEF IInv, TypeOK, MemType
    <3>4. HeldExact'
      <4>1. Pages(mm) \ (FreePages(mm) \ {i}) = (Pages(mm) \ FreePages(mm)) \cup {i}
        BY <2>1
      <4> QED
        BY <2>4, <3>2, <4>1 DEF IInv, HeldExact
    <3>5. PageAddr(i) + PAGE_SIZE <= mm.memory_end
      BY <1>1, <2>1, WholePages DEF IInv, Geometry, Pages, MemType
    <3>6. PageAddr(i) < MAPPED_LIMIT
      BY <2>9, <3>1, MappedLimitAssumption
    <3>7. HeldInsideMemory'
      BY <2>5, <3>1, <3>2, <3>5, <3>6 DEF IInv, HeldInsideMemory
    <3> QED
      BY <2>6, <2>7, <3>3, <3>4, <3>7 DEF IInv
  <2> QED
    BY <2>8, <2>9
<1> QED
  BY <1>2, <1>3

(* free_physical_page: a pointer it ignores is nobody's page, a pointer it *)
(* accepts is the page whose bit it sets.                                  *)
LEMMA FreePagePreserves ==
  ASSUME IInv, NEW p \in POINTERS, FreePage(p)
  PROVE  IInv'
<1>1. mm \in MemType /\ p \in Nat
  BY PointersAssumption DEF IInv, TypeOK, MemType
<1>2. ret' = ret /\ held' = held \ {p} /\ cpu = "running"
  BY DEF FreePage
<1>3. CASE ~Freeable(mm, p)
  <2>1. mm' = mm /\ cpu' = cpu
    BY <1>3 DEF FreePage, free_physical_page
  <2>2. p \notin held
    BY <1>2, <1>3, UsedPageIsFreeable DEF IInv, HeldExact
  <2>3. held' = held
    BY <1>2, <2>2
  <2> QED
    BY <1>2, <2>1, <2>3 DEF IInv, TypeOK, Geometry, UsedPagesExact, HeldExact,
                            HeldInsideMemory, FreePages, Pages
<1>4. CASE Freeable(mm, p)
  <2> DEFINE i == PageIndex(p)
             used == mm.used_pages - 1
  <2>1. i \in Pages(mm) \ FreePages(mm) /\ i \in Nat /\ p = PageAddr(i)
    BY <1>1, <1>4, FreeableIsUsedPage DEF IInv
  <2>2. mm' = WithBitmap(mm, mm.memory_map \cup {i}, used)
    BY <1>4 DEF FreePage, free_physical_page
  <2> HIDE DEF i
  <2>3. /\ Cardinality(FreePages(mm) \cup {i}) = Cardinality(FreePages(mm)) + 1
        /\ Cardinality(FreePages(mm)) \in Nat
    BY <1>1, <2>1, FreePagesFinite, FS_AddElement
  <2>4. mm.used_pages \in Nat /\ mm.used_pages >= 1
    <3>1. FreePages(mm) \cup {i} \in SUBSET Pages(mm)
      BY <2>1 DEF FreePages
    <3>2. IsFiniteSet(Pages(mm)) /\ Cardinality(Pages(mm)) = mm.total_pages
      <4>1. mm.total_pages \in Nat /\ mm.total_pages - 1 \in Int /\ 0 \in Int
        BY <1>1 DEF MemType
      <4>2. Cardinality(0 .. mm.total_pages - 1) = mm.total_pages
        BY <4>1, FS_Interval
      <4> QED
        BY <4>1, <4>2, FS_Interval DEF Pages
    <3>3. Cardinality(FreePages(mm) \cup {i}) <= mm.total_pages
      BY <3>1, <3>2, FS_Subset
    <3>4. mm.used_pages + Cardinality(FreePages(mm)) = mm.total_pages
      BY DEF IInv, UsedPagesExact
    <3> QED
      BY <1>1, <2>3, <3>3, <3>4 DEF MemType
  <2>5. used \in Nat
    BY <2>4
  <2> HIDE DEF used
  <2>6. /\ mm' \in MemType
        /\ FreePages(mm') = FreePages(mm) \cup {i}
        /\ Pages(mm') = Pages(mm)
    BY <1>1, <2>1, <2>2, <2>5, SetBit
  <2>7. /\ mm'.ready = mm.ready /\ mm'.memory_end = mm.memory_end
        /\ mm'.total_pages = mm.total_pages /\ mm'.used_pages = used
    BY <2>2 DEF WithBitmap
  <2>8. TypeOK'
    BY <1>2, <2>6 DEF FreePage, IInv, TypeOK, MemType
  <2>9. Geometry'
    <3>1. mm.ready
      BY <1>4 DEF Freeable
    <3> QED
      BY <2>7, <3>1 DEF IInv, Geometry
  <2>10. UsedPagesExact'
    BY <2>3, <2>4, <2>6, <2>7 DEF IInv, UsedPagesExact, used
  <2>11. HeldExact'
    <3>1. held = {PageAddr(j) : j \in Pages(mm) \ FreePages(mm)}
      BY <1>2 DEF IInv, HeldExact
    <3>2. \A j \in Pages(mm) : j \in Nat
      BY <1>1 DEF Pages, MemType
    <3>3. \A j \in Pages(mm) : PageAddr(j) = PageAddr(i) => j = i
      BY <2>1, <3>2, PageAddrInjective
    <3>4. held \ {p} = {PageAddr(j) : j \in Pages(mm) \ (FreePages(mm) \cup {i})}
      BY <2>1, <3>1, <3>3
    <3> QED
      BY <1>2, <2>6, <3>4 DEF HeldExact
  <2>12. HeldInsideMemory'
    BY <1>2, <2>7 DEF IInv, HeldInsideMemory
  <2> QED
    BY <2>8, <2>9, <2>10, <2>11, <2>12 DEF IInv
<1> QED
  BY <1>3, <1>4

(* Every call keeps the invariant.                                         *)
LEMMA NextPreserves == IInv /\ [Next]_vars => IInv'
<1> SUFFICES ASSUME IInv, [Next]_vars PROVE IInv'
  OBVIOUS
<1>1. CASE \E e \in MEMORY_ENDS : InitMemory(e)
  BY <1>1, InitMemoryPreserves
<1>2. CASE GetPage
  BY <1>2, GetPagePreserves
<1>3. CASE \E p \in POINTERS : FreePage(p)
  BY <1>3, FreePagePreserves
<1>4. CASE UNCHANGED vars
  BY <1>4 DEF vars, IInv, TypeOK, Geometry, UsedPagesExact, HeldExact,
              HeldInsideMemory, FreePages, Pages
<1> QED
  BY <1>1, <1>2, <1>3, <1>4 DEF Next

(* The inductive invariant holds of every reachable state.                 *)
THEOREM Invariance == Spec => []IInv
BY InitEstablishes, NextPreserves, PTL DEF Spec

(* The allocator's variables keep their types: in particular used_pages    *)
(* never wraps below zero, whatever pointers are freed and how often.      *)
THEOREM TypeCorrect == Spec => []TypeOK
<1>1. IInv => TypeOK
  BY DEF IInv
<1> QED
  BY <1>1, Invariance, PTL

(* The count of used pages that MemoryInfo reports is exact.               *)
THEOREM UsedPagesCorrect == Spec => []UsedPagesExact
<1>1. IInv => UsedPagesExact
  BY DEF IInv
<1> QED
  BY <1>1, Invariance, PTL

(* No page is granted to two callers of get_physical_page, and none leaks. *)
THEOREM HeldCorrect == Spec => []HeldExact
<1>1. IInv => HeldExact
  BY DEF IInv
<1> QED
  BY <1>1, Invariance, PTL

(* Every page handed out is a whole, aligned, mapped page of the memory.   *)
THEOREM HeldInside == Spec => []HeldInsideMemory
<1>1. IInv => HeldInsideMemory
  BY DEF IInv
<1> QED
  BY <1>1, Invariance, PTL

---------------------------------------------------------------------------
(* The refinement: the allocator implements PagePool.                      *)

(* Before Init_Memory the abstract pool is empty.                          *)
LEMMA InitRefines == Init => AbstractPool!Init
<1> SUFFICES ASSUME Init PROVE AbstractPool!Init
  OBVIOUS
<1>1. Pages(mm) = {}
  BY SMT DEF Init, BootMemory, Pages
<1> QED
  BY <1>1 DEF Init, AbstractPool!Init

(* Every call is a step of the abstract pool, or changes nothing of it.    *)
LEMMA StepRefines ==
  ASSUME IInv, IInv', [Next]_vars
  PROVE  [AbstractPool!Next]_(AbstractPool!vars)
<1> DEFINE pool == {PageAddr(i) : i \in Pages(mm)}
           granted == {PageAddr(i) : i \in Pages(mm) \ FreePages(mm)}
<1>1. mm \in MemType /\ mm' \in MemType
  BY DEF IInv, TypeOK, MemType
<1>2. CASE \E e \in MEMORY_ENDS : InitMemory(e)
  <2> SUFFICES AbstractPool!Setup
    BY DEF AbstractPool!Next
  <2>1. PICK e \in MEMORY_ENDS : InitMemory(e)
    BY <1>2
  <2>2. Pages(mm) = {}
    BY <1>1, <2>1, SMT DEF Pages, MemType, InitMemory, IInv, Geometry
  <2>3. held' = held /\ ret' = ret /\ cpu' = "running" /\ cpu = "running"
    BY <2>1 DEF InitMemory
  <2>4. granted' = {}
    BY <2>2, <2>3 DEF IInv, HeldExact
  <2>5. \A i \in Pages(mm') : PageAddr(i) \in Nat /\ PageAddr(i) % PAGE_SIZE = 0
    BY <1>1, PageAddrFacts DEF Pages, MemType
  <2>6. pool' \in SUBSET {a \in Nat : a % PAGE_SIZE = 0}
    BY <2>5
  <2> QED
    BY <2>2, <2>3, <2>4, <2>6 DEF AbstractPool!Setup
<1>3. CASE GetPage
  <2>1. CASE FreePages(mm) = {}
    <3>1. mm' = mm /\ ret' = NULL
      BY <1>3, <2>1, GetPageRefuses DEF GetPage, MemsetFaults
    <3> QED
      BY <2>1, <3>1 DEF AbstractPool!Next, AbstractPool!Refuse
  <2>2. CASE FreePages(mm) # {}
    <3> DEFINE i == FirstFree(mm)
               used == mm.used_pages + 1
    <3>1. /\ i \in FreePages(mm) /\ i \in Pages(mm) /\ i \in Nat
          /\ get_physical_page(mm) =
               [m |-> WithBitmap(mm, mm.memory_map \ {i}, used),
                ret |-> PageAddr(i)]
      BY <2>2, GetPageTakesFirstFree DEF IInv
    <3> HIDE DEF i
    <3>2. used \in Nat
      BY <1>1 DEF MemType
    <3> HIDE DEF used
    <3>3. /\ FreePages(mm') = FreePages(mm) \ {i}
          /\ Pages(mm') = Pages(mm)
      <4>1. mm' = WithBitmap(mm, mm.memory_map \ {i}, used)
        BY <1>3, <3>1 DEF GetPage
      <4>2. i \in Pages(mm)
        BY <3>1
      <4> QED
        BY <1>1, <3>2, <4>1, <4>2, ClearBit
    <3>4. pool' = pool /\ granted' = granted \cup {PageAddr(i)}
      <4>1. Pages(mm) \ (FreePages(mm) \ {i}) = (Pages(mm) \ FreePages(mm)) \cup {i}
        BY <3>1
      <4> QED
        BY <3>3, <4>1
    <3>5. \A j \in Pages(mm) : PageAddr(j) = PageAddr(i) => j = i
      BY <1>1, <3>1, PageAddrInjective DEF Pages, MemType
    <3>6. PageAddr(i) \in pool \ granted
      BY <3>1, <3>5
    <3>7. ret' = PageAddr(i) \/ ret' = ret
      BY <1>3, <3>1 DEF GetPage
    <3> QED
      BY <3>4, <3>6, <3>7 DEF AbstractPool!Next, AbstractPool!Grant, AbstractPool!Lose
  <2> QED
    BY <2>1, <2>2
<1>4. CASE \E p \in POINTERS : FreePage(p)
  <2>1. PICK p \in POINTERS : FreePage(p)
    BY <1>4
  <2>2. p \in Nat /\ ret' = ret
    BY <2>1, PointersAssumption DEF FreePage
  <2>3. CASE ~Freeable(mm, p)
    <3>1. mm' = mm
      BY <2>1, <2>3 DEF FreePage, free_physical_page
    <3> QED
      BY <2>2, <3>1 DEF AbstractPool!vars
  <2>4. CASE Freeable(mm, p)
    <3> DEFINE i == PageIndex(p)
               used == mm.used_pages - 1
    <3>1. i \in Pages(mm) \ FreePages(mm) /\ i \in Nat /\ p = PageAddr(i)
      BY <2>2, <2>4, FreeableIsUsedPage DEF IInv
    <3>2. mm' = WithBitmap(mm, mm.memory_map \cup {i}, used)
      BY <2>1, <2>4 DEF FreePage, free_physical_page
    <3> HIDE DEF i
    <3>3. used \in Nat
      <4>1. mm'.used_pages = used
        BY <3>2 DEF WithBitmap
      <4> QED
        BY <1>1, <4>1 DEF MemType
    <3> HIDE DEF used
    <3>4. FreePages(mm') = FreePages(mm) \cup {i} /\ Pages(mm') = Pages(mm)
      <4>1. i \in Pages(mm)
        BY <3>1
      <4>2. mm \in MemType
        BY <1>1
      <4> QED
        BY <3>2, <3>3, <4>1, <4>2, SetBit
    <3>5. \A j \in Pages(mm) : PageAddr(j) = PageAddr(i) => j = i
      BY <1>1, <3>1, PageAddrInjective DEF Pages, MemType
    <3>6. pool' = pool /\ granted' = granted \ {p} /\ p \in granted
      BY <3>1, <3>4, <3>5
    <3> QED
      BY <2>2, <3>6 DEF AbstractPool!Next, AbstractPool!Release
  <2> QED
    BY <2>3, <2>4
<1>5. CASE UNCHANGED vars
  BY <1>5 DEF vars, AbstractPool!vars, Pages, FreePages
<1> QED
  BY <1>2, <1>3, <1>4, <1>5 DEF Next

(* The allocator implements the abstract pool: a granted frame is never    *)
(* granted again before its release, and a request is refused only when    *)
(* the pool is exhausted.                                                  *)
THEOREM PoolRefinement == Spec => ImplementsPool
<1>1. IInv /\ IInv' /\ [Next]_vars => [AbstractPool!Next]_(AbstractPool!vars)
  BY StepRefines
<1> QED
  BY <1>1, InitRefines, Invariance, PTL DEF Spec, ImplementsPool, AbstractPool!Spec

---------------------------------------------------------------------------
(* find_contiguous_free_pages.  Its loop is a recursive function; what it  *)
(* computes is shown by taking the least page at which it would fail.      *)

Start == [run |-> 0, start |-> 0, found |-> FALSE]

(* The locals of the loop after each of the first k pages.                 *)
ScansTo(m, count, k, g) ==
  g = [i \in 0 .. k |-> IF i = 0 THEN Start ELSE ScanStep(m, count, i - 1, g[i - 1])]

(* The recursion defines a function.                                       *)
LEMMA ScanExists ==
  ASSUME NEW m, NEW count, NEW k \in Nat
  PROVE  \E g : ScansTo(m, count, k, g)
<1> DEFINE Missing == {n \in Nat : ~\E g : ScansTo(m, count, n, g)}
<1>1. SUFFICES ASSUME Missing # {} PROVE FALSE
  OBVIOUS
<1>2. PICK n \in Missing : \A x \in Missing : n <= x
  BY <1>1, LeastNat, Zenon
<1>3. n \in Nat /\ ~\E g : ScansTo(m, count, n, g)
  OBVIOUS
<1>4. CASE n = 0
  <2>1. PICK g : g = [i \in 0 .. 0 |-> Start]
    OBVIOUS
  <2>2. \A i \in 0 .. 0 : i = 0 /\ g[i] = Start
    BY <2>1, SMT
  <2>3. \A i \in 0 .. 0 : g[i] = IF i = 0 THEN Start ELSE ScanStep(m, count, i - 1, g[i - 1])
    BY <2>2
  <2>4. ScansTo(m, count, 0, g)
    BY <2>1, <2>3 DEF ScansTo
  <2> QED BY <1>3, <1>4, <2>4
<1>5. CASE n # 0
  <2>1. n - 1 \in Nat /\ ~(n <= n - 1)
    BY <1>3, <1>5
  <2>2. PICK g : ScansTo(m, count, n - 1, g)
    BY <1>2, <2>1
  <2>3. PICK h : h = [i \in 0 .. n |-> IF i = n THEN ScanStep(m, count, n - 1, g[n - 1]) ELSE g[i]]
    OBVIOUS
  <2>4. \A i \in 0 .. (n - 1) :
          g[i] = IF i = 0 THEN Start ELSE ScanStep(m, count, i - 1, g[i - 1])
    BY <2>2 DEF ScansTo
  <2>5. \A i \in 0 .. (n - 1) : h[i] = g[i] /\ i \in 0 .. n
    <3>1. \A i \in 0 .. (n - 1) : i \in 0 .. n /\ i # n
      BY <1>3, SMT
    <3> QED BY <2>3, <3>1
  <2>6. \A i \in 0 .. n : h[i] = IF i = 0 THEN Start ELSE ScanStep(m, count, i - 1, h[i - 1])
    <3> SUFFICES ASSUME NEW i \in 0 .. n
                 PROVE  h[i] = IF i = 0 THEN Start ELSE ScanStep(m, count, i - 1, h[i - 1])
      OBVIOUS
    <3>1. CASE i = n
      <4>1. n - 1 \in 0 .. (n - 1)
        BY <2>1, SMT
      <4>2. h[n - 1] = g[n - 1]
        BY <2>5, <4>1
      <4>3. h[n] = ScanStep(m, count, n - 1, g[n - 1])
        BY <2>3, <3>1
      <4> QED BY <1>5, <3>1, <4>2, <4>3
    <3>2. CASE i # n /\ i = 0
      <4>1. i \in 0 .. (n - 1)
        BY <1>3, <3>2, SMT
      <4> QED BY <2>4, <2>5, <3>2, <4>1
    <3>3. CASE i # n /\ i # 0
      <4>1. i \in 0 .. (n - 1) /\ i - 1 \in 0 .. (n - 1)
        BY <1>3, <3>3, SMT
      <4> QED BY <2>4, <2>5, <3>3, <4>1
    <3> QED BY <3>1, <3>2, <3>3
  <2>7. ScansTo(m, count, n, h)
    BY <2>3, <2>6 DEF ScansTo
  <2> QED BY <1>3, <2>7
<1> QED BY <1>4, <1>5

(* The function's result in terms of the loop's locals after the last page. *)
LEMMA FindUnfolds ==
  ASSUME NEW m \in MemType, NEW count
  PROVE  \E g : /\ ScansTo(m, count, m.total_pages, g)
                /\ find_contiguous_free_pages(m, count) =
                     IF ~m.ready \/ count = 0 \/ count > m.total_pages
                           \/ ~g[m.total_pages].found
                       THEN 0 ELSE g[m.total_pages].start
<1> DEFINE scan == CHOOSE g : g = [i \in 0 .. m.total_pages |->
                     IF i = 0 THEN [run |-> 0, start |-> 0, found |-> FALSE]
                              ELSE ScanStep(m, count, i - 1, g[i - 1])]
<1>1. find_contiguous_free_pages(m, count) =
        IF ~m.ready \/ count = 0 \/ count > m.total_pages \/ ~scan[m.total_pages].found
          THEN 0 ELSE scan[m.total_pages].start
  BY DEF find_contiguous_free_pages
<1>2. \E g : g = [i \in 0 .. m.total_pages |->
                     IF i = 0 THEN [run |-> 0, start |-> 0, found |-> FALSE]
                              ELSE ScanStep(m, count, i - 1, g[i - 1])]
  <2>1. m.total_pages \in Nat
    BY DEF MemType
  <2>2. \E g : ScansTo(m, count, m.total_pages, g)
    BY <2>1, ScanExists
  <2> QED BY <2>2 DEF ScansTo, Start
<1>3. ScansTo(m, count, m.total_pages, scan)
  BY <1>2, Zenon DEF ScansTo, Start
<1> HIDE DEF scan
<1> QED BY <1>1, <1>3

(* A run of count free pages from page s on.                               *)
RunAt(m, count, s) ==
  /\ s \in Nat /\ s + count <= m.total_pages
  /\ \A k \in s .. (s + count - 1) : k \in m.memory_map

(* The locals l before page i is looked at: a run of l.run free pages ends *)
(* at i and began after a used page or at page 0, and no run of count      *)
(* pages lies below i; or the first one was found.                         *)
ScanOK(m, count, i, l) ==
  /\ l \in [run : Nat, start : Nat, found : BOOLEAN]
  /\ IF l.found
       THEN /\ RunAt(m, count, l.start)
            /\ \A s \in Nat : s < l.start => ~RunAt(m, count, s)
       ELSE /\ l.run <= i /\ l.run < count
            /\ \A k \in (i - l.run) .. (i - 1) : k \in m.memory_map
            /\ l.run < i => (i - l.run - 1) \notin m.memory_map
            /\ l.run > 0 => l.start = i - l.run
            /\ \A s \in Nat : s + count <= i => ~RunAt(m, count, s)

(* The loop body keeps this.                                               *)
LEMMA ScanStepOK ==
  ASSUME NEW m \in MemType, NEW count \in Nat, count > 0,
         NEW i \in Nat, i < m.total_pages, NEW l, ScanOK(m, count, i, l)
  PROVE  ScanOK(m, count, i + 1, ScanStep(m, count, i, l))
<1>0. m.total_pages \in Nat
  BY DEF MemType
<1>1. CASE l.found
  <2>1. ScanStep(m, count, i, l) = l
    BY <1>1 DEF ScanStep
  <2> QED BY <1>1, <2>1 DEF ScanOK
<1>2. CASE ~l.found /\ i \in m.memory_map
  <2> DEFINE l2 == [run |-> l.run + 1, start |-> IF l.run = 0 THEN i ELSE l.start,
                    found |-> l.run + 1 >= count]
  <2>1. ScanStep(m, count, i, l) = l2
    BY <1>2 DEF ScanStep
  <2>2. /\ l.run \in Nat /\ l.start \in Nat /\ l.run <= i /\ l.run < count
        /\ \A k \in (i - l.run) .. (i - 1) : k \in m.memory_map
        /\ l.run < i => (i - l.run - 1) \notin m.memory_map
        /\ l.run > 0 => l.start = i - l.run
        /\ \A s \in Nat : s + count <= i => ~RunAt(m, count, s)
    BY <1>2 DEF ScanOK
  <2>3. /\ l2.run = l.run + 1 /\ (l2.found <=> l.run + 1 >= count)
        /\ l2.start = i - l.run
    <3>1. l2.start = IF l.run = 0 THEN i ELSE l.start
      OBVIOUS
    <3>2. l2.start = i - l.run
      BY <2>2, <3>1, SMT
    <3> QED BY <3>2
  <2>9. l2 \in [run : Nat, start : Nat, found : BOOLEAN]
    BY <2>2
  <2> HIDE DEF l2
  <2>4. \A k \in (i - l.run) .. i : k \in m.memory_map
    BY <1>2, <2>2, SMT
  <2>5. CASE l.run + 1 >= count
    <3>1. count = l.run + 1
      BY <2>2, <2>5, SMT
    <3>2. RunAt(m, count, l2.start)
      BY <1>0, <2>2, <2>3, <2>4, <3>1, SMT DEF RunAt
    <3>3. \A s \in Nat : s < l2.start => ~RunAt(m, count, s)
      BY <2>2, <2>3, <3>1, SMT
    <3> QED BY <2>1, <2>3, <2>5, <2>9, <3>2, <3>3 DEF ScanOK
  <2>6. CASE ~(l.run + 1 >= count)
    <3>1. ASSUME NEW s \in Nat, s + count <= i + 1, RunAt(m, count, s) PROVE FALSE
      <4>1. s + count = i + 1
        BY <2>2, <3>1, SMT
      <4>2. i - l.run - 1 \in s .. (s + count - 1) /\ l.run < i
        BY <2>2, <2>6, <4>1, SMT
      <4> QED BY <2>2, <3>1, <4>2 DEF RunAt
    <3>2. /\ l2.run \in Nat /\ l2.run <= i + 1 /\ l2.run < count /\ ~l2.found
          /\ (i + 1) - l2.run = i - l.run /\ (i + 1) - 1 = i
          /\ (l2.run < i + 1 <=> l.run < i) /\ (i + 1) - l2.run - 1 = i - l.run - 1
      BY <2>2, <2>3, <2>6, SMT
    <3> QED BY <2>1, <2>2, <2>3, <2>4, <2>9, <3>1, <3>2 DEF ScanOK
  <2> QED BY <2>5, <2>6
<1>3. CASE ~l.found /\ i \notin m.memory_map
  <2> DEFINE l2 == [l EXCEPT !.run = 0]
  <2>1. ScanStep(m, count, i, l) = l2
    BY <1>3 DEF ScanStep
  <2>2. \A s \in Nat : s + count <= i => ~RunAt(m, count, s)
    BY <1>3 DEF ScanOK
  <2>3. /\ l2 \in [run : Nat, start : Nat, found : BOOLEAN]
        /\ l2.run = 0 /\ ~l2.found
    BY <1>3 DEF ScanOK
  <2> HIDE DEF l2
  <2>4. ASSUME NEW s \in Nat, s + count <= i + 1, RunAt(m, count, s) PROVE FALSE
    <3>1. s + count = i + 1
      BY <2>2, <2>4, SMT
    <3>2. i \in s .. (s + count - 1)
      BY <3>1, SMT
    <3> QED BY <1>3, <2>4, <3>2 DEF RunAt
  <2>5. /\ l2.run <= i + 1 /\ l2.run < count /\ ~(l2.run > 0)
        /\ (i + 1) - l2.run - 1 = i
        /\ \A k \in ((i + 1) - l2.run) .. ((i + 1) - 1) : k \in m.memory_map
    BY <2>3, SMT
  <2> QED BY <1>3, <2>1, <2>3, <2>4, <2>5 DEF ScanOK
<1> QED BY <1>1, <1>2, <1>3

(* So it holds after every page.                                           *)
LEMMA ScanAllOK ==
  ASSUME NEW m \in MemType, NEW count \in Nat, count > 0,
         NEW g, ScansTo(m, count, m.total_pages, g)
  PROVE  \A i \in 0 .. m.total_pages : ScanOK(m, count, i, g[i])
<1> DEFINE Bad == {n \in 0 .. m.total_pages : ~ScanOK(m, count, n, g[n])}
<1>0. m.total_pages \in Nat
  BY DEF MemType
<1>1. SUFFICES ASSUME Bad # {} PROVE FALSE
  OBVIOUS
<1>2. PICK n \in Bad : \A x \in Bad : n <= x
  <2>1. Bad \subseteq Nat
    BY SMT
  <2> QED BY <1>1, <2>1, LeastNat, Zenon
<1>3. n \in 0 .. m.total_pages /\ n \in Nat /\ ~ScanOK(m, count, n, g[n])
  BY SMT
<1>4. g[n] = IF n = 0 THEN Start ELSE ScanStep(m, count, n - 1, g[n - 1])
  BY <1>3 DEF ScansTo
<1>5. CASE n = 0
  <2>1. ScanOK(m, count, 0, Start)
    BY SMT DEF ScanOK, Start, RunAt
  <2> QED BY <1>3, <1>4, <1>5, <2>1
<1>6. CASE n # 0
  <2>1. /\ n - 1 \in 0 .. m.total_pages /\ ~(n <= n - 1)
        /\ n - 1 \in Nat /\ n - 1 < m.total_pages /\ (n - 1) + 1 = n
    BY <1>0, <1>3, <1>6, SMT
  <2>2. ScanOK(m, count, n - 1, g[n - 1])
    BY <1>2, <2>1
  <2>3. ScanOK(m, count, (n - 1) + 1, ScanStep(m, count, n - 1, g[n - 1]))
    BY <2>1, <2>2, ScanStepOK
  <2> QED BY <1>3, <1>4, <1>6, <2>1, <2>3
<1> QED BY <1>5, <1>6

(* What the function returns.                                              *)
LEMMA FindResult ==
  ASSUME NEW m \in MemType, ~m.ready => m.total_pages = 0, NEW count \in Nat
  PROVE  IF count > 0 /\ \E s \in Nat : RunAt(m, count, s)
           THEN /\ RunAt(m, count, find_contiguous_free_pages(m, count))
                /\ \A s \in Nat : RunAt(m, count, s) =>
                                    find_contiguous_free_pages(m, count) <= s
           ELSE find_contiguous_free_pages(m, count) = 0
<1>0. m.total_pages \in Nat
  BY DEF MemType
<1>1. PICK g : /\ ScansTo(m, count, m.total_pages, g)
               /\ find_contiguous_free_pages(m, count) =
                    IF ~m.ready \/ count = 0 \/ count > m.total_pages
                          \/ ~g[m.total_pages].found
                      THEN 0 ELSE g[m.total_pages].start
  BY FindUnfolds
<1>2. CASE count = 0
  BY <1>1, <1>2
<1>3. CASE count > m.total_pages \/ (~m.ready /\ count > 0)
  <2>1. \A s \in Nat : ~RunAt(m, count, s)
    BY <1>0, <1>3, SMT DEF RunAt
  <2> QED BY <1>1, <1>3, <2>1
<1>4. CASE count > 0 /\ count <= m.total_pages /\ m.ready
  <2>1. PICK l : l = g[m.total_pages]
    OBVIOUS
  <2>2. m.total_pages \in 0 .. m.total_pages
    BY <1>0, SMT
  <2>3. ScanOK(m, count, m.total_pages, l)
    BY <1>1, <1>4, <2>1, <2>2, ScanAllOK
  <2>4. ~(count = 0) /\ ~(count > m.total_pages)
    BY <1>0, <1>4, SMT
  <2>5. CASE l.found
    <3>1. find_contiguous_free_pages(m, count) = l.start
      BY <1>1, <1>4, <2>1, <2>4, <2>5
    <3>2. /\ RunAt(m, count, l.start) /\ l.start \in Nat
          /\ \A s \in Nat : s < l.start => ~RunAt(m, count, s)
      BY <2>3, <2>5 DEF ScanOK
    <3>3. \A s \in Nat : RunAt(m, count, s) => l.start <= s
      BY <3>2, SMT
    <3> QED BY <1>4, <3>1, <3>2, <3>3
  <2>6. CASE ~l.found
    <3>1. find_contiguous_free_pages(m, count) = 0
      BY <1>1, <2>1, <2>6
    <3>2. \A s \in Nat : s + count <= m.total_pages => ~RunAt(m, count, s)
      BY <2>3, <2>6 DEF ScanOK
    <3>3. \A s \in Nat : ~RunAt(m, count, s)
      BY <3>2 DEF RunAt
    <3> QED BY <3>1, <3>3
  <2> QED BY <2>5, <2>6
<1> QED BY <1>0, <1>2, <1>3, <1>4, SMT

(* In every reachable state find_contiguous_free_pages finds the first run *)
(* of count free pages, for every count and every size of memory.          *)
THEOREM FindCorrect == Spec => []FindContiguousExact
<1>1. IInv => FindContiguousExact
  <2> SUFFICES ASSUME IInv, NEW count \in 0 .. mm.total_pages + 1
               PROVE  LET found == find_contiguous_free_pages(mm, count)
                      IN  IF count = 0 \/ RunStarts(count) = {}
                            THEN found = 0
                            ELSE /\ found \in RunStarts(count)
                                 /\ \A s \in RunStarts(count) : found <= s
    BY DEF FindContiguousExact
  <2>1. mm \in MemType /\ mm.total_pages \in Nat /\ (~mm.ready => mm.total_pages = 0)
    BY DEF IInv, TypeOK, MemType, Geometry
  <2>2. count \in Nat
    BY <2>1, SMT
  <2>3. count > 0 => \A s : s \in RunStarts(count) <=> (s \in Nat /\ RunAt(mm, count, s))
    BY <2>1, <2>2, SMT DEF RunStarts, RunAt, Pages
  <2>4. PICK f : f = find_contiguous_free_pages(mm, count)
    OBVIOUS
  <2>5. IF count > 0 /\ \E s \in Nat : RunAt(mm, count, s)
          THEN RunAt(mm, count, f) /\ \A s \in Nat : RunAt(mm, count, s) => f <= s
          ELSE f = 0
    BY <2>1, <2>2, <2>4, FindResult, Zenon
  <2>6. f \in Nat \/ f = 0
    BY <2>5 DEF RunAt
  <2>7. CASE count = 0
    BY <2>4, <2>5, <2>7
  <2>8. CASE count > 0
    BY <2>3, <2>4, <2>5, <2>6, <2>8
  <2> QED BY <2>2, <2>7, <2>8
<1> QED BY <1>1, Invariance, PTL
=============================================================================
