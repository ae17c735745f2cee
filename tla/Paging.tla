------------------------------- MODULE Paging -------------------------------
(***************************************************************************)
(* The page tables: the ones boot/boot.asm builds, Init_Paging and         *)
(* map_page of kernel/paging.c, on top of the page allocator.              *)
(*                                                                         *)
(* A virtual address stands for its indices <<PML4, PDPT, PD>>; the code   *)
(* ignores the bits below.  The large page of 2 MB has MAPPED_LIMIT bytes: *)
(* the first one is what the boot tables map, through the table at 0x4000, *)
(* so both are scaled alike.  Tables are read and written at their         *)
(* physical address, which works as long as the identity map holds.        *)
(***************************************************************************)
EXTENDS PhysMem

CONSTANTS INDEXES,      \* the indices of a table that matter, of 0 .. 511
          MEMORY_ENDS,  \* possible ends of the managed memory
          LEFTOVERS,    \* what boot leaves in the entries it does not write
          MAPPINGS      \* the calls [v, p, flags] of map_page

FLAGS == {"PRESENT", "WRITABLE", "USER", "HUGE", "GLOBAL"}
LARGE_PAGE == MAPPED_LIMIT
Virtual == INDEXES \X INDEXES \X INDEXES
Unmapped == -1

KERNEL_VIRTUAL_BASE == <<511, 510, 0>>       \* 0xFFFFFFFF80000000
KERNEL_CODE == <<0, 0, 0>>                   \* where boot and kernel run
BOOT_PML4 == 4096
BOOT_PDPT == 8192
BOOT_PD == 12288
BOOT_PT == 16384
BootTables == {BOOT_PML4, BOOT_PDPT, BOOT_PD}

Entry(addr, flags) == [addr |-> addr, flags |-> flags]
ZeroTable == [i \in INDEXES |-> Entry(0, {})]
Present(e) == "PRESENT" \in e.flags

(* get_physical_address: a subtraction in the higher half, else nothing.   *)
(* Here an address is given by its large page.                             *)
get_physical_address(v) ==
  IF v[1] = 511 /\ v[2] >= 510
    THEN (512 * (v[2] - 510) + v[3]) * LARGE_PAGE
    ELSE (512 * (512 * v[1] + v[2]) + v[3]) * LARGE_PAGE

(* map_page may be asked for anything.  p is a whole large page: its lower *)
(* bits would be ORed into the flags.                                      *)
ASSUME PagingAssumption ==
  /\ {0, 510, 511} \subseteq INDEXES /\ INDEXES \subseteq 0 .. 511
  /\ MAPPED_LIMIT > memory_start
  /\ MEMORY_ENDS \subseteq {e \in Nat : e > memory_start /\ (e - 1) \div 65536 < 65536}
  /\ \A x \in MAPPINGS :
       x.v \in Virtual /\ x.flags \in SUBSET FLAGS /\ x.p \in Nat /\ x.p % LARGE_PAGE = 0

(* RAM that boot did not write holds nothing that looks PRESENT, and zero  *)
(* in the upper halves of the entries boot wrote, as when RAM is zero at   *)
(* reset.  boot.asm does not see to it: module BootTables has that code    *)
(* and shows that its map is the one meant only in such RAM.               *)
ASSUME LeftoverAssumption ==
  LEFTOVERS \subseteq [addr : Nat, flags : SUBSET (FLAGS \ {"PRESENT"})]

VARIABLES mm,           \* the page allocator
          tables,       \* physical address of a table -> its entries
          kernel_pml4, cr3,
          cpu,          \* "running", or "lost": see Finds
          others        \* history: pages other kernel code holds

vars == <<mm, tables, kernel_pml4, cr3, cpu, others>>

(* boot.asm clears the PML4 only and writes the first entry of each table, *)
(* of which the upper half is zero by LeftoverAssumption.                  *)
BootTable(rest, first) ==
  [i \in INDEXES |-> IF i = 0 THEN Entry(first, {"PRESENT", "WRITABLE"}) ELSE rest]

BootTree(left) ==
  [t \in BootTables |->
     CASE t = BOOT_PML4 -> BootTable(Entry(0, {}), BOOT_PDPT)
       [] t = BOOT_PDPT -> BootTable(left, BOOT_PD)
       [] t = BOOT_PD   -> BootTable(left, BOOT_PT)]

Init ==
  /\ \E e \in MEMORY_ENDS : mm = Init_Memory(BootMemory, e)
  /\ \E left \in LEFTOVERS : tables = BootTree(left)
  /\ kernel_pml4 = NULL
  /\ cr3 = BOOT_PML4
  /\ cpu = "running"
  /\ others = {}

---------------------------------------------------------------------------
(* The walk the CPU does: the large page that v translates to.  The only   *)
(* entry of a PD that is not a large page is the one for BOOT_PT, whose    *)
(* 512 entries map the first 2 MB to itself.                               *)
Walk(tabs, root, v) ==
  LET e4 == tabs[root][v[1]]
      e3 == tabs[e4.addr][v[2]]
      e2 == tabs[e3.addr][v[3]]
  IN  IF Present(e4) /\ Present(e3) /\ Present(e2)
        THEN IF "HUGE" \in e2.flags THEN e2.addr ELSE 0
        ELSE Unmapped

(* The kernel reaches a page at its physical address.                      *)
Reaches(tabs, root, page) ==
  LET n == page \div LARGE_PAGE
  IN  n \in INDEXES /\ Walk(tabs, root, <<0, 0, n>>) = n * LARGE_PAGE

(* The tables that the present entries of a table lead to.                 *)
Children(tabs, t) == {tabs[t][i].addr : i \in {j \in INDEXES : Present(tabs[t][j])}}

(* The links <<table, index>> of the tree under root that lead to a table: *)
(* the present entries of the PML4 and of the PDPTs.                       *)
Links(tabs, root) ==
  {l \in ({root} \cup Children(tabs, root)) \X INDEXES : Present(tabs[l[1]][l[2]])}

Target(tabs, l) == tabs[l[1]][l[2]].addr

TablesUnder(tabs, root) == {root} \cup {Target(tabs, l) : l \in Links(tabs, root)}

(* The kernel finds all it uses at its physical address: the tables, with  *)
(* which its own code shares the first large page, and the pages that are  *)
(* held.  A CPU that does not find them, or clears a page that it does not *)
(* reach, is lost: it faults for ever or, where another page is mapped,    *)
(* changes that one.  What it does from there on is not modelled.          *)
Finds(tabs, root) ==
  \A t \in TablesUnder(tabs, root) \cup others : Reaches(tabs, root, t)

---------------------------------------------------------------------------
(* The tables with the contents that a page has been given.                *)
Written(tabs, page, table) ==
  [t \in DOMAIN tabs \cup {page} |-> IF t = page THEN table ELSE tabs[t]]

(* The code below a test of PAGE_PRESENT: a new table, cleared and linked. *)
(* s is [m, tables, at, status]: "ok", "failed" when no page is left, or   *)
(* "lost" when get_physical_page does not reach the page it clears.        *)
NewTable(s, table, index, flags) ==
  LET g == get_physical_page(s.m)
  IN  IF g.ret = NULL
        THEN [s EXCEPT !.status = "failed"]
      ELSE IF ~Reaches(s.tables, cr3, g.ret)
        THEN [s EXCEPT !.m = g.m, !.status = "lost"]
      ELSE [m |-> g.m, at |-> g.ret, status |-> "ok",
            tables |-> [Written(s.tables, g.ret, ZeroTable)
                          EXCEPT ![table][index] = Entry(g.ret, flags)]]

(* Mutant: the test of PAGE_PRESENT is missing.                            *)
NextTable_Always(s, table, index, flags) ==
  IF s.status # "ok" THEN s ELSE NewTable(s, table, index, flags)

(* The table that an entry refers to, made if it is not there.             *)
NextTable(s, table, index, flags) ==
  IF s.status # "ok" THEN s
  ELSE IF Present(s.tables[table][index])
    THEN [s EXCEPT !.at = s.tables[table][index].addr]
    ELSE NewTable(s, table, index, flags)

SetEntry(s, index, entry) ==
  IF s.status # "ok" THEN s ELSE [s EXCEPT !.tables[s.at][index] = entry]

Enter(m, tabs, at) == [m |-> m, tables |-> tabs, at |-> at, status |-> "ok"]

(* Mutant: the index in the PDPT is off by one.                            *)
setup_kernel_mappings_OffByOne(s, pml4) ==
  LET s1 == NextTable(s, pml4, KERNEL_VIRTUAL_BASE[1], {"PRESENT", "WRITABLE"})
      s2 == NextTable(s1, s1.at, KERNEL_VIRTUAL_BASE[2] + 1, {"PRESENT", "WRITABLE"})
  IN  SetEntry(s2, KERNEL_VIRTUAL_BASE[3],
               Entry(0, {"PRESENT", "WRITABLE", "HUGE", "GLOBAL"}))

(* setup_kernel_mappings: the first 2 MB at KERNEL_VIRTUAL_BASE.  On a     *)
(* failure it returns with what it has linked so far.                      *)
setup_kernel_mappings(s, pml4) ==
  LET s1 == NextTable(s, pml4, KERNEL_VIRTUAL_BASE[1], {"PRESENT", "WRITABLE"})
      s2 == NextTable(s1, s1.at, KERNEL_VIRTUAL_BASE[2], {"PRESENT", "WRITABLE"})
  IN  SetEntry(s2, KERNEL_VIRTUAL_BASE[3],
               Entry(0, {"PRESENT", "WRITABLE", "HUGE", "GLOBAL"}))

(* Mutant: the loop from 1 is all there is, entry 0 is not copied.         *)
copy_boot_mappings_FromOne(tabs, root) ==
  [i \in INDEXES |-> IF Present(tabs[root][i]) /\ i >= 1 THEN tabs[root][i] ELSE Entry(0, {})]

(* A cleared PML4 after copy_boot_mappings.                                *)
copy_boot_mappings(tabs, root) ==
  [i \in INDEXES |-> IF Present(tabs[root][i]) THEN tabs[root][i] ELSE Entry(0, {})]

(* Mutant: a new PML4 is made whatever CR3 holds.                          *)
InKernelRange_Never(pml4) == FALSE

(* The PML4 in use is one that Init_Paging made, in the second megabyte.   *)
InKernelRange(pml4) == memory_start <= pml4 /\ pml4 < LARGE_PAGE

(* Mutant: the test for NULL after the allocation is missing.              *)
GotPml4_NoCheck(page) == InKernelRange(cr3) \/ Reaches(tables, cr3, page)

(* Init_Paging has a PML4 to go on with: the current one, or a page that   *)
(* was allocated and could be cleared.                                     *)
GotPml4(page) == InKernelRange(cr3) \/ (page # NULL /\ Reaches(tables, cr3, page))

(* Init_Paging, which may be called again: it then keeps its PML4.  When   *)
(* setup_kernel_mappings gives up, CR3 is switched all the same.           *)
Init_Paging ==
  LET g == get_physical_page(mm)
      s == IF InKernelRange(cr3)
             THEN setup_kernel_mappings(Enter(mm, tables, cr3), cr3)
             ELSE setup_kernel_mappings(
                    Enter(g.m, Written(tables, g.ret, copy_boot_mappings(tables, cr3)), g.ret),
                    g.ret)
  IN  /\ cpu = "running"
      /\ UNCHANGED others
      /\ IF GotPml4(g.ret)
           THEN /\ mm' = s.m /\ tables' = s.tables
                /\ kernel_pml4' = IF InKernelRange(cr3) THEN cr3 ELSE g.ret
                /\ cr3' = IF s.status = "lost" THEN cr3 ELSE kernel_pml4'
                /\ cpu' = IF s.status = "lost" THEN "lost" ELSE cpu
           ELSE /\ mm' = g.m
                /\ cpu' = IF g.ret # NULL THEN "lost" ELSE cpu
                /\ kernel_pml4' = IF g.ret = NULL THEN NULL ELSE kernel_pml4
                /\ UNCHANGED <<tables, cr3>>

(* Mutant: when the PD fails the PDPT is freed, but it stays linked.       *)
MapResult_Rollback(x) ==
  LET s1 == NextTable(Enter(mm, tables, kernel_pml4), kernel_pml4, x.v[1],
                      {"PRESENT", "WRITABLE", "USER"})
      s2 == NextTable(s1, s1.at, x.v[2], {"PRESENT", "WRITABLE", "USER"})
  IN  IF s1.status = "ok" /\ s2.status = "failed"
        THEN [s2 EXCEPT !.m = free_physical_page(s2.m, s1.at)]
        ELSE SetEntry(s2, x.v[3], Entry(x.p, x.flags \cup {"HUGE"}))

(* Mutant: the indices of the PDPT and the PD are swapped.                 *)
MapResult_Swapped(x) ==
  LET s1 == NextTable(Enter(mm, tables, kernel_pml4), kernel_pml4, x.v[1],
                      {"PRESENT", "WRITABLE", "USER"})
      s2 == NextTable(s1, s1.at, x.v[3], {"PRESENT", "WRITABLE", "USER"})
  IN  SetEntry(s2, x.v[2], Entry(x.p, x.flags \cup {"HUGE"}))

(* The tables of map_page: a failure leaves those it has linked.           *)
MapResult(x) ==
  LET s1 == NextTable(Enter(mm, tables, kernel_pml4), kernel_pml4, x.v[1],
                      {"PRESENT", "WRITABLE", "USER"})
      s2 == NextTable(s1, s1.at, x.v[2], {"PRESENT", "WRITABLE", "USER"})
  IN  SetEntry(s2, x.v[3], Entry(x.p, x.flags \cup {"HUGE"}))

(* map_page, for any address and any page, a low large page included: the  *)
(* kernel is lost when it used that page.                                  *)
map_page(x) ==
  /\ cpu = "running"
  /\ UNCHANGED <<kernel_pml4, cr3, others>>
  /\ IF kernel_pml4 = NULL
       THEN UNCHANGED <<mm, tables, cpu>>
       ELSE LET s == MapResult(x)
            IN  /\ mm' = s.m /\ tables' = s.tables
                /\ cpu' = IF s.status = "lost" \/ ~Finds(s.tables, cr3) THEN "lost" ELSE cpu

(* Other kernel code takes a page or frees one that it took.               *)
OtherGet ==
  LET g == get_physical_page(mm)
  IN  /\ cpu = "running"
      /\ mm' = g.m
      /\ IF g.ret # NULL /\ ~Reaches(tables, cr3, g.ret)
           THEN cpu' = "lost" /\ UNCHANGED others
           ELSE others' = others \cup ({g.ret} \ {NULL}) /\ UNCHANGED cpu
      /\ UNCHANGED <<tables, kernel_pml4, cr3>>

OtherFree(page) ==
  /\ cpu = "running"
  /\ mm' = free_physical_page(mm, page)
  /\ others' = others \ {page}
  /\ UNCHANGED <<tables, kernel_pml4, cr3, cpu>>

Next ==
  \/ Init_Paging
  \/ \E x \in MAPPINGS : map_page(x)
  \/ OtherGet
  \/ \E p \in others : OtherFree(p)

Spec == Init /\ [][Next]_vars

---------------------------------------------------------------------------
TypeOK ==
  /\ mm \in [ready : BOOLEAN, memory_map : SUBSET Nat, memory_end : Nat,
             total_pages : Nat, used_pages : Nat]
  /\ BootTables \subseteq DOMAIN tables /\ NULL \notin DOMAIN tables
  /\ \A t \in DOMAIN tables :
       /\ t % PAGE_SIZE = 0
       /\ tables[t] \in [INDEXES -> [addr : Nat, flags : SUBSET FLAGS]]
  /\ kernel_pml4 \in DOMAIN tables \cup {NULL} /\ cr3 \in DOMAIN tables
  /\ cpu \in {"running", "lost"}
  /\ others \subseteq Nat

(* The tables that CR3 leads to form a tree (no table is linked twice), of *)
(* boot tables and of pages the allocator counts as used and nobody else   *)
(* holds, whatever allocations failed on the way.                          *)
TablesOwned ==
  /\ \A t \in TablesUnder(tables, cr3) \ BootTables :
       PageIndex(t) \in Pages(mm) \ FreePages(mm) /\ t \notin others
  /\ \A k, l \in Links(tables, cr3) : Target(tables, k) = Target(tables, l) => k = l

(* No page leaks: while the CPU runs, a used page is a table that CR3      *)
(* leads to or is held by other code.  A map_page or an Init_Paging that   *)
(* gives up half-way, or is called again, loses no table.                  *)
NoTableLeaks ==
  cpu = "running" =>
    {PageAddr(i) : i \in Pages(mm) \ FreePages(mm)} \subseteq others \cup TablesUnder(tables, cr3)

(* While the CPU runs it reaches every table of the tree, and every page   *)
(* other code holds, at its physical address: without that the next        *)
(* map_page, which follows physical addresses, would fault or write        *)
(* elsewhere.  Nothing but a call that asks for it takes this away: no     *)
(* switch of CR3 and no page taken for a table.                            *)
TablesReached == cpu = "running" => Finds(tables, cr3)

(* The pages that calls of map_page give to v.                             *)
Asked(v) == {x.p : x \in {y \in MAPPINGS : y.v = v /\ "PRESENT" \in y.flags}}

(* get_physical_address, which only computes, is wrong about a mapped      *)
(* address only where a caller of map_page asked for another page.         *)
TranslationAgrees ==
  \A v \in Virtual :
    Walk(tables, cr3, v) \notin {Unmapped} \cup Asked(v) =>
      Walk(tables, cr3, v) = get_physical_address(v)

(* When the next two free pages can be reached, map_page establishes the   *)
(* mapping it was asked for, whichever of the tables exist.                *)
MapTakesEffect ==
  [][\A x \in MAPPINGS :
       (/\ map_page(x) /\ kernel_pml4 # NULL
        /\ \E i, j \in FreePages(mm) :
             /\ i < j /\ \A k \in FreePages(mm) : k <= j => k \in {i, j}
             /\ \A k \in {i, j} : Reaches(tables, cr3, PageAddr(k)))
       => Walk(tables', cr3', x.v) = IF "PRESENT" \in x.flags THEN x.p ELSE Unmapped]_vars

(* The tables implement the abstract address space: a call changes the     *)
(* translation of the one large page it names, as asked, or nothing; the   *)
(* switch of CR3 and tables left half-built change none; and the running   *)
(* kernel stays where it is unless a call asks for its large page.         *)
Space ==
  INSTANCE AddressSpace
    WITH Virtual  <- Virtual,
         Physical <- {0} \cup {x.p : x \in MAPPINGS},
         Unmapped <- Unmapped,
         Pinned   <- [v \in {KERNEL_CODE} \ {x.v : x \in MAPPINGS} |-> 0],
         Requests <- {<<KERNEL_VIRTUAL_BASE, 0>>}
                     \cup {<<x.v, IF "PRESENT" \in x.flags THEN x.p ELSE Unmapped>> :
                           x \in MAPPINGS},
         space    <- [v \in Virtual |-> Walk(tables, cr3, v)]

ImplementsAddressSpace == Space!Spec

(* "Paging initialization completed successfully" (paging.c:123) is what   *)
(* Init_Paging prints once CR3 holds the kernel's PML4: the kernel is then *)
(* mapped at KERNEL_VIRTUAL_BASE.                                          *)
InitCompletes == cr3 = kernel_pml4 => Walk(tables, cr3, KERNEL_VIRTUAL_BASE) = 0
=============================================================================
