---------------------------- MODULE PagingProofs ----------------------------
(***************************************************************************)
(* Proofs about Paging.  The tables that a PML4 leads to form a tree whose *)
(* tables are boot tables or pages nobody else holds.  The two steps that  *)
(* Init_Paging and map_page are made of, linking a new table where nothing *)
(* is present and writing an entry of a PD, keep it one; the first changes *)
(* no translation, the second changes one.                                 *)
(***************************************************************************)
EXTENDS Paging, PhysMemProofs

EntryType == [addr : Nat, flags : SUBSET FLAGS]

(* The tables are page-aligned and hold entries.                           *)
Typed(tabs) ==
  /\ BootTables \subseteq DOMAIN tabs /\ NULL \notin DOMAIN tabs
  /\ \A t \in DOMAIN tabs :
       t \in Nat /\ t % PAGE_SIZE = 0 /\ tabs[t] \in [INDEXES -> EntryType]

(* The links lead to tables, never to a PML4, and no two to the same one.  *)
Tree(tabs, root) ==
  /\ root \in DOMAIN tabs
  /\ \A l \in Links(tabs, root) : Target(tabs, l) \in DOMAIN tabs \ {root, BOOT_PML4}
  /\ \A k, l \in Links(tabs, root) : Target(tabs, k) = Target(tabs, l) => k = l

(* The path to the PD of low memory, under the kernel's PML4 and under the *)
(* one of boot.asm, which leads nowhere else.                              *)
LowPath(tabs, root) ==
  /\ tabs[root][0] = Entry(BOOT_PDPT, {"PRESENT", "WRITABLE"})
  /\ tabs[BOOT_PML4] = BootTable(Entry(0, {}), BOOT_PDPT)
  /\ tabs[BOOT_PDPT][0] = Entry(BOOT_PD, {"PRESENT", "WRITABLE"})

Shape(tabs, root) == Typed(tabs) /\ Tree(tabs, root) /\ LowPath(tabs, root)

(* The allocator counts the tables and the pages of other code as used,    *)
(* and no page is both.                                                    *)
Owned(m, tabs, root, oth) ==
  /\ Consistent(m)
  /\ oth \subseteq UsedFrames(m)
  /\ TablesUnder(tabs, root) \ BootTables \subseteq UsedFrames(m) \ oth

Reached(tabs, root, oth) ==
  \A t \in TablesUnder(tabs, root) \cup oth : Reaches(tabs, root, t)

(* Where an address may lead.                                              *)
Allowed(v) == {Unmapped, get_physical_address(v)} \cup Asked(v)

Agrees(tabs, root) == \A v \in Virtual : Walk(tabs, root, v) \in Allowed(v)

Good(m, tabs, root, oth) ==
  Shape(tabs, root) /\ Owned(m, tabs, root, oth) /\ Agrees(tabs, root)

NoneLost(m, tabs, root, oth) == UsedFrames(m) \subseteq oth \cup TablesUnder(tabs, root)

(* The PML4 that calls work on, once there is one.                         *)
Root == IF kernel_pml4 = NULL THEN BOOT_PML4 ELSE kernel_pml4

(* Before Init_Paging has a PML4, boot's tables map one large page only.   *)
OnlyFirst == \A i \in INDEXES \ {0} : ~Present(tables[BOOT_PD][i])

(* The inductive invariant.  A fault in Init_Paging leaves the new PML4    *)
(* behind and boot's in CR3; while the CPU runs, CR3 is the PML4 in use,   *)
(* and what the kernel uses is in its place.                               *)
PagingInv ==
  /\ Good(mm, tables, Root, others)
  /\ cpu \in {"running", "lost"}
  /\ cr3 \in {BOOT_PML4, Root}
  /\ cpu = "running" =>
       /\ cr3 = Root /\ NoneLost(mm, tables, Root, others)
       /\ Reached(tables, Root, others)
  /\ IF kernel_pml4 = NULL THEN OnlyFirst ELSE InKernelRange(kernel_pml4)
---------------------------------------------------------------------------
(* Constants, walks and links.                                             *)

(* The constants: four different tables of boot, and a large page that     *)
(* holds all of them.                                                      *)
LEMMA Constants ==
  /\ 0 \in INDEXES /\ 510 \in INDEXES /\ 511 \in INDEXES /\ INDEXES \subseteq 0 .. 511
  /\ LARGE_PAGE \in Nat /\ LARGE_PAGE > memory_start /\ LARGE_PAGE > 0
  /\ BootTables \subseteq Nat
  /\ \A t \in BootTables : t # NULL /\ t % PAGE_SIZE = 0 /\ t < memory_start
  /\ BOOT_PML4 # BOOT_PDPT /\ BOOT_PML4 # BOOT_PD /\ BOOT_PDPT # BOOT_PD
  /\ {BOOT_PML4, BOOT_PDPT, BOOT_PD} = BootTables
<1>1. MAPPED_LIMIT \in Nat /\ MAPPED_LIMIT > memory_start
  BY MappedLimitAssumption, PagingAssumption
<1>2. \A t \in BootTables : t # NULL /\ t % PAGE_SIZE = 0 /\ t < memory_start /\ t \in Nat
  BY SMT DEF BootTables, BOOT_PML4, BOOT_PDPT, BOOT_PD, NULL, PAGE_SIZE, memory_start
<1>3. BOOT_PML4 # BOOT_PDPT /\ BOOT_PML4 # BOOT_PD /\ BOOT_PDPT # BOOT_PD
  BY SMT DEF BOOT_PML4, BOOT_PDPT, BOOT_PD
<1>4. {0, 510, 511} \subseteq INDEXES /\ INDEXES \subseteq 0 .. 511
  BY PagingAssumption
<1> QED
  BY <1>1, <1>2, <1>3, <1>4 DEF LARGE_PAGE, memory_start, BootTables

(* A virtual address is its three indices.                                 *)
LEMMA VirtualIndices ==
  ASSUME NEW v \in Virtual
  PROVE  v[1] \in INDEXES /\ v[2] \in INDEXES /\ v[3] \in INDEXES /\ v = <<v[1], v[2], v[3]>>
BY DEF Virtual

(* What an entry of a PD maps to.                                          *)
Leaf(e) == IF Present(e) THEN IF "HUGE" \in e.flags THEN e.addr ELSE 0 ELSE Unmapped

(* The walk, level by level.                                               *)
LEMMA WalkLevels ==
  ASSUME NEW T, NEW r, NEW v
  PROVE  /\ ~Present(T[r][v[1]]) => Walk(T, r, v) = Unmapped
         /\ ~Present(T[T[r][v[1]].addr][v[2]]) => Walk(T, r, v) = Unmapped
         /\ Present(T[r][v[1]]) /\ Present(T[T[r][v[1]].addr][v[2]]) =>
              Walk(T, r, v) = Leaf(T[T[T[r][v[1]].addr][v[2]].addr][v[3]])
BY DEF Walk, Leaf

(* A present entry of the PML4 or of a PDPT is a link, and only that.      *)
LEMMA LinkOf ==
  ASSUME NEW T, NEW r, NEW t, NEW i \in INDEXES
  PROVE  /\ <<t, i>> \in Links(T, r) <=>
              t \in {r} \cup Children(T, r) /\ Present(T[t][i])
         /\ Target(T, <<t, i>>) = T[t][i].addr
BY DEF Links, Target

(* A link, its table, its index and the table it leads to.                 *)
LEMMA LinkParts ==
  ASSUME NEW T, NEW r, NEW l \in Links(T, r)
  PROVE  /\ l = <<l[1], l[2]>> /\ l[1] \in {r} \cup Children(T, r) /\ l[2] \in INDEXES
         /\ Present(T[l[1]][l[2]]) /\ Target(T, l) = T[l[1]][l[2]].addr
         /\ Target(T, l) \in TablesUnder(T, r)
BY DEF Links, Target, TablesUnder

(* The children of a table are where its present entries point.            *)
LEMMA ChildOf ==
  ASSUME NEW T, NEW t
  PROVE  \A a : a \in Children(T, t) <=>
           \E i \in INDEXES : Present(T[t][i]) /\ a = T[t][i].addr
BY DEF Children

(* The tables of a tree: the PML4, the PDPTs and the PDs.                  *)
LEMMA Members ==
  ASSUME NEW T, NEW r
  PROVE  /\ r \in TablesUnder(T, r)
         /\ \A t \in {r} \cup Children(T, r) :
              /\ t \in TablesUnder(T, r)
              /\ Children(T, t) \subseteq TablesUnder(T, r)
<1>1. r \in TablesUnder(T, r)
  BY DEF TablesUnder
<1>2. ASSUME NEW t \in {r} \cup Children(T, r) PROVE Children(T, t) \subseteq TablesUnder(T, r)
  <2> SUFFICES ASSUME NEW i \in INDEXES, Present(T[t][i]) PROVE T[t][i].addr \in TablesUnder(T, r)
    BY ChildOf
  <2>1. <<t, i>> \in Links(T, r) /\ Target(T, <<t, i>>) = T[t][i].addr
    BY LinkOf
  <2> QED BY <2>1 DEF TablesUnder
<1> QED
  BY <1>1, <1>2

(* In a tree the PDPTs are neither PML4s nor PDs.                          *)
LEMMA TreeLevels ==
  ASSUME NEW T, NEW r, Tree(T, r), NEW i \in INDEXES, Present(T[r][i]),
         NEW a, a = T[r][i].addr
  PROVE  /\ a \in DOMAIN T /\ a # r /\ a # BOOT_PML4 /\ a \in Children(T, r)
         /\ \A k \in INDEXES : Present(T[r][k]) /\ T[r][k].addr = a => k = i
         /\ \A j \in INDEXES : Present(T[a][j]) =>
              /\ T[a][j].addr \in DOMAIN T /\ T[a][j].addr # r /\ T[a][j].addr # BOOT_PML4
              /\ T[a][j].addr \notin Children(T, r)
              /\ \A k, l \in INDEXES :
                   /\ Present(T[r][k]) /\ Present(T[T[r][k].addr][l])
                   /\ T[T[r][k].addr][l].addr = T[a][j].addr
                   => k = i /\ l = j
<1>1. <<r, i>> \in Links(T, r) /\ Target(T, <<r, i>>) = a
  BY LinkOf
<1>2. a \in Children(T, r)
  BY ChildOf
<1>3. a \in DOMAIN T /\ a # r /\ a # BOOT_PML4
  BY <1>1 DEF Tree
<1>4. ASSUME NEW k \in INDEXES, Present(T[r][k]), T[r][k].addr = a PROVE k = i
  <2>1. <<r, k>> \in Links(T, r) /\ Target(T, <<r, k>>) = a
    BY <1>4, LinkOf
  <2>2. <<r, k>> = <<r, i>>
    BY <1>1, <2>1 DEF Tree
  <2> QED BY <2>2
<1>5. ASSUME NEW j \in INDEXES, Present(T[a][j])
      PROVE  /\ T[a][j].addr \in DOMAIN T /\ T[a][j].addr # r /\ T[a][j].addr # BOOT_PML4
             /\ T[a][j].addr \notin Children(T, r)
             /\ \A k, l \in INDEXES :
                  /\ Present(T[r][k]) /\ Present(T[T[r][k].addr][l])
                  /\ T[T[r][k].addr][l].addr = T[a][j].addr
                  => k = i /\ l = j
  <2>1. <<a, j>> \in Links(T, r) /\ Target(T, <<a, j>>) = T[a][j].addr
    BY <1>2, <1>5, LinkOf
  <2>2. T[a][j].addr \in DOMAIN T /\ T[a][j].addr # r /\ T[a][j].addr # BOOT_PML4
    BY <2>1 DEF Tree
  <2>3. ASSUME T[a][j].addr \in Children(T, r) PROVE FALSE
    <3>1. PICK k \in INDEXES : Present(T[r][k]) /\ T[a][j].addr = T[r][k].addr
      BY <2>3, ChildOf
    <3>2. <<r, k>> \in Links(T, r) /\ Target(T, <<r, k>>) = T[a][j].addr
      BY <3>1, LinkOf
    <3>3. <<r, k>> = <<a, j>>
      BY <2>1, <3>2 DEF Tree
    <3> QED BY <1>3, <3>3
  <2>4. ASSUME NEW k \in INDEXES, NEW l \in INDEXES, Present(T[r][k]),
               Present(T[T[r][k].addr][l]), T[T[r][k].addr][l].addr = T[a][j].addr
        PROVE  k = i /\ l = j
    <3>1. T[r][k].addr \in Children(T, r)
      BY <2>4, ChildOf
    <3>2. /\ <<T[r][k].addr, l>> \in Links(T, r)
          /\ Target(T, <<T[r][k].addr, l>>) = T[a][j].addr
      BY <2>4, <3>1, LinkOf
    <3>3. <<T[r][k].addr, l>> = <<a, j>>
      BY <2>1, <3>2 DEF Tree
    <3>4. T[r][k].addr = a /\ l = j
      BY <3>3
    <3> QED BY <1>4, <2>4, <3>4
  <2> QED BY <2>2, <2>3, <2>4
<1> QED
  BY <1>2, <1>3, <1>4, <1>5

---------------------------------------------------------------------------
(* A new table is linked where nothing was present.                        *)

(* The tables after NewTable has cleared the page p and linked it.         *)
NewLink(T, t, x, p, f) == [Written(T, p, ZeroTable) EXCEPT ![t][x] = Entry(p, f)]

(* Entry by entry, what linking a page p changes.                          *)
LinkedInto(T, U, t, x, p, f) ==
  /\ Typed(U) /\ DOMAIN U = DOMAIN T \cup {p}
  /\ \A j \in INDEXES : U[p][j] = Entry(0, {})
  /\ U[t][x] = Entry(p, f)
  /\ \A q \in DOMAIN T \ {p} : \A j \in INDEXES :
       (q # t \/ j # x) => U[q][j] = T[q][j]
  /\ \A q \in DOMAIN T \ {p, t} : U[q] = T[q]

(* NewLink does that.                                                      *)
LEMMA NewLinkEntries ==
  ASSUME NEW T, Typed(T), NEW t \in DOMAIN T, NEW x \in INDEXES,
         NEW p \in Nat, p # t, p # NULL, p % PAGE_SIZE = 0,
         NEW f \in SUBSET FLAGS, NEW U, U = NewLink(T, t, x, p, f)
  PROVE  LinkedInto(T, U, t, x, p, f)
<1> DEFINE W == Written(T, p, ZeroTable)
<1>1. /\ DOMAIN W = DOMAIN T \cup {p} /\ W[p] = ZeroTable
      /\ \A q \in DOMAIN T \ {p} : W[q] = T[q]
  BY DEF Written
<1>2. U = [W EXCEPT ![t] = [W[t] EXCEPT ![x] = Entry(p, f)]]
  BY DEF NewLink
<1> HIDE DEF W
<1>3. W[t] = T[t] /\ T[t] \in [INDEXES -> EntryType]
  BY <1>1 DEF Typed
<1>4. /\ DOMAIN U = DOMAIN T \cup {p}
      /\ U[t] = [T[t] EXCEPT ![x] = Entry(p, f)]
      /\ \A q \in (DOMAIN T \cup {p}) \ {t} : U[q] = W[q]
  BY <1>1, <1>2, <1>3
<1>5. Entry(p, f) \in EntryType /\ Entry(0, {}) \in EntryType
  BY DEF Entry, EntryType
<1>6. U[t] \in [INDEXES -> EntryType] /\ ZeroTable \in [INDEXES -> EntryType]
  BY <1>3, <1>4, <1>5 DEF ZeroTable
<1>7. Typed(U)
  BY <1>1, <1>4, <1>6 DEF Typed
<1>8. \A j \in INDEXES : U[p][j] = Entry(0, {})
  BY <1>1, <1>4 DEF ZeroTable
<1>9. U[t][x] = Entry(p, f) /\ \A j \in INDEXES : j # x => U[t][j] = T[t][j]
  BY <1>3, <1>4
<1>10. \A q \in DOMAIN T \ {p, t} : U[q] = T[q]
  BY <1>1, <1>4
<1> QED
  BY <1>4, <1>7, <1>8, <1>9, <1>10 DEF LinkedInto

(* The tree has one link and one table more, and every walk goes where it  *)
(* went: the new table is empty.                                           *)
LEMMA NewLinkTree ==
  ASSUME NEW T, NEW r, Shape(T, r), r # BOOT_PML4,
         NEW t \in {r} \cup Children(T, r), NEW x \in INDEXES, ~Present(T[t][x]),
         NEW p \in Nat, p \notin TablesUnder(T, r), p \notin BootTables,
         p # NULL, p % PAGE_SIZE = 0,
         NEW f \in SUBSET FLAGS, "PRESENT" \in f,
         NEW U, U = NewLink(T, t, x, p, f)
  PROVE  /\ Links(U, r) = Links(T, r) \cup {<<t, x>>}
         /\ \A l \in Links(T, r) : U[l[1]][l[2]] = T[l[1]][l[2]]
         /\ U[t][x] = Entry(p, f)
         /\ TablesUnder(U, r) = TablesUnder(T, r) \cup {p}
         /\ Shape(U, r)
         /\ \A v \in Virtual : Walk(U, r, v) = Walk(T, r, v)
<1> USE DEF Shape
<1>1. r \in DOMAIN T /\ \A q \in {r} \cup Children(T, r) : q \in DOMAIN T
  BY TreeLevels, ChildOf DEF Tree
<1>2. \A q \in {r} \cup Children(T, r) : q # p
  BY Members
<1>3. /\ Typed(U) /\ DOMAIN U = DOMAIN T \cup {p}
      /\ \A j \in INDEXES : U[p][j] = Entry(0, {})
      /\ U[t][x] = Entry(p, f)
      /\ \A q \in DOMAIN T \ {p} : \A j \in INDEXES :
           (q # t \/ j # x) => U[q][j] = T[q][j]
      /\ \A q \in DOMAIN T \ {p, t} : U[q] = T[q]
  <2>1. Typed(T) /\ t \in DOMAIN T /\ p # t
    BY <1>1, <1>2
  <2>2. LinkedInto(T, U, t, x, p, f)
    BY <2>1, NewLinkEntries
  <2> QED BY <2>2 DEF LinkedInto
<1>4. Present(U[t][x]) /\ U[t][x].addr = p /\ \A j \in INDEXES : ~Present(U[p][j])
  BY <1>3 DEF Present, Entry
<1>5. \A q \in {r} \cup Children(T, r) : \A j \in INDEXES :
        Present(T[q][j]) => U[q][j] = T[q][j]
  BY <1>1, <1>2, <1>3
<1>6. \A q \in {r} \cup Children(T, r) : \A j \in INDEXES :
        Present(U[q][j]) <=> Present(T[q][j]) \/ (q = t /\ j = x)
  BY <1>1, <1>2, <1>3, <1>4
<1>7. Children(U, r) = Children(T, r) \cup (IF t = r THEN {p} ELSE {})
  <2>1. ASSUME NEW a \in Children(T, r) PROVE a \in Children(U, r)
    <3>1. PICK i \in INDEXES : Present(T[r][i]) /\ a = T[r][i].addr
      BY ChildOf
    <3>2. U[r][i] = T[r][i]
      BY <1>5, <3>1
    <3> QED BY <3>1, <3>2, ChildOf
  <2>2. t = r => p \in Children(U, r)
    BY <1>4, ChildOf
  <2>3. ASSUME NEW a \in Children(U, r) PROVE a \in Children(T, r) \/ (t = r /\ a = p)
    <3>1. PICK i \in INDEXES : Present(U[r][i]) /\ a = U[r][i].addr
      BY ChildOf
    <3>2. CASE Present(T[r][i])
      BY <1>5, <3>1, <3>2, ChildOf
    <3>3. CASE r = t /\ i = x
      BY <1>4, <3>1, <3>3
    <3> QED BY <1>6, <3>1, <3>2, <3>3
  <2> QED BY <2>1, <2>2, <2>3
<1>8. \A q, j : <<q, j>> \in Links(U, r) <=> <<q, j>> \in Links(T, r) \/ (q = t /\ j = x)
  <2> SUFFICES ASSUME NEW q, NEW j
               PROVE  <<q, j>> \in Links(U, r) <=> <<q, j>> \in Links(T, r) \/ (q = t /\ j = x)
    OBVIOUS
  <2>1. CASE j \notin INDEXES
    BY <2>1 DEF Links
  <2>2. CASE j \in INDEXES /\ q \in {r} \cup Children(T, r)
    BY <1>6, <1>7, <2>2, LinkOf
  <2>3. CASE j \in INDEXES /\ q \notin {r} \cup Children(T, r)
    <3>1. q # t /\ <<q, j>> \notin Links(T, r)
      BY <2>3, LinkOf
    <3>2. <<q, j>> \in Links(U, r) => q = p /\ Present(U[q][j])
      BY <1>7, <2>3, LinkOf
    <3> QED BY <1>4, <2>3, <3>1, <3>2
  <2> QED BY <2>1, <2>2, <2>3
<1>9. Links(U, r) = Links(T, r) \cup {<<t, x>>}
  <2>1. \A l \in Links(U, r) : l = <<l[1], l[2]>>
    BY LinkParts
  <2>2. \A l \in Links(T, r) : l = <<l[1], l[2]>>
    BY LinkParts
  <2>3. Links(U, r) \subseteq Links(T, r) \cup {<<t, x>>}
    BY <1>8, <2>1
  <2>4. Links(T, r) \subseteq Links(U, r)
    BY <1>8, <2>2
  <2> QED BY <1>8, <2>3, <2>4
<1>10. \A l \in Links(T, r) : U[l[1]][l[2]] = T[l[1]][l[2]]
  BY <1>5, LinkParts
<1>11. \A l \in Links(T, r) : Target(U, l) = Target(T, l)
  BY <1>10 DEF Target
<1>12. Target(U, <<t, x>>) = p
  BY <1>4, LinkOf
<1>13. TablesUnder(U, r) = TablesUnder(T, r) \cup {p}
  BY <1>9, <1>11, <1>12 DEF TablesUnder
<1>14. Tree(U, r)
  <2>1. \A l \in Links(T, r) : Target(T, l) # p
    BY LinkParts
  <2>2. \A l \in Links(U, r) : Target(U, l) \in DOMAIN U \ {r, BOOT_PML4}
    <3>1. p # r /\ p # BOOT_PML4
      BY <1>2, Constants
    <3> QED BY <1>3, <1>9, <1>11, <1>12, <3>1 DEF Tree
  <2>3. \A k, l \in Links(U, r) : Target(U, k) = Target(U, l) => k = l
    BY <1>9, <1>11, <1>12, <2>1 DEF Tree
  <2> QED BY <1>1, <1>3, <2>2, <2>3 DEF Tree
<1>15. LowPath(U, r)
  <2>1. Present(T[r][0]) /\ T[r][0].addr = BOOT_PDPT
    BY DEF LowPath, Present, Entry
  <2>2. BOOT_PDPT \in Children(T, r)
    BY <2>1, ChildOf, Constants
  <2>3. Present(T[BOOT_PDPT][0]) /\ T[BOOT_PDPT][0].addr = BOOT_PD
    BY DEF LowPath, Present, Entry
  <2>4. U[r][0] = T[r][0] /\ U[BOOT_PDPT][0] = T[BOOT_PDPT][0]
    BY <1>5, <2>1, <2>2, <2>3, Constants
  <2>6. BOOT_PML4 \notin Children(T, r)
    BY TreeLevels, ChildOf
  <2>7. BOOT_PML4 \in DOMAIN T \ {p, t}
    BY <2>6, Constants DEF Typed
  <2> QED BY <1>3, <2>4, <2>7 DEF LowPath
<1>16. ASSUME NEW v \in Virtual PROVE Walk(U, r, v) = Walk(T, r, v)
  <2>0. v[1] \in INDEXES /\ v[2] \in INDEXES /\ v[3] \in INDEXES
    BY VirtualIndices
  <2>1. CASE ~Present(T[r][v[1]])
    <3>1. Walk(T, r, v) = Unmapped
      BY <2>1, WalkLevels
    <3>2. CASE ~Present(U[r][v[1]])
      BY <3>1, <3>2, WalkLevels
    <3>3. CASE Present(U[r][v[1]])
      <4>1. U[r][v[1]].addr = p
        BY <1>4, <1>6, <2>0, <2>1, <3>3
      <4>2. ~Present(U[U[r][v[1]].addr][v[2]])
        BY <1>4, <2>0, <4>1
      <4> QED BY <3>1, <4>2, WalkLevels
    <3> QED BY <3>2, <3>3
  <2>2. CASE Present(T[r][v[1]])
    <3>1. PICK a : a = T[r][v[1]].addr
      OBVIOUS
    <3>2. U[r][v[1]] = T[r][v[1]] /\ a \in Children(T, r)
      BY <1>5, <2>0, <2>2, <3>1, ChildOf
    <3>3. CASE ~Present(T[a][v[2]])
      <4>1. Walk(T, r, v) = Unmapped
        BY <3>1, <3>3, WalkLevels
      <4>2. CASE ~Present(U[a][v[2]])
        BY <3>1, <3>2, <4>1, <4>2, WalkLevels
      <4>3. CASE Present(U[a][v[2]])
        <5>1. U[a][v[2]].addr = p
          BY <1>4, <1>6, <2>0, <3>2, <3>3, <4>3
        <5>2. Present(U[r][v[1]]) /\ U[r][v[1]].addr = a
          BY <2>2, <3>1, <3>2
        <5>3. Walk(U, r, v) = Leaf(U[p][v[3]])
          BY <4>3, <5>1, <5>2 DEF Walk, Leaf
        <5> QED BY <1>4, <2>0, <4>1, <5>3 DEF Leaf
      <4> QED BY <4>2, <4>3
    <3>4. CASE Present(T[a][v[2]])
      <4>1. PICK d : d = T[a][v[2]].addr
        OBVIOUS
      <4>2. U[a][v[2]] = T[a][v[2]]
        BY <1>5, <2>0, <3>2, <3>4
      <4>3. d \in DOMAIN T /\ d # r /\ d \notin Children(T, r)
        <5>1. Tree(T, r)
          OBVIOUS
        <5> HIDE DEF Shape
        <5>2. \A j \in INDEXES : Present(T[a][j]) =>
                T[a][j].addr \in DOMAIN T /\ T[a][j].addr # r /\ T[a][j].addr \notin Children(T, r)
          BY <2>0, <2>2, <3>1, <5>1, TreeLevels
        <5> QED BY <2>0, <3>4, <4>1, <5>2
      <4>4. d \in TablesUnder(T, r)
        BY <2>0, <3>2, <3>4, <4>1, Members, ChildOf
      <4>5. U[d] = T[d]
        BY <1>3, <4>3, <4>4
      <4>6. Walk(T, r, v) = Leaf(T[d][v[3]])
        BY <2>2, <3>1, <3>4, <4>1 DEF Walk, Leaf
      <4>7. /\ Present(U[r][v[1]]) /\ U[r][v[1]].addr = a
            /\ Present(U[a][v[2]]) /\ U[a][v[2]].addr = d
        BY <2>2, <3>1, <3>2, <3>4, <4>1, <4>2
      <4>8. Walk(U, r, v) = Leaf(U[d][v[3]])
        BY <4>7 DEF Walk, Leaf
      <4> QED BY <4>5, <4>6, <4>8
    <3> QED BY <3>3, <3>4
  <2> QED BY <2>1, <2>2
<1> QED
  BY <1>3, <1>9, <1>10, <1>13, <1>14, <1>15, <1>16

---------------------------------------------------------------------------
(* An entry of a PD is written.                                            *)

(* A PD that the entries v[1] and v[2] lead to.                            *)
PathTo(T, r, v, a, d) ==
  /\ Present(T[r][v[1]]) /\ T[r][v[1]].addr = a
  /\ Present(T[a][v[2]]) /\ T[a][v[2]].addr = d

(* U is T with one entry written.                                          *)
LeafSet(T, U, d, x, e) == U = [T EXCEPT ![d][x] = e]

(* The walk along such a path ends in that PD.                             *)
LEMMA WalkTo ==
  ASSUME NEW T, NEW r, NEW v, NEW a, NEW d, PathTo(T, r, v, a, d)
  PROVE  Walk(T, r, v) = Leaf(T[d][v[3]])
BY DEF PathTo, Walk, Leaf

(* No link changes, and no walk but the one that was asked for.            *)
LEMMA LeafTree ==
  ASSUME NEW T, NEW r, Shape(T, r), NEW v \in Virtual,
         NEW a, NEW d, PathTo(T, r, v, a, d), NEW e \in EntryType,
         NEW U, LeafSet(T, U, d, v[3], e)
  PROVE  /\ Links(U, r) = Links(T, r)
         /\ TablesUnder(U, r) = TablesUnder(T, r)
         /\ Shape(U, r)
         /\ \A w \in Virtual : Walk(U, r, w) = IF w = v THEN Leaf(e) ELSE Walk(T, r, w)
<1>0. v[1] \in INDEXES /\ v[2] \in INDEXES /\ v[3] \in INDEXES /\ v = <<v[1], v[2], v[3]>>
  BY VirtualIndices
<1>1. Typed(T) /\ Tree(T, r) /\ LowPath(T, r)
  BY DEF Shape
<1>2. /\ Present(T[r][v[1]]) /\ T[r][v[1]].addr = a
      /\ Present(T[a][v[2]]) /\ T[a][v[2]].addr = d
  BY DEF PathTo
<1>3. /\ a \in DOMAIN T /\ a # r /\ a \in Children(T, r)
      /\ \A j \in INDEXES : Present(T[a][j]) =>
           /\ T[a][j].addr \in DOMAIN T /\ T[a][j].addr # r /\ T[a][j].addr # BOOT_PML4
           /\ T[a][j].addr \notin Children(T, r)
           /\ \A k, l \in INDEXES :
                /\ Present(T[r][k]) /\ Present(T[T[r][k].addr][l])
                /\ T[T[r][k].addr][l].addr = T[a][j].addr
                => k = v[1] /\ l = j
  BY <1>0, <1>1, <1>2, TreeLevels
<1>4. d \in DOMAIN T /\ d # r /\ d # BOOT_PML4 /\ d \notin Children(T, r)
  BY <1>0, <1>2, <1>3
<1>5. \A k, l \in INDEXES :
        /\ Present(T[r][k]) /\ Present(T[T[r][k].addr][l])
        /\ T[T[r][k].addr][l].addr = d
        => k = v[1] /\ l = v[2]
  BY <1>0, <1>2, <1>3
<1>6. /\ DOMAIN U = DOMAIN T /\ U[d] = [T[d] EXCEPT ![v[3]] = e]
      /\ \A q \in DOMAIN T \ {d} : U[q] = T[q]
  BY <1>4 DEF LeafSet
<1>7. T[d] \in [INDEXES -> EntryType]
  BY <1>1, <1>4 DEF Typed
<1>8. U[d][v[3]] = e /\ \A j \in INDEXES : j # v[3] => U[d][j] = T[d][j]
  BY <1>0, <1>6, <1>7
<1>9. U[d] \in [INDEXES -> EntryType]
  <2>1. \A g \in [INDEXES -> EntryType] : \A y \in INDEXES :
          [g EXCEPT ![y] = e] \in [INDEXES -> EntryType]
    OBVIOUS
  <2> QED BY <1>0, <1>6, <1>7, <2>1
<1>10. Typed(U)
  BY <1>1, <1>6, <1>9 DEF Typed
<1>11. \A q \in {r} \cup Children(T, r) : q \in DOMAIN T /\ U[q] = T[q]
  <2>1. \A q \in Children(T, r) : q \in DOMAIN T
    BY <1>1, TreeLevels, ChildOf
  <2> QED BY <1>1, <1>4, <1>6, <2>1 DEF Tree
<1>12. Children(U, r) = Children(T, r)
  BY <1>11 DEF Children
<1>13. Links(U, r) = Links(T, r)
  <2>1. \A l \in ({r} \cup Children(T, r)) \X INDEXES : U[l[1]] = T[l[1]]
    BY <1>11
  <2> QED BY <1>12, <2>1 DEF Links
<1>14. \A l \in Links(T, r) : Target(U, l) = Target(T, l)
  BY <1>11, LinkParts DEF Target
<1>15. TablesUnder(U, r) = TablesUnder(T, r)
  BY <1>13, <1>14 DEF TablesUnder
<1>16. Tree(U, r)
  BY <1>1, <1>6, <1>13, <1>14 DEF Tree
<1>17. LowPath(U, r)
  <2>1. /\ Present(T[r][0]) /\ T[r][0].addr = BOOT_PDPT
        /\ Present(T[BOOT_PDPT][0]) /\ T[BOOT_PDPT][0].addr = BOOT_PD
    BY <1>1 DEF LowPath, Present, Entry
  <2>2. BOOT_PDPT \in Children(T, r)
    BY <2>1, ChildOf, Constants
  <2>3. U[r] = T[r] /\ U[BOOT_PDPT] = T[BOOT_PDPT]
    BY <1>11, <2>2
  <2>4. U[BOOT_PML4] = T[BOOT_PML4]
    BY <1>1, <1>4, <1>6, Constants DEF Typed
  <2> QED BY <1>1, <2>3, <2>4 DEF LowPath
<1>18. ASSUME NEW w \in Virtual
       PROVE  Walk(U, r, w) = IF w = v THEN Leaf(e) ELSE Walk(T, r, w)
  <2>0. w[1] \in INDEXES /\ w[2] \in INDEXES /\ w[3] \in INDEXES /\ w = <<w[1], w[2], w[3]>>
    BY VirtualIndices
  <2>1. U[r][w[1]] = T[r][w[1]]
    BY <1>11
  <2>2. CASE ~Present(T[r][w[1]])
    <3>1. w # v
      BY <1>2, <2>2
    <3>2. ~Present(U[r][w[1]])
      BY <2>1, <2>2
    <3> QED BY <2>2, <3>1, <3>2, WalkLevels
  <2>3. CASE Present(T[r][w[1]])
    <3>1. PICK b : b = T[r][w[1]].addr
      OBVIOUS
    <3>2. b \in Children(T, r)
      BY <2>0, <2>3, <3>1, ChildOf
    <3>3. U[b][w[2]] = T[b][w[2]] /\ U[r][w[1]].addr = b
      BY <1>11, <2>1, <3>1, <3>2
    <3>4. CASE ~Present(T[b][w[2]])
      <4>1. w # v
        BY <1>2, <3>1, <3>4
      <4>2. ~Present(U[U[r][w[1]].addr][w[2]])
        BY <3>3, <3>4
      <4> QED BY <3>1, <3>4, <4>1, <4>2, WalkLevels
    <3>5. CASE Present(T[b][w[2]])
      <4>1. PICK c : c = T[b][w[2]].addr
        OBVIOUS
      <4>2. Walk(T, r, w) = Leaf(T[c][w[3]])
        BY <2>3, <3>1, <3>5, <4>1 DEF Walk, Leaf
      <4>3. /\ Present(U[r][w[1]]) /\ U[r][w[1]].addr = b
            /\ Present(U[b][w[2]]) /\ U[b][w[2]].addr = c
        BY <2>1, <2>3, <3>3, <3>5, <4>1
      <4>4. Walk(U, r, w) = Leaf(U[c][w[3]])
        <5>1. PathTo(U, r, w, b, c)
          BY <4>3 DEF PathTo
        <5> QED BY <5>1, WalkTo
      <4>5. CASE c = d
        <5>1. w[1] = v[1] /\ w[2] = v[2]
          BY <1>5, <2>0, <2>3, <3>1, <3>5, <4>1, <4>5
        <5>2. w = v <=> w[3] = v[3]
          BY <1>0, <2>0, <5>1
        <5> QED BY <1>8, <2>0, <4>2, <4>4, <4>5, <5>2
      <4>6. CASE c # d
        <5>1. w # v
          BY <1>2, <3>1, <4>1, <4>6
        <5>2. c \in DOMAIN T
          BY <1>1, <2>0, <2>3, <3>1, <3>5, <4>1, TreeLevels
        <5>3. U[c] = T[c]
          BY <1>6, <4>6, <5>2
        <5> QED BY <4>2, <4>4, <5>1, <5>3
      <4> QED BY <4>5, <4>6
    <3> QED BY <3>4, <3>5
  <2> QED BY <2>2, <2>3
<1> QED
  BY <1>10, <1>13, <1>15, <1>16, <1>17, <1>18 DEF Shape

---------------------------------------------------------------------------
(* Boot's PML4 beside the kernel's.                                        *)

(* Boot's tables lie in the first large page.                              *)
LEMMA BootLow == \A t \in BootTables : t \in Nat /\ t < LARGE_PAGE
<1>1. memory_start \in Nat
  BY SMT DEF memory_start
<1>2. \A t \in BootTables : t \in Nat /\ t < memory_start
  BY Constants
<1>3. LARGE_PAGE \in Nat /\ LARGE_PAGE > memory_start
  BY Constants
<1> QED
  BY <1>1, <1>2, <1>3

(* The entries of boot's PML4.                                             *)
LEMMA BootEntries ==
  ASSUME NEW T, NEW r, LowPath(T, r)
  PROVE  /\ Present(T[BOOT_PML4][0]) /\ T[BOOT_PML4][0].addr = BOOT_PDPT
         /\ T[BOOT_PML4][0] = T[r][0]
         /\ \A i \in INDEXES : i # 0 => ~Present(T[BOOT_PML4][i])
         /\ Children(T, BOOT_PML4) = {BOOT_PDPT}
         /\ Present(T[r][0]) /\ T[r][0].addr = BOOT_PDPT
         /\ BOOT_PDPT \in Children(T, r)
         /\ Present(T[BOOT_PDPT][0]) /\ T[BOOT_PDPT][0].addr = BOOT_PD
<1>1. \A i \in INDEXES :
        T[BOOT_PML4][i] = IF i = 0 THEN Entry(BOOT_PDPT, {"PRESENT", "WRITABLE"}) ELSE Entry(0, {})
  BY DEF LowPath, BootTable
<1>2. \A x : Present(Entry(x, {"PRESENT", "WRITABLE"})) /\ ~Present(Entry(x, {}))
             /\ Entry(x, {"PRESENT", "WRITABLE"}).addr = x
  BY DEF Present, Entry
<1>3. /\ Present(T[BOOT_PML4][0]) /\ T[BOOT_PML4][0].addr = BOOT_PDPT
      /\ \A i \in INDEXES : i # 0 => ~Present(T[BOOT_PML4][i])
  BY <1>1, <1>2, Constants
<1>4. Children(T, BOOT_PML4) = {BOOT_PDPT}
  BY <1>3, ChildOf, Constants
<1>5. /\ T[BOOT_PML4][0] = T[r][0]
      /\ Present(T[r][0]) /\ T[r][0].addr = BOOT_PDPT
      /\ Present(T[BOOT_PDPT][0]) /\ T[BOOT_PDPT][0].addr = BOOT_PD
  BY <1>1, <1>2, Constants DEF LowPath
<1> QED
  BY <1>3, <1>4, <1>5, ChildOf, Constants

(* Under boot's PML4 lies a part of what lies under the kernel's.          *)
LEMMA BootTreeInside ==
  ASSUME NEW T, NEW r, Shape(T, r)
  PROVE  /\ Shape(T, BOOT_PML4)
         /\ TablesUnder(T, BOOT_PML4) \subseteq TablesUnder(T, r) \cup {BOOT_PML4}
         /\ \A v \in Virtual :
              Walk(T, BOOT_PML4, v) = IF v[1] = 0 THEN Walk(T, r, v) ELSE Unmapped
<1>1. Typed(T) /\ Tree(T, r) /\ LowPath(T, r)
  BY DEF Shape
<1>2. /\ Present(T[BOOT_PML4][0]) /\ T[BOOT_PML4][0].addr = BOOT_PDPT
      /\ T[BOOT_PML4][0] = T[r][0]
      /\ \A i \in INDEXES : i # 0 => ~Present(T[BOOT_PML4][i])
      /\ Children(T, BOOT_PML4) = {BOOT_PDPT}
      /\ Present(T[r][0]) /\ T[r][0].addr = BOOT_PDPT
      /\ BOOT_PDPT \in Children(T, r)
  BY <1>1, BootEntries
<1>3. <<r, 0>> \in Links(T, r) /\ Target(T, <<r, 0>>) = BOOT_PDPT
  <2>1. 0 \in INDEXES
    BY Constants
  <2>2. <<r, 0>> \in Links(T, r) <=> r \in {r} \cup Children(T, r) /\ Present(T[r][0])
    BY <2>1, LinkOf
  <2>3. Target(T, <<r, 0>>) = T[r][0].addr
    BY <2>1, LinkOf
  <2> QED BY <1>2, <2>2, <2>3
<1>4. Target(T, <<BOOT_PML4, 0>>) = BOOT_PDPT
  BY <1>2, LinkOf, Constants
<1>5. r # BOOT_PDPT /\ BOOT_PDPT \in DOMAIN T /\ BOOT_PML4 \in DOMAIN T
  BY <1>1, <1>3, Constants DEF Tree, Typed
<1>6. \A l \in Links(T, BOOT_PML4) :
        l = <<BOOT_PML4, 0>> \/ (l \in Links(T, r) /\ l[1] = BOOT_PDPT)
  <2> SUFFICES ASSUME NEW l \in Links(T, BOOT_PML4), l # <<BOOT_PML4, 0>>
               PROVE  l \in Links(T, r) /\ l[1] = BOOT_PDPT
    OBVIOUS
  <2>1. /\ l = <<l[1], l[2]>> /\ l[1] \in {BOOT_PML4, BOOT_PDPT} /\ l[2] \in INDEXES
        /\ Present(T[l[1]][l[2]])
    BY <1>2, LinkParts
  <2>2. l[1] = BOOT_PDPT
    BY <1>2, <2>1
  <2>3. <<l[1], l[2]>> \in Links(T, r)
    BY <1>2, <2>1, <2>2, LinkOf
  <2> QED BY <2>1, <2>2, <2>3
<1>7. Tree(T, BOOT_PML4)
  <2>1. \A l \in Links(T, BOOT_PML4) : Target(T, l) \in DOMAIN T \ {BOOT_PML4}
    BY <1>1, <1>4, <1>5, <1>6, Constants DEF Tree
  <2>2. ASSUME NEW l \in Links(T, r), l[1] = BOOT_PDPT, Target(T, l) = BOOT_PDPT PROVE FALSE
    <3>1. l = <<r, 0>>
      BY <1>1, <1>3, <2>2 DEF Tree
    <3> QED BY <1>5, <2>2, <3>1
  <2>3. \A k, l \in Links(T, BOOT_PML4) : Target(T, k) = Target(T, l) => k = l
    BY <1>1, <1>4, <1>6, <2>2 DEF Tree
  <2> QED BY <1>5, <2>1, <2>3 DEF Tree
<1>8. LowPath(T, BOOT_PML4)
  BY <1>1, <1>2 DEF LowPath
<1>9. TablesUnder(T, BOOT_PML4) \subseteq TablesUnder(T, r) \cup {BOOT_PML4}
  <2> SUFFICES ASSUME NEW l \in Links(T, BOOT_PML4) PROVE Target(T, l) \in TablesUnder(T, r)
    BY DEF TablesUnder
  <2> QED BY <1>3, <1>4, <1>6, LinkParts
<1>10. ASSUME NEW v \in Virtual
       PROVE  Walk(T, BOOT_PML4, v) = IF v[1] = 0 THEN Walk(T, r, v) ELSE Unmapped
  <2>1. CASE v[1] = 0
    BY <1>2, <2>1 DEF Walk
  <2>2. CASE v[1] # 0
    BY <1>2, <2>2, VirtualIndices, WalkLevels
  <2> QED BY <2>1, <2>2
<1> QED
  BY <1>1, <1>7, <1>8, <1>9, <1>10 DEF Shape

(* The large page of an address, in whole large pages.                     *)
LEMMA LargePages ==
  ASSUME NEW p \in Nat
  PROVE  /\ p < LARGE_PAGE => p \div LARGE_PAGE = 0
         /\ p \div LARGE_PAGE = 0 => p < LARGE_PAGE
         /\ p \div LARGE_PAGE \in Nat
<1>1. \A L \in Nat : L > 0 => /\ p < L => p \div L = 0
                              /\ p \div L = 0 => p < L
                              /\ p \div L \in Nat
  BY SMT
<1> QED
  BY <1>1, Constants

(* Which PML4 is in CR3 makes no difference to what the kernel reaches,    *)
(* and walks that stay the same reach the same pages.                      *)
LEMMA ReachSame ==
  ASSUME NEW T, NEW r, NEW U, NEW q,
         \A n \in INDEXES : Walk(T, r, <<0, 0, n>>) = n * LARGE_PAGE =>
                            Walk(U, q, <<0, 0, n>>) = n * LARGE_PAGE,
         NEW p, Reaches(T, r, p)
  PROVE  Reaches(U, q, p)
BY DEF Reaches

(* The low large pages are reached through entry 0 of both upper tables.   *)
LEMMA LowVirtual ==
  ASSUME NEW n \in INDEXES
  PROVE  /\ <<0, 0, n>> \in Virtual
         /\ get_physical_address(<<0, 0, n>>) = n * LARGE_PAGE
<1>1. <<0, 0, n>> \in Virtual
  BY Constants DEF Virtual
<1>2. n \in Nat /\ LARGE_PAGE \in Nat
  BY Constants
<1>3. get_physical_address(<<0, 0, n>>) = (512 * (512 * 0 + 0) + n) * LARGE_PAGE
  BY SMT DEF get_physical_address
<1>4. 512 * (512 * 0 + 0) + n = n
  BY <1>2
<1> QED
  BY <1>1, <1>3, <1>4

(* What boot's PML4 reaches is what the kernel's reaches.                  *)
LEMMA BootReaches ==
  ASSUME NEW T, NEW r, Shape(T, r), NEW p
  PROVE  Reaches(T, BOOT_PML4, p) <=> Reaches(T, r, p)
<1>1. \A n \in INDEXES : Walk(T, BOOT_PML4, <<0, 0, n>>) = Walk(T, r, <<0, 0, n>>)
  <2> SUFFICES ASSUME NEW n \in INDEXES
               PROVE  Walk(T, BOOT_PML4, <<0, 0, n>>) = Walk(T, r, <<0, 0, n>>)
    OBVIOUS
  <2>1. PICK v : v = <<0, 0, n>>
    OBVIOUS
  <2>2. v \in Virtual /\ v[1] = 0
    BY <2>1, LowVirtual
  <2>3. Walk(T, BOOT_PML4, v) = Walk(T, r, v)
    BY <2>2, BootTreeInside
  <2> QED BY <2>1, <2>3
<1> QED
  BY <1>1, ReachSame

(* What the first large page holds is reached while it is in its place.    *)
LEMMA LowReached ==
  ASSUME NEW T, NEW r, Walk(T, r, KERNEL_CODE) = 0, NEW p \in Nat, p < LARGE_PAGE
  PROVE  Reaches(T, r, p)
<1>1. p \div LARGE_PAGE = 0
  BY LargePages
<1>2. 0 * LARGE_PAGE = 0
  BY Constants
<1> QED
  BY <1>1, <1>2, Constants DEF Reaches, KERNEL_CODE

(* What is good under the kernel's PML4 is good under boot's.              *)
LEMMA GoodUnderBoot ==
  ASSUME NEW m, NEW T, NEW r, NEW oth, Good(m, T, r, oth)
  PROVE  Good(m, T, BOOT_PML4, oth)
<1>1. Shape(T, r) /\ Owned(m, T, r, oth) /\ Agrees(T, r)
  BY DEF Good
<1>2. /\ Shape(T, BOOT_PML4)
      /\ TablesUnder(T, BOOT_PML4) \subseteq TablesUnder(T, r) \cup {BOOT_PML4}
      /\ \A v \in Virtual :
           Walk(T, BOOT_PML4, v) = IF v[1] = 0 THEN Walk(T, r, v) ELSE Unmapped
  BY <1>1, BootTreeInside
<1>3. Owned(m, T, BOOT_PML4, oth)
  BY <1>1, <1>2, Constants DEF Owned
<1>4. Agrees(T, BOOT_PML4)
  BY <1>1, <1>2 DEF Agrees, Allowed
<1> QED
  BY <1>2, <1>3, <1>4 DEF Good

---------------------------------------------------------------------------
(* The steps of a call: NextTable, twice, and SetEntry.                    *)

IsCall(s) == s = [m |-> s.m, tables |-> s.tables, at |-> s.at, status |-> s.status]

(* Between two steps nothing is lost, unless a page could not be cleared.  *)
Midway(s, r, oth) ==
  /\ IsCall(s) /\ s.status \in {"ok", "failed", "lost"}
  /\ Good(s.m, s.tables, r, oth)
  /\ s.status # "lost" => NoneLost(s.m, s.tables, r, oth)

(* What was reached still is.                                              *)
StillReached(T, U, r, oth) == Reached(T, r, oth) => Reached(U, r, oth)

(* Links stay what they are, and no translation changes.                   *)
Kept(T, U, r) ==
  /\ \A l \in Links(T, r) : l \in Links(U, r) /\ U[l[1]][l[2]] = T[l[1]][l[2]]
  /\ \A v \in Virtual : Walk(U, r, v) = Walk(T, r, v)

(* Two steps that keep links and translations keep them.                   *)
LEMMA KeptTransitive ==
  ASSUME NEW T, NEW U, NEW V, NEW r, Kept(T, U, r), Kept(U, V, r)
  PROVE  Kept(T, V, r)
BY DEF Kept

(* So does no step.                                                        *)
LEMMA KeptSame ==
  ASSUME NEW T, NEW r
  PROVE  Kept(T, T, r)
BY DEF Kept

(* get_physical_page takes the first free page.                            *)
LEMMA GetPageFirst ==
  ASSUME NEW m, Consistent(m), FreePages(m) # {}, NEW g, g = get_physical_page(m)
  PROVE  /\ g.ret = PageAddr(FirstFree(m))
         /\ FreePages(g.m) = FreePages(m) \ {FirstFree(m)}
<1>1. m \in MemType /\ m.ready
  BY DEF Consistent
<1>2. g.ret # NULL
  BY GetPageEffect
<1>3. PICK i : i = FirstFree(m)
  OBVIOUS
<1>4. i \in FreePages(m)
  BY <1>1, <1>3, FirstFreeIsFree
<1>5. i \in Pages(m)
  BY <1>4 DEF FreePages
<1>6. g = IF ~m.ready \/ FreePages(m) = {} \/ PageAddr(i) >= m.memory_end
            THEN [m |-> m, ret |-> NULL]
            ELSE [m |-> WithBitmap(m, m.memory_map \ {i}, m.used_pages + 1), ret |-> PageAddr(i)]
  BY <1>3 DEF get_physical_page
<1>7. g.m = WithBitmap(m, m.memory_map \ {i}, m.used_pages + 1) /\ g.ret = PageAddr(i)
  BY <1>2, <1>6
<1>8. m.used_pages + 1 \in Nat
  BY <1>1 DEF MemType
<1>9. \A n : n = WithBitmap(m, m.memory_map \ {i}, m.used_pages + 1) =>
               FreePages(n) = FreePages(m) \ {i}
  BY <1>1, <1>5, <1>8, ClearBit
<1> QED
  BY <1>3, <1>7, <1>9

(* A page that was just taken is nobody's: neither a table nor held.       *)
LEMMA FreshPage ==
  ASSUME NEW m, NEW T, NEW r, NEW oth, Owned(m, T, r, oth),
         NEW g, g = get_physical_page(m), g.ret # NULL
  PROVE  /\ g.ret \in Nat /\ g.ret % PAGE_SIZE = 0 /\ g.ret >= memory_start
         /\ g.ret \notin BootTables /\ g.ret \notin TablesUnder(T, r)
         /\ g.ret \notin oth
         /\ Consistent(g.m) /\ UsedFrames(g.m) = UsedFrames(m) \cup {g.ret}
<1>1. Consistent(m)
  BY DEF Owned
<1>2. /\ g.ret \in Nat /\ g.ret \notin UsedFrames(m)
      /\ UsedFrames(g.m) = UsedFrames(m) \cup {g.ret}
      /\ Consistent(g.m)
  BY <1>1, GetPageEffect
<1>3. g.m \in MemType /\ g.ret \in UsedFrames(g.m)
  BY <1>2 DEF Consistent
<1>4. g.ret >= memory_start /\ g.ret % PAGE_SIZE = 0
  BY <1>3, UsedFrameIndex
<1>5. g.ret \notin BootTables
  <2>1. memory_start \in Nat
    BY SMT DEF memory_start
  <2>2. \A t \in BootTables : t \in Nat /\ t < memory_start
    BY Constants
  <2> QED BY <1>2, <1>4, <2>1, <2>2
<1> QED
  BY <1>2, <1>4, <1>5 DEF Owned

(* The table is made where none is present.                                *)
LEMMA NewTableEffect ==
  ASSUME NEW s, NEW r, NEW oth, Midway(s, r, oth), s.status = "ok", r # BOOT_PML4,
         cr3 \in {BOOT_PML4, r},
         NEW t \in {r} \cup Children(s.tables, r), NEW x \in INDEXES,
         ~Present(s.tables[t][x]), NEW f \in SUBSET FLAGS, "PRESENT" \in f,
         NEW u, u = NewTable(s, t, x, f)
  PROVE  /\ Midway(u, r, oth) /\ Kept(s.tables, u.tables, r)
         /\ StillReached(s.tables, u.tables, r, oth)
         /\ u.status = "ok" => <<t, x>> \in Links(u.tables, r) /\ u.tables[t][x].addr = u.at
         /\ (FreePages(s.m) # {} /\ Reaches(s.tables, r, PageAddr(FirstFree(s.m)))) =>
              u.status = "ok" /\ FreePages(u.m) = FreePages(s.m) \ {FirstFree(s.m)}
<1>1. PICK g : g = get_physical_page(s.m)
  OBVIOUS
<1>2. /\ IsCall(s) /\ Good(s.m, s.tables, r, oth) /\ NoneLost(s.m, s.tables, r, oth)
      /\ Shape(s.tables, r) /\ Owned(s.m, s.tables, r, oth) /\ Agrees(s.tables, r)
  BY DEF Midway, Good
<1>3. u = IF g.ret = NULL
            THEN [s EXCEPT !.status = "failed"]
          ELSE IF ~Reaches(s.tables, cr3, g.ret)
            THEN [s EXCEPT !.m = g.m, !.status = "lost"]
          ELSE [m |-> g.m, at |-> g.ret, status |-> "ok",
                tables |-> NewLink(s.tables, t, x, g.ret, f)]
  BY <1>1 DEF NewTable, NewLink
<1>4. Reaches(s.tables, cr3, g.ret) <=> Reaches(s.tables, r, g.ret)
  BY <1>2, BootReaches
<1>5. FreePages(s.m) # {} =>
        /\ g.ret = PageAddr(FirstFree(s.m))
        /\ FreePages(g.m) = FreePages(s.m) \ {FirstFree(s.m)}
        /\ g.ret # NULL
  BY <1>1, <1>2, GetPageFirst, GetPageEffect DEF Owned
<1>6. CASE g.ret = NULL
  <2>1. u = [m |-> s.m, tables |-> s.tables, at |-> s.at, status |-> "failed"]
    BY <1>2, <1>3, <1>6 DEF IsCall
  <2>2. IsCall(u) /\ u.status = "failed" /\ u.m = s.m /\ u.tables = s.tables
    BY <2>1 DEF IsCall
  <2>3. FreePages(s.m) = {}
    BY <1>5, <1>6
  <2>4. Midway(u, r, oth)
    BY <1>2, <2>2 DEF Midway
  <2> QED BY <2>2, <2>3, <2>4, KeptSame DEF StillReached
<1>7. CASE g.ret # NULL /\ ~Reaches(s.tables, cr3, g.ret)
  <2>1. u = [m |-> g.m, tables |-> s.tables, at |-> s.at, status |-> "lost"]
    BY <1>2, <1>3, <1>7 DEF IsCall
  <2>2. IsCall(u) /\ u.status = "lost" /\ u.m = g.m /\ u.tables = s.tables
    BY <2>1 DEF IsCall
  <2>3. Consistent(g.m) /\ UsedFrames(g.m) = UsedFrames(s.m) \cup {g.ret}
    BY <1>1, <1>2, <1>7, FreshPage
  <2>4. Owned(g.m, s.tables, r, oth)
    BY <1>2, <2>3 DEF Owned
  <2>5. Midway(u, r, oth)
    BY <1>2, <2>2, <2>4 DEF Midway, Good
  <2>6. ~(FreePages(s.m) # {} /\ Reaches(s.tables, r, PageAddr(FirstFree(s.m))))
    BY <1>4, <1>5, <1>7
  <2> QED BY <2>2, <2>5, <2>6, KeptSame DEF StillReached
<1>8. CASE g.ret # NULL /\ Reaches(s.tables, cr3, g.ret)
  <2>1. PICK p, T, U : p = g.ret /\ T = s.tables /\ U = NewLink(T, t, x, p, f)
    OBVIOUS
  <2>2. u = [m |-> g.m, tables |-> U, at |-> p, status |-> "ok"]
    BY <1>3, <1>8, <2>1
  <2>3. IsCall(u) /\ u.status = "ok" /\ u.m = g.m /\ u.tables = U /\ u.at = p
    BY <2>2 DEF IsCall
  <2>4. /\ p \in Nat /\ p % PAGE_SIZE = 0 /\ p # NULL
        /\ p \notin BootTables /\ p \notin TablesUnder(T, r) /\ p \notin oth
        /\ Consistent(g.m) /\ UsedFrames(g.m) = UsedFrames(s.m) \cup {p}
    BY <1>1, <1>2, <1>8, <2>1, FreshPage
  <2>5. /\ Links(U, r) = Links(T, r) \cup {<<t, x>>}
        /\ \A l \in Links(T, r) : U[l[1]][l[2]] = T[l[1]][l[2]]
        /\ U[t][x] = Entry(p, f)
        /\ TablesUnder(U, r) = TablesUnder(T, r) \cup {p}
        /\ Shape(U, r)
        /\ \A v \in Virtual : Walk(U, r, v) = Walk(T, r, v)
    BY <1>2, <2>1, <2>4, NewLinkTree
  <2>6. Kept(T, U, r)
    BY <2>5 DEF Kept
  <2>7. Owned(g.m, U, r, oth)
    BY <1>2, <2>1, <2>4, <2>5 DEF Owned
  <2>8. NoneLost(g.m, U, r, oth)
    BY <1>2, <2>1, <2>4, <2>5 DEF NoneLost
  <2>9. Agrees(U, r)
    BY <1>2, <2>1, <2>5 DEF Agrees
  <2>10. \A q : Reaches(T, r, q) => Reaches(U, r, q)
    BY <2>5, LowVirtual, ReachSame
  <2>11. StillReached(T, U, r, oth)
    BY <1>4, <1>8, <2>1, <2>5, <2>10 DEF Reached, StillReached
  <2>12. Midway(u, r, oth)
    BY <2>3, <2>5, <2>7, <2>8, <2>9 DEF Midway, Good
  <2>13. Entry(p, f).addr = p
    BY DEF Entry
  <2> QED BY <1>5, <2>1, <2>3, <2>5, <2>6, <2>11, <2>12, <2>13
<1> QED
  BY <1>6, <1>7, <1>8

(* NextTable finds the table or makes it.                                  *)
LEMMA NextTableEffect ==
  ASSUME NEW s, NEW r, NEW oth, Midway(s, r, oth), s.status = "ok", r # BOOT_PML4,
         cr3 \in {BOOT_PML4, r},
         NEW t \in {r} \cup Children(s.tables, r), NEW x \in INDEXES,
         NEW f \in SUBSET FLAGS, "PRESENT" \in f,
         NEW u, u = NextTable(s, t, x, f)
  PROVE  /\ Midway(u, r, oth) /\ Kept(s.tables, u.tables, r)
         /\ StillReached(s.tables, u.tables, r, oth)
         /\ u.status = "ok" => <<t, x>> \in Links(u.tables, r) /\ u.tables[t][x].addr = u.at
         /\ (FreePages(s.m) # {} /\ Reaches(s.tables, r, PageAddr(FirstFree(s.m)))) =>
              /\ u.status = "ok"
              /\ FreePages(u.m) \in {FreePages(s.m), FreePages(s.m) \ {FirstFree(s.m)}}
<1>1. CASE ~Present(s.tables[t][x])
  <2>1. u = NewTable(s, t, x, f)
    BY <1>1 DEF NextTable
  <2> QED BY <1>1, <2>1, NewTableEffect
<1>2. CASE Present(s.tables[t][x])
  <2>1. u = [s EXCEPT !.at = s.tables[t][x].addr]
    BY <1>2 DEF NextTable
  <2>2. u = [m |-> s.m, tables |-> s.tables, at |-> s.tables[t][x].addr, status |-> "ok"]
    BY <2>1 DEF Midway, IsCall
  <2>3. /\ IsCall(u) /\ u.m = s.m /\ u.tables = s.tables /\ u.status = "ok"
        /\ u.at = s.tables[t][x].addr
    BY <2>2 DEF IsCall
  <2>4. Midway(u, r, oth)
    BY <2>3 DEF Midway
  <2>5. <<t, x>> \in Links(u.tables, r)
    BY <1>2, <2>3, LinkOf
  <2> QED BY <2>3, <2>4, <2>5, KeptSame DEF StillReached
<1> QED
  BY <1>1, <1>2

(* SetEntry on the PD that v leads to changes where v leads, and no other. *)
LEMMA SetEntryEffect ==
  ASSUME NEW s, NEW r, NEW oth, Midway(s, r, oth), s.status = "ok",
         NEW v \in Virtual, NEW a, PathTo(s.tables, r, v, a, s.at),
         NEW e \in EntryType, Leaf(e) \in Allowed(v),
         NEW u, u = SetEntry(s, v[3], e)
  PROVE  /\ Midway(u, r, oth) /\ u.status = "ok"
         /\ v[1] # 0 => StillReached(s.tables, u.tables, r, oth)
         /\ \A w \in Virtual :
              Walk(u.tables, r, w) = IF w = v THEN Leaf(e) ELSE Walk(s.tables, r, w)
<1>1. PICK T, d, U : T = s.tables /\ d = s.at /\ U = [T EXCEPT ![d][v[3]] = e]
  OBVIOUS
<1>2. u = [s EXCEPT !.tables = U]
  BY <1>1 DEF SetEntry
<1>3. u = [m |-> s.m, tables |-> U, at |-> d, status |-> "ok"]
  BY <1>1, <1>2 DEF Midway, IsCall
<1>4. IsCall(u) /\ u.m = s.m /\ u.tables = U /\ u.status = "ok"
  BY <1>3 DEF IsCall
<1>5. LeafSet(T, U, d, v[3], e) /\ PathTo(T, r, v, a, d)
  BY <1>1 DEF LeafSet
<1>6. /\ Shape(T, r) /\ Owned(s.m, T, r, oth) /\ Agrees(T, r)
      /\ NoneLost(s.m, T, r, oth)
  BY <1>1 DEF Midway, Good
<1>7. /\ TablesUnder(U, r) = TablesUnder(T, r)
      /\ Shape(U, r)
      /\ \A w \in Virtual : Walk(U, r, w) = IF w = v THEN Leaf(e) ELSE Walk(T, r, w)
  BY <1>5, <1>6, LeafTree
<1>8. Owned(s.m, U, r, oth) /\ NoneLost(s.m, U, r, oth)
  BY <1>6, <1>7 DEF Owned, NoneLost
<1>9. Agrees(U, r)
  BY <1>6, <1>7 DEF Agrees
<1>10. ASSUME v[1] # 0 PROVE \A q : Reaches(T, r, q) => Reaches(U, r, q)
  <2>1. ASSUME NEW n \in INDEXES, Walk(T, r, <<0, 0, n>>) = n * LARGE_PAGE
        PROVE  Walk(U, r, <<0, 0, n>>) = n * LARGE_PAGE
    <3>1. PICK w : w = <<0, 0, n>>
      OBVIOUS
    <3>2. w \in Virtual /\ w # v
      BY <1>10, <3>1, LowVirtual
    <3>3. Walk(U, r, w) = Walk(T, r, w)
      BY <1>7, <3>2
    <3> QED BY <2>1, <3>1, <3>3
  <2> QED BY <2>1, ReachSame
<1>11. v[1] # 0 => StillReached(T, U, r, oth)
  BY <1>7, <1>10 DEF Reached, StillReached
<1>12. Midway(u, r, oth)
  BY <1>4, <1>7, <1>8, <1>9 DEF Midway, Good
<1> QED
  BY <1>1, <1>4, <1>7, <1>11, <1>12

(* What setup_kernel_mappings and map_page do for an address v.            *)
Install(s, r, v, f, e) ==
  LET s1 == NextTable(s, r, v[1], f)
      s2 == NextTable(s1, s1.at, v[2], f)
  IN  SetEntry(s2, v[3], e)

(* There are two free pages, the next to be taken, that can be reached.    *)
TwoPages(m, T, r) ==
  \E i, j \in FreePages(m) :
    /\ i < j /\ \A k \in FreePages(m) : k <= j => k \in {i, j}
    /\ \A k \in {i, j} : Reaches(T, r, PageAddr(k))

(* The first free page is the least.                                       *)
LEMMA FirstFreeLeast ==
  ASSUME NEW m \in MemType, FreePages(m) # {}
  PROVE  FirstFree(m) \in FreePages(m) /\ \A j \in FreePages(m) : FirstFree(m) <= j
<1>1. FreePages(m) \subseteq Nat
  BY DEF FreePages, Pages, MemType
<1>2. \E i \in FreePages(m) : \A j \in FreePages(m) : i <= j
  BY <1>1, LeastNat, Zenon
<1> QED
  BY <1>2, Zenon DEF FirstFree

(* Either the translation of v becomes the one asked for, or a page was    *)
(* missing or out of reach and no translation changes.                     *)
LEMMA InstallEffect ==
  ASSUME NEW s, NEW r, NEW oth, Midway(s, r, oth), s.status = "ok", r # BOOT_PML4,
         cr3 \in {BOOT_PML4, r},
         NEW v \in Virtual, NEW f \in SUBSET FLAGS, "PRESENT" \in f,
         NEW e \in EntryType, Leaf(e) \in Allowed(v),
         NEW u, u = Install(s, r, v, f, e)
  PROVE  /\ Midway(u, r, oth)
         /\ v[1] # 0 => StillReached(s.tables, u.tables, r, oth)
         /\ \A w \in Virtual : Walk(u.tables, r, w) =
              IF u.status = "ok" /\ w = v THEN Leaf(e) ELSE Walk(s.tables, r, w)
         /\ TwoPages(s.m, s.tables, r) => u.status = "ok"
<1>0. v \in Virtual /\ v[1] \in INDEXES /\ v[2] \in INDEXES /\ v[3] \in INDEXES
  BY VirtualIndices
<1>1. PICK s1 : s1 = NextTable(s, r, v[1], f)
  OBVIOUS
<1>2. PICK s2 : s2 = NextTable(s1, s1.at, v[2], f)
  OBVIOUS
<1>3. u = SetEntry(s2, v[3], e)
  BY <1>1, <1>2 DEF Install
<1>4. /\ Midway(s1, r, oth) /\ Kept(s.tables, s1.tables, r)
      /\ StillReached(s.tables, s1.tables, r, oth)
      /\ s1.status = "ok" =>
           <<r, v[1]>> \in Links(s1.tables, r) /\ s1.tables[r][v[1]].addr = s1.at
      /\ (FreePages(s.m) # {} /\ Reaches(s.tables, r, PageAddr(FirstFree(s.m)))) =>
           /\ s1.status = "ok"
           /\ FreePages(s1.m) \in {FreePages(s.m), FreePages(s.m) \ {FirstFree(s.m)}}
  <2>1. r \in {r} \cup Children(s.tables, r)
    OBVIOUS
  <2> QED BY <1>0, <1>1, <2>1, NextTableEffect
<1>5. ASSUME s1.status = "ok"
      PROVE  /\ Midway(s2, r, oth) /\ Kept(s1.tables, s2.tables, r)
             /\ StillReached(s1.tables, s2.tables, r, oth)
             /\ s2.status = "ok" => PathTo(s2.tables, r, v, s1.at, s2.at)
             /\ (FreePages(s1.m) # {} /\ Reaches(s1.tables, r, PageAddr(FirstFree(s1.m)))) =>
                  s2.status = "ok"
  <2>1. s1.at \in {r} \cup Children(s1.tables, r)
    BY <1>0, <1>4, <1>5, LinkOf, ChildOf
  <2>2. /\ Midway(s2, r, oth) /\ Kept(s1.tables, s2.tables, r)
        /\ StillReached(s1.tables, s2.tables, r, oth)
        /\ s2.status = "ok" =>
             <<s1.at, v[2]>> \in Links(s2.tables, r) /\ s2.tables[s1.at][v[2]].addr = s2.at
        /\ (FreePages(s1.m) # {} /\ Reaches(s1.tables, r, PageAddr(FirstFree(s1.m)))) =>
             s2.status = "ok"
    <3>1. PICK t, x : t = s1.at /\ x = v[2]
      OBVIOUS
    <3>2. /\ Midway(s1, r, oth) /\ s1.status = "ok" /\ t \in {r} \cup Children(s1.tables, r)
          /\ x \in INDEXES /\ s2 = NextTable(s1, t, x, f)
      BY <1>0, <1>2, <1>4, <1>5, <2>1, <3>1
    <3>3. /\ Midway(s2, r, oth) /\ Kept(s1.tables, s2.tables, r)
          /\ StillReached(s1.tables, s2.tables, r, oth)
          /\ s2.status = "ok" => <<t, x>> \in Links(s2.tables, r) /\ s2.tables[t][x].addr = s2.at
          /\ (FreePages(s1.m) # {} /\ Reaches(s1.tables, r, PageAddr(FirstFree(s1.m)))) =>
               s2.status = "ok"
      BY <3>2, NextTableEffect
    <3> QED BY <3>1, <3>3
  <2>3. <<r, v[1]>> \in Links(s2.tables, r) /\ s2.tables[r][v[1]].addr = s1.at
    <3>1. PICK l : l = <<r, v[1]>>
      OBVIOUS
    <3>2. l[1] = r /\ l[2] = v[1] /\ l \in Links(s1.tables, r)
      BY <1>4, <1>5, <3>1
    <3>3. l \in Links(s2.tables, r) /\ s2.tables[l[1]][l[2]] = s1.tables[l[1]][l[2]]
      BY <2>2, <3>2 DEF Kept
    <3> QED BY <1>4, <1>5, <3>1, <3>2, <3>3
  <2>4. s2.status = "ok" => PathTo(s2.tables, r, v, s1.at, s2.at)
    BY <1>0, <2>2, <2>3, LinkOf DEF PathTo
  <2> QED BY <2>2, <2>4
<1>6. CASE s1.status # "ok"
  <2>1. u = s1
    BY <1>2, <1>3, <1>6 DEF NextTable, SetEntry
  <2>2. ~TwoPages(s.m, s.tables, r)
    <3> SUFFICES ASSUME TwoPages(s.m, s.tables, r) PROVE FALSE
      OBVIOUS
    <3>1. PICK i, j \in FreePages(s.m) :
            /\ i < j /\ \A k \in FreePages(s.m) : k <= j => k \in {i, j}
            /\ \A k \in {i, j} : Reaches(s.tables, r, PageAddr(k))
      BY DEF TwoPages
    <3>2. s.m \in MemType
      BY DEF Midway, Good, Owned, Consistent
    <3>3. FirstFree(s.m) \in FreePages(s.m) /\ FirstFree(s.m) <= j
      BY <3>1, <3>2, FirstFreeLeast
    <3>4. Reaches(s.tables, r, PageAddr(FirstFree(s.m)))
      BY <3>1, <3>3
    <3> QED BY <1>4, <1>6, <3>1, <3>4
  <2> QED BY <1>4, <1>6, <2>1, <2>2 DEF Kept
<1>7. CASE s1.status = "ok" /\ s2.status # "ok"
  <2>1. u = s2
    BY <1>3, <1>7 DEF SetEntry
  <2>2. Midway(s2, r, oth) /\ Kept(s.tables, s2.tables, r)
    BY <1>4, <1>5, <1>7, KeptTransitive
  <2>3. ~TwoPages(s.m, s.tables, r)
    <3> SUFFICES ASSUME TwoPages(s.m, s.tables, r) PROVE FALSE
      OBVIOUS
    <3>1. PICK i, j \in FreePages(s.m) :
            /\ i < j /\ \A k \in FreePages(s.m) : k <= j => k \in {i, j}
            /\ \A k \in {i, j} : Reaches(s.tables, r, PageAddr(k))
      BY DEF TwoPages
    <3>2. s.m \in MemType /\ s1.m \in MemType
      BY <1>4 DEF Midway, Good, Owned, Consistent
    <3>3. FreePages(s.m) \subseteq Nat
      BY <3>2 DEF FreePages, Pages, MemType
    <3>4. FirstFree(s.m) \in FreePages(s.m) /\ FirstFree(s.m) <= i /\ FirstFree(s.m) <= j
      BY <3>1, <3>2, FirstFreeLeast
    <3>5. FirstFree(s.m) = i
      BY <3>1, <3>3, <3>4
    <3>6. FreePages(s1.m) \in {FreePages(s.m), FreePages(s.m) \ {i}}
      BY <1>4, <3>1, <3>5
    <3>7. j \in FreePages(s1.m) /\ FreePages(s1.m) \subseteq FreePages(s.m)
      BY <3>1, <3>3, <3>6
    <3>8. FirstFree(s1.m) \in FreePages(s.m) /\ FirstFree(s1.m) <= j
      BY <3>2, <3>7, FirstFreeLeast
    <3>9. Reaches(s.tables, r, PageAddr(FirstFree(s1.m)))
      BY <3>1, <3>8
    <3>10. Reaches(s1.tables, r, PageAddr(FirstFree(s1.m)))
      <4>1. \A n \in INDEXES : Walk(s1.tables, r, <<0, 0, n>>) = Walk(s.tables, r, <<0, 0, n>>)
        BY <1>4, LowVirtual DEF Kept
      <4> QED BY <3>9, <4>1, ReachSame
    <3> QED BY <1>5, <1>7, <3>7, <3>10
  <2>4. StillReached(s.tables, s2.tables, r, oth)
    BY <1>4, <1>5, <1>7 DEF StillReached
  <2> QED BY <1>7, <2>1, <2>2, <2>3, <2>4 DEF Kept
<1>8. CASE s1.status = "ok" /\ s2.status = "ok"
  <2>1. Midway(s2, r, oth) /\ PathTo(s2.tables, r, v, s1.at, s2.at)
    BY <1>5, <1>8
  <2>2. /\ Midway(u, r, oth) /\ u.status = "ok"
        /\ v[1] # 0 => StillReached(s2.tables, u.tables, r, oth)
        /\ \A w \in Virtual :
             Walk(u.tables, r, w) = IF w = v THEN Leaf(e) ELSE Walk(s2.tables, r, w)
    <3>1. PICK a : a = s1.at
      OBVIOUS
    <3>2. s2.status = "ok" /\ PathTo(s2.tables, r, v, a, s2.at)
      BY <1>8, <2>1, <3>1
    <3> QED BY <1>3, <2>1, <3>2, SetEntryEffect
  <2>3. Kept(s.tables, s2.tables, r)
    BY <1>4, <1>5, <1>8, KeptTransitive
  <2>4. StillReached(s.tables, s2.tables, r, oth)
    BY <1>4, <1>5, <1>8 DEF StillReached
  <2> QED BY <2>2, <2>3, <2>4 DEF Kept, StillReached
<1> QED
  BY <1>6, <1>7, <1>8

---------------------------------------------------------------------------
(* The kernel's PML4 is a copy of boot's.                                  *)

Copied(T, U, p) == U = Written(T, p, copy_boot_mappings(T, BOOT_PML4))

(* Under it the tables and the translations are the same.                  *)
LEMMA CopyEffect ==
  ASSUME NEW m, NEW T, NEW oth, Good(m, T, BOOT_PML4, oth), NoneLost(m, T, BOOT_PML4, oth),
         NEW g, g = get_physical_page(m), NEW p, p = g.ret, p # NULL,
         Reached(T, BOOT_PML4, oth), Reaches(T, BOOT_PML4, p),
         NEW U, Copied(T, U, p)
  PROVE  /\ p # BOOT_PML4 /\ p \in Nat /\ p >= memory_start
         /\ Good(g.m, U, p, oth) /\ NoneLost(g.m, U, p, oth) /\ Reached(U, p, oth)
         /\ \A v \in Virtual : Walk(U, p, v) = Walk(T, BOOT_PML4, v)
<1> DEFINE B == BOOT_PML4
<1>1. /\ Shape(T, B) /\ Owned(m, T, B, oth) /\ Agrees(T, B)
      /\ Typed(T) /\ Tree(T, B) /\ LowPath(T, B)
  BY DEF Good, Shape
<1>2. /\ p \in Nat /\ p % PAGE_SIZE = 0 /\ p >= memory_start
      /\ p \notin BootTables /\ p \notin TablesUnder(T, B) /\ p \notin oth
      /\ Consistent(g.m) /\ UsedFrames(g.m) = UsedFrames(m) \cup {p}
  BY <1>1, FreshPage
<1>3. /\ Present(T[B][0]) /\ T[B][0].addr = BOOT_PDPT
      /\ \A i \in INDEXES : i # 0 => ~Present(T[B][i])
      /\ Children(T, B) = {BOOT_PDPT}
  BY <1>1, BootEntries
<1>4. /\ DOMAIN U = DOMAIN T \cup {p} /\ U[p] = copy_boot_mappings(T, B)
      /\ \A q \in DOMAIN T \ {p} : U[q] = T[q]
  BY DEF Written, Copied
<1>5. \A i \in INDEXES : U[p][i] = IF i = 0 THEN T[B][0] ELSE Entry(0, {})
  BY <1>3, <1>4 DEF copy_boot_mappings
<1>6. /\ Present(U[p][0]) /\ U[p][0].addr = BOOT_PDPT
      /\ \A i \in INDEXES : i # 0 => ~Present(U[p][i])
  BY <1>3, <1>5, Constants DEF Present, Entry
<1>7. Children(U, p) = {BOOT_PDPT}
  BY <1>6, ChildOf, Constants
<1>8. /\ B \in DOMAIN T \ {p} /\ BOOT_PDPT \in DOMAIN T \ {p} /\ BOOT_PD \in DOMAIN T \ {p}
      /\ U[B] = T[B] /\ U[BOOT_PDPT] = T[BOOT_PDPT] /\ U[BOOT_PD] = T[BOOT_PD]
  BY <1>1, <1>2, <1>4 DEF Typed, BootTables
<1>9. Typed(U)
  <2>1. T[B] \in [INDEXES -> EntryType] /\ Entry(0, {}) \in EntryType
    BY <1>1, <1>8 DEF Typed, Entry, EntryType
  <2>2. copy_boot_mappings(T, B) \in [INDEXES -> EntryType]
    BY <2>1 DEF copy_boot_mappings
  <2> QED BY <1>1, <1>2, <1>4, <2>2 DEF Typed
<1>10. /\ <<B, 0>> \in Links(T, B) /\ Target(T, <<B, 0>>) = BOOT_PDPT
       /\ <<p, 0>> \in Links(U, p) /\ Target(U, <<p, 0>>) = BOOT_PDPT
  <2>1. 0 \in INDEXES
    BY Constants
  <2>2. <<B, 0>> \in Links(T, B) /\ Target(T, <<B, 0>>) = BOOT_PDPT
    BY <1>3, <2>1, LinkOf
  <2>3. <<p, 0>> \in Links(U, p) /\ Target(U, <<p, 0>>) = BOOT_PDPT
    BY <1>6, <2>1, LinkOf
  <2> QED BY <2>2, <2>3
<1>11. \A l \in Links(U, p) :
         l = <<p, 0>> \/ (l \in Links(T, B) /\ l[1] = BOOT_PDPT /\ Target(U, l) = Target(T, l))
  <2> SUFFICES ASSUME NEW l \in Links(U, p), l # <<p, 0>>
               PROVE  l \in Links(T, B) /\ l[1] = BOOT_PDPT /\ Target(U, l) = Target(T, l)
    OBVIOUS
  <2>1. /\ l = <<l[1], l[2]>> /\ l[1] \in {p, BOOT_PDPT} /\ l[2] \in INDEXES
        /\ Present(U[l[1]][l[2]])
    BY <1>7, LinkParts
  <2>2. l[1] = BOOT_PDPT
    BY <1>6, <2>1
  <2>3. Present(T[l[1]][l[2]])
    BY <1>8, <2>1, <2>2
  <2>4. <<l[1], l[2]>> \in Links(T, B)
    BY <1>3, <2>1, <2>2, <2>3, LinkOf
  <2> QED BY <1>8, <2>1, <2>2, <2>4 DEF Target
<1>12. \A l \in Links(T, B) :
         l = <<B, 0>> \/ (l \in Links(U, p) /\ Target(U, l) = Target(T, l))
  <2> SUFFICES ASSUME NEW l \in Links(T, B), l # <<B, 0>>
               PROVE  l \in Links(U, p) /\ Target(U, l) = Target(T, l)
    OBVIOUS
  <2>1. /\ l = <<l[1], l[2]>> /\ l[1] \in {B, BOOT_PDPT} /\ l[2] \in INDEXES
        /\ Present(T[l[1]][l[2]])
    BY <1>3, LinkParts
  <2>2. l[1] = BOOT_PDPT
    BY <1>3, <2>1
  <2>3. Present(U[l[1]][l[2]])
    BY <1>8, <2>1, <2>2
  <2>4. <<l[1], l[2]>> \in Links(U, p)
    BY <1>7, <2>1, <2>2, <2>3, LinkOf
  <2> QED BY <1>8, <2>1, <2>2, <2>4 DEF Target
<1>13. Tree(U, p)
  <2>1. \A l \in Links(T, B) : Target(T, l) \in DOMAIN T \ {B} /\ Target(T, l) # p
    BY <1>1, <1>2, LinkParts DEF Tree
  <2>2. \A l \in Links(U, p) : Target(U, l) \in DOMAIN U \ {p, B}
    BY <1>4, <1>8, <1>10, <1>11, <2>1, Constants
  <2>3. ASSUME NEW l \in Links(T, B), l[1] = BOOT_PDPT, Target(T, l) = BOOT_PDPT PROVE FALSE
    <3>1. l = <<B, 0>>
      BY <1>1, <1>10, <2>3 DEF Tree
    <3> QED BY <2>3, <3>1, Constants
  <2>4. \A k, l \in Links(U, p) : Target(U, k) = Target(U, l) => k = l
    BY <1>1, <1>10, <1>11, <2>3 DEF Tree
  <2> QED BY <1>4, <2>2, <2>4 DEF Tree
<1>14. LowPath(U, p)
  BY <1>1, <1>5, <1>8, Constants DEF LowPath
<1>15. Shape(U, p)
  BY <1>9, <1>13, <1>14 DEF Shape
<1>16. TablesUnder(U, p) \subseteq {p} \cup TablesUnder(T, B)
  <2> SUFFICES ASSUME NEW l \in Links(U, p) PROVE Target(U, l) \in TablesUnder(T, B)
    BY DEF TablesUnder
  <2> QED BY <1>10, <1>11, LinkParts
<1>17. TablesUnder(T, B) \subseteq {B} \cup TablesUnder(U, p)
  <2> SUFFICES ASSUME NEW l \in Links(T, B) PROVE Target(T, l) \in TablesUnder(U, p)
    BY DEF TablesUnder
  <2> QED BY <1>10, <1>12, LinkParts
<1>18. Owned(g.m, U, p, oth)
  BY <1>1, <1>2, <1>16 DEF Owned
<1>19. NoneLost(g.m, U, p, oth)
  <2>1. m \in MemType
    BY <1>1 DEF Owned, Consistent
  <2>2. B \notin UsedFrames(m)
    <3>1. \A x \in UsedFrames(m) : x \in Nat /\ x >= memory_start
      BY <2>1, UsedFrameIndex
    <3>2. B \in Nat /\ B < memory_start /\ memory_start \in Nat
      BY SMT DEF BOOT_PML4, memory_start
    <3> QED BY <3>1, <3>2
  <2>3. p \in TablesUnder(U, p)
    BY DEF TablesUnder
  <2> QED BY <1>2, <1>17, <2>2, <2>3 DEF NoneLost
<1>20. ASSUME NEW v \in Virtual PROVE Walk(U, p, v) = Walk(T, B, v)
  <2>0. v[1] \in INDEXES /\ v[2] \in INDEXES /\ v[3] \in INDEXES
    BY VirtualIndices
  <2>1. CASE v[1] # 0
    <3>1. ~Present(U[p][v[1]]) /\ ~Present(T[B][v[1]])
      BY <1>3, <1>6, <2>0, <2>1
    <3> QED BY <3>1, WalkLevels
  <2>2. CASE v[1] = 0 /\ ~Present(T[BOOT_PDPT][v[2]])
    <3>1. ~Present(U[U[p][v[1]].addr][v[2]]) /\ ~Present(T[T[B][v[1]].addr][v[2]])
      BY <1>3, <1>6, <1>8, <2>2
    <3> QED BY <3>1, WalkLevels
  <2>3. CASE v[1] = 0 /\ Present(T[BOOT_PDPT][v[2]])
    <3>1. PICK d : d = T[BOOT_PDPT][v[2]].addr
      OBVIOUS
    <3>2. PathTo(T, B, v, BOOT_PDPT, d) /\ PathTo(U, p, v, BOOT_PDPT, d)
      BY <1>3, <1>6, <1>8, <2>3, <3>1 DEF PathTo
    <3>3. <<BOOT_PDPT, v[2]>> \in Links(T, B) /\ Target(T, <<BOOT_PDPT, v[2]>>) = d
      BY <1>3, <2>0, <2>3, <3>1, LinkOf
    <3>4. d \in DOMAIN T /\ d # p
      BY <1>1, <1>2, <3>3, LinkParts DEF Tree
    <3>5. U[d] = T[d]
      BY <1>4, <3>4
    <3>6. Walk(T, B, v) = Leaf(T[d][v[3]]) /\ Walk(U, p, v) = Leaf(U[d][v[3]])
      BY <3>2, WalkTo
    <3> QED BY <3>5, <3>6
  <2> QED BY <2>1, <2>2, <2>3
<1>21. Agrees(U, p)
  BY <1>1, <1>20 DEF Agrees
<1>22. \A q : Reaches(T, B, q) => Reaches(U, p, q)
  BY <1>20, LowVirtual, ReachSame
<1>23. Reached(U, p, oth)
  BY <1>16, <1>22 DEF Reached
<1>24. p # B
  BY <1>2 DEF BootTables
<1> QED
  BY <1>2, <1>15, <1>18, <1>19, <1>20, <1>21, <1>23, <1>24 DEF Good

---------------------------------------------------------------------------
(* What boot.asm leaves.                                                   *)

(* The tables of boot.asm are a tree of three tables that maps one large   *)
(* page, whatever the entries hold that are not written.                   *)
LEMMA BootTreeGood ==
  ASSUME NEW left \in LEFTOVERS, NEW T, T = BootTree(left),
         NEW e \in MEMORY_ENDS, NEW m, m = Init_Memory(BootMemory, e)
  PROVE  /\ Good(m, T, BOOT_PML4, {}) /\ NoneLost(m, T, BOOT_PML4, {})
         /\ Reached(T, BOOT_PML4, {})
         /\ \A i \in INDEXES \ {0} : ~Present(T[BOOT_PD][i])
         /\ \A v \in Virtual :
              Walk(T, BOOT_PML4, v) = IF v = KERNEL_CODE THEN 0 ELSE Unmapped
<1> DEFINE B == BOOT_PML4
           PW == {"PRESENT", "WRITABLE"}
<1>1. /\ DOMAIN T = BootTables /\ T[B] = BootTable(Entry(0, {}), BOOT_PDPT)
      /\ T[BOOT_PDPT] = BootTable(left, BOOT_PD) /\ T[BOOT_PD] = BootTable(left, BOOT_PT)
  BY Constants DEF BootTree
<1>2. left \in EntryType /\ ~Present(left)
  <2>1. left \in [addr : Nat, flags : SUBSET (FLAGS \ {"PRESENT"})]
    BY LeftoverAssumption
  <2> QED BY <2>1 DEF EntryType, Present
<1>3. \A rest, first : \A i \in INDEXES :
        BootTable(rest, first)[i] = IF i = 0 THEN Entry(first, PW) ELSE rest
  BY DEF BootTable
<1>4. \A x : Present(Entry(x, PW)) /\ ~Present(Entry(x, {})) /\ Entry(x, PW).addr = x
  BY DEF Present, Entry
<1>5. /\ \A rest \in EntryType : \A first \in Nat : BootTable(rest, first) \in [INDEXES -> EntryType]
      /\ Entry(0, {}) \in EntryType
  <2>1. \A first \in Nat : Entry(first, PW) \in EntryType
    BY DEF Entry, EntryType, FLAGS
  <2>2. Entry(0, {}) \in EntryType
    BY DEF Entry, EntryType
  <2> QED BY <2>1, <2>2 DEF BootTable
<1>6. Typed(T)
  <2>1. BOOT_PDPT \in Nat /\ BOOT_PD \in Nat /\ BOOT_PT \in Nat
    BY SMT DEF BOOT_PDPT, BOOT_PD, BOOT_PT
  <2>2. /\ T[B] \in [INDEXES -> EntryType] /\ T[BOOT_PDPT] \in [INDEXES -> EntryType]
        /\ T[BOOT_PD] \in [INDEXES -> EntryType]
    BY <1>1, <1>2, <1>5, <2>1
  <2>3. \A t \in BootTables : t = B \/ t = BOOT_PDPT \/ t = BOOT_PD
    BY DEF BootTables
  <2>4. \A t \in BootTables : T[t] \in [INDEXES -> EntryType]
    BY <2>2, <2>3
  <2> QED BY <1>1, <2>4, Constants DEF Typed
<1>7. /\ \A i \in INDEXES : (Present(T[B][i]) <=> i = 0)
      /\ \A i \in INDEXES : (Present(T[BOOT_PDPT][i]) <=> i = 0)
      /\ \A i \in INDEXES : (Present(T[BOOT_PD][i]) <=> i = 0)
      /\ T[B][0].addr = BOOT_PDPT /\ T[BOOT_PDPT][0].addr = BOOT_PD
  BY <1>1, <1>2, <1>3, <1>4, Constants
<1>8. Children(T, B) = {BOOT_PDPT}
  BY <1>7, ChildOf, Constants
<1>9. \A l \in Links(T, B) : \/ l = <<B, 0>> /\ Target(T, l) = BOOT_PDPT
                             \/ l = <<BOOT_PDPT, 0>> /\ Target(T, l) = BOOT_PD
  <2> SUFFICES ASSUME NEW l \in Links(T, B)
               PROVE  \/ l = <<B, 0>> /\ Target(T, l) = BOOT_PDPT
                      \/ l = <<BOOT_PDPT, 0>> /\ Target(T, l) = BOOT_PD
    OBVIOUS
  <2>1. /\ l = <<l[1], l[2]>> /\ l[1] \in {B, BOOT_PDPT} /\ l[2] \in INDEXES
        /\ Present(T[l[1]][l[2]]) /\ Target(T, l) = T[l[1]][l[2]].addr
    BY <1>8, LinkParts
  <2>2. l[2] = 0
    BY <1>7, <2>1
  <2> QED BY <1>7, <2>1, <2>2
<1>10. Tree(T, B)
  <2>1. \A l \in Links(T, B) : Target(T, l) \in DOMAIN T \ {B}
    BY <1>1, <1>9, Constants
  <2>2. \A k, l \in Links(T, B) : Target(T, k) = Target(T, l) => k = l
    BY <1>9, Constants
  <2>3. B \in DOMAIN T
    BY <1>1 DEF BootTables
  <2> QED BY <2>1, <2>2, <2>3 DEF Tree
<1>11. LowPath(T, B)
  BY <1>1, <1>3, Constants DEF LowPath
<1>12. Shape(T, B)
  BY <1>6, <1>10, <1>11 DEF Shape
<1>13. TablesUnder(T, B) \subseteq BootTables
  BY <1>9 DEF TablesUnder, BootTables
<1>14. Consistent(m) /\ UsedFrames(m) = {}
  <2>1. e \in Nat /\ e > memory_start /\ (e - 1) \div 65536 < 65536
    BY PagingAssumption
  <2> QED BY <2>1, InitMemoryConsistent
<1>15. Owned(m, T, B, {}) /\ NoneLost(m, T, B, {})
  BY <1>13, <1>14 DEF Owned, NoneLost
<1>17. ASSUME NEW v \in Virtual
       PROVE  Walk(T, B, v) = IF v = KERNEL_CODE THEN 0 ELSE Unmapped
  <2>0. /\ v[1] \in INDEXES /\ v[2] \in INDEXES /\ v[3] \in INDEXES
        /\ v = <<v[1], v[2], v[3]>>
    BY VirtualIndices
  <2>1. CASE v[1] # 0
    <3>1. ~Present(T[B][v[1]]) /\ v # KERNEL_CODE
      BY <1>7, <2>0, <2>1 DEF KERNEL_CODE
    <3>2. Walk(T, B, v) = Unmapped
      BY <3>1 DEF Walk
    <3> QED BY <3>1, <3>2
  <2>2. CASE v[1] = 0 /\ v[2] # 0
    <3>1. ~Present(T[T[B][v[1]].addr][v[2]]) /\ v # KERNEL_CODE
      BY <1>7, <2>0, <2>2 DEF KERNEL_CODE
    <3>2. Walk(T, B, v) = Unmapped
      BY <3>1 DEF Walk
    <3> QED BY <3>1, <3>2
  <2>3. CASE v[1] = 0 /\ v[2] = 0
    <3>1. PathTo(T, B, v, BOOT_PDPT, BOOT_PD)
      BY <1>7, <2>3, Constants DEF PathTo
    <3>2. Walk(T, B, v) = Leaf(T[BOOT_PD][v[3]])
      BY <3>1, WalkTo
    <3>3. v = KERNEL_CODE <=> v[3] = 0
      BY <2>0, <2>3 DEF KERNEL_CODE
    <3>4. Leaf(T[BOOT_PD][0]) = 0
      <4>1. T[BOOT_PD][0] = Entry(BOOT_PT, PW)
        BY <1>1, <1>3, Constants
      <4>2. Present(Entry(BOOT_PT, PW)) /\ "HUGE" \notin Entry(BOOT_PT, PW).flags
        BY DEF Present, Entry
      <4> QED BY <4>1, <4>2 DEF Leaf
    <3>5. v[3] # 0 => Leaf(T[BOOT_PD][v[3]]) = Unmapped
      BY <1>7, <2>0 DEF Leaf
    <3> QED BY <3>2, <3>3, <3>4, <3>5
  <2> QED BY <2>1, <2>2, <2>3
<1>18. Agrees(T, B)
  <2>1. get_physical_address(KERNEL_CODE) = 0
    <3>1. get_physical_address(<<0, 0, 0>>) = 0 * LARGE_PAGE
      BY LowVirtual, Constants
    <3> QED BY <3>1, Constants DEF KERNEL_CODE
  <2> QED BY <1>17, <2>1 DEF Agrees, Allowed
<1>19. Reached(T, B, {})
  <2>1. KERNEL_CODE \in Virtual
    BY Constants DEF KERNEL_CODE, Virtual
  <2>2. Walk(T, B, KERNEL_CODE) = 0
    BY <1>17, <2>1
  <2> QED BY <1>13, <2>2, BootLow, LowReached DEF Reached
<1> QED
  BY <1>7, <1>12, <1>15, <1>17, <1>18, <1>19 DEF Good

(* The first states satisfy the invariant.                                 *)
LEMMA InitGood ==
  ASSUME Init
  PROVE  /\ PagingInv
         /\ \A v \in Virtual : Walk(tables, cr3, v) = IF v = KERNEL_CODE THEN 0 ELSE Unmapped
<1>1. PICK e \in MEMORY_ENDS : mm = Init_Memory(BootMemory, e)
  BY DEF Init
<1>2. PICK left \in LEFTOVERS : tables = BootTree(left)
  BY DEF Init
<1>3. /\ Good(mm, tables, BOOT_PML4, {}) /\ NoneLost(mm, tables, BOOT_PML4, {})
      /\ Reached(tables, BOOT_PML4, {})
      /\ \A i \in INDEXES \ {0} : ~Present(tables[BOOT_PD][i])
      /\ \A v \in Virtual :
           Walk(tables, BOOT_PML4, v) = IF v = KERNEL_CODE THEN 0 ELSE Unmapped
  BY <1>1, <1>2, BootTreeGood
<1>4. kernel_pml4 = NULL /\ cr3 = BOOT_PML4 /\ cpu = "running" /\ others = {}
  BY DEF Init
<1>5. Root = BOOT_PML4
  BY <1>4 DEF Root
<1> QED
  BY <1>3, <1>4, <1>5 DEF PagingInv, OnlyFirst

---------------------------------------------------------------------------
(* The actions.                                                            *)

(* All translations but that of v stay, and v now has y.                   *)
Moved(T, r, U, q, v, y) ==
  \A w \in Virtual : Walk(U, q, w) = IF w = v THEN y ELSE Walk(T, r, w)

Unmoved(T, r, U, q) == \A w \in Virtual : Walk(U, q, w) = Walk(T, r, w)

KernelEntry == Entry(0, {"PRESENT", "WRITABLE", "HUGE", "GLOBAL"})

(* The entry of setup_kernel_mappings is one that agrees with              *)
(* get_physical_address.                                                   *)
LEMMA KernelEntryFacts ==
  /\ KERNEL_VIRTUAL_BASE \in Virtual \ {KERNEL_CODE} /\ KERNEL_VIRTUAL_BASE[1] # 0
  /\ KernelEntry \in EntryType /\ Leaf(KernelEntry) = 0
  /\ get_physical_address(KERNEL_VIRTUAL_BASE) = 0
<1>1. KERNEL_VIRTUAL_BASE \in Virtual \ {KERNEL_CODE} /\ KERNEL_VIRTUAL_BASE[1] # 0
  BY Constants DEF KERNEL_VIRTUAL_BASE, KERNEL_CODE, Virtual
<1>2. KernelEntry \in EntryType /\ Leaf(KernelEntry) = 0
  BY DEF KernelEntry, Entry, EntryType, Leaf, Present, FLAGS
<1>3. get_physical_address(KERNEL_VIRTUAL_BASE) = (512 * (510 - 510) + 0) * LARGE_PAGE
  BY SMT DEF get_physical_address, KERNEL_VIRTUAL_BASE
<1>4. 512 * (510 - 510) + 0 = 0
  BY SMT
<1>5. 0 * LARGE_PAGE = 0
  BY Constants
<1> QED
  BY <1>1, <1>2, <1>3, <1>4, <1>5

(* setup_kernel_mappings on a PML4 r.                                      *)
LEMMA SetupEffect ==
  ASSUME NEW m, NEW T, NEW r, NEW oth, Good(m, T, r, oth), NoneLost(m, T, r, oth),
         Reached(T, r, oth), r # BOOT_PML4, cr3 \in {BOOT_PML4, r},
         NEW u, u = setup_kernel_mappings(Enter(m, T, r), r)
  PROVE  /\ Midway(u, r, oth) /\ Reached(u.tables, r, oth)
         /\ u.status = "ok" => Moved(T, r, u.tables, r, KERNEL_VIRTUAL_BASE, 0)
         /\ u.status # "ok" => Unmoved(T, r, u.tables, r)
<1>1. PICK s, v, f, e : /\ s = Enter(m, T, r) /\ v = KERNEL_VIRTUAL_BASE
                        /\ f = {"PRESENT", "WRITABLE"} /\ e = KernelEntry
  OBVIOUS
<1>2. s = [m |-> m, tables |-> T, at |-> r, status |-> "ok"]
  BY <1>1 DEF Enter
<1>3. IsCall(s) /\ s.m = m /\ s.tables = T /\ s.status = "ok"
  BY <1>2 DEF IsCall
<1>4. Midway(s, r, oth)
  BY <1>3 DEF Midway
<1>5. u = Install(s, r, v, f, e)
  BY <1>1 DEF setup_kernel_mappings, Install, KernelEntry
<1>6. /\ v \in Virtual /\ v[1] # 0 /\ e \in EntryType /\ Leaf(e) = 0
      /\ Leaf(e) \in Allowed(v)
  BY <1>1, KernelEntryFacts DEF Allowed
<1>7. f \in SUBSET FLAGS /\ "PRESENT" \in f
  BY <1>1 DEF FLAGS
<1>8. /\ Midway(u, r, oth) /\ StillReached(s.tables, u.tables, r, oth)
      /\ \A w \in Virtual : Walk(u.tables, r, w) =
           IF u.status = "ok" /\ w = v THEN Leaf(e) ELSE Walk(s.tables, r, w)
  BY <1>3, <1>4, <1>5, <1>6, <1>7, InstallEffect
<1> QED
  BY <1>1, <1>3, <1>6, <1>8 DEF Moved, Unmoved, StillReached

(* Before there is a PML4 of the kernel a page that is reached lies in the *)
(* first large page.                                                       *)
LEMMA ReachedIsLow ==
  ASSUME Shape(tables, BOOT_PML4), OnlyFirst, NEW p \in Nat, Reaches(tables, BOOT_PML4, p)
  PROVE  p < LARGE_PAGE
<1>1. PICK n : n = p \div LARGE_PAGE
  OBVIOUS
<1>2. n \in INDEXES /\ Walk(tables, BOOT_PML4, <<0, 0, n>>) = n * LARGE_PAGE
  BY <1>1 DEF Reaches
<1>3. n = 0
  <2> SUFFICES ASSUME n # 0 PROVE FALSE
    OBVIOUS
  <2>1. ~Present(tables[BOOT_PD][n])
    BY <1>2 DEF OnlyFirst
  <2>2. PICK v : v = <<0, 0, n>>
    OBVIOUS
  <2>3. v[1] = 0 /\ v[2] = 0 /\ v[3] = n
    BY <2>2
  <2>4. PathTo(tables, BOOT_PML4, v, BOOT_PDPT, BOOT_PD)
    BY <2>3, BootEntries DEF PathTo, Shape
  <2>5. Walk(tables, BOOT_PML4, v) = Leaf(tables[BOOT_PD][n])
    BY <2>3, <2>4, WalkTo
  <2>6. Walk(tables, BOOT_PML4, v) = Unmapped
    BY <2>1, <2>5 DEF Leaf
  <2>7. n * LARGE_PAGE \in Nat
    BY <1>2, Constants
  <2> QED BY <1>2, <2>2, <2>6, <2>7 DEF Unmapped
<1> QED
  BY <1>1, <1>3, LargePages

(* What a finished call leaves is the invariant again.                     *)
LEMMA CallLeaves ==
  ASSUME NEW u, NEW r, Midway(u, r, others), r # NULL, InKernelRange(r),
         kernel_pml4' = r, others' = others, mm' = u.m, tables' = u.tables,
         cr3' \in {BOOT_PML4, r}, u.status # "lost" => cr3' = r,
         cpu' \in {"running", "lost"},
         cpu' = "running" => u.status # "lost" /\ Reached(u.tables, r, others)
  PROVE  PagingInv'
<1>1. Root' = r
  BY DEF Root
<1>2. /\ Good(u.m, u.tables, r, others)
      /\ u.status # "lost" => NoneLost(u.m, u.tables, r, others)
  BY DEF Midway
<1>3. Good(mm, tables, Root, others)'
  BY <1>1, <1>2
<1>4. (cpu = "running" => /\ cr3 = Root /\ NoneLost(mm, tables, Root, others)
                          /\ Reached(tables, Root, others))'
  BY <1>1, <1>2
<1>5. InKernelRange(kernel_pml4)'
  BY DEF InKernelRange
<1> QED
  BY <1>1, <1>3, <1>4, <1>5 DEF PagingInv

(* Init_Paging, the first time or again, maps the kernel or changes no     *)
(* translation.                                                            *)
LEMMA InitPagingKeeps ==
  ASSUME PagingInv, Init_Paging
  PROVE  /\ PagingInv'
         /\ \/ Unmoved(tables, cr3, tables', cr3')
            \/ Moved(tables, cr3, tables', cr3', KERNEL_VIRTUAL_BASE, 0)
<1>0. /\ Good(mm, tables, Root, others) /\ NoneLost(mm, tables, Root, others)
      /\ Reached(tables, Root, others) /\ cr3 = Root /\ cpu = "running" /\ others' = others
  BY DEF PagingInv, Init_Paging
<1>1. PICK g : g = get_physical_page(mm)
  OBVIOUS
<1>2. CASE kernel_pml4 = NULL
  <2>1. Root = BOOT_PML4 /\ cr3 = BOOT_PML4 /\ OnlyFirst
    BY <1>0, <1>2 DEF Root, PagingInv
  <2>2. ~InKernelRange(cr3)
    <3>1. BOOT_PML4 \in Nat /\ BOOT_PML4 < memory_start /\ memory_start \in Nat
      BY SMT DEF BOOT_PML4, memory_start
    <3> QED BY <2>1, <3>1 DEF InKernelRange
  <2>3. /\ Shape(tables, BOOT_PML4) /\ Owned(mm, tables, BOOT_PML4, others)
        /\ Reached(tables, BOOT_PML4, others) /\ Agrees(tables, BOOT_PML4)
        /\ Good(mm, tables, BOOT_PML4, others) /\ NoneLost(mm, tables, BOOT_PML4, others)
    BY <1>0, <2>1 DEF Good
  <2>4. CASE g.ret = NULL \/ ~Reaches(tables, cr3, g.ret)
    <3>1. ~GotPml4(g.ret)
      BY <2>2, <2>4 DEF GotPml4
    <3>2. /\ mm' = g.m /\ cpu' = (IF g.ret # NULL THEN "lost" ELSE cpu)
          /\ kernel_pml4' = (IF g.ret = NULL THEN NULL ELSE kernel_pml4)
          /\ tables' = tables /\ cr3' = cr3
      BY <1>1, <3>1 DEF Init_Paging
    <3>3. kernel_pml4' = NULL /\ Root' = BOOT_PML4
      BY <1>2, <3>2 DEF Root
    <3>4. g.ret = NULL => g.m = mm
      BY <1>1, <2>3, GetPageEffect DEF Owned
    <3>5. g.ret # NULL => Owned(g.m, tables, BOOT_PML4, others)
      <4>1. g.ret # NULL => Consistent(g.m) /\ UsedFrames(g.m) = UsedFrames(mm) \cup {g.ret}
        BY <1>1, <2>3, FreshPage
      <4> QED BY <2>3, <4>1 DEF Owned
    <3>6. Good(g.m, tables, BOOT_PML4, others)
      BY <2>3, <3>4, <3>5 DEF Good
    <3>7. Good(mm, tables, Root, others)'
      BY <1>0, <3>2, <3>3, <3>6
    <3>8. (cpu = "running" => /\ cr3 = Root /\ NoneLost(mm, tables, Root, others)
                              /\ Reached(tables, Root, others))'
      BY <1>0, <2>1, <2>3, <3>2, <3>3, <3>4
    <3>9. OnlyFirst'
      BY <2>1, <3>2 DEF OnlyFirst
    <3>10. PagingInv'
      BY <1>0, <2>1, <3>2, <3>3, <3>7, <3>8, <3>9 DEF PagingInv
    <3> QED BY <3>2, <3>10 DEF Unmoved
  <2>5. CASE g.ret # NULL /\ Reaches(tables, cr3, g.ret)
    <3>1. PICK p, U : p = g.ret /\ Copied(tables, U, p)
      BY DEF Copied
    <3>2. PICK u : u = setup_kernel_mappings(Enter(g.m, U, p), p)
      OBVIOUS
    <3>3. GotPml4(g.ret)
      BY <2>5 DEF GotPml4
    <3>4. /\ mm' = u.m /\ tables' = u.tables /\ kernel_pml4' = p
          /\ cr3' = (IF u.status = "lost" THEN cr3 ELSE kernel_pml4')
          /\ cpu' = (IF u.status = "lost" THEN "lost" ELSE cpu)
      BY <1>1, <2>1, <2>2, <3>1, <3>2, <3>3 DEF Init_Paging, Copied
    <3>5. /\ p # BOOT_PML4 /\ p \in Nat /\ p >= memory_start
          /\ Good(g.m, U, p, others) /\ NoneLost(g.m, U, p, others) /\ Reached(U, p, others)
          /\ \A v \in Virtual : Walk(U, p, v) = Walk(tables, BOOT_PML4, v)
      BY <1>1, <2>1, <2>3, <2>5, <3>1, CopyEffect
    <3>6. /\ Midway(u, p, others) /\ Reached(u.tables, p, others)
          /\ u.status = "ok" => Moved(U, p, u.tables, p, KERNEL_VIRTUAL_BASE, 0)
          /\ u.status # "ok" => Unmoved(U, p, u.tables, p)
      BY <2>1, <3>2, <3>5, SetupEffect
    <3>7. InKernelRange(p) /\ p # NULL
      BY <2>1, <2>3, <2>5, <3>1, <3>5, ReachedIsLow DEF InKernelRange
    <3>8. PagingInv'
      BY <1>0, <2>1, <3>4, <3>6, <3>7, CallLeaves
    <3>9. CASE u.status = "ok"
      <4>1. Moved(tables, cr3, tables', cr3', KERNEL_VIRTUAL_BASE, 0)
        BY <2>1, <3>4, <3>5, <3>6, <3>9 DEF Moved
      <4> QED BY <3>8, <4>1
    <3>10. CASE u.status = "failed"
      <4>1. Unmoved(tables, cr3, tables', cr3')
        BY <2>1, <3>4, <3>5, <3>6, <3>10 DEF Unmoved
      <4> QED BY <3>8, <4>1
    <3>11. CASE u.status = "lost"
      <4>1. cr3' = BOOT_PML4 /\ tables' = u.tables
        BY <2>1, <3>4, <3>11
      <4>2. Shape(u.tables, p)
        BY <3>6 DEF Midway, Good
      <4>3. \A v \in Virtual : Walk(u.tables, BOOT_PML4, v) =
              IF v[1] = 0 THEN Walk(u.tables, p, v) ELSE Unmapped
        BY <4>2, BootTreeInside
      <4>4. \A v \in Virtual : Walk(tables, BOOT_PML4, v) =
              IF v[1] = 0 THEN Walk(tables, BOOT_PML4, v) ELSE Unmapped
        BY <2>3, BootTreeInside
      <4>5. Unmoved(tables, cr3, tables', cr3')
        BY <2>1, <3>5, <3>6, <3>11, <4>1, <4>3, <4>4 DEF Unmoved
      <4> QED BY <3>8, <4>5
    <3> QED BY <3>6, <3>9, <3>10, <3>11 DEF Midway
  <2> QED BY <2>4, <2>5
<1>3. CASE kernel_pml4 # NULL
  <2>1. Root = kernel_pml4 /\ cr3 = kernel_pml4 /\ InKernelRange(cr3)
    BY <1>0, <1>3 DEF Root, PagingInv
  <2>2. PICK r : r = kernel_pml4
    OBVIOUS
  <2>3. r # BOOT_PML4 /\ InKernelRange(r)
    <3>1. BOOT_PML4 \in Nat /\ BOOT_PML4 < memory_start /\ memory_start \in Nat
      BY SMT DEF BOOT_PML4, memory_start
    <3> QED BY <2>1, <2>2, <3>1 DEF InKernelRange
  <2>4. PICK u : u = setup_kernel_mappings(Enter(mm, tables, r), r)
    OBVIOUS
  <2>5. GotPml4(g.ret)
    BY <2>1 DEF GotPml4
  <2>6. /\ mm' = u.m /\ tables' = u.tables /\ kernel_pml4' = r
        /\ cr3' = (IF u.status = "lost" THEN cr3 ELSE kernel_pml4')
        /\ cpu' = (IF u.status = "lost" THEN "lost" ELSE cpu)
    BY <1>1, <2>1, <2>2, <2>4, <2>5 DEF Init_Paging
  <2>7. /\ Midway(u, r, others) /\ Reached(u.tables, r, others)
        /\ u.status = "ok" => Moved(tables, r, u.tables, r, KERNEL_VIRTUAL_BASE, 0)
        /\ u.status # "ok" => Unmoved(tables, r, u.tables, r)
    BY <1>0, <2>1, <2>2, <2>3, <2>4, SetupEffect
  <2>8. cr3' = r /\ cr3 = r
    BY <2>1, <2>2, <2>6
  <2>9. PagingInv'
    BY <1>0, <1>3, <2>2, <2>3, <2>6, <2>7, <2>8, CallLeaves
  <2> QED BY <2>6, <2>7, <2>8, <2>9
<1> QED
  BY <1>2, <1>3

(* map_page gives v the translation that was asked for, or none changes;   *)
(* with two pages that it can reach, it does the former.                   *)
LEMMA MapPageKeeps ==
  ASSUME PagingInv, NEW x \in MAPPINGS, map_page(x)
  PROVE  /\ PagingInv' /\ cr3' = cr3
         /\ \/ Unmoved(tables, cr3, tables', cr3')
            \/ Moved(tables, cr3, tables', cr3', x.v,
                     IF "PRESENT" \in x.flags THEN x.p ELSE Unmapped)
         /\ kernel_pml4 # NULL /\ TwoPages(mm, tables, cr3) =>
              Moved(tables, cr3, tables', cr3', x.v,
                    IF "PRESENT" \in x.flags THEN x.p ELSE Unmapped)
<1>0. /\ Good(mm, tables, Root, others) /\ NoneLost(mm, tables, Root, others)
      /\ Reached(tables, Root, others) /\ cr3 = Root /\ cpu = "running"
      /\ others' = others /\ kernel_pml4' = kernel_pml4 /\ cr3' = cr3
  BY DEF PagingInv, map_page
<1>1. CASE kernel_pml4 = NULL
  <2>1. UNCHANGED <<mm, tables, cpu>>
    BY <1>1 DEF map_page
  <2>2. PagingInv'
    BY <1>0, <2>1 DEF PagingInv, Root, OnlyFirst, Good, NoneLost, InKernelRange
  <2> QED BY <1>0, <1>1, <2>1, <2>2 DEF Unmoved
<1>2. CASE kernel_pml4 # NULL
  <2>1. PICK r, v, f, e, s :
          /\ r = kernel_pml4 /\ v = x.v /\ f = {"PRESENT", "WRITABLE", "USER"}
          /\ e = Entry(x.p, x.flags \cup {"HUGE"}) /\ s = Enter(mm, tables, r)
    OBVIOUS
  <2>2. PICK u : u = Install(s, r, v, f, e)
    OBVIOUS
  <2>3. u = MapResult(x)
    BY <2>1, <2>2 DEF MapResult, Install
  <2>4. /\ mm' = u.m /\ tables' = u.tables
        /\ cpu' = (IF u.status = "lost" \/ ~Finds(u.tables, cr3) THEN "lost" ELSE cpu)
    BY <1>2, <2>3 DEF map_page
  <2>5. cr3 = r /\ Root = r /\ InKernelRange(r) /\ r # NULL
    BY <1>0, <1>2, <2>1 DEF Root, PagingInv
  <2>6. r # BOOT_PML4
    <3>1. BOOT_PML4 \in Nat /\ BOOT_PML4 < memory_start /\ memory_start \in Nat
      BY SMT DEF BOOT_PML4, memory_start
    <3> QED BY <2>5, <3>1 DEF InKernelRange
  <2>7. s = [m |-> mm, tables |-> tables, at |-> r, status |-> "ok"]
    BY <2>1 DEF Enter
  <2>8. IsCall(s) /\ s.m = mm /\ s.tables = tables /\ s.status = "ok"
    BY <2>7 DEF IsCall
  <2>9. Midway(s, r, others)
    BY <1>0, <2>5, <2>8 DEF Midway
  <2>10. v \in Virtual /\ x.flags \in SUBSET FLAGS /\ x.p \in Nat
    BY <2>1, PagingAssumption
  <2>11. e \in EntryType /\ Leaf(e) = IF "PRESENT" \in x.flags THEN x.p ELSE Unmapped
    BY <2>1, <2>10 DEF Entry, EntryType, Leaf, Present, FLAGS
  <2>12. Leaf(e) \in Allowed(v)
    BY <2>1, <2>11 DEF Allowed, Asked
  <2>13. f \in SUBSET FLAGS /\ "PRESENT" \in f
    BY <2>1 DEF FLAGS
  <2>14. /\ Midway(u, r, others)
         /\ \A w \in Virtual : Walk(u.tables, r, w) =
              IF u.status = "ok" /\ w = v THEN Leaf(e) ELSE Walk(s.tables, r, w)
         /\ TwoPages(s.m, s.tables, r) => u.status = "ok"
    <3>1. cr3 \in {BOOT_PML4, r}
      BY <2>5
    <3>2. v \in Virtual /\ e \in EntryType
      BY <2>10, <2>11
    <3> QED BY <2>2, <2>6, <2>8, <2>9, <2>12, <2>13, <3>1, <3>2, InstallEffect
  <2>15. PagingInv'
    <3>1. cpu' \in {"running", "lost"}
      BY <1>0, <2>4
    <3>2. cpu' = "running" => u.status # "lost" /\ Reached(u.tables, r, others)
      BY <2>4, <2>5 DEF Finds, Reached
    <3> QED BY <1>0, <2>1, <2>4, <2>5, <2>14, <3>1, <3>2, CallLeaves
  <2>16. CASE u.status = "ok"
    <3>1. Moved(tables, cr3, tables', cr3', x.v,
                IF "PRESENT" \in x.flags THEN x.p ELSE Unmapped)
      BY <1>0, <2>1, <2>4, <2>5, <2>8, <2>11, <2>14, <2>16 DEF Moved
    <3> QED BY <1>0, <2>15, <3>1
  <2>17. CASE u.status # "ok"
    <3>1. Unmoved(tables, cr3, tables', cr3')
      BY <1>0, <2>4, <2>5, <2>8, <2>14, <2>17 DEF Unmoved
    <3>2. ~TwoPages(mm, tables, cr3)
      BY <2>5, <2>8, <2>14, <2>17
    <3> QED BY <1>0, <2>15, <3>1, <3>2
  <2> QED BY <2>16, <2>17
<1> QED
  BY <1>1, <1>2

(* Other code gets a page nobody has.                                      *)
LEMMA OtherGetKeeps ==
  ASSUME PagingInv, OtherGet
  PROVE  PagingInv' /\ tables' = tables /\ cr3' = cr3
<1>0. /\ Good(mm, tables, Root, others) /\ NoneLost(mm, tables, Root, others)
      /\ Reached(tables, Root, others) /\ cr3 = Root /\ cpu = "running"
      /\ tables' = tables /\ kernel_pml4' = kernel_pml4 /\ cr3' = cr3
  BY DEF PagingInv, OtherGet
<1>1. PICK g, r : g = get_physical_page(mm) /\ r = Root
  OBVIOUS
<1>2. /\ Shape(tables, r) /\ Owned(mm, tables, r, others) /\ Agrees(tables, r)
      /\ Reached(tables, r, others)
  BY <1>0, <1>1 DEF Good
<1>3. Root' = r /\ OnlyFirst' = OnlyFirst /\ InKernelRange(kernel_pml4)' = InKernelRange(kernel_pml4)
  BY <1>0, <1>1 DEF Root, OnlyFirst, InKernelRange
<1>4. mm' = g.m
  BY <1>1 DEF OtherGet
<1>5. CASE g.ret = NULL
  <2>1. others' = others /\ cpu' = cpu
    BY <1>1, <1>5 DEF OtherGet
  <2>2. g.m = mm
    BY <1>1, <1>2, <1>5, GetPageEffect DEF Owned
  <2>3. PagingInv'
    BY <1>0, <1>1, <1>3, <1>4, <2>1, <2>2 DEF PagingInv
  <2> QED BY <1>0, <2>3
<1>6. CASE g.ret # NULL
  <2>1. /\ g.ret \notin BootTables /\ g.ret \notin TablesUnder(tables, r)
        /\ g.ret \notin others
        /\ Consistent(g.m) /\ UsedFrames(g.m) = UsedFrames(mm) \cup {g.ret}
    BY <1>1, <1>2, <1>6, FreshPage
  <2>2. CASE ~Reaches(tables, cr3, g.ret)
    <3>1. others' = others /\ cpu' = "lost"
      BY <1>1, <1>6, <2>2 DEF OtherGet
    <3>2. Good(g.m, tables, r, others)
      BY <1>2, <2>1 DEF Good, Owned
    <3>3. PagingInv'
      BY <1>0, <1>1, <1>3, <1>4, <3>1, <3>2 DEF PagingInv
    <3> QED BY <1>0, <3>3
  <2>3. CASE Reaches(tables, cr3, g.ret)
    <3>1. others' = others \cup {g.ret} /\ cpu' = cpu
      BY <1>1, <1>6, <2>3 DEF OtherGet
    <3>2. Owned(g.m, tables, r, others')
      BY <1>2, <2>1, <3>1 DEF Owned
    <3>3. Reached(tables, r, others')
      BY <1>0, <1>1, <1>2, <2>3, <3>1 DEF Reached
    <3>4. Good(g.m, tables, r, others')
      BY <1>2, <3>2 DEF Good
    <3>5. NoneLost(g.m, tables, r, others')
      BY <1>0, <1>1, <2>1, <3>1 DEF NoneLost
    <3>6. PagingInv'
      BY <1>0, <1>1, <1>3, <1>4, <3>1, <3>3, <3>4, <3>5 DEF PagingInv
    <3> QED BY <1>0, <3>6
  <2> QED BY <2>2, <2>3
<1> QED
  BY <1>5, <1>6

(* Other code frees a page it has, never a table.                          *)
LEMMA OtherFreeKeeps ==
  ASSUME PagingInv, NEW p \in others, OtherFree(p)
  PROVE  PagingInv' /\ tables' = tables /\ cr3' = cr3
<1>0. /\ Good(mm, tables, Root, others) /\ NoneLost(mm, tables, Root, others)
      /\ Reached(tables, Root, others) /\ cr3 = Root /\ cpu = "running" /\ cpu' = cpu
      /\ tables' = tables /\ kernel_pml4' = kernel_pml4 /\ cr3' = cr3
      /\ others' = others \ {p}
  BY DEF PagingInv, OtherFree
<1>1. PICK n, r : n = free_physical_page(mm, p) /\ r = Root
  OBVIOUS
<1>2. /\ Shape(tables, r) /\ Owned(mm, tables, r, others) /\ Agrees(tables, r)
      /\ Reached(tables, r, others)
  BY <1>0, <1>1 DEF Good
<1>3. Root' = r /\ OnlyFirst' = OnlyFirst /\ InKernelRange(kernel_pml4)' = InKernelRange(kernel_pml4)
  BY <1>0, <1>1 DEF Root, OnlyFirst, InKernelRange
<1>4. mm' = n
  BY <1>1 DEF OtherFree
<1>5. Consistent(n) /\ UsedFrames(n) = UsedFrames(mm) \ {p}
  BY <1>1, <1>2, FreePageEffect DEF Owned
<1>6. Owned(n, tables, r, others')
  BY <1>0, <1>2, <1>5 DEF Owned
<1>7. Reached(tables, r, others')
  BY <1>0, <1>2 DEF Reached
<1>8. NoneLost(n, tables, r, others')
  BY <1>0, <1>1, <1>5 DEF NoneLost
<1>9. Good(n, tables, r, others')
  BY <1>2, <1>6 DEF Good
<1>10. PagingInv'
  BY <1>0, <1>1, <1>3, <1>4, <1>7, <1>8, <1>9 DEF PagingInv
<1> QED
  BY <1>0, <1>10

(* A step that changes nothing.                                            *)
LEMMA StutterKeeps ==
  ASSUME PagingInv, UNCHANGED vars
  PROVE  PagingInv'
BY DEF PagingInv, vars, Root, OnlyFirst, InKernelRange

---------------------------------------------------------------------------
(* The theorems.                                                           *)

(* The invariant holds in every state.                                     *)
THEOREM PagingInvariance == Spec => []PagingInv
<1>1. Init => PagingInv
  BY InitGood
<1>2. PagingInv /\ [Next]_vars => PagingInv'
  <2> SUFFICES ASSUME PagingInv, [Next]_vars PROVE PagingInv'
    OBVIOUS
  <2>1. CASE Init_Paging
    BY <2>1, InitPagingKeeps
  <2>2. CASE \E x \in MAPPINGS : map_page(x)
    BY <2>2, MapPageKeeps
  <2>3. CASE OtherGet
    BY <2>3, OtherGetKeeps
  <2>4. CASE \E p \in others : OtherFree(p)
    BY <2>4, OtherFreeKeeps
  <2>5. CASE UNCHANGED vars
    BY <2>5, StutterKeeps
  <2> QED BY <2>1, <2>2, <2>3, <2>4, <2>5 DEF Next
<1> QED BY <1>1, <1>2, PTL DEF Spec

(* The invariant says the same of the PML4 that is in CR3.                 *)
LEMMA GoodUnderCr3 ==
  ASSUME PagingInv
  PROVE  /\ Shape(tables, cr3) /\ Owned(mm, tables, cr3, others)
         /\ Agrees(tables, cr3)
         /\ cpu = "running" => NoneLost(mm, tables, cr3, others) /\ Reached(tables, cr3, others)
<1>1. Good(mm, tables, cr3, others)
  BY GoodUnderBoot DEF PagingInv
<1> QED
  BY <1>1 DEF PagingInv, Good

(* Page tables, registers and the allocator keep their types: every table  *)
(* that Init_Paging or map_page makes is page-aligned and never at NULL.   *)
THEOREM PagingTypeCorrect == Spec => []TypeOK
<1>1. PagingInv => TypeOK
  <2> SUFFICES ASSUME PagingInv PROVE TypeOK
    OBVIOUS
  <2>1. /\ Typed(tables) /\ cr3 \in DOMAIN tables /\ mm \in MemType
        /\ others \subseteq UsedFrames(mm)
    BY GoodUnderCr3 DEF Shape, Tree, Owned, Consistent
  <2>2. kernel_pml4 \in DOMAIN tables \cup {NULL}
    BY DEF PagingInv, Good, Shape, Tree, Root
  <2>3. others \subseteq Nat
    BY <2>1, UsedFrameIndex
  <2> QED BY <2>1, <2>2, <2>3 DEF TypeOK, Typed, EntryType, MemType, PagingInv
<1> QED BY <1>1, PagingInvariance, PTL

(* The tables that CR3 leads to form a tree of boot tables and of pages    *)
(* that are used and nobody else's, wherever Init_Paging or map_page has   *)
(* given up or faulted.                                                    *)
THEOREM TablesOwnedCorrect == Spec => []TablesOwned
<1>1. PagingInv => TablesOwned
  <2> SUFFICES ASSUME PagingInv PROVE TablesOwned
    OBVIOUS
  <2>1. /\ mm \in MemType
        /\ TablesUnder(tables, cr3) \ BootTables \subseteq UsedFrames(mm) \ others
        /\ \A k, l \in Links(tables, cr3) : Target(tables, k) = Target(tables, l) => k = l
    BY GoodUnderCr3 DEF Shape, Tree, Owned, Consistent
  <2>2. \A t \in UsedFrames(mm) : PageIndex(t) \in Pages(mm) \ FreePages(mm)
    BY <2>1, UsedFrameIndex
  <2> QED BY <2>1, <2>2 DEF TablesOwned
<1> QED BY <1>1, PagingInvariance, PTL

(* While the CPU runs every used page is a table that CR3 leads to or is   *)
(* held by other code: no call of Init_Paging or map_page loses one.       *)
THEOREM NoTableLeaksCorrect == Spec => []NoTableLeaks
<1>1. PagingInv => NoTableLeaks
  BY GoodUnderCr3 DEF NoTableLeaks, NoneLost, UsedFrames
<1> QED BY <1>1, PagingInvariance, PTL

(* While the CPU runs it reaches at its physical address every table and   *)
(* every page of other code, as map_page and get_physical_page presuppose. *)
THEOREM TablesReachedCorrect == Spec => []TablesReached
<1>1. PagingInv => TablesReached
  BY GoodUnderCr3 DEF TablesReached, Reached, Finds
<1> QED BY <1>1, PagingInvariance, PTL

(* Whatever map_page is asked for, get_physical_address agrees with the    *)
(* tables about every mapped address but those that a caller asked to have *)
(* elsewhere.                                                              *)
THEOREM TranslationCorrect == Spec => []TranslationAgrees
<1>1. PagingInv => TranslationAgrees
  BY GoodUnderCr3 DEF TranslationAgrees, Agrees, Allowed
<1> QED BY <1>1, PagingInvariance, PTL

(* With two pages that it can reach, map_page establishes the mapping.     *)
THEOREM MapCorrect == Spec => MapTakesEffect
<1> DEFINE Granted(x) ==
      /\ map_page(x) /\ kernel_pml4 # NULL
      /\ \E i, j \in FreePages(mm) :
           /\ i < j /\ \A k \in FreePages(mm) : k <= j => k \in {i, j}
           /\ \A k \in {i, j} : Reaches(tables, cr3, PageAddr(k))
           Done(x) == Walk(tables', cr3', x.v) =
                        IF "PRESENT" \in x.flags THEN x.p ELSE Unmapped
<1>1. PagingInv /\ [Next]_vars => [\A x \in MAPPINGS : Granted(x) => Done(x)]_vars
  <2> SUFFICES ASSUME PagingInv, NEW x \in MAPPINGS, Granted(x) PROVE Done(x)
    OBVIOUS
  <2>1. TwoPages(mm, tables, cr3) /\ map_page(x) /\ kernel_pml4 # NULL
    BY DEF TwoPages
  <2> HIDE DEF Granted
  <2>2. Moved(tables, cr3, tables', cr3', x.v,
              IF "PRESENT" \in x.flags THEN x.p ELSE Unmapped)
    BY <2>1, MapPageKeeps
  <2>3. x.v \in Virtual
    BY PagingAssumption
  <2> QED BY <2>2, <2>3 DEF Moved
<1> QED BY <1>1, PagingInvariance, PTL DEF Spec, MapTakesEffect

(* The tables implement the abstract address space: every step changes one *)
(* translation, as asked, or none.                                         *)
THEOREM AddressSpaceRefinement == Spec => ImplementsAddressSpace
<1> DEFINE space == [v \in Virtual |-> Walk(tables, cr3, v)]
           requests == {<<KERNEL_VIRTUAL_BASE, 0>>}
                       \cup {<<x.v, IF "PRESENT" \in x.flags THEN x.p ELSE Unmapped>> :
                             x \in MAPPINGS}
<1>1. Init => Space!Init
  <2> SUFFICES ASSUME Init PROVE Space!Init
    OBVIOUS
  <2>1. \A v \in Virtual : Walk(tables, cr3, v) = IF v = KERNEL_CODE THEN 0 ELSE Unmapped
    BY InitGood
  <2>2. space \in [Virtual -> ({0} \cup {x.p : x \in MAPPINGS}) \cup {Unmapped}]
    BY <2>1
  <2>3. KERNEL_CODE \in Virtual
    BY Constants DEF KERNEL_CODE, Virtual
  <2>4. \A v \in {KERNEL_CODE} \ {x.v : x \in MAPPINGS} : space[v] = 0
    BY <2>1, <2>3
  <2> QED BY <2>2, <2>4 DEF Space!Init, Space!Spaces
<1>2. PagingInv /\ [Next]_vars => [Space!Next]_space
  <2> SUFFICES ASSUME PagingInv, [Next]_vars PROVE Space!Next \/ space' = space
    OBVIOUS
  <2>1. ASSUME Unmoved(tables, cr3, tables', cr3') PROVE space' = space
    BY <2>1 DEF Unmoved
  <2>2. ASSUME NEW v, NEW y, v # KERNEL_CODE \/ v \in {x.v : x \in MAPPINGS},
               <<v, y>> \in requests, Moved(tables, cr3, tables', cr3', v, y)
        PROVE  Space!Next
    <3>1. space' = [space EXCEPT ![v] = y]
      BY <2>2 DEF Moved
    <3>2. Space!Grant(v, y)
      BY <2>2, <3>1 DEF Space!Grant
    <3>3. <<v, y>>[1] = v /\ <<v, y>>[2] = y
      OBVIOUS
    <3> QED BY <2>2, <3>2, <3>3 DEF Space!Next
  <2>3. CASE Init_Paging
    <3>1. \/ Unmoved(tables, cr3, tables', cr3')
          \/ Moved(tables, cr3, tables', cr3', KERNEL_VIRTUAL_BASE, 0)
      BY <2>3, InitPagingKeeps
    <3>2. KERNEL_VIRTUAL_BASE # KERNEL_CODE /\ <<KERNEL_VIRTUAL_BASE, 0>> \in requests
      BY KernelEntryFacts
    <3> QED BY <2>1, <2>2, <3>1, <3>2
  <2>4. CASE \E x \in MAPPINGS : map_page(x)
    <3>1. PICK x \in MAPPINGS : map_page(x)
      BY <2>4
    <3>2. PICK v, y : v = x.v /\ y = IF "PRESENT" \in x.flags THEN x.p ELSE Unmapped
      OBVIOUS
    <3>3. \/ Unmoved(tables, cr3, tables', cr3')
          \/ Moved(tables, cr3, tables', cr3', v, y)
      BY <3>1, <3>2, MapPageKeeps
    <3>4. v \in {z.v : z \in MAPPINGS} /\ <<v, y>> \in requests
      BY <3>2
    <3> QED BY <2>1, <2>2, <3>3, <3>4
  <2>5. CASE OtherGet
    BY <2>5, OtherGetKeeps
  <2>6. CASE \E p \in others : OtherFree(p)
    BY <2>6, OtherFreeKeeps
  <2>7. CASE UNCHANGED vars
    BY <2>7 DEF vars
  <2> QED BY <2>3, <2>4, <2>5, <2>6, <2>7 DEF Next
<1> QED BY <1>1, <1>2, PagingInvariance, PTL DEF Spec, ImplementsAddressSpace, Space!Spec
=============================================================================
