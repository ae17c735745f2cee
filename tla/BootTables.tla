----------------------------- MODULE BootTables -----------------------------
(***************************************************************************)
(* How boot/boot.asm builds the first page tables, in RAM that holds       *)
(* anything: straight-line code without input, so operators and no state.  *)
(* The four tables follow one another from 0x1000.  This is 32-bit code:   *)
(* an entry of 8 bytes is two DWORDs, a lower and an upper one, which are  *)
(* written apart.  A table has ENTRIES entries and is a page: 512 entries  *)
(* and 4096 bytes.                                                         *)
(***************************************************************************)
EXTENDS Integers

CONSTANTS ENTRIES,      \* 512
          VALUES        \* what a DWORD of RAM may hold before

TABLE == 8 * ENTRIES
PML4 == TABLE
PDPT == 2 * TABLE
PDT == 3 * TABLE
PT == 4 * TABLE
Tables == {PML4, PDPT, PDT, PT}
Index == 0 .. ENTRIES - 1
Dwords == {PML4 + 4 * k : k \in 0 .. 8 * ENTRIES - 1}
PRESENT_WRITABLE == 3

(* Mutant: 512 DWORDs are taken for 4096 bytes.                            *)
ClearedDwords_Half == ENTRIES

(* What ECX holds for rep stosd: 1024, one table of the four.              *)
ClearedDwords == 2 * ENTRIES

Cleared(ram) ==
  [a \in Dwords |-> IF a < PML4 + 4 * ClearedDwords THEN 0 ELSE ram[a]]

(* The links PML4[0], PDPT[0] and PDT[0], lower DWORDs only.               *)
Linked(ram) ==
  [ram EXCEPT ![PML4] = PDPT + PRESENT_WRITABLE,
              ![PDPT] = PDT + PRESENT_WRITABLE,
              ![PDT]  = PT + PRESENT_WRITABLE]

(* The loop .SetEntry: the lower DWORD of every entry of the PT.           *)
Filled(ram) ==
  [a \in Dwords |-> IF a \in {PT + 8 * i : i \in Index}
                      THEN ((a - PT) \div 8) * TABLE + PRESENT_WRITABLE
                      ELSE ram[a]]

Built(ram) == Filled(Linked(Cleared(ram)))

---------------------------------------------------------------------------
Unmapped == -1
Elsewhere == -2         \* a table or a page beyond the memory modelled

(* The table or page that entry i of the table t leads to.                 *)
Follow(ram, t, i) ==
  IF t \notin Tables THEN t
  ELSE LET low == ram[t + 8 * i]  high == ram[t + 8 * i + 4]
       IN  IF low % 2 = 0 THEN Unmapped
           ELSE IF high # 0 THEN Elsewhere
           ELSE low - (low % TABLE)

(* The page the CPU finds for the four indices of an address.              *)
Virtual == Index \X Index \X Index \X Index
Translate(ram, v) ==
  LET t == Follow(ram, Follow(ram, Follow(ram, PML4, v[1]), v[2]), v[3])
  IN  IF t \in Tables THEN Follow(ram, t, v[4])
      ELSE IF t = Unmapped THEN Unmapped ELSE Elsewhere

(* RAM as this code needs it and does not make it: nothing PRESENT in the  *)
(* entries that it leaves, zero in the upper DWORDs that it leaves.        *)
Clean(ram) ==
  /\ \A t \in {PDPT, PDT}, i \in Index \ {0} : ram[t + 8 * i] % 2 = 0
  /\ \A a \in {PDPT, PDT} \cup {PT + 8 * i : i \in Index} : ram[a + 4] = 0

(* The first 2 MB are mapped to themselves, and nothing else is mapped.    *)
Exact(tables) ==
  \A v \in Virtual :
    Translate(tables, v) =
      IF <<v[1], v[2], v[3]>> = <<0, 0, 0>> THEN v[4] * TABLE ELSE Unmapped

(* Whatever RAM held, only entry 0 of the PML4 leads anywhere, so that     *)
(* Init_Paging, which copies this PML4, copies nothing left in RAM.  The   *)
(* map as a whole is the one meant, "identity map first 2MB" (boot.asm:82),*)
(* exactly if RAM was clean: "Clear page tables" (boot.asm:66) clears one  *)
(* of the four.                                                            *)
BootMapExact ==
  \A ram \in [Dwords -> VALUES] :
    LET tables == Built(ram)
    IN  /\ \A v \in Virtual : v[1] # 0 => Translate(tables, v) = Unmapped
        /\ Exact(tables) <=> Clean(ram)
=============================================================================
