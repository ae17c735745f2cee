------------------------------ MODULE MCPaging ------------------------------
(***************************************************************************)
(* An instance of Paging for TLC: memories of two pages (Init_Paging gets  *)
(* no PD or, with one page taken, its PML4 only) and of six, of which the  *)
(* boot tables map the first five.  The calls of map_page need no new      *)
(* table, one or two, extend the identity map, map its second large page   *)
(* elsewhere or nowhere, used or not, break the higher half's rule, and    *)
(* replace and remove a mapping.                                           *)
(*                                                                         *)
(* The boot tables are checked apart, with two entries each, in RAM where  *)
(* every DWORD is zero or looks like a link to the PDT, in all             *)
(* combinations.                                                           *)
(***************************************************************************)
EXTENDS Paging

MCMappedLimit == PageAddr(5)
MCMemoryEnds == {PageAddr(2), PageAddr(6)}
MCLeftovers == {Entry(0, {}), Entry(28672, {"WRITABLE"})}

Call(v, p, flags) == [v |-> v, p |-> p * MAPPED_LIMIT, flags |-> flags]

MCMappings ==
  {Call(<<0, 0, 1>>, 1, {"PRESENT", "WRITABLE"}),
   Call(<<0, 0, 1>>, 3, {"PRESENT", "WRITABLE"}),
   Call(<<0, 0, 1>>, 1, {}),
   Call(<<511, 510, 1>>, 3, {"PRESENT", "WRITABLE"}),
   Call(<<511, 511, 0>>, 512, {"PRESENT", "WRITABLE", "GLOBAL"}),
   Call(<<1, 0, 0>>, 3, {"PRESENT", "USER"}),
   Call(<<1, 0, 0>>, 4, {"PRESENT", "WRITABLE", "USER"}),
   Call(<<1, 1, 0>>, 3, {"PRESENT"}),
   Call(<<1, 0, 0>>, 3, {})}

(* 8 * 2 * 3 is the PDT of tables with two entries.                        *)
Boot == INSTANCE BootTables WITH ENTRIES <- 2, VALUES <- {0, 48 + 3}

(* When the kernel starts, before any page is taken, the tables of Paging  *)
(* map what boot.asm maps in clean RAM, and only in clean RAM: the first   *)
(* large page.  Its PML4 has one entry whatever RAM held.                  *)
BootMapExact ==
  cr3 = BOOT_PML4 /\ mm.used_pages = 0 =>
    /\ Boot!BootMapExact
    /\ \A v \in Virtual :
         Walk(tables, cr3, v) = IF v = KERNEL_CODE THEN 0 ELSE Unmapped
=============================================================================
