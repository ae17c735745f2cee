# M12 kernel: TLA+ models, checks and proofs

M12 is a small x86-64 kernel: a BIOS boot loader (`boot/`), a C kernel that runs
on one CPU (`kernel/`), headers (`include/`) and a few string functions
(`lib/`). This directory models the parts of it that keep state and can go wrong
in ways a test hardly reaches, checks the models with TLC on small instances,
and proves the most important results with TLAPS for all instances.

## 1. Inventory

| Part | State | Operations | Interacts with | What makes it correct |
|---|---|---|---|---|
| Memory detection: `boot/memory.asm`, `safe_parse_memory_map` in `kernel/memory.c` | the map at 0x5000 (16-bit count, entries), `memory_end` | `detect_memory`, parsing | the BIOS (int 0x15) writes the entries; the parser reads them much later; the allocator takes `memory_end` | it ends whatever the BIOS does; the range is never empty nor above 4GB; `memory_end` follows the report |
| Page allocator: `kernel/memory.c` | bitmap, `total_pages`, `used_pages`, `memory_end` | `Init_Memory`, `get_physical_page`, `free_physical_page`, `find_contiguous_free_pages` | called by paging and process creation; clears pages through the identity map | a page has one holder; count and bitmap agree; nothing outside memory is granted; bad and repeated frees change nothing |
| Paging: `boot/boot.asm`, `kernel/paging.c` | page tables, `kernel_pml4`, CR3 | boot tables, `Init_Paging`, `map_page`, `get_physical_address` | takes pages from the allocator, reads and writes tables by physical address | tables are owned pages in a tree, none leaks, the identity map survives, one call changes one translation |
| Process management: `kernel/process.c`, `kernel/context_switch_.asm` | process table, `current_process`, `next_pid`, `process_count`, RSP | `InitProcessManager`, `create_process`, `schedule`, `switch_process`, fork, exit, brk, getpid | takes and frees pages; reached from system calls | pids unique, no cycle of parents, stacks exclusive, no leak when a creation fails half-way, the count follows the processes, a switch loads the right stack |
| System call dispatch: `kernel/syscall.c` | the table of handlers | `Init_Syscall`, `syscall_handler` | process management, the screen | every number has a result |
| System call entry: `kernel/syscall_.asm` | registers, two stacks | `syscall_entry` | dispatch | the caller's stack and registers come back |
| Screen: `kernel/vga.c` | 80x25 cells, cursor registers, colour | `VGA_Putc`, `scroll`, `rmline`, `VGA_Clear`, `VGA_SetCursor`, `kprintf`, `kprintcolor` | used by everything, `sys_write` included | the cursor stays on the screen, output behaves like a terminal's, numbers are exact |
| Exceptions and interrupts: `kernel/idt.c`, `isr.c`, `irq.c` and stubs | IDT, IRQ handler table, PIC masks, the stack | `Init_*`, `isr_handler`, `irq_handler`, `irq_install_handler` | the CPU and the PICs enter the stubs; `isr_handler` returns to the faulting instruction | handlers see the right frame, interrupted code goes on unharmed, every interrupt is acknowledged, no request is lost |
| Boot loader: `boot/boot.asm`, `disk.asm`, `pmode.asm`, GDTs | loaded sectors, first page tables, mode | `disk_load`, table set-up, mode switches | BIOS int 0x13; the kernel runs on the tables and copies their PML4 | the whole kernel is loaded or the machine stops; the tables map the first 2MB and nothing else |
| Start-up: `kernel/main.c` | - | `_kmain` | calls every `Init_*` in order | the order respects what each part needs |
| Test suite `kernel/test.c`, strings `lib/string.c` | - | - | not run / pure | - |

What is hard here is *partial failure* (two stacks, three levels of tables, each
from an allocator that may refuse), *long sequences of legal calls* (repeated
frees, repeated exits, repeated initialisation, slots and pages running out), *an
unreliable BIOS*, *boundaries* (partial bitmap bytes, unsigned counters, the last
cell of the screen, the smallest int, 2MB of mapping under 4GB of memory), *values
prepared by one piece of code and read by another* (16 and 32 bits, 20 and 24
bytes, `r15` and `rsp`, pushed words and the fields of a frame), and *events that
come anywhere* (exceptions, NMIs, interrupts, on the stack of the code they
interrupt). There is one CPU and nothing preempts; the kernel as it stands masks
all IRQs and has no driver, but `irq_handler` and its table are there for them, so
that they are modelled with drivers. `PROJECT.json` lists the hazards line by
line.

## 2. Modules

| Module | Models | Uses |
|---|---|---|
| `PhysMem` | the allocator's functions as operators on a record of its variables | - |
| `PageAllocator` | the allocator as a state machine | `PhysMem`, implements `PagePool` |
| `PagePool` | abstract: a pool of frames, each granted to one holder | - |
| `MemoryMap` | `detect_memory`, the BIOS, `safe_parse_memory_map` | - |
| `Process` | process table, system calls, context switch | `PhysMem` |
| `BootTables` | how `boot.asm` writes the first tables, as operators | - |
| `Paging` | `Init_Paging`, `map_page`, on the tables of boot | `PhysMem`, implements `AddressSpace` |
| `AddressSpace` | abstract: a map that changes at one place at a time, as asked | - |
| `Screen` | screen memory, cursor, colour, `kprintf` and its relatives | implements `Terminal` |
| `Terminal` | abstract: rows that scroll and a cursor on one of their cells | - |
| `Machine` | `disk_load`, `_kmain`'s order, IDT, stubs, handlers, PIC | - |
| `SyscallEntry` | `syscall_entry` | - |
| `MC...` | instances for TLC | the module of that name |
| `PhysMemProofs` | lemmas about the allocator's functions, shared by the next four | `PhysMem` |
| `PageAllocatorProofs`, `MemoryMapProofs`, `ProcessProofs`, `PagingProofs`, `ScreenProofs`, `MachineProofs` | theorems | the module of that name |
| `ProcessStackProofs` | theorems about stacks and the count | `ProcessProofs` |

A definition with a suffix, commented "Mutant", is a faulty variant of the
definition after it; no specification uses it. `PROJECT.json` names for each
property a mutant that violates it.

### PhysMem and PageAllocator

A record `mm` holds the static variables of `memory.c`; the bitmap is the set of
bits that are 1 (a 1 means *free*), including the bits past `total_pages` that
the fill with 0xFF sets. Addresses are the code's own numbers. `ready` stands for
`memory_map != NULL`. The one scaled quantity is `MAPPED_LIMIT`, the 2MB that
`boot.asm` maps: `get_physical_page` clears the page it takes, and beyond that
limit the `memset` raises a page fault. `isr_handler` prints and returns to the
same instruction, so the CPU is lost: `cpu = "faulting"`. Callers may pass any
pointer to `free_physical_page`; `held` is a history variable with what callers
hold.

### MemoryMap

The words from 0x5002 on are modelled one by one, so that what one piece of code
writes and the other reads is compared byte offset by byte offset: entries of 5
or 6 words, the 32-bit store of a 16-bit count that clears half of entry 0's
base, and the garbage of low memory that a parser at the wrong offset reads. The
BIOS is external: any entries, any number, a carry or a wrong signature at any
call. `WORD` (2^32) and `HALF` (2^16) are scaled for TLC and arbitrary in the
proofs. As base and length are at most 2^32 each when they are added, no 64-bit
addition overflows.

### Process

One action is one call (`CreateProcess`, `sys_fork`, `Schedule`, `sys_exit`,
`sys_brk`, `ReturnOnly` for the calls that only return). `Creation` is the whole
of `create_process` with each way it ends: no slot, no first stack, no second
stack (the first is freed, its address stays in the slot), a stack that cannot be
cleared, success. Of a context the model keeps `r15`, `rip` and `rsp`;
`page_table`, which nothing reads, and the other registers are left out.
`switch_process` saves and loads RSP in the first field, `r15`; what happens
after RSP became 0 is not modelled (`cpu = "lost"`). `others` are pages that
other kernel code takes and gives back in between; `again` is a history variable
that counts the calls of `sys_exit` by a ZOMBIE. The process table is only
reset by `InitProcessManager` at boot, when it is still zero.

### BootTables

The stores of `boot.asm`, DWORD by DWORD, into RAM that may hold anything. This is
straight-line code without input, so that it is a function of RAM (`Built`). An
entry has a lower and an upper DWORD, and the code clears both only in the PML4; of
the PDPT, the PDT and the PT it writes lower DWORDs, and the rest stays. What that
amounts to is decided by the CPU's page walk (`Translate`, external). `Clean` is
the RAM the code needs and does not make: nothing PRESENT in the entries it leaves
and zero in the upper DWORDs it leaves. `MCPaging` compares the result with the
tables that `Paging` starts from.

### Paging

A virtual address is its triple of indices; the code ignores the bits below.
`tables` maps the physical address of a table to its entries, and `Walk` is the
CPU's page walk (external). Tables are reached by physical address: a page that
the current tables do not map to itself cannot be cleared or read (`Reaches`), so
`map_page` can *extend* the usable memory. The large page has the size
`MAPPED_LIMIT`, as the first large page is exactly what boot maps. `Init` is what
`BootTables` gives in clean RAM: entries that `boot.asm` leaves unwritten hold
anything that is not PRESENT (`LeftoverAssumption`). The comment at `boot.asm:66`,
"Clear page tables", promises that, the code does not see to it: it clears one table
of four, and `BootMapExact` shows that the map is the one meant only if RAM was
clean. Neither
`map_page` nor a second `Init_Paging` is called by the kernel yet; they are
modelled as the public functions they are. A caller may ask `map_page` for any
address, any large page and any flags, so also map a low page elsewhere or
nowhere. If the kernel then no longer finds its tables, its own page or a page
somebody holds at the physical address (`Finds`), it is `cpu = "lost"`, as it is
when it clears a page that it does not reach; what it does afterwards is not
modelled.

### Screen and Terminal

`screen` holds the linear cells of `VGA_MEMORY` and the two byte registers of the
CRT controller that hold the cursor; every access to the position goes through
them, as in the code. Calls other than printing are one action each. Printing is
one action per character or directive: `fmt` and `args` are what `vkprintf` has
still to read, `todo` what `kprint` or `VGA_Putc` has still to write (a tab puts
four spaces there, a number its digits). A character above 127 is negative as a `char` and
fills the attribute with ones (`Cell`). The string `ESC[2k` given to `kprint`
erases the line. `%d` and `%u` take the lower half of a 64-bit argument, `%x` all
of it. The abstract `Terminal` knows rows and a cursor, no linear position, no
registers and no clamping; the refinement mapping cuts the memory into rows. That
erasing the last row scrolls is part of what it promises, because that is what the
code does. Calls do not overlap: printing by an NMI or a fault inside another call
is listed as a hazard and not modelled. Formats and arguments match
(`TextAssumption`, with `WellFormed`): every directive finds the argument it takes,
as C asks of the caller, and no format ends in a single `%`, after which `vkprintf`
would read on. A directive that `vkprintf` does not know is allowed and printed. All
formats in the kernel are of this kind.

### Machine

Code runs at levels: 0 is the boot loader and `_kmain`, each event that is being
handled adds one to `frames`. The stack is a sequence of words tagged with what
they were when they were pushed, so that a handler that reads, or an `iretq` that
pops, the wrong word is seen. `KMAIN` is the order of `_kmain`'s calls; the effects
on IDT, PIC and interrupt flag are here, those of the other calls in the modules
of their parts. A stub is one action up to the call of the C handler, the handler
one, and the return one; an exception or an NMI may come before each of them, an
interrupt wherever the flag is set. An exception before `Init_ISR` finds no gate
and resets the machine. `isr_handler` returns after critical exceptions too (its
output is not modelled here). `disk_load` compares the number of sectors with DL,
as the code does; `cpu = "astray"` stands for running an incomplete kernel.
External, from how the kernel uses them: the BIOS read, the CPU's delivery of
events, the two PICs (priorities, cascade, spurious interrupts, end of interrupt),
devices that raise a line and wait, and drivers that install a handler, reset
their device and unmask its line. Words below the stack pointer are not modelled.

### SyscallEntry

Registers, the stack pointer and the words of both stacks, an instruction or a run
of like ones at a time. What the handler does is in `Process` and `Screen`; here it
returns a result and loses the registers that C code may use. `sysret` would leave
the caller in ring 3, for which the GDT has no segments; the model follows RSP and
the registers only.

## 3. Runs

| Run | Result | Shows |
|---|---|---|
| `alloc` | pass | memories of 0, 3 and 9 pages (a partial page, two bitmap bytes, one page not mapped), every kind of pointer: count, bitmap and holders agree; contiguous search equals its definition; implements `PagePool` |
| `alloc_fault` | violation | a page announced as free lies beyond the 2MB mapping and hangs the CPU |
| `memmap` | pass | 20- and 24-byte reports, bases with and without lower bits: detection ends, the range is sane, 24-byte reports are read as reported unless the store of the count damages the first base, and even then `memory_end` does not go beyond the report |
| `memmap_20byte` | violation | 20-byte entries are misread |
| `process` | pass | three slots, memories of 1, 4 and 5 pages: every failure of a creation, forks, exits and repeated exits |
| `process_exit` | violation | the exit of one of two processes does not give the CPU to the other |
| `process_switch` | violation | the first switch loads 0 into RSP |
| `paging` | pass | memories of 2 and 6 pages (5 mapped): failures at each level of table, repeated initialisation, extension, replacement and removal of mappings, low pages mapped elsewhere; implements `AddressSpace`. Boot's tables, of two entries, in RAM of every content: the PML4 has one entry whatever RAM held, and the map is the one meant exactly if RAM was clean |
| `screen` | pass | 2x3 cells, three calls after `Init_VGA` out of every kind: the cursor stays on the screen, numbers of the whole (scaled) range read back, calls end; implements `Terminal` |
| `machine` | pass | two drives, a line on each PIC, two nested levels, one NMI: frames, restored context, acknowledgement, no lost request, a pending interrupt is taken |
| `disk_count` | violation | a complete kernel read from drive 0x00 is rejected |
| `syscall_return` | violation | after `sysret` the caller's stack pointer is another one |

Each violation is a finding in `PROJECT.json` with the line of the repository it
contradicts. Three further configurations, not among the regular runs, give a
counterexample each when TLC is run with them:

| Configuration | Property | Shows |
|---|---|---|
| `MCMemoryMapBase.cfg` | `ParsedAsReported` | 24-byte entries, too, are misread when the first base has lower 16 bits: the store of the count at `memory.asm:43` clears them (this is the case that `ParsedAsReported24` leaves out) |
| `MCPagingPartial.cfg` | `InitCompletes` | with two pages of memory `setup_kernel_mappings` gives up silently (`paging.c:66`), CR3 is switched and "Paging initialization completed successfully" printed (`paging.c:123`), with nothing mapped in the higher half |
| `MCMachineCritical.cfg` | `CriticalStops` | `isr.c:50` says that the system is stopped on a critical exception; the handler of a page fault returns to the faulting code |

**Bounds.** The allocator's code treats pages alike, apart from the first free
one, the last one, and the place in a byte: nine pages have two bytes, one of
them partial. Three entries distinguish first, later and at the limit. Three
process slots allow a parent, a child and a failed creation, and the full table;
counters modulo 5 let `process_count` wrap (the proofs take any modulus larger
than the number of pids). Four indices per table hold the two the kernel uses, a
neighbour and one that is free. Boot tables of two entries have the entry that is
written and one that is left; each DWORD of RAM is zero or looks like a link, in all
combinations. A screen of two columns and three rows has a first,
a middle and a last row and a last cell reached by every kind of character; its
registers of two bits make the position need both. Numbers are checked for *all*
values of an 8-bit int and a 12-bit "64-bit" word, with buffers scaled to them; the
code's loops do not depend on the width. `MAX_CALLS` = 3 after the message of
`Init_VGA` reaches every pair of calls at the bottom of the screen. In `machine`
one line per PIC shows cascade and priority; exceptions 3 and 14 are one without
and one with an error code; odd and even numbers of words on the stack show the
CPU's alignment; two levels let an exception or an NMI interrupt a handler.

**Fairness.** `MemoryMap`: `WF_vars(Next)`, as boot code runs on without waiting
for anything, and the BIOS returns from every call. It does not assume that the
BIOS ever reports the end of its list. `Screen`: `WF_vars(Printing)`, as printing
waits for nothing. `Machine`: weak fairness of handling at level 0, where the CPU
takes an interrupt that is due before the next instruction, and strong fairness of
handling at each deeper level: a stub or a handler gets on although an exception
of its own or an NMI may interrupt it. Code at level 0 may fault for ever, and no
fairness is assumed of `_kmain`, of devices or of drivers.

**Deadlock** is not checked: detection and parsing end, a number of calls is bounded, `disk_load` may stop for ever, and a CPU that faults for ever, is reset
or has lost its stack takes no further step of the model.

## 4. Proofs

All theorems hold for every value of the constants that satisfies the named
assumptions: `MappedLimitAssumption`, `MemoryEndsAssumption`, `PointersAssumption`,
`ScaleAssumption`, `BiosAssumption`, `ProcessAssumption`, `PagingAssumption`,
`LeftoverAssumption`, `ScreenAssumption`, `NumberAssumption`, `TextAssumption`, `LiteralAssumption`,
`MachineAssumption`. They say what kind of numbers the constants
are, and further

* memory ends above 1MB and within 4GB, which `RangeSane` of `MemoryMap` shows;
* there are more pids than slots (2^32 and `MAX_PROCESSES` in the code);
* the indices 0, 510 and 511, which `paging.c` uses, exist, boot maps more than the
  first 1MB, and `map_page` is given whole large pages, as the lower bits of an
  address would be flags;
* RAM held nothing PRESENT in the table entries that `boot.asm` leaves unwritten;
* the cursor registers can hold every position of the screen, which has two rows
  or more;
* `buf` and `hex_buf` are long enough for the largest number (repeated division
  reaches 0 before their end), and the text that `kprint_num` has for the smallest
  int spells it;
* formats and arguments match, strings hold characters that can be printed, and a
  space is a plain character.

Every theorem about a property of a run names it in `PROJECT.json`. An inductive
invariant was checked with TLC on the run's instance before it was proved.

**`PageAllocatorProofs`** (`TypeCorrect`, `UsedPagesCorrect`, `HeldCorrect`,
`HeldInside`, `FindCorrect`, `PoolRefinement`). The inductive invariant adds
`Geometry` (the number of pages follows from the end of memory, the bits beyond are
known) to the properties: without it nothing says that a set bit is a page inside
memory. Cardinalities come from `FiniteSetTheorems`, the first free page from
well-foundedness of the natural numbers. The refinement shows each call to be one
abstract step. Bitmap and boot tables are shown to lie below the managed memory, so
that the five ranges `Init_Memory` marks do not concern it: this is why 4GB is the
limit that matters. `FindCorrect` says that the scan of
`find_contiguous_free_pages` finds the first run that is long enough, for any
bitmap. The scan is a recursive function; its proof is no induction but takes the
smallest page at which the scan would disagree with its definition.

**`MemoryMapProofs`** (`TypeCorrect`, `RangeAlwaysSane`, `ParsedCorrect`,
`EndCorrect`). The first two need a bound on the count and on the loop, and the fact
that the largest block so far lies above 1MB; they hold for 20-byte entries and
garbage too. The other two are about 24-byte entries and any report. The 32-bit store
of the count clears the lower 16 bits of the first entry's base, so the invariant
`Fits` compares the words in memory with the report as that store leaves it (`Left`):
they lie where the parser reads them, and the block chosen so far is the first
largest of the entries read so far. `ParsedCorrect` follows for reports whose first
base has no such bits (`FirstBaseKept`; the other bases are free): the report as left
is the report as given. `EndCorrect` follows for all: a base can only have become
lower.

**`ProcessProofs`** (`PidsCorrect`, `ParentsCorrect`). Neither property is inductive.
The invariant `PInv` says that slots are taken in the order of pids (slot *s* holds
pid *s*+1, taken slots are those below `next_pid - 1`), which holds because no slot
ever becomes UNUSED again, not even when a creation fails; parents then sit in
earlier slots, and `next_pid` cannot wrap.

**`ProcessStackProofs`** (`ProcessTypeCorrect`, `StacksCorrect`, `NoLeaksCorrect`,
`CountCorrect`). `SInv` extends `PInv`: slots never taken are
blank (so that a failed creation leaves no stale `user_stack` for a later one), the
frames in use are exactly the stacks and the pages of other code while the CPU runs,
and `NoSwitchYet`: while the CPU runs no context has ever been saved and the current
process is process 0. The last conjunct deserves attention. It is true because the
first switch loads 0 into RSP and the CPU is lost (`process_switch`), and
`CountTracksLive` needs it: it holds of the code as it is, and a repaired
`switch_process` has to be checked again.

**`PagingProofs`** (`PagingTypeCorrect`, `TablesOwnedCorrect`, `NoTableLeaksCorrect`,
`TablesReachedCorrect`, `TranslationCorrect`, `MapCorrect`,
`AddressSpaceRefinement`). `PagingInv` says that what hangs from the root is a tree
(no table has two parents, none is at two levels), that boot's tables lie below
managed memory and the kernel's PML4 shares the path to the low large pages, that
every table is a used page and every used page a table or somebody else's, that each
table and each held page lies where the CPU reaches it as long as it runs, and that an
address is mapped as a caller asked or as `get_physical_address` says. Only
reachability depends on the CPU running: a call may take a page away that the kernel
needs, and the tree, its owners and its translations are still what they should be.
Two lemmas carry the steps of `map_page`: hanging a fresh, cleared table into an
empty entry keeps the tree and all translations (`NewLinkTree`), writing a leaf
keeps the tree and changes one translation (`LeafTree`). A third shows that the
copy of boot's PML4 into a new page translates as the original. That a failure
half-way keeps what is already linked is one of the cases. The refinement follows:
each call changes the abstract map at one place, or not at all.

**`ScreenProofs`** (`ScreenTypeCorrect`, `CursorCorrect`, `NumbersCorrect`,
`TerminalRefinement`). `ScreenInv` adds that nothing is printed before `Init_VGA`. Most of the work is arithmetic: the two registers together hold the
position, and line feed, tab, backspace, scrolling and clamping stay within the
cells. `rmline` is recursive and treated like the allocator's scan.

`NumbersCorrect` does not depend on the state. Making digits is repeated division
(`Quotients`), reading them is repeated multiplication (`Values`), both recursive
functions on an interval; that such functions exist (`IterationExists`,
`QuotientsAre`) and agree (`ValuesAre`) is shown with the smallest place at which
they would not. Digits stored upwards and reversed spell the quotients from the last
to the first, so each step of the reading undoes a division (`ReversedNumeral`). The
minus and the smallest int are cases of their own. Smaller numbers have smaller
quotients (`QuotientsMonotone`), so one assumption about the largest number bounds
all loops.

`TerminalRefinement` needs a second invariant, `Pending`: what waits to be written
consists of characters of the terminal, and the rest of the format still finds its
arguments. The latter is stated with a set that is closed under `vkprintf`'s steps
(`Readable`), because the number of steps left is not known. The geometry is in
three lemmas: row and column determine a cell and the reverse (`PlaceOf`,
`CellPlace`), writing a cell is writing one of its row (`GridWrite`), and scrolling
drops the first row and appends a blank one (`GridScroll`). With them each operation
on linear memory is the terminal's on rows: a character with its three cases, inside
a row, at the end of a row, and in the last cell, where the position leaves the
screen and is clamped (`GlyphIs`), newline, backspace, and `rmline`, whose loop fills
the row cell by cell and may scroll with its last space (`RmlineShown`).

**`MachineProofs`** (`MachineTypeCorrect`, `FramesCorrect`, `ServiceCorrect`,
`RequestsCorrect`, `ContextCorrect`). `MachineInv` describes the
whole stack: for each level, the words its stub has pushed so far, in order, on top
of the stack that it interrupted (`Stacked`), and how far `_kmain` has come, so that
there is a gate for every event that can come (`Tables`). A saved interrupt flag is
set only if `_kmain` has enabled interrupts (`IfSaved`), an interrupt in service
belongs to the lowest level (`InService`), because handlers run with the flag clear.
`ContextCorrect` (every return gives back registers, flag and stack) holds for any
depth of nesting, any number of NMIs and any number of locals.

Only model-checked:

* `Initializes`, `CallReturns` and `PendingAccepted`: liveness under fairness;
* `SyscallEntry`, whose run is a violation;
* `BootMapExact`: what the stores of `boot.asm` amount to in RAM of every content.

## 5. Plan

All parts of the inventory that keep state are modelled, and every invariant, action
property and refinement that a passing run checks is also proved, apart from
`BootMapExact`. What could follow:

* interrupts inside a call of the screen, for which the cursor update has to be cut
  into its four port accesses;
* the TLB, so that a mapping that is replaced without `invlpg` can be seen;
* a repaired `switch_process`: `NoSwitchYet` then no longer holds, and the theorems
  that rest on it have to be proved from a new invariant.

## 6. Not modelled

* The test suite (never run by `_kmain`) and the string functions, which are pure;
  what `memset` does to an unmapped page is in `PhysMem`.
* Descriptor tables and the switches to protected and long mode: constant data and
  straight-line code without a choice.
* `enable_paging`, which sets bits that are set and is never called; debug output
  and `MemoryInfo`, which only print.
* A TLB. `map_page` changes a present entry without `invlpg`, so that
  the CPU may use the old translation for a while; nothing calls it yet.
* Memory holes below the largest block. The allocator manages everything from 1MB
  to the end of that block, whatever the report says of it; no comment or document
  claims otherwise, so that there is nothing to check it against.
* Printing inside printing (an NMI or a fault in `VGA_SetCursor`), and the red zone
  below the stack pointer, which the kernel is compiled with and an event on the
  same stack overwrites.
