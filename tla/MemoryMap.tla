------------------------------ MODULE MemoryMap ------------------------------
(***************************************************************************)
(* How the kernel learns the size of the memory.  In real mode             *)
(* boot/memory.asm asks the BIOS for the memory map, one entry per call of *)
(* int 0x15, and leaves it at 0x5000: a 16-bit count, then the entries.    *)
(* Later safe_parse_memory_map of kernel/memory.c reads it back as an      *)
(* array of 24-byte structures and derives memory_end.                     *)
(*                                                                         *)
(* Memory is modelled by the 32-bit words from 0x5002 on.  WORD stands for *)
(* 2^32 and HALF for 2^16, scaled down for TLC; addresses below WORD fit   *)
(* one word.  The BIOS is external: it returns any of ENTRIES, in words    *)
(* per entry that need not be the six it is asked for, and may fail at any *)
(* call.                                                                   *)
(***************************************************************************)
EXTENDS Integers, Sequences

CONSTANTS WORD,            \* 2^32
          HALF,            \* 2^16
          memory_start,    \* 1MB
          DEFAULT_END,     \* 512MB
          MAX_ENTRIES,     \* the 32 entries detect_memory stops at
          ENTRIES,         \* the entries the BIOS may report
          STRIDES,         \* words per entry the BIOS may write: 5 or 6
          GARBAGE          \* what low memory may hold before

MAX_MEMORY == WORD

ASSUME ScaleAssumption ==
  /\ WORD \in Nat \ {0} /\ HALF \in Nat \ {0} /\ memory_start \in Nat
  /\ DEFAULT_END \in Nat /\ MAX_ENTRIES \in 1 .. 50
  /\ memory_start < DEFAULT_END /\ DEFAULT_END <= MAX_MEMORY

ASSUME BiosAssumption ==
  /\ ENTRIES \subseteq [base : Nat, length : Nat, type : Nat]
  /\ STRIDES \subseteq {5, 6}
  /\ GARBAGE \subseteq Nat

VARIABLES pc,           \* where detect_memory or safe_parse_memory_map is
          stride,       \* words the BIOS writes per entry, CX / 4
          mem,          \* the words from 0x5002 on
          count,        \* the 16-bit word at 0x5000
          entry_count,  \* detect_memory's counter
          di,           \* its write position, in words from 0x5002
          i,            \* loop index of safe_parse_memory_map
          largest,      \* largest_block_base and largest_block_size
          memory_end,
          reported      \* history: the entries the BIOS has reported

vars == <<pc, stride, mem, count, entry_count, di, i, largest, memory_end, reported>>
detecting == <<stride, mem, count, entry_count, di, reported>>
parsing == <<i, largest, memory_end>>

MapWords == 0 .. (6 * MAX_ENTRIES - 1)

Init ==
  /\ pc = "memory_loop"
  /\ stride \in STRIDES
  /\ \E g \in GARBAGE : mem = [w \in MapWords |-> g]
  /\ count \in GARBAGE
  /\ entry_count = 0 /\ di = 0
  /\ i = 0 /\ largest = [base |-> memory_start, size |-> 0]
  /\ memory_end = DEFAULT_END
  /\ reported = <<>>

---------------------------------------------------------------------------
(* The 32-bit words of an entry as the BIOS stores it.                     *)
EntryWords(e) ==
  <<e.base % WORD, e.base \div WORD, e.length % WORD, e.length \div WORD, e.type, 1>>

(* Mutant: the limit on the number of entries is missing.                  *)
BiosEntry_NoLimit(e, more) ==
  /\ pc = "memory_loop"
  /\ mem' = [w \in MapWords |->
               IF di <= w /\ w < di + stride THEN EntryWords(e)[w - di + 1] ELSE mem[w]]
  /\ entry_count' = entry_count + 1
  /\ di' = di + stride
  /\ reported' = Append(reported, e)
  /\ pc' = IF more THEN "memory_loop" ELSE "memory_done"
  /\ UNCHANGED <<stride, count, parsing>>

(* int 0x15 succeeds; more says that EBX is not zero.                      *)
BiosEntry(e, more) ==
  /\ pc = "memory_loop"
  /\ mem' = [w \in MapWords |->
               IF di <= w /\ w < di + stride THEN EntryWords(e)[w - di + 1] ELSE mem[w]]
  /\ entry_count' = entry_count + 1
  /\ di' = di + stride
  /\ reported' = Append(reported, e)
  /\ pc' = IF more /\ entry_count' < MAX_ENTRIES THEN "memory_loop" ELSE "memory_done"
  /\ UNCHANGED <<stride, count, parsing>>

(* int 0x15 sets the carry flag: the entries so far are kept.              *)
BiosCarry ==
  /\ pc = "memory_loop"
  /\ pc' = "memory_done"
  /\ UNCHANGED <<detecting, parsing>>

(* EAX does not hold the signature.                                        *)
BiosBadSignature ==
  /\ pc = "memory_loop"
  /\ pc' = "memory_error"
  /\ UNCHANGED <<detecting, parsing>>

(* Mutant: the 32-bit count is stored over the whole first word.           *)
StoreCount_Word(n) ==
  /\ count' = n
  /\ mem' = [mem EXCEPT ![0] = 0]

(* The count is stored with a 32-bit move: its upper half, zero, falls on  *)
(* the lower half of the first entry's base.                               *)
StoreCount(n) ==
  /\ count' = n
  /\ mem' = [mem EXCEPT ![0] = @ - (@ % HALF)]

MemoryDone ==
  /\ pc = "memory_done"
  /\ StoreCount(entry_count)
  /\ pc' = "parse"
  /\ UNCHANGED <<stride, entry_count, di, reported, parsing>>

(* Mutant: detection starts again instead of giving up.                    *)
MemoryError_Retry ==
  /\ pc = "memory_error"
  /\ pc' = "memory_loop"
  /\ entry_count' = 0 /\ di' = 0 /\ reported' = <<>>
  /\ UNCHANGED <<stride, mem, count, parsing>>

MemoryError ==
  /\ pc = "memory_error"
  /\ StoreCount(0)
  /\ pc' = "parse"
  /\ UNCHANGED <<stride, entry_count, di, reported, parsing>>

---------------------------------------------------------------------------
(* entries[k] of the array of 24-byte MemoryMapEntry structures.           *)
EntryAt(k) ==
  [base   |-> mem[6 * k] + mem[6 * k + 1] * WORD,
   length |-> mem[6 * k + 2] + mem[6 * k + 3] * WORD,
   type   |-> mem[6 * k + 4]]

(* Mutant: a block across memory_start keeps its whole length.             *)
UsableBlock_Whole(e) ==
  IF e.base >= memory_start
    THEN [base |-> e.base, size |-> e.length]
    ELSE [base |-> memory_start,
          size |-> IF e.base + e.length > memory_start THEN e.length ELSE 0]

(* The part of a block above memory_start.                                 *)
UsableBlock(e) ==
  IF e.base >= memory_start
    THEN [base |-> e.base, size |-> e.length]
    ELSE [base |-> memory_start,
          size |-> IF e.base + e.length > memory_start
                     THEN (e.base + e.length) - memory_start ELSE 0]

Plausible(e) == e.base <= WORD /\ e.length <= WORD

(* One iteration of the loop of safe_parse_memory_map.                     *)
ParseEntry ==
  /\ pc = "parse"
  /\ count # 0 /\ count <= 50 /\ i < count
  /\ LET e == EntryAt(i)
     IN  largest' = IF /\ Plausible(e) /\ e.type = 1
                       /\ UsableBlock(e).size > largest.size
                      THEN UsableBlock(e) ELSE largest
  /\ i' = i + 1
  /\ UNCHANGED <<pc, memory_end, detecting>>

(* Mutant: the limit to 4GB is missing.                                    *)
BlockEnd_Unlimited(block) == block.base + block.size

BlockEnd(block) ==
  IF block.base + block.size > MAX_MEMORY THEN MAX_MEMORY ELSE block.base + block.size

(* The end of safe_parse_memory_map and Init_Memory's use of its result.   *)
ParseDone ==
  /\ pc = "parse"
  /\ count = 0 \/ count > 50 \/ i >= count
  /\ memory_end' = IF largest.size > 0 THEN BlockEnd(largest) ELSE DEFAULT_END
  /\ pc' = "initialized"
  /\ UNCHANGED <<i, largest, detecting>>

Next ==
  \/ \E e \in ENTRIES, more \in BOOLEAN : BiosEntry(e, more)
  \/ BiosCarry
  \/ BiosBadSignature
  \/ MemoryDone
  \/ MemoryError
  \/ ParseEntry
  \/ ParseDone

(* The boot code and the kernel run without waiting for anything.          *)
Spec == Init /\ [][Next]_vars /\ WF_vars(Next)

---------------------------------------------------------------------------
TypeOK ==
  /\ pc \in {"memory_loop", "memory_done", "memory_error", "parse", "initialized"}
  /\ stride \in STRIDES
  /\ mem \in [MapWords -> Nat]
  /\ count \in Nat /\ entry_count \in 0 .. MAX_ENTRIES
  /\ di \in Nat /\ i \in Nat
  /\ largest \in [base : Nat, size : Nat]
  /\ memory_end \in Nat
  /\ reported \in Seq(ENTRIES)

(* Whatever the BIOS reports, and whatever garbage the parser reads, the   *)
(* memory that Init_Memory divides into pages is not empty, begins before  *)
(* it ends and ends within 4GB: total_pages does not underflow.            *)
RangeSane == memory_start < memory_end /\ memory_end <= MAX_MEMORY

(* The blocks of the BIOS's report that the kernel can use, stated on the  *)
(* report itself: usable memory, at least one byte of it above 1MB.        *)
Usable(e) == e.type = 1 /\ Plausible(e) /\ e.base + e.length > memory_start /\ e.length > 0
SizeAbove(e) ==
  e.base + e.length - (IF e.base < memory_start THEN memory_start ELSE e.base)

FirstLargest(k) ==
  /\ Usable(reported[k])
  /\ \A j \in DOMAIN reported :
       Usable(reported[j]) =>
         \/ SizeAbove(reported[j]) < SizeAbove(reported[k])
         \/ SizeAbove(reported[j]) = SizeAbove(reported[k]) /\ k <= j

(* "Try to read the memory map and update memory_end" (memory.c:146):      *)
(* memory_end is the end of the first largest usable block the BIOS has    *)
(* reported, at most 4GB, or the default if there is none or detection     *)
(* failed (count 0).                                                       *)
ParsedAsReported ==
  pc = "initialized" =>
    IF count = 0 \/ ~\E k \in DOMAIN reported : Usable(reported[k])
      THEN memory_end = DEFAULT_END
      ELSE \E k \in DOMAIN reported :
             /\ FirstLargest(k)
             /\ memory_end = LET end == reported[k].base + reported[k].length
                             IN  IF end > MAX_MEMORY THEN MAX_MEMORY ELSE end

(* The store of the count clears the lower 16 bits of the base of the      *)
(* first entry, memory.asm:43.  It changes nothing if they are zero.       *)
FirstBaseKept == reported # <<>> => (reported[1].base % WORD) % HALF = 0

(* The same, of a BIOS that returns the 24 bytes it is asked for and whose *)
(* first entry, whatever the others are, begins at a multiple of 64KB.     *)
ParsedAsReported24 == stride = 6 /\ FirstBaseKept => ParsedAsReported

(* Of any report in 24-byte entries, the first base damaged or not:        *)
(* memory_end, unless it is the default, does not go beyond every block    *)
(* that the BIOS has reported as usable.                                   *)
EndWithinReport ==
  pc = "initialized" /\ stride = 6 /\ memory_end # DEFAULT_END =>
    \E k \in DOMAIN reported :
      reported[k].type = 1 /\ memory_end <= reported[k].base + reported[k].length

(* The kernel gets past memory detection, whatever the BIOS does: the      *)
(* bound on the number of entries ends an enumeration that never ends.     *)
Initializes == <>(pc = "initialized")
=============================================================================
