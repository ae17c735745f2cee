--------------------------- MODULE MemoryMapProofs ---------------------------
(***************************************************************************)
(* Proofs about MemoryMap, for every BIOS: any number, order and contents  *)
(* of entries, either size of entry, failures at any call, and any garbage *)
(* in the memory that the parser may read.                                 *)
(***************************************************************************)
EXTENDS MemoryMap, TLAPS

(* The parser reads only words that the map's area has.                    *)
CountBounded == pc = "parse" => count <= MAX_ENTRIES

(* The BIOS is called again only while the map has room.                   *)
LoopBounded == pc = "memory_loop" => entry_count < MAX_ENTRIES

(* A block taken as the largest lies above memory_start.                   *)
LargestAbove == largest.base >= memory_start

IInv == TypeOK /\ CountBounded /\ LoopBounded /\ LargestAbove /\ RangeSane

---------------------------------------------------------------------------
(* Clearing the lower half of a word leaves a natural number.              *)
LEMMA ClearHalf ==
  ASSUME NEW a \in Nat
  PROVE  a - (a % HALF) \in Nat
<1>1. HALF \in Nat /\ HALF > 0
  BY ScaleAssumption
<1>2. a % HALF \in Nat /\ a % HALF <= a
  BY <1>1
<1> QED
  BY <1>2

(* Each of the six words of an entry is a natural number.                  *)
LEMMA WordsOfEntry ==
  ASSUME NEW e \in ENTRIES, NEW k \in 1 .. 6
  PROVE  EntryWords(e)[k] \in Nat
<1>1. e.base \in Nat /\ e.length \in Nat /\ e.type \in Nat
  BY BiosAssumption
<1>2. WORD \in Nat /\ WORD > 0
  BY ScaleAssumption
<1>3. /\ e.base % WORD \in Nat /\ e.base \div WORD \in Nat
      /\ e.length % WORD \in Nat /\ e.length \div WORD \in Nat
  BY <1>1, <1>2
<1> QED
  BY <1>1, <1>3 DEF EntryWords

(* What the parser reads within the count is an entry, garbage or not:     *)
(* its words lie in the area of the map.                                   *)
LEMMA EntryAtType ==
  ASSUME TypeOK, CountBounded, pc = "parse", i < count
  PROVE  EntryAt(i) \in [base : Nat, length : Nat, type : Nat]
<1>1. {6 * i, 6 * i + 1, 6 * i + 2, 6 * i + 3, 6 * i + 4} \subseteq MapWords
  BY ScaleAssumption DEF TypeOK, CountBounded, MapWords
<1>2. \A w \in MapWords : mem[w] \in Nat
  BY DEF TypeOK
<1>3. \A a, b \in Nat : a + b * WORD \in Nat
  BY ScaleAssumption
<1> QED
  BY <1>1, <1>2, <1>3 DEF EntryAt

(* The part of a block that counts begins at or above memory_start.        *)
LEMMA UsableBlockType ==
  ASSUME NEW e \in [base : Nat, length : Nat, type : Nat]
  PROVE  /\ UsableBlock(e) \in [base : Nat, size : Nat]
         /\ UsableBlock(e).base >= memory_start
BY ScaleAssumption DEF UsableBlock

---------------------------------------------------------------------------
(* The state in which detect_memory starts satisfies the invariant.        *)
LEMMA InitEstablishes == Init => IInv
<1> SUFFICES ASSUME Init PROVE IInv
  OBVIOUS
<1>1. mem \in [MapWords -> Nat]
  BY BiosAssumption DEF Init
<1>2. TypeOK
  BY <1>1, ScaleAssumption, BiosAssumption DEF Init, TypeOK
<1>3. CountBounded /\ LoopBounded /\ LargestAbove /\ RangeSane
  BY ScaleAssumption DEF Init, CountBounded, LoopBounded, LargestAbove, RangeSane
<1> QED
  BY <1>2, <1>3 DEF IInv

(* An entry from the BIOS keeps the invariant: the limit leaves room.      *)
LEMMA BiosEntryPreserves ==
  ASSUME IInv, NEW e \in ENTRIES, NEW more \in BOOLEAN, BiosEntry(e, more)
  PROVE  IInv'
<1>1. mem' \in [MapWords -> Nat]
  <2>1. ASSUME NEW w \in MapWords, di <= w, w < di + stride
        PROVE  EntryWords(e)[w - di + 1] \in Nat
    <3>1. w - di + 1 \in 1 .. 6
      BY <2>1, ScaleAssumption, BiosAssumption DEF IInv, TypeOK, MapWords
    <3> QED
      BY <3>1, WordsOfEntry
  <2>2. \A w \in MapWords : mem[w] \in Nat
    BY DEF IInv, TypeOK
  <2> QED
    BY <2>1, <2>2 DEF BiosEntry
<1>2. entry_count' \in 0 .. MAX_ENTRIES /\ di' \in Nat
  BY ScaleAssumption, BiosAssumption DEF BiosEntry, IInv, TypeOK, LoopBounded
<1>3. pc' \in {"memory_loop", "memory_done"}
  BY DEF BiosEntry
<1>4. reported' \in Seq(ENTRIES)
  BY DEF BiosEntry, IInv, TypeOK
<1>5. TypeOK'
  BY <1>1, <1>2, <1>3, <1>4 DEF BiosEntry, parsing, IInv, TypeOK
<1>6. LoopBounded'
  BY <1>2, ScaleAssumption DEF BiosEntry, LoopBounded
<1>7. CountBounded' /\ LargestAbove' /\ RangeSane'
  BY <1>3 DEF BiosEntry, parsing, IInv, CountBounded, LargestAbove, RangeSane
<1> QED
  BY <1>5, <1>6, <1>7 DEF IInv

(* A failing call of the BIOS changes only the control.                    *)
LEMMA BiosFailurePreserves ==
  ASSUME IInv, BiosCarry \/ BiosBadSignature
  PROVE  IInv'
<1>1. pc' \in {"memory_done", "memory_error"} /\ UNCHANGED <<detecting, parsing>>
  BY DEF BiosCarry, BiosBadSignature
<1> QED
  BY <1>1 DEF detecting, parsing, IInv, TypeOK, CountBounded, LoopBounded,
              LargestAbove, RangeSane

(* Storing the count keeps the invariant, though it damages entry 0.       *)
LEMMA StorePreserves ==
  ASSUME IInv, MemoryDone \/ MemoryError
  PROVE  IInv'
<1>1. mem' = [mem EXCEPT ![0] = @ - (@ % HALF)] /\ count' \in {0, entry_count}
  BY DEF MemoryDone, MemoryError, StoreCount
<1>2. 0 \in MapWords /\ mem[0] - (mem[0] % HALF) \in Nat
  BY ScaleAssumption, ClearHalf DEF IInv, TypeOK, MapWords
<1>3. mem' \in [MapWords -> Nat]
  BY <1>1, <1>2 DEF IInv, TypeOK
<1>4. count' \in Nat /\ count' <= MAX_ENTRIES
  BY <1>1, ScaleAssumption DEF IInv, TypeOK
<1>5. pc' = "parse" /\ UNCHANGED <<stride, entry_count, di, reported, parsing>>
  BY DEF MemoryDone, MemoryError
<1>6. TypeOK'
  BY <1>3, <1>4, <1>5 DEF parsing, IInv, TypeOK
<1> QED
  BY <1>4, <1>5, <1>6 DEF parsing, IInv, CountBounded, LoopBounded, LargestAbove,
                          RangeSane

(* One iteration of the parser's loop keeps the invariant.                 *)
LEMMA ParseEntryPreserves ==
  ASSUME IInv, ParseEntry
  PROVE  IInv'
<1>1. EntryAt(i) \in [base : Nat, length : Nat, type : Nat]
  BY EntryAtType DEF IInv, ParseEntry
<1>2. largest' \in {UsableBlock(EntryAt(i)), largest}
  BY DEF ParseEntry
<1>3. largest' \in [base : Nat, size : Nat] /\ largest'.base >= memory_start
  BY <1>1, <1>2, UsableBlockType DEF IInv, TypeOK, LargestAbove
<1>4. i' \in Nat /\ UNCHANGED <<pc, memory_end, detecting>>
  BY DEF ParseEntry, IInv, TypeOK
<1>5. TypeOK'
  BY <1>3, <1>4 DEF detecting, IInv, TypeOK
<1> QED
  BY <1>3, <1>4, <1>5 DEF detecting, IInv, CountBounded, LoopBounded, LargestAbove,
                          RangeSane

(* The end that the parser derives is above memory_start and within 4GB.   *)
LEMMA ParseDonePreserves ==
  ASSUME IInv, ParseDone
  PROVE  IInv'
<1>1. /\ largest.base \in Nat /\ largest.size \in Nat
      /\ largest.base >= memory_start
  BY DEF IInv, TypeOK, LargestAbove
<1>2. memory_end' \in Nat /\ memory_start < memory_end' /\ memory_end' <= MAX_MEMORY
  BY <1>1, ScaleAssumption DEF ParseDone, BlockEnd, MAX_MEMORY
<1>3. pc' = "initialized" /\ UNCHANGED <<i, largest, detecting>>
  BY DEF ParseDone
<1>4. TypeOK'
  BY <1>2, <1>3 DEF detecting, IInv, TypeOK
<1> QED
  BY <1>2, <1>3, <1>4 DEF detecting, IInv, CountBounded, LoopBounded, LargestAbove,
                          RangeSane

(* Every step keeps the invariant.                                         *)
LEMMA NextPreserves == IInv /\ [Next]_vars => IInv'
<1> SUFFICES ASSUME IInv, [Next]_vars PROVE IInv'
  OBVIOUS
<1>1. CASE UNCHANGED vars
  BY <1>1 DEF vars, IInv, TypeOK, CountBounded, LoopBounded, LargestAbove, RangeSane
<1> QED
  BY <1>1, BiosEntryPreserves, BiosFailurePreserves, StorePreserves,
     ParseEntryPreserves, ParseDonePreserves DEF Next

(* The inductive invariant holds of every reachable state.                 *)
THEOREM Invariance == Spec => []IInv
BY InitEstablishes, NextPreserves, PTL DEF Spec

(* Types, and the bound on the entries that are stored.                    *)
THEOREM TypeCorrect == Spec => []TypeOK
<1>1. IInv => TypeOK
  BY DEF IInv
<1> QED
  BY <1>1, Invariance, PTL

(* The managed memory is never empty and never ends above 4GB, even if     *)
(* the entries are 20 bytes long and the parser reads garbage.             *)
THEOREM RangeAlwaysSane == Spec => []RangeSane
<1>1. IInv => RangeSane
  BY DEF IInv
<1> QED
  BY <1>1, Invariance, PTL

---------------------------------------------------------------------------
(* How 24-byte entries are read.  The store of the count clears the lower  *)
(* 16 bits of the base of the entry that comes first: Left(k) is what it   *)
(* leaves of entry k, and WordLeft(k, j) of its word j.  The argument is   *)
(* about these entries; the report enters at the end.                      *)
LowHalf == (reported[1].base % WORD) % HALF

Left(k) ==
  [base   |-> IF k = 1 THEN reported[k].base - LowHalf ELSE reported[k].base,
   length |-> reported[k].length, type |-> reported[k].type]

WordLeft(k, j) ==
  IF k = 1 /\ j = 0 THEN EntryWords(reported[k])[1] - LowHalf
                   ELSE EntryWords(reported[k])[j + 1]

(* The entries lie at the places where the parser reads them.              *)
Stored ==
  /\ di = 6 * entry_count /\ Len(reported) = entry_count
  /\ \A k \in 1 .. Len(reported), j \in 0 .. 5 :
       mem[6 * (k - 1) + j] =
         IF pc \in {"parse", "initialized"} THEN WordLeft(k, j)
                                           ELSE EntryWords(reported[k])[j + 1]

Counted == pc \in {"parse", "initialized"} => count \in {0, entry_count}

(* Entry k is the first largest of the first n.                            *)
BestOf(k, n) ==
  /\ Usable(Left(k))
  /\ \A j \in 1 .. n :
       Usable(Left(j)) =>
         \/ SizeAbove(Left(j)) < SizeAbove(Left(k))
         \/ SizeAbove(Left(j)) = SizeAbove(Left(k)) /\ k <= j

(* The block taken as the largest is the best of the entries read so far.  *)
LargestOf(n) ==
  \/ largest.size = 0 /\ \A k \in 1 .. n : ~Usable(Left(k))
  \/ \E k \in 1 .. n : /\ BestOf(k, n)
                       /\ largest = UsableBlock(Left(k))
                       /\ largest.size = SizeAbove(Left(k))

Progress ==
  /\ pc \in {"memory_loop", "memory_done", "memory_error"} \/ count = 0 =>
       i = 0 /\ largest.size = 0
  /\ pc \in {"parse", "initialized"} => i <= count
  /\ LargestOf(i)

(* memory_end follows what is left of the report.                          *)
ParsedAsLeft ==
  pc = "initialized" =>
    IF count = 0 \/ ~\E k \in DOMAIN reported : Usable(Left(k))
      THEN memory_end = DEFAULT_END
      ELSE \E k \in DOMAIN reported :
             /\ BestOf(k, Len(reported))
             /\ memory_end = LET end == Left(k).base + Left(k).length
                             IN  IF end > MAX_MEMORY THEN MAX_MEMORY ELSE end

---------------------------------------------------------------------------
(* A number is made of its two words.                                      *)
LEMMA TwoWords ==
  ASSUME NEW a \in Nat
  PROVE  (a % WORD) + (a \div WORD) * WORD = a
<1>1. \A W \in Nat : W > 0 => (a % W) + (a \div W) * W = a
  BY SMT
<1> QED
  BY <1>1, ScaleAssumption

(* The words of an entry are those of its fields.                          *)
LEMMA WordsAre ==
  ASSUME NEW e
  PROVE  /\ EntryWords(e)[1] = e.base % WORD /\ EntryWords(e)[2] = e.base \div WORD
         /\ EntryWords(e)[3] = e.length % WORD /\ EntryWords(e)[4] = e.length \div WORD
         /\ EntryWords(e)[5] = e.type
BY DEF EntryWords

(* All of this depends on the report only.                                 *)
LEMMA LeftKept ==
  ASSUME reported' = reported
  PROVE  /\ \A k : Left(k)' = Left(k)
         /\ \A k, j : WordLeft(k, j)' = WordLeft(k, j)
         /\ \A k, n : BestOf(k, n)' <=> BestOf(k, n)
<1>1. \A k : Left(k)' = Left(k)
  BY DEF Left, LowHalf
<1>2. \A k, j : WordLeft(k, j)' = WordLeft(k, j)
  BY DEF WordLeft, LowHalf
<1>3. \A k, n : BestOf(k, n)' <=> BestOf(k, n)
  BY <1>1 DEF BestOf
<1> QED
  BY <1>1, <1>2, <1>3

(* What is left of an entry is an entry, and does not end later.           *)
LEMMA LeftType ==
  ASSUME reported \in Seq(ENTRIES), NEW k \in 1 .. Len(reported)
  PROVE  /\ Left(k) \in [base : Nat, length : Nat, type : Nat]
         /\ Left(k).base <= reported[k].base /\ reported[k].base \in Nat
         /\ Left(k).length = reported[k].length /\ Left(k).type = reported[k].type
         /\ FirstBaseKept => Left(k) = reported[k]
<1>1. reported[k] \in [base : Nat, length : Nat, type : Nat]
  BY BiosAssumption
<1>2. CASE k = 1
  <2>1. WORD \in Nat /\ WORD > 0 /\ HALF \in Nat /\ HALF > 0
    BY ScaleAssumption
  <2>2. PICK b \in Nat : b = reported[1].base
    BY <1>1, <1>2
  <2>3. b % WORD \in Nat /\ b % WORD <= b
    BY <2>1, <2>2
  <2>4. (b % WORD) % HALF \in Nat /\ (b % WORD) % HALF <= b % WORD
    BY <2>1, <2>3
  <2>5. LowHalf \in Nat /\ LowHalf <= reported[1].base
    BY <2>2, <2>3, <2>4 DEF LowHalf
  <2>6. FirstBaseKept => LowHalf = 0
    BY <1>2 DEF FirstBaseKept, LowHalf
  <2> QED
    BY <1>1, <1>2, <2>5, <2>6 DEF Left
<1>3. CASE k # 1
  BY <1>1, <1>3 DEF Left
<1> QED
  BY <1>2, <1>3

(* The parser reads back what the store of the count has left.             *)
LEMMA ReadBack ==
  ASSUME Stored, pc = "parse", reported \in Seq(ENTRIES), NEW k \in 1 .. Len(reported)
  PROVE  EntryAt(k - 1) = Left(k)
<1>1. PICK e \in ENTRIES : e = reported[k]
  OBVIOUS
<1>2. e \in [base : Nat, length : Nat, type : Nat]
  BY BiosAssumption
<1>3. \A j \in 0 .. 5 : mem[6 * (k - 1) + j] = WordLeft(k, j)
  BY DEF Stored
<1>4. PICK b \in Nat : b = 6 * (k - 1)
  <2>1. k - 1 \in Nat
    OBVIOUS
  <2> QED
    BY <2>1
<1>5. PICK low : low = IF k = 1 THEN LowHalf ELSE 0
  OBVIOUS
<1>6. /\ mem[b] = (e.base % WORD) - low /\ mem[b + 1] = e.base \div WORD
      /\ mem[b + 2] = e.length % WORD /\ mem[b + 3] = e.length \div WORD
      /\ mem[b + 4] = e.type
  <2>1. \A j \in 0 .. 5 : mem[b + j] = WordLeft(k, j)
    BY <1>3, <1>4
  <2>2. /\ mem[b + 0] = WordLeft(k, 0) /\ mem[b + 1] = WordLeft(k, 1)
        /\ mem[b + 2] = WordLeft(k, 2) /\ mem[b + 3] = WordLeft(k, 3)
        /\ mem[b + 4] = WordLeft(k, 4)
    BY <2>1
  <2>3. b + 0 = b
    BY <1>4
  <2>4. e.base % WORD \in Int
    BY <1>2, ScaleAssumption
  <2>5. WordLeft(k, 0) = (e.base % WORD) - low
    BY <1>1, <1>5, <2>4, WordsAre DEF WordLeft
  <2>6. /\ WordLeft(k, 1) = EntryWords(e)[2] /\ WordLeft(k, 2) = EntryWords(e)[3]
        /\ WordLeft(k, 3) = EntryWords(e)[4] /\ WordLeft(k, 4) = EntryWords(e)[5]
    BY <1>1 DEF WordLeft
  <2> QED
    BY <2>2, <2>3, <2>5, <2>6, WordsAre
<1>7. /\ mem[b] + mem[b + 1] * WORD = e.base - low
      /\ mem[b + 2] + mem[b + 3] * WORD = e.length
  <2>1. e.base \in Nat /\ e.length \in Nat
    BY <1>2
  <2>2. /\ (e.base % WORD) + (e.base \div WORD) * WORD = e.base
        /\ (e.length % WORD) + (e.length \div WORD) * WORD = e.length
    BY <2>1, TwoWords
  <2>3. low \in Int
    <3>1. WORD \in Nat /\ WORD > 0 /\ HALF \in Nat /\ HALF > 0
      BY ScaleAssumption
    <3>2. k = 1 => e.base % WORD \in Nat /\ LowHalf = (e.base % WORD) % HALF
      BY <1>1, <2>1, <3>1 DEF LowHalf
    <3> QED
      BY <1>5, <3>1, <3>2
  <2>4. PICK p : p = (e.base \div WORD) * WORD
    OBVIOUS
  <2>5. p \in Int /\ e.base % WORD \in Int
    BY <2>1, <2>4, ScaleAssumption
  <2> QED
    BY <1>6, <2>2, <2>3, <2>4, <2>5
<1>8. EntryAt(k - 1) = [base |-> e.base - low, length |-> e.length, type |-> e.type]
  BY <1>4, <1>6, <1>7 DEF EntryAt
<1>9. Left(k) = [base |-> e.base - low, length |-> e.length, type |-> e.type]
  BY <1>1, <1>2, <1>5 DEF Left
<1> QED
  BY <1>8, <1>9

(* The parser's conditions and sizes are those stated on the report.       *)
LEMMA UsableSizes ==
  ASSUME NEW e \in [base : Nat, length : Nat, type : Nat]
  PROVE  /\ Usable(e) <=> Plausible(e) /\ e.type = 1 /\ UsableBlock(e).size > 0
         /\ Usable(e) => /\ UsableBlock(e).size = SizeAbove(e)
                         /\ SizeAbove(e) \in Nat \ {0}
                         /\ UsableBlock(e).base + UsableBlock(e).size = e.base + e.length
<1>1. e.base \in Nat /\ e.length \in Nat /\ memory_start \in Nat
  BY ScaleAssumption
<1>2. CASE e.base >= memory_start
  <2>1. UsableBlock(e).base = e.base /\ UsableBlock(e).size = e.length
    BY <1>2 DEF UsableBlock
  <2> QED
    BY <1>1, <1>2, <2>1 DEF Usable, SizeAbove
<1>3. CASE e.base < memory_start
  <2>1. /\ UsableBlock(e).base = memory_start
        /\ UsableBlock(e).size = IF e.base + e.length > memory_start
                                   THEN (e.base + e.length) - memory_start ELSE 0
    BY <1>1, <1>3 DEF UsableBlock
  <2> QED
    BY <1>1, <1>3, <2>1 DEF Usable, SizeAbove
<1> QED
  BY <1>1, <1>2, <1>3

---------------------------------------------------------------------------
(* The steps, for 24-byte entries.                                         *)
(* For entries of 24 bytes this is inductive, together with IInv.          *)
Fits == Stored /\ Counted /\ Progress /\ ParsedAsLeft

(* Nothing is reported yet.                                                *)
LEMMA InitFits == Init => Fits
<1> SUFFICES ASSUME Init PROVE Fits
  OBVIOUS
<1>1. Stored
  BY DEF Init, Stored
<1>2. Counted /\ ParsedAsLeft
  BY DEF Init, Counted, ParsedAsLeft
<1>3. Progress
  BY ScaleAssumption DEF Init, Progress, LargestOf
<1> QED
  BY <1>1, <1>2, <1>3 DEF Fits

(* The BIOS writes six words behind those of the earlier entries.          *)
LEMMA BiosEntryFits ==
  ASSUME IInv, stride = 6, Fits, NEW e \in ENTRIES, NEW more \in BOOLEAN, BiosEntry(e, more)
  PROVE  Fits'
<1>1. /\ di = 6 * entry_count /\ Len(reported) = entry_count /\ entry_count \in Nat
      /\ entry_count < MAX_ENTRIES /\ MAX_ENTRIES \in Nat /\ reported \in Seq(ENTRIES)
  BY ScaleAssumption DEF IInv, TypeOK, LoopBounded, Fits, Stored, BiosEntry
<1>2. /\ entry_count' = entry_count + 1 /\ di' = di + 6
      /\ reported' = Append(reported, e)
      /\ \A w \in MapWords : mem'[w] = IF di <= w /\ w < di + 6
                                         THEN EntryWords(e)[w - di + 1] ELSE mem[w]
      /\ pc = "memory_loop" /\ pc' \in {"memory_loop", "memory_done"}
      /\ UNCHANGED <<count, i, largest, memory_end>>
  BY DEF BiosEntry, parsing
<1>3. ASSUME NEW k \in 1 .. Len(reported'), NEW j \in 0 .. 5
      PROVE  mem'[6 * (k - 1) + j] = EntryWords(reported'[k])[j + 1]
  <2>1. Len(reported') = entry_count + 1
    BY <1>1, <1>2
  <2>2. PICK w : w = 6 * (k - 1) + j
    OBVIOUS
  <2>3. w \in MapWords
    BY <1>1, <2>1, <2>2 DEF MapWords
  <2>4. CASE k = entry_count + 1
    <3>1. di <= w /\ w < di + 6 /\ w - di + 1 = j + 1
      BY <1>1, <2>2, <2>4
    <3>2. reported'[k] = e
      BY <1>1, <1>2, <2>4
    <3> QED
      BY <1>2, <2>2, <2>3, <3>1, <3>2
  <2>5. CASE k <= entry_count
    <3>1. ~(di <= w /\ w < di + 6)
      BY <1>1, <2>2, <2>5
    <3>2. k \in 1 .. Len(reported) /\ reported'[k] = reported[k]
      BY <1>1, <1>2, <2>5
    <3>3. mem[6 * (k - 1) + j] = EntryWords(reported[k])[j + 1]
      BY <1>2, <3>2 DEF Fits, Stored
    <3> QED
      BY <1>2, <2>2, <2>3, <3>1, <3>2, <3>3
  <2> QED
    BY <1>1, <2>1, <2>4, <2>5
<1>4. Stored'
  <2>1. di' = 6 * entry_count' /\ Len(reported') = entry_count'
    BY <1>1, <1>2
  <2> QED
    BY <1>2, <1>3, <2>1 DEF Stored
<1>5. Counted' /\ ParsedAsLeft'
  BY <1>2 DEF Counted, ParsedAsLeft
<1>6. i = 0 /\ largest.size = 0
  BY <1>2 DEF Fits, Progress
<1>7. Progress'
  BY <1>2, <1>6 DEF Progress, LargestOf
<1> QED
  BY <1>4, <1>5, <1>7 DEF Fits

(* A failing call of the BIOS keeps what is stored.                        *)
LEMMA BiosFailureFits ==
  ASSUME Fits, BiosCarry \/ BiosBadSignature
  PROVE  Fits'
<1>1. /\ pc = "memory_loop" /\ pc' \in {"memory_done", "memory_error"}
      /\ UNCHANGED <<detecting, parsing>>
  BY DEF BiosCarry, BiosBadSignature
<1>2. Stored'
  BY <1>1 DEF Fits, Stored, detecting
<1>3. Counted' /\ ParsedAsLeft'
  BY <1>1 DEF Counted, ParsedAsLeft
<1>4. Progress'
  BY <1>1, LeftKept DEF Fits, Progress, LargestOf, detecting, parsing
<1> QED
  BY <1>2, <1>3, <1>4 DEF Fits

(* Storing the count clears the lower half of the base of the first entry, *)
(* if there is one, and nothing else.                                      *)
LEMMA StoreFits ==
  ASSUME IInv, stride = 6, Fits, MemoryDone \/ MemoryError
  PROVE  Fits'
<1>1. /\ mem' = [mem EXCEPT ![0] = @ - (@ % HALF)] /\ count' \in {0, entry_count}
      /\ pc \in {"memory_done", "memory_error"} /\ pc' = "parse"
      /\ UNCHANGED <<entry_count, di, reported, i, largest>>
  BY DEF MemoryDone, MemoryError, StoreCount, parsing
<1>2. reported \in Seq(ENTRIES) /\ mem \in [MapWords -> Nat] /\ entry_count \in Nat
  BY ScaleAssumption DEF IInv, TypeOK
<1>3. ASSUME NEW k \in 1 .. Len(reported), NEW j \in 0 .. 5
      PROVE  mem'[6 * (k - 1) + j] = WordLeft(k, j)
  <2>1. PICK w : w = 6 * (k - 1) + j
    OBVIOUS
  <2>2. mem[w] = EntryWords(reported[k])[j + 1]
    BY <1>1, <2>1 DEF Fits, Stored
  <2>3. CASE w = 0
    <3>1. k = 1 /\ j = 0
      BY <2>1, <2>3
    <3>2. mem[0] = EntryWords(reported[k])[1] /\ mem[0] = reported[k].base % WORD
      BY <2>2, <2>3, <3>1, WordsAre
    <3>3. 0 \in MapWords
      BY ScaleAssumption DEF MapWords
    <3>4. mem'[0] = mem[0] - (mem[0] % HALF)
      BY <1>1, <1>2, <3>3
    <3> QED
      BY <2>1, <2>3, <3>1, <3>2, <3>4 DEF WordLeft, LowHalf
  <2>4. CASE w # 0
    <3>1. mem'[w] = mem[w]
      BY <1>1, <1>2, <2>4
    <3>2. ~(k = 1 /\ j = 0)
      BY <2>1, <2>4
    <3> QED
      BY <2>1, <2>2, <3>1, <3>2 DEF WordLeft
  <2> QED
    BY <2>3, <2>4
<1>4. Stored'
  BY <1>1, <1>3, LeftKept DEF Fits, Stored
<1>5. Counted' /\ ParsedAsLeft'
  BY <1>1 DEF Counted, ParsedAsLeft
<1>6. i = 0 /\ largest.size = 0 /\ count' \in Nat
  BY <1>1, <1>2 DEF Fits, Progress
<1>7. Progress'
  BY <1>1, <1>6 DEF Progress, LargestOf
<1> QED
  BY <1>4, <1>5, <1>7 DEF Fits

(* One iteration of the parser looks at one entry of the report more.      *)
LEMMA ParseEntryFits ==
  ASSUME IInv, stride = 6, Fits, ParseEntry
  PROVE  Fits'
<1>1. /\ pc = "parse" /\ count # 0 /\ i < count /\ i' = i + 1 /\ i \in Nat /\ count \in Nat
      /\ UNCHANGED <<pc, memory_end, detecting>>
      /\ reported \in Seq(ENTRIES)
  BY DEF ParseEntry, IInv, TypeOK
<1>2. UNCHANGED <<stride, mem, count, entry_count, di, reported>>
  BY <1>1 DEF detecting
<1>3. Stored'
  BY <1>1, <1>2, LeftKept DEF Fits, Stored
<1>4. Counted' /\ ParsedAsLeft'
  BY <1>1, <1>2 DEF Fits, Counted, ParsedAsLeft
<1>5. i + 1 \in 1 .. Len(reported)
  BY <1>1 DEF Fits, Counted, Stored
<1>6. PICK n \in 1 .. Len(reported) : n = i + 1
  BY <1>5
<1>7. PICK e \in [base : Nat, length : Nat, type : Nat] : e = Left(n)
  BY <1>1, LeftType
<1>8. EntryAt(i) = e
  <2>1. i = n - 1
    BY <1>1, <1>6
  <2>2. EntryAt(n - 1) = Left(n)
    BY <1>1, ReadBack DEF Fits
  <2> QED
    BY <1>7, <2>1, <2>2
<1>9. e \in [base : Nat, length : Nat, type : Nat]
  BY <1>7
<1>10. largest' = IF Plausible(e) /\ e.type = 1 /\ UsableBlock(e).size > largest.size
                    THEN UsableBlock(e) ELSE largest
  BY <1>8 DEF ParseEntry
<1>11. /\ Usable(e) <=> Plausible(e) /\ e.type = 1 /\ UsableBlock(e).size > 0
       /\ Usable(e) => UsableBlock(e).size = SizeAbove(e) /\ SizeAbove(e) \in Nat \ {0}
  BY <1>9, UsableSizes
<1>12. UsableBlock(e).size \in Nat /\ largest.size \in Nat
  BY <1>9, UsableBlockType DEF IInv, TypeOK
<1>13. \A k \in 1 .. n : k \in 1 .. i \/ k = n
  BY <1>1, <1>6
<1>14. \A k \in 1 .. i : k \in 1 .. n /\ k < n
  BY <1>1, <1>6
<1>15. \A k \in 1 .. n : Usable(Left(k)) => SizeAbove(Left(k)) \in Nat \ {0}
  <2> SUFFICES ASSUME NEW k \in 1 .. n, Usable(Left(k))
               PROVE  SizeAbove(Left(k)) \in Nat \ {0}
    OBVIOUS
  <2>1. k \in 1 .. Len(reported)
    BY <1>6
  <2>2. Left(k) \in [base : Nat, length : Nat, type : Nat]
    BY <1>1, <2>1, LeftType
  <2> QED
    BY <2>2, UsableSizes
<1>16. LargestOf(i)
  BY DEF Fits, Progress
<1>17. \/ largest'.size = 0 /\ \A k \in 1 .. n : ~Usable(Left(k))
       \/ \E k \in 1 .. n : /\ BestOf(k, n)
                            /\ largest' = UsableBlock(Left(k))
                            /\ largest'.size = SizeAbove(Left(k))
  <2>1. CASE largest.size = 0 /\ \A k \in 1 .. i : ~Usable(Left(k))
    <3>1. CASE Usable(e)
      <4>1. largest' = UsableBlock(e) /\ largest'.size = SizeAbove(e)
        BY <1>10, <1>11, <2>1, <3>1
      <4>2. BestOf(n, n)
        BY <1>7, <1>13, <2>1, <3>1 DEF BestOf
      <4> QED
        BY <1>6, <1>7, <4>1, <4>2
    <3>2. CASE ~Usable(e)
      <4>1. largest' = largest
        BY <1>10, <1>11, <2>1, <3>2
      <4> QED
        BY <1>7, <1>13, <2>1, <3>2, <4>1
    <3> QED
      BY <3>1, <3>2
  <2>2. CASE \E k \in 1 .. i : /\ BestOf(k, i)
                               /\ largest = UsableBlock(Left(k))
                               /\ largest.size = SizeAbove(Left(k))
    <3>1. PICK k \in 1 .. i : /\ BestOf(k, i)
                              /\ largest = UsableBlock(Left(k))
                              /\ largest.size = SizeAbove(Left(k))
      BY <2>2
    <3>2. /\ k \in 1 .. n /\ k < n /\ Usable(Left(k))
          /\ SizeAbove(Left(k)) \in Nat \ {0}
      BY <1>14, <1>15, <3>1 DEF BestOf
    <3>3. CASE Usable(e) /\ SizeAbove(e) > largest.size
      <4>1. largest' = UsableBlock(e) /\ largest'.size = SizeAbove(e)
        BY <1>10, <1>11, <3>3
      <4>2. ASSUME NEW j \in 1 .. n, Usable(Left(j))
            PROVE  \/ SizeAbove(Left(j)) < SizeAbove(e)
                   \/ SizeAbove(Left(j)) = SizeAbove(e) /\ n <= j
        <5>1. CASE j = n
          BY <1>6, <1>7, <5>1
        <5>2. CASE j \in 1 .. i
          <6>1. SizeAbove(Left(j)) <= SizeAbove(Left(k))
            BY <1>15, <3>1, <3>2, <4>2, <5>2 DEF BestOf
          <6> QED
            BY <1>11, <1>15, <3>1, <3>2, <3>3, <4>2, <6>1
        <5> QED
          BY <1>13, <5>1, <5>2
      <4>3. BestOf(n, n)
        BY <1>7, <3>3, <4>2 DEF BestOf
      <4> QED
        BY <1>6, <1>7, <4>1, <4>3
    <3>4. CASE ~(Usable(e) /\ SizeAbove(e) > largest.size)
      <4>1. largest' = largest
        BY <1>10, <1>11, <1>12, <3>1, <3>2, <3>4
      <4>2. ASSUME NEW j \in 1 .. n, Usable(Left(j))
            PROVE  \/ SizeAbove(Left(j)) < SizeAbove(Left(k))
                   \/ SizeAbove(Left(j)) = SizeAbove(Left(k)) /\ k <= j
        <5>1. CASE j = n
          <6>1. SizeAbove(Left(j)) <= SizeAbove(Left(k))
            BY <1>7, <1>11, <3>1, <3>2, <3>4, <4>2, <5>1
          <6> QED
            BY <1>15, <3>2, <4>2, <5>1, <6>1
        <5>2. CASE j \in 1 .. i
          BY <3>1, <4>2, <5>2 DEF BestOf
        <5> QED
          BY <1>13, <5>1, <5>2
      <4>3. BestOf(k, n)
        BY <3>2, <4>2 DEF BestOf
      <4> QED
        BY <3>1, <3>2, <4>1, <4>3
    <3> QED
      BY <3>3, <3>4
  <2> QED
    BY <1>16, <2>1, <2>2 DEF LargestOf
<1>18. LargestOf(i)'
  BY <1>1, <1>2, <1>6, <1>17, LeftKept DEF LargestOf
<1>19. Progress'
  BY <1>1, <1>2, <1>18 DEF Progress
<1> QED
  BY <1>3, <1>4, <1>19 DEF Fits

(* When all entries are read, memory_end is the end of the best of them.   *)
LEMMA ParseDoneFits ==
  ASSUME IInv, stride = 6, Fits, ParseDone
  PROVE  Fits'
<1>1. /\ pc = "parse" /\ pc' = "initialized" /\ (count = 0 \/ count > 50 \/ i >= count)
      /\ memory_end' = IF largest.size > 0 THEN BlockEnd(largest) ELSE DEFAULT_END
      /\ UNCHANGED <<i, largest, stride, mem, count, entry_count, di, reported>>
  BY DEF ParseDone, detecting
<1>2. /\ i \in Nat /\ count \in Nat /\ count <= 50 /\ i <= count /\ count \in {0, entry_count}
      /\ Len(reported) = entry_count /\ reported \in Seq(ENTRIES) /\ LargestOf(i)
      /\ count = 0 => largest.size = 0
  <2>1. /\ i \in Nat /\ count \in Nat /\ reported \in Seq(ENTRIES)
        /\ count <= MAX_ENTRIES /\ MAX_ENTRIES \in 1 .. 50
    BY <1>1, ScaleAssumption DEF IInv, TypeOK, CountBounded
  <2>2. count \in {0, entry_count} /\ Len(reported) = entry_count
    BY <1>1 DEF Fits, Counted, Stored
  <2>3. i <= count /\ LargestOf(i) /\ (count = 0 => largest.size = 0)
    BY <1>1 DEF Fits, Progress
  <2> QED
    BY <2>1, <2>2, <2>3
<1>3. Stored' /\ Counted'
  BY <1>1, LeftKept DEF Fits, Stored, Counted
<1>4. Progress'
  BY <1>1, LeftKept DEF Fits, Progress, LargestOf
<1>5. ParsedAsLeft'
  <2>1. CASE count = 0
    BY <1>1, <1>2, <2>1 DEF ParsedAsLeft
  <2>2. CASE count # 0
    <3>1. DOMAIN reported = 1 .. i
      BY <1>1, <1>2, <2>2
    <3>2. CASE largest.size = 0 /\ \A k \in 1 .. i : ~Usable(Left(k))
      BY <1>1, <3>1, <3>2, LeftKept DEF ParsedAsLeft
    <3>3. CASE \E k \in 1 .. i : /\ BestOf(k, i)
                                 /\ largest = UsableBlock(Left(k))
                                 /\ largest.size = SizeAbove(Left(k))
      <4>1. PICK k \in 1 .. i : /\ BestOf(k, i)
                                /\ largest = UsableBlock(Left(k))
                                /\ largest.size = SizeAbove(Left(k))
        BY <3>3
      <4>2. PICK e \in [base : Nat, length : Nat, type : Nat] : e = Left(k)
        BY <1>2, <3>1, LeftType
      <4>3. Usable(e)
        BY <4>1, <4>2 DEF BestOf
      <4>4. largest.size \in Nat \ {0} /\ largest.base + largest.size = e.base + e.length
        BY <4>1, <4>2, <4>3, UsableSizes
      <4>5. memory_end' = IF e.base + e.length > MAX_MEMORY THEN MAX_MEMORY
                            ELSE e.base + e.length
        BY <1>1, <4>4 DEF BlockEnd
      <4>6. i = Len(reported)
        BY <1>1, <1>2, <2>2
      <4>7. BestOf(k, Len(reported))' /\ Left(k)' = Left(k)
        BY <1>1, <4>1, <4>6, LeftKept
      <4> QED
        BY <1>1, <2>2, <3>1, <4>2, <4>3, <4>5, <4>7 DEF ParsedAsLeft
    <3> QED
      BY <1>2, <3>2, <3>3 DEF LargestOf
  <2> QED
    BY <2>1, <2>2
<1> QED
  BY <1>3, <1>4, <1>5 DEF Fits

(* Every step keeps what is stored, counted and chosen.                    *)
LEMMA NextFits ==
  ASSUME IInv, stride = 6, Fits, [Next]_vars
  PROVE  Fits'
<1>1. CASE UNCHANGED vars
  BY <1>1, LeftKept DEF vars, Fits, Stored, Counted, Progress, LargestOf, ParsedAsLeft
<1> QED
  BY <1>1, BiosEntryFits, BiosFailureFits, StoreFits, ParseEntryFits, ParseDoneFits DEF Next

(* The number of words per entry is the BIOS's and does not change.        *)
LEMMA StrideKept ==
  ASSUME [Next]_vars
  PROVE  stride' = stride
BY DEF Next, vars, BiosEntry, BiosCarry, BiosBadSignature, MemoryDone, MemoryError,
       ParseEntry, ParseDone, detecting

(* With 24-byte entries everything above holds in every reachable state.   *)
LEMMA FitsInvariant == Spec => [](IInv /\ (stride = 6 => Fits))
<1> DEFINE Inv24 == stride = 6 => Fits
<1>1. Init => Inv24
  BY InitFits
<1>2. IInv /\ Inv24 /\ [Next]_vars => Inv24'
  BY NextFits, StrideKept
<1> QED
  BY <1>1, <1>2, Invariance, PTL DEF Spec

(* memory_end is the end of the first largest usable block of the BIOS's   *)
(* report, whatever the report, if entries have 24 bytes and the base of   *)
(* the first one has no lower half for the store of the count to clear.    *)
THEOREM ParsedCorrect == Spec => []ParsedAsReported24
<1>1. IInv /\ (stride = 6 => Fits) => ParsedAsReported24
  <2> SUFFICES ASSUME IInv, Fits, FirstBaseKept PROVE ParsedAsReported
    BY DEF ParsedAsReported24
  <2>1. reported \in Seq(ENTRIES) /\ DOMAIN reported = 1 .. Len(reported)
    BY DEF IInv, TypeOK
  <2>2. \A k \in DOMAIN reported : Left(k) = reported[k]
    BY <2>1, LeftType
  <2>3. \A k \in DOMAIN reported : BestOf(k, Len(reported)) => FirstLargest(k)
    BY <2>1, <2>2 DEF BestOf, FirstLargest
  <2> QED
    <3> SUFFICES ASSUME pc = "initialized" PROVE ParsedAsReported
      BY DEF ParsedAsReported
    <3>1. CASE count = 0 \/ ~\E k \in DOMAIN reported : Usable(Left(k))
      BY <2>2, <3>1 DEF Fits, ParsedAsLeft, ParsedAsReported
    <3>2. CASE ~(count = 0 \/ ~\E k \in DOMAIN reported : Usable(Left(k)))
      <4>1. PICK k \in DOMAIN reported :
              /\ BestOf(k, Len(reported))
              /\ memory_end = LET end == Left(k).base + Left(k).length
                              IN  IF end > MAX_MEMORY THEN MAX_MEMORY ELSE end
        BY <3>2 DEF Fits, ParsedAsLeft
      <4>2. FirstLargest(k) /\ Left(k) = reported[k]
        BY <2>2, <2>3, <4>1
      <4> QED
        BY <2>2, <3>2, <4>1, <4>2 DEF ParsedAsReported
    <3> QED
      BY <3>1, <3>2
<1> QED
  BY <1>1, FitsInvariant, PTL

(* Of every report in 24-byte entries: memory_end, unless it is the        *)
(* default, lies within a block that was reported as usable, or before it. *)
THEOREM EndCorrect == Spec => []EndWithinReport
<1>1. IInv /\ (stride = 6 => Fits) => EndWithinReport
  <2> SUFFICES ASSUME IInv, Fits, pc = "initialized", memory_end # DEFAULT_END
               PROVE  \E k \in DOMAIN reported :
                        /\ reported[k].type = 1
                        /\ memory_end <= reported[k].base + reported[k].length
    BY DEF EndWithinReport
  <2>1. reported \in Seq(ENTRIES) /\ DOMAIN reported = 1 .. Len(reported)
    BY DEF IInv, TypeOK
  <2>2. PICK k \in DOMAIN reported :
          /\ BestOf(k, Len(reported))
          /\ memory_end = LET end == Left(k).base + Left(k).length
                          IN  IF end > MAX_MEMORY THEN MAX_MEMORY ELSE end
    BY DEF Fits, ParsedAsLeft
  <2>3. /\ Left(k) \in [base : Nat, length : Nat, type : Nat]
        /\ Left(k).base <= reported[k].base /\ reported[k].base \in Nat
        /\ Left(k).length = reported[k].length /\ Left(k).type = reported[k].type
    BY <2>1, LeftType
  <2>4. reported[k].type = 1
    BY <2>2, <2>3 DEF BestOf, Usable
  <2>5. memory_end <= Left(k).base + Left(k).length
    BY <2>2, <2>3, ScaleAssumption DEF MAX_MEMORY
  <2>6. memory_end <= reported[k].base + reported[k].length
    <3>1. memory_end \in Nat
      BY DEF IInv, TypeOK
    <3> QED
      BY <2>3, <2>5, <3>1
  <2> QED
    BY <2>4, <2>6
<1> QED
  BY <1>1, FitsInvariant, PTL
=============================================================================
