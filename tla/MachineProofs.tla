--------------------------- MODULE MachineProofs ---------------------------
(***************************************************************************)
(* Proofs about Machine: what the invariants are and why they hold for     *)
(* every nesting of events.                                                *)
(***************************************************************************)
EXTENDS Machine, SequenceTheorems, TLAPS

---------------------------------------------------------------------------
(* The invariant.                                                          *)

(* A word is what it was when it was pushed, and a value.                  *)
TAGS == REGS \cup {"ss", "rsp", "rflags", "cs", "rip", "error", "number", "local", "none"}
Word == TAGS \X Int

Gate == [stub : {"isr", "irq"}, n : Nat]
Frame == [raised : Nat, code : BOOLEAN, gate : Gate,
          pc : {"stub", "handler", "return"}, rdi : Nat,
          was : [regs : [REGS -> Word], if : BOOLEAN, stack : Seq(Word)]]

Types ==
  /\ disk \in [drive : 0 .. 255, state : {"reading", "loaded", "stopped"},
               loaded : 0 .. SECTORS]
  /\ step \in 1 .. 10 /\ lidt \in BOOLEAN
  /\ pic \in [master : Nat, slave : Nat, irr : SUBSET LINES,
              isr : SUBSET (0 .. 15), imr : SUBSET (0 .. 15)]
  /\ handlers \in SUBSET LINES /\ waiting \in SUBSET LINES
  /\ cpu \in [state : {"boot", "running", "halted", "reset", "astray"},
              regs : [REGS -> Word], if : BOOLEAN]
  /\ stack \in Seq(Word)
  /\ frames \in Seq(Frame) /\ Len(frames) <= DEPTH
  /\ nmis \in Nat

(* What _kmain has set up: the gates, the table and the vectors of the     *)
(* PICs are there before an interrupt can come; an exception that comes    *)
(* before Init_ISR finds no gate at all.                                   *)
GateOf(v) == IF v < 32 THEN [stub |-> "isr", n |-> v] ELSE [stub |-> "irq", n |-> v - 32]

Tables ==
  /\ disk.state = "reading" <=> cpu.state = "boot"
  /\ cpu.state = "boot" => step = 1
  /\ cpu.state = "reset" => step <= 5
  /\ cpu.if => step = 10
  /\ step > 4 => lidt
  /\ DOMAIN idt = IF step <= 5 THEN {} ELSE IF step = 6 THEN 0 .. 31 ELSE 0 .. 47
  /\ \A v \in DOMAIN idt : idt[v] = GateOf(v)
  /\ step > 6 => pic.master = 32 /\ pic.slave = 40

(* The words of a frame on the stack: the length of the stack after the    *)
(* CPU has aligned it, what the CPU pushes, what the stub pushes.          *)
Base(f) == Len(f.was.stack) + (Len(f.was.stack) % 2)
Reach(f) ==
  Base(f) + (IF f.pc # "stub" THEN 22 ELSE IF f.code THEN 6 ELSE 5)

CpuWords(f, k, s) ==
  /\ s[Base(f) + 2] = <<"rsp", Len(f.was.stack)>>
  /\ s[Base(f) + 3] = <<"rflags", IF f.was.if THEN 1 ELSE 0>>
  /\ s[Base(f) + 5] = <<"rip", k - 1>>
  /\ f.code => s[Base(f) + 6] = <<"error", f.raised>>

StubWords(f, s) ==
  /\ f.rdi = Base(f) + 22
  /\ s[Base(f) + 6] = <<"error", IF f.code THEN f.raised ELSE 0>>
  /\ s[Base(f) + 7] = <<"number", f.raised>>
  /\ \A j \in 1 .. 15 : s[Base(f) + 7 + j] = f.was.regs[PUSHED[j]]

Below(f, s) == \A i \in 1 .. Len(f.was.stack) : s[i] = f.was.stack[i]

OnStack(f, k, s) == Below(f, s) /\ CpuWords(f, k, s) /\ (f.pc # "stub" => StubWords(f, s))

RightGate(f) ==
  IF f.gate.stub = "isr"
    THEN f.gate.n \in 0 .. 31 /\ f.raised = f.gate.n /\ (f.code <=> f.gate.n \in ERROR_CODE)
    ELSE f.gate.n \in 0 .. 15 /\ f.raised = 32 + f.gate.n /\ ~f.code

(* The stack and the registers of level k, now or when it was interrupted, *)
(* for frames fr, a stack st and registers rg.                             *)
LevelLen(fr, st, k) == IF k = Len(fr) THEN Len(st) ELSE Len(fr[k + 1].was.stack)
LevelRegs(fr, rg, k) == IF k = Len(fr) THEN rg ELSE fr[k + 1].was.regs

(* A frame lies above the stack of the code that was interrupted, and what *)
(* a stub has not saved yet is still in the registers.                     *)
FrameOK(fr, st, rg, k) ==
  LET f == fr[k]
  IN  /\ RightGate(f)
      /\ f.raised >= 32 \/ f.was.if => k = 1
      /\ OnStack(f, k, st)
      /\ Reach(f) <= LevelLen(fr, st, k)
      /\ f.pc = "stub" => Reach(f) = LevelLen(fr, st, k) /\ LevelRegs(fr, rg, k) = f.was.regs

Levels(fr, st, rg) ==
  /\ \A k \in 1 .. Len(fr) : FrameOK(fr, st, rg, k)
  /\ \A j, k \in 1 .. Len(fr) : j < k => Reach(fr[j]) <= Len(fr[k].was.stack)

(* Handlers run with interrupts off.                                       *)
Stacked ==
  /\ Levels(frames, stack, cpu.regs)
  /\ frames # <<>> => ~cpu.if /\ step > 5

(* Interrupts were on only in code that runs after _kmain's sti.           *)
IfSaved == \A k \in 1 .. Len(frames) : frames[k].was.if => step = 10

(* Only an interrupt that waits for its acknowledgement is in service.     *)
InService ==
  pic.isr \subseteq IF /\ frames # <<>> /\ frames[1].raised >= 32
                       /\ frames[1].pc # "return"
                      THEN Cascaded(frames[1].raised - 32) ELSE {}

MachineInv ==
  /\ Types /\ Tables /\ Stacked /\ IfSaved
  /\ InService /\ RequestsKept

---------------------------------------------------------------------------
(* The registers and where they are in InterruptFrame.                     *)

(* The stubs push fifteen registers.                                       *)
LEMMA Pushed ==
  /\ DOMAIN PUSHED = 1 .. 15 /\ Len(PUSHED) = 15
  /\ \A j \in 1 .. 15 : PUSHED[j] \in REGS
  /\ \A r \in REGS : \E j \in 1 .. 15 : r = PUSHED[j]
<1>1. DOMAIN PUSHED = 1 .. 15 /\ Len(PUSHED) = 15
  BY DEF PUSHED
<1> QED BY <1>1 DEF REGS, Range

(* They are popped in the opposite order.                                  *)
LEMMA Popped ==
  /\ DOMAIN POPPED = 1 .. 15 /\ Len(POPPED) = 15
  /\ \A j \in 1 .. 15 : (CHOOSE i \in DOMAIN POPPED : POPPED[i] = PUSHED[j]) = 16 - j
<1>1. DOMAIN POPPED = 1 .. 15 /\ Len(POPPED) = 15
  BY DEF POPPED
<1>2. \A j \in 1 .. 15 : 16 - j \in 1 .. 15 /\ POPPED[16 - j] = PUSHED[j]
  BY DEF POPPED, PUSHED
<1>3. \A i, j \in 1 .. 15 : POPPED[i] = PUSHED[j] => i = 16 - j
  BY DEF POPPED, PUSHED
<1> QED BY <1>1, <1>2, <1>3

(* InterruptFrame names the words of the stack from the last one down.     *)
LEMMA Fields ==
  /\ \A j \in 1 .. 15 :
       (CHOOSE i \in DOMAIN InterruptFrame : InterruptFrame[i] = PUSHED[j]) = 16 - j
  /\ (CHOOSE i \in DOMAIN InterruptFrame : InterruptFrame[i] = "interrupt_number") = 16
  /\ (CHOOSE i \in DOMAIN InterruptFrame : InterruptFrame[i] = "error_code") = 17
  /\ (CHOOSE i \in DOMAIN InterruptFrame : InterruptFrame[i] = "rip") = 18
  /\ (CHOOSE i \in DOMAIN InterruptFrame : InterruptFrame[i] = "rflags") = 20
  /\ (CHOOSE i \in DOMAIN InterruptFrame : InterruptFrame[i] = "rsp") = 21
<1>1. DOMAIN InterruptFrame = 1 .. 22
  BY DEF InterruptFrame
<1>2. \A j \in 1 .. 15 : 16 - j \in 1 .. 22 /\ InterruptFrame[16 - j] = PUSHED[j]
  BY DEF InterruptFrame, PUSHED
<1>3. \A i \in 1 .. 22, j \in 1 .. 15 : InterruptFrame[i] = PUSHED[j] => i = 16 - j
  BY DEF InterruptFrame, PUSHED
<1>4. \A i \in 1 .. 22 : /\ InterruptFrame[i] = "interrupt_number" <=> i = 16
                         /\ InterruptFrame[i] = "error_code" <=> i = 17
                         /\ InterruptFrame[i] = "rip" <=> i = 18
                         /\ InterruptFrame[i] = "rflags" <=> i = 20
                         /\ InterruptFrame[i] = "rsp" <=> i = 21
  BY DEF InterruptFrame
<1>5. 16 \in 1 .. 22 /\ 17 \in 1 .. 22 /\ 18 \in 1 .. 22 /\ 20 \in 1 .. 22 /\ 21 \in 1 .. 22
  OBVIOUS
<1>6. \A j \in 1 .. 15 :
       (CHOOSE i \in DOMAIN InterruptFrame : InterruptFrame[i] = PUSHED[j]) = 16 - j
  BY <1>1, <1>2, <1>3
<1> QED BY <1>1, <1>4, <1>5, <1>6

---------------------------------------------------------------------------
(* The stack of frames.                                                    *)

(* The numbers behind a frame.                                             *)
LEMMA FrameNumbers ==
  ASSUME NEW f \in Frame
  PROVE  /\ Len(f.was.stack) \in Nat /\ Base(f) \in Nat /\ Reach(f) \in Nat
         /\ Len(f.was.stack) <= Base(f) /\ Base(f) + 5 <= Reach(f)
         /\ f.code => Base(f) + 6 <= Reach(f)
         /\ f.pc # "stub" => Reach(f) = Base(f) + 22
<1>1. f.was.stack \in Seq(Word) /\ f.code \in BOOLEAN
  BY DEF Frame
<1>2. PICK n \in Nat : n = Len(f.was.stack)
  BY <1>1
<1>3. \A m \in Nat : m + (m % 2) \in Nat /\ m <= m + (m % 2)
  OBVIOUS
<1>4. Base(f) = n + (n % 2)
  BY <1>2 DEF Base
<1>5. PICK b \in Nat : b = Base(f) /\ n <= b
  BY <1>3, <1>4
<1> QED BY <1>1, <1>2, <1>5, SMT DEF Reach

(* A frame's words are all below its reach.                                *)
LEMMA OnStackSame ==
  ASSUME NEW f \in Frame, NEW k, NEW s, NEW t, OnStack(f, k, s),
         \A i \in 1 .. Reach(f) : s[i] = t[i]
  PROVE  OnStack(f, k, t)
<1>1. PICK b \in Nat : b = Base(f)
  BY FrameNumbers
<1>2. PICK n \in Nat : n = Len(f.was.stack)
  BY FrameNumbers
<1>3. PICK r \in Nat : r = Reach(f)
  BY FrameNumbers
<1>4. n <= b /\ b + 5 <= r /\ (f.code => b + 6 <= r) /\ (f.pc # "stub" => r = b + 22)
  BY <1>1, <1>2, <1>3, FrameNumbers
<1>5. Below(f, t)
  <2>1. \A i \in 1 .. n : i \in 1 .. r
    BY <1>4, SMT
  <2> QED BY <1>2, <1>3, <2>1 DEF Below, OnStack
<1>6. CpuWords(f, k, t)
  <2>1. b + 2 \in 1 .. r /\ b + 3 \in 1 .. r /\ b + 5 \in 1 .. r /\ (f.code => b + 6 \in 1 .. r)
    BY <1>4, SMT
  <2> QED BY <1>1, <1>3, <2>1 DEF CpuWords, OnStack
<1>7. CASE f.pc # "stub"
  <2>1. b + 6 \in 1 .. r /\ b + 7 \in 1 .. r /\ \A j \in 1 .. 15 : b + 7 + j \in 1 .. r
    BY <1>4, <1>7, SMT
  <2>2. StubWords(f, t)
    BY <1>1, <1>3, <1>7, <2>1 DEF StubWords, OnStack
  <2> QED BY <1>5, <1>6, <2>2 DEF OnStack
<1> QED BY <1>5, <1>6, <1>7 DEF OnStack

(* All frames lie in the stack.                                            *)
LEMMA ReachInStack ==
  ASSUME NEW fr \in Seq(Frame), NEW st \in Seq(Word), NEW rg, Levels(fr, st, rg),
         NEW k \in 1 .. Len(fr)
  PROVE  Reach(fr[k]) <= Len(st)
<1>1. PICK n \in Nat : n = Len(fr)
  OBVIOUS
<1>2. PICK m \in Nat : m = Len(st)
  OBVIOUS
<1>3. n \in 1 .. n /\ k \in 1 .. n
  BY <1>1, SMT
<1>4. fr[n] \in Frame /\ fr[k] \in Frame
  BY <1>1, <1>3
<1>5. Reach(fr[n]) <= m
  BY <1>1, <1>2, <1>3 DEF Levels, FrameOK, LevelLen
<1>6. CASE k = n
  BY <1>2, <1>5, <1>6
<1>7. CASE k # n
  <2>1. k < n
    BY <1>3, <1>7, SMT
  <2>2. Reach(fr[k]) <= Len(fr[n].was.stack)
    BY <1>1, <1>3, <2>1 DEF Levels
  <2>3. /\ Reach(fr[k]) \in Nat /\ Len(fr[n].was.stack) \in Nat /\ Base(fr[n]) \in Nat
        /\ Reach(fr[n]) \in Nat /\ Len(fr[n].was.stack) <= Base(fr[n])
        /\ Base(fr[n]) + 5 <= Reach(fr[n])
    BY <1>4, FrameNumbers
  <2> QED BY <1>2, <1>5, <2>2, <2>3, SMT
<1> QED BY <1>6, <1>7

(* An event is delivered: a frame more.                                    *)
LEMMA LevelsEnter ==
  ASSUME NEW fr \in Seq(Frame), NEW st \in Seq(Word), NEW rg, Levels(fr, st, rg),
         NEW f \in Frame, f.was.stack = st, f.was.regs = rg, f.pc = "stub",
         RightGate(f), f.raised >= 32 \/ f.was.if => fr = <<>>,
         NEW st2 \in Seq(Word), Len(st2) = Reach(f), OnStack(f, Len(fr) + 1, st2)
  PROVE  Levels(Append(fr, f), st2, rg)
<1>1. PICK n \in Nat : n = Len(fr)
  OBVIOUS
<1>2. PICK fr2 : fr2 = Append(fr, f)
  OBVIOUS
<1>3. /\ fr2 \in Seq(Frame) /\ Len(fr2) = n + 1 /\ fr2[n + 1] = f
      /\ \A k \in 1 .. n : fr2[k] = fr[k]
  BY <1>1, <1>2
<1>4. \A k \in 1 .. n : fr[k] \in Frame /\ Reach(fr[k]) <= Len(st)
  BY <1>1, ReachInStack
<1>5. \A k \in 1 .. n : OnStack(fr[k], k, st2)
  <2> SUFFICES ASSUME NEW k \in 1 .. n PROVE OnStack(fr[k], k, st2)
    OBVIOUS
  <2>1. OnStack(fr[k], k, st)
    BY <1>1 DEF Levels, FrameOK
  <2>2. Reach(fr[k]) \in Nat /\ Len(st) \in Nat
    BY <1>4, FrameNumbers
  <2>3. \A i \in 1 .. Reach(fr[k]) : i \in 1 .. Len(st)
    BY <1>4, <2>2, SMT
  <2>4. \A i \in 1 .. Reach(fr[k]) : st[i] = st2[i]
    BY <2>3 DEF OnStack, Below
  <2> QED BY <1>4, <2>1, <2>4, OnStackSame
<1>6. ASSUME NEW k \in 1 .. n PROVE FrameOK(fr2, st2, rg, k)
  <2>1. FrameOK(fr, st, rg, k)
    BY <1>1 DEF Levels
  <2>2. fr2[k] = fr[k] /\ k # n + 1 /\ k + 1 \in 1 .. (n + 1)
    BY <1>3, SMT
  <2>3. LevelLen(fr2, st2, k) = LevelLen(fr, st, k) /\ LevelRegs(fr2, rg, k) = LevelRegs(fr, rg, k)
    <3>1. CASE k = n
      BY <1>1, <1>3, <2>2, <3>1 DEF LevelLen, LevelRegs
    <3>2. CASE k # n
      <4>1. k + 1 \in 1 .. n
        BY <3>2, SMT
      <4> QED BY <1>1, <1>3, <2>2, <3>2, <4>1 DEF LevelLen, LevelRegs
    <3> QED BY <3>1, <3>2
  <2> QED BY <1>5, <2>1, <2>2, <2>3 DEF FrameOK
<1>7. FrameOK(fr2, st2, rg, n + 1)
  <2>1. LevelLen(fr2, st2, n + 1) = Reach(f) /\ LevelRegs(fr2, rg, n + 1) = rg
    BY <1>3 DEF LevelLen, LevelRegs
  <2>2. Reach(f) <= Reach(f)
    BY FrameNumbers
  <2>3. f.raised >= 32 \/ f.was.if => n + 1 = 1
    BY <1>1
  <2> QED BY <1>1, <1>3, <2>1, <2>2, <2>3 DEF FrameOK
<1>8. \A k \in 1 .. (n + 1) : FrameOK(fr2, st2, rg, k)
  <2>1. \A k \in 1 .. (n + 1) : k \in 1 .. n \/ k = n + 1
    BY SMT
  <2> QED BY <1>6, <1>7, <2>1
<1>9. ASSUME NEW j \in 1 .. (n + 1), NEW k \in 1 .. (n + 1), j < k
      PROVE  Reach(fr2[j]) <= Len(fr2[k].was.stack)
  <2>1. j \in 1 .. n /\ (k \in 1 .. n \/ k = n + 1)
    BY <1>9, SMT
  <2>2. CASE k \in 1 .. n
    BY <1>1, <1>3, <1>9, <2>1, <2>2 DEF Levels
  <2>3. CASE k = n + 1
    BY <1>3, <1>4, <2>1, <2>3
  <2> QED BY <2>1, <2>2, <2>3
<1> QED BY <1>2, <1>3, <1>8, <1>9 DEF Levels

(* The last frame fr[n] is replaced by f2, which goes on from it.          *)
LEMMA LevelsChange ==
  ASSUME NEW fr \in Seq(Frame), NEW st \in Seq(Word), NEW rg, Levels(fr, st, rg),
         fr # <<>>, NEW f2 \in Frame, f2.was = fr[Len(fr)].was,
         f2.raised = fr[Len(fr)].raised, f2.code = fr[Len(fr)].code,
         f2.gate = fr[Len(fr)].gate, f2.pc # "stub",
         NEW st2 \in Seq(Word), Reach(f2) <= Len(st2), StubWords(f2, st2), NEW rg2,
         \A i \in 1 .. Reach(fr[Len(fr)]) : st2[i] = st[i]
  PROVE  Levels([fr EXCEPT ![Len(fr)] = f2], st2, rg2)
<1>1. PICK n \in Nat : n = Len(fr)
  OBVIOUS
<1>2. n \in 1 .. n /\ n # 0
  BY <1>1, EmptySeq, SMT
<1>3. PICK fr2 : fr2 = [fr EXCEPT ![n] = f2]
  OBVIOUS
<1>4. /\ Len(fr2) = n /\ fr2[n] = f2 /\ \A k \in 1 .. n : k # n => fr2[k] = fr[k]
  BY <1>1, <1>2, <1>3
<1>5. \A k \in 1 .. n : fr[k] \in Frame /\ FrameOK(fr, st, rg, k)
  BY <1>1 DEF Levels
<1>6. Base(f2) = Base(fr[n])
  BY <1>1 DEF Base
<1>7. OnStack(f2, n, st2)
  <2>1. OnStack(fr[n], n, st)
    BY <1>1, <1>2, <1>5 DEF FrameOK
  <2>2. OnStack(fr[n], n, st2)
    BY <1>1, <1>2, <1>5, <2>1, OnStackSame
  <2>3. Below(f2, st2) /\ CpuWords(f2, n, st2)
    BY <1>1, <1>6, <2>2 DEF OnStack, Below, CpuWords
  <2> QED BY <2>3 DEF OnStack
<1>8. FrameOK(fr2, st2, rg2, n)
  <2>1. RightGate(f2) /\ (f2.raised >= 32 \/ f2.was.if => n = 1)
    BY <1>1, <1>2, <1>5 DEF FrameOK, RightGate
  <2>2. LevelLen(fr2, st2, n) = Len(st2)
    BY <1>4 DEF LevelLen
  <2> QED BY <1>4, <1>7, <2>1, <2>2 DEF FrameOK
<1>9. ASSUME NEW k \in 1 .. n, k # n PROVE FrameOK(fr2, st2, rg2, k)
  <2>1. fr2[k] = fr[k] /\ k + 1 \in 1 .. n /\ k < n
    BY <1>4, <1>9, SMT
  <2>2. fr2[k + 1].was = fr[k + 1].was
    BY <1>1, <1>4, <2>1
  <2>3. /\ LevelLen(fr2, st2, k) = LevelLen(fr, st, k)
        /\ LevelRegs(fr2, rg2, k) = LevelRegs(fr, rg, k)
    BY <1>1, <1>4, <1>9, <2>2 DEF LevelLen, LevelRegs
  <2>4. OnStack(fr[k], k, st)
    BY <1>5 DEF FrameOK
  <2>5. Reach(fr[k]) <= Reach(fr[n])
    <3>1. Reach(fr[k]) <= Len(fr[n].was.stack)
      BY <1>1, <1>2, <2>1 DEF Levels
    <3>2. /\ Reach(fr[k]) \in Nat /\ Reach(fr[n]) \in Nat /\ Base(fr[n]) \in Nat
          /\ Len(fr[n].was.stack) \in Nat /\ Len(fr[n].was.stack) <= Base(fr[n])
          /\ Base(fr[n]) + 5 <= Reach(fr[n])
      BY <1>2, <1>5, FrameNumbers
    <3> QED BY <3>1, <3>2, SMT
  <2>6. \A i \in 1 .. Reach(fr[k]) : i \in 1 .. Reach(fr[n])
    <3>1. Reach(fr[k]) \in Nat /\ Reach(fr[n]) \in Nat
      BY <1>2, <1>5, FrameNumbers
    <3> QED BY <2>5, <3>1, SMT
  <2>7. OnStack(fr[k], k, st2)
    BY <1>1, <1>5, <2>4, <2>6, OnStackSame
  <2> QED BY <1>5, <2>1, <2>3, <2>7 DEF FrameOK
<1>10. ASSUME NEW j \in 1 .. n, NEW k \in 1 .. n, j < k
       PROVE  Reach(fr2[j]) <= Len(fr2[k].was.stack)
  <2>1. j # n
    BY <1>10, SMT
  <2>2. fr2[j] = fr[j] /\ fr2[k].was = fr[k].was
    BY <1>1, <1>4, <2>1
  <2> QED BY <1>1, <1>10, <2>2 DEF Levels
<1> QED BY <1>1, <1>3, <1>4, <1>8, <1>9, <1>10 DEF Levels

(* The last frame is gone.                                                 *)
LEMMA LevelsPop ==
  ASSUME NEW fr \in Seq(Frame), NEW st \in Seq(Word), NEW rg, Levels(fr, st, rg), fr # <<>>
  PROVE  Levels(SubSeq(fr, 1, Len(fr) - 1), fr[Len(fr)].was.stack, fr[Len(fr)].was.regs)
<1>1. PICK n \in Nat : n = Len(fr)
  OBVIOUS
<1>2. n \in 1 .. n /\ n # 0 /\ n - 1 \in Nat
  BY <1>1, EmptySeq, SMT
<1>3. PICK fr2 : fr2 = SubSeq(fr, 1, n - 1)
  OBVIOUS
<1>4. /\ fr2 \in Seq(Frame) /\ Len(fr2) = n - 1
      /\ \A k \in 1 .. (n - 1) : fr2[k] = fr[k]
  <2>1. \A i \in 1 .. (n - 1) : fr[i] \in Frame
    BY <1>1
  <2>2. /\ fr2 \in Seq(Frame)
        /\ Len(fr2) = IF 1 <= n - 1 THEN (n - 1) - 1 + 1 ELSE 0
        /\ \A i \in 1 .. (n - 1) - 1 + 1 : fr2[i] = fr[1 + i - 1]
    BY <1>2, <1>3, <2>1, SubSeqProperties
  <2> QED BY <1>2, <2>2, SMT
<1>5. PICK f : f = fr[n] /\ f \in Frame
  BY <1>1, <1>2
<1>6. OnStack(f, n, st)
  BY <1>1, <1>2, <1>5 DEF Levels, FrameOK
<1>7. ASSUME NEW k \in 1 .. (n - 1) PROVE FrameOK(fr2, f.was.stack, f.was.regs, k)
  <2>1. k \in 1 .. n /\ k < n /\ k # n /\ fr2[k] = fr[k] /\ fr[k] \in Frame
    BY <1>1, <1>2, <1>4
  <2>2. FrameOK(fr, st, rg, k) /\ Reach(fr[k]) <= Len(f.was.stack)
    BY <1>1, <1>2, <1>5, <2>1 DEF Levels
  <2>3. OnStack(fr[k], k, f.was.stack)
    <3>1. Reach(fr[k]) \in Nat /\ Len(f.was.stack) \in Nat
      BY <1>5, <2>1, FrameNumbers
    <3>2. \A i \in 1 .. Reach(fr[k]) : i \in 1 .. Len(f.was.stack)
      BY <2>2, <3>1, SMT
    <3>3. \A i \in 1 .. Reach(fr[k]) : st[i] = f.was.stack[i]
      BY <1>6, <3>2 DEF OnStack, Below
    <3> QED BY <2>1, <2>2, <3>3, OnStackSame DEF FrameOK
  <2>4. /\ LevelLen(fr2, f.was.stack, k) = LevelLen(fr, st, k)
        /\ LevelRegs(fr2, f.was.regs, k) = LevelRegs(fr, rg, k)
    <3>1. CASE k = n - 1
      BY <1>1, <1>2, <1>4, <1>5, <2>1, <3>1 DEF LevelLen, LevelRegs
    <3>2. CASE k # n - 1
      <4>1. k + 1 \in 1 .. (n - 1)
        BY <1>2, <3>2, SMT
      <4> QED BY <1>1, <1>4, <2>1, <3>2, <4>1 DEF LevelLen, LevelRegs
    <3> QED BY <3>1, <3>2
  <2> QED BY <2>1, <2>2, <2>3, <2>4 DEF FrameOK
<1>8. ASSUME NEW j \in 1 .. (n - 1), NEW k \in 1 .. (n - 1), j < k
      PROVE  Reach(fr2[j]) <= Len(fr2[k].was.stack)
  <2>1. j \in 1 .. n /\ k \in 1 .. n
    BY <1>2, SMT
  <2> QED BY <1>1, <1>4, <1>8, <2>1 DEF Levels
<1>9. Levels(fr2, f.was.stack, f.was.regs)
  BY <1>4, <1>7, <1>8 DEF Levels
<1> QED BY <1>1, <1>3, <1>5, <1>9

---------------------------------------------------------------------------
(* What is pushed.                                                         *)

(* Concatenation, word by word.                                            *)
LEMMA Push ==
  ASSUME NEW s \in Seq(Word), NEW w \in Seq(Word)
  PROVE  /\ s \o w \in Seq(Word) /\ Len(s \o w) = Len(s) + Len(w)
         /\ \A i \in 1 .. Len(s) : (s \o w)[i] = s[i]
         /\ \A i \in 1 .. Len(w) : (s \o w)[Len(s) + i] = w[i]
<1>1. PICK n \in Nat : n = Len(s)
  OBVIOUS
<1>2. PICK m \in Nat : m = Len(w)
  OBVIOUS
<1>3. /\ s \o w \in Seq(Word)
      /\ Len(s \o w) = n + m
      /\ \A i \in 1 .. n + m : (s \o w)[i] = IF i <= n THEN s[i] ELSE w[i - n]
  BY <1>1, <1>2, ConcatProperties, Zenon
<1>4. \A i \in 1 .. n : i \in 1 .. n + m /\ i <= n
  BY SMT
<1>5. \A i \in 1 .. m : n + i \in 1 .. n + m /\ ~(n + i <= n) /\ (n + i) - n = i
  BY SMT
<1> QED BY <1>1, <1>2, <1>3, <1>4, <1>5

(* The stack s with what the CPU pushes for a frame at level k + 1, with   *)
(* what the stub pushes, and with a handler's locals.                      *)
Aligned(s) == IF Len(s) % 2 = 1 THEN Append(s, <<"none", 0>>) ELSE s
IretWords(n, if, k) == << <<"ss", 16>>, <<"rsp", n>>, <<"rflags", IF if THEN 1 ELSE 0>>,
                          <<"cs", 8>>, <<"rip", k>> >>
CodeWord(f) == IF f.code THEN << <<"error", f.raised>> >> ELSE <<>>
Entered(s, f, k) == Aligned(s) \o IretWords(Len(s), f.was.if, k) \o CodeWord(f)

StubPush(f) == IF f.code THEN << <<"number", f.raised>> >>
               ELSE << <<"error", 0>>, <<"number", f.raised>> >>
RegWords(regs) == [i \in DOMAIN PUSHED |-> regs[PUSHED[i]]]
Saved(s, f) == s \o StubPush(f) \o RegWords(f.was.regs)
Locals(n) == [i \in 1 .. (n + 1) |-> <<"local", i>>]
Called(s, f, n) == Saved(s, f) \o Locals(n)

(* These are words.                                                        *)
LEMMA Words ==
  \A i \in Int : /\ <<"ss", i>> \in Word /\ <<"rsp", i>> \in Word /\ <<"rflags", i>> \in Word
                 /\ <<"cs", i>> \in Word /\ <<"rip", i>> \in Word /\ <<"error", i>> \in Word
                 /\ <<"number", i>> \in Word /\ <<"local", i>> \in Word
                 /\ <<"none", i>> \in Word
  BY DEF Word, TAGS

(* The CPU aligns the stack and pushes what iretq needs.                   *)
LEMMA EnterPushes ==
  ASSUME NEW s \in Seq(Word), NEW k \in Nat, NEW f \in Frame, f.was.stack = s, f.pc = "stub",
         NEW t, t = Entered(s, f, k)
  PROVE  t \in Seq(Word) /\ Len(t) = Reach(f) /\ OnStack(f, k + 1, t)
<1>1. PICK n \in Nat : n = Len(s)
  OBVIOUS
<1>2. PICK b \in Nat : b = Base(f)
  BY FrameNumbers
<1>3. PICK al : al = Aligned(s)
  OBVIOUS
<1>4. al \in Seq(Word) /\ Len(al) = b /\ n <= b /\ \A i \in 1 .. n : al[i] = s[i]
  <2>1. \A m \in Nat : m % 2 = 0 \/ m % 2 = 1
    OBVIOUS
  <2>2. CASE n % 2 = 1
    <3>1. b = n + 1
      BY <1>1, <1>2, <2>2 DEF Base
    <3>4. <<"none", 0>> \in Word
      <4>1. 0 \in Int
        OBVIOUS
      <4> QED BY <4>1, Words, Zenon
    <3>2. al = Append(s, <<"none", 0>>)
      BY <1>1, <1>3, <2>2 DEF Aligned
    <3>3. al \in Seq(Word) /\ Len(al) = n + 1 /\ \A i \in 1 .. n : al[i] = s[i]
      BY <1>1, <3>2, <3>4
    <3> QED BY <3>1, <3>3
  <2>3. CASE n % 2 = 0
    <3>1. b = n + 0
      BY <1>1, <1>2, <2>3 DEF Base
    <3>2. al = s
      BY <1>1, <1>3, <2>3 DEF Aligned
    <3> QED BY <1>1, <3>1, <3>2
  <2> QED BY <2>1, <2>2, <2>3
<1>5. PICK w : w = IretWords(n, f.was.if, k)
  OBVIOUS
<1>6. /\ w \in Seq(Word) /\ Len(w) = 5
      /\ w[2] = <<"rsp", n>> /\ w[3] = <<"rflags", IF f.was.if THEN 1 ELSE 0>>
      /\ w[5] = <<"rip", k>>
  <2>1. /\ <<"ss", 16>> \in Word /\ <<"rsp", n>> \in Word
        /\ <<"rflags", IF f.was.if THEN 1 ELSE 0>> \in Word /\ <<"cs", 8>> \in Word
        /\ <<"rip", k>> \in Word
    <3>1. /\ 16 \in Int /\ n \in Int /\ 8 \in Int /\ k \in Int
          /\ (IF f.was.if THEN 1 ELSE 0) \in Int
      OBVIOUS
    <3> QED BY <3>1, Words, Zenon
  <2> QED BY <1>5, <2>1 DEF IretWords
<1>7. PICK c : c = CodeWord(f)
  OBVIOUS
<1>8. /\ c \in Seq(Word) /\ Len(c) = (IF f.code THEN 1 ELSE 0)
      /\ f.code => c[1] = <<"error", f.raised>>
  <2>1. <<"error", f.raised>> \in Word
    <3>1. f.raised \in Int
      BY DEF Frame
    <3> QED BY <3>1, Words, Zenon
  <2> QED BY <1>7, <2>1 DEF CodeWord
<1>9. PICK u : u = al \o w
  OBVIOUS
<1>10. /\ u \in Seq(Word) /\ Len(u) = b + 5 /\ \A i \in 1 .. b : u[i] = al[i]
       /\ u[b + 2] = <<"rsp", n>> /\ u[b + 5] = <<"rip", k>>
       /\ u[b + 3] = <<"rflags", IF f.was.if THEN 1 ELSE 0>>
  <2>1. /\ u \in Seq(Word) /\ Len(u) = b + 5 /\ \A i \in 1 .. b : u[i] = al[i]
        /\ \A i \in 1 .. 5 : u[b + i] = w[i]
    <3>1. /\ u \in Seq(Word) /\ Len(u) = Len(al) + Len(w)
          /\ \A i \in 1 .. Len(al) : u[i] = al[i]
          /\ \A i \in 1 .. Len(w) : u[Len(al) + i] = w[i]
      <4>1. al \in Seq(Word) /\ w \in Seq(Word)
        BY <1>4, <1>6
      <4> QED BY <1>9, <4>1, Push
    <3> QED BY <1>4, <1>6, <3>1
  <2>2. 2 \in 1 .. 5 /\ 3 \in 1 .. 5 /\ 5 \in 1 .. 5
    OBVIOUS
  <2> QED BY <1>6, <2>1, <2>2
<1>11. t = u \o c
  BY <1>1, <1>3, <1>5, <1>7, <1>9 DEF Entered
<1>12. /\ t \in Seq(Word) /\ Len(t) = b + 5 + Len(c)
       /\ \A i \in 1 .. b + 5 : t[i] = u[i]
       /\ \A i \in 1 .. Len(c) : t[b + 5 + i] = c[i]
  <2>1. /\ t \in Seq(Word) /\ Len(t) = Len(u) + Len(c)
        /\ \A i \in 1 .. Len(u) : t[i] = u[i]
        /\ \A i \in 1 .. Len(c) : t[Len(u) + i] = c[i]
    <3>1. u \in Seq(Word) /\ c \in Seq(Word)
      BY <1>8, <1>10
    <3> QED BY <1>11, <3>1, Push
  <2> QED BY <1>10, <2>1
<1>13. Len(t) = Reach(f)
  <2>1. CASE f.code
    BY <1>2, <1>8, <1>12, <2>1 DEF Reach
  <2>2. CASE ~f.code
    BY <1>2, <1>8, <1>12, <2>2 DEF Reach
  <2> QED BY <2>1, <2>2
<1>14. Below(f, t)
  <2>1. \A i \in 1 .. n : i \in 1 .. b /\ i \in 1 .. b + 5
    BY <1>4, SMT
  <2> QED BY <1>1, <1>4, <1>10, <1>12, <2>1 DEF Below
<1>15. CpuWords(f, k + 1, t)
  <2>1. b + 2 \in 1 .. b + 5 /\ b + 3 \in 1 .. b + 5 /\ b + 5 \in 1 .. b + 5 /\ (k + 1) - 1 = k
    BY SMT
  <2>2. f.code => t[b + 6] = <<"error", f.raised>>
    <3>1. (b + 5) + 1 = b + 6 /\ 1 \in 1 .. 1
      BY SMT
    <3> QED BY <1>8, <1>12, <3>1
  <2> QED BY <1>1, <1>2, <1>10, <1>12, <2>1, <2>2 DEF CpuWords
<1> QED BY <1>12, <1>13, <1>14, <1>15 DEF OnStack

(* The stub pushes its words and the registers; the handler uses more.     *)
LEMMA StubPushes ==
  ASSUME NEW s \in Seq(Word), NEW f \in Frame, f.pc = "stub", Len(s) = Reach(f),
         f.code => s[Base(f) + 6] = <<"error", f.raised>>,
         NEW n \in Nat, NEW t, t = Called(s, f, n),
         NEW f2 \in Frame, f2.pc # "stub", f2.rdi = Len(Saved(s, f)), f2.was = f.was,
         f2.raised = f.raised, f2.code = f.code
  PROVE  /\ t \in Seq(Word) /\ Reach(f2) <= Len(t) /\ StubWords(f2, t)
         /\ \A i \in 1 .. Len(s) : t[i] = s[i]
<1>1. PICK b \in Nat : b = Base(f) /\ b = Base(f2)
  BY FrameNumbers DEF Base
<1>2. Len(s) = b + IF f.code THEN 6 ELSE 5
  BY <1>1 DEF Reach
<1>3. PICK c : c = IF f.code THEN 6 ELSE 5
  OBVIOUS
<1>0. PICK words : words = StubPush(f)
  OBVIOUS
<1>4. /\ words \in Seq(Word) /\ c + Len(words) = 7
      /\ words[Len(words)] = <<"number", f.raised>> /\ Len(words) \in 1 .. 2
      /\ ~f.code => words[1] = <<"error", 0>>
  <2>1. <<"number", f.raised>> \in Word /\ <<"error", 0>> \in Word
    <3>1. f.raised \in Int /\ 0 \in Int
      BY DEF Frame
    <3> QED BY <3>1, Words, Zenon
  <2>2. CASE f.code
    BY <1>0, <1>3, <2>1, <2>2 DEF StubPush
  <2>3. CASE ~f.code
    BY <1>0, <1>3, <2>1, <2>3 DEF StubPush
  <2> QED BY <2>2, <2>3
<1>5. PICK u : u = s \o words
  OBVIOUS
<1>6. /\ u \in Seq(Word) /\ Len(u) = b + 7 /\ \A i \in 1 .. Len(s) : u[i] = s[i]
      /\ u[b + 7] = <<"number", f.raised>>
      /\ u[b + 6] = <<"error", IF f.code THEN f.raised ELSE 0>>
  <2>1. /\ u \in Seq(Word) /\ Len(u) = Len(s) + Len(words)
        /\ \A i \in 1 .. Len(s) : u[i] = s[i]
        /\ \A i \in 1 .. Len(words) : u[Len(s) + i] = words[i]
    BY <1>4, <1>5, Push
  <2>2. CASE f.code
    <3>1. /\ Len(s) = b + 6 /\ Len(words) = 1 /\ (b + 6) + 1 = b + 7
          /\ b + 6 \in 1 .. b + 6 /\ 1 \in 1 .. 1
      BY <1>2, <1>3, <1>4, <2>2
    <3> QED BY <1>1, <1>4, <2>1, <2>2, <3>1
  <2>3. CASE ~f.code
    <3>1. /\ Len(s) = b + 5 /\ Len(words) = 2 /\ (b + 5) + 2 = b + 7 /\ (b + 5) + 1 = b + 6
          /\ 1 \in 1 .. 2 /\ 2 \in 1 .. 2
      BY <1>2, <1>3, <1>4, <2>3
    <3> QED BY <1>1, <1>4, <2>1, <2>3, <3>1
  <2> QED BY <2>2, <2>3
<1>7. PICK p : p = RegWords(f.was.regs)
  OBVIOUS
<1>8. p \in Seq(Word) /\ Len(p) = 15 /\ \A j \in 1 .. 15 : p[j] = f.was.regs[PUSHED[j]]
  <2>1. f.was.regs \in [REGS -> Word]
    BY DEF Frame
  <2>2. p = [i \in 1 .. 15 |-> f.was.regs[PUSHED[i]]]
    BY <1>7, Pushed DEF RegWords
  <2>3. \A j \in 1 .. 15 : f.was.regs[PUSHED[j]] \in Word
    BY <2>1, Pushed
  <2> QED BY <2>2, <2>3
<1>18. PICK saved : saved = Saved(s, f)
  OBVIOUS
<1>9. saved = u \o p
  BY <1>18, <1>0, <1>5, <1>7 DEF Saved
<1>10. /\ saved \in Seq(Word) /\ Len(saved) = b + 22
       /\ \A i \in 1 .. b + 7 : saved[i] = u[i]
       /\ \A j \in 1 .. 15 : saved[b + 7 + j] = f.was.regs[PUSHED[j]]
  <2>1. /\ saved \in Seq(Word) /\ Len(saved) = (b + 7) + 15
        /\ \A i \in 1 .. b + 7 : saved[i] = u[i]
        /\ \A j \in 1 .. 15 : saved[b + 7 + j] = p[j]
    <3>1. /\ saved \in Seq(Word) /\ Len(saved) = Len(u) + Len(p)
          /\ \A i \in 1 .. Len(u) : saved[i] = u[i]
          /\ \A i \in 1 .. Len(p) : saved[Len(u) + i] = p[i]
      <4>1. u \in Seq(Word) /\ p \in Seq(Word)
        BY <1>6, <1>8
      <4> QED BY <1>9, <4>1, Push
    <3> QED BY <1>6, <1>8, <3>1
  <2>2. Len(saved) = b + 22
    BY <2>1
  <2>3. \A j \in 1 .. 15 : saved[b + 7 + j] = f.was.regs[PUSHED[j]]
    BY <1>8, <2>1, Zenon
  <2> QED BY <2>1, <2>2, <2>3
<1>11. PICK l : l = Locals(n)
  OBVIOUS
<1>12. l \in Seq(Word) /\ Len(l) = n + 1
  <2>1. \A i \in 1 .. (n + 1) : <<"local", i>> \in Word
    <3>1. \A i \in 1 .. (n + 1) : i \in Int
      OBVIOUS
    <3> QED BY <3>1, Words, Zenon
  <2> QED BY <1>11, <2>1 DEF Locals
<1>13. /\ t \in Seq(Word) /\ Len(t) = (b + 22) + (n + 1)
       /\ \A i \in 1 .. b + 22 : t[i] = saved[i]
  <2>1. t = saved \o l
    BY <1>11, <1>18 DEF Called
  <2>2. /\ t \in Seq(Word) /\ Len(t) = Len(saved) + Len(l)
        /\ \A i \in 1 .. Len(saved) : t[i] = saved[i]
    <3>1. saved \in Seq(Word) /\ l \in Seq(Word)
      BY <1>10, <1>12
    <3> QED BY <2>1, <3>1, Push
  <2> QED BY <1>10, <1>12, <2>2
<1>14. Reach(f2) <= Len(t)
  BY <1>1, <1>13, SMT DEF Reach
<1>15. StubWords(f2, t)
  <2>1. /\ b + 6 \in 1 .. b + 7 /\ b + 7 \in 1 .. b + 7 /\ b + 6 \in 1 .. b + 22
        /\ b + 7 \in 1 .. b + 22 /\ \A j \in 1 .. 15 : b + 7 + j \in 1 .. b + 22
    OBVIOUS
  <2>2. f2.rdi = b + 22
    BY <1>10, <1>18
  <2>3. t[b + 6] = <<"error", IF f.code THEN f.raised ELSE 0>> /\ t[b + 7] = <<"number", f.raised>>
    BY <1>6, <1>10, <1>13, <2>1, Zenon
  <2>4. \A j \in 1 .. 15 : t[b + 7 + j] = f.was.regs[PUSHED[j]]
    BY <1>10, <1>13, <2>1, Zenon
  <2> QED BY <1>1, <2>2, <2>3, <2>4 DEF StubWords
<1>16. \A i \in 1 .. Len(s) : t[i] = s[i]
  <2>1. \A i \in 1 .. Len(s) : i \in 1 .. b + 7 /\ i \in 1 .. b + 22
    BY <1>2, <1>3, <1>4, SMT
  <2> QED BY <1>6, <1>10, <1>13, <2>1
<1> QED BY <1>13, <1>14, <1>15, <1>16

---------------------------------------------------------------------------
(* The steps that change the stack of frames.                              *)

(* The error codes that the CPU pushes; an interrupt comes at level 0.     *)
EventOK(v, code) ==
  /\ code \in BOOLEAN /\ (v < 32 => (code <=> v \in ERROR_CODE))
  /\ v >= 32 => ~code /\ frames = <<>> /\ step > 6

(* An event is delivered.                                                  *)
LEMMA EnterKeeps ==
  ASSUME Types, Stacked, NEW v \in 0 .. 47, NEW code, EventOK(v, code), idt[v] = GateOf(v),
         step > 5, step' = step, Enter(v, v, code)
  PROVE  /\ stack' \in Seq(Word) /\ cpu' = [cpu EXCEPT !.if = FALSE] /\ Stacked'
         /\ \E f \in Frame : /\ frames' = Append(frames, f) /\ f.raised = v /\ f.pc = "stub"
                             /\ f.was.if = cpu.if
<1>1. PICK f : f = [raised |-> v, code |-> code, gate |-> idt[v], pc |-> "stub", rdi |-> 0,
                    was |-> [regs |-> cpu.regs, if |-> cpu.if, stack |-> stack]]
  OBVIOUS
<1>2. /\ f.raised = v /\ f.code = code /\ f.gate = GateOf(v) /\ f.pc = "stub"
      /\ f.was.regs = cpu.regs /\ f.was.if = cpu.if /\ f.was.stack = stack
  BY <1>1
<1>3. f \in Frame
  <2>1. idt[v] \in Gate
    <3>1. v < 32 => [stub |-> "isr", n |-> v] \in Gate
      BY DEF Gate
    <3>2. ~(v < 32) => [stub |-> "irq", n |-> v - 32] \in Gate
      BY DEF Gate
    <3> QED BY <3>1, <3>2 DEF GateOf
  <2>2. [regs |-> cpu.regs, if |-> cpu.if, stack |-> stack]
          \in [regs : [REGS -> Word], if : BOOLEAN, stack : Seq(Word)]
    BY DEF Types
  <2> QED BY <1>1, <2>1, <2>2 DEF Frame, EventOK
<1>4. frames' = Append(frames, f) /\ cpu' = [cpu EXCEPT !.if = FALSE]
  BY <1>1 DEF Enter
<1>5. stack' = Entered(stack, f, Len(frames))
  BY <1>2 DEF Enter, Entered, Aligned, IretWords, CodeWord
<1>6. frames \in Seq(Frame) /\ stack \in Seq(Word) /\ Len(frames) \in Nat
      /\ Levels(frames, stack, cpu.regs)
  BY DEF Types, Stacked
<1>7. stack' \in Seq(Word) /\ Len(stack') = Reach(f) /\ OnStack(f, Len(frames) + 1, stack')
  BY <1>2, <1>3, <1>5, <1>6, EnterPushes
<1>8. RightGate(f)
  BY <1>2 DEF RightGate, GateOf, EventOK
<1>9. f.raised >= 32 \/ f.was.if => frames = <<>>
  BY <1>2 DEF Stacked, EventOK
<1>10. Levels(Append(frames, f), stack', cpu.regs)
  BY <1>2, <1>3, <1>6, <1>7, <1>8, <1>9, LevelsEnter
<1>11. cpu'.regs = cpu.regs /\ cpu'.if = FALSE
  BY <1>4 DEF Types
<1> QED BY <1>2, <1>3, <1>4, <1>7, <1>10, <1>11 DEF Stacked

(* Facts about the frame of the code that runs.                            *)
LEMMA TopFacts ==
  ASSUME Types, Stacked, frames # <<>>
  PROVE  /\ Len(frames) \in Nat /\ Len(frames) \in 1 .. Len(frames) /\ Top \in Frame
         /\ FrameOK(frames, stack, cpu.regs, Len(frames))
         /\ Levels(frames, stack, cpu.regs) /\ ~cpu.if
  BY EmptySeq DEF Types, Stacked, Top, Levels

(* A stub calls its handler.                                               *)
LEMMA CallKeeps ==
  ASSUME Types, Stacked, frames # <<>>, Top.pc = "stub", NEW words, words = StubPush(Top),
         CallHandler(words)
  PROVE  /\ stack' \in Seq(Word) /\ Stacked'
         /\ cpu' = [cpu EXCEPT !.regs = RegsOf(Len(frames))]
         /\ \E f \in Frame : /\ frames' = [frames EXCEPT ![Len(frames)] = f]
                             /\ f.was = Top.was /\ f.raised = Top.raised /\ f.pc = "handler"
<1>0. PICK f : f = Top
  OBVIOUS
<1>1. PICK n \in Nat : n = Len(frames) /\ n \in 1 .. n
  BY TopFacts
<1>2. /\ f \in Frame /\ f = frames[n] /\ f.pc = "stub"
      /\ FrameOK(frames, stack, cpu.regs, n) /\ Levels(frames, stack, cpu.regs) /\ ~cpu.if
  BY <1>0, <1>1, TopFacts DEF Top
<1>3. cpu.regs = f.was.regs /\ Len(stack) = Reach(f) /\ OnStack(f, n, stack)
  BY <1>1, <1>2 DEF FrameOK, LevelLen, LevelRegs
<1>4. PICK saved : saved = Saved(stack, f)
  OBVIOUS
<1>5. saved = stack \o words \o [i \in DOMAIN PUSHED |-> cpu.regs[PUSHED[i]]]
  BY <1>0, <1>3, <1>4 DEF Saved, RegWords
<1>6. PICK l \in LOCALS :
        /\ stack' = saved \o [i \in 1 .. (l + 1) |-> <<"local", i>>]
        /\ frames' = [frames EXCEPT ![Len(frames)].rdi = Len(saved),
                                    ![Len(frames)].pc = "handler"]
        /\ cpu' = [cpu EXCEPT !.regs = RegsOf(Len(frames))]
        /\ UNCHANGED step
  BY <1>5, Zenon DEF CallHandler
<1>7. l \in Nat
  BY MachineAssumption
<1>8. stack' = Called(stack, f, l)
  BY <1>4, <1>6 DEF Called, Locals
<1>9. stack \in Seq(Word) /\ frames \in Seq(Frame)
  BY DEF Types
<1>10. Len(saved) \in Nat
  <2>1. PICK m \in Nat : m = Reach(f)
    BY <1>2, FrameNumbers
  <2>2. PICK w : w = StubPush(f)
    OBVIOUS
  <2>3. w \in Seq(Word)
    <3>1. f.raised \in Int /\ 0 \in Int
      BY <1>2 DEF Frame
    <3>2. <<"number", f.raised>> \in Word /\ <<"error", 0>> \in Word
      BY <3>1, Words, Zenon
    <3> QED BY <2>2, <3>2 DEF StubPush
  <2>4. PICK r : r = RegWords(f.was.regs)
    OBVIOUS
  <2>5. r \in Seq(Word)
    <3>1. f.was.regs \in [REGS -> Word]
      BY <1>2 DEF Frame
    <3>2. r = [i \in 1 .. 15 |-> f.was.regs[PUSHED[i]]]
      BY <2>4, Pushed DEF RegWords
    <3>3. \A j \in 1 .. 15 : f.was.regs[PUSHED[j]] \in Word
      BY <3>1, Pushed
    <3> QED BY <3>2, <3>3
  <2>6. saved = stack \o w \o r
    BY <1>4, <2>2, <2>4 DEF Saved
  <2>7. stack \o w \in Seq(Word)
    BY <1>9, <2>3, Push
  <2>8. (stack \o w) \o r \in Seq(Word)
    BY <2>5, <2>7, Push
  <2> QED BY <2>6, <2>8
<1>11. PICK f2 : f2 = [f EXCEPT !.rdi = Len(saved), !.pc = "handler"]
  OBVIOUS
<1>12. /\ f2 \in Frame /\ f2.was = f.was /\ f2.raised = f.raised /\ f2.code = f.code
       /\ f2.gate = f.gate /\ f2.pc = "handler" /\ f2.rdi = Len(saved)
  BY <1>2, <1>10, <1>11 DEF Frame
<1>13. frames' = [frames EXCEPT ![n] = f2]
  BY <1>1, <1>2, <1>6, <1>9, <1>11
<1>14. f.code => stack[Base(f) + 6] = <<"error", f.raised>>
  BY <1>3 DEF OnStack, CpuWords
<1>15. /\ stack' \in Seq(Word) /\ Reach(f2) <= Len(stack') /\ StubWords(f2, stack')
       /\ \A i \in 1 .. Len(stack) : stack'[i] = stack[i]
  BY <1>2, <1>3, <1>4, <1>7, <1>8, <1>9, <1>12, <1>14, StubPushes
<1>16. \A i \in 1 .. Reach(f) : stack'[i] = stack[i]
  BY <1>3, <1>15
<1>17. PICK rg : rg = RegsOf(n)
  OBVIOUS
<1>18. Levels([frames EXCEPT ![n] = f2], stack', rg)
  BY <1>1, <1>2, <1>9, <1>12, <1>15, <1>16, LevelsChange
<1>19. cpu'.regs = rg /\ ~cpu'.if
  BY <1>1, <1>2, <1>6, <1>17 DEF Types
<1>20. Stacked'
  BY <1>6, <1>13, <1>18, <1>19 DEF Stacked
<1> QED BY <1>0, <1>1, <1>6, <1>12, <1>13, <1>15, <1>20

(* A handler returns to its stub.                                          *)
LEMMA ReturnKeeps ==
  ASSUME Types, Stacked, frames # <<>>, Top.pc = "handler", Return, stack' = stack,
         cpu' = cpu, step' = step
  PROVE  /\ Stacked'
         /\ \E f \in Frame : /\ frames' = [frames EXCEPT ![Len(frames)] = f]
                             /\ f.was = Top.was /\ f.raised = Top.raised /\ f.pc = "return"
<1>0. PICK f : f = Top
  OBVIOUS
<1>1. PICK n \in Nat : n = Len(frames) /\ n \in 1 .. n
  BY TopFacts
<1>2. /\ f \in Frame /\ f = frames[n] /\ f.pc = "handler"
      /\ FrameOK(frames, stack, cpu.regs, n) /\ Levels(frames, stack, cpu.regs) /\ ~cpu.if
  BY <1>0, <1>1, TopFacts DEF Top
<1>3. stack \in Seq(Word) /\ frames \in Seq(Frame)
  BY DEF Types
<1>4. PICK f2 : f2 = [f EXCEPT !.pc = "return"]
  OBVIOUS
<1>5. /\ f2 \in Frame /\ f2.was = f.was /\ f2.raised = f.raised /\ f2.code = f.code
      /\ f2.gate = f.gate /\ f2.pc = "return" /\ f2.rdi = f.rdi
  BY <1>2, <1>4 DEF Frame
<1>6. frames' = [frames EXCEPT ![n] = f2]
  BY <1>1, <1>2, <1>3, <1>4 DEF Return
<1>7. Base(f2) = Base(f) /\ Reach(f2) = Reach(f)
  BY <1>2, <1>5 DEF Base, Reach
<1>8. Reach(f2) <= Len(stack) /\ StubWords(f2, stack)
  BY <1>1, <1>2, <1>5, <1>7 DEF FrameOK, LevelLen, OnStack, StubWords
<1>9. PICK rg : rg = cpu.regs
  OBVIOUS
<1>10. Levels([frames EXCEPT ![n] = f2], stack, rg)
  BY <1>1, <1>2, <1>3, <1>5, <1>8, LevelsChange
<1>11. Stacked'
  BY <1>2, <1>6, <1>9, <1>10 DEF Stacked
<1> QED BY <1>0, <1>1, <1>5, <1>6, <1>11

(* iretq takes the machine back to where the event came.                   *)
LEMMA PopKeeps ==
  ASSUME Types, Stacked, frames # <<>>, Top.pc = "return", ReturnFromInterrupt
  PROVE  /\ frames' = SubSeq(frames, 1, Len(frames) - 1)
         /\ cpu' = [cpu EXCEPT !.regs = Top.was.regs, !.if = Top.was.if]
         /\ stack' = Top.was.stack /\ Stacked'
<1>0. PICK f : f = Top
  OBVIOUS
<1>1. PICK n \in Nat : n = Len(frames) /\ n \in 1 .. n
  BY TopFacts
<1>2. /\ f \in Frame /\ f = frames[n] /\ f.pc = "return"
      /\ FrameOK(frames, stack, cpu.regs, n) /\ Levels(frames, stack, cpu.regs) /\ ~cpu.if
  BY <1>0, <1>1, TopFacts DEF Top
<1>3. PICK b \in Nat : b = Base(f)
  BY <1>2, FrameNumbers
<1>4. /\ f.rdi = b + 22 /\ Below(f, stack)
      /\ stack[b + 2] = <<"rsp", Len(f.was.stack)>>
      /\ stack[b + 3] = <<"rflags", IF f.was.if THEN 1 ELSE 0>>
      /\ stack[b + 5] = <<"rip", n - 1>>
      /\ \A j \in 1 .. 15 : stack[b + 7 + j] = f.was.regs[PUSHED[j]]
  BY <1>2, <1>3 DEF FrameOK, OnStack, CpuWords, StubWords
<1>5. PICK popped : popped = [r \in REGS |-> 
                               stack[Top.rdi + 1 - CHOOSE i \in DOMAIN POPPED : POPPED[i] = r]]
  OBVIOUS
<1>6. popped = f.was.regs
  <2>1. f.was.regs \in [REGS -> Word]
    BY <1>2 DEF Frame
  <2>2. ASSUME NEW r \in REGS PROVE popped[r] = f.was.regs[r]
    <3>1. PICK j \in 1 .. 15 : r = PUSHED[j]
      BY Pushed
    <3>2. (CHOOSE i \in DOMAIN POPPED : POPPED[i] = r) = 16 - j
      BY <3>1, Popped
    <3>3. (b + 22) + 1 - (16 - j) = b + 7 + j
      OBVIOUS
    <3>4. popped[r] = stack[b + 7 + j]
      BY <1>0, <1>4, <1>5, <3>2, <3>3
    <3> QED BY <1>4, <3>1, <3>4
  <2> QED BY <1>5, <2>1, <2>2
<1>7. PICK iret : iret = [i \in 1 .. 5 |-> stack[Top.rdi - Len(POPPED) - 2 + 1 - i][2]]
  OBVIOUS
<1>8. iret[1] = n - 1 /\ ((iret[3] = 1) <=> f.was.if) /\ iret[4] = Len(f.was.stack)
  <2>1. \A i \in 1 .. 5 : (b + 22) - 15 - 2 + 1 - i = b + 6 - i
    OBVIOUS
  <2>2. \A i \in 1 .. 5 : iret[i] = stack[b + 6 - i][2]
    BY <1>0, <1>4, <1>7, <2>1, Popped
  <2>3. /\ iret[1] = stack[b + 5][2] /\ iret[3] = stack[b + 3][2] /\ iret[4] = stack[b + 2][2]
    <3>1. b + 6 - 1 = b + 5 /\ b + 6 - 3 = b + 3 /\ b + 6 - 4 = b + 2
          /\ 1 \in 1 .. 5 /\ 3 \in 1 .. 5 /\ 4 \in 1 .. 5
      OBVIOUS
    <3> QED BY <2>2, <3>1
  <2>4. f.was.if \in BOOLEAN
    BY <1>2 DEF Frame
  <2>5. \A x : <<"rip", x>>[2] = x /\ <<"rflags", x>>[2] = x /\ <<"rsp", x>>[2] = x
    OBVIOUS
  <2>6. iret[1] = n - 1 /\ iret[4] = Len(f.was.stack) /\ iret[3] = IF f.was.if THEN 1 ELSE 0
    BY <1>4, <2>3, <2>5, Zenon
  <2> QED BY <2>4, <2>6
<1>9. /\ frames' = SubSeq(frames, 1, iret[1])
      /\ cpu' = [cpu EXCEPT !.regs = popped, !.if = (iret[3] = 1)]
      /\ stack' = SubSeq(stack, 1, iret[4])
      /\ UNCHANGED step
  BY <1>5, <1>7, Zenon DEF ReturnFromInterrupt
<1>10. frames' = SubSeq(frames, 1, n - 1)
  BY <1>8, <1>9
<1>11. cpu' = [cpu EXCEPT !.regs = f.was.regs, !.if = f.was.if]
  <2>1. f.was.if \in BOOLEAN
    BY <1>2 DEF Frame
  <2>2. (iret[3] = 1) = f.was.if
    BY <1>8, <2>1
  <2> QED BY <1>6, <1>9, <2>2
<1>12. stack' = f.was.stack
  <2>1. PICK s : s = f.was.stack
    OBVIOUS
  <2>2. PICK m \in Nat : m = Len(s) /\ s \in Seq(Word)
    BY <1>2, <2>1 DEF Frame
  <2>3. \A i \in 1 .. m : stack[i] = s[i] /\ stack[i] \in Word
    <3>1. \A i \in 1 .. m : s[i] \in Word
      BY <2>2
    <3> QED BY <1>4, <2>1, <2>2, <3>1 DEF Below
  <2>4. /\ SubSeq(stack, 1, m) \in Seq(Word)
        /\ Len(SubSeq(stack, 1, m)) = IF 1 <= m THEN m - 1 + 1 ELSE 0
        /\ \A i \in 1 .. m - 1 + 1 : SubSeq(stack, 1, m)[i] = stack[1 + i - 1]
    BY <2>2, <2>3, SubSeqProperties
  <2>5. Len(SubSeq(stack, 1, m)) = m /\ \A i \in 1 .. m : SubSeq(stack, 1, m)[i] = s[i]
    BY <2>2, <2>3, <2>4
  <2>6. SubSeq(stack, 1, m) = s
    BY <2>2, <2>4, <2>5, SeqEqual
  <2> QED BY <1>8, <1>9, <2>1, <2>2, <2>6
<1>13. stack \in Seq(Word) /\ frames \in Seq(Frame)
  BY DEF Types
<1>14. Levels(SubSeq(frames, 1, n - 1), f.was.stack, f.was.regs)
  BY <1>1, <1>2, <1>13, LevelsPop
<1>15. cpu'.regs = f.was.regs /\ cpu'.if = f.was.if
  BY <1>11 DEF Types
<1>16. frames' # <<>> => ~cpu'.if /\ step' > 5
  <2>1. f.was.if => n = 1
    BY <1>1, <1>2 DEF FrameOK
  <2>2. n = 1 => frames' = <<>>
    BY <1>10, SubSeqEmpty
  <2> QED BY <1>9, <1>15, <2>1, <2>2 DEF Stacked
<1> QED BY <1>0, <1>1, <1>10, <1>11, <1>12, <1>14, <1>15, <1>16 DEF Stacked

---------------------------------------------------------------------------
(* The invariant holds at the start.                                       *)
LEMMA InitHolds == Init => MachineInv
<1> SUFFICES ASSUME Init PROVE MachineInv
  OBVIOUS
<1>1. PICK n \in LOCALS : stack = [i \in 1 .. n |-> <<"local", i>>]
  BY DEF Init
<1>2. stack \in Seq(Word)
  <2>1. n \in Nat
    BY MachineAssumption
  <2>2. \A i \in 1 .. n : i \in Int
    BY <2>1
  <2>3. \A i \in 1 .. n : <<"local", i>> \in Word
    BY <2>2, Words, Zenon
  <2> QED BY <1>1, <2>1, <2>3
<1>3. RegsOf(0) \in [REGS -> Word]
  BY DEF RegsOf, Word, TAGS
<1>4. frames \in Seq(Frame) /\ Len(frames) = 0 /\ Len(frames) <= DEPTH
  BY EmptySeq, MachineAssumption DEF Init
<1>5. /\ disk \in [drive : 0 .. 255, state : {"reading", "loaded", "stopped"},
                   loaded : 0 .. SECTORS]
      /\ disk.state = "reading"
  <2>1. disk \in [drive : DRIVES, state : {"reading"}, loaded : {0}]
    BY DEF Init
  <2>2. DRIVES \subseteq 0 .. 255 /\ 0 \in 0 .. SECTORS
    BY MachineAssumption DEF SECTORS
  <2> QED BY <2>1, <2>2
<1>6. Types
  <2>1. pic \in [master : Nat, slave : Nat, irr : SUBSET LINES,
                 isr : SUBSET (0 .. 15), imr : SUBSET (0 .. 15)]
    BY DEF Init
  <2>2. cpu \in [state : {"boot", "running", "halted", "reset", "astray"},
                 regs : [REGS -> Word], if : BOOLEAN]
    BY <1>3 DEF Init
  <2>3. step \in 1 .. 10 /\ lidt \in BOOLEAN /\ handlers = {} /\ waiting = {} /\ nmis \in Nat
    <3>1. lidt \in BOOLEAN
      BY Zenon DEF Init
    <3>2. step \in 1 .. 10 /\ nmis \in Nat
      BY DEF Init
    <3> QED BY <3>1, <3>2, Zenon DEF Init
  <2> QED BY <1>2, <1>4, <1>5, <2>1, <2>2, <2>3 DEF Types
<1>7. Tables
  BY <1>5 DEF Init, Tables
<1>8. Stacked /\ IfSaved
  BY <1>4 DEF Init, Stacked, Levels, IfSaved
<1>9. InService /\ RequestsKept
  BY <1>5 DEF Init, InService, RequestsKept
<1> QED BY <1>6, <1>7, <1>8, <1>9 DEF MachineInv

---------------------------------------------------------------------------
(* Steps that leave the frames alone.                                      *)

(* Such a step changes the interrupt flag and step only at level 0.        *)
LEMMA QuietKeeps ==
  ASSUME MachineInv, frames' = frames, stack' = stack, cpu'.regs = cpu.regs,
         frames # <<>> => cpu'.if = cpu.if /\ step' = step
  PROVE  Stacked' /\ IfSaved'
<1>1. Stacked'
  BY DEF MachineInv, Stacked
<1>2. frames = <<>> => Len(frames) = 0
  OBVIOUS
<1> QED BY <1>1, <1>2 DEF MachineInv, IfSaved

(* disk_load, whatever the drive and the number of sectors read.           *)
LEMMA DiskKeeps ==
  ASSUME MachineInv, disk_load
  PROVE  MachineInv'
<1>1. PICK n \in COUNTS, error \in BOOLEAN :
        /\ error => n # SECTORS
        /\ disk' = [disk EXCEPT !.loaded = n,
                      !.state = IF error \/ ~CountAccepted(n) THEN "stopped" ELSE "loaded"]
  BY DEF disk_load
<1>2. n \in 0 .. SECTORS
  BY MachineAssumption
<1>3. /\ disk.state = "reading" /\ cpu.state = "boot" /\ step = 1 /\ UNCHANGED step
      /\ UNCHANGED <<idt, lidt, pic, handlers, waiting, stack, frames, nmis>>
      /\ cpu' = [cpu EXCEPT !.state = CASE disk'.state = "stopped" -> "halted"
                                      [] disk'.loaded = SECTORS -> "running"
                                      [] OTHER -> "astray"]
  BY DEF MachineInv, Tables, disk_load, devices
<1>4. /\ disk' \in [drive : 0 .. 255, state : {"reading", "loaded", "stopped"},
                    loaded : 0 .. SECTORS]
      /\ disk'.drive = disk.drive /\ disk'.loaded = n
      /\ disk'.state \in {"stopped", "loaded"}
  <2>1. PICK state \in {"stopped", "loaded"} :
          disk' = [disk EXCEPT !.loaded = n, !.state = state]
    BY <1>1
  <2>2. disk \in [drive : 0 .. 255, state : {"reading", "loaded", "stopped"},
                  loaded : 0 .. SECTORS]
    BY DEF MachineInv, Types
  <2> QED BY <1>2, <2>1, <2>2
<1>5. PICK state \in {"halted", "running", "astray"} : cpu' = [cpu EXCEPT !.state = state]
  BY <1>3
<1>6. /\ cpu' \in [state : {"boot", "running", "halted", "reset", "astray"},
                   regs : [REGS -> Word], if : BOOLEAN]
      /\ cpu'.state = state /\ cpu'.regs = cpu.regs /\ cpu'.if = cpu.if
  BY <1>5 DEF MachineInv, Types
<1>7. Types'
  BY <1>3, <1>4, <1>6 DEF MachineInv, Types
<1>8. Tables'
  BY <1>3, <1>4, <1>6 DEF MachineInv, Tables
<1>9. Stacked' /\ IfSaved'
  BY <1>3, <1>6, QuietKeeps
<1>10. InService' /\ RequestsKept'
  BY <1>3 DEF MachineInv, InService, RequestsKept, Cascaded
<1> QED BY <1>7, <1>8, <1>9, <1>10 DEF MachineInv

(* The calls of _kmain and their places.                                   *)
LEMMA KmainOrder ==
  /\ Len(KMAIN) = 9
  /\ KMAIN[1] = "Init_VGA" /\ KMAIN[2] = "Init_Memory" /\ KMAIN[3] = "Init_Paging"
  /\ KMAIN[4] = "Init_IDT" /\ KMAIN[5] = "Init_ISR" /\ KMAIN[6] = "Init_IRQ"
  /\ KMAIN[7] = "InitProcessManager" /\ KMAIN[8] = "Init_Syscall" /\ KMAIN[9] = "sti"
  BY DEF KMAIN

(* Which step a call is.                                                   *)
LEMMA CallPlace ==
  ASSUME MachineInv, NEW f, Calls(f)
  PROVE  /\ cpu.state = "running" /\ frames = <<>> /\ step' = step + 1 /\ step' \in 1 .. 10
         /\ f = "Init_IDT" => step = 4
         /\ f = "Init_ISR" => step = 5
         /\ f = "Init_IRQ" => step = 6
         /\ f = "sti" => step = 9
         /\ f \in {"Init_VGA", "Init_Memory", "Init_Paging", "InitProcessManager",
                   "Init_Syscall"} => step \in {1, 2, 3, 7, 8}
<1>1. step \in 1 .. 10
  BY DEF MachineInv, Types
<1>2. step <= 9 /\ KMAIN[step] = f /\ step' = step + 1 /\ cpu.state = "running" /\ frames = <<>>
  BY KmainOrder DEF Calls, AtLevel0
<1>3. \/ step = 1 \/ step = 2 \/ step = 3 \/ step = 4 \/ step = 5
      \/ step = 6 \/ step = 7 \/ step = 8 \/ step = 9
  BY <1>1, <1>2
<1> QED BY <1>1, <1>2, <1>3, KmainOrder

(* A call of _kmain leaves the frames alone, of which there are none.      *)
LEMMA CallQuiet ==
  ASSUME MachineInv, frames = <<>>, UNCHANGED <<disk, frames, stack>>, cpu'.regs = cpu.regs,
         pic'.isr = {} \/ pic' = pic,
         \/ UNCHANGED <<pic, handlers, waiting>>
         \/ handlers' = {}
  PROVE  Stacked' /\ IfSaved' /\ InService' /\ RequestsKept'
<1>1. Stacked' /\ IfSaved'
  BY QuietKeeps
<1>2. InService'
  BY DEF MachineInv, InService
<1>3. RequestsKept'
  BY DEF MachineInv, RequestsKept
<1> QED BY <1>1, <1>2, <1>3 DEF MachineInv

(* The calls that concern other modules.                                   *)
LEMMA InitOtherKeeps ==
  ASSUME MachineInv, InitOther
  PROVE  MachineInv'
<1>1. PICK f \in {"Init_VGA", "Init_Memory", "Init_Paging", "InitProcessManager",
                  "Init_Syscall"} : Calls(f)
  BY DEF InitOther
<1>2. /\ cpu.state = "running" /\ frames = <<>> /\ step' = step + 1 /\ step' \in 1 .. 10
      /\ step \in {1, 2, 3, 7, 8}
  BY <1>1, CallPlace
<1>3. UNCHANGED <<disk, idt, lidt, pic, handlers, waiting, cpu, stack, frames, nmis>>
  BY DEF InitOther, devices
<1>4. Types'
  BY <1>2, <1>3 DEF MachineInv, Types
<1>5. Tables'
  BY <1>2, <1>3 DEF MachineInv, Tables
<1> QED BY <1>2, <1>3, <1>4, <1>5, CallQuiet DEF MachineInv

(* Init_IDT loads an empty table.                                          *)
LEMMA InitIDTKeeps ==
  ASSUME MachineInv, Init_IDT
  PROVE  MachineInv'
<1>2. cpu.state = "running" /\ frames = <<>> /\ step' = 5 /\ step = 4
  BY CallPlace DEF Init_IDT
<1>3. /\ UNCHANGED <<disk, pic, handlers, waiting, cpu, stack, frames, nmis>>
      /\ idt' = <<>> /\ lidt' = TRUE
  BY DEF Init_IDT, devices
<1>4. Types'
  BY <1>2, <1>3 DEF MachineInv, Types
<1>5. Tables'
  <2>1. DOMAIN idt' = {}
    BY <1>3
  <2> QED BY <1>2, <1>3, <2>1 DEF MachineInv, Tables
<1> QED BY <1>2, <1>3, <1>4, <1>5, CallQuiet DEF MachineInv

(* Init_ISR sets the gates of the exceptions.                              *)
LEMMA InitISRKeeps ==
  ASSUME MachineInv, Init_ISR
  PROVE  MachineInv'
<1>2. cpu.state = "running" /\ frames = <<>> /\ step' = 6 /\ step = 5
  BY CallPlace DEF Init_ISR
<1>3. /\ UNCHANGED <<disk, lidt, pic, handlers, waiting, cpu, stack, frames, nmis>>
      /\ idt' = idt_set_entries("isr", 0, 32)
  BY DEF Init_ISR, devices
<1>4. Types'
  BY <1>2, <1>3 DEF MachineInv, Types
<1>5. Tables'
  <2>1. DOMAIN idt = {}
    BY <1>2 DEF MachineInv, Tables
  <2>2. DOMAIN idt' = 0 .. 31 /\ \A v \in 0 .. 31 : idt'[v] = [stub |-> "isr", n |-> v]
    BY <1>3, <2>1 DEF idt_set_entries
  <2>3. \A v \in 0 .. 31 : GateOf(v) = [stub |-> "isr", n |-> v]
    BY DEF GateOf
  <2>4. \A v \in DOMAIN idt' : idt'[v] = GateOf(v)
    BY <2>2, <2>3
  <2>5. ~cpu.if /\ lidt /\ disk.state # "reading"
    <3>1. step > 4 /\ step # 10
      BY <1>2
    <3>2. cpu.state # "boot"
      BY <1>2
    <3> QED BY <3>1, <3>2, Zenon DEF MachineInv, Tables
  <2>6. (step > 4 => lidt)' /\ (cpu.if => step = 10)'
    BY <1>3, <2>5, Zenon
  <2>7. (disk.state = "reading" <=> cpu.state = "boot")' /\ (cpu.state = "boot" => step = 1)'
        /\ (cpu.state = "reset" => step <= 5)'
    BY <1>2, <1>3, <2>5
  <2>8. /\ (DOMAIN idt = IF step <= 5 THEN {} ELSE IF step = 6 THEN 0 .. 31 ELSE 0 .. 47)'
        /\ (step > 6 => pic.master = 32 /\ pic.slave = 40)'
    BY <1>2, <2>2
  <2> QED BY <2>4, <2>6, <2>7, <2>8, Zenon DEF Tables
<1> QED BY <1>2, <1>3, <1>4, <1>5, CallQuiet DEF MachineInv

(* Init_IRQ sets the gates and the vectors of the interrupts.              *)
LEMMA InitIRQKeeps ==
  ASSUME MachineInv, Init_IRQ
  PROVE  MachineInv'
<1>2. cpu.state = "running" /\ frames = <<>> /\ step' = 7 /\ step = 6
  BY CallPlace DEF Init_IRQ
<1>3. /\ UNCHANGED <<disk, lidt, waiting, cpu, stack, frames, nmis>>
      /\ idt' = idt_set_entries("irq", 32, 16) /\ pic' = Init_PIC /\ handlers' = {}
  BY DEF Init_IRQ, IRQ_COUNT
<1>4. /\ pic' \in [master : Nat, slave : Nat, irr : SUBSET LINES,
                   isr : SUBSET (0 .. 15), imr : SUBSET (0 .. 15)]
      /\ pic'.isr = {} /\ pic'.master = 32 /\ pic'.slave = 40
  BY <1>3 DEF Init_PIC, IRQ_COUNT
<1>5. Types'
  BY <1>2, <1>3, <1>4 DEF MachineInv, Types
<1>6. Tables'
  <2>1. DOMAIN idt = 0 .. 31 /\ \A v \in 0 .. 31 : idt[v] = GateOf(v)
    BY <1>2 DEF MachineInv, Tables
  <2>2. /\ DOMAIN idt' = 0 .. 47
        /\ \A v \in 32 .. 47 : idt'[v] = [stub |-> "irq", n |-> v - 32]
        /\ \A v \in 0 .. 31 : idt'[v] = idt[v]
    BY <1>3, <2>1 DEF idt_set_entries
  <2>3. \A v \in 32 .. 47 : GateOf(v) = [stub |-> "irq", n |-> v - 32]
    BY DEF GateOf
  <2>4. \A v \in 0 .. 47 : v \in 0 .. 31 \/ v \in 32 .. 47
    OBVIOUS
  <2>5. \A v \in DOMAIN idt' : idt'[v] = GateOf(v)
    BY <2>1, <2>2, <2>3, <2>4
  <2>6. ~cpu.if /\ lidt /\ disk.state # "reading"
    <3>1. step > 4 /\ step # 10
      BY <1>2
    <3>2. cpu.state # "boot"
      BY <1>2
    <3> QED BY <3>1, <3>2, Zenon DEF MachineInv, Tables
  <2>7. (step > 4 => lidt)' /\ (cpu.if => step = 10)'
    BY <1>3, <2>6, Zenon
  <2>8. (disk.state = "reading" <=> cpu.state = "boot")' /\ (cpu.state = "boot" => step = 1)'
        /\ (cpu.state = "reset" => step <= 5)'
    BY <1>2, <1>3, <2>6
  <2>9. /\ (DOMAIN idt = IF step <= 5 THEN {} ELSE IF step = 6 THEN 0 .. 31 ELSE 0 .. 47)'
        /\ (step > 6 => pic.master = 32 /\ pic.slave = 40)'
    BY <1>2, <1>4, <2>2
  <2> QED BY <2>5, <2>7, <2>8, <2>9, Zenon DEF Tables
<1> QED BY <1>2, <1>3, <1>4, <1>5, <1>6, CallQuiet DEF MachineInv

(* Interrupts are on only when all is set up.                              *)
LEMMA StiKeeps ==
  ASSUME MachineInv, sti
  PROVE  MachineInv'
<1>2. cpu.state = "running" /\ frames = <<>> /\ step' = 10 /\ step = 9
  BY CallPlace DEF sti
<1>3. /\ UNCHANGED <<disk, idt, lidt, pic, handlers, waiting, stack, frames, nmis>>
      /\ cpu' = [cpu EXCEPT !.if = TRUE]
  BY DEF sti, devices
<1>4. /\ cpu' \in [state : {"boot", "running", "halted", "reset", "astray"},
                   regs : [REGS -> Word], if : BOOLEAN]
      /\ cpu'.state = cpu.state /\ cpu'.regs = cpu.regs
  BY <1>3 DEF MachineInv, Types
<1>5. Types'
  BY <1>2, <1>3, <1>4 DEF MachineInv, Types
<1>6. Tables'
  <2>1. /\ lidt /\ disk.state # "reading" /\ DOMAIN idt = 0 .. 47
        /\ \A v \in DOMAIN idt : idt[v] = GateOf(v)
        /\ pic.master = 32 /\ pic.slave = 40
    BY <1>2 DEF MachineInv, Tables
  <2>2. (step > 4 => lidt)' /\ (cpu.if => step = 10)'
    BY <1>2, <1>3, <2>1, Zenon
  <2>3. (disk.state = "reading" <=> cpu.state = "boot")' /\ (cpu.state = "boot" => step = 1)'
        /\ (cpu.state = "reset" => step <= 5)'
    BY <1>2, <1>3, <1>4, <2>1
  <2>4. /\ (DOMAIN idt = IF step <= 5 THEN {} ELSE IF step = 6 THEN 0 .. 31 ELSE 0 .. 47)'
        /\ (step > 6 => pic.master = 32 /\ pic.slave = 40)'
        /\ (\A v \in DOMAIN idt : idt[v] = GateOf(v))'
    BY <1>2, <1>3, <2>1
  <2> QED BY <2>2, <2>3, <2>4, Zenon DEF Tables
<1> QED BY <1>2, <1>3, <1>4, <1>5, <1>6, CallQuiet DEF MachineInv

(* A device or a driver: no frame and no line in service changes.          *)
LEMMA DeviceKeeps ==
  ASSUME MachineInv, UNCHANGED <<disk, step, idt, lidt, cpu, stack, frames, nmis>>,
         handlers' \in SUBSET LINES, waiting' \in SUBSET LINES,
         pic' \in [master : Nat, slave : Nat, irr : SUBSET LINES,
                   isr : SUBSET (0 .. 15), imr : SUBSET (0 .. 15)],
         pic'.isr = pic.isr, pic'.master = pic.master, pic'.slave = pic.slave,
         RequestsKept'
  PROVE  MachineInv'
<1>1. Types'
  BY DEF MachineInv, Types
<1>2. Tables'
  BY DEF MachineInv, Tables
<1>3. Stacked' /\ IfSaved'
  BY QuietKeeps
<1>4. InService'
  BY DEF MachineInv, InService, Cascaded
<1> QED BY <1>1, <1>2, <1>3, <1>4 DEF MachineInv

(* A device raises its line.                                               *)
LEMMA RaiseKeeps ==
  ASSUME MachineInv, NEW line \in LINES, Raise(line)
  PROVE  MachineInv'
<1>1. /\ UNCHANGED <<disk, step, idt, lidt, cpu, stack, frames, nmis>> /\ handlers' = handlers
      /\ waiting' = waiting \cup {line} /\ pic' = [pic EXCEPT !.irr = @ \cup {line}]
  BY DEF Raise
<1>2. /\ pic' \in [master : Nat, slave : Nat, irr : SUBSET LINES,
                   isr : SUBSET (0 .. 15), imr : SUBSET (0 .. 15)]
      /\ pic'.isr = pic.isr /\ pic'.master = pic.master /\ pic'.slave = pic.slave
      /\ pic'.irr = pic.irr \cup {line}
  BY <1>1 DEF MachineInv, Types
<1>3. handlers' \in SUBSET LINES /\ waiting' \in SUBSET LINES
  BY <1>1 DEF MachineInv, Types
<1>4. RequestsKept'
  BY <1>1, <1>2 DEF MachineInv, RequestsKept
<1> QED BY <1>1, <1>2, <1>3, <1>4, DeviceKeeps

(* A driver starts with its device reset.                                  *)
LEMMA StartDriverKeeps ==
  ASSUME MachineInv, NEW line \in LINES, StartDriver(line)
  PROVE  MachineInv'
<1>0. line \in 0 .. 15
  BY MachineAssumption DEF IRQ_COUNT
<1>1. /\ UNCHANGED <<disk, step, idt, lidt, cpu, stack, frames, nmis>>
      /\ handlers' = handlers \cup {line} /\ waiting' = waiting \ {line}
      /\ pic' = [pic EXCEPT !.irr = @ \ {line}, !.imr = @ \ Cascaded(line)]
  BY <1>0 DEF StartDriver, irq_install_handler, IRQ_COUNT
<1>2. /\ pic' \in [master : Nat, slave : Nat, irr : SUBSET LINES,
                   isr : SUBSET (0 .. 15), imr : SUBSET (0 .. 15)]
      /\ pic'.isr = pic.isr /\ pic'.master = pic.master /\ pic'.slave = pic.slave
      /\ pic'.irr = pic.irr \ {line}
  BY <1>1 DEF MachineInv, Types
<1>3. handlers' \in SUBSET LINES /\ waiting' \in SUBSET LINES
  BY <1>1 DEF MachineInv, Types
<1>4. RequestsKept'
  BY <1>1, <1>2 DEF MachineInv, RequestsKept
<1> QED BY <1>1, <1>2, <1>3, <1>4, DeviceKeeps

(* A driver stops.                                                         *)
LEMMA StopDriverKeeps ==
  ASSUME MachineInv, NEW line \in LINES, StopDriver(line)
  PROVE  MachineInv'
<1>1. /\ UNCHANGED <<disk, step, idt, lidt, pic, waiting, cpu, stack, frames, nmis>>
      /\ handlers' \subseteq handlers
  BY DEF StopDriver, irq_uninstall_handler
<1>2. handlers' \in SUBSET LINES /\ waiting' \in SUBSET LINES
  BY <1>1 DEF MachineInv, Types
<1>3. RequestsKept'
  BY <1>1 DEF MachineInv, RequestsKept
<1> QED BY <1>1, <1>2, <1>3, DeviceKeeps DEF MachineInv, Types

(* A number that is no line's installs nothing.                            *)
LEMMA InstallBeyondKeeps ==
  ASSUME MachineInv, InstallBeyond
  PROVE  MachineInv'
<1>1. /\ UNCHANGED <<disk, step, idt, lidt, pic, waiting, cpu, stack, frames, nmis>>
      /\ handlers' = handlers
  BY DEF InstallBeyond, irq_install_handler, IRQ_COUNT
<1>2. handlers' \in SUBSET LINES /\ waiting' \in SUBSET LINES
  BY <1>1 DEF MachineInv, Types
<1>3. RequestsKept'
  BY <1>1 DEF MachineInv, RequestsKept
<1> QED BY <1>1, <1>2, <1>3, DeviceKeeps DEF MachineInv, Types

---------------------------------------------------------------------------
(* Events.                                                                 *)

(* An event finds its own gate, or the machine is reset before Init_ISR.   *)
LEMMA DeliverCases ==
  ASSUME MachineInv, NEW v \in 0 .. 47, NEW code, v < 32 \/ step > 6, Deliver(v, v, code)
  PROVE  \/ step > 5 /\ idt[v] = GateOf(v) /\ Enter(v, v, code)
         \/ step <= 5 /\ cpu' = [cpu EXCEPT !.state = "reset"] /\ UNCHANGED <<stack, frames>>
<1>1. /\ step \in 1 .. 10 /\ \A w \in DOMAIN idt : idt[w] = GateOf(w)
      /\ DOMAIN idt = IF step <= 5 THEN {} ELSE IF step = 6 THEN 0 .. 31 ELSE 0 .. 47
  BY DEF MachineInv, Tables, Types
<1>2. step > 4 => lidt
  BY Zenon DEF MachineInv, Tables
<1>3. CASE step <= 5
  <2>1. DOMAIN idt = {}
    BY <1>1, <1>3
  <2>2. cpu' = [cpu EXCEPT !.state = "reset"] /\ UNCHANGED <<stack, frames>>
    BY <2>1, Zenon DEF Deliver
  <2> QED BY <1>3, <2>2
<1>4. CASE step > 5
  <2>1. v \in DOMAIN idt /\ step > 4
    BY <1>1, <1>4
  <2>2. lidt /\ {v, 13} \cap DOMAIN idt # {}
    BY <1>2, <2>1
  <2>3. Enter(v, v, code)
    BY <2>1, <2>2, Zenon DEF Deliver
  <2> QED BY <1>1, <1>4, <2>1, <2>3
<1> QED BY <1>1, <1>3, <1>4

(* What an event may change.                                               *)
LEMMA EventKeeps ==
  ASSUME MachineInv, cpu.state = "running", NEW v \in 0 .. 47, NEW code, EventOK(v, code),
         Len(frames) < DEPTH,
         Deliver(v, v, code), UNCHANGED <<disk, step, idt, lidt, handlers>>,
         waiting' \in SUBSET LINES, nmis' \in Nat,
         pic' \in [master : Nat, slave : Nat, irr : SUBSET LINES,
                   isr : SUBSET (0 .. 15), imr : SUBSET (0 .. 15)],
         pic'.master = pic.master, pic'.slave = pic.slave
  PROVE  /\ Types' /\ Tables' /\ Stacked' /\ IfSaved'
         /\ \/ step <= 5 /\ frames' = frames
            \/ \E f \in Frame : frames' = Append(frames, f) /\ f.raised = v /\ f.pc = "stub"
<1>0. Types /\ Tables /\ Stacked /\ IfSaved
  BY DEF MachineInv
<1>2. disk.state # "reading" /\ step \in 1 .. 10
  BY <1>0 DEF Tables, Types
<1>3. CASE step <= 5 /\ cpu' = [cpu EXCEPT !.state = "reset"] /\ UNCHANGED <<stack, frames>>
  <2>1. /\ cpu' \in [state : {"boot", "running", "halted", "reset", "astray"},
                     regs : [REGS -> Word], if : BOOLEAN]
        /\ cpu'.state = "reset" /\ cpu'.regs = cpu.regs /\ cpu'.if = cpu.if
    BY <1>0, <1>3 DEF Types
  <2>2. Types'
    BY <1>0, <1>3, <2>1 DEF Types
  <2>3. Tables'
    BY <1>0, <1>2, <1>3, <2>1 DEF Tables
  <2>4. Stacked' /\ IfSaved'
    BY <1>3, <2>1, QuietKeeps
  <2> QED BY <1>3, <2>2, <2>3, <2>4
<1>4. CASE step > 5 /\ idt[v] = GateOf(v) /\ Enter(v, v, code)
  <2>1. /\ stack' \in Seq(Word) /\ cpu' = [cpu EXCEPT !.if = FALSE] /\ Stacked'
        /\ \E f \in Frame : /\ frames' = Append(frames, f) /\ f.raised = v /\ f.pc = "stub"
                            /\ f.was.if = cpu.if
    <3>1. step' = step
      OBVIOUS
    <3>4. step > 5 /\ idt[v] = GateOf(v) /\ Enter(v, v, code)
      BY <1>4
    <3> QED BY <1>0, <3>1, <3>4, EnterKeeps
  <2>2. PICK f \in Frame : /\ frames' = Append(frames, f) /\ f.raised = v /\ f.pc = "stub"
                           /\ f.was.if = cpu.if
    BY <2>1
  <2>3. /\ cpu' \in [state : {"boot", "running", "halted", "reset", "astray"},
                     regs : [REGS -> Word], if : BOOLEAN]
        /\ cpu'.state = cpu.state /\ cpu'.regs = cpu.regs /\ ~cpu'.if
    BY <1>0, <2>1 DEF Types
  <2>4. /\ frames' \in Seq(Frame) /\ Len(frames') = Len(frames) + 1 /\ Len(frames) \in Nat
        /\ \A k \in 1 .. Len(frames) : frames'[k] = frames[k]
        /\ frames'[Len(frames) + 1] = f
    BY <1>0, <2>2 DEF Types
  <2>5. Types'
    <3>1. Len(frames') <= DEPTH
      BY <2>4, MachineAssumption
    <3> QED BY <1>0, <2>1, <2>3, <2>4, <3>1 DEF Types
  <2>6. Tables'
    BY <1>0, <1>2, <2>3 DEF Tables
  <2>7. IfSaved'
    <3> SUFFICES ASSUME NEW k \in 1 .. Len(frames) + 1, frames'[k].was.if PROVE step' = 10
      BY <2>4 DEF IfSaved
    <3>1. CASE k = Len(frames) + 1
      <4>1. cpu.if
        BY <2>2, <2>4, <3>1
      <4> QED BY <1>0, <4>1 DEF Tables
    <3>2. CASE k # Len(frames) + 1
      <4>1. k \in 1 .. Len(frames)
        BY <2>4, <3>2
      <4> QED BY <1>0, <2>4, <4>1 DEF IfSaved
    <3> QED BY <3>1, <3>2
  <2> QED BY <2>1, <2>2, <2>5, <2>6, <2>7
<1>5. v < 32 \/ step > 6
  BY DEF EventOK
<1> QED BY <1>3, <1>4, <1>5, DeliverCases

(* An exception or an NMI leaves the PICs and the devices alone.           *)
LEMMA TrapKeeps ==
  ASSUME MachineInv, cpu.state = "running", NEW v \in 0 .. 31, Len(frames) < DEPTH,
         NEW code, EventOK(v, code), Deliver(v, v, code),
         UNCHANGED <<disk, step, idt, lidt, pic, handlers, waiting>>, nmis' \in Nat
  PROVE  MachineInv'
<1>1. v \in 0 .. 47 /\ ~(v >= 32)
  OBVIOUS
<1>2. /\ waiting' \in SUBSET LINES
      /\ pic' \in [master : Nat, slave : Nat, irr : SUBSET LINES,
                   isr : SUBSET (0 .. 15), imr : SUBSET (0 .. 15)]
  BY DEF MachineInv, Types
<1>3. /\ Types' /\ Tables' /\ Stacked' /\ IfSaved'
      /\ \/ step <= 5 /\ frames' = frames
         \/ \E f \in Frame : frames' = Append(frames, f) /\ f.raised = v /\ f.pc = "stub"
  <2>1. UNCHANGED <<disk, step, idt, lidt, handlers>>
    OBVIOUS
  <2>2. pic'.master = pic.master /\ pic'.slave = pic.slave
    OBVIOUS
  <2>5. v \in 0 .. 47
    BY <1>1
  <2> QED BY <1>2, <2>1, <2>2, <2>5, EventKeeps
<1>4. CASE frames' = frames
  <2>1. InService' /\ RequestsKept'
    BY <1>4 DEF MachineInv, InService, RequestsKept, Cascaded
  <2> QED BY <1>3, <2>1 DEF MachineInv
<1>5. CASE \E f \in Frame : frames' = Append(frames, f) /\ f.raised = v /\ f.pc = "stub"
  <2>1. PICK f \in Frame : frames' = Append(frames, f) /\ f.raised = v /\ f.pc = "stub"
    BY <1>5
  <2>2. frames \in Seq(Frame) /\ Len(frames) \in Nat
    BY DEF MachineInv, Types
  <2>3. /\ Len(frames') = Len(frames) + 1 /\ DOMAIN frames = 1 .. Len(frames)
        /\ DOMAIN frames' = 1 .. (Len(frames) + 1)
        /\ \A k \in 1 .. Len(frames) : frames'[k] = frames[k]
        /\ frames'[Len(frames) + 1] = f /\ frames' # <<>>
    BY <2>1, <2>2
  <2>4. RequestsKept'
    <3>1. \A k \in DOMAIN frames : k \in DOMAIN frames' /\ frames'[k] = frames[k]
      BY <2>2, <2>3
    <3> QED BY <3>1 DEF MachineInv, RequestsKept
  <2>5. InService'
    <3>1. CASE frames = <<>>
      <4>1. pic.isr = {}
        BY <3>1 DEF MachineInv, InService
      <4> QED BY <4>1 DEF InService
    <3>2. CASE frames # <<>>
      <4>1. Len(frames) # 0
        BY <2>2, <3>2, EmptySeq
      <4>2. 1 \in 1 .. Len(frames)
        BY <2>2, <4>1
      <4>3. frames'[1] = frames[1]
        BY <2>3, <4>2
      <4> QED BY <2>3, <3>2, <4>3 DEF MachineInv, InService, Cascaded
    <3> QED BY <3>1, <3>2
  <2> QED BY <1>3, <2>4, <2>5 DEF MachineInv
<1> QED BY <1>3, <1>4, <1>5

(* An exception.                                                           *)
LEMMA ExceptionKeeps ==
  ASSUME MachineInv, NEW v \in EXCEPTIONS, Exception(v)
  PROVE  MachineInv'
<1>1. v \in 0 .. 31
  BY MachineAssumption
<1>2. PICK code \in BOOLEAN : code <=> v \in ERROR_CODE
  OBVIOUS
<1>3. code = (v \in ERROR_CODE)
  BY <1>2
<1>4. /\ cpu.state = "running" /\ Len(frames) < DEPTH /\ Deliver(v, v, v \in ERROR_CODE)
      /\ UNCHANGED <<disk, step, idt, lidt, pic, handlers, waiting>> /\ nmis' = nmis
  BY DEF Exception, devices
<1>5. Deliver(v, v, code) /\ EventOK(v, code)
  BY <1>1, <1>2, <1>3, <1>4 DEF EventOK
<1>6. nmis' \in Nat
  BY <1>4 DEF MachineInv, Types
<1> QED BY <1>1, <1>2, <1>4, <1>5, <1>6, TrapKeeps

(* A non-maskable interrupt.                                               *)
LEMMA NonMaskableKeeps ==
  ASSUME MachineInv, NonMaskable
  PROVE  MachineInv'
<1>1. 2 \in 0 .. 31 /\ EventOK(2, FALSE)
  BY DEF ERROR_CODE, EventOK
<1>2. /\ cpu.state = "running" /\ Len(frames) < DEPTH /\ Deliver(2, 2, FALSE)
      /\ UNCHANGED <<disk, step, idt, lidt, pic, handlers, waiting>> /\ nmis' = nmis + 1
  BY DEF NonMaskable, NMI, devices
<1>3. nmis' \in Nat
  BY <1>2 DEF MachineInv, Types
<1>4. PICK v, code : v = 2 /\ code = FALSE
  OBVIOUS
<1> QED BY <1>1, <1>2, <1>3, <1>4, TrapKeeps

(* An interrupt is accepted only at level 0: then it is the only one in    *)
(* service.  A spurious one leaves no device waiting.                      *)
LEMMA AcceptKeeps ==
  ASSUME MachineInv, NEW line \in LINES, Accept(line)
  PROVE  MachineInv'
<1>0. line \in 0 .. 15
  BY MachineAssumption DEF IRQ_COUNT
<1>1. /\ cpu.state = "running" /\ frames = <<>> /\ step > 6 /\ Len(frames) < DEPTH
      /\ pic.master = 32 /\ pic.slave = 40 /\ pic.isr = {}
  <2>1. cpu.if /\ cpu.state = "running"
    BY DEF Accept
  <2>2. step = 10 /\ frames = <<>>
    BY <2>1, Zenon DEF MachineInv, Tables, Stacked
  <2>3. pic.master = 32 /\ pic.slave = 40 /\ pic.isr = {}
    <3>1. pic.isr = {}
      BY <2>2 DEF MachineInv, InService
    <3>2. step > 6
      BY <2>2
    <3> QED BY <3>1, <3>2, Zenon DEF MachineInv, Tables
  <2>4. Len(frames) < DEPTH
    BY <2>2, MachineAssumption
  <2> QED BY <2>1, <2>2, <2>3, <2>4
<1>2. UNCHANGED <<disk, step, idt, lidt, handlers>> /\ nmis' = nmis
  BY DEF Accept
<1>3. PICK v \in 32 .. 47 :
        /\ Deliver(v, v, FALSE)
        /\ \/ /\ v = 32 + line /\ waiting' = waiting
              /\ pic' = [pic EXCEPT !.irr = @ \ {line}, !.isr = @ \cup Cascaded(line)]
           \/ /\ waiting' = waiting \ {line} /\ (line >= 8 => v = 47)
              /\ pic' = [pic EXCEPT !.irr = @ \ {line},
                                    !.isr = @ \cup (Cascaded(line) \ {line})]
  <2>1. VectorOf(line) = 32 + line /\ VectorOf(7) = 39 /\ VectorOf(15) = 47
    BY <1>0, <1>1 DEF VectorOf
  <2>2. 32 + line \in 32 .. 47 /\ 39 \in 32 .. 47 /\ 47 \in 32 .. 47
    BY <1>0
  <2>3. CASE /\ pic' = [pic EXCEPT !.irr = @ \ {line}, !.isr = @ \cup Cascaded(line)]
             /\ Deliver(VectorOf(line), 32 + line, FALSE)
             /\ UNCHANGED waiting
    <3>1. Deliver(32 + line, 32 + line, FALSE)
      BY <2>1, <2>3
    <3> QED BY <2>2, <2>3, <3>1
  <2>4. CASE /\ pic' = [pic EXCEPT !.irr = @ \ {line}, !.isr = @ \cup (Cascaded(line) \ {line})]
             /\ waiting' = waiting \ {line}
             /\ IF line < 8 THEN Deliver(VectorOf(7), 39, FALSE)
                ELSE Deliver(VectorOf(15), 47, FALSE)
    <3>1. CASE line < 8
      <4>1. Deliver(VectorOf(7), 39, FALSE)
        BY <2>4, <3>1, Zenon
      <4>2. Deliver(39, 39, FALSE)
        BY <2>1, <4>1
      <4>3. ~(line >= 8)
        BY <1>0, <3>1
      <4> QED BY <2>2, <2>4, <4>2, <4>3
    <3>2. CASE ~(line < 8)
      <4>1. Deliver(47, 47, FALSE)
        BY <2>1, <2>4, <3>2
      <4> QED BY <2>2, <2>4, <4>1
    <3> QED BY <3>1, <3>2
  <2> QED BY <2>3, <2>4 DEF Accept
<1>4. /\ pic' \in [master : Nat, slave : Nat, irr : SUBSET LINES,
                   isr : SUBSET (0 .. 15), imr : SUBSET (0 .. 15)]
      /\ pic'.master = pic.master /\ pic'.slave = pic.slave /\ pic'.irr = pic.irr \ {line}
      /\ pic'.isr \subseteq Cascaded(v - 32)
  <2>0. pic \in [master : Nat, slave : Nat, irr : SUBSET LINES,
                 isr : SUBSET (0 .. 15), imr : SUBSET (0 .. 15)]
    BY DEF MachineInv, Types
  <2>1. PICK served : /\ pic' = [pic EXCEPT !.irr = @ \ {line}, !.isr = @ \cup served]
                      /\ \/ v = 32 + line /\ served = Cascaded(line)
                         \/ (line >= 8 => v = 47) /\ served = Cascaded(line) \ {line}
    BY <1>3
  <2>2. Cascaded(line) \subseteq 0 .. 15
    BY <1>0 DEF Cascaded
  <2>3. served \subseteq 0 .. 15 /\ served \subseteq Cascaded(v - 32)
    <3>1. CASE v = 32 + line /\ served = Cascaded(line)
      <4>1. v - 32 = line
        BY <1>0, <3>1
      <4> QED BY <2>2, <3>1, <4>1
    <3>2. CASE (line >= 8 => v = 47) /\ served = Cascaded(line) \ {line}
      <4>1. CASE line >= 8
        <5>1. v - 32 = 15 /\ Cascaded(15) = {15, 2} /\ served = {2}
          BY <1>0, <3>2, <4>1 DEF Cascaded
        <5> QED BY <5>1
      <4>2. CASE ~(line >= 8)
        <5>1. served = {}
          BY <3>2, <4>2 DEF Cascaded
        <5> QED BY <5>1
      <4> QED BY <4>1, <4>2
    <3> QED BY <2>1, <3>1, <3>2
  <2>4. pic'.isr = pic.isr \cup served /\ pic'.irr = pic.irr \ {line}
        /\ pic'.master = pic.master /\ pic'.slave = pic.slave /\ pic'.imr = pic.imr
    BY <2>0, <2>1
  <2>5. pic' \in [master : Nat, slave : Nat, irr : SUBSET LINES,
                  isr : SUBSET (0 .. 15), imr : SUBSET (0 .. 15)]
    BY <2>0, <2>1, <2>3
  <2> QED BY <1>1, <2>3, <2>4, <2>5
<1>5. waiting' \in SUBSET LINES /\ nmis' \in Nat
  BY <1>2, <1>3 DEF MachineInv, Types
<1>6. PICK code \in BOOLEAN : code = FALSE
  OBVIOUS
<1>7. v \in 0 .. 47 /\ v >= 32 /\ ~(v < 32) /\ ~(step <= 5)
  BY <1>1 DEF MachineInv, Types
<1>13. EventOK(v, code)
  BY <1>1, <1>6, <1>7 DEF EventOK
<1>8. /\ Types' /\ Tables' /\ Stacked' /\ IfSaved'
      /\ \/ step <= 5 /\ frames' = frames
         \/ \E f \in Frame : frames' = Append(frames, f) /\ f.raised = v /\ f.pc = "stub"
  BY <1>1, <1>2, <1>3, <1>4, <1>5, <1>6, <1>7, <1>13, EventKeeps
<1>9. PICK f \in Frame : frames' = Append(frames, f) /\ f.raised = v /\ f.pc = "stub"
  BY <1>7, <1>8
<1>10. frames' # <<>> /\ frames'[1] = f /\ 1 \in DOMAIN frames'
  BY <1>1, <1>9
<1>11. InService'
  BY <1>4, <1>7, <1>9, <1>10 DEF InService, Cascaded
<1>12. RequestsKept'
  <2> SUFFICES ASSUME NEW l \in handlers' \cap waiting'
               PROVE  \/ l \in pic'.irr
                      \/ \E k \in DOMAIN frames' :
                           frames'[k].raised = 32 + l /\ frames'[k].pc # "return"
    BY DEF RequestsKept
  <2>1. l \in handlers \cap waiting
    BY <1>2, <1>3
  <2>2. l \in pic.irr
    BY <1>1, <2>1 DEF MachineInv, RequestsKept
  <2>3. CASE l # line
    BY <1>4, <2>2, <2>3
  <2>4. CASE l = line
    <3>1. v = 32 + line
      BY <1>3, <2>4
    <3> QED BY <1>9, <1>10, <2>4, <3>1
  <2> QED BY <2>3, <2>4
<1> QED BY <1>8, <1>11, <1>12 DEF MachineInv

---------------------------------------------------------------------------
(* Stubs and handlers.                                                     *)

(* The frame of the code that runs is replaced by f.                       *)
LEMMA TopChanged ==
  ASSUME MachineInv, frames # <<>>, NEW f \in Frame, f.was = Top.was, f.raised = Top.raised,
         frames' = [frames EXCEPT ![Len(frames)] = f], step' = step
  PROVE  /\ frames' \in Seq(Frame) /\ Len(frames') = Len(frames) /\ frames' # <<>> /\ IfSaved'
         /\ DOMAIN frames = 1 .. Len(frames) /\ DOMAIN frames' = 1 .. Len(frames)
         /\ Len(frames) \in Nat /\ 1 \in 1 .. Len(frames) /\ Len(frames) \in 1 .. Len(frames)
         /\ frames'[Len(frames)] = f
         /\ \A k \in 1 .. Len(frames) : /\ frames'[k].raised = frames[k].raised
                                        /\ k # Len(frames) => frames'[k] = frames[k]
<1>1. PICK n : n = Len(frames)
  OBVIOUS
<1>2. frames \in Seq(Frame) /\ Len(frames) <= DEPTH /\ n \in Nat
  BY <1>1 DEF MachineInv, Types
<1>3. n # 0
  BY <1>1, <1>2, EmptySeq
<1>4. n \in 1 .. n /\ 1 \in 1 .. n
  BY <1>2, <1>3
<1>5. /\ frames' \in Seq(Frame) /\ Len(frames') = n /\ DOMAIN frames' = 1 .. n
      /\ DOMAIN frames = 1 .. n
      /\ frames'[n] = f /\ \A k \in 1 .. n : k # n => frames'[k] = frames[k]
  BY <1>1, <1>2, <1>4
<1>6. \A k \in 1 .. n : frames'[k].raised = frames[k].raised /\ frames'[k].was = frames[k].was
  BY <1>1, <1>5 DEF Top
<1>7. IfSaved'
  BY <1>1, <1>5, <1>6 DEF MachineInv, IfSaved
<1>8. frames' # <<>>
  BY <1>3, <1>5, EmptySeq
<1> QED BY <1>1, <1>2, <1>4, <1>5, <1>6, <1>7, <1>8

(* A stub calls its handler.                                               *)
LEMMA StubKeeps ==
  ASSUME MachineInv, frames # <<>>, Top.pc = "stub", CallHandler(StubPush(Top))
  PROVE  MachineInv'
<1>0. Types /\ Stacked /\ Tables
  BY DEF MachineInv
<1>1. /\ stack' \in Seq(Word) /\ Stacked'
      /\ cpu' = [cpu EXCEPT !.regs = RegsOf(Len(frames))]
      /\ \E f \in Frame : /\ frames' = [frames EXCEPT ![Len(frames)] = f] /\ f.was = Top.was
                          /\ f.raised = Top.raised /\ f.pc = "handler"
  <2>1. PICK words : words = StubPush(Top)
    OBVIOUS
  <2>2. CallHandler(words)
    BY <2>1
  <2> QED BY <1>0, <2>1, <2>2, CallKeeps
<1>2. PICK f \in Frame : /\ frames' = [frames EXCEPT ![Len(frames)] = f] /\ f.was = Top.was
                         /\ f.raised = Top.raised /\ f.pc = "handler"
  BY <1>1
<1>3. UNCHANGED <<disk, step, idt, lidt, pic, handlers, waiting, nmis>>
  BY DEF CallHandler, devices
<1>4. /\ frames' \in Seq(Frame) /\ Len(frames') = Len(frames) /\ frames' # <<>> /\ IfSaved'
      /\ DOMAIN frames = 1 .. Len(frames) /\ DOMAIN frames' = 1 .. Len(frames)
      /\ Len(frames) \in Nat /\ 1 \in 1 .. Len(frames) /\ Len(frames) \in 1 .. Len(frames)
      /\ frames'[Len(frames)] = f
      /\ \A k \in 1 .. Len(frames) : /\ frames'[k].raised = frames[k].raised
                                     /\ k # Len(frames) => frames'[k] = frames[k]
  BY <1>2, <1>3, TopChanged
<1>5. RegsOf(Len(frames)) \in [REGS -> Word]
  <2>1. \A r \in REGS, n \in Nat : <<r, n>> \in Word
    BY DEF Word, TAGS
  <2> QED BY <1>4, <2>1 DEF RegsOf
<1>6. /\ cpu' \in [state : {"boot", "running", "halted", "reset", "astray"},
                   regs : [REGS -> Word], if : BOOLEAN]
      /\ cpu'.state = cpu.state /\ cpu'.if = cpu.if
  BY <1>0, <1>1, <1>5 DEF Types
<1>7. Types'
  BY <1>0, <1>1, <1>3, <1>4, <1>6 DEF Types
<1>8. Tables'
  BY <1>0, <1>3, <1>6 DEF Tables
<1>9. \A k \in 1 .. Len(frames) : frames[k].pc = "return" <=> frames'[k].pc = "return"
  BY <1>2, <1>4 DEF Top
<1>10. InService'
  BY <1>3, <1>4, <1>9 DEF MachineInv, InService, Cascaded
<1>11. RequestsKept'
  <2> SUFFICES ASSUME NEW line \in handlers \cap waiting, line \notin pic.irr
               PROVE  \E k \in DOMAIN frames' : /\ frames'[k].raised = 32 + line
                                                /\ frames'[k].pc # "return"
    BY <1>3 DEF RequestsKept
  <2>1. PICK k \in DOMAIN frames : frames[k].raised = 32 + line /\ frames[k].pc # "return"
    BY DEF MachineInv, RequestsKept
  <2> QED BY <1>4, <1>9, <2>1
<1> QED BY <1>1, <1>4, <1>7, <1>8, <1>10, <1>11 DEF MachineInv

(* Two words, pushed one by one.                                           *)
LEMMA PushOne ==
  ASSUME NEW a \in Word, NEW b \in Word
  PROVE  << a >> \o << b >> = << a, b >>
<1>1. PICK s, t, u : s = << a >> /\ t = << b >> /\ u = << a, b >>
  OBVIOUS
<1>2. /\ s \in Seq(Word) /\ Len(s) = 1 /\ s[1] = a
      /\ t \in Seq(Word) /\ Len(t) = 1 /\ t[1] = b
      /\ u \in Seq(Word) /\ Len(u) = 2 /\ u[1] = a /\ u[2] = b
  BY <1>1
<1>3. PICK v : v = s \o t
  OBVIOUS
<1>4. /\ v \in Seq(Word) /\ Len(v) = Len(s) + Len(t)
      /\ \A i \in 1 .. Len(s) : v[i] = s[i]
      /\ \A i \in 1 .. Len(t) : v[Len(s) + i] = t[i]
  BY <1>2, <1>3, Push
<1>5. Len(v) = 2 /\ v[1] = a /\ v[2] = b
  <2>1. 1 \in 1 .. 1 /\ 1 + 1 = 2
    OBVIOUS
  <2> QED BY <1>2, <1>4, <2>1
<1>6. \A i \in 1 .. 2 : v[i] = u[i]
  <2>1. \A i \in 1 .. 2 : i = 1 \/ i = 2
    OBVIOUS
  <2> QED BY <1>2, <1>5, <2>1
<1>7. v = u
  BY <1>2, <1>4, <1>5, <1>6, SeqEqual
<1> QED BY <1>1, <1>3, <1>7

(* An exception's stub pushes an error code if and only if the CPU did not. *)
LEMMA IsrStubKeeps ==
  ASSUME MachineInv, isr_common_stub
  PROVE  MachineInv'
<1>1. frames # <<>> /\ Top.pc = "stub" /\ Top.gate.stub = "isr" /\ CallHandler(isr_stub(Top.gate.n))
  BY DEF isr_common_stub, Running
<1>2. RightGate(Top) /\ Top \in Frame
  BY <1>1, TopFacts DEF MachineInv, FrameOK, Top
<1>3. PICK n : n = Top.gate.n
  OBVIOUS
<1>4. n = Top.raised /\ (Top.code <=> n \in ISR_ERRCODE) /\ Top.code \in BOOLEAN
  BY <1>1, <1>2, <1>3 DEF RightGate, ERROR_CODE, ISR_ERRCODE, Frame
<1>5. isr_stub(n) = StubPush(Top)
  <2>1. CASE n \in ISR_ERRCODE
    <3>1. isr_stub(n) = <<>> \o << <<"number", n>> >>
      BY <2>1 DEF isr_stub
    <3>2. << <<"number", n>> >> \in Seq({<<"number", n>>})
      OBVIOUS
    <3>3. isr_stub(n) = << <<"number", n>> >>
      BY <3>1, <3>2, ConcatEmptySeq
    <3> QED BY <1>4, <2>1, <3>3 DEF StubPush
  <2>2. CASE n \notin ISR_ERRCODE
    <3>1. isr_stub(n) = << <<"error", 0>> >> \o << <<"number", n>> >>
      BY <2>2 DEF isr_stub
    <3>2. n \in Int /\ 0 \in Int
      BY <1>2, <1>4 DEF Frame
    <3>3. <<"error", 0>> \in Word /\ <<"number", n>> \in Word
      BY <3>2, Words, Zenon
    <3>4. isr_stub(n) = << <<"error", 0>>, <<"number", n>> >>
      BY <3>1, <3>3, PushOne, Zenon
    <3> QED BY <1>4, <2>2, <3>4 DEF StubPush
  <2> QED BY <2>1, <2>2
<1> QED BY <1>1, <1>3, <1>5, StubKeeps

(* An interrupt's stub always pushes one.                                  *)
LEMMA IrqStubKeeps ==
  ASSUME MachineInv, irq_common_stub
  PROVE  MachineInv'
<1>1. frames # <<>> /\ Top.pc = "stub" /\ Top.gate.stub = "irq" /\ CallHandler(irq_stub(Top.gate.n))
  BY DEF irq_common_stub, Running
<1>2. RightGate(Top) /\ Top \in Frame
  BY <1>1, TopFacts DEF MachineInv, FrameOK, Top
<1>3. 32 + Top.gate.n = Top.raised /\ ~Top.code
  BY <1>1, <1>2 DEF RightGate
<1>4. irq_stub(Top.gate.n) = StubPush(Top)
  BY <1>3 DEF irq_stub, StubPush
<1> QED BY <1>1, <1>4, StubKeeps

(* A handler returns.  The lines in service and the waiting devices may    *)
(* change, but not so that a request is lost.                              *)
LEMMA HandlerKeeps ==
  ASSUME MachineInv, frames # <<>>, Top.pc = "handler", Return,
         UNCHANGED <<disk, step, idt, lidt, handlers, cpu, stack, nmis>>,
         waiting' \in SUBSET LINES,
         pic' \in [master : Nat, slave : Nat, irr : SUBSET LINES,
                   isr : SUBSET (0 .. 15), imr : SUBSET (0 .. 15)],
         pic'.master = pic.master, pic'.slave = pic.slave, pic'.irr = pic.irr,
         IF Top.raised < 32 THEN pic'.isr = pic.isr /\ waiting' = waiting
         ELSE pic'.isr = {} /\ (handlers \cap waiting') \subseteq (waiting \ {Top.raised - 32})
  PROVE  MachineInv'
<1>0. Types /\ Stacked /\ Tables
  BY DEF MachineInv
<1>1. /\ Stacked'
      /\ \E f \in Frame : /\ frames' = [frames EXCEPT ![Len(frames)] = f] /\ f.was = Top.was
                          /\ f.raised = Top.raised /\ f.pc = "return"
  BY <1>0, ReturnKeeps
<1>2. PICK f \in Frame : /\ frames' = [frames EXCEPT ![Len(frames)] = f] /\ f.was = Top.was
                         /\ f.raised = Top.raised /\ f.pc = "return"
  BY <1>1
<1>3. step' = step
  OBVIOUS
<1>4. /\ frames' \in Seq(Frame) /\ Len(frames') = Len(frames) /\ frames' # <<>> /\ IfSaved'
      /\ DOMAIN frames = 1 .. Len(frames) /\ DOMAIN frames' = 1 .. Len(frames)
      /\ Len(frames) \in Nat /\ 1 \in 1 .. Len(frames) /\ Len(frames) \in 1 .. Len(frames)
      /\ frames'[Len(frames)] = f
      /\ \A k \in 1 .. Len(frames) : /\ frames'[k].raised = frames[k].raised
                                     /\ k # Len(frames) => frames'[k] = frames[k]
  BY <1>2, <1>3, TopChanged
<1>5. Types'
  BY <1>0, <1>4 DEF Types
<1>6. Tables'
  BY <1>0 DEF Tables
<1>8. CASE Top.raised < 32
  <2>1. frames[Len(frames)].raised < 32
    BY <1>8 DEF Top
  <2>2. InService'
    <3>1. CASE Len(frames) = 1
      <4>1. ~(frames[1].raised >= 32) /\ ~(frames'[1].raised >= 32)
        <5>1. frames[1] \in Frame
          BY <1>0, <3>1, TopFacts DEF Top
        <5> QED BY <1>4, <2>1, <3>1, <5>1 DEF Frame
      <4> QED BY <1>4, <1>8, <4>1 DEF MachineInv, InService
    <3>2. CASE Len(frames) # 1
      <4>1. frames'[1] = frames[1]
        BY <1>4, <3>2
      <4> QED BY <1>4, <1>8, <4>1 DEF MachineInv, InService, Cascaded
    <3> QED BY <3>1, <3>2
  <2>3. RequestsKept'
    <3> SUFFICES ASSUME NEW l \in handlers' \cap waiting'
                 PROVE  \/ l \in pic'.irr
                        \/ \E k \in DOMAIN frames' :
                             frames'[k].raised = 32 + l /\ frames'[k].pc # "return"
      BY DEF RequestsKept
    <3>1. l \in handlers \cap waiting
      BY <1>8
    <3>2. CASE l \in pic.irr
      BY <3>2
    <3>3. CASE l \notin pic.irr
      <4>1. PICK k \in DOMAIN frames : frames[k].raised = 32 + l /\ frames[k].pc # "return"
        BY <3>1, <3>3 DEF MachineInv, RequestsKept
      <4>2. l \in 0 .. 15
        BY <3>1, MachineAssumption DEF MachineInv, Types, IRQ_COUNT
      <4>3. k # Len(frames)
        BY <2>1, <4>1, <4>2
      <4> QED BY <1>4, <4>1, <4>3
    <3> QED BY <3>2, <3>3
  <2> QED BY <1>1, <1>4, <1>5, <1>6, <2>2, <2>3 DEF MachineInv
<1>9. CASE ~(Top.raised < 32)
  <2>1. Len(frames) = 1 /\ Top = frames[1] /\ Top.raised \in Nat
    <3>1. Top \in Frame /\ FrameOK(frames, stack, cpu.regs, Len(frames))
      BY <1>0, TopFacts
    <3>2. Top.raised \in Nat /\ Top.raised >= 32
      BY <1>9, <3>1 DEF Frame
    <3>3. Len(frames) = 1
      BY <3>1, <3>2 DEF FrameOK, Top
    <3> QED BY <3>2, <3>3 DEF Top
  <2>2. InService'
    BY <1>9 DEF InService
  <2>3. RequestsKept'
    <3> SUFFICES ASSUME NEW l \in handlers' \cap waiting'
                 PROVE  l \in pic'.irr
      BY DEF RequestsKept
    <3>1. l \in handlers \cap waiting /\ l # Top.raised - 32
      BY <1>9
    <3>2. l \in 0 .. 15
      BY <3>1, MachineAssumption DEF MachineInv, Types, IRQ_COUNT
    <3>3. frames[1].raised # 32 + l
      BY <2>1, <3>1, <3>2
    <3>4. \A k \in DOMAIN frames : k = 1
      BY <1>4, <2>1
    <3> QED BY <3>1, <3>3, <3>4 DEF MachineInv, RequestsKept
  <2> QED BY <1>1, <1>4, <1>5, <1>6, <2>2, <2>3 DEF MachineInv
<1> QED BY <1>8, <1>9

(* isr_handler only prints.                                                *)
LEMMA IsrHandlerKeeps ==
  ASSUME MachineInv, isr_handler
  PROVE  MachineInv'
<1>1. frames # <<>> /\ Top.pc = "handler" /\ Top.gate.stub = "isr" /\ Return
  BY DEF isr_handler, Running
<1>2. RightGate(Top) /\ Top \in Frame
  BY <1>1, TopFacts DEF MachineInv, FrameOK, Top
<1>3. Top.raised < 32
  <2>1. PICK f : f = Top
    OBVIOUS
  <2>2. f.gate.stub = "isr" /\ RightGate(f)
    BY <1>1, <1>2, <2>1
  <2>3. f.raised \in 0 .. 31
    BY <2>2 DEF RightGate
  <2> QED BY <2>1, <2>3
<1>4. UNCHANGED <<disk, step, idt, lidt, handlers, cpu, stack, nmis>> /\ UNCHANGED <<pic, waiting>>
  BY DEF isr_handler, devices
<1>5. /\ waiting' \in SUBSET LINES
      /\ pic' \in [master : Nat, slave : Nat, irr : SUBSET LINES,
                   isr : SUBSET (0 .. 15), imr : SUBSET (0 .. 15)]
      /\ pic'.master = pic.master /\ pic'.slave = pic.slave /\ pic'.irr = pic.irr
      /\ pic'.isr = pic.isr /\ waiting' = waiting
  BY <1>4 DEF MachineInv, Types
<1> QED BY <1>1, <1>3, <1>4, <1>5, HandlerKeeps

(* An end of interrupt frees the only line that is in service.             *)
LEMMA EndOfOne ==
  ASSUME NEW l \in Nat, NEW isr, NEW lines, l \in lines, isr \cap lines \subseteq {l}
  PROVE  EndOf(isr, lines) = isr \ {l}
<1>1. \A k \in isr \cap lines : k = l
  OBVIOUS
<1>2. l <= l
  OBVIOUS
<1>3. ASSUME NEW x PROVE x \in EndOf(isr, lines) <=> x \in isr /\ x # l
  <2>1. CASE x = l
    BY <1>1, <1>2, <2>1, Zenon DEF EndOf
  <2>2. CASE x # l
    BY <1>1, <2>2, Zenon DEF EndOf
  <2> QED BY <2>1, <2>2
<1> QED BY <1>3

(* The acknowledgement of a line frees it and the cascade.                 *)
LEMMA AcknowledgedAll ==
  ASSUME NEW l \in 0 .. 15, NEW isr, isr \subseteq Cascaded(l)
  PROVE  Acknowledged(isr, l) = {}
<1>1. CASE l >= 8
  <2>1. isr \subseteq {l, 2}
    BY <1>1 DEF Cascaded
  <2>2. EOI_Slave(isr) = isr \ {l}
    <3>1. l \in 8 .. 15 /\ isr \cap (8 .. 15) \subseteq {l}
      BY <1>1, <2>1
    <3> QED BY <3>1, EndOfOne DEF EOI_Slave
  <2>3. \A s : s \subseteq {2} => EOI_Master(s) = {}
    <3>1. ASSUME NEW s, s \subseteq {2} PROVE EOI_Master(s) = {}
      <4>1. 2 \in Nat /\ 2 \in 0 .. 7 /\ s \cap (0 .. 7) \subseteq {2}
        BY <3>1
      <4>2. EndOf(s, 0 .. 7) = s \ {2}
        BY <4>1, EndOfOne
      <4> QED BY <3>1, <4>2 DEF EOI_Master
    <3> QED BY <3>1
  <2> QED BY <1>1, <2>1, <2>2, <2>3 DEF Acknowledged
<1>2. CASE ~(l >= 8)
  <2>1. isr \subseteq {l} /\ l \in 0 .. 7
    BY <1>2 DEF Cascaded
  <2>2. EOI_Master(isr) = {}
    <3>1. EndOf(isr, 0 .. 7) = isr \ {l}
      BY <2>1, EndOfOne
    <3> QED BY <2>1, <3>1 DEF EOI_Master
  <2> QED BY <1>2, <2>2 DEF Acknowledged
<1> QED BY <1>1, <1>2

(* The number that a handler finds in its frame.                           *)
LEMMA NumberFound ==
  ASSUME MachineInv, frames # <<>>, Top.pc # "stub"
  PROVE  IrqNum(Top.rdi) = Top.raised - 32
<1>1. Top \in Frame /\ FrameOK(frames, stack, cpu.regs, Len(frames))
  BY TopFacts DEF MachineInv
<1>2. PICK b \in Nat : b = Base(Top)
  BY <1>1, FrameNumbers
<1>3. Top.rdi = b + 22 /\ stack[b + 7] = <<"number", Top.raised>>
  BY <1>1, <1>2 DEF FrameOK, OnStack, StubWords, Top
<1>4. (b + 22) + 1 - 16 = b + 7
  OBVIOUS
<1>5. Field(Top.rdi, "interrupt_number") = stack[b + 7]
  BY <1>3, <1>4, Fields DEF Field
<1>6. \A x : <<"number", x>>[2] = x
  OBVIOUS
<1>7. Field(Top.rdi, "interrupt_number")[2] = Top.raised
  BY <1>3, <1>5, <1>6, Zenon
<1> QED BY <1>7 DEF IrqNum

(* irq_handler serves the device and acknowledges the line it came for.    *)
LEMMA IrqHandlerKeeps ==
  ASSUME MachineInv, irq_handler
  PROVE  MachineInv'
<1>1. frames # <<>> /\ Top.pc = "handler" /\ Top.gate.stub = "irq" /\ Return
  BY DEF irq_handler, Running
<1>2. RightGate(Top) /\ Top \in Frame /\ FrameOK(frames, stack, cpu.regs, Len(frames))
  BY <1>1, TopFacts DEF MachineInv, FrameOK, Top
<1>3. Top.raised \in 32 .. 47
  <2>1. PICK f : f = Top
    OBVIOUS
  <2>2. f.gate.stub # "isr" /\ RightGate(f)
    BY <1>1, <1>2, <2>1
  <2>3. f.gate.n \in 0 .. 15 /\ f.raised = 32 + f.gate.n
    BY <2>2 DEF RightGate
  <2>4. f.raised \in 32 .. 47
    BY <2>3
  <2> QED BY <2>1, <2>4
<1>4. PICK l \in 0 .. 15 : l = Top.raised - 32
  BY <1>3
<1>5. IrqNum(Top.rdi) = l
  BY <1>1, <1>4, NumberFound
<1>6. Len(frames) = 1
  BY <1>2, <1>3 DEF FrameOK, Top
<1>7. pic.isr \subseteq Cascaded(l)
  <2>1. Top = frames[1] /\ frames[1].raised - 32 = l
    BY <1>4, <1>6 DEF Top
  <2> QED BY <2>1 DEF MachineInv, InService
<1>8. /\ waiting' = (IF l \in handlers THEN waiting \ {l} ELSE waiting)
      /\ pic' = [pic EXCEPT !.isr = Acknowledged(pic.isr, l)]
  BY <1>5 DEF irq_handler
<1>9. UNCHANGED <<disk, step, idt, lidt, handlers, cpu, stack, nmis>>
  BY DEF irq_handler
<1>10. pic' = [pic EXCEPT !.isr = {}]
  BY <1>7, <1>8, AcknowledgedAll
<1>11. /\ waiting' \in SUBSET LINES
       /\ pic' \in [master : Nat, slave : Nat, irr : SUBSET LINES,
                    isr : SUBSET (0 .. 15), imr : SUBSET (0 .. 15)]
       /\ pic'.master = pic.master /\ pic'.slave = pic.slave /\ pic'.irr = pic.irr
       /\ pic'.isr = {} /\ (handlers \cap waiting') \subseteq (waiting \ {l})
  BY <1>8, <1>10 DEF MachineInv, Types
<1>12. ~(Top.raised < 32)
  BY <1>3
<1> QED BY <1>1, <1>4, <1>9, <1>11, <1>12, HandlerKeeps

(* The interrupted code goes on.                                           *)
LEMMA PopStep ==
  ASSUME MachineInv, ReturnFromInterrupt
  PROVE  MachineInv'
<1>0. Types /\ Stacked /\ Tables
  BY DEF MachineInv
<1>1. frames # <<>> /\ Top.pc = "return" /\ cpu.state = "running"
  BY DEF ReturnFromInterrupt, Running
<1>2. /\ frames' = SubSeq(frames, 1, Len(frames) - 1)
      /\ cpu' = [cpu EXCEPT !.regs = Top.was.regs, !.if = Top.was.if]
      /\ stack' = Top.was.stack /\ Stacked'
  BY <1>0, <1>1, PopKeeps
<1>3. UNCHANGED <<disk, step, idt, lidt, pic, handlers, waiting, nmis>>
  BY DEF ReturnFromInterrupt, devices
<1>4. PICK n \in Nat : n = Len(frames) /\ n \in 1 .. n /\ n <= DEPTH
  BY <1>0, <1>1, TopFacts DEF Types
<1>5. Top \in Frame /\ Top = frames[n]
  BY <1>0, <1>1, <1>4, TopFacts DEF Top
<1>6. /\ frames' \in Seq(Frame) /\ Len(frames') = n - 1 /\ DOMAIN frames = 1 .. n
      /\ DOMAIN frames' = 1 .. (n - 1) /\ \A k \in 1 .. (n - 1) : frames'[k] = frames[k]
  <2>0. frames \in Seq(Frame)
    BY <1>0 DEF Types
  <2>1. \A i \in 1 .. (n - 1) : frames[i] \in Frame
    BY <1>4, <2>0
  <2>2. n - 1 \in Int
    OBVIOUS
  <2>3. /\ frames' \in Seq(Frame)
        /\ Len(frames') = IF 1 <= n - 1 THEN (n - 1) - 1 + 1 ELSE 0
        /\ \A i \in 1 .. (n - 1) - 1 + 1 : frames'[i] = frames[1 + i - 1]
    BY <1>2, <1>4, <2>1, <2>2, SubSeqProperties
  <2> QED BY <1>4, <2>0, <2>3
<1>7. /\ cpu' \in [state : {"boot", "running", "halted", "reset", "astray"},
                   regs : [REGS -> Word], if : BOOLEAN]
      /\ cpu'.state = cpu.state /\ cpu'.if = Top.was.if
  BY <1>0, <1>2, <1>5 DEF Types, Frame
<1>8. Types'
  <2>1. Len(frames') <= DEPTH
    BY <1>4, <1>6, MachineAssumption
  <2>2. stack' \in Seq(Word)
    BY <1>2, <1>5 DEF Frame
  <2> QED BY <1>0, <1>3, <1>6, <1>7, <2>1, <2>2 DEF Types
<1>9. Tables'
  <2>1. cpu'.if => step' = 10
    BY <1>3, <1>4, <1>5, <1>7 DEF MachineInv, IfSaved
  <2> QED BY <1>0, <1>3, <1>7, <2>1 DEF Tables
<1>10. \A k \in 1 .. (n - 1) : k \in 1 .. n
  OBVIOUS
<1>11. IfSaved'
  BY <1>3, <1>4, <1>6, <1>10 DEF MachineInv, IfSaved
<1>12. InService'
  <2>1. CASE n = 1
    <3>1. pic.isr = {}
      BY <1>1, <1>5, <2>1 DEF MachineInv, InService
    <3> QED BY <1>3, <3>1 DEF InService
  <2>2. CASE n # 1
    <3>1. 1 \in 1 .. (n - 1) /\ n - 1 # 0
      BY <1>4, <2>2
    <3>2. frames'[1] = frames[1] /\ frames' # <<>>
      BY <1>6, <3>1, EmptySeq
    <3> QED BY <1>1, <1>3, <3>2 DEF MachineInv, InService, Cascaded
  <2> QED BY <2>1, <2>2
<1>13. RequestsKept'
  <2>1. \A k \in DOMAIN frames : frames[k].pc # "return" => k \in DOMAIN frames' /\ frames'[k] = frames[k]
    BY <1>1, <1>4, <1>5, <1>6
  <2> QED BY <1>3, <2>1 DEF MachineInv, RequestsKept
<1> QED BY <1>2, <1>8, <1>9, <1>11, <1>12, <1>13 DEF MachineInv

---------------------------------------------------------------------------
(* The invariant and what follows from it.                                 *)

(* Every step keeps the invariant.                                         *)
LEMMA StepKeeps ==
  ASSUME MachineInv, [Next]_vars
  PROVE  MachineInv'
<1>1. CASE disk_load
  BY <1>1, DiskKeeps
<1>2. CASE Kmain
  BY <1>2, InitOtherKeeps, InitIDTKeeps, InitISRKeeps, InitIRQKeeps, StiKeeps DEF Kmain
<1>3. CASE Handling
  BY <1>3, AcceptKeeps, IsrStubKeeps, IrqStubKeeps, IsrHandlerKeeps, IrqHandlerKeeps, PopStep
     DEF Handling
<1>4. CASE \E v \in EXCEPTIONS : Exception(v)
  BY <1>4, ExceptionKeeps
<1>5. CASE NonMaskable
  BY <1>5, NonMaskableKeeps
<1>6. CASE \E line \in LINES : Raise(line) \/ StartDriver(line) \/ StopDriver(line)
  BY <1>6, RaiseKeeps, StartDriverKeeps, StopDriverKeeps
<1>7. CASE InstallBeyond
  BY <1>7, InstallBeyondKeeps
<1>8. CASE UNCHANGED vars
  BY <1>8 DEF vars, MachineInv, Types, Tables, Stacked, IfSaved, InService, RequestsKept,
              Cascaded
<1> QED BY <1>1, <1>2, <1>3, <1>4, <1>5, <1>6, <1>7, <1>8 DEF Next

(* The machine's invariant, for every set of lines, exceptions and drives  *)
(* and every depth of nesting.                                             *)
THEOREM MachineInvariance == Spec => []MachineInv
<1>1. MachineInv /\ [Next]_vars => MachineInv'
  BY StepKeeps
<1> QED BY <1>1, InitHolds, PTL DEF Spec

(* Type correctness of Machine.                                            *)
THEOREM MachineTypeCorrect == Spec => []TypeOK
<1>1. MachineInv => TypeOK
  <2> SUFFICES ASSUME MachineInv PROVE TypeOK
    OBVIOUS
  <2>1. Types /\ Tables
    BY DEF MachineInv
  <2>2. step \in 1 .. (Len(KMAIN) + 1)
    BY <2>1, KmainOrder DEF Types
  <2>3. DOMAIN idt \subseteq 0 .. 255
    BY <2>1 DEF Tables
  <2>4. /\ pic.irr \subseteq LINES /\ pic.isr \cup pic.imr \subseteq 0 .. (IRQ_COUNT - 1)
    BY <2>1 DEF Types, IRQ_COUNT
  <2> QED BY <2>1, <2>2, <2>3, <2>4 DEF TypeOK, Types
<1> QED BY <1>1, MachineInvariance, PTL

(* Handlers see in InterruptFrame the event that came and the context that *)
(* was interrupted, and after Init_ISR no event resets the machine.        *)
THEOREM FramesCorrect == Spec => []FrameSeen
<1>1. MachineInv => FrameSeen
  <2> SUFFICES ASSUME MachineInv PROVE FrameSeen
    OBVIOUS
  <2>1. cpu.state = "reset" => \E i \in DOMAIN KMAIN : KMAIN[i] = "Init_ISR" /\ step <= i
    <3>1. 5 \in DOMAIN KMAIN /\ KMAIN[5] = "Init_ISR"
      BY DEF KMAIN
    <3> QED BY <3>1 DEF MachineInv, Tables
  <2>2. ASSUME NEW k \in DOMAIN frames, frames[k].pc # "stub"
        PROVE  LET F(field) == Field(frames[k].rdi, field)
               IN  /\ F("interrupt_number") = <<"number", frames[k].raised>>
                   /\ F("error_code") = <<"error", IF frames[k].code THEN frames[k].raised ELSE 0>>
                   /\ F("rip") = <<"rip", k - 1>>
                   /\ F("rflags") = <<"rflags", IF frames[k].was.if THEN 1 ELSE 0>>
                   /\ F("rsp") = <<"rsp", Len(frames[k].was.stack)>>
                   /\ \A r \in REGS : F(r) = frames[k].was.regs[r]
    <3>1. PICK f : f = frames[k]
      OBVIOUS
    <3>2. f \in Frame /\ k \in 1 .. Len(frames) /\ OnStack(f, k, stack) /\ f.pc # "stub"
      <4>1. frames \in Seq(Frame) /\ Levels(frames, stack, cpu.regs)
        BY DEF MachineInv, Types, Stacked
      <4>2. k \in 1 .. Len(frames)
        BY <4>1
      <4>3. FrameOK(frames, stack, cpu.regs, k)
        BY <4>1, <4>2 DEF Levels
      <4> QED BY <2>2, <3>1, <4>1, <4>2, <4>3 DEF FrameOK
    <3>3. PICK b \in Nat : b = Base(f)
      BY <3>2, FrameNumbers
    <3>4. CpuWords(f, k, stack) /\ StubWords(f, stack)
      BY <3>2 DEF OnStack
    <3>5. f.rdi = b + 22
      BY <3>3, <3>4 DEF StubWords
    <3>6. /\ (b + 22) + 1 - 16 = b + 7 /\ (b + 22) + 1 - 17 = b + 6
          /\ (b + 22) + 1 - 18 = b + 5 /\ (b + 22) + 1 - 20 = b + 3
          /\ (b + 22) + 1 - 21 = b + 2
          /\ \A j \in 1 .. 15 : (b + 22) + 1 - (16 - j) = b + 7 + j
      OBVIOUS
    <3>7. /\ Field(f.rdi, "interrupt_number") = stack[b + 7]
          /\ Field(f.rdi, "error_code") = stack[b + 6]
          /\ Field(f.rdi, "rip") = stack[b + 5]
          /\ Field(f.rdi, "rflags") = stack[b + 3]
          /\ Field(f.rdi, "rsp") = stack[b + 2]
      BY <3>5, <3>6, Fields DEF Field
    <3>8. \A r \in REGS : Field(f.rdi, r) = f.was.regs[r]
      <4> SUFFICES ASSUME NEW r \in REGS PROVE Field(f.rdi, r) = f.was.regs[r]
        OBVIOUS
      <4>1. PICK j \in 1 .. 15 : r = PUSHED[j]
        BY Pushed
      <4>2. (CHOOSE i \in DOMAIN InterruptFrame : InterruptFrame[i] = r) = 16 - j
        BY <4>1, Fields
      <4>3. Field(f.rdi, r) = stack[b + 7 + j]
        BY <3>5, <3>6, <4>2 DEF Field
      <4>4. stack[b + 7 + j] = f.was.regs[PUSHED[j]]
        BY <3>3, <3>4 DEF StubWords
      <4> QED BY <4>1, <4>3, <4>4
    <3>9. /\ stack[b + 7] = <<"number", f.raised>>
          /\ stack[b + 6] = <<"error", IF f.code THEN f.raised ELSE 0>>
          /\ stack[b + 5] = <<"rip", k - 1>>
          /\ stack[b + 3] = <<"rflags", IF f.was.if THEN 1 ELSE 0>>
          /\ stack[b + 2] = <<"rsp", Len(f.was.stack)>>
      BY <3>3, <3>4 DEF StubWords, CpuWords
    <3> QED BY <3>1, <3>7, <3>8, <3>9, Zenon
  <2> QED BY <2>1, <2>2 DEF FrameSeen
<1> QED BY <1>1, MachineInvariance, PTL

(* Outside the handling of an interrupt no line is in service.             *)
THEOREM ServiceCorrect == Spec => []NothingLeftInService
<1>1. MachineInv => NothingLeftInService
  <2> SUFFICES ASSUME MachineInv,
                      \A k \in DOMAIN frames : frames[k].raised < 32 \/ frames[k].pc = "return"
               PROVE  pic.isr = {}
    BY DEF NothingLeftInService
  <2>1. CASE frames = <<>>
    BY <2>1 DEF MachineInv, InService
  <2>2. CASE frames # <<>>
    <3>1. frames \in Seq(Frame)
      BY DEF MachineInv, Types
    <3>2. Len(frames) \in Nat /\ Len(frames) # 0 /\ DOMAIN frames = 1 .. Len(frames)
      BY <2>2, <3>1, EmptySeq
    <3>3. 1 \in DOMAIN frames
      BY <3>2
    <3>4. frames[1] \in Frame
      BY <3>1, <3>2, <3>3
    <3>5. ~(frames[1].raised >= 32) \/ frames[1].pc = "return"
      BY <3>3, <3>4 DEF Frame
    <3> QED BY <3>5 DEF MachineInv, InService
  <2> QED BY <2>1, <2>2
<1> QED BY <1>1, MachineInvariance, PTL

(* No request of a device with a handler is lost.                          *)
THEOREM RequestsCorrect == Spec => []RequestsKept
<1>1. MachineInv => RequestsKept
  BY DEF MachineInv
<1> QED BY <1>1, MachineInvariance, PTL

(* What is handled leaves no trace in the interrupted code's registers,    *)
(* stack and interrupt flag.                                               *)
THEOREM ContextCorrect == Spec => ContextRestored
<1> DEFINE Restored == /\ frames' = SubSeq(frames, 1, Len(frames) - 1)
                       /\ cpu'.regs = Top.was.regs /\ cpu'.if = Top.was.if
                       /\ stack' = Top.was.stack
<1>1. MachineInv /\ MachineInv' /\ [Next]_vars => [Len(frames') < Len(frames) => Restored]_vars
  <2> SUFFICES ASSUME MachineInv, MachineInv', Next, Len(frames') < Len(frames)
               PROVE  Restored
    OBVIOUS
  <2>0. /\ frames \in Seq(Frame) /\ Len(frames) \in Nat
        /\ frames' \in Seq(Frame) /\ Len(frames') \in Nat /\ Types /\ Stacked
    BY DEF MachineInv, Types
  <2>1. CASE ReturnFromInterrupt
    <3>1. frames # <<>> /\ Top.pc = "return"
      BY <2>1 DEF ReturnFromInterrupt, Running
    <3>2. /\ frames' = SubSeq(frames, 1, Len(frames) - 1)
          /\ cpu' = [cpu EXCEPT !.regs = Top.was.regs, !.if = Top.was.if]
          /\ stack' = Top.was.stack
      BY <2>0, <2>1, <3>1, PopKeeps
    <3> QED BY <2>0, <3>2 DEF Types
  <2>2. CASE frames' = frames
    BY <2>0, <2>2
  <2>3. CASE \E v, raised, code : Deliver(v, raised, code)
    <3>1. PICK v, raised, code : Deliver(v, raised, code)
      BY <2>3
    <3>2. frames' = frames \/ \E f : frames' = Append(frames, f)
      BY <3>1 DEF Deliver, Enter
    <3>3. \A f : Len(Append(frames, f)) = Len(frames) + 1
      BY <2>0
    <3> QED BY <2>0, <3>2, <3>3
  <2>4. CASE Return \/ \E words : CallHandler(words)
    <3>1. Return => DOMAIN frames' = DOMAIN frames
      BY DEF Return
    <3>2. ASSUME NEW words, CallHandler(words) PROVE DOMAIN frames' = DOMAIN frames
      <4>1. \E x : frames' = [frames EXCEPT ![Len(frames)].rdi = x,
                                            ![Len(frames)].pc = "handler"]
        BY <3>2 DEF CallHandler
      <4> QED BY <4>1
    <3>3. DOMAIN frames' = DOMAIN frames
      BY <2>4, <3>1, <3>2
    <3>4. DOMAIN frames = 1 .. Len(frames) /\ DOMAIN frames' = 1 .. Len(frames')
      BY <2>0
    <3>5. Len(frames') = Len(frames)
      BY <2>0, <3>3, <3>4
    <3> QED BY <2>0, <3>5
  <2>5. \/ frames' = frames \/ ReturnFromInterrupt \/ Return
        \/ (\E v, raised, code : Deliver(v, raised, code))
        \/ \E words : CallHandler(words)
    BY DEF Next, disk_load, Kmain, InitOther, Init_IDT, Init_ISR, Init_IRQ, sti, Handling,
           Accept, isr_common_stub, irq_common_stub, isr_handler, irq_handler, Exception,
           NonMaskable, Raise, StartDriver, StopDriver, InstallBeyond
  <2> QED BY <2>1, <2>2, <2>3, <2>4, <2>5
<1> QED BY <1>1, MachineInvariance, PTL DEF Spec, ContextRestored
=============================================================================
