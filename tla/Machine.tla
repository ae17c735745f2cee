------------------------------ MODULE Machine ------------------------------
(***************************************************************************)
(* The machine under the kernel, from the boot loader's disk_load to the   *)
(* handling of exceptions and interrupts: the order of _kmain's calls, the *)
(* IDT, the assembly stubs, isr_handler, irq_handler and the PIC.          *)
(*                                                                         *)
(* Code runs at nested levels: 0 is the boot loader and _kmain, n is the   *)
(* handling of an event that came at level n-1.  A word of the stack is a  *)
(* pair: what it was when it was pushed and its value.  The kernel itself  *)
(* has no driver and unmasks no IRQ; drivers, devices, the BIOS, the CPU   *)
(* and the two PICs are modelled from how the kernel uses them.            *)
(***************************************************************************)
EXTENDS Integers, Sequences, Functions

CONSTANTS DRIVES,      \* drive numbers the BIOS may boot from
          COUNTS,      \* numbers of sectors a BIOS read may give
          LINES,       \* IRQ lines with a device
          EXCEPTIONS,  \* exceptions that code may raise
          LOCALS,      \* words that a C handler may keep on the stack
          DEPTH,       \* bound: nested levels
          MAX_NMI      \* bound: non-maskable interrupts

SECTORS == 128         \* what boot.asm asks disk_load for
NMI == 2
IRQ_COUNT == 16

ASSUME MachineAssumption ==
  /\ DRIVES \subseteq 0 .. 255 /\ COUNTS \subseteq 0 .. SECTORS
  /\ LINES \subseteq 0 .. (IRQ_COUNT - 1) /\ EXCEPTIONS \subseteq 0 .. 20
  /\ LOCALS \subseteq Nat /\ DEPTH \in Nat \ {0} /\ MAX_NMI \in Nat

VARIABLES
  disk,     \* [drive, state, loaded]
  step,     \* which of _kmain's calls comes next
  idt,      \* the gates that are present: [vector -> gate]
  lidt,     \* the CPU has been given the table
  pic,      \* [master, slave, irr, isr, imr]: both PICs and their first vectors
  handlers, \* irq_handlers: the lines whose entry is not NULL
  waiting,  \* the devices that wait for their driver
  cpu,      \* [state, regs, if]
  stack,
  frames,   \* the events being handled, one per level
  nmis

vars == <<disk, step, idt, lidt, pic, handlers, waiting, cpu, stack, frames, nmis>>
devices == <<handlers, waiting>>

---------------------------------------------------------------------------
(* Registers, in the order in which the stubs push and pop them, and the   *)
(* fields of InterruptFrame.                                               *)
PUSHED == <<"rax", "rbx", "rcx", "rdx", "rbp", "rsi", "rdi", "r8", "r9", "r10",
            "r11", "r12", "r13", "r14", "r15">>
(* Mutant: two registers are popped in the order they were pushed.         *)
POPPED_Swapped == <<"r15", "r14", "r13", "r12", "r11", "r10", "r9", "r8", "rsi", "rdi",
                    "rbp", "rdx", "rcx", "rbx", "rax">>

POPPED == <<"r15", "r14", "r13", "r12", "r11", "r10", "r9", "r8", "rdi", "rsi",
            "rbp", "rdx", "rcx", "rbx", "rax">>
InterruptFrame ==
  <<"r15", "r14", "r13", "r12", "r11", "r10", "r9", "r8", "rdi", "rsi", "rbp",
    "rdx", "rcx", "rbx", "rax", "interrupt_number", "error_code",
    "rip", "cs", "rflags", "rsp", "ss">>
REGS == Range(PUSHED)

(* The values that code at a level has in the registers.                   *)
RegsOf(level) == [r \in REGS |-> <<r, level>>]

Top == frames[Len(frames)]
Running(pc) == cpu.state = "running" /\ frames # <<>> /\ Top.pc = pc
AtLevel0 == cpu.state = "running" /\ frames = <<>>

---------------------------------------------------------------------------
(* The number of sectors is compared with the byte at esp+10 of the 16-bit *)
(* pusha frame: that is DL, the drive, not DH.                             *)
CountAccepted(n) == n = disk.drive

(* disk_load.  The BIOS reports an error or how many sectors it read.      *)
(* Behind an incomplete kernel the CPU executes what is in memory.         *)
disk_load ==
  /\ disk.state = "reading"
  /\ \E n \in COUNTS, error \in BOOLEAN :
       /\ error => n # SECTORS
       /\ disk' = [disk EXCEPT !.loaded = n,
                     !.state = IF error \/ ~CountAccepted(n) THEN "stopped" ELSE "loaded"]
  /\ cpu' = [cpu EXCEPT !.state = CASE disk'.state = "stopped" -> "halted"
                                  [] disk'.loaded = SECTORS -> "running"
                                  [] OTHER -> "astray"]
  /\ UNCHANGED <<step, idt, lidt, pic, devices, stack, frames, nmis>>

---------------------------------------------------------------------------
(* _kmain.                                                                 *)
(* Mutant: interrupts are never enabled.                                   *)
KMAIN_NoSti == <<"Init_VGA", "Init_Memory", "Init_Paging", "Init_IDT", "Init_ISR",
                 "Init_IRQ", "InitProcessManager", "Init_Syscall">>

KMAIN == <<"Init_VGA", "Init_Memory", "Init_Paging", "Init_IDT", "Init_ISR",
           "Init_IRQ", "InitProcessManager", "Init_Syscall", "sti">>

Calls(f) == AtLevel0 /\ step <= Len(KMAIN) /\ KMAIN[step] = f /\ step' = step + 1

(* The calls that concern other modules.                                   *)
InitOther ==
  /\ \E f \in {"Init_VGA", "Init_Memory", "Init_Paging", "InitProcessManager",
               "Init_Syscall"} : Calls(f)
  /\ UNCHANGED <<disk, idt, lidt, pic, devices, cpu, stack, frames, nmis>>

(* idt_set_entry for count vectors in a row.                               *)
idt_set_entries(stub, first, count) ==
  [v \in DOMAIN idt \cup first .. (first + count - 1) |->
     IF v >= first /\ v < first + count THEN [stub |-> stub, n |-> v - first] ELSE idt[v]]

Init_IDT ==
  /\ Calls("Init_IDT")
  /\ idt' = <<>> /\ lidt' = TRUE
  /\ UNCHANGED <<disk, pic, devices, cpu, stack, frames, nmis>>

Init_ISR ==
  /\ Calls("Init_ISR")
  /\ idt' = idt_set_entries("isr", 0, 32)
  /\ UNCHANGED <<disk, lidt, pic, devices, cpu, stack, frames, nmis>>

(* ICW1 clears the requests and what is in service, ICW2 gives the vectors *)
(* 32 to 47, and at last all lines are masked.                             *)
Init_PIC ==
  [master |-> 32, slave |-> 40, irr |-> {}, isr |-> {}, imr |-> 0 .. (IRQ_COUNT - 1)]

Init_IRQ ==
  /\ Calls("Init_IRQ")
  /\ pic' = Init_PIC
  /\ handlers' = {}
  /\ idt' = idt_set_entries("irq", 32, IRQ_COUNT)
  /\ UNCHANGED <<disk, lidt, waiting, cpu, stack, frames, nmis>>

sti ==
  /\ Calls("sti")
  /\ cpu' = [cpu EXCEPT !.if = TRUE]
  /\ UNCHANGED <<disk, idt, lidt, pic, devices, stack, frames, nmis>>

Started == step > Len(KMAIN)

---------------------------------------------------------------------------
(* The PICs (external).  A request from the slave goes through line 2 of   *)
(* the master.  Lines are served in this order, and one that is in service *)
(* holds back itself and the ones after it.                                *)
PRIORITY == <<0, 1, 8, 9, 10, 11, 12, 13, 14, 15, 3, 4, 5, 6, 7>>
Rank(line) == CHOOSE i \in DOMAIN PRIORITY : PRIORITY[i] = line
Cascaded(line) == IF line >= 8 THEN {line, 2} ELSE {line}

Unmasked(line) == line \in pic.irr /\ Cascaded(line) \cap pic.imr = {}
Requested(line) ==
  /\ Unmasked(line)
  /\ \A s \in pic.isr \ {2} : Rank(line) < Rank(s)
  /\ 2 \in pic.isr => line < 2
  /\ \A other \in LINES : Unmasked(other) => Rank(line) <= Rank(other)

VectorOf(line) == IF line < 8 THEN pic.master + line ELSE pic.slave + line - 8

(* A non-specific end of interrupt for the master or the slave.            *)
EndOf(isr, lines) == isr \ {l \in isr \cap lines : \A k \in isr \cap lines : l <= k}
EOI_Slave(isr) == EndOf(isr, 8 .. 15)
EOI_Master(isr) == EndOf(isr, 0 .. 7)

(* An interrupt that is due comes before the next instruction.             *)
Due == cpu.if /\ \E line \in LINES : Requested(line)

---------------------------------------------------------------------------
(* The CPU (external) aligns the stack, pushes five words and, for some    *)
(* exceptions, an error code, and goes to the gate's stub with interrupts  *)
(* off.  Without a gate it raises exception 13 instead; without that one's *)
(* gate, or a table, the machine resets.                                   *)
ERROR_CODE == {8, 10, 11, 12, 13, 14, 17}

Enter(vector, raised, code) ==
  LET aligned == IF Len(stack) % 2 = 1 THEN Append(stack, <<"none", 0>>) ELSE stack
  IN  /\ stack' = aligned
                   \o << <<"ss", 16>>, <<"rsp", Len(stack)>>,
                         <<"rflags", IF cpu.if THEN 1 ELSE 0>>, <<"cs", 8>>,
                         <<"rip", Len(frames)>> >>
                   \o (IF code THEN << <<"error", raised>> >> ELSE <<>>)
      /\ frames' = Append(frames,
                     [raised |-> raised, code |-> code, gate |-> idt[vector],
                      pc |-> "stub", rdi |-> 0,
                      was |-> [regs |-> cpu.regs, if |-> cpu.if, stack |-> stack]])
      /\ cpu' = [cpu EXCEPT !.if = FALSE]

Deliver(vector, raised, code) ==
  \/ /\ lidt /\ vector \in DOMAIN idt
     /\ Enter(vector, raised, code)
  \/ /\ lidt /\ vector \notin DOMAIN idt /\ 13 \in DOMAIN idt
     /\ Enter(13, raised, TRUE)
  \/ /\ ~lidt \/ {vector, 13} \cap DOMAIN idt = {}
     /\ cpu' = [cpu EXCEPT !.state = "reset"]
     /\ UNCHANGED <<stack, frames>>

(* Any instruction may raise an exception.                                 *)
Exception(v) ==
  /\ cpu.state = "running" /\ Len(frames) < DEPTH /\ ~Due
  /\ Deliver(v, v, v \in ERROR_CODE)
  /\ UNCHANGED <<disk, step, idt, lidt, pic, devices, nmis>>

NonMaskable ==
  /\ cpu.state = "running" /\ Len(frames) < DEPTH
  /\ nmis < MAX_NMI /\ nmis' = nmis + 1
  /\ Deliver(NMI, NMI, FALSE)
  /\ UNCHANGED <<disk, step, idt, lidt, pic, devices>>

(* The CPU asks the PIC for the vector.  If the device has withdrawn the   *)
(* request, the PIC gives the vector of line 7 or 15 and puts only the     *)
(* cascade, if at all, in service.                                         *)
Accept(line) ==
  /\ cpu.state = "running" /\ cpu.if /\ Requested(line)
  /\ \/ /\ pic' = [pic EXCEPT !.irr = @ \ {line}, !.isr = @ \cup Cascaded(line)]
        /\ Deliver(VectorOf(line), 32 + line, FALSE)
        /\ UNCHANGED waiting
     \/ /\ pic' = [pic EXCEPT !.irr = @ \ {line}, !.isr = @ \cup (Cascaded(line) \ {line})]
        /\ waiting' = waiting \ {line}
        /\ IF line < 8 THEN Deliver(VectorOf(7), 39, FALSE)
           ELSE Deliver(VectorOf(15), 47, FALSE)
  /\ UNCHANGED <<disk, step, idt, lidt, handlers, nmis>>

---------------------------------------------------------------------------
(* The stubs.  isr%1 pushes a zero where the CPU has pushed no error code, *)
(* irq%1 always.                                                           *)
(* Mutant: the page fault stub pushes a second error code.                 *)
ISR_ERRCODE_NoPageFault == {8, 10, 11, 12, 13, 17}

ISR_ERRCODE == {8, 10, 11, 12, 13, 14, 17}

isr_stub(v) ==
  (IF v \in ISR_ERRCODE THEN <<>> ELSE << <<"error", 0>> >>) \o << <<"number", v>> >>

irq_stub(n) == << <<"error", 0>>, <<"number", 32 + n>> >>

(* The registers are pushed, their address becomes the argument, and the   *)
(* handler is called; it uses the registers and the stack as it likes.     *)
CallHandler(words) ==
  LET saved == stack \o words \o [i \in DOMAIN PUSHED |-> cpu.regs[PUSHED[i]]]
  IN  \E n \in LOCALS :
        /\ stack' = saved \o [i \in 1 .. (n + 1) |-> <<"local", i>>]
        /\ frames' = [frames EXCEPT ![Len(frames)].rdi = Len(saved),
                                    ![Len(frames)].pc = "handler"]
        /\ cpu' = [cpu EXCEPT !.regs = RegsOf(Len(frames))]
        /\ UNCHANGED <<disk, step, idt, lidt, pic, devices, nmis>>

isr_common_stub ==
  /\ Running("stub") /\ Top.gate.stub = "isr"
  /\ CallHandler(isr_stub(Top.gate.n))

irq_common_stub ==
  /\ Running("stub") /\ Top.gate.stub = "irq"
  /\ CallHandler(irq_stub(Top.gate.n))

(* frame->field, for a handler whose argument is rdi.                      *)
Field(rdi, field) ==
  stack[rdi + 1 - CHOOSE i \in DOMAIN InterruptFrame : InterruptFrame[i] = field]

Return == frames' = [frames EXCEPT ![Len(frames)].pc = "return"]

(* isr_handler prints the frame and returns, after 8, 13 and 14 too.       *)
isr_handler ==
  /\ Running("handler") /\ Top.gate.stub = "isr"
  /\ Return
  /\ UNCHANGED <<disk, step, idt, lidt, pic, devices, cpu, stack, nmis>>

(* Mutant: the table of handlers is read one entry too far.                *)
IrqNum_OffByOne(rdi) == Field(rdi, "interrupt_number")[2] - 31

IrqNum(rdi) == Field(rdi, "interrupt_number")[2] - 32

(* Mutant: an interrupt without a handler is not acknowledged.             *)
Acknowledged_IfHandled(isr, irq_num) ==
  IF irq_num \notin handlers THEN isr
  ELSE IF irq_num >= 8 THEN EOI_Master(EOI_Slave(isr)) ELSE EOI_Master(isr)

Acknowledged(isr, irq_num) ==
  IF irq_num >= 8 THEN EOI_Master(EOI_Slave(isr)) ELSE EOI_Master(isr)

(* irq_handler calls the line's handler, if there is one, and acknowledges *)
(* the interrupt at the PICs it came through.                              *)
irq_handler ==
  /\ Running("handler") /\ Top.gate.stub = "irq"
  /\ LET irq_num == IrqNum(Top.rdi)
     IN  /\ waiting' = IF irq_num \in handlers THEN waiting \ {irq_num} ELSE waiting
         /\ pic' = [pic EXCEPT !.isr = Acknowledged(@, irq_num)]
  /\ Return
  /\ UNCHANGED <<disk, step, idt, lidt, handlers, cpu, stack, nmis>>

(* The end of both stubs: the registers are popped, 16 bytes are dropped,  *)
(* and iretq takes five words.                                             *)
ReturnFromInterrupt ==
  LET rsp == Top.rdi
      popped == [r \in REGS |-> stack[rsp + 1 - CHOOSE i \in DOMAIN POPPED : POPPED[i] = r]]
      iret == [i \in 1 .. 5 |-> stack[rsp - Len(POPPED) - 2 + 1 - i][2]]
  IN  /\ Running("return")
      /\ frames' = SubSeq(frames, 1, iret[1])
      /\ cpu' = [cpu EXCEPT !.regs = popped, !.if = (iret[3] = 1)]
      /\ stack' = SubSeq(stack, 1, iret[4])
      /\ UNCHANGED <<disk, step, idt, lidt, pic, devices, nmis>>

---------------------------------------------------------------------------
(* Devices and drivers (external).  A device raises its line and waits for *)
(* its driver's handler.  A driver installs the handler, resets its device *)
(* and unmasks its line, and may uninstall the handler again.              *)
Raise(line) ==
  /\ line \notin waiting
  /\ waiting' = waiting \cup {line}
  /\ pic' = [pic EXCEPT !.irr = @ \cup {line}]
  /\ UNCHANGED <<disk, step, idt, lidt, handlers, cpu, stack, frames, nmis>>

(* Mutant: the number is not checked.                                      *)
irq_install_handler_NoCheck(irq) == handlers \cup {irq}

irq_install_handler(irq) ==
  IF irq >= 0 /\ irq < IRQ_COUNT THEN handlers \cup {irq} ELSE handlers

irq_uninstall_handler(irq) ==
  IF irq >= 0 /\ irq < IRQ_COUNT THEN handlers \ {irq} ELSE handlers

(* A call with a number that is no line's.                                 *)
InstallBeyond ==
  /\ AtLevel0 /\ Started /\ ~Due
  /\ \E irq \in {-1, IRQ_COUNT} : handlers' = irq_install_handler(irq)
  /\ UNCHANGED <<disk, step, idt, lidt, pic, waiting, cpu, stack, frames, nmis>>

StartDriver(line) ==
  /\ AtLevel0 /\ Started /\ ~Due
  /\ handlers' = irq_install_handler(line)
  /\ waiting' = waiting \ {line}
  /\ pic' = [pic EXCEPT !.irr = @ \ {line}, !.imr = @ \ Cascaded(line)]
  /\ UNCHANGED <<disk, step, idt, lidt, cpu, stack, frames, nmis>>

StopDriver(line) ==
  /\ AtLevel0 /\ Started /\ ~Due
  /\ handlers' = irq_uninstall_handler(line)
  /\ UNCHANGED <<disk, step, idt, lidt, pic, waiting, cpu, stack, frames, nmis>>

---------------------------------------------------------------------------
(* At boot interrupts are off (switch_to_pm), the PICs are as the BIOS set *)
(* them up and _kmain has an odd or an even number of words on the stack.  *)
Init ==
  /\ disk \in [drive : DRIVES, state : {"reading"}, loaded : {0}]
  /\ step = 1 /\ idt = <<>> /\ lidt = FALSE
  /\ pic = [master |-> 8, slave |-> 112, irr |-> {}, isr |-> {}, imr |-> {}]
  /\ handlers = {} /\ waiting = {}
  /\ cpu = [state |-> "boot", regs |-> RegsOf(0), if |-> FALSE]
  /\ \E n \in LOCALS : stack = [i \in 1 .. n |-> <<"local", i>>]
  /\ frames = <<>> /\ nmis = 0

Kmain == InitOther \/ Init_IDT \/ Init_ISR \/ Init_IRQ \/ sti

Handling ==
  \/ \E line \in LINES : Accept(line)
  \/ isr_common_stub
  \/ irq_common_stub
  \/ isr_handler
  \/ irq_handler
  \/ ReturnFromInterrupt

Next ==
  \/ disk_load
  \/ Kmain
  \/ Handling
  \/ \E v \in EXCEPTIONS : Exception(v)
  \/ NonMaskable
  \/ \E line \in LINES : Raise(line) \/ StartDriver(line) \/ StopDriver(line)
  \/ InstallBeyond

HandlingAt(level) == Len(frames) = level /\ Handling

(* The CPU takes an interrupt that is due.  Code at level 0 may fault for  *)
(* ever; a stub or a handler, which nothing but an exception of its own or *)
(* an NMI interrupts, gets on.                                             *)
Spec ==
  /\ Init /\ [][Next]_vars
  /\ WF_vars(HandlingAt(0))
  /\ \A level \in 1 .. DEPTH : SF_vars(HandlingAt(level))

---------------------------------------------------------------------------
(* Type correctness.                                                       *)
TypeOK ==
  /\ disk.state \in {"reading", "loaded", "stopped"} /\ disk.loaded \in 0 .. SECTORS
  /\ step \in 1 .. (Len(KMAIN) + 1)
  /\ DOMAIN idt \subseteq 0 .. 255 /\ lidt \in BOOLEAN
  /\ pic.irr \subseteq LINES /\ pic.isr \cup pic.imr \subseteq 0 .. (IRQ_COUNT - 1)
  /\ handlers \cup waiting \subseteq LINES
  /\ cpu.state \in {"boot", "running", "halted", "reset", "astray"} /\ cpu.if \in BOOLEAN
  /\ DOMAIN cpu.regs = REGS
  /\ Len(frames) <= DEPTH

(* "Verify that the correct number of sectors were read" (disk.asm:25):    *)
(* disk_load returns to boot.asm if and only if the sectors that boot.asm  *)
(* asked for have all been read, whatever the drive.                       *)
DiskVerified ==
  disk.state # "reading" => (disk.state = "loaded" <=> disk.loaded = SECTORS)

(* "If the exception was critical, stop the system" (isr.c:50): no handler *)
(* returns from a double fault, a general protection fault or a page fault *)
(* to the code that raised it.                                             *)
CriticalStops ==
  \A k \in DOMAIN frames :
    frames[k].gate.stub = "isr" /\ frames[k].gate.n \in {8, 13, 14} =>
      frames[k].pc # "return"

(* A handler finds in its frame what really happened, at whatever point of *)
(* whatever code: the number of the exception or, from 32, of the line;    *)
(* the error code or zero; and the code, flags and stack that it is to go  *)
(* back to.  No event after Init_ISR resets the machine.                   *)
FrameSeen ==
  /\ \A k \in DOMAIN frames : frames[k].pc # "stub" =>
       LET F(field) == Field(frames[k].rdi, field)
       IN  /\ F("interrupt_number") = <<"number", frames[k].raised>>
           /\ F("error_code") = <<"error", IF frames[k].code THEN frames[k].raised ELSE 0>>
           /\ F("rip") = <<"rip", k - 1>>
           /\ F("rflags") = <<"rflags", IF frames[k].was.if THEN 1 ELSE 0>>
           /\ F("rsp") = <<"rsp", Len(frames[k].was.stack)>>
           /\ \A r \in REGS : F(r) = frames[k].was.regs[r]
  /\ cpu.state = "reset" => \E i \in DOMAIN KMAIN : KMAIN[i] = "Init_ISR" /\ step <= i

(* What is handled leaves no trace: the code that was interrupted goes on  *)
(* with its registers, its stack and its interrupt flag, whatever handlers *)
(* did and whatever events came meanwhile.  Words below the stack pointer  *)
(* are not part of this.                                                   *)
ContextRestored ==
  [][Len(frames') < Len(frames) =>
       /\ frames' = SubSeq(frames, 1, Len(frames) - 1)
       /\ cpu'.regs = Top.was.regs /\ cpu'.if = Top.was.if
       /\ stack' = Top.was.stack]_vars

(* Every interrupt is acknowledged, at the PIC or PICs it came through,    *)
(* also when it is spurious or has no handler: outside the handling of one *)
(* no line is in service.                                                  *)
NothingLeftInService ==
  (\A k \in DOMAIN frames : frames[k].raised < 32 \/ frames[k].pc = "return") =>
    pic.isr = {}

(* A device whose driver has a handler installed never waits in vain: its  *)
(* request is pending, or an interrupt for it is being handled.            *)
RequestsKept ==
  \A line \in handlers \cap waiting :
    \/ line \in pic.irr
    \/ \E k \in DOMAIN frames : frames[k].raised = 32 + line /\ frames[k].pc # "return"

(* While an unmasked line has a request, an interrupt is taken eventually, *)
(* even if code raises exceptions for ever.                                *)
PendingAccepted ==
  (cpu.state = "running" /\ Started /\ \E line \in LINES : Unmasked(line))
    ~> (\/ cpu.state # "running"
        \/ \E k \in DOMAIN frames : frames[k].raised >= 32)
=============================================================================
