---------------------------- MODULE SyscallEntry ----------------------------
(***************************************************************************)
(* The system call entry of kernel/syscall_.asm, an instruction or a run   *)
(* of like instructions at a time, from the syscall instruction, which     *)
(* Init_Syscall enables, to sysret.  Memory is words at addresses; stacks  *)
(* grow downwards by a word.  What syscall_handler does is in Process and  *)
(* Screen; here it returns a result and leaves the other registers it may  *)
(* use as it likes.                                                        *)
(***************************************************************************)
EXTENDS Integers, Sequences

CONSTANTS CALLER_STACKS,     \* stack pointers at the syscall instruction
          KERNEL_STACK_TOP,  \* kernel_stack_top
          LEFTOVERS,         \* what .bss or memory holds at kernel_stack_top
          ARGUMENTS,         \* values of the caller's registers
          RESULTS            \* results of syscall_handler

Addresses == (KERNEL_STACK_TOP - 2) .. KERNEL_STACK_TOP
             \cup UNION {(s - 3) .. s : s \in CALLER_STACKS}
REGS == {"rax", "rbx", "rcx", "rdx", "rsi", "rdi", "r8", "r9", "r11"}
USER_RIP == 1                \* the instruction after the caller's syscall
USER_RFLAGS == 2
RETURN == 3                  \* the instruction after the call of the handler
KERNEL_DATA == 16            \* 0x10

VARIABLES pc,                \* the next instruction of syscall_entry
          enabled,           \* EFER.SCE, with LSTAR = syscall_entry
          regs, rsp, mem,
          caller,            \* history: the caller's registers and stack
          seen               \* what syscall_handler was given

vars == <<pc, enabled, regs, rsp, mem, caller, seen>>

Init ==
  /\ pc = "kernel" /\ enabled = FALSE
  /\ \E value \in ARGUMENTS : regs = [r \in REGS |-> value]
  /\ rsp \in CALLER_STACKS
  /\ \E left \in LEFTOVERS :
       mem = [a \in Addresses |-> IF a = KERNEL_STACK_TOP THEN left ELSE 0]
  /\ caller = [regs |-> regs, rsp |-> rsp]
  /\ seen = <<>>

Init_Syscall ==
  /\ pc = "kernel"
  /\ pc' = "caller" /\ enabled' = TRUE
  /\ UNCHANGED <<regs, rsp, mem, caller, seen>>

(* The CPU (external) puts the return address and the flags in registers   *)
(* and leaves the stack pointer alone.                                     *)
Syscall ==
  /\ pc = "caller" /\ enabled
  /\ pc' = "save"
  /\ caller' = [regs |-> regs, rsp |-> rsp]
  /\ regs' = [regs EXCEPT !["rcx"] = USER_RIP, !["r11"] = USER_RFLAGS]
  /\ UNCHANGED <<enabled, rsp, mem, seen>>

Push(value) == rsp' = rsp - 1 /\ mem' = [mem EXCEPT ![rsp - 1] = value]

(* push rcx, push r11, on the caller's stack.                              *)
SaveRip ==
  /\ pc = "save" /\ pc' = "save_flags"
  /\ Push(regs["rcx"])
  /\ UNCHANGED <<enabled, regs, caller, seen>>

SaveFlags ==
  /\ pc = "save_flags" /\ pc' = "segments"
  /\ Push(regs["r11"])
  /\ UNCHANGED <<enabled, regs, caller, seen>>

(* The segment registers are loaded through rcx.                           *)
LoadSegments ==
  /\ pc = "segments" /\ pc' = "switch"
  /\ regs' = [regs EXCEPT !["rcx"] = KERNEL_DATA]
  /\ UNCHANGED <<enabled, rsp, mem, caller, seen>>

(* push rsp, on the caller's stack; then the kernel's stack is taken.      *)
SwitchStack ==
  /\ pc = "switch" /\ pc' = "arguments"
  /\ mem' = [mem EXCEPT ![rsp - 1] = rsp]
  /\ rsp' = KERNEL_STACK_TOP
  /\ UNCHANGED <<enabled, regs, caller, seen>>

PassArguments ==
  /\ pc = "arguments" /\ pc' = "call"
  /\ regs' = [regs EXCEPT !["rdi"] = regs["rax"], !["rsi"] = regs["rbx"]]
  /\ UNCHANGED <<enabled, rsp, mem, caller, seen>>

(* call syscall_handler and its return: the word that was pushed is popped *)
(* and the registers that C code may use are lost.                         *)
CallHandler ==
  /\ pc = "call" /\ pc' = "restore_stack"
  /\ seen' = <<regs["rdi"], regs["rsi"], regs["rdx"], regs["rcx"], regs["r8"], regs["r9"]>>
  /\ \E result \in RESULTS :
       regs' = [r \in REGS |-> CASE r = "rax" -> result
                                   [] r = "rbx" -> regs[r]
                                   [] OTHER     -> 0]
  /\ mem' = [mem EXCEPT ![rsp - 1] = RETURN]
  /\ UNCHANGED <<enabled, rsp, caller>>

(* pop rsp, still on the kernel's stack: the word at kernel_stack_top.     *)
RestoreStack ==
  /\ pc = "restore_stack" /\ pc' = "restore"
  /\ rsp' = mem[rsp]
  /\ UNCHANGED <<enabled, regs, mem, caller, seen>>

(* pop r11, pop rcx and sysret; what is at an address that the model does  *)
(* not know is taken as 0.                                                 *)
RestoreAndReturn ==
  LET At(a) == IF a \in Addresses THEN mem[a] ELSE 0
  IN  /\ pc = "restore" /\ pc' = "returned"
      /\ regs' = [regs EXCEPT !["r11"] = At(rsp), !["rcx"] = At(rsp + 1)]
      /\ rsp' = rsp + 2
      /\ UNCHANGED <<enabled, mem, caller, seen>>

(* The caller goes on, if it was returned to.                              *)
Resume ==
  /\ pc = "returned" /\ regs["rcx"] = USER_RIP
  /\ pc' = "caller"
  /\ UNCHANGED <<enabled, regs, rsp, mem, caller, seen>>

Next == Init_Syscall \/ Syscall \/ SaveRip \/ SaveFlags \/ LoadSegments
        \/ SwitchStack \/ PassArguments \/ CallHandler \/ RestoreStack
        \/ RestoreAndReturn \/ Resume

Spec == Init /\ [][Next]_vars

---------------------------------------------------------------------------
(* "Restore the user's stack pointer" (syscall_.asm:46): after sysret the  *)
(* caller's stack pointer is what it was at the syscall instruction.       *)
StackRestored == pc = "returned" => rsp = caller.rsp
=============================================================================
