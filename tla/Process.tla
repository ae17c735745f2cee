------------------------------- MODULE Process -------------------------------
(***************************************************************************)
(* The process table of kernel/process.c, the system calls of              *)
(* kernel/syscall.c that reach it, and switch_process of                   *)
(* kernel/context_switch_.asm, on top of the page allocator of PhysMem.    *)
(* Everything runs on one CPU with no preemption: an action is one call.   *)
(*                                                                         *)
(* Of a saved context the model keeps the fields that the code reads or    *)
(* that a switch should use: r15 (the first field, which switch_process    *)
(* uses for the stack pointer), rip and rsp.  Other kernel code that takes *)
(* and frees pages competes with create_process for them.                  *)
(***************************************************************************)
EXTENDS PhysMem

CONSTANTS MAX_PROCESSES,  \* 64
          UINT32,         \* 2^32, the modulus of pids and process_count
          MEMORY_ENDS,    \* possible ends of the managed memory
          ENTRY_POINTS,   \* functions passed to create_process
          STATUSES,       \* arguments of sys_exit
          BREAKS          \* arguments of sys_brk, NULL among them

ASSUME ProcessAssumption ==
  /\ MAX_PROCESSES \in Nat \ {0}
  /\ UINT32 \in Nat /\ MAX_PROCESSES + 1 < UINT32
  /\ MEMORY_ENDS \subseteq {e \in Nat : e > memory_start /\ (e - 1) \div 65536 < 65536}
  /\ ENTRY_POINTS \subseteq Nat /\ STATUSES \subseteq Nat /\ BREAKS \subseteq Nat

VARIABLES mm,               \* the page allocator
          processes,        \* the process table
          current_process,  \* an index of the table, or NoProcess for NULL
          next_pid, process_count,
          rsp,              \* the CPU's stack pointer
          cpu,              \* "running", "faulting" for ever, or "lost"
          boot,             \* what _kmain has still to initialize
          ret,              \* what the last system call returned
          others,           \* history: pages other kernel code holds
          again             \* history: calls of sys_exit by a ZOMBIE, modulo UINT32

vars == <<mm, processes, current_process, next_pid, process_count, rsp, cpu,
          boot, ret, others, again>>
table == <<processes, current_process, next_pid, process_count>>

NoProcess == -1
Slots == 0 .. (MAX_PROCESSES - 1)
Minus1 == -1                  \* (uint64_t)-1, the error result
BOOT_STACK == 36864           \* 0x9000, boot.asm
DEFAULT_BRK == 4194304        \* 0x400000
KERNEL_STACK_SIZE == 4096
SYSCALL_COUNT == 10

EmptyContext == [r15 |-> 0, rip |-> 0, rsp |-> 0]

UnusedProcess ==
  [state |-> "UNUSED", pid |-> 0, parent |-> NoProcess, kernel_stack |-> 0,
   user_stack |-> 0, context |-> EmptyContext, brk |-> 0, exit_code |-> 0]

(* Boot has run Init_Memory; the process table is in the zeroed .bss.      *)
Init ==
  /\ \E e \in MEMORY_ENDS : mm = Init_Memory(BootMemory, e)
  /\ processes = [s \in Slots |-> UnusedProcess]
  /\ current_process = NoProcess
  /\ next_pid = 1 /\ process_count = 0
  /\ rsp = BOOT_STACK /\ cpu = "running"
  /\ boot = "InitProcessManager"
  /\ ret = 0
  /\ others = {} /\ again = 0

---------------------------------------------------------------------------
(* Mutant: the slots of exited processes are taken as free.               *)
UnusedSlots_Zombie == {s \in Slots : processes[s].state \in {"UNUSED", "ZOMBIE"}}

(* The slots that create_process's scan may take, and the one it takes.    *)
UnusedSlots == {s \in Slots : processes[s].state = "UNUSED"}
FirstUnused == CHOOSE s \in UnusedSlots : \A t \in UnusedSlots : s <= t

(* The process that create_process leaves in its slot: it is READY and has *)
(* a pid before its stacks are allocated, and keeps both when that fails.  *)
(* exit_code is whatever the slot held.                                    *)
NewProcess(slot, kstack, ustack, context) ==
  [state |-> "READY", pid |-> next_pid, parent |-> current_process,
   kernel_stack |-> kstack, user_stack |-> ustack, context |-> context,
   brk |-> DEFAULT_BRK, exit_code |-> processes[slot].exit_code]

(* A process p after fork copied a context into it, after the fallback of  *)
(* InitProcessManager, after sys_exit, and after sys_brk.                  *)
WithContext(p, context) ==
  [state |-> p.state, pid |-> p.pid, parent |-> p.parent,
   kernel_stack |-> p.kernel_stack, user_stack |-> p.user_stack,
   context |-> context, brk |-> p.brk, exit_code |-> p.exit_code]
Fallback(p) ==
  [state |-> "RUNNING", pid |-> 1, parent |-> p.parent,
   kernel_stack |-> p.kernel_stack, user_stack |-> p.user_stack,
   context |-> p.context, brk |-> DEFAULT_BRK, exit_code |-> p.exit_code]
Exited(p, status) ==
  [state |-> "ZOMBIE", pid |-> p.pid, parent |-> p.parent,
   kernel_stack |-> p.kernel_stack, user_stack |-> p.user_stack,
   context |-> p.context, brk |-> p.brk, exit_code |-> status]
WithBrk(p, brk) ==
  [state |-> p.state, pid |-> p.pid, parent |-> p.parent,
   kernel_stack |-> p.kernel_stack, user_stack |-> p.user_stack,
   context |-> p.context, brk |-> brk, exit_code |-> p.exit_code]

FreshContext(entry, kstack) ==
  [r15 |-> 0, rip |-> entry, rsp |-> kstack + KERNEL_STACK_SIZE]

(* Mutant: the kernel stack is not given back when the user stack fails.   *)
AfterUserStackFailure_Leak(m, kstack) == m

(* free_physical_page((void* )proc->kernel_stack), which leaves the value  *)
(* in the slot.                                                            *)
AfterUserStackFailure(m, kstack) == free_physical_page(m, kstack)

(* Mutant: the process is counted before its stacks are allocated.         *)
CountCreated_Early(created) == (process_count + 1) % UINT32

(* process_count++, the last statement of a successful creation.           *)
CountCreated(created) ==
  IF created THEN (process_count + 1) % UINT32 ELSE process_count

(* create_process on a table with an unused slot: the slot, the process,   *)
(* the allocator and the results.  A stack that lies beyond the mapped     *)
(* memory faults in get_physical_page and nothing after that happens.      *)
Creation(entry) ==
  LET slot == FirstUnused
      g1   == get_physical_page(mm)
      g2   == get_physical_page(g1.m)
      old  == processes[slot]
  IN  IF MemsetFaults(g1.ret) THEN
        [slot |-> slot, m |-> g1.m, created |-> FALSE, fault |-> TRUE,
         process |-> NewProcess(slot, old.kernel_stack, old.user_stack, old.context)]
      ELSE IF g1.ret = NULL THEN
        [slot |-> slot, m |-> g1.m, created |-> FALSE, fault |-> FALSE,
         process |-> NewProcess(slot, NULL, old.user_stack, old.context)]
      ELSE IF MemsetFaults(g2.ret) THEN
        [slot |-> slot, m |-> g2.m, created |-> FALSE, fault |-> TRUE,
         process |-> NewProcess(slot, g1.ret, old.user_stack, old.context)]
      ELSE IF g2.ret = NULL THEN
        [slot |-> slot, m |-> AfterUserStackFailure(g2.m, g1.ret),
         created |-> FALSE, fault |-> FALSE,
         process |-> NewProcess(slot, g1.ret, NULL, old.context)]
      ELSE
        [slot |-> slot, m |-> g2.m, created |-> TRUE, fault |-> FALSE,
         process |-> NewProcess(slot, g1.ret, g2.ret, FreshContext(entry, g1.ret))]

(* Mutant: a pid is consumed only by a creation that succeeds.             *)
AfterCreation_PidLate(c) ==
  /\ mm' = c.m
  /\ next_pid' = IF c.created THEN (next_pid + 1) % UINT32 ELSE next_pid
  /\ cpu' = IF c.fault THEN "faulting" ELSE cpu

(* The effect of a creation c on the allocator, the counters and the CPU.  *)
AfterCreation(c) ==
  /\ mm' = c.m
  /\ next_pid' = (next_pid + 1) % UINT32
  /\ cpu' = IF c.fault THEN "faulting" ELSE cpu

---------------------------------------------------------------------------
(* InitProcessManager resets the table and creates the idle process; if    *)
(* that fails, slot 0 becomes a RUNNING process without stacks.            *)
InitProcessManager(idle_process) ==
  LET c == Creation(idle_process)
  IN  /\ cpu = "running" /\ boot = "InitProcessManager"
      /\ AfterCreation(c)
      /\ IF c.fault
           THEN /\ processes' = [processes EXCEPT ![c.slot] = c.process]
                /\ UNCHANGED <<current_process, process_count, boot>>
           ELSE /\ processes' =
                     [processes EXCEPT ![0] =
                        IF c.created THEN c.process ELSE Fallback(c.process)]
                /\ current_process' = 0
                /\ process_count' = 1
                /\ boot' = "Init_Syscall"
      /\ UNCHANGED <<rsp, ret, others, again>>

(* Init_Syscall fills the table that syscall_handler dispatches on.        *)
Init_Syscall ==
  /\ cpu = "running" /\ boot = "Init_Syscall"
  /\ boot' = "done"
  /\ UNCHANGED <<mm, table, rsp, cpu, ret, others, again>>

Running == cpu = "running" /\ boot = "done"

(* create_process called by kernel code.                                   *)
CreateProcess(entry) ==
  /\ Running
  /\ IF UnusedSlots = {}
       THEN UNCHANGED <<mm, processes, next_pid, process_count, cpu>>
       ELSE LET c == Creation(entry)
            IN  /\ AfterCreation(c)
                /\ processes' = [processes EXCEPT ![c.slot] = c.process]
                /\ process_count' = CountCreated(c.created)
  /\ UNCHANGED <<current_process, rsp, boot, ret, others, again>>

(* sys_fork: the child gets a copy of the parent's saved context, its      *)
(* stack pointers included; context.rax, which is set to 0, is not kept.   *)
sys_fork ==
  /\ Running
  /\ IF UnusedSlots = {}
       THEN /\ ret' = Minus1
            /\ UNCHANGED <<mm, processes, next_pid, process_count, cpu>>
       ELSE LET c == Creation(processes[current_process].context.rip)
            IN  /\ AfterCreation(c)
                /\ processes' =
                     [processes EXCEPT ![c.slot] =
                        IF c.created
                          THEN WithContext(c.process,
                                           processes[current_process].context)
                          ELSE c.process]
                /\ process_count' = CountCreated(c.created)
                /\ ret' = IF c.fault THEN ret
                          ELSE IF c.created THEN c.process.pid ELSE Minus1
  /\ UNCHANGED <<current_process, rsp, boot, others, again>>

---------------------------------------------------------------------------
(* The READY process that schedule's scan from the slot after the current  *)
(* one meets first, wrapping around the table.                             *)
ReadyOthers(procs) == {s \in Slots : procs[s].state = "READY" /\ s # current_process}
Distance(s) == (s - current_process - 1) % MAX_PROCESSES
NextReady(procs) ==
  CHOOSE s \in ReadyOthers(procs) :
    \A t \in ReadyOthers(procs) : Distance(s) <= Distance(t)

(* switch_process: RSP is saved in and loaded from the first field of the  *)
(* contexts, r15.  A context that was never saved holds 0 there: the pops  *)
(* and the ret then take the words at address 0, and control is lost.      *)
switch_process(procs, next) ==
  /\ processes' =
       [procs EXCEPT ![current_process] =
          WithContext(@, [r15 |-> rsp, rip |-> @.context.rip, rsp |-> @.context.rsp])]
  /\ rsp' = procs[next].context.r15
  /\ cpu' = IF procs[next].context.r15 = 0 THEN "lost" ELSE cpu

(* schedule, on the table procs and the count that its caller leaves.      *)
schedule(procs, count) ==
  /\ process_count' = count
  /\ IF count <= 1 \/ ReadyOthers(procs) = {}
       THEN /\ processes' = procs
            /\ UNCHANGED <<current_process, rsp, cpu>>
       ELSE /\ switch_process(procs, NextReady(procs))
            /\ current_process' = NextReady(procs)

Schedule ==
  /\ Running
  /\ schedule(processes, process_count)
  /\ UNCHANGED <<mm, next_pid, boot, ret, others, again>>

(* Mutant: process_count is a signed counter.                              *)
CountExited_Signed == process_count - 1

(* process_count-- of sys_exit, which does not ask whether the process has *)
(* exited before.                                                          *)
CountExited == (process_count + UINT32 - 1) % UINT32

(* Mutant: the exiting process gives back its stacks while it runs on.     *)
sys_exit_Reap(status) ==
  /\ Running
  /\ schedule([processes EXCEPT ![current_process] = Exited(@, status)],
              CountExited)
  /\ mm' = free_physical_page(
             free_physical_page(mm, processes[current_process].kernel_stack),
             processes[current_process].user_stack)
  /\ ret' = 0
  /\ UNCHANGED <<next_pid, boot, others, again>>

(* sys_exit: a process that is already a ZOMBIE may call it again.         *)
sys_exit(status) ==
  /\ Running
  /\ schedule([processes EXCEPT ![current_process] = Exited(@, status)],
              CountExited)
  /\ ret' = 0
  /\ again' = IF processes[current_process].state = "ZOMBIE"
                THEN (again + 1) % UINT32 ELSE again
  /\ UNCHANGED <<mm, next_pid, boot, others>>

sys_brk(addr) ==
  /\ Running
  /\ processes' = [processes EXCEPT ![current_process] =
                     WithBrk(@, IF addr # NULL THEN addr ELSE @.brk)]
  /\ ret' = processes'[current_process].brk
  /\ UNCHANGED <<mm, current_process, next_pid, process_count, rsp, cpu, boot, others, again>>

(* What syscall_handler returns for a call that changes nothing here:      *)
(* getpid; exec, wait and invalid numbers (-1); read, open and close, which *)
(* reach the dummy handler (0).  sys_write belongs to the screen.          *)
ReturnOf(num) ==
  IF num = 8 THEN processes[current_process].pid
  ELSE IF num \in {6, 7} \/ num >= SYSCALL_COUNT THEN Minus1
  ELSE 0

ReturnOnly(num) ==
  /\ Running
  /\ ret' = ReturnOf(num)
  /\ UNCHANGED <<mm, table, rsp, cpu, boot, others, again>>

(* Other kernel code, Init_Paging before it, takes a page or frees one     *)
(* that it took.                                                           *)
OtherGet ==
  LET g == get_physical_page(mm)
  IN  /\ cpu = "running"
      /\ mm' = g.m
      /\ IF MemsetFaults(g.ret)
           THEN cpu' = "faulting" /\ UNCHANGED others
           ELSE others' = others \cup ({g.ret} \ {NULL}) /\ UNCHANGED cpu
      /\ UNCHANGED <<table, rsp, boot, ret, again>>

OtherFree(page) ==
  /\ cpu = "running"
  /\ mm' = free_physical_page(mm, page)
  /\ others' = others \ {page}
  /\ UNCHANGED <<table, rsp, cpu, boot, ret, again>>

Next ==
  \/ \E e \in ENTRY_POINTS : InitProcessManager(e)
  \/ Init_Syscall
  \/ \E e \in ENTRY_POINTS : CreateProcess(e)
  \/ sys_fork
  \/ Schedule
  \/ \E st \in STATUSES : sys_exit(st)
  \/ \E b \in BREAKS : sys_brk(b)
  \/ \E num \in {1, 3, 4, 6, 7, 8, SYSCALL_COUNT} : ReturnOnly(num)
  \/ OtherGet
  \/ \E p \in others : OtherFree(p)

Spec == Init /\ [][Next]_vars

---------------------------------------------------------------------------
ContextType == [r15 : Nat, rip : Nat, rsp : Nat]

ProcessType ==
  [state : {"UNUSED", "RUNNING", "READY", "ZOMBIE"}, pid : Nat,
   parent : Slots \cup {NoProcess}, kernel_stack : Nat, user_stack : Nat,
   context : ContextType, brk : Nat, exit_code : Nat]

TypeOK ==
  /\ mm \in [ready : BOOLEAN, memory_map : SUBSET Nat, memory_end : Nat,
             total_pages : Nat, used_pages : Nat]
  /\ processes \in [Slots -> ProcessType]
  /\ current_process \in Slots \cup {NoProcess}
  /\ next_pid \in 0 .. (UINT32 - 1) /\ process_count \in 0 .. (UINT32 - 1)
  /\ rsp \in Nat /\ cpu \in {"running", "faulting", "lost"}
  /\ boot \in {"InitProcessManager", "Init_Syscall", "done"}
  /\ ret \in Nat \cup {Minus1} /\ others \subseteq Nat
  /\ again \in 0 .. (UINT32 - 1)

Used == {s \in Slots : processes[s].state # "UNUSED"}

(* Processes in the table have different pids, none of them 0 ("sys_getpid *)
(* returned 0 (should be > 0)", test.c:237) and none that next_pid would   *)
(* give out again, however many creations have failed half-way.            *)
PidsUnique ==
  /\ \A s \in Used : 0 < processes[s].pid /\ processes[s].pid < next_pid
  /\ \A s, t \in Used : processes[s].pid = processes[t].pid => s = t

(* A process's parent was created before it: the parent links, which fork  *)
(* and create_process set from current_process, form no cycle.             *)
ParentsOlder ==
  \A s \in Used :
    processes[s].parent # NoProcess =>
      /\ processes[s].parent \in Used
      /\ processes[processes[s].parent].pid < processes[s].pid

(* The processes whose creation succeeded, and the stacks they own.        *)
Created == {s \in Used : processes[s].user_stack # NULL}
StacksOf(s) == {processes[s].kernel_stack, processes[s].user_stack}

(* The stacks of the created processes are pages that the allocator counts *)
(* as used, no page is a stack twice, and no other kernel code holds one:  *)
(* in spite of the dangling kernel_stack that a failed creation leaves.    *)
StacksExclusive ==
  /\ \A s \in Created :
       /\ processes[s].kernel_stack # processes[s].user_stack
       /\ \A p \in StacksOf(s) : PageIndex(p) \in Pages(mm) \ FreePages(mm)
       /\ StacksOf(s) \cap others = {}
  /\ \A s, t \in Created : s # t => StacksOf(s) \cap StacksOf(t) = {}

(* No page leaks: while the CPU runs, every used page is the stack of a    *)
(* created process or held by other kernel code.  A creation that fails    *)
(* half-way gives back what it took.                                       *)
NoPageLeaks ==
  cpu = "running" =>
    {PageAddr(i) : i \in Pages(mm) \ FreePages(mm)}
      \subseteq others \cup UNION {StacksOf(s) : s \in Created}

(* process_count, which decides whether schedule looks for a process at    *)
(* all, is the number of processes that were created and have not exited,  *)
(* less one for every further sys_exit of a process that has.              *)
Live ==
  {s \in Used : \/ processes[s].state = "RUNNING"
                \/ processes[s].state = "READY" /\ s \in Created}

CountTracksLive == (process_count + again) % UINT32 = Cardinality(Live)

(* sys_exit gives the CPU to another process if one is READY: "find the    *)
(* next ready process" (process.c:135).                                    *)
ExitYields ==
  [][(/\ current_process # NoProcess
      /\ processes[current_process].state # "ZOMBIE"
      /\ processes'[current_process].state = "ZOMBIE"
      /\ \E s \in Created : s # current_process /\ processes[s].state = "READY")
     => current_process' # current_process]_vars

(* "Load new RSP from new context" (context_switch_.asm:18): after a       *)
(* switch the CPU's stack pointer lies in the kernel stack of the process  *)
(* it switched to.                                                         *)
SwitchLoadsStack ==
  [][(current_process # NoProcess /\ current_process' # current_process) =>
       LET p == processes[current_process']
       IN  p.kernel_stack < rsp' /\ rsp' <= p.kernel_stack + KERNEL_STACK_SIZE]_vars
=============================================================================
