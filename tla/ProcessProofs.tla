---------------------------- MODULE ProcessProofs ----------------------------
(***************************************************************************)
(* Proofs about Process, for any number of slots and any memory.           *)
(*                                                                         *)
(* PidsUnique and ParentsOlder are not inductive by themselves.  They rest *)
(* on the fact that a slot, once taken, is never free again: the slots in  *)
(* use are then 0 .. next_pid-2, slot s holds pid s+1 even when its        *)
(* creation failed half-way, and next_pid cannot wrap around.              *)
(***************************************************************************)
EXTENDS Process, PhysMemProofs

Taken(s) == s < next_pid - 1

(* The parts of the inductive invariant: the table is a table, pids stay   *)
(* below the number of slots + 2, slots are taken in the order of pids,    *)
(* parents sit in earlier slots, and a current process is a taken slot     *)
(* once boot has come that far.                                            *)
TableShape == processes = [s \in Slots |-> processes[s]]
PidBound == next_pid \in 1 .. (MAX_PROCESSES + 1)
SlotsInOrder ==
  \A s \in Slots : /\ Taken(s) <=> processes[s].state # "UNUSED"
                   /\ Taken(s) => processes[s].pid = s + 1
ParentsBelow ==
  \A s \in Slots :
    Taken(s) => \/ processes[s].parent = NoProcess
                \/ processes[s].parent \in Slots /\ processes[s].parent < s
CurrentTaken ==
  \/ current_process = NoProcess
  \/ current_process \in Slots /\ Taken(current_process)
BootOrder ==
  /\ boot = "InitProcessManager" /\ cpu = "running" =>
       next_pid = 1 /\ current_process = NoProcess
  /\ boot # "InitProcessManager" => current_process # NoProcess

PInv == /\ TableShape /\ PidBound /\ SlotsInOrder /\ ParentsBelow
        /\ CurrentTaken /\ BootOrder

---------------------------------------------------------------------------
(* next_pid++ and the modulus: a pid that fits is not changed by it.       *)
LEMMA ModSmall ==
  ASSUME NEW n \in Nat, NEW m \in Nat, n < m
  PROVE  n % m = n
  BY SMT

(* create_process takes the slot whose index is next_pid - 1, and leaves   *)
(* room for the next pid.                                                  *)
LEMMA NextSlot ==
  ASSUME PidBound, SlotsInOrder, UnusedSlots # {}
  PROVE  /\ FirstUnused = next_pid - 1
         /\ FirstUnused \in Slots
         /\ next_pid <= MAX_PROCESSES
         /\ (next_pid + 1) % UINT32 = next_pid + 1
<1>1. UnusedSlots = {s \in Slots : ~Taken(s)}
  BY DEF UnusedSlots, SlotsInOrder
<1>2. PICK u \in Slots : next_pid - 1 <= u
  BY <1>1, ProcessAssumption, SMT DEF Taken, PidBound, Slots
<1>3. next_pid <= MAX_PROCESSES /\ next_pid - 1 \in Slots
  BY <1>2, ProcessAssumption, SMT DEF PidBound, Slots
<1>4. /\ next_pid - 1 \in UnusedSlots
      /\ \A t \in UnusedSlots : next_pid - 1 <= t
  BY <1>1, <1>3, SMT DEF Taken, Slots, PidBound
<1>5. /\ FirstUnused \in UnusedSlots
      /\ \A t \in UnusedSlots : FirstUnused <= t
  BY <1>4 DEF FirstUnused
<1>6. FirstUnused = next_pid - 1
  BY <1>1, <1>4, <1>5, SMT DEF Slots, PidBound
<1>7. next_pid + 1 < UINT32 /\ UINT32 \in Nat /\ next_pid + 1 \in Nat
  BY <1>3, ProcessAssumption, SMT DEF PidBound
<1>8. (next_pid + 1) % UINT32 = next_pid + 1
  BY <1>7, ModSmall
<1> QED BY <1>3, <1>6, <1>8

(* Whatever becomes of its stacks, the process in the new slot is READY    *)
(* and has the next pid and the current process as its parent.             *)
LEMMA CreationShape ==
  ASSUME NEW entry
  PROVE  /\ Creation(entry).slot = FirstUnused
         /\ Creation(entry).process.state = "READY"
         /\ Creation(entry).process.pid = next_pid
         /\ Creation(entry).process.parent = current_process
  BY DEF Creation, NewProcess

(* A table into which a new process p went, at the next slot, satisfies    *)
(* the parts of the invariant with the next pid.                           *)
LEMMA AddedSlot ==
  ASSUME PInv, UnusedSlots # {}, NEW p,
         processes' = [processes EXCEPT ![FirstUnused] = p],
         next_pid' = (next_pid + 1) % UINT32,
         p.state # "UNUSED", p.pid = next_pid, p.parent = current_process
  PROVE  TableShape' /\ PidBound' /\ SlotsInOrder' /\ ParentsBelow'
<1>1. /\ FirstUnused = next_pid - 1 /\ FirstUnused \in Slots
      /\ next_pid <= MAX_PROCESSES /\ next_pid' = next_pid + 1
  BY NextSlot DEF PInv
<1>2. /\ processes'[FirstUnused] = p
      /\ \A s \in Slots : s # FirstUnused => processes'[s] = processes[s]
  BY <1>1 DEF PInv, TableShape
<1>3. TableShape'
  BY <1>1 DEF PInv, TableShape
<1>4. PidBound'
  BY <1>1, ProcessAssumption, SMT DEF PInv, PidBound
<1>5. next_pid \in Nat
  BY ProcessAssumption, SMT DEF PInv, PidBound
<1>6. \A s \in Slots : Taken(s)' <=> (Taken(s) \/ s = FirstUnused)
  BY <1>1, <1>5, ProcessAssumption, SMT DEF Taken, Slots
<1>7. SlotsInOrder'
  <2> SUFFICES ASSUME NEW s \in Slots
               PROVE  /\ Taken(s)' <=> processes'[s].state # "UNUSED"
                      /\ Taken(s)' => processes'[s].pid = s + 1
    BY DEF SlotsInOrder, Taken
  <2>1. CASE s = FirstUnused
    BY <2>1, <1>1, <1>2, <1>5, <1>6, SMT
  <2>2. CASE s # FirstUnused
    BY <2>2, <1>2, <1>6 DEF PInv, SlotsInOrder
  <2> QED BY <2>1, <2>2
<1>8. ParentsBelow'
  <2> SUFFICES ASSUME NEW s \in Slots, Taken(s)'
               PROVE  \/ processes'[s].parent = NoProcess
                      \/ processes'[s].parent \in Slots /\ processes'[s].parent < s
    BY DEF ParentsBelow, Taken
  <2>1. CASE s = FirstUnused
    BY <2>1, <1>1, <1>2 DEF PInv, CurrentTaken, Taken
  <2>2. CASE s # FirstUnused
    BY <2>2, <1>2, <1>6 DEF PInv, ParentsBelow
  <2> QED BY <2>1, <2>2
<1> QED BY <1>3, <1>4, <1>7, <1>8

(* An action that changes neither pid nor parent of any process, nor       *)
(* whether its slot is UNUSED, keeps these parts of the invariant.         *)
LEMMA SameIdentity ==
  ASSUME PInv, next_pid' = next_pid, TableShape',
         \A s \in Slots : /\ processes'[s].pid = processes[s].pid
                          /\ processes'[s].parent = processes[s].parent
                          /\ processes'[s].state = "UNUSED" <=>
                               processes[s].state = "UNUSED"
  PROVE  PidBound' /\ SlotsInOrder' /\ ParentsBelow'
<1>1. \A s \in Slots : Taken(s)' <=> Taken(s)
  BY DEF Taken
<1>2. PidBound'
  BY DEF PInv, PidBound
<1>3. SlotsInOrder'
  BY <1>1 DEF PInv, SlotsInOrder
<1>4. ParentsBelow'
  BY <1>1 DEF PInv, ParentsBelow
<1> QED BY <1>2, <1>3, <1>4

(* A process in a taken slot is not UNUSED.                                *)
LEMMA CurrentUsed ==
  ASSUME PInv, Running
  PROVE  current_process \in Slots /\ processes[current_process].state # "UNUSED"
  BY DEF PInv, BootOrder, CurrentTaken, SlotsInOrder, Running

(* The scan of schedule ends at a READY process if there is one.           *)
LEMMA NextExists ==
  ASSUME NEW procs, current_process \in Slots, ReadyOthers(procs) # {}
  PROVE  NextReady(procs) \in Slots /\ procs[NextReady(procs)].state = "READY"
<1> DEFINE T == {Distance(s) : s \in ReadyOthers(procs)}
<1>1. \A s \in Slots : Distance(s) \in Nat
  BY ProcessAssumption, SMT DEF Distance, Slots
<1>2. T \subseteq Nat /\ T # {}
  BY <1>1 DEF ReadyOthers
<1>3. PICK x \in T : \A y \in T : x <= y
  BY <1>2, LeastNat, Zenon
<1>4. \E s \in ReadyOthers(procs) : \A t \in ReadyOthers(procs) : Distance(s) <= Distance(t)
  BY <1>3, Zenon
<1>5. NextReady(procs) \in ReadyOthers(procs)
  BY <1>4, Zenon DEF NextReady
<1> QED BY <1>5 DEF ReadyOthers

(* schedule, given a table that differs from the current one only in what  *)
(* an exit changes, ends with a current process in a taken slot.           *)
LEMMA ScheduleKeeps ==
  ASSUME PInv, Running, NEW procs, NEW count,
         procs = [s \in Slots |-> procs[s]],
         \A s \in Slots : /\ procs[s].pid = processes[s].pid
                          /\ procs[s].parent = processes[s].parent
                          /\ procs[s].state = "UNUSED" <=> processes[s].state = "UNUSED",
         schedule(procs, count), next_pid' = next_pid, boot' = boot
  PROVE  PInv'
<1>1. current_process \in Slots /\ Taken(current_process)
  BY DEF PInv, BootOrder, CurrentTaken, Running
<1>2. CASE count <= 1 \/ ReadyOthers(procs) = {}
  <2>1. processes' = procs /\ current_process' = current_process
    BY <1>2 DEF schedule
  <2>2. TableShape'
    BY <2>1 DEF TableShape
  <2>3. PidBound' /\ SlotsInOrder' /\ ParentsBelow'
    BY <2>1, <2>2, SameIdentity
  <2>4. CurrentTaken' /\ BootOrder'
    BY <2>1, <1>1 DEF CurrentTaken, BootOrder, Taken, Running, PInv
  <2> QED BY <2>2, <2>3, <2>4 DEF PInv
<1>3. CASE ~(count <= 1 \/ ReadyOthers(procs) = {})
  <2> DEFINE next == NextReady(procs)
             c == [r15 |-> rsp, rip |-> procs[current_process].context.rip,
                   rsp |-> procs[current_process].context.rsp]
  <2>1. /\ processes' = [procs EXCEPT ![current_process] =
                           WithContext(procs[current_process], c)]
        /\ current_process' = next
    BY <1>3 DEF schedule, switch_process
  <2>2. next \in Slots /\ procs[next].state = "READY"
    BY <1>1, <1>3, NextExists
  <2> HIDE DEF next, c
  <2>3. TableShape'
    BY <2>1, <1>1 DEF TableShape
  <2>4. \A s \in Slots : /\ processes'[s].pid = procs[s].pid
                         /\ processes'[s].parent = procs[s].parent
                         /\ processes'[s].state = procs[s].state
    <3> SUFFICES ASSUME NEW s \in Slots
                 PROVE  /\ processes'[s].pid = procs[s].pid
                        /\ processes'[s].parent = procs[s].parent
                        /\ processes'[s].state = procs[s].state
      OBVIOUS
    <3>1. CASE s = current_process
      BY <3>1, <2>1, <1>1 DEF WithContext
    <3>2. CASE s # current_process
      BY <3>2, <2>1, <1>1
    <3> QED BY <3>1, <3>2
  <2>5. PidBound' /\ SlotsInOrder' /\ ParentsBelow'
    BY <2>3, <2>4, SameIdentity
  <2>6. current_process' \in Slots /\ processes'[current_process'].state # "UNUSED"
    BY <2>1, <2>2, <2>4
  <2>7. Taken(current_process)'
    BY <2>5, <2>6 DEF SlotsInOrder, Taken
  <2>8. NoProcess \notin Slots
    BY SMT DEF NoProcess, Slots
  <2>9. CurrentTaken' /\ BootOrder'
    BY <2>6, <2>7, <2>8 DEF CurrentTaken, BootOrder, Running, Taken
  <2> QED BY <2>3, <2>5, <2>9 DEF PInv
<1> QED BY <1>2, <1>3

---------------------------------------------------------------------------
(* The initial table satisfies the invariant.                              *)
LEMMA InitEstablishes == Init => PInv
<1> SUFFICES ASSUME Init PROVE PInv
  OBVIOUS
<1>1. \A s \in Slots : ~Taken(s) /\ processes[s].state = "UNUSED"
  BY SMT DEF Init, Taken, Slots, UnusedProcess
<1>2. TableShape
  BY DEF Init, TableShape
<1>3. PidBound
  BY ProcessAssumption, SMT DEF Init, PidBound
<1>4. SlotsInOrder /\ ParentsBelow
  BY <1>1 DEF SlotsInOrder, ParentsBelow
<1>5. CurrentTaken /\ BootOrder
  BY DEF Init, CurrentTaken, BootOrder
<1> QED BY <1>2, <1>3, <1>4, <1>5 DEF PInv

(* When InitProcessManager runs, every slot is free and slot 0 is next.    *)
LEMMA InitManagerPreserves ==
  ASSUME PInv, NEW e, InitProcessManager(e)
  PROVE  PInv'
<1> DEFINE c == Creation(e)
           p == IF c.fault THEN c.process
                ELSE IF c.created THEN c.process ELSE Fallback(c.process)
<1>1. /\ next_pid = 1 /\ current_process = NoProcess
      /\ cpu = "running" /\ boot = "InitProcessManager"
  BY DEF InitProcessManager, PInv, BootOrder
<1>2. 0 \in Slots /\ UnusedSlots # {}
  BY <1>1, ProcessAssumption, SMT DEF PInv, SlotsInOrder, UnusedSlots, Slots, Taken
<1>3. FirstUnused = 0
  BY <1>1, <1>2, NextSlot DEF PInv
<1>4. c.slot = FirstUnused /\ c.process.state = "READY" /\ c.process.pid = next_pid
      /\ c.process.parent = current_process
  BY CreationShape
<1>5. /\ next_pid' = (next_pid + 1) % UINT32
      /\ processes' = [processes EXCEPT ![FirstUnused] = p]
      /\ \/ current_process' = current_process /\ boot' = boot /\ cpu' = "faulting"
         \/ current_process' = 0 /\ boot' = "Init_Syscall"
  BY <1>3, <1>4 DEF InitProcessManager, AfterCreation
<1>6. p.state # "UNUSED" /\ p.pid = next_pid /\ p.parent = current_process
  BY <1>1, <1>4 DEF Fallback
<1> HIDE DEF c, p
<1>7. TableShape' /\ PidBound' /\ SlotsInOrder' /\ ParentsBelow'
  BY <1>2, <1>5, <1>6, AddedSlot
<1>8. next_pid' = 2
  BY <1>1, <1>2, <1>5, NextSlot DEF PInv
<1>9. CurrentTaken' /\ BootOrder'
  BY <1>1, <1>2, <1>5, <1>8, SMT DEF CurrentTaken, BootOrder, Taken, NoProcess
<1> QED BY <1>7, <1>9 DEF PInv

(* A creation by create_process or fork, whatever context the new process  *)
(* is given.                                                               *)
LEMMA CreatePreserves ==
  ASSUME PInv, Running, UnusedSlots # {}, NEW p,
         p.state # "UNUSED", p.pid = next_pid, p.parent = current_process,
         processes' = [processes EXCEPT ![FirstUnused] = p],
         next_pid' = (next_pid + 1) % UINT32,
         current_process' = current_process, boot' = boot
  PROVE  PInv'
<1>1. TableShape' /\ PidBound' /\ SlotsInOrder' /\ ParentsBelow'
  BY AddedSlot
<1>2. next_pid' = next_pid + 1 /\ next_pid \in Nat
  BY NextSlot, SMT DEF PInv, PidBound
<1>3. CurrentTaken'
  BY <1>2, SMT DEF PInv, CurrentTaken, Taken, Slots
<1>4. BootOrder'
  BY DEF PInv, BootOrder, Running
<1> QED BY <1>1, <1>3, <1>4 DEF PInv

(* An action that leaves the table and the counters alone.                 *)
LEMMA TableUnchanged ==
  ASSUME PInv, processes' = processes, next_pid' = next_pid,
         current_process' = current_process,
         boot' = boot \/ (boot # "InitProcessManager" /\ boot' # "InitProcessManager"),
         cpu' = "running" => cpu = "running"
  PROVE  PInv'
  BY DEF PInv, TableShape, PidBound, SlotsInOrder, ParentsBelow, CurrentTaken,
         BootOrder, Taken

(* Every step preserves the invariant.                                     *)
LEMMA NextPreserves == PInv /\ [Next]_vars => PInv'
<1> SUFFICES ASSUME PInv, [Next]_vars PROVE PInv'
  OBVIOUS
<1>1. ASSUME NEW e \in ENTRY_POINTS, InitProcessManager(e) PROVE PInv'
  BY <1>1, InitManagerPreserves
<1>2. CASE Init_Syscall
  BY <1>2, TableUnchanged DEF Init_Syscall, table
<1>3. ASSUME NEW e \in ENTRY_POINTS, CreateProcess(e) PROVE PInv'
  <2>1. CASE UnusedSlots = {}
    BY <1>3, <2>1, TableUnchanged DEF CreateProcess
  <2>2. CASE UnusedSlots # {}
    <3> DEFINE c == Creation(e)
    <3>1. /\ Running /\ processes' = [processes EXCEPT ![c.slot] = c.process]
          /\ next_pid' = (next_pid + 1) % UINT32
          /\ current_process' = current_process /\ boot' = boot
      BY <1>3, <2>2 DEF CreateProcess, AfterCreation
    <3>2. /\ c.slot = FirstUnused /\ c.process.state = "READY"
          /\ c.process.pid = next_pid /\ c.process.parent = current_process
      BY CreationShape
    <3> HIDE DEF c
    <3> QED BY <2>2, <3>1, <3>2, CreatePreserves
  <2> QED BY <2>1, <2>2
<1>4. CASE sys_fork
  <2>1. CASE UnusedSlots = {}
    BY <1>4, <2>1, TableUnchanged DEF sys_fork
  <2>2. CASE UnusedSlots # {}
    <3> DEFINE c == Creation(processes[current_process].context.rip)
               p == IF c.created
                      THEN WithContext(c.process, processes[current_process].context)
                      ELSE c.process
    <3>1. /\ Running /\ processes' = [processes EXCEPT ![c.slot] = p]
          /\ next_pid' = (next_pid + 1) % UINT32
          /\ current_process' = current_process /\ boot' = boot
      BY <1>4, <2>2 DEF sys_fork, AfterCreation
    <3>2. /\ c.slot = FirstUnused /\ c.process.state = "READY"
          /\ c.process.pid = next_pid /\ c.process.parent = current_process
      BY CreationShape
    <3>3. p.state # "UNUSED" /\ p.pid = next_pid /\ p.parent = current_process
      BY <3>2 DEF WithContext
    <3> HIDE DEF c, p
    <3> QED BY <2>2, <3>1, <3>2, <3>3, CreatePreserves
  <2> QED BY <2>1, <2>2
<1>5. CASE Schedule
  BY <1>5, ScheduleKeeps DEF Schedule, PInv, TableShape
<1>6. ASSUME NEW st \in STATUSES, sys_exit(st) PROVE PInv'
  <2> DEFINE procs == [processes EXCEPT ![current_process] =
                         Exited(processes[current_process], st)]
  <2>1. /\ Running /\ schedule(procs, CountExited)
        /\ next_pid' = next_pid /\ boot' = boot
    BY <1>6 DEF sys_exit
  <2>2. current_process \in Slots /\ processes[current_process].state # "UNUSED"
    BY <2>1, CurrentUsed
  <2>3. procs = [s \in Slots |-> procs[s]]
    BY DEF PInv, TableShape
  <2>4. \A s \in Slots : /\ procs[s].pid = processes[s].pid
                         /\ procs[s].parent = processes[s].parent
                         /\ procs[s].state = "UNUSED" <=> processes[s].state = "UNUSED"
    <3> SUFFICES ASSUME NEW s \in Slots
                 PROVE  /\ procs[s].pid = processes[s].pid
                        /\ procs[s].parent = processes[s].parent
                        /\ procs[s].state = "UNUSED" <=> processes[s].state = "UNUSED"
      OBVIOUS
    <3>1. CASE s = current_process
      BY <3>1, <2>2 DEF Exited, PInv, TableShape
    <3>2. CASE s # current_process
      BY <3>2, <2>2 DEF PInv, TableShape
    <3> QED BY <3>1, <3>2
  <2> HIDE DEF procs
  <2> QED BY <2>1, <2>3, <2>4, ScheduleKeeps
<1>7. ASSUME NEW b \in BREAKS, sys_brk(b) PROVE PInv'
  <2> DEFINE q == WithBrk(processes[current_process],
                          IF b # NULL THEN b ELSE processes[current_process].brk)
  <2>1. /\ Running /\ processes' = [processes EXCEPT ![current_process] = q]
        /\ next_pid' = next_pid /\ boot' = boot /\ current_process' = current_process
        /\ cpu' = cpu
    BY <1>7 DEF sys_brk
  <2>2. current_process \in Slots
    BY <2>1, CurrentUsed
  <2>3. /\ q.pid = processes[current_process].pid
        /\ q.parent = processes[current_process].parent
        /\ q.state = processes[current_process].state
    BY DEF WithBrk
  <2> HIDE DEF q
  <2>4. TableShape'
    BY <2>1, <2>2 DEF PInv, TableShape
  <2>5. \A s \in Slots : /\ processes'[s].pid = processes[s].pid
                         /\ processes'[s].parent = processes[s].parent
                         /\ processes'[s].state = processes[s].state
    BY <2>1, <2>2, <2>3 DEF PInv, TableShape
  <2>6. PidBound' /\ SlotsInOrder' /\ ParentsBelow'
    BY <2>1, <2>4, <2>5, SameIdentity
  <2>7. CurrentTaken' /\ BootOrder'
    BY <2>1 DEF PInv, CurrentTaken, BootOrder, Taken
  <2> QED BY <2>4, <2>6, <2>7 DEF PInv
<1>8. ASSUME NEW num, ReturnOnly(num) PROVE PInv'
  BY <1>8, TableUnchanged DEF ReturnOnly, table
<1>9. CASE OtherGet
  BY <1>9, TableUnchanged DEF OtherGet, table
<1>10. ASSUME NEW page \in others, OtherFree(page) PROVE PInv'
  BY <1>10, TableUnchanged DEF OtherFree, table
<1>11. CASE UNCHANGED vars
  BY <1>11, TableUnchanged DEF vars
<1> QED
  BY <1>1, <1>2, <1>3, <1>4, <1>5, <1>6, <1>7, <1>8, <1>9, <1>10, <1>11 DEF Next

(* The invariant holds in every reachable state of the process manager.    *)
THEOREM Invariance == Spec => []PInv
  BY InitEstablishes, NextPreserves, PTL DEF Spec

(* Pids are unique, positive and never given out again, for any number of  *)
(* slots and whatever creations fail.                                      *)
THEOREM PidsCorrect == Spec => []PidsUnique
<1>1. PInv => PidsUnique
  BY ProcessAssumption, SMT
     DEF PInv, PidBound, SlotsInOrder, PidsUnique, Used, Taken, Slots
<1> QED BY <1>1, Invariance, PTL

(* The parent links form no cycle: a parent is older than its child.       *)
THEOREM ParentsCorrect == Spec => []ParentsOlder
<1>1. ASSUME PInv PROVE ParentsOlder
  <2> SUFFICES ASSUME NEW s \in Used, processes[s].parent # NoProcess
               PROVE  /\ processes[s].parent \in Used
                      /\ processes[processes[s].parent].pid < processes[s].pid
    BY DEF ParentsOlder
  <2> DEFINE q == processes[s].parent
  <2>1. s \in Slots /\ Taken(s) /\ q \in Slots /\ q < s
    BY <1>1 DEF PInv, SlotsInOrder, ParentsBelow, Used
  <2>2. Taken(q)
    BY <1>1, <2>1, SMT DEF PInv, PidBound, Taken, Slots
  <2>3. processes[q].pid = q + 1 /\ processes[s].pid = s + 1 /\ q \in Used
    BY <1>1, <2>1, <2>2 DEF PInv, SlotsInOrder, Used
  <2> QED BY <2>1, <2>3, SMT DEF Slots
<1> QED BY <1>1, Invariance, PTL
=============================================================================
