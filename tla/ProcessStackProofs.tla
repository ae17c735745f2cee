-------------------------- MODULE ProcessStackProofs --------------------------
(***************************************************************************)
(* Proofs about the stacks and the count of Process, for any number of     *)
(* slots, any memory and any sequence of calls.                            *)
(*                                                                         *)
(* The inductive invariant extends PInv of ProcessProofs.  A slot that was *)
(* never taken is blank, so a creation that fails leaves no user_stack     *)
(* behind; and while the CPU runs, no context was ever saved and the       *)
(* current process is process 0: the first switch loads 0 into RSP and     *)
(* loses control.  What the code promises about exit, fork and the count   *)
(* rests on this last fact, not only on the code of the calls.             *)
(***************************************************************************)
EXTENDS ProcessProofs

(* Slots not yet taken are as the .bss left them.                          *)
FreeSlotsBlank == \A s \in Slots : ~Taken(s) => processes[s] = UnusedProcess

(* The stacks of created processes and the pages of other kernel code are  *)
(* frames in use, each with one owner; while the CPU runs there are no     *)
(* other frames in use.                                                    *)
StacksInUse ==
  \A s \in Created : /\ processes[s].kernel_stack # processes[s].user_stack
                     /\ StacksOf(s) \subseteq UsedFrames(mm)
                     /\ StacksOf(s) \cap others = {}
StacksApart == \A s, t \in Created : s # t => StacksOf(s) \cap StacksOf(t) = {}
OthersInUse == others \subseteq UsedFrames(mm)
NoneForgotten ==
  cpu = "running" => UsedFrames(mm) \subseteq others \cup UNION {StacksOf(s) : s \in Created}

StackInv == /\ Consistent(mm) /\ FreeSlotsBlank
            /\ StacksInUse /\ StacksApart /\ OthersInUse /\ NoneForgotten

(* While the CPU runs no switch has happened.                              *)
NoSwitchYet ==
  cpu = "running" => /\ current_process \in {0, NoProcess}
                     /\ \A s \in Slots : processes[s].context.r15 = 0

(* Process 0 counts as live until it exits, even without stacks.           *)
IdleCounted ==
  cpu = "running" =>
    IF boot = "InitProcessManager"
      THEN process_count = 0 /\ again = 0
      ELSE 0 \in Live \/ processes[0].state = "ZOMBIE"

SInv == /\ PInv /\ TypeOK /\ StackInv /\ NoSwitchYet
        /\ IdleCounted /\ CountTracksLive

---------------------------------------------------------------------------
(* Counters modulo UINT32.                                                 *)

(* The modulus on a sum of two counters.                                   *)
LEMMA ModSum ==
  ASSUME NEW m \in Nat, m > 0, NEW x \in Nat, x < 2 * m
  PROVE  x % m = IF x < m THEN x ELSE x - m
<1>1. CASE x < m
  BY <1>1, ModSmall
<1>2. CASE x >= m
  BY <1>2, SMT
<1> QED BY <1>1, <1>2, SMT

(* process_count and again, whose sum is k modulo m.  A creation makes the *)
(* sum k + 1.                                                              *)
LEMMA CountUp ==
  ASSUME NEW m \in Nat, m > 1, NEW a \in 0 .. (m - 1), NEW b \in 0 .. (m - 1),
         NEW k \in Nat, (a + b) % m = k, k + 1 < m
  PROVE  /\ (a + 1) % m \in 0 .. (m - 1)
         /\ (((a + 1) % m) + b) % m = k + 1
<1>1. a \in Nat /\ b \in Nat /\ a < m /\ b < m
  BY SMT
<1>2. k = IF a + b < m THEN a + b ELSE a + b - m
  BY <1>1, ModSum, SMT
<1>3. (a + 1) % m = IF a + 1 < m THEN a + 1 ELSE 0
  BY <1>1, ModSum, SMT
<1>4. PICK up : up = (a + 1) % m
  OBVIOUS
<1>5. up \in Nat /\ up < m
  BY <1>1, <1>3, <1>4, SMT
<1>6. (up + b) % m = IF up + b < m THEN up + b ELSE up + b - m
  BY <1>1, <1>5, ModSum, SMT
<1>7. (up + b) % m = k + 1
  BY <1>1, <1>2, <1>3, <1>4, <1>5, <1>6, SMT
<1> QED BY <1>4, <1>5, <1>7

(* The exit of a live process makes it k - 1.                              *)
LEMMA CountDown ==
  ASSUME NEW m \in Nat, m > 1, NEW a \in 0 .. (m - 1), NEW b \in 0 .. (m - 1),
         NEW k \in Nat, (a + b) % m = k, k >= 1
  PROVE  /\ (a + m - 1) % m \in 0 .. (m - 1)
         /\ (((a + m - 1) % m) + b) % m = k - 1
<1>1. a \in Nat /\ b \in Nat /\ a < m /\ b < m /\ a + m - 1 \in Nat
  BY SMT
<1>2. k = IF a + b < m THEN a + b ELSE a + b - m
  BY <1>1, ModSum, SMT
<1>3. (a + m - 1) % m = IF a = 0 THEN m - 1 ELSE a - 1
  BY <1>1, ModSum, SMT
<1>4. PICK down : down = (a + m - 1) % m
  OBVIOUS
<1>5. down \in Nat /\ down < m
  BY <1>1, <1>3, <1>4, SMT
<1>6. (down + b) % m = IF down + b < m THEN down + b ELSE down + b - m
  BY <1>1, <1>5, ModSum, SMT
<1>7. (down + b) % m = k - 1
  BY <1>1, <1>2, <1>3, <1>4, <1>5, <1>6, SMT
<1> QED BY <1>4, <1>5, <1>7

(* A further exit of the same process is counted in both.                  *)
LEMMA CountAgain ==
  ASSUME NEW m \in Nat, m > 1, NEW a \in 0 .. (m - 1), NEW b \in 0 .. (m - 1),
         NEW k \in Nat, (a + b) % m = k
  PROVE  /\ (a + m - 1) % m \in 0 .. (m - 1) /\ (b + 1) % m \in 0 .. (m - 1)
         /\ (((a + m - 1) % m) + ((b + 1) % m)) % m = k
<1>1. a \in Nat /\ b \in Nat /\ a < m /\ b < m /\ a + m - 1 \in Nat
  BY SMT
<1>2. k = IF a + b < m THEN a + b ELSE a + b - m
  BY <1>1, ModSum, SMT
<1>3. /\ (a + m - 1) % m = IF a = 0 THEN m - 1 ELSE a - 1
      /\ (b + 1) % m = IF b + 1 < m THEN b + 1 ELSE 0
  BY <1>1, ModSum, SMT
<1>4. PICK down, more : down = (a + m - 1) % m /\ more = (b + 1) % m
  OBVIOUS
<1>5. down \in Nat /\ down < m /\ more \in Nat /\ more < m
  BY <1>1, <1>3, <1>4, SMT
<1>6. (down + more) % m = IF down + more < m THEN down + more ELSE down + more - m
  BY <1>1, <1>5, ModSum, SMT
<1>7. (down + more) % m = k
  BY <1>1, <1>2, <1>3, <1>4, <1>5, <1>6, SMT
<1> QED BY <1>4, <1>5, <1>7

---------------------------------------------------------------------------
(* What a creation does.                                                   *)

(* create_process: it succeeds with two frames that were not in use, or    *)
(* fails and, unless it hangs in a page fault, has given back what it took. *)
LEMMA CreationEffect ==
  ASSUME PInv, TypeOK, StackInv, UnusedSlots # {}, NEW entry \in Nat,
         NEW c, c = Creation(entry)
  PROVE  /\ c.slot = FirstUnused /\ FirstUnused \in Slots
         /\ c.process \in ProcessType /\ c.process.state = "READY"
         /\ c.process.pid = next_pid
         /\ Consistent(c.m) /\ UsedFrames(mm) \subseteq UsedFrames(c.m)
         /\ c.created \in BOOLEAN /\ c.fault \in BOOLEAN
         /\ c.process.context.r15 = 0
         /\ IF c.created
              THEN /\ ~c.fault
                   /\ c.process.user_stack # NULL
                   /\ c.process.kernel_stack # c.process.user_stack
                   /\ c.process.kernel_stack \notin UsedFrames(mm)
                   /\ c.process.user_stack \notin UsedFrames(mm)
                   /\ UsedFrames(c.m) = UsedFrames(mm) \cup
                        {c.process.kernel_stack, c.process.user_stack}
              ELSE /\ c.process.user_stack = NULL /\ c.process.context = EmptyContext
                   /\ ~c.fault => UsedFrames(c.m) = UsedFrames(mm)
<1> DEFINE slot == FirstUnused
           g1 == get_physical_page(mm)
           g2 == get_physical_page(g1.m)
           old == processes[slot]
<1>1. slot \in Slots /\ ~Taken(slot)
  BY NextSlot, SMT DEF PInv, PidBound, Taken, Slots
<1>2. /\ old = UnusedProcess
      /\ old.kernel_stack = 0 /\ old.user_stack = 0 /\ old.context = EmptyContext
      /\ old.exit_code = 0
  BY <1>1 DEF StackInv, FreeSlotsBlank, UnusedProcess
<1>3. Consistent(mm)
  BY DEF StackInv
<1>4. \/ FreePages(mm) = {} /\ g1.ret = NULL /\ g1.m = mm
      \/ /\ g1.ret \in Nat /\ g1.ret # NULL /\ g1.ret \notin UsedFrames(mm)
         /\ UsedFrames(g1.m) = UsedFrames(mm) \cup {g1.ret}
         /\ Consistent(g1.m)
  BY <1>3, GetPageEffect
<1>5. Consistent(g1.m) /\ UsedFrames(mm) \subseteq UsedFrames(g1.m)
  BY <1>3, <1>4
<1>6. \/ FreePages(g1.m) = {} /\ g2.ret = NULL /\ g2.m = g1.m
      \/ /\ g2.ret \in Nat /\ g2.ret # NULL /\ g2.ret \notin UsedFrames(g1.m)
         /\ UsedFrames(g2.m) = UsedFrames(g1.m) \cup {g2.ret}
         /\ Consistent(g2.m)
  BY <1>5, GetPageEffect
<1>7. Consistent(g2.m) /\ UsedFrames(g1.m) \subseteq UsedFrames(g2.m)
  BY <1>5, <1>6
<1>8. \A k, u, x : k \in Nat /\ u \in Nat /\ x \in ContextType =>
         NewProcess(slot, k, u, x) \in ProcessType
  <2>1. next_pid \in Nat /\ current_process \in Slots \cup {NoProcess}
        /\ old.exit_code \in Nat /\ DEFAULT_BRK \in Nat
    BY <1>2, SMT DEF TypeOK, DEFAULT_BRK
  <2> HIDE DEF slot, old
  <2> QED BY <2>1 DEF NewProcess, ProcessType, old
<1>9. \A k, u, x : LET n == NewProcess(slot, k, u, x)
                   IN  /\ n.state = "READY" /\ n.pid = next_pid
                       /\ n.kernel_stack = k /\ n.user_stack = u /\ n.context = x
  BY DEF NewProcess
<1>10. EmptyContext \in ContextType /\ EmptyContext.r15 = 0
  BY DEF EmptyContext, ContextType
<1>11. c = IF MemsetFaults(g1.ret) THEN
             [slot |-> slot, m |-> g1.m, created |-> FALSE, fault |-> TRUE,
              process |-> NewProcess(slot, 0, 0, EmptyContext)]
           ELSE IF g1.ret = NULL THEN
             [slot |-> slot, m |-> g1.m, created |-> FALSE, fault |-> FALSE,
              process |-> NewProcess(slot, NULL, 0, EmptyContext)]
           ELSE IF MemsetFaults(g2.ret) THEN
             [slot |-> slot, m |-> g2.m, created |-> FALSE, fault |-> TRUE,
              process |-> NewProcess(slot, g1.ret, 0, EmptyContext)]
           ELSE IF g2.ret = NULL THEN
             [slot |-> slot, m |-> AfterUserStackFailure(g2.m, g1.ret),
              created |-> FALSE, fault |-> FALSE,
              process |-> NewProcess(slot, g1.ret, NULL, EmptyContext)]
           ELSE
             [slot |-> slot, m |-> g2.m, created |-> TRUE, fault |-> FALSE,
              process |-> NewProcess(slot, g1.ret, g2.ret, FreshContext(entry, g1.ret))]
  BY <1>2 DEF Creation
<1>12. \A k \in Nat : /\ FreshContext(entry, k) \in ContextType
                      /\ FreshContext(entry, k).r15 = 0
  BY SMT DEF FreshContext, ContextType, KERNEL_STACK_SIZE
<1>13. c.slot = slot /\ slot \in Slots
  BY <1>1, <1>11
<1> HIDE DEF g1, g2, slot, old
<1>14. CASE MemsetFaults(g1.ret)
  <2>1. c = [slot |-> slot, m |-> g1.m, created |-> FALSE, fault |-> TRUE,
             process |-> NewProcess(slot, 0, 0, EmptyContext)]
    BY <1>11, <1>14
  <2>2. /\ c.m = g1.m /\ ~c.created /\ c.fault
        /\ c.created \in BOOLEAN /\ c.fault \in BOOLEAN
        /\ c.process = NewProcess(slot, 0, 0, EmptyContext)
    BY <2>1
  <2> QED BY <1>5, <1>8, <1>9, <1>10, <1>13, <2>2 DEF NULL, slot
<1>15. CASE ~MemsetFaults(g1.ret) /\ g1.ret = NULL
  <2>1. c = [slot |-> slot, m |-> g1.m, created |-> FALSE, fault |-> FALSE,
             process |-> NewProcess(slot, NULL, 0, EmptyContext)]
    BY <1>11, <1>15
  <2>2. /\ c.m = g1.m /\ ~c.created /\ ~c.fault
        /\ c.created \in BOOLEAN /\ c.fault \in BOOLEAN
        /\ c.process = NewProcess(slot, 0, 0, EmptyContext)
    BY <2>1 DEF NULL
  <2>3. g1.m = mm
    BY <1>4, <1>15
  <2> QED BY <1>5, <1>8, <1>9, <1>10, <1>13, <2>2, <2>3 DEF NULL, slot
<1>16. CASE ~MemsetFaults(g1.ret) /\ g1.ret # NULL /\ MemsetFaults(g2.ret)
  <2>1. c = [slot |-> slot, m |-> g2.m, created |-> FALSE, fault |-> TRUE,
             process |-> NewProcess(slot, g1.ret, 0, EmptyContext)]
    BY <1>11, <1>16
  <2>2. /\ c.m = g2.m /\ ~c.created /\ c.fault
        /\ c.created \in BOOLEAN /\ c.fault \in BOOLEAN
        /\ c.process = NewProcess(slot, g1.ret, 0, EmptyContext)
    BY <2>1
  <2>3. g1.ret \in Nat
    BY <1>4, <1>16
  <2> QED BY <1>5, <1>7, <1>8, <1>9, <1>10, <1>13, <2>2, <2>3 DEF NULL, slot
<1>17. CASE ~MemsetFaults(g1.ret) /\ g1.ret # NULL /\ ~MemsetFaults(g2.ret) /\ g2.ret = NULL
  <2>1. c = [slot |-> slot, m |-> free_physical_page(g2.m, g1.ret), created |-> FALSE,
             fault |-> FALSE, process |-> NewProcess(slot, g1.ret, 0, EmptyContext)]
    BY <1>11, <1>17 DEF AfterUserStackFailure, NULL
  <2>2. /\ c.m = free_physical_page(g2.m, g1.ret) /\ ~c.created /\ ~c.fault
        /\ c.created \in BOOLEAN /\ c.fault \in BOOLEAN
        /\ c.process = NewProcess(slot, g1.ret, 0, EmptyContext)
    BY <2>1
  <2>3. g2.m = g1.m
    BY <1>6, <1>17
  <2>4. /\ g1.ret \in Nat /\ g1.ret \notin UsedFrames(mm)
        /\ UsedFrames(g1.m) = UsedFrames(mm) \cup {g1.ret}
    BY <1>4, <1>17
  <2>5. Consistent(c.m) /\ UsedFrames(c.m) = UsedFrames(g1.m) \ {g1.ret}
    BY <1>5, <2>2, <2>3, <2>4, FreePageEffect
  <2>6. UsedFrames(c.m) = UsedFrames(mm)
    BY <2>4, <2>5
  <2> QED BY <1>8, <1>9, <1>10, <1>13, <2>2, <2>4, <2>5, <2>6 DEF NULL, slot
<1>18. CASE ~MemsetFaults(g1.ret) /\ g1.ret # NULL /\ ~MemsetFaults(g2.ret) /\ g2.ret # NULL
  <2>1. c = [slot |-> slot, m |-> g2.m, created |-> TRUE, fault |-> FALSE,
             process |-> NewProcess(slot, g1.ret, g2.ret, FreshContext(entry, g1.ret))]
    BY <1>11, <1>18
  <2>2. /\ c.m = g2.m /\ c.created /\ ~c.fault
        /\ c.created \in BOOLEAN /\ c.fault \in BOOLEAN
        /\ c.process = NewProcess(slot, g1.ret, g2.ret, FreshContext(entry, g1.ret))
    BY <2>1
  <2>3. /\ g1.ret \in Nat /\ g1.ret \notin UsedFrames(mm)
        /\ UsedFrames(g1.m) = UsedFrames(mm) \cup {g1.ret}
    BY <1>4, <1>18
  <2>4. /\ g2.ret \in Nat /\ g2.ret \notin UsedFrames(g1.m)
        /\ UsedFrames(g2.m) = UsedFrames(g1.m) \cup {g2.ret}
    BY <1>6, <1>18
  <2>5. /\ c.process.kernel_stack = g1.ret /\ c.process.user_stack = g2.ret
        /\ c.process.context = FreshContext(entry, g1.ret)
        /\ c.process.state = "READY" /\ c.process.pid = next_pid
    BY <1>9, <2>2
  <2>6. c.process \in ProcessType
    BY <1>8, <1>12, <2>2, <2>3, <2>4
  <2>7. /\ g1.ret # g2.ret /\ g2.ret \notin UsedFrames(mm)
        /\ UsedFrames(c.m) = UsedFrames(mm) \cup {g1.ret, g2.ret}
    BY <2>2, <2>3, <2>4
  <2> QED BY <1>7, <1>12, <1>13, <1>18, <2>2, <2>3, <2>5, <2>6, <2>7 DEF slot
<1> QED BY <1>14, <1>15, <1>16, <1>17, <1>18

---------------------------------------------------------------------------
(* A new process p in the table.                                           *)

(* What the slot and the created processes are after p was put in it.      *)
LEMMA AddedProcess ==
  ASSUME PInv, TypeOK, UnusedSlots # {}, NEW p \in ProcessType, p.state # "UNUSED",
         processes' = [processes EXCEPT ![FirstUnused] = p]
  PROVE  /\ FirstUnused \in Slots /\ FirstUnused \notin Used
         /\ processes' \in [Slots -> ProcessType]
         /\ processes'[FirstUnused] = p
         /\ \A s \in Slots : s # FirstUnused => processes'[s] = processes[s]
         /\ \A s \in Slots : s \in Created' <=>
                               IF s = FirstUnused THEN p.user_stack # NULL ELSE s \in Created
         /\ \A s \in Slots : s \in Live' <=>
                               IF s = FirstUnused
                                 THEN \/ p.state = "RUNNING"
                                      \/ p.state = "READY" /\ p.user_stack # NULL
                                 ELSE s \in Live
<1>1. FirstUnused \in Slots /\ ~Taken(FirstUnused)
  BY NextSlot, SMT DEF PInv, PidBound, Taken, Slots
<1>2. FirstUnused \notin Used
  BY <1>1 DEF PInv, SlotsInOrder, Used
<1>3. processes \in [Slots -> ProcessType]
  BY DEF TypeOK
<1>4. /\ processes' \in [Slots -> ProcessType]
      /\ processes'[FirstUnused] = p
      /\ \A s \in Slots : s # FirstUnused => processes'[s] = processes[s]
  BY <1>1, <1>3
<1>5. \A s \in Slots : s \in Created' <=>
                         IF s = FirstUnused THEN p.user_stack # NULL ELSE s \in Created
  BY <1>4 DEF Created, Used
<1>6. \A s \in Slots : s \in Live' <=>
                         IF s = FirstUnused
                           THEN \/ p.state = "RUNNING"
                                \/ p.state = "READY" /\ p.user_stack # NULL
                           ELSE s \in Live
  BY <1>4, <1>5 DEF Live, Used
<1> QED BY <1>1, <1>2, <1>4, <1>5, <1>6

(* The new process owns two fresh frames, or none and nothing was taken.   *)
LEMMA AddedStacks ==
  ASSUME PInv, TypeOK, StackInv, UnusedSlots # {},
         NEW p \in ProcessType, p.state # "UNUSED",
         processes' = [processes EXCEPT ![FirstUnused] = p],
         next_pid' = (next_pid + 1) % UINT32, others' = others,
         Consistent(mm'), UsedFrames(mm) \subseteq UsedFrames(mm'),
         cpu' = "running" => cpu = "running",
         IF p.user_stack # NULL
           THEN /\ p.kernel_stack # p.user_stack
                /\ p.kernel_stack \notin UsedFrames(mm)
                /\ p.user_stack \notin UsedFrames(mm)
                /\ UsedFrames(mm') = UsedFrames(mm) \cup {p.kernel_stack, p.user_stack}
           ELSE cpu' = "running" => UsedFrames(mm') = UsedFrames(mm)
  PROVE  StackInv'
<1>0. PICK new : new = FirstUnused
  OBVIOUS
<1>1. /\ new \in Slots /\ new \notin Created
      /\ processes'[new] = p
      /\ \A s \in Slots : s # new => processes'[s] = processes[s]
      /\ \A s \in Slots : s \in Created' <=>
                            IF s = new THEN p.user_stack # NULL ELSE s \in Created
  BY <1>0, AddedProcess DEF Created
<1>2. /\ new = next_pid - 1 /\ next_pid' = next_pid + 1 /\ next_pid \in Nat
  BY <1>0, NextSlot, SMT DEF PInv, PidBound
<1>3. Created \subseteq Slots /\ Created' \subseteq Slots
  BY DEF Created, Used
<1>4. \A s \in Created' : \/ s = new /\ p.user_stack # NULL
                          \/ s # new /\ s \in Created /\ processes'[s] = processes[s]
  BY <1>1, <1>3
<1>5. StacksOf(new)' = {p.kernel_stack, p.user_stack}
  BY <1>1 DEF StacksOf
<1>6. \A s \in Created' : s # new => StacksOf(s)' = StacksOf(s)
  BY <1>4 DEF StacksOf
<1>7. FreeSlotsBlank'
  <2> SUFFICES ASSUME NEW s \in Slots, ~(Taken(s)') PROVE processes'[s] = UnusedProcess
    BY DEF FreeSlotsBlank, Taken
  <2>1. s # new /\ ~Taken(s)
    BY <1>2, SMT DEF Taken, Slots
  <2> QED BY <1>1, <2>1 DEF StackInv, FreeSlotsBlank
<1>8. StacksInUse'
  <2> SUFFICES ASSUME NEW s \in Created'
               PROVE  /\ processes'[s].kernel_stack # processes'[s].user_stack
                      /\ StacksOf(s)' \subseteq UsedFrames(mm')
                      /\ StacksOf(s)' \cap others' = {}
    BY DEF StacksInUse
  <2>1. CASE s = new
    <3>1. p.user_stack # NULL
      BY <1>4, <2>1
    <3>2. others \subseteq UsedFrames(mm)
      BY DEF StackInv, OthersInUse
    <3> QED BY <1>1, <1>5, <2>1, <3>1, <3>2
  <2>2. CASE s # new
    <3>1. /\ s \in Created /\ processes'[s] = processes[s] /\ StacksOf(s)' = StacksOf(s)
      BY <1>4, <1>6, <2>2
    <3> QED BY <3>1 DEF StackInv, StacksInUse
  <2> QED BY <2>1, <2>2
<1>9. StacksApart'
  <2> SUFFICES ASSUME NEW s \in Created', NEW t \in Created', s # t
               PROVE  StacksOf(s)' \cap StacksOf(t)' = {}
    BY DEF StacksApart
  <2>1. ASSUME NEW x \in Created, x # new, p.user_stack # NULL
        PROVE  StacksOf(x) \cap {p.kernel_stack, p.user_stack} = {}
    <3>1. StacksOf(x) \subseteq UsedFrames(mm)
      BY DEF StackInv, StacksInUse
    <3> QED BY <2>1, <3>1
  <2>2. CASE s = new
    BY <1>4, <1>5, <1>6, <2>1, <2>2
  <2>3. CASE t = new
    BY <1>4, <1>5, <1>6, <2>1, <2>3
  <2>4. CASE s # new /\ t # new
    BY <1>4, <1>6, <2>4 DEF StackInv, StacksApart
  <2> QED BY <2>2, <2>3, <2>4
<1>10. OthersInUse'
  BY DEF StackInv, OthersInUse
<1>11. NoneForgotten'
  <2> SUFFICES ASSUME cpu' = "running", NEW f \in UsedFrames(mm'), f \notin others'
               PROVE  \E s \in Created' : f \in StacksOf(s)'
    BY DEF NoneForgotten
  <2>1. CASE f \in UsedFrames(mm)
    <3>1. PICK s \in Created : f \in StacksOf(s)
      BY <2>1 DEF StackInv, NoneForgotten
    <3>2. s \in Created' /\ s # new
      BY <1>1, <1>3
    <3> QED BY <1>6, <3>1, <3>2
  <2>2. CASE f \notin UsedFrames(mm)
    <3>1. p.user_stack # NULL /\ f \in {p.kernel_stack, p.user_stack}
      BY <2>2
    <3>2. new \in Created'
      BY <1>1, <3>1
    <3> QED BY <1>5, <3>1, <3>2
  <2> QED BY <2>1, <2>2
<1> QED BY <1>7, <1>8, <1>9, <1>10, <1>11 DEF StackInv

---------------------------------------------------------------------------
(* The count of live processes.                                            *)

(* The table bounds every set of slots.                                    *)
LEMMA SlotsBound ==
  ASSUME NEW L, L \subseteq Slots
  PROVE  IsFiniteSet(L) /\ Cardinality(L) \in Nat /\ Cardinality(L) <= MAX_PROCESSES
<1>1. MAX_PROCESSES \in Nat /\ MAX_PROCESSES - 1 \in Int /\ 0 \in Int
  BY ProcessAssumption
<1>2. IsFiniteSet(Slots) /\ Cardinality(Slots) = MAX_PROCESSES
  <2>1. Cardinality(0 .. (MAX_PROCESSES - 1)) = MAX_PROCESSES
    BY <1>1, ProcessAssumption, FS_Interval
  <2> QED BY <1>1, <2>1, FS_Interval DEF Slots
<1>3. L \in SUBSET Slots
  OBVIOUS
<1> QED BY <1>2, <1>3, FS_Subset, FS_CardinalityType

(* process_count++ comes with a new live process.                          *)
LEMMA CountAdded ==
  ASSUME PInv, TypeOK, CountTracksLive, UnusedSlots # {},
         NEW p \in ProcessType, p.state \in {"READY", "RUNNING"},
         processes' = [processes EXCEPT ![FirstUnused] = p], again' = again,
         process_count' = IF p.state = "RUNNING" \/ p.user_stack # NULL
                            THEN (process_count + 1) % UINT32 ELSE process_count
  PROVE  CountTracksLive' /\ process_count' \in 0 .. (UINT32 - 1)
<1>0. PICK new : new = FirstUnused
  OBVIOUS
<1>1. /\ new \in Slots /\ new \notin Live
      /\ \A s \in Slots : s \in Live' <=>
           IF s = new THEN p.state = "RUNNING" \/ p.user_stack # NULL ELSE s \in Live
  BY <1>0, AddedProcess DEF Live
<1>2. Live \subseteq Slots /\ Live' \subseteq Slots
  BY DEF Live, Used
<1>3. /\ process_count \in 0 .. (UINT32 - 1) /\ again \in 0 .. (UINT32 - 1)
      /\ UINT32 \in Nat /\ UINT32 > 1 /\ MAX_PROCESSES + 1 < UINT32 /\ MAX_PROCESSES \in Nat
  BY ProcessAssumption, SMT DEF TypeOK
<1>4. IsFiniteSet(Live) /\ Cardinality(Live) \in Nat
      /\ (process_count + again) % UINT32 = Cardinality(Live)
  BY <1>2, SlotsBound DEF CountTracksLive
<1>5. CASE p.state = "RUNNING" \/ p.user_stack # NULL
  <2>1. Live' = Live \cup {new}
    BY <1>1, <1>2, <1>5
  <2>2. Cardinality(Live') = Cardinality(Live) + 1
    BY <1>1, <1>4, <2>1, FS_AddElement
  <2>3. Cardinality(Live') <= MAX_PROCESSES
    BY <1>2, SlotsBound
  <2>4. Cardinality(Live) + 1 < UINT32
    BY <1>3, <1>4, <2>2, <2>3, SMT
  <2>5. /\ (process_count + 1) % UINT32 \in 0 .. (UINT32 - 1)
        /\ (((process_count + 1) % UINT32) + again) % UINT32 = Cardinality(Live) + 1
    BY <1>3, <1>4, <2>4, CountUp
  <2> QED BY <1>5, <2>2, <2>5 DEF CountTracksLive
<1>6. CASE ~(p.state = "RUNNING" \/ p.user_stack # NULL)
  <2>1. Live' = Live
    BY <1>1, <1>2, <1>6
  <2> QED BY <1>3, <1>4, <1>6, <2>1 DEF CountTracksLive
<1> QED BY <1>5, <1>6

(* sys_exit of process 0: the first one ends a live process, a further one *)
(* is counted in again.                                                    *)
LEMMA CountRemoved ==
  ASSUME TypeOK, CountTracksLive, 0 \in Live \/ processes[0].state = "ZOMBIE",
         \A s \in Slots \ {0} : s \in Live' <=> s \in Live,
         0 \notin Live',
         process_count' = CountExited,
         again' = IF processes[0].state = "ZOMBIE" THEN (again + 1) % UINT32 ELSE again
  PROVE  /\ CountTracksLive' /\ again' \in 0 .. (UINT32 - 1)
         /\ process_count' \in 0 .. (UINT32 - 1)
<1>1. Live \subseteq Slots /\ Live' \subseteq Slots
  BY DEF Live, Used
<1>2. Live' = Live \ {0}
  BY <1>1
<1>3. /\ process_count \in 0 .. (UINT32 - 1) /\ again \in 0 .. (UINT32 - 1)
      /\ UINT32 \in Nat /\ UINT32 > 1
  BY ProcessAssumption, SMT DEF TypeOK
<1>4. IsFiniteSet(Live) /\ Cardinality(Live) \in Nat
      /\ (process_count + again) % UINT32 = Cardinality(Live)
  BY <1>1, SlotsBound DEF CountTracksLive
<1>5. process_count' = (process_count + UINT32 - 1) % UINT32
  BY DEF CountExited
<1>6. CASE processes[0].state = "ZOMBIE"
  <2>1. 0 \notin Live
    BY <1>6 DEF Live
  <2>2. Live' = Live
    BY <1>2, <2>1
  <2> QED BY <1>3, <1>4, <1>5, <1>6, <2>2, CountAgain DEF CountTracksLive
<1>7. CASE processes[0].state # "ZOMBIE"
  <2>1. 0 \in Live
    BY <1>7
  <2>2. Cardinality(Live') = Cardinality(Live) - 1
    BY <1>2, <1>4, <2>1, FS_RemoveElement
  <2>3. Cardinality(Live) >= 1
    <3>1. Cardinality(Live') \in Nat
      BY <1>1, SlotsBound
    <3> QED BY <1>4, <2>2, <3>1, SMT
  <2> QED BY <1>3, <1>4, <1>5, <1>7, <2>2, <2>3, CountDown DEF CountTracksLive
<1> QED BY <1>6, <1>7

---------------------------------------------------------------------------
(* Steps that only touch the table.                                        *)

(* A step that changes no stack.                                           *)
LEMMA SameStacks ==
  ASSUME StackInv, mm' = mm, others' = others, next_pid' = next_pid,
         cpu' = "running" => cpu = "running",
         \A s \in Slots : /\ processes'[s].kernel_stack = processes[s].kernel_stack
                          /\ processes'[s].user_stack = processes[s].user_stack
                          /\ processes'[s].state = "UNUSED" <=> processes[s].state = "UNUSED"
                          /\ ~Taken(s) => processes'[s] = processes[s]
  PROVE  StackInv' /\ Created' = Created
<1>1. Created' = Created /\ Created \subseteq Slots
  BY DEF Created, Used
<1>3. \A s \in Slots : StacksOf(s)' = StacksOf(s)
  BY DEF StacksOf
<1>4. FreeSlotsBlank'
  BY DEF StackInv, FreeSlotsBlank, Taken
<1>5. StacksInUse' /\ StacksApart' /\ OthersInUse'
  BY <1>1, <1>3 DEF StackInv, StacksInUse, StacksApart, OthersInUse
<1>6. NoneForgotten'
  BY <1>1, <1>3 DEF StackInv, NoneForgotten
<1> QED BY <1>1, <1>4, <1>5, <1>6 DEF StackInv

(* While the CPU runs after boot, process 0 is the current one.            *)
LEMMA CurrentIsIdle ==
  ASSUME PInv, NoSwitchYet, Running
  PROVE  current_process = 0 /\ 0 \in Slots /\ Taken(0)
<1>1. 0 \in Slots
  BY ProcessAssumption, SMT DEF Slots
<1> QED BY <1>1 DEF PInv, CurrentTaken, BootOrder, NoSwitchYet, Running

(* schedule leaves everything as it is, or switches to a context that was  *)
(* never saved and loses the CPU.                                          *)
LEMMA ScheduleEffect ==
  ASSUME PInv, TypeOK, StackInv, NoSwitchYet, Running,
         NEW procs \in [Slots -> ProcessType], NEW count,
         \A s \in Slots \ {0} : procs[s] = processes[s],
         procs[0].kernel_stack = processes[0].kernel_stack,
         procs[0].user_stack = processes[0].user_stack,
         procs[0].context = processes[0].context,
         procs[0].state # "UNUSED",
         schedule(procs, count), mm' = mm, others' = others, next_pid' = next_pid
  PROVE  /\ StackInv' /\ NoSwitchYet'
         /\ processes' \in [Slots -> ProcessType] /\ Created' = Created
         /\ \A s \in Slots : processes'[s].state = procs[s].state
         /\ current_process' \in Slots /\ rsp' \in Nat /\ process_count' = count
         /\ \/ cpu' = cpu
            \/ cpu' = "lost"
<1>1. current_process = 0 /\ 0 \in Slots /\ Taken(0) /\ cpu = "running"
  BY CurrentIsIdle DEF Running
<1>2. processes[0].state # "UNUSED"
  BY <1>1 DEF PInv, SlotsInOrder
<1>3. rsp \in Nat /\ processes \in [Slots -> ProcessType]
  BY DEF TypeOK
<1>4. \A s \in Slots : processes[s].context.r15 = 0
  BY <1>1 DEF NoSwitchYet
<1>5. CASE count <= 1 \/ ReadyOthers(procs) = {}
  <2>1. /\ processes' = procs /\ process_count' = count
        /\ current_process' = current_process /\ rsp' = rsp /\ cpu' = cpu
    BY <1>5 DEF schedule
  <2>2. StackInv' /\ Created' = Created
    BY <1>1, <1>2, <2>1, SameStacks, Zenon
  <2>3. NoSwitchYet'
    BY <1>1, <1>4, <2>1 DEF NoSwitchYet
  <2> QED BY <1>1, <1>3, <2>1, <2>2, <2>3
<1>6. CASE ~(count <= 1 \/ ReadyOthers(procs) = {})
  <2>0. PICK next : next = NextReady(procs)
    OBVIOUS
  <2>1. next \in Slots /\ procs[next].state = "READY"
    BY <1>1, <1>6, <2>0, NextExists
  <2>2. PICK x : x = [r15 |-> rsp, rip |-> procs[0].context.rip, rsp |-> procs[0].context.rsp]
    OBVIOUS
  <2>3. /\ processes' = [procs EXCEPT ![0] = WithContext(procs[0], x)]
        /\ process_count' = count /\ current_process' = next
        /\ rsp' = procs[next].context.r15
        /\ cpu' = IF procs[next].context.r15 = 0 THEN "lost" ELSE cpu
    BY <1>1, <1>6, <2>0, <2>2 DEF schedule, switch_process
  <2>4. procs[next].context.r15 = 0
    BY <1>1, <1>4, <2>1
  <2>5. rsp' = 0 /\ cpu' = "lost"
    BY <2>3, <2>4
  <2>6. procs[0] \in ProcessType /\ procs[0].context \in ContextType
    BY <1>1 DEF ProcessType
  <2>7. x \in ContextType
    BY <1>3, <2>2, <2>6 DEF ContextType
  <2>8. WithContext(procs[0], x) \in ProcessType
    BY <2>6, <2>7 DEF WithContext, ProcessType
  <2>9. /\ processes' \in [Slots -> ProcessType]
        /\ processes'[0] = WithContext(procs[0], x)
        /\ \A s \in Slots \ {0} : processes'[s] = procs[s]
    BY <1>1, <2>3, <2>8
  <2>10. LET w == WithContext(procs[0], x)
         IN  /\ w.state = procs[0].state /\ w.context = x
             /\ w.kernel_stack = procs[0].kernel_stack /\ w.user_stack = procs[0].user_stack
    BY DEF WithContext
  <2>11. StackInv' /\ Created' = Created
    <3>1. \A s \in Slots : /\ processes'[s].kernel_stack = processes[s].kernel_stack
                           /\ processes'[s].user_stack = processes[s].user_stack
                           /\ processes'[s].state = "UNUSED" <=> processes[s].state = "UNUSED"
                           /\ ~Taken(s) => processes'[s] = processes[s]
      BY <1>1, <1>2, <2>7, <2>9, <2>10
    <3> QED BY <1>1, <3>1, SameStacks
  <2>12. NoSwitchYet'
    BY <2>5 DEF NoSwitchYet
  <2>13. \A s \in Slots : processes'[s].state = procs[s].state
    BY <2>9, <2>10
  <2> QED BY <2>1, <2>3, <2>5, <2>9, <2>11, <2>12, <2>13
<1> QED BY <1>5, <1>6

---------------------------------------------------------------------------
(* The actions.                                                            *)

(* A creation c, after which p stands in the slot: as create_process left  *)
(* it, with the context fork copied from process 0, or as the fallback of  *)
(* InitProcessManager left it.                                             *)
LEMMA CreateKeeps ==
  ASSUME SInv, cpu = "running", UnusedSlots # {},
         NEW entry \in Nat, NEW c, c = Creation(entry), AfterCreation(c),
         NEW p \in ProcessType, p.state \in {"READY", "RUNNING"},
         p.kernel_stack = c.process.kernel_stack, p.user_stack = c.process.user_stack,
         IF c.created THEN \/ p.context = c.process.context
                           \/ p.context = processes[0].context /\ 0 \in Used
                      ELSE p.context = c.process.context,
         processes' = [processes EXCEPT ![FirstUnused] = p],
         process_count' = IF p.state = "RUNNING" \/ c.created
                            THEN (process_count + 1) % UINT32 ELSE process_count,
         others' = others, again' = again
  PROVE  /\ StackInv' /\ CountTracksLive'
         /\ mm' \in MemType /\ processes' \in [Slots -> ProcessType]
         /\ next_pid' \in 0 .. (UINT32 - 1) /\ process_count' \in 0 .. (UINT32 - 1)
         /\ cpu' \in {"running", "faulting"} /\ (cpu' = "running" <=> ~c.fault)
         /\ \A s \in Slots : processes'[s].context.r15 = 0
<1>1. /\ mm' = c.m /\ next_pid' = (next_pid + 1) % UINT32
      /\ cpu' = IF c.fault THEN "faulting" ELSE cpu
  BY DEF AfterCreation
<1>2. PInv /\ TypeOK /\ StackInv /\ NoSwitchYet /\ CountTracksLive
  BY DEF SInv
<1>3. /\ Consistent(c.m) /\ UsedFrames(mm) \subseteq UsedFrames(c.m)
      /\ c.created \in BOOLEAN /\ c.fault \in BOOLEAN
      /\ c.process.context.r15 = 0
      /\ IF c.created
           THEN /\ ~c.fault
                /\ c.process.user_stack # NULL
                /\ c.process.kernel_stack # c.process.user_stack
                /\ c.process.kernel_stack \notin UsedFrames(mm)
                /\ c.process.user_stack \notin UsedFrames(mm)
                /\ UsedFrames(c.m) = UsedFrames(mm) \cup
                     {c.process.kernel_stack, c.process.user_stack}
           ELSE /\ c.process.user_stack = NULL /\ c.process.context = EmptyContext
                /\ ~c.fault => UsedFrames(c.m) = UsedFrames(mm)
  BY <1>2, CreationEffect
<1>4. p.user_stack # NULL <=> c.created
  BY <1>3
<1>5. StackInv'
  BY <1>1, <1>2, <1>3, <1>4, AddedStacks
<1>7. CountTracksLive' /\ process_count' \in 0 .. (UINT32 - 1)
  BY <1>2, <1>4, CountAdded
<1>8. next_pid' \in 0 .. (UINT32 - 1)
  BY <1>1, <1>2, NextSlot, ProcessAssumption, SMT DEF PInv, PidBound
<1>9. mm' \in MemType
  BY <1>1, <1>3 DEF Consistent
<1>10. /\ FirstUnused \in Slots /\ processes' \in [Slots -> ProcessType]
       /\ processes'[FirstUnused] = p
       /\ \A s \in Slots : s # FirstUnused => processes'[s] = processes[s]
  BY <1>2, AddedProcess
<1>11. 0 \in Slots
  BY ProcessAssumption, SMT DEF Slots
<1>12. \A s \in Slots : processes[s].context.r15 = 0
  BY <1>2 DEF NoSwitchYet
<1>13. \A s \in Slots : processes'[s].context.r15 = 0
  BY <1>3, <1>10, <1>11, <1>12
<1>14. cpu' \in {"running", "faulting"} /\ (cpu' = "running" <=> ~c.fault)
  BY <1>1
<1> QED BY <1>5, <1>7, <1>8, <1>9, <1>10, <1>13, <1>14

(* InitProcessManager.                                                     *)
LEMMA InitManagerKeeps ==
  ASSUME SInv, PInv', NEW e \in ENTRY_POINTS, InitProcessManager(e)
  PROVE  SInv'
<1>0. PICK c : c = Creation(e)
  OBVIOUS
<1>1. PICK p : p = IF c.created \/ c.fault THEN c.process ELSE Fallback(c.process)
  OBVIOUS
<1>2. /\ PInv /\ TypeOK /\ StackInv /\ next_pid = 1 /\ current_process = NoProcess
      /\ cpu = "running" /\ boot = "InitProcessManager"
      /\ process_count = 0 /\ again = 0 /\ e \in Nat
  BY ProcessAssumption DEF InitProcessManager, SInv, PInv, BootOrder, IdleCounted
<1>3. 0 \in Slots /\ UnusedSlots # {}
  <2>1. 0 \in Slots
    BY ProcessAssumption, SMT DEF Slots
  <2>2. ~Taken(0)
    BY <1>2 DEF Taken
  <2> QED BY <1>2, <2>1, <2>2 DEF PInv, SlotsInOrder, UnusedSlots
<1>4. FirstUnused = 0
  BY <1>2, <1>3, NextSlot DEF PInv
<1>5. /\ c.slot = FirstUnused /\ c.process \in ProcessType /\ c.process.state = "READY"
      /\ c.created \in BOOLEAN /\ c.fault \in BOOLEAN /\ (c.created => ~c.fault)
      /\ c.created <=> c.process.user_stack # NULL
  BY <1>0, <1>2, <1>3, CreationEffect
<1>6. /\ AfterCreation(c) /\ processes' = [processes EXCEPT ![FirstUnused] = p]
      /\ rsp' = rsp /\ ret' = ret /\ others' = others /\ again' = again
      /\ IF c.fault THEN /\ current_process' = current_process
                         /\ process_count' = process_count /\ boot' = boot
                    ELSE current_process' = 0 /\ process_count' = 1 /\ boot' = "Init_Syscall"
  BY <1>0, <1>1, <1>4, <1>5 DEF InitProcessManager
<1>7. /\ p \in ProcessType /\ p.context = c.process.context
      /\ p.kernel_stack = c.process.kernel_stack /\ p.user_stack = c.process.user_stack
      /\ p.state = IF c.created \/ c.fault THEN "READY" ELSE "RUNNING"
  <2>1. CASE c.created \/ c.fault
    BY <1>1, <1>5, <2>1
  <2>2. CASE ~(c.created \/ c.fault)
    BY <1>1, <1>5, <2>2, SMT DEF Fallback, ProcessType, DEFAULT_BRK
  <2> QED BY <2>1, <2>2
<1>8. process_count' = IF p.state = "RUNNING" \/ c.created
                         THEN (process_count + 1) % UINT32 ELSE process_count
  <2>1. (process_count + 1) % UINT32 = 1
    BY <1>2, ProcessAssumption, ModSmall
  <2> QED BY <1>2, <1>5, <1>6, <1>7, <2>1
<1>9. /\ StackInv' /\ CountTracksLive'
      /\ mm' \in MemType /\ processes' \in [Slots -> ProcessType]
      /\ next_pid' \in 0 .. (UINT32 - 1) /\ process_count' \in 0 .. (UINT32 - 1)
      /\ cpu' \in {"running", "faulting"} /\ (cpu' = "running" <=> ~c.fault)
      /\ \A s \in Slots : processes'[s].context.r15 = 0
  BY <1>0, <1>2, <1>3, <1>6, <1>7, <1>8, CreateKeeps
<1>10. TypeOK'
  BY <1>2, <1>3, <1>6, <1>9 DEF TypeOK, MemType
<1>11. NoSwitchYet'
  BY <1>2, <1>6, <1>9 DEF NoSwitchYet
<1>12. IdleCounted'
  <2>1. ~c.fault => 0 \in Live'
    <3>1. 0 \in Live' <=> \/ p.state = "RUNNING"
                          \/ p.state = "READY" /\ p.user_stack # NULL
      BY <1>2, <1>3, <1>4, <1>6, <1>7, AddedProcess
    <3> QED BY <1>5, <1>7, <3>1
  <2> QED BY <1>6, <1>9, <2>1 DEF IdleCounted
<1> QED BY <1>9, <1>10, <1>11, <1>12 DEF SInv

(* create_process and fork once boot is over.                              *)
LEMMA RunningCreateKeeps ==
  ASSUME SInv, PInv', Running, UnusedSlots # {},
         NEW entry \in Nat, NEW c, c = Creation(entry), AfterCreation(c),
         NEW p \in ProcessType,
         \/ p = c.process
         \/ c.created /\ p = WithContext(c.process, processes[0].context),
         processes' = [processes EXCEPT ![FirstUnused] = p],
         process_count' = CountCreated(c.created),
         current_process' = current_process, rsp' = rsp, boot' = boot,
         others' = others, again' = again, ret' \in Nat \cup {Minus1}
  PROVE  SInv'
<1>1. /\ PInv /\ TypeOK /\ StackInv /\ NoSwitchYet /\ cpu = "running" /\ boot = "done"
  BY DEF SInv, Running
<1>2. current_process = 0 /\ 0 \in Slots /\ 0 \in Used
  BY <1>1, CurrentIsIdle DEF PInv, SlotsInOrder, Used
<1>3. c.process.state = "READY" /\ c.created \in BOOLEAN
  BY <1>1, CreationEffect
<1>4. /\ p.state = "READY" /\ p.kernel_stack = c.process.kernel_stack
      /\ p.user_stack = c.process.user_stack
      /\ IF c.created THEN \/ p.context = c.process.context
                           \/ p.context = processes[0].context /\ 0 \in Used
                      ELSE p.context = c.process.context
  BY <1>2, <1>3 DEF WithContext
<1>5. process_count' = IF p.state = "RUNNING" \/ c.created
                         THEN (process_count + 1) % UINT32 ELSE process_count
  BY <1>4 DEF CountCreated
<1>6. /\ StackInv' /\ CountTracksLive'
      /\ mm' \in MemType /\ processes' \in [Slots -> ProcessType]
      /\ next_pid' \in 0 .. (UINT32 - 1) /\ process_count' \in 0 .. (UINT32 - 1)
      /\ cpu' \in {"running", "faulting"} /\ (cpu' = "running" <=> ~c.fault)
      /\ \A s \in Slots : processes'[s].context.r15 = 0
  BY <1>1, <1>4, <1>5, CreateKeeps
<1>7. TypeOK'
  BY <1>1, <1>6 DEF TypeOK, MemType
<1>8. NoSwitchYet'
  BY <1>1, <1>2, <1>6 DEF NoSwitchYet
<1>9. IdleCounted'
  <2>1. /\ 0 \in Live \/ processes[0].state = "ZOMBIE"
    BY <1>1 DEF SInv, IdleCounted
  <2>2. /\ FirstUnused # 0 /\ processes'[0] = processes[0]
        /\ 0 \in Live' <=> 0 \in Live
    BY <1>1, <1>2, <1>4, AddedProcess
  <2> QED BY <1>1, <2>1, <2>2 DEF IdleCounted
<1> QED BY <1>6, <1>7, <1>8, <1>9 DEF SInv

(* create_process called by kernel code.                                   *)
LEMMA CreateProcessKeeps ==
  ASSUME SInv, PInv', NEW e \in ENTRY_POINTS, CreateProcess(e), UnusedSlots # {}
  PROVE  SInv'
<1>0. PICK c : c = Creation(e)
  OBVIOUS
<1>1. /\ Running /\ AfterCreation(c) /\ processes' = [processes EXCEPT ![c.slot] = c.process]
      /\ process_count' = CountCreated(c.created)
      /\ current_process' = current_process /\ rsp' = rsp /\ boot' = boot
      /\ ret' = ret /\ others' = others /\ again' = again
  BY <1>0 DEF CreateProcess
<1>2. e \in Nat
  BY ProcessAssumption
<1>3. c.slot = FirstUnused /\ c.process \in ProcessType
  BY <1>0, <1>2, CreationEffect DEF SInv
<1>4. ret' \in Nat \cup {Minus1}
  BY <1>1 DEF SInv, TypeOK
<1> QED BY <1>0, <1>1, <1>2, <1>3, <1>4, RunningCreateKeeps

(* sys_fork.                                                               *)
LEMMA ForkKeeps ==
  ASSUME SInv, PInv', sys_fork, UnusedSlots # {}
  PROVE  SInv'
<1>1. Running /\ current_process = 0 /\ 0 \in Slots
  BY CurrentIsIdle DEF sys_fork, SInv
<1>2. processes[0] \in ProcessType /\ processes[0].context \in ContextType
      /\ processes[0].context.rip \in Nat
  BY <1>1 DEF SInv, TypeOK, ProcessType, ContextType
<1>0. PICK c : c = Creation(processes[0].context.rip)
  OBVIOUS
<1>3. PICK p : p = IF c.created THEN WithContext(c.process, processes[0].context)
                                ELSE c.process
  OBVIOUS
<1>4. /\ AfterCreation(c) /\ processes' = [processes EXCEPT ![c.slot] = p]
      /\ process_count' = CountCreated(c.created)
      /\ current_process' = current_process /\ rsp' = rsp /\ boot' = boot
      /\ others' = others /\ again' = again
      /\ ret' = IF c.fault THEN ret ELSE IF c.created THEN c.process.pid ELSE Minus1
  BY <1>0, <1>1, <1>3 DEF sys_fork
<1>5. c.slot = FirstUnused /\ c.process \in ProcessType
  BY <1>0, <1>2, CreationEffect DEF SInv
<1>6. p \in ProcessType
  BY <1>2, <1>3, <1>5 DEF WithContext, ProcessType
<1>7. ret' \in Nat \cup {Minus1}
  <2>1. ret \in Nat \cup {Minus1} /\ c.process.pid \in Nat
    BY <1>5 DEF SInv, TypeOK, ProcessType
  <2> QED BY <1>4, <2>1
<1>8. \/ p = c.process
      \/ c.created /\ p = WithContext(c.process, processes[0].context)
  BY <1>3
<1> QED BY <1>0, <1>1, <1>2, <1>4, <1>5, <1>6, <1>7, <1>8, RunningCreateKeeps

(* schedule, called by the kernel.                                         *)
LEMMA ScheduleStepKeeps ==
  ASSUME SInv, PInv', Schedule
  PROVE  SInv'
<1>1. /\ PInv /\ TypeOK /\ StackInv /\ NoSwitchYet /\ CountTracksLive
      /\ IdleCounted
  BY DEF SInv
<1>2. /\ Running /\ schedule(processes, process_count) /\ mm' = mm /\ others' = others
      /\ next_pid' = next_pid /\ boot' = boot /\ ret' = ret /\ again' = again
  BY DEF Schedule
<1>3. /\ current_process = 0 /\ 0 \in Slots /\ processes[0].state # "UNUSED"
      /\ processes \in [Slots -> ProcessType]
  BY <1>1, <1>2, CurrentIsIdle DEF PInv, SlotsInOrder, TypeOK
<1>4. /\ StackInv' /\ NoSwitchYet'
      /\ processes' \in [Slots -> ProcessType] /\ Created' = Created
      /\ \A s \in Slots : processes'[s].state = processes[s].state
      /\ current_process' \in Slots /\ rsp' \in Nat /\ process_count' = process_count
      /\ \/ cpu' = cpu
         \/ cpu' = "lost"
  BY <1>1, <1>2, <1>3, ScheduleEffect
<1>5. Live' = Live
  BY <1>4 DEF Live, Used
<1>6. TypeOK'
  BY <1>1, <1>2, <1>4 DEF TypeOK
<1>7. CountTracksLive' /\ IdleCounted'
  BY <1>1, <1>2, <1>3, <1>4, <1>5 DEF CountTracksLive, IdleCounted, Running
<1> QED BY <1>4, <1>6, <1>7 DEF SInv

(* sys_exit.                                                               *)
LEMMA ExitKeeps ==
  ASSUME SInv, PInv', NEW st \in STATUSES, sys_exit(st)
  PROVE  SInv'
<1>1. /\ PInv /\ TypeOK /\ StackInv /\ NoSwitchYet /\ CountTracksLive
      /\ IdleCounted
  BY DEF SInv
<1>2. Running /\ cpu = "running" /\ boot = "done"
  BY DEF sys_exit, Running
<1>3. /\ current_process = 0 /\ 0 \in Slots /\ processes[0].state # "UNUSED"
      /\ processes \in [Slots -> ProcessType]
  BY <1>1, <1>2, CurrentIsIdle DEF PInv, SlotsInOrder, TypeOK
<1>4. PICK q : q = Exited(processes[0], st)
  OBVIOUS
<1>5. /\ q \in ProcessType /\ q.state = "ZOMBIE" /\ q.context = processes[0].context
      /\ q.kernel_stack = processes[0].kernel_stack /\ q.user_stack = processes[0].user_stack
  <2>1. processes[0] \in ProcessType /\ st \in Nat
    BY <1>3, ProcessAssumption
  <2> QED BY <1>4, <2>1 DEF Exited, ProcessType
<1>6. PICK procs : procs = [processes EXCEPT ![0] = q]
  OBVIOUS
<1>7. /\ procs \in [Slots -> ProcessType] /\ procs[0] = q
      /\ \A s \in Slots \ {0} : procs[s] = processes[s]
  BY <1>3, <1>5, <1>6
<1>8. /\ schedule(procs, CountExited) /\ mm' = mm /\ others' = others
      /\ next_pid' = next_pid /\ boot' = boot /\ ret' = 0
      /\ again' = IF processes[0].state = "ZOMBIE" THEN (again + 1) % UINT32 ELSE again
  BY <1>3, <1>4, <1>6 DEF sys_exit
<1>9. /\ StackInv' /\ NoSwitchYet'
      /\ processes' \in [Slots -> ProcessType] /\ Created' = Created
      /\ \A s \in Slots : processes'[s].state = procs[s].state
      /\ current_process' \in Slots /\ rsp' \in Nat /\ process_count' = CountExited
      /\ \/ cpu' = cpu
         \/ cpu' = "lost"
  <2>1. PICK count : count = CountExited
    OBVIOUS
  <2>2. schedule(procs, count)
    BY <1>8, <2>1
  <2>3. process_count' = count
    BY <2>2 DEF schedule
  <2> QED BY <1>1, <1>2, <1>5, <1>7, <1>8, <2>1, <2>2, <2>3, ScheduleEffect
<1>10. processes'[0].state = "ZOMBIE" /\ 0 \notin Live'
  BY <1>3, <1>5, <1>7, <1>9 DEF Live
<1>11. \A s \in Slots \ {0} : s \in Live' <=> s \in Live
  BY <1>7, <1>9 DEF Live, Used
<1>12. 0 \in Live \/ processes[0].state = "ZOMBIE"
  BY <1>1, <1>2 DEF IdleCounted
<1>13. /\ CountTracksLive' /\ again' \in 0 .. (UINT32 - 1)
       /\ process_count' \in 0 .. (UINT32 - 1)
  BY <1>1, <1>8, <1>9, <1>10, <1>11, <1>12, CountRemoved
<1>14. TypeOK'
  BY <1>1, <1>8, <1>9, <1>13 DEF TypeOK
<1>15. IdleCounted'
  BY <1>2, <1>8, <1>10 DEF IdleCounted
<1> QED BY <1>9, <1>13, <1>14, <1>15 DEF SInv

(* sys_brk.                                                                *)
LEMMA BrkKeeps ==
  ASSUME SInv, PInv', NEW b \in BREAKS, sys_brk(b)
  PROVE  SInv'
<1>1. /\ PInv /\ TypeOK /\ StackInv /\ NoSwitchYet /\ CountTracksLive
      /\ IdleCounted
  BY DEF SInv
<1>2. Running /\ cpu = "running" /\ boot = "done"
  BY DEF sys_brk, Running
<1>3. /\ current_process = 0 /\ 0 \in Slots /\ processes[0].state # "UNUSED" /\ Taken(0)
      /\ processes \in [Slots -> ProcessType]
  BY <1>1, <1>2, CurrentIsIdle DEF PInv, SlotsInOrder, TypeOK
<1>4. PICK q : q = WithBrk(processes[0], IF b # NULL THEN b ELSE processes[0].brk)
  OBVIOUS
<1>5. /\ q \in ProcessType /\ q.state = processes[0].state
      /\ q.context = processes[0].context /\ q.brk \in Nat
      /\ q.kernel_stack = processes[0].kernel_stack /\ q.user_stack = processes[0].user_stack
  <2>1. processes[0] \in ProcessType /\ b \in Nat
    BY <1>3, ProcessAssumption
  <2> QED BY <1>4, <2>1 DEF WithBrk, ProcessType
<1>6. /\ processes' = [processes EXCEPT ![0] = q] /\ mm' = mm /\ others' = others
      /\ next_pid' = next_pid /\ boot' = boot /\ ret' = processes'[0].brk
      /\ current_process' = current_process /\ process_count' = process_count
      /\ rsp' = rsp /\ cpu' = cpu /\ again' = again
  BY <1>3, <1>4 DEF sys_brk
<1>7. /\ processes' \in [Slots -> ProcessType] /\ processes'[0] = q
      /\ \A s \in Slots \ {0} : processes'[s] = processes[s]
  BY <1>3, <1>5, <1>6
<1>8. StackInv' /\ Created' = Created
  <2>1. \A s \in Slots : /\ processes'[s].kernel_stack = processes[s].kernel_stack
                         /\ processes'[s].user_stack = processes[s].user_stack
                         /\ processes'[s].state = "UNUSED" <=> processes[s].state = "UNUSED"
                         /\ ~Taken(s) => processes'[s] = processes[s]
    BY <1>3, <1>5, <1>7
  <2> QED BY <1>1, <1>6, <2>1, SameStacks
<1>9. NoSwitchYet'
  BY <1>1, <1>2, <1>3, <1>5, <1>6, <1>7 DEF NoSwitchYet
<1>10. Live' = Live
  BY <1>5, <1>7, <1>8 DEF Live, Used
<1>11. TypeOK'
  BY <1>1, <1>5, <1>6, <1>7 DEF TypeOK
<1>12. CountTracksLive' /\ IdleCounted'
  BY <1>1, <1>2, <1>5, <1>6, <1>7, <1>10 DEF CountTracksLive, IdleCounted
<1> QED BY <1>8, <1>9, <1>11, <1>12 DEF SInv

(* A step that leaves the table alone: the frames in use and those of      *)
(* other kernel code grow or shrink together.                              *)
LEMMA OthersKeep ==
  ASSUME SInv, PInv', processes' = processes, current_process' = current_process,
         next_pid' = next_pid, process_count' = process_count, rsp' = rsp,
         again' = again, ret' \in Nat \cup {Minus1},
         boot' \in {"InitProcessManager", "Init_Syscall", "done"},
         boot' = "InitProcessManager" <=> boot = "InitProcessManager",
         cpu' \in {"running", "faulting", "lost"}, cpu' = "running" => cpu = "running",
         Consistent(mm'), others' \subseteq UsedFrames(mm'),
         \A s \in Created : StacksOf(s) \subseteq UsedFrames(mm') /\ StacksOf(s) \cap others' = {},
         cpu' = "running" => UsedFrames(mm') \ others' \subseteq UsedFrames(mm) \ others
  PROVE  SInv'
<1>1. Created' = Created /\ Live' = Live
  BY DEF Created, Live, Used
<1>2. \A s : StacksOf(s)' = StacksOf(s)
  BY DEF StacksOf
<1>3. FreeSlotsBlank' /\ StacksApart' /\ OthersInUse'
  BY <1>1, <1>2 DEF SInv, StackInv, FreeSlotsBlank, StacksApart, OthersInUse, Taken
<1>4. StacksInUse'
  BY <1>1, <1>2 DEF SInv, StackInv, StacksInUse
<1>5. NoneForgotten'
  <2>1. ASSUME cpu' = "running"
        PROVE  UsedFrames(mm) \ others \subseteq UNION {StacksOf(s) : s \in Created}
    BY <2>1 DEF SInv, StackInv, NoneForgotten
  <2> QED BY <1>1, <1>2, <2>1 DEF NoneForgotten
<1>6. StackInv'
  BY <1>3, <1>4, <1>5 DEF StackInv
<1>7. TypeOK'
  <2>1. mm' \in MemType
    BY DEF Consistent
  <2>2. others' \subseteq Nat
    BY <2>1, UsedFrameIndex
  <2> QED BY <2>1, <2>2 DEF SInv, TypeOK, MemType
<1>8. NoSwitchYet'
  BY <1>1 DEF SInv, NoSwitchYet
<1>9. IdleCounted' /\ CountTracksLive'
  BY <1>1 DEF SInv, IdleCounted, CountTracksLive
<1> QED BY <1>6, <1>7, <1>8, <1>9 DEF SInv

(* A step that changes neither the table nor the allocator.                *)
LEMMA NothingMovedKeeps ==
  ASSUME SInv, PInv', mm' = mm, others' = others, processes' = processes,
         current_process' = current_process, next_pid' = next_pid,
         process_count' = process_count, rsp' = rsp, again' = again, cpu' = cpu,
         ret' \in Nat \cup {Minus1},
         boot' \in {"InitProcessManager", "Init_Syscall", "done"},
         boot' = "InitProcessManager" <=> boot = "InitProcessManager"
  PROVE  SInv'
<1>1. Consistent(mm') /\ others' \subseteq UsedFrames(mm')
  BY DEF SInv, StackInv, OthersInUse
<1>2. \A s \in Created : StacksOf(s) \subseteq UsedFrames(mm') /\ StacksOf(s) \cap others' = {}
  BY DEF SInv, StackInv, StacksInUse
<1>3. cpu' \in {"running", "faulting", "lost"}
  BY DEF SInv, TypeOK
<1> QED BY <1>1, <1>2, <1>3, OthersKeep

(* get_physical_page by other kernel code.                                 *)
LEMMA OtherGetKeeps ==
  ASSUME SInv, PInv', OtherGet
  PROVE  SInv'
<1>0. PICK g : g = get_physical_page(mm)
  OBVIOUS
<1>1. /\ cpu = "running" /\ mm' = g.m
      /\ IF MemsetFaults(g.ret)
           THEN cpu' = "faulting" /\ others' = others
           ELSE others' = others \cup ({g.ret} \ {NULL}) /\ cpu' = cpu
      /\ processes' = processes /\ current_process' = current_process
      /\ next_pid' = next_pid /\ process_count' = process_count /\ rsp' = rsp
      /\ boot' = boot /\ ret' = ret /\ again' = again
  BY <1>0 DEF OtherGet, table
<1>2. /\ Consistent(mm) /\ others \subseteq UsedFrames(mm)
      /\ ret \in Nat \cup {Minus1} /\ boot \in {"InitProcessManager", "Init_Syscall", "done"}
  BY DEF SInv, StackInv, OthersInUse, TypeOK
<1>3. \A s \in Created : StacksOf(s) \subseteq UsedFrames(mm) /\ StacksOf(s) \cap others = {}
  BY DEF SInv, StackInv, StacksInUse
<1>4. CASE FreePages(mm) = {} /\ g.ret = NULL /\ g.m = mm
  <2>1. others' = others /\ cpu' = cpu
    BY <1>1, <1>4 DEF MemsetFaults
  <2> QED BY <1>1, <1>2, <1>4, <2>1, NothingMovedKeeps
<1>5. CASE /\ g.ret # NULL /\ g.ret \notin UsedFrames(mm)
           /\ UsedFrames(g.m) = UsedFrames(mm) \cup {g.ret} /\ Consistent(g.m)
  <2>1. others' \subseteq UsedFrames(mm')
    BY <1>1, <1>2, <1>5
  <2>2. \A s \in Created : StacksOf(s) \subseteq UsedFrames(mm') /\ StacksOf(s) \cap others' = {}
    BY <1>1, <1>3, <1>5
  <2>3. cpu' = "running" => UsedFrames(mm') \ others' \subseteq UsedFrames(mm) \ others
    BY <1>1, <1>5
  <2> QED BY <1>1, <1>2, <1>5, <2>1, <2>2, <2>3, OthersKeep
<1> QED BY <1>0, <1>2, <1>4, <1>5, GetPageEffect

(* free_physical_page by the code that holds the page.                     *)
LEMMA OtherFreeKeeps ==
  ASSUME SInv, PInv', NEW page \in others, OtherFree(page)
  PROVE  SInv'
<1>1. /\ mm' = free_physical_page(mm, page) /\ others' = others \ {page}
      /\ cpu' = cpu /\ processes' = processes /\ current_process' = current_process
      /\ next_pid' = next_pid /\ process_count' = process_count /\ rsp' = rsp
      /\ boot' = boot /\ ret' = ret /\ again' = again
  BY DEF OtherFree, table
<1>2. /\ Consistent(mm) /\ others \subseteq UsedFrames(mm)
      /\ ret \in Nat \cup {Minus1} /\ boot \in {"InitProcessManager", "Init_Syscall", "done"}
      /\ cpu \in {"running", "faulting", "lost"}
  BY DEF SInv, StackInv, OthersInUse, TypeOK
<1>3. \A s \in Created : StacksOf(s) \subseteq UsedFrames(mm) /\ StacksOf(s) \cap others = {}
  BY DEF SInv, StackInv, StacksInUse
<1>4. Consistent(mm') /\ UsedFrames(mm') = UsedFrames(mm) \ {page}
  BY <1>1, <1>2, FreePageEffect
<1>5. others' \subseteq UsedFrames(mm')
  BY <1>1, <1>2, <1>4
<1>6. \A s \in Created : StacksOf(s) \subseteq UsedFrames(mm') /\ StacksOf(s) \cap others' = {}
  BY <1>1, <1>3, <1>4
<1>7. UsedFrames(mm') \ others' \subseteq UsedFrames(mm) \ others
  BY <1>1, <1>4
<1> QED BY <1>1, <1>2, <1>4, <1>5, <1>6, <1>7, OthersKeep

---------------------------------------------------------------------------
(* The state that boot leaves satisfies the invariant.                     *)
LEMMA StacksInit == Init => SInv
<1> SUFFICES ASSUME Init PROVE SInv
  OBVIOUS
<1>1. PInv
  BY InitEstablishes
<1>2. PICK e \in MEMORY_ENDS : mm = Init_Memory(BootMemory, e)
  BY DEF Init
<1>3. Consistent(mm) /\ UsedFrames(mm) = {}
  BY <1>2, ProcessAssumption, InitMemoryConsistent
<1>4. 0 \in Slots
  BY ProcessAssumption, SMT DEF Slots
<1>5. UnusedProcess \in ProcessType /\ \A s \in Slots : processes[s] = UnusedProcess
  BY SMT DEF Init, UnusedProcess, ProcessType, EmptyContext, ContextType, NoProcess
<1>6. TypeOK
  <2>1. mm \in MemType
    BY <1>3 DEF Consistent
  <2>2. processes \in [Slots -> ProcessType]
    BY <1>5 DEF Init
  <2> QED BY <2>1, <2>2, ProcessAssumption, SMT DEF TypeOK, MemType, Init, BOOT_STACK
<1>7. Created = {} /\ Live = {}
  BY <1>5 DEF Created, Live, Used, UnusedProcess
<1>8. StackInv
  BY <1>3, <1>5, <1>7 DEF StackInv, FreeSlotsBlank, StacksInUse, StacksApart,
                          OthersInUse, NoneForgotten, Init
<1>9. NoSwitchYet /\ IdleCounted
  BY <1>4, <1>5, <1>7 DEF NoSwitchYet, IdleCounted, Init, UnusedProcess,
                          EmptyContext
<1>10. CountTracksLive
  <2>1. Cardinality(Live) = 0
    BY <1>7, FS_EmptySet
  <2>2. 0 % UINT32 = 0
    BY ProcessAssumption, ModSmall
  <2> QED BY <2>1, <2>2 DEF CountTracksLive, Init
<1> QED BY <1>1, <1>6, <1>8, <1>9, <1>10 DEF SInv

(* Every step preserves it.                                                *)
LEMMA StacksNext == SInv /\ [Next]_vars => SInv'
<1> SUFFICES ASSUME SInv, [Next]_vars PROVE SInv'
  OBVIOUS
<1>0. /\ PInv' /\ ret \in Nat \cup {Minus1}
      /\ boot \in {"InitProcessManager", "Init_Syscall", "done"}
      /\ processes \in [Slots -> ProcessType]
  BY NextPreserves DEF SInv, TypeOK
<1>1. ASSUME NEW e \in ENTRY_POINTS, InitProcessManager(e) PROVE SInv'
  BY <1>0, <1>1, InitManagerKeeps
<1>2. CASE Init_Syscall
  BY <1>0, <1>2, NothingMovedKeeps DEF Init_Syscall, table
<1>3. ASSUME NEW e \in ENTRY_POINTS, CreateProcess(e) PROVE SInv'
  <2>1. CASE UnusedSlots = {}
    BY <1>0, <1>3, <2>1, NothingMovedKeeps DEF CreateProcess
  <2>2. CASE UnusedSlots # {}
    BY <1>0, <1>3, <2>2, CreateProcessKeeps
  <2> QED BY <2>1, <2>2
<1>4. CASE sys_fork
  <2>1. CASE UnusedSlots = {}
    BY <1>0, <1>4, <2>1, NothingMovedKeeps DEF sys_fork
  <2>2. CASE UnusedSlots # {}
    BY <1>0, <1>4, <2>2, ForkKeeps
  <2> QED BY <2>1, <2>2
<1>5. CASE Schedule
  BY <1>0, <1>5, ScheduleStepKeeps
<1>6. ASSUME NEW st \in STATUSES, sys_exit(st) PROVE SInv'
  BY <1>0, <1>6, ExitKeeps
<1>7. ASSUME NEW b \in BREAKS, sys_brk(b) PROVE SInv'
  BY <1>0, <1>7, BrkKeeps
<1>8. ASSUME NEW num \in {1, 3, 4, 6, 7, 8, SYSCALL_COUNT}, ReturnOnly(num) PROVE SInv'
  <2>1. Running /\ ret' = ReturnOf(num)
    BY <1>8 DEF ReturnOnly
  <2>2. current_process \in Slots
    BY <2>1, CurrentUsed DEF SInv
  <2>3. processes[current_process].pid \in Nat
    BY <1>0, <2>2 DEF ProcessType
  <2>4. ret' \in Nat \cup {Minus1}
    BY <2>1, <2>3 DEF ReturnOf
  <2> QED BY <1>0, <1>8, <2>4, NothingMovedKeeps DEF ReturnOnly, table
<1>9. CASE OtherGet
  BY <1>0, <1>9, OtherGetKeeps
<1>10. ASSUME NEW page \in others, OtherFree(page) PROVE SInv'
  BY <1>0, <1>10, OtherFreeKeeps
<1>11. CASE UNCHANGED vars
  BY <1>0, <1>11, NothingMovedKeeps DEF vars
<1> QED
  BY <1>1, <1>2, <1>3, <1>4, <1>5, <1>6, <1>7, <1>8, <1>9, <1>10, <1>11 DEF Next

(* The invariant holds in every reachable state of the process manager.    *)
THEOREM StackInvariance == Spec => []SInv
  BY StacksInit, StacksNext, PTL DEF Spec

(* The table, the counters and the CPU's stack pointer keep their types;   *)
(* in particular process_count stays within 32 bits for every sequence of  *)
(* exits, repeated ones included.                                          *)
THEOREM ProcessTypeCorrect == Spec => []TypeOK
<1>1. SInv => TypeOK
  BY DEF SInv
<1> QED BY <1>1, StackInvariance, PTL

(* No page is the stack of two processes, or a stack and a page of other   *)
(* kernel code: the dangling kernel_stack that a failed creation leaves is *)
(* never taken for a stack.                                                *)
THEOREM StacksCorrect == Spec => []StacksExclusive
<1>1. ASSUME SInv PROVE StacksExclusive
  <2>1. mm \in MemType
    BY <1>1 DEF SInv, StackInv, Consistent
  <2>2. \A f \in UsedFrames(mm) : PageIndex(f) \in Pages(mm) \ FreePages(mm)
    BY <2>1, UsedFrameIndex
  <2> QED BY <1>1, <2>2 DEF SInv, StackInv, StacksInUse, StacksApart, StacksExclusive
<1> QED BY <1>1, StackInvariance, PTL

(* No page leaks while the CPU runs: a creation that fails half-way gives  *)
(* back what it took.                                                      *)
THEOREM NoLeaksCorrect == Spec => []NoPageLeaks
<1>1. SInv => NoPageLeaks
  BY DEF SInv, StackInv, NoneForgotten, NoPageLeaks, UsedFrames
<1> QED BY <1>1, StackInvariance, PTL

(* process_count is the number of live processes, less the repeated exits. *)
THEOREM CountCorrect == Spec => []CountTracksLive
<1>1. SInv => CountTracksLive
  BY DEF SInv
<1> QED BY <1>1, StackInvariance, PTL
=============================================================================
