---------------------------- MODULE VcpuRunProofs ----------------------------
(***************************************************************************)
(* The safety of the run loop for every pool size: the capture latch, the  *)
(* loop's cached pointer and the yield requests stay consistent with the   *)
(* scheduler through every order of traps, and turns go round-robin.  And  *)
(* no access to a timer register ever reaches its emulation.               *)
(***************************************************************************)
EXTENDS VcpuRun, SchedProofs

Launching == {"register", "set_current", "vcpu_run"}

(* el2_main fills the queue in pool order and then leaves it alone, with   *)
(* vCPU 0 current until the first guest entry.                             *)
PoolInOrder ==
  /\ \A i \in Filled : sched_runqueue[i] = i
  /\ pc = "register" => sched_len = boot /\ boot < VCPU_COUNT
  /\ pc # "register" => sched_len = VCPU_COUNT
  /\ pc \in Launching => sched_current \in {NULL, 0}

(* A guest is entered only through a frame that its trap can return to. *)
FrameStored == pc \in {"guest", "returned"} => host_saved_area # "none"

(* The inductive invariant.  RequestBelongsToCurrent needs LoopPointerFresh *)
(* (the loop clears the request of its own pointer, not of the scheduler's) *)
(* and LatchTracksGuest needs SchedInv (a yield has a target).              *)
RunInv ==
  /\ SchedInv
  /\ RunTypeOK
  /\ PoolInOrder
  /\ FrameStored
  /\ LatchTracksGuest
  /\ LoopPointerFresh
  /\ RequestBelongsToCurrent

-----------------------------------------------------------------------------
(* A key of the handler's switch determines the op1 and crn it was made of:*)
(* only crm and op2 share a bit.                                           *)
LEMMA KeyFields ==
  ASSUME NEW op0 \in 0 .. 3, NEW op1 \in 0 .. 15, NEW crn \in 0 .. 15,
         NEW crm \in 0 .. 15, NEW op2 \in 0 .. 7,
         SYS_REG_ENCODE(op0, op1, crn, crm, op2) \in TimerCases
  PROVE  op0 = 3 /\ op1 = 3 /\ crn = 14
<1> DEFINE low == (crm \div 2) * 8 + (IF crm % 2 = 1 \/ op2 >= 4 THEN 4 ELSE 0) + (op2 % 4)
<1>1. low \in 0 .. 63
  OBVIOUS
<1>2. SYS_REG_ENCODE(op0, op1, crn, crm, op2) = op0 * 16384 + op1 * 1024 + crn * 64 + low
  BY SMT DEF SYS_REG_ENCODE
<1>3. \A k \in TimerCases : k \in 53120 .. 53183
  BY SMT DEF TimerCases, SYS_REG_ENCODE
<1> HIDE DEF low
<1> QED BY <1>1, <1>2, <1>3, SMT

(* A syndrome that matches a case has op1 = 3 and CRn = 14 where the code  *)
(* looks for them.                                                         *)
LEMMA MatchedFields ==
  ASSUME NEW iss \in Nat, esr_sys64_sysreg(iss) \in TimerCases
  PROVE  (iss \div 65536) % 16 = 3 /\ (iss \div 4096) % 16 = 14
<1> DEFINE k0 == (iss \div 1048576) % 4
           k1 == (iss \div 65536) % 16
           kn == (iss \div 4096) % 16
           km == (iss \div 256) % 16
           k2 == (iss \div 32) % 8
<1>1. k0 \in 0 .. 3 /\ k1 \in 0 .. 15 /\ kn \in 0 .. 15 /\ km \in 0 .. 15 /\ k2 \in 0 .. 7
  BY SMT
<1>2. SYS_REG_ENCODE(k0, k1, kn, km, k2) \in TimerCases
  BY SMT DEF esr_sys64_sysreg
<1> HIDE DEF k0, k1, kn, km, k2
<1>3. k1 = 3 /\ kn = 14
  BY <1>1, <1>2, KeyFields, Zenon
<1> QED BY <1>3, SMT DEF k1, kn

(* The emulation of timer registers cannot be reached.  With the field     *)
(* positions of esr_sys64_sysreg a trapped access matches a case of the    *)
(* handler's switch only if it names a register with op1 = 7, op2 = 1 and  *)
(* CRn 8 to 11; the architecture defines none there.                       *)
THEOREM NoTimerAccessDecodes ==
  \A a \in Accesses : Emulated(a) => /\ a.reg.op1 = 7 /\ a.reg.op2 = 1
                                     /\ a.reg.crn \in 8 .. 11
<1> SUFFICES ASSUME NEW a \in Accesses, Emulated(a)
             PROVE  a.reg.op1 = 7 /\ a.reg.op2 = 1 /\ a.reg.crn \in 8 .. 11
  OBVIOUS
<1>1. PICK op0 \in 0 .. 3, op1 \in 0 .. 7, op2 \in 0 .. 7, crn \in 0 .. 15,
           crm \in 0 .. 15, rt \in 0 .. 31, dir \in 0 .. 1 :
        /\ op0 = a.reg.op0 /\ op1 = a.reg.op1 /\ op2 = a.reg.op2 /\ crn = a.reg.crn
        /\ crm = a.reg.crm /\ rt = a.rt /\ dir = a.dir
  BY DEF Accesses, Sysregs
<1> DEFINE iss == Syndrome(op0, op1, crn, crm, op2, rt, dir)
           rest == rt * 32 + crm * 2 + dir
<1>2. iss = SyndromeOf(a)
  BY <1>1, Zenon DEF SyndromeOf
<1>3. /\ iss = op0 * 1048576 + op2 * 131072 + op1 * 16384 + crn * 1024 + rest
      /\ iss \in Nat /\ rest \in 0 .. 1023
  BY SMT DEF Syndrome
<1> HIDE DEF iss, rest
<1>4. esr_sys64_sysreg(iss) \in TimerCases
  BY <1>2, Zenon DEF Emulated
<1>5. (iss \div 65536) % 16 = 3 /\ (iss \div 4096) % 16 = 14
  BY <1>3, <1>4, MatchedFields, SMT
<1>6. /\ iss \div 65536 = op0 * 16 + op2 * 2 + (op1 \div 4)
      /\ iss \div 4096 = op0 * 256 + op2 * 32 + op1 * 4 + (crn \div 4)
  BY <1>3, SMT
<1>7. op1 = 7 /\ op2 = 1 /\ crn \in 8 .. 11
  BY <1>5, <1>6, SMT
<1> QED BY <1>1, <1>7

(* So a guest's access to its physical counter or timer hangs EL2. *)
LEMMA TimerAccessHangs ==
  ASSUME NEW emulated \in TimerDecodes, TrapTimerSysreg(emulated)
  PROVE  pc' = "halt"
<1>1. \A a \in TimerAccesses : a \in Accesses /\ a.reg.op1 # 7
  BY DEF TimerAccesses, TrappedTimerRegs, Accesses, Sysregs
<1>2. PICK a \in TimerAccesses : emulated = Emulated(a)
  BY Zenon DEF TimerDecodes
<1>3. ~Emulated(a)
  BY <1>1, NoTimerAccessDecodes
<1>4. ~emulated
  BY <1>2, <1>3, Zenon
<1> QED BY <1>4 DEF TrapTimerSysreg

(* The registration of vCPU `boot` is never rejected. *)
LEMMA RegistrationAccepted ==
  ASSUME RunInv, BootRegister
  PROVE  /\ boot \in Vcpus
         /\ Enqueue(boot)
         /\ sched_current' = IF sched_current = NULL THEN boot ELSE sched_current
<1> USE SchedAssumption, PoolAssumption
<1>1. sched_len = boot /\ boot < VCPU_COUNT /\ boot \in Vcpus
  BY DEF BootRegister, RunInv, PoolInOrder, RunTypeOK
<1>2. \A i \in Filled : sched_runqueue[i] # boot
  BY <1>1 DEF RunInv, PoolInOrder, Filled
<1>3. ~RegisterRejects(boot)
  BY <1>1, <1>2, FindSlot DEF RegisterRejects, Filled
<1> QED BY <1>1, <1>3 DEF BootRegister, vcpu_scheduler_register

(* Making vCPU 0 current, once all are registered, changes no queue slot. *)
LEMMA FirstIsQueued ==
  ASSUME RunInv, pc # "register", vcpu_scheduler_set_current(0)
  PROVE  /\ UNCHANGED <<sched_runqueue, sched_len>>
         /\ sched_current' = 0
<1> USE SchedAssumption, PoolAssumption
<1>1. 0 \in Filled /\ sched_runqueue[0] = 0 /\ 0 \in Vcpus
  BY DEF RunInv, PoolInOrder, Filled
<1>2. sched_find_slot(0) \in Nat
  BY <1>1, FindSlot DEF Filled
<1> QED BY <1>1, <1>2 DEF vcpu_scheduler_set_current

(* A yield's target is the next vcpu_id; there is none in a pool of one. *)
LEMMA YieldTargetInPool ==
  ASSUME RunInv, pc = "returned", YieldTarget # NULL
  PROVE  /\ YieldTarget \in Vcpus
         /\ YieldTarget = (sched_current + 1) % VCPU_COUNT
<1> USE SchedAssumption, PoolAssumption
<1>1. /\ sched_len >= 2 /\ NextSlot \in Filled
      /\ YieldTarget = sched_runqueue[NextSlot]
      /\ YieldTarget \in Vcpus
  BY YieldTargetIsNext DEF RunInv
<1>2. sched_len = VCPU_COUNT /\ YieldTarget = NextSlot
  BY <1>1 DEF RunInv, PoolInOrder
<1>3. sched_idx \in Filled /\ sched_runqueue[sched_idx] = sched_current
  BY <1>1 DEF RunInv, SchedInv, SchedTypeOK, CurrentIsQueued, Filled, Slots
<1>4. sched_idx = sched_current
  BY <1>3 DEF RunInv, PoolInOrder
<1> QED BY <1>1, <1>2, <1>4 DEF NextSlot

(* el2_main's launch sequence establishes the pool order and keeps the rest. *)
LEMMA LaunchKeepsInv ==
  ASSUME RunInv, BootRegister \/ BootSetCurrent \/ VcpuRunStart
  PROVE  RunInv'
<1> USE SchedAssumption, PoolAssumption
<1>1. CASE BootRegister
  <2>1. /\ boot \in Vcpus
        /\ Enqueue(boot)
        /\ sched_current' = IF sched_current = NULL THEN boot ELSE sched_current
    BY <1>1, RegistrationAccepted
  <2>2. SchedInv'
    BY <1>1, <2>1, RegisterKeepsInv DEF BootRegister, RunInv
  <2>3. RunTypeOK'
    BY <1>1, <2>1, <2>2 DEF BootRegister, RunInv, RunTypeOK, SchedInv, PCs
  <2>4. PoolInOrder'
    <3>1. pc = "register" /\ sched_len = boot /\ boot < VCPU_COUNT /\ sched_len \in Slots
      BY <1>1 DEF BootRegister, RunInv, PoolInOrder, RunTypeOK, Slots
    <3>2. \A i \in Filled' : sched_runqueue'[i] = i
      BY <2>1, <3>1 DEF Enqueue, RunInv, PoolInOrder, SchedInv, SchedTypeOK, Filled, Slots
    <3>3. sched_current' \in {NULL, 0}
      <4>1. CASE sched_current = NULL
        BY <2>1, <3>1, <4>1 DEF RunInv, SchedInv, CurrentIsQueued
      <4>2. CASE sched_current # NULL
        BY <2>1, <3>1, <4>2 DEF RunInv, PoolInOrder, Launching
      <4> QED BY <4>1, <4>2
    <3>4. /\ sched_len' = boot' /\ boot' = boot + 1
          /\ pc' = IF boot + 1 = VCPU_COUNT THEN "set_current" ELSE "register"
      BY <1>1, <2>1, <3>1 DEF BootRegister, Enqueue
    <3> QED BY <3>1, <3>2, <3>3, <3>4 DEF PoolInOrder, RunInv, RunTypeOK
  <2>5. FrameStored' /\ LatchTracksGuest' /\ LoopPointerFresh'
    BY <1>1 DEF BootRegister, RunInv, FrameStored, LatchTracksGuest, LoopPointerFresh
  <2>6. RequestBelongsToCurrent'
    BY <1>1, <2>1 DEF BootRegister, RunInv, RequestBelongsToCurrent
  <2> QED BY <2>2, <2>3, <2>4, <2>5, <2>6 DEF RunInv
<1>2. CASE BootSetCurrent \/ VcpuRunStart
  <2>1. /\ pc \in Launching /\ pc # "register" /\ pc' \in {"vcpu_run", "loop"}
        /\ vcpu_scheduler_set_current(0)
        /\ UNCHANGED <<boot, request_yield, current_trapframe, host_saved_area, run_current>>
    BY <1>2 DEF BootSetCurrent, VcpuRunStart, Launching
  <2>2. /\ UNCHANGED <<sched_runqueue, sched_len>>
        /\ sched_current' = 0
    BY <2>1, FirstIsQueued
  <2>3. SchedInv'
    BY <2>1, SetCurrentKeepsInv DEF RunInv
  <2>4. RunTypeOK'
    BY <2>1, <2>3 DEF RunInv, RunTypeOK, SchedInv, PCs
  <2>5. PoolInOrder'
    BY <2>1, <2>2 DEF RunInv, PoolInOrder, Filled
  <2>6. FrameStored' /\ LatchTracksGuest' /\ LoopPointerFresh'
    BY <2>1 DEF RunInv, FrameStored, LatchTracksGuest, LoopPointerFresh, Launching
  <2>7. RequestBelongsToCurrent'
    BY <2>1, <2>2 DEF RunInv, PoolInOrder, RequestBelongsToCurrent
  <2> QED BY <2>3, <2>4, <2>5, <2>6, <2>7 DEF RunInv
<1> QED BY <1>1, <1>2

(* The loop's own steps keep the invariant. *)
LEMMA LoopKeepsInv ==
  ASSUME RunInv, LoopEnter \/ LoopCheckYield \/ YieldReturn
  PROVE  RunInv'
<1> USE SchedAssumption, PoolAssumption
<1>1. CASE LoopEnter
  <2>1. SchedInv'
    BY <1>1 DEF LoopEnter, schedVars, RunInv, SchedInv, SchedTypeOK,
                QueueWellFormed, CurrentIsQueued, Filled
  <2>2. RunTypeOK'
    BY <1>1, <2>1 DEF LoopEnter, world_switch, RunInv, SchedInv, RunTypeOK, SchedTypeOK,
                      PCs, Frames
  <2>3. PoolInOrder'
    BY <1>1 DEF LoopEnter, world_switch, schedVars, RunInv, PoolInOrder, Filled, Launching
  <2>4. FrameStored' /\ LatchTracksGuest' /\ LoopPointerFresh' /\ RequestBelongsToCurrent'
    BY <1>1 DEF LoopEnter, world_switch, schedVars, RunInv, FrameStored, LatchTracksGuest,
                LoopPointerFresh, RequestBelongsToCurrent
  <2> QED BY <2>1, <2>2, <2>3, <2>4 DEF RunInv
<1>2. CASE LoopCheckYield
  <2>1. /\ run_current = sched_current /\ current_trapframe = NULL
        /\ pc = "returned" /\ sched_len = VCPU_COUNT
        /\ sched_current \in Vcpus
    BY <1>2 DEF LoopCheckYield, RunInv, LoopPointerFresh, LatchTracksGuest, PoolInOrder,
                SchedInv, SchedTypeOK, CurrentIsQueued
  <2>2. CASE ~request_yield[run_current]
    <3>1. /\ pc' = "loop"
          /\ UNCHANGED <<schedVars, boot, request_yield, current_trapframe,
                         host_saved_area, run_current>>
      BY <1>2, <2>2 DEF LoopCheckYield
    <3> QED
      BY <2>1, <3>1 DEF schedVars, RunInv, SchedInv, RunTypeOK, SchedTypeOK, QueueWellFormed,
         CurrentIsQueued, PoolInOrder, FrameStored, LatchTracksGuest, LoopPointerFresh,
         RequestBelongsToCurrent, Filled, PCs, Launching
  <2>3. CASE request_yield[run_current]
    <3>1. /\ request_yield' = [request_yield EXCEPT ![run_current] = FALSE]
          /\ YieldAndSwitch /\ vcpu_scheduler_yield
          /\ UNCHANGED <<boot, run_current>>
      BY <1>2, <2>3 DEF LoopCheckYield, YieldAndSwitch
    <3>2. SchedInv'
      BY <3>1, YieldKeepsInv DEF RunInv
    <3>3. \A v \in Vcpus : ~request_yield'[v]
      BY <2>1, <3>1 DEF RunInv, RunTypeOK, RequestBelongsToCurrent
    <3>4. request_yield' \in [Vcpus -> BOOLEAN]
      BY <3>1 DEF RunInv, RunTypeOK
    <3>5. UNCHANGED <<sched_runqueue, sched_len>>
      BY <3>1 DEF vcpu_scheduler_yield, schedVars
    <3>6. PoolInOrder' /\ RequestBelongsToCurrent'
      <4>1. pc' \in {"loop", "guest"}
        BY <3>1 DEF YieldAndSwitch, world_switch
      <4> QED BY <2>1, <3>3, <3>5, <4>1
              DEF RunInv, PoolInOrder, RequestBelongsToCurrent, Filled, Launching
    <3>7. CASE YieldTarget = NULL
      <4>1. /\ pc' = "loop"
            /\ UNCHANGED <<schedVars, current_trapframe, host_saved_area>>
        BY <3>1, <3>7 DEF YieldAndSwitch, vcpu_scheduler_yield
      <4>2. RunTypeOK'
        BY <3>1, <3>2, <3>4, <4>1 DEF SchedInv, RunInv, RunTypeOK, PCs
      <4>3. FrameStored' /\ LatchTracksGuest' /\ LoopPointerFresh'
        BY <2>1, <4>1 DEF FrameStored, LatchTracksGuest, LoopPointerFresh
      <4> QED BY <3>2, <3>6, <4>2, <4>3 DEF RunInv
    <3>8. CASE YieldTarget # NULL
      <4>1. /\ pc' = "guest" /\ host_saved_area' = "yield"
            /\ current_trapframe' = YieldTarget /\ sched_current' = YieldTarget
            /\ YieldTarget \in Vcpus
        BY <2>1, <3>1, <3>8, YieldTargetInPool
           DEF YieldAndSwitch, vcpu_scheduler_yield, world_switch
      <4>2. RunTypeOK'
        BY <3>1, <3>2, <3>4, <4>1 DEF SchedInv, RunInv, RunTypeOK, PCs, Frames
      <4>3. FrameStored' /\ LatchTracksGuest' /\ LoopPointerFresh'
        BY <3>8, <4>1 DEF FrameStored, LatchTracksGuest, LoopPointerFresh
      <4> QED BY <3>2, <3>6, <4>2, <4>3 DEF RunInv
    <3> QED BY <3>7, <3>8
  <2> QED BY <2>2, <2>3
<1>3. CASE YieldReturn
  BY <1>3 DEF YieldReturn, schedVars, RunInv, SchedInv, RunTypeOK, SchedTypeOK, QueueWellFormed,
     CurrentIsQueued, PoolInOrder, FrameStored, LatchTracksGuest, LoopPointerFresh,
     RequestBelongsToCurrent, Filled, PCs, Launching
<1> QED BY <1>1, <1>2, <1>3

(* A trap clears the latch, may ask for a yield on behalf of the running   *)
(* vCPU, and touches nothing else.                                         *)
LEMMA TrapKeepsInv ==
  ASSUME RunInv, GuestTrap
  PROVE  RunInv'
<1> USE SchedAssumption, PoolAssumption
<1>1. /\ pc = "guest" /\ current_trapframe' = NULL
      /\ UNCHANGED <<schedVars, boot, host_saved_area, run_current>>
  BY DEF GuestTrap, TrapWfx, TrapTaskReport, TrapTimeOverride, TrapTimerSysreg, TrapFatal, TrapEntry
<1>2. pc' \in {"returned", "halt"}
  BY DEF GuestTrap, TrapWfx, TrapTaskReport, TrapTimeOverride, TrapTimerSysreg, TrapFatal
<1>3. sched_current \in Vcpus
  BY <1>1 DEF RunInv, LatchTracksGuest, RunTypeOK, SchedTypeOK
<1>4. \/ request_yield' = request_yield
      \/ request_yield' = [request_yield EXCEPT ![sched_current] = TRUE]
  BY DEF GuestTrap, TrapWfx, TrapTaskReport, TrapTimeOverride, TrapTimerSysreg, TrapFatal
<1>5. SchedInv'
  BY <1>1 DEF schedVars, RunInv, SchedInv, SchedTypeOK, QueueWellFormed, CurrentIsQueued, Filled
<1>6. RunTypeOK'
  BY <1>1, <1>2, <1>3, <1>4, <1>5 DEF RunInv, RunTypeOK, SchedInv, PCs
<1>7. PoolInOrder' /\ FrameStored' /\ LatchTracksGuest' /\ LoopPointerFresh'
  BY <1>1, <1>2 DEF schedVars, RunInv, PoolInOrder, FrameStored, LatchTracksGuest,
                    LoopPointerFresh, Filled, Launching
<1>8. RequestBelongsToCurrent'
  BY <1>1, <1>2, <1>3, <1>4 DEF schedVars, RunInv, RunTypeOK, RequestBelongsToCurrent
<1> QED BY <1>5, <1>6, <1>7, <1>8 DEF RunInv

(* One step of the run loop keeps its invariant. *)
LEMMA RunInvStep == ASSUME RunInv, [RunNext]_ctlVars PROVE RunInv'
<1>1. CASE UNCHANGED ctlVars
  BY <1>1 DEF ctlVars, schedVars, runVars, RunInv, SchedInv, RunTypeOK, SchedTypeOK,
     QueueWellFormed, CurrentIsQueued, PoolInOrder, FrameStored, LatchTracksGuest,
     LoopPointerFresh, RequestBelongsToCurrent, Filled
<1>2. CASE BootRegister \/ BootSetCurrent \/ VcpuRunStart
  BY <1>2, LaunchKeepsInv
<1>3. CASE LoopEnter \/ LoopCheckYield \/ YieldReturn
  BY <1>3, LoopKeepsInv
<1>4. CASE GuestTrap
  BY <1>4, TrapKeepsInv
<1> QED BY <1>1, <1>2, <1>3, <1>4 DEF RunNext, El2Step, Halted

-----------------------------------------------------------------------------
(* The empty queue and the cleared vCPUs that el2_main starts from satisfy *)
(* the inductive invariant.                                                *)
LEMMA RunInvInit ==
  ASSUME RunInit
  PROVE  RunInv
BY SchedAssumption, PoolAssumption
   DEF RunInit, SchedInit, RunInv, SchedInv, SchedTypeOK, RunTypeOK, QueueWellFormed,
       CurrentIsQueued, PoolInOrder, FrameStored, LatchTracksGuest, LoopPointerFresh,
       RequestBelongsToCurrent, Slots, Filled, PCs, Frames, Launching

(* The run loop keeps the inductive invariant for every pool size: the     *)
(* latch names the running guest and nothing else, the loop's pointer is   *)
(* never stale when it is used, and no yield request outlives a switch.    *)
THEOREM RunInvariant == RunSpec => []RunInv
<1>1. RunInit => RunInv
  BY RunInvInit
<1>2. RunInv /\ [RunNext]_ctlVars => RunInv'
  BY RunInvStep
<1> QED BY <1>1, <1>2, PTL DEF RunSpec

(* Every variable of the run loop and of the queue keeps its type, for     *)
(* every pool size: no slot index leaves the array and the latch and the   *)
(* loop's pointer are a vCPU of the pool or NULL.                          *)
THEOREM RunTypeCorrect == RunSpec => []RunTypeOK
BY RunInvariant, PTL DEF RunInv

(* The capture latch is right in every reachable state. *)
THEOREM LatchAlwaysTracksGuest == RunSpec => []LatchTracksGuest
BY RunInvariant, PTL DEF RunInv

(* vcpu_run never acts on a stale `current`. *)
THEOREM LoopPointerAlwaysFresh == RunSpec => []LoopPointerFresh
BY RunInvariant, PTL DEF RunInv

(* A yield request is pending only for the current vCPU, and is never      *)
(* carried into another vCPU's turn.                                       *)
THEOREM RequestsNeverCarriedOver == RunSpec => []RequestBelongsToCurrent
BY RunInvariant, PTL DEF RunInv

(* A vCPU loses the core only after it executed WFI, and to the next one   *)
(* of the pool.                                                            *)
THEOREM RoundRobin == RunSpec => TurnsInOrder
<1> USE SchedAssumption, PoolAssumption
<1> DEFINE Turn == sched_current # NULL /\ sched_current' # sched_current =>
                     /\ request_yield[sched_current]
                     /\ sched_current' = (sched_current + 1) % VCPU_COUNT
<1>1. RunInv /\ [RunNext]_ctlVars => [Turn]_ctlVars
  <2> SUFFICES ASSUME RunInv, RunNext PROVE Turn
    OBVIOUS
  <2>1. CASE BootRegister
    BY <2>1, RegistrationAccepted
  <2>2. CASE BootSetCurrent \/ VcpuRunStart
    <3>1. pc \in Launching /\ pc # "register" /\ vcpu_scheduler_set_current(0)
      BY <2>2 DEF BootSetCurrent, VcpuRunStart, Launching
    <3>2. sched_current' = 0 /\ sched_current \in {NULL, 0}
      BY <3>1, FirstIsQueued DEF RunInv, PoolInOrder
    <3> QED BY <3>2
  <2>3. CASE LoopCheckYield
    <3>1. pc = "returned" /\ run_current = sched_current
      BY <2>3 DEF LoopCheckYield, RunInv, LoopPointerFresh
    <3>2. \/ sched_current' = sched_current
          \/ /\ request_yield[run_current]
             /\ YieldTarget # NULL
             /\ sched_current' = YieldTarget
      BY <2>3 DEF LoopCheckYield, YieldAndSwitch, vcpu_scheduler_yield, schedVars
    <3> QED BY <3>1, <3>2, YieldTargetInPool
  <2>4. CASE LoopEnter \/ YieldReturn \/ GuestTrap \/ Halted
    BY <2>4 DEF LoopEnter, YieldReturn, GuestTrap, TrapWfx, TrapTaskReport, TrapTimeOverride,
       TrapTimerSysreg, TrapFatal, TrapEntry, Halted, ctlVars, schedVars
  <2> QED BY <2>1, <2>2, <2>3, <2>4 DEF RunNext, El2Step
<1> QED BY <1>1, RunInvariant, PTL DEF RunSpec, TurnsInOrder
-----------------------------------------------------------------------------
(* Facts for the modules that add state to the run loop. *)

(* No guest is entered before vcpu_run's loop. *)
NoFrameYet == pc \in Launching => host_saved_area = "none"

(* The launch sequence stores no frame and the loop never goes back to it. *)
LEMMA NoFrameYetStep ==
  ASSUME RunInv, NoFrameYet, [RunNext]_ctlVars
  PROVE  NoFrameYet'
BY DEF NoFrameYet, RunNext, El2Step, BootRegister, BootSetCurrent, VcpuRunStart, LoopEnter,
       LoopCheckYield, YieldAndSwitch, YieldReturn, GuestTrap, TrapWfx, TrapTaskReport,
       TrapTimeOverride, TrapTimerSysreg, TrapFatal, Halted, world_switch, Launching,
       ctlVars, runVars

(* From the first guest entry on there is a current vCPU. *)
LEMMA CurrentExists ==
  ASSUME RunInv, pc # "register"
  PROVE  sched_current \in Vcpus
BY SchedAssumption, PoolAssumption
   DEF RunInv, PoolInOrder, SchedInv, SchedTypeOK, CurrentIsQueued

(* Head of the loop: the current vCPU is entered. *)
LEMMA LoopEnterFacts ==
  ASSUME RunInv, LoopEnter
  PROVE  /\ sched_current \in Vcpus /\ UNCHANGED sched_current
         /\ pc' = "guest" /\ host_saved_area' = "vcpu_run" /\ current_trapframe' = sched_current
         /\ current_trapframe = NULL
<1>1. pc = "loop" /\ sched_current \in Vcpus /\ sched_current # NULL
  BY CurrentExists, SchedAssumption DEF LoopEnter
<1> QED BY <1>1 DEF LoopEnter, world_switch, schedVars, RunInv, LatchTracksGuest

(* Return into the loop: either nothing is entered and the current vCPU    *)
(* stays, or another vCPU is entered and becomes current.                  *)
LEMMA LoopCheckYieldFacts ==
  ASSUME RunInv, LoopCheckYield
  PROVE  /\ pc = "returned" /\ host_saved_area = "vcpu_run" /\ sched_current \in Vcpus
         /\ current_trapframe = NULL
         /\ \/ /\ pc' # "guest"
               /\ UNCHANGED <<sched_current, host_saved_area, current_trapframe>>
            \/ /\ pc' = "guest" /\ host_saved_area' = "yield"
               /\ sched_current' \in Vcpus /\ sched_current' # sched_current
               /\ current_trapframe' = sched_current'
<1>1. /\ pc = "returned" /\ host_saved_area = "vcpu_run" /\ sched_current \in Vcpus
      /\ current_trapframe = NULL
  BY CurrentExists DEF LoopCheckYield, RunInv, LatchTracksGuest
<1>2. CASE request_yield[run_current] /\ YieldTarget # NULL
  <2>1. YieldTarget \in Vcpus /\ YieldTarget # sched_current
    BY <1>2, YieldTargetIsNext DEF RunInv
  <2>2. /\ pc' = "guest" /\ host_saved_area' = "yield"
        /\ sched_current' = YieldTarget /\ current_trapframe' = YieldTarget
    BY <1>2 DEF LoopCheckYield, YieldAndSwitch, vcpu_scheduler_yield, world_switch
  <2> QED BY <1>1, <2>1, <2>2
<1>3. CASE ~(request_yield[run_current] /\ YieldTarget # NULL)
  <2>1. pc' = "loop" /\ UNCHANGED <<schedVars, host_saved_area, current_trapframe>>
    BY <1>3 DEF LoopCheckYield, YieldAndSwitch, vcpu_scheduler_yield
  <2> QED BY <1>1, <2>1 DEF schedVars
<1> QED BY <1>2, <1>3

(* The steps that neither enter a guest nor leave one do not move the      *)
(* current vCPU once a frame is stored.                                    *)
LEMMA QuietFacts ==
  ASSUME RunInv, NoFrameYet,
         BootRegister \/ BootSetCurrent \/ VcpuRunStart \/ YieldReturn \/ Halted
  PROVE  /\ UNCHANGED <<host_saved_area, current_trapframe>>
         /\ host_saved_area # "none" => UNCHANGED sched_current
         /\ current_trapframe = NULL
<1>1. CASE BootRegister \/ BootSetCurrent \/ VcpuRunStart
  BY <1>1 DEF BootRegister, BootSetCurrent, VcpuRunStart, NoFrameYet, Launching, RunInv,
              LatchTracksGuest
<1>2. CASE YieldReturn \/ Halted
  BY <1>2 DEF YieldReturn, Halted, ctlVars, runVars, schedVars, RunInv, LatchTracksGuest
<1> QED BY <1>1, <1>2

(* A trap clears the latch and leaves the current vCPU and the frame. *)
LEMMA TrapFacts ==
  ASSUME RunInv, GuestTrap
  PROVE  /\ pc = "guest" /\ pc' # "guest" /\ current_trapframe' = NULL
         /\ current_trapframe = sched_current /\ sched_current \in Vcpus
         /\ host_saved_area # "none"
         /\ UNCHANGED <<sched_current, host_saved_area>>
<1>1. pc = "guest"
  BY DEF GuestTrap, TrapWfx, TrapTaskReport, TrapTimeOverride, TrapTimerSysreg, TrapFatal, TrapEntry
<1> QED BY <1>1, CurrentExists
        DEF GuestTrap, TrapWfx, TrapTaskReport, TrapTimeOverride, TrapTimerSysreg, TrapFatal,
            TrapEntry, schedVars, RunInv, LatchTracksGuest, FrameStored
=============================================================================
