--------------------------- MODULE TrapFrameProofs ---------------------------
(***************************************************************************)
(* The trap and switch path implements a private processor per vCPU, for   *)
(* every pool size, set of registers, register contents and code size.     *)
(***************************************************************************)
EXTENDS TrapFrame, VcpuRunProofs

(* The inductive invariant: the run loop's, the types, and a processor     *)
(* free of EL2's register contents while a guest runs.                     *)
TfInv ==
  /\ RunInv
  /\ TfTypeOK
  /\ pc = "guest" => hw \in GuestRegs

-----------------------------------------------------------------------------
(* Forgetting the registers, the detailed steps are the run loop's. *)
LEMMA TfNextIsRunNext == [TfNext]_tfVars => [RunNext]_ctlVars
BY DEF TfNext, tfVars, TfEl2Step, TfBoot, TfLoopEnter, TfLoopCheckYield, TfYieldReturn,
       TfGuestTrap, TfTrapWfx, TfTrapTaskReport, TfTrapTimeOverride, TfTrapTimerSysreg,
       TfTrapFatal, GuestStep, TfHalted, RunNext, El2Step, GuestTrap

(* The captured frame is the processor's register set with the trapped     *)
(* address in elr: pushing x16 before it is reused loses nothing.          *)
LEMMA CaptureIsHw ==
  ASSUME hw \in GuestRegs, NEW a \in Addrs
  PROVE  /\ Capture(a) = [gpr |-> hw.gpr, elr |-> a, el1 |-> hw.el1]
         /\ Capture(a) \in GuestRegs
<1>1. hw.gpr \in [Gprs -> Vals] /\ hw.el1 \in Vals
  BY DEF GuestRegs
<1>2. [[hw.gpr EXCEPT !["x16"] = HostVal] EXCEPT !["x16"] = hw.gpr["x16"]] = hw.gpr
  BY <1>1
<1>3. Capture(a) = [gpr |-> hw.gpr, elr |-> a, el1 |-> hw.el1]
  BY <1>2 DEF Capture
<1> QED BY <1>1, <1>3 DEF GuestRegs

(* The next instruction address is an address. *)
LEMMA Next4InAddrs == ASSUME NEW a \in Addrs PROVE Next4(a) \in Addrs
BY RegAssumption DEF Next4, Addrs

(* Registers that a trap leaves with the guest: its own, at address a. *)
Left(a) == [gpr |-> hw.gpr, elr |-> a, el1 |-> hw.el1]

(* What a trap does to the frames: only the running vCPU's changes, to the *)
(* retired registers if EL2 returns to the loop.                           *)
TrapLeaves(a) ==
  /\ a \in {hw.elr, Next4(hw.elr)}
  /\ tf' = [tf EXCEPT ![sched_current] = Left(a)]
  /\ Left(a) \in GuestRegs
  /\ \/ pc' = "returned" /\ a = Next4(hw.elr)
     \/ pc' = "halt"

(* Every trap of a guest captures its registers in its own frame, retires  *)
(* one instruction and leaves every other frame alone.                     *)
LEMMA TrapRetiresOne ==
  ASSUME TfInv, TfGuestTrap
  PROVE  /\ pc = "guest" /\ current_trapframe' = NULL
         /\ current_trapframe = sched_current /\ sched_current \in Vcpus
         /\ \E a : TrapLeaves(a)
         /\ hw' \in HwRegs
<1> USE RegAssumption, SchedAssumption
<1>1. /\ pc = "guest" /\ current_trapframe' = NULL
  BY DEF TfGuestTrap, TfTrapWfx, TfTrapTaskReport, TfTrapTimeOverride, TfTrapTimerSysreg,
         TfTrapFatal, TrapWfx, TrapTaskReport, TrapTimeOverride, TrapTimerSysreg, TrapFatal,
         TrapEntry
<1>2. /\ current_trapframe = sched_current /\ sched_current \in Vcpus /\ sched_current # NULL
      /\ hw \in GuestRegs
  BY <1>1 DEF TfInv, RunInv, LatchTracksGuest, RunTypeOK, SchedTypeOK
<1>3. /\ tf \in [Vcpus -> GuestRegs] /\ hw.elr \in Addrs /\ Next4(hw.elr) \in Addrs
      /\ hw.gpr \in [Gprs -> Vals] /\ hw.el1 \in Vals /\ "x0" \in Gprs /\ hw.gpr["x0"] \in Vals
  BY <1>2, Next4InAddrs DEF TfInv, TfTypeOK, GuestRegs
<1>4. ASSUME NEW a \in Addrs
      PROVE  /\ Captured(a) = [tf EXCEPT ![sched_current] = [gpr |-> hw.gpr, elr |-> a, el1 |-> hw.el1]]
             /\ Advanced(Captured(a), a)
                  = [tf EXCEPT ![sched_current] = [gpr |-> hw.gpr, elr |-> Next4(a), el1 |-> hw.el1]]
             /\ HostHas(a) => hw' \in HwRegs
  <2>1. Captured(a) = [tf EXCEPT ![sched_current] = [gpr |-> hw.gpr, elr |-> a, el1 |-> hw.el1]]
    BY <1>2, CaptureIsHw DEF Captured
  <2>2. Advanced(Captured(a), a)
          = [tf EXCEPT ![sched_current] = [gpr |-> hw.gpr, elr |-> Next4(a), el1 |-> hw.el1]]
    <3> DEFINE R1 == [gpr |-> hw.gpr, elr |-> a, el1 |-> hw.el1]
               R2 == [gpr |-> hw.gpr, elr |-> Next4(a), el1 |-> hw.el1]
               g == [tf EXCEPT ![sched_current] = R1]
    <3>1. g[sched_current] = R1 /\ DOMAIN g = Vcpus
      BY <1>2, <1>3
    <3>2. [g[sched_current] EXCEPT !.elr = Next4(a)] = R2
      BY <3>1
    <3>3. [g EXCEPT ![sched_current] = R2] = [tf EXCEPT ![sched_current] = R2]
      BY <1>2, <1>3
    <3>4. [g EXCEPT ![sched_current].elr = Next4(a)] = [g EXCEPT ![sched_current] = R2]
      <4> HIDE DEF g
      <4> QED BY <3>2
    <3> HIDE DEF R1, R2, g
    <3>5. Advanced(g, a) = [g EXCEPT ![sched_current].elr = Next4(a)]
      BY <1>2 DEF Advanced
    <3> QED BY <2>1, <3>3, <3>4, <3>5 DEF g, R1, R2
  <2>3. HostHas(a) => hw' \in HwRegs
    BY <1>3 DEF HostHas, HwRegs
  <2> QED BY <2>1, <2>2, <2>3
<1>5. ASSUME NEW a \in Addrs PROVE Left(a) \in GuestRegs
  BY <1>3 DEF GuestRegs, Left
<1>6. CASE TfTrapWfx
  <2>1. TrapLeaves(Next4(hw.elr))
    BY <1>3, <1>4, <1>5, <1>6 DEF TfTrapWfx, TrapWfx, TrappedAddr, TrapLeaves, Left
  <2>2. hw' \in HwRegs
    BY <1>3, <1>4, <1>6 DEF TfTrapWfx, TrappedAddr
  <2> QED BY <1>1, <1>2, <2>1, <2>2
<1>7. ASSUME NEW ptr \in ReportPointers, TfTrapTaskReport(ptr)
      PROVE  (\E a : TrapLeaves(a)) /\ hw' \in HwRegs
  <2>1. TrapLeaves(Next4(hw.elr))
    BY <1>3, <1>4, <1>5, <1>7 DEF TfTrapTaskReport, TrapTaskReport, HvcReturnAddr, TrapLeaves, Left
  <2>2. hw' \in HwRegs
    BY <1>3, <1>4, <1>7 DEF TfTrapTaskReport, HvcReturnAddr
  <2> QED BY <2>1, <2>2
<1>8. CASE TfTrapTimeOverride
  <2>1. TrapLeaves(Next4(hw.elr))
    BY <1>3, <1>4, <1>5, <1>8 DEF TfTrapTimeOverride, TrapTimeOverride, HvcReturnAddr, TrapLeaves, Left
  <2>2. hw' \in HwRegs
    BY <1>3, <1>4, <1>8 DEF TfTrapTimeOverride, HvcReturnAddr
  <2> QED BY <1>1, <1>2, <2>1, <2>2
<1>9. ASSUME NEW emulated \in TimerDecodes, TfTrapTimerSysreg(emulated)
       PROVE  (\E a : TrapLeaves(a)) /\ hw' \in HwRegs
  <2>1. pc' = "halt"
    BY <1>9, TimerAccessHangs DEF TfTrapTimerSysreg
  <2>2. TrapLeaves(hw.elr)
    BY <1>3, <1>4, <1>5, <1>9, <2>1 DEF TfTrapTimerSysreg, TrappedAddr, TrapLeaves, Left
  <2>3. hw' \in HwRegs
    BY <1>3, <1>4, <1>9 DEF TfTrapTimerSysreg, TrappedAddr
  <2> QED BY <2>2, <2>3
<1>10. CASE TfTrapFatal
  <2>1. PICK a \in {hw.elr, Next4(hw.elr)} : tf' = Captured(a) /\ HostHas(a)
    BY <1>10 DEF TfTrapFatal, TrappedAddr, HvcReturnAddr
  <2>2. TrapLeaves(a)
    BY <1>3, <1>4, <1>5, <1>10, <2>1 DEF TfTrapFatal, TrapFatal, TrapLeaves, Left
  <2> QED BY <1>1, <1>2, <1>3, <1>4, <2>1, <2>2
<1> QED BY <1>1, <1>2, <1>6, <1>7, <1>8, <1>9, <1>10 DEF TfGuestTrap

(* Entering a guest loads its whole frame; otherwise nothing is loaded. *)
LEMMA EntryLoadsFrame ==
  ASSUME TfInv, TfLoopEnter \/ TfLoopCheckYield
  PROVE  /\ tf' = tf /\ current_trapframe = NULL /\ pc # "halt"
         /\ \/ /\ pc' = "guest" /\ current_trapframe' \in Vcpus
               /\ hw' = tf[current_trapframe']
            \/ /\ pc' = "loop" /\ current_trapframe' = NULL /\ hw' = hw
<1> USE SchedAssumption, PoolAssumption
<1>1. /\ current_trapframe = NULL /\ pc \in {"loop", "returned"} /\ tf' = tf
      /\ sched_current \in Vcpus
  BY DEF TfLoopEnter, TfLoopCheckYield, LoopEnter, LoopCheckYield, EnterGuest, TfInv, RunInv,
         LatchTracksGuest, PoolInOrder, SchedInv, SchedTypeOK, CurrentIsQueued
<1>2. CASE TfLoopEnter
  BY <1>1, <1>2 DEF TfLoopEnter, LoopEnter, world_switch, EnterGuest, vcpu_switch_asm
<1>3. CASE TfLoopCheckYield
  <2>1. /\ \/ pc' = "guest" /\ YieldTarget # NULL /\ current_trapframe' = YieldTarget
           \/ pc' = "loop" /\ current_trapframe' = current_trapframe
        /\ pc = "returned"
    BY <1>3 DEF TfLoopCheckYield, LoopCheckYield, YieldAndSwitch, world_switch
  <2>2. YieldTarget # NULL => YieldTarget \in Vcpus
    BY <2>1, YieldTargetInPool DEF TfInv
  <2> QED BY <1>1, <1>3, <2>1, <2>2 DEF TfLoopCheckYield, EnterGuest, vcpu_switch_asm
<1> QED BY <1>2, <1>3

(* A guest instruction changes the processor only, and to guest values. *)
LEMMA GuestStepKeepsRegs ==
  ASSUME TfInv, GuestStep
  PROVE  hw' \in GuestRegs /\ hw'.elr = Next4(hw.elr)
<1>1. hw \in GuestRegs
  BY DEF TfInv, GuestStep
<1>2. hw.gpr \in [Gprs -> Vals] /\ hw.el1 \in Vals /\ Next4(hw.elr) \in Addrs
      /\ hw = [gpr |-> hw.gpr, elr |-> hw.elr, el1 |-> hw.el1]
  BY <1>1, Next4InAddrs DEF GuestRegs
<1>3. ASSUME NEW r \in Gprs, NEW x \in Vals, hw' = [hw EXCEPT !.gpr[r] = x, !.elr = Next4(hw.elr)]
      PROVE  hw' \in GuestRegs /\ hw'.elr = Next4(hw.elr)
  <2>1. [hw.gpr EXCEPT ![r] = x] \in [Gprs -> Vals]
    BY <1>2
  <2>2. hw' = [gpr |-> [hw.gpr EXCEPT ![r] = x], elr |-> Next4(hw.elr), el1 |-> hw.el1]
    BY <1>2, <1>3
  <2> QED BY <1>2, <2>1, <2>2 DEF GuestRegs
<1>4. ASSUME NEW x \in Vals, hw' = [hw EXCEPT !.el1 = x, !.elr = Next4(hw.elr)]
      PROVE  hw' \in GuestRegs /\ hw'.elr = Next4(hw.elr)
  <2>1. hw' = [gpr |-> hw.gpr, elr |-> Next4(hw.elr), el1 |-> x]
    BY <1>2, <1>4
  <2> QED BY <1>2, <2>1 DEF GuestRegs
<1> QED BY <1>3, <1>4 DEF GuestStep

-----------------------------------------------------------------------------
(* Frames and processor keep their types, and a running guest never has a  *)
(* register content of EL2's.                                              *)
THEOREM TfInvariant == TfSpec => []TfInv
<1> USE RegAssumption
<1>1. TfSpec => RunSpec
  BY TfNextIsRunNext, PTL DEF TfSpec, TfInit, RunSpec
<1>2. TfInit /\ RunInv => TfInv
  BY DEF TfInit, RunInit, TfInv, RunInv, TfTypeOK
<1>3. TfInv /\ RunInv' /\ [TfNext]_tfVars => TfInv'
  <2> SUFFICES ASSUME TfInv, RunInv', [TfNext]_tfVars
               PROVE  /\ hw' \in HwRegs /\ tf' \in [Vcpus -> GuestRegs]
                      /\ pc' = "guest" => hw' \in GuestRegs
    BY DEF TfInv, RunInv, TfTypeOK
  <2>1. GuestRegs \subseteq HwRegs
    BY DEF GuestRegs, HwRegs
  <2>2. tf \in [Vcpus -> GuestRegs] /\ hw \in HwRegs /\ (pc = "guest" => hw \in GuestRegs)
    BY DEF TfInv, TfTypeOK
  <2>3. CASE UNCHANGED tfVars
    BY <2>2, <2>3 DEF tfVars, ctlVars, runVars
  <2>4. CASE TfBoot \/ TfYieldReturn \/ TfHalted
    <3>1. pc' # "guest" /\ hw' = hw /\ tf' = tf
      BY <2>4 DEF TfBoot, TfYieldReturn, TfHalted, BootRegister, BootSetCurrent, VcpuRunStart,
                  YieldReturn, Halted, ctlVars, runVars
    <3> QED BY <2>2, <3>1
  <2>5. CASE TfLoopEnter \/ TfLoopCheckYield
    BY <2>1, <2>2, <2>5, EntryLoadsFrame
  <2>6. CASE TfGuestTrap
    <3>1. PICK a : TrapLeaves(a)
      BY <2>6, TrapRetiresOne
    <3>2. pc' # "guest" /\ tf' \in [Vcpus -> GuestRegs]
      BY <2>2, <3>1 DEF TrapLeaves
    <3> QED BY <2>6, <3>2, TrapRetiresOne
  <2>7. CASE GuestStep
    BY <2>1, <2>2, <2>7, GuestStepKeepsRegs DEF GuestStep
  <2> QED BY <2>3, <2>4, <2>5, <2>6, <2>7 DEF TfNext, TfEl2Step
<1> QED BY <1>1, <1>2, <1>3, RunInvariant, PTL DEF TfSpec

(* No guest ever sees, and no frame ever stores, a register content of     *)
(* EL2's own code.                                                         *)
THEOREM HostRegistersStayPrivate == TfSpec => []NoHostRegisterLeak
<1>1. TfInv => NoHostRegisterLeak
  <2> SUFFICES ASSUME TfInv, NEW v \in Vcpus, NEW r \in Gprs PROVE CpuView[v].gpr[r] # HostVal
    BY DEF NoHostRegisterLeak
  <2>1. current_trapframe = v => pc = "guest"
    BY SchedAssumption DEF TfInv, RunInv, LatchTracksGuest
  <2>2. CpuView[v] \in GuestRegs
    BY <2>1 DEF TfInv, TfTypeOK, CpuView
  <2>3. CpuView[v].gpr[r] \in Vals
    <3> HIDE DEF CpuView
    <3> QED BY <2>2 DEF GuestRegs
  <2> QED BY <2>3, RegAssumption
<1> QED BY <1>1, TfInvariant, PTL

(* The trap and switch path gives every guest a private processor. *)
THEOREM PrivateCpuRefinement == TfSpec => ImplementsPrivateCpu
<1> USE SchedAssumption
<1>1. TfInit => PC!Init
  <2> SUFFICES ASSUME TfInit PROVE PC!Init
    OBVIOUS
  <2>1. current_trapframe = NULL /\ pc = "register" /\ tf \in [Vcpus -> GuestRegs]
    BY DEF TfInit, RunInit
  <2>2. CpuView \in [Vcpus -> GuestRegs]
    BY <2>1 DEF CpuView
  <2> QED BY <2>1, <2>2 DEF PC!Init, PC!Cpus, GuestRegs, Addrs
<1>2. TfInv /\ [TfNext]_tfVars => [PC!Next]_PC!vars
  <2> SUFFICES ASSUME TfInv, [TfNext]_tfVars PROVE PC!Next \/ UNCHANGED PC!vars
    OBVIOUS
  <2>1. /\ tf \in [Vcpus -> GuestRegs]
        /\ pc # "guest" => current_trapframe = NULL
        /\ pc = "guest" => /\ hw \in GuestRegs /\ current_trapframe = sched_current
                           /\ sched_current \in Vcpus
    BY DEF TfInv, TfTypeOK, RunInv, LatchTracksGuest, RunTypeOK, SchedTypeOK
  <2>2. CASE UNCHANGED <<current_trapframe, hw, tf>> /\ (pc = "halt" <=> pc' = "halt")
    BY <2>2 DEF PC!vars, CpuView
  <2>3. CASE TfBoot \/ TfYieldReturn \/ TfHalted
    <3>1. UNCHANGED <<current_trapframe, hw, tf>> /\ (pc = "halt" <=> pc' = "halt")
      BY <2>3 DEF TfBoot, TfYieldReturn, TfHalted, BootRegister, BootSetCurrent, VcpuRunStart,
                  YieldReturn, Halted, ctlVars, runVars
    <3> QED BY <2>2, <3>1
  <2>4. CASE TfLoopEnter \/ TfLoopCheckYield
    <3>1. CASE pc' = "loop"
      <4>1. UNCHANGED <<current_trapframe, hw, tf>> /\ (pc = "halt" <=> pc' = "halt")
        BY <2>4, <3>1, EntryLoadsFrame
      <4> QED BY <2>2, <4>1
    <3>2. CASE pc' = "guest"
      <4>1. /\ tf' = tf /\ current_trapframe = NULL /\ pc # "halt"
            /\ current_trapframe' \in Vcpus /\ hw' = tf[current_trapframe']
        BY <2>4, <3>2, EntryLoadsFrame
      <4>2. CpuView' = CpuView
        BY <4>1 DEF CpuView
      <4>3. PC!Resume(current_trapframe')
        BY <3>2, <4>1, <4>2 DEF PC!Resume
      <4> QED BY <4>1, <4>3 DEF PC!Next
    <3> QED BY <2>4, <3>1, <3>2, EntryLoadsFrame
  <2>5. CASE TfGuestTrap
    <3>1. /\ pc = "guest" /\ current_trapframe' = NULL
          /\ current_trapframe = sched_current /\ sched_current \in Vcpus
      BY <2>5, TrapRetiresOne
    <3>2. PICK a : TrapLeaves(a)
      BY <2>5, TrapRetiresOne
    <3>3. CpuView[sched_current] = hw
      BY <3>1 DEF CpuView
    <3>4. CpuView' = [CpuView EXCEPT ![sched_current] = Left(a)]
      BY <2>1, <3>1, <3>2 DEF CpuView, TrapLeaves
    <3>5. Left(a) = [hw EXCEPT !.elr = a]
      BY <2>1, <3>1 DEF GuestRegs, Left
    <3>6. CpuView' = [CpuView EXCEPT ![sched_current].elr = a]
      <4> HIDE DEF CpuView
      <4> QED BY <3>3, <3>4, <3>5
    <3>7. CASE pc' = "returned"
      <4>1. a = PC!Next4(CpuView[sched_current].elr)
        BY <3>2, <3>3, <3>7, Zenon DEF TrapLeaves, PC!Next4, Next4
      <4>2. PC!Trap(sched_current)
        BY <3>1, <3>6, <3>7, <4>1 DEF PC!Trap
      <4> QED BY <3>1, <4>2 DEF PC!Next
    <3>8. CASE pc' = "halt"
      <4>1. a \in {CpuView[sched_current].elr, PC!Next4(CpuView[sched_current].elr)}
        BY <3>2, <3>3, Zenon DEF TrapLeaves, PC!Next4, Next4
      <4>2. PC!Crash(sched_current)
        BY <3>1, <3>6, <3>8, <4>1 DEF PC!Crash
      <4> QED BY <3>1, <4>2 DEF PC!Next
    <3> QED BY <3>2, <3>7, <3>8 DEF TrapLeaves
  <2>6. CASE GuestStep
    <3>1. /\ pc = "guest" /\ UNCHANGED <<current_trapframe, pc, tf>>
          /\ hw' \in GuestRegs /\ hw'.elr = Next4(hw.elr)
      BY <2>6, GuestStepKeepsRegs DEF GuestStep, ctlVars, runVars
    <3>2. /\ CpuView[sched_current] = hw
          /\ CpuView' = [CpuView EXCEPT ![sched_current] = hw']
      BY <2>1, <3>1 DEF CpuView
    <3>3. hw' \in PC!Cpus /\ hw'.elr = PC!Next4(CpuView[sched_current].elr)
      BY <3>1, <3>2 DEF PC!Cpus, PC!Next4, Next4, GuestRegs, Addrs
    <3>4. PC!Execute(sched_current)
      BY <2>1, <3>1, <3>2, <3>3 DEF PC!Execute
    <3> QED BY <2>1, <3>1, <3>4 DEF PC!Next
  <2>7. CASE UNCHANGED tfVars
    BY <2>2, <2>7 DEF tfVars, ctlVars, runVars
  <2> QED BY <2>3, <2>4, <2>5, <2>6, <2>7 DEF TfNext, TfEl2Step
<1> QED BY <1>1, <1>2, TfInvariant, PTL DEF TfSpec, ImplementsPrivateCpu, PC!Spec

(* Registers, trapframes and the latch keep their types for every pool and *)
(* every register width: the capture and the guest entry move whole,       *)
(* well-formed register files.                                             *)
THEOREM TfTypeCorrect == TfSpec => []TfTypeOK
BY TfInvariant, PTL DEF TfInv
=============================================================================
