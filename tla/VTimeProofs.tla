----------------------------- MODULE VTimeProofs -----------------------------
(***************************************************************************)
(* Virtual time for every count width and every pool size: the two copies  *)
(* of the offset agree whenever a guest or a handler runs, and no vCPU's   *)
(* timer setting ever drifts.                                              *)
(***************************************************************************)
EXTENDS VTime, VcpuRunProofs

(* The inductive invariant: the compare value survives the way to physical *)
(* counts and back only if both directions use the same offset.            *)
VtInv ==
  /\ RunInv
  /\ NoFrameYet
  /\ VtTypeOK
  /\ CachedOffsetFresh

-----------------------------------------------------------------------------
(* The arithmetic of counts that wrap: sums and differences of any two     *)
(* integers are counts, and each undoes the other.                         *)
LEMMA CountArithmetic ==
  /\ \A a, b \in Int : Plus(a, b) \in Counts /\ Minus(a, b) \in Counts
  /\ \A a, b \in Counts : Plus(Minus(a, b), b) = a /\ Minus(Plus(a, b), b) = a
  /\ Counts \subseteq Int /\ 0 \in Counts
<1>1. M \in Nat \ {0}
  BY PowerPositive DEF M
<1> QED BY <1>1 DEF Plus, Minus, Counts

(* The virtual count that a guest or handler reads is a count. *)
LEMMA VirtualCounterIsCount ==
  ASSUME VtTypeOK
  PROVE  virtual_counter_now \in Counts
BY CountArithmetic DEF virtual_counter_now, VtTypeOK

(* Virtual time never steers the run loop. *)
LEMMA VtStepRuns ==
  ASSUME [VtNext]_vtVars
  PROVE  [RunNext]_ctlVars
BY DEF VtNext, Tick, VtLoopEnter, VtLoopCheckYield, VtOther, VtTrapOther,
       handle_guest_time_override, RunNext, El2Step, GuestTrap, vtVars

(* What the vector captures is the timer as the running guest saw it. *)
LEMMA CapturedFacts ==
  ASSUME VtInv, GuestTrap
  PROVE  /\ pc = "guest" /\ sched_current \in Vcpus /\ host_saved_area # "none"
         /\ current_trapframe' = NULL /\ UNCHANGED <<sched_current, host_saved_area>>
         /\ Captured \in [Vcpus -> Timers]
         /\ \A v \in Vcpus : TimerSetting(v) = Captured[v]
<1>1. /\ pc = "guest" /\ current_trapframe' = NULL
      /\ current_trapframe = sched_current /\ sched_current \in Vcpus
      /\ host_saved_area # "none"
      /\ UNCHANGED <<sched_current, host_saved_area>>
  BY TrapFacts DEF VtInv
<1> DEFINE t == [ctl |-> CNTP_CTL, cval |-> Plus(CNTP_CVAL, CNTVOFF)]
<1>2. t \in Timers
  BY CountArithmetic DEF VtInv, VtTypeOK, Timers
<1>3. Captured = [tf_timer EXCEPT ![sched_current] = t]
  BY <1>1, SchedAssumption DEF Captured
<1>4. \A v \in Vcpus : TimerSetting(v) = IF sched_current = v THEN t ELSE tf_timer[v]
  BY <1>1 DEF TimerSetting
<1> HIDE DEF t
<1> QED BY <1>1, <1>2, <1>3, <1>4 DEF VtInv, VtTypeOK

(* With the latch clear, every vCPU's timer is in its frame. *)
LEMMA ViewOfFrames ==
  ASSUME NEW v \in Vcpus
  PROVE  /\ current_trapframe = NULL => TimerSetting(v) = tf_timer[v]
         /\ current_trapframe' = NULL => TimerSetting(v)' = tf_timer'[v]
BY SchedAssumption DEF TimerSetting

(* An entry: the incoming vCPU's offset is programmed and cached, and its  *)
(* compare value means the same count as before.                           *)
LEMMA SwitchTimeFacts ==
  ASSUME VtInv, NEW from \in Vcpus \cup {NULL}, NEW to \in Vcpus,
         SwitchTime(from, to), CNTPCT' = CNTPCT,
         current_trapframe = NULL, current_trapframe' = to
  PROVE  /\ {CNTPCT', CNTVOFF', CNTP_CVAL'} \subseteq Counts /\ CNTP_CTL' \in Ctls
         /\ cntvct_el0' \in [Vcpus -> Counts] /\ cntvoff_el2' \in [Vcpus -> Counts]
         /\ tf_timer' \in [Vcpus -> Timers]
         /\ cntvoff_el2'[to] = CNTVOFF'
         /\ \A v \in Vcpus : TimerSetting(v)' = TimerSetting(v)
<1> DEFINE vct == IF from = NULL THEN cntvct_el0
                  ELSE [cntvct_el0 EXCEPT ![from] = virtual_counter_now]
           offset == Minus(vct[to], CNTPCT)
<1> USE DEF VtInv, VtTypeOK
<1>1. vct \in [Vcpus -> Counts]
  BY VirtualCounterIsCount
<1>2. /\ cntvct_el0' = vct
      /\ cntvoff_el2' = [cntvoff_el2 EXCEPT ![to] = offset]
      /\ CNTVOFF' = offset
      /\ CNTP_CVAL' = Minus(tf_timer[to].cval, offset)
      /\ CNTP_CTL' = tf_timer[to].ctl
      /\ tf_timer' = tf_timer
  BY DEF SwitchTime
<1> HIDE DEF vct
<1>3. offset \in Counts
  BY <1>1, CountArithmetic
<1> HIDE DEF offset
<1>4. tf_timer[to] \in Timers
  OBVIOUS
<1>5. tf_timer[to].cval \in Counts /\ tf_timer[to].ctl \in Ctls
  BY <1>4 DEF Timers
<1>6. CNTP_CVAL' \in Counts /\ Plus(CNTP_CVAL', CNTVOFF') = tf_timer[to].cval
  BY <1>2, <1>3, <1>5, CountArithmetic
<1>7. TimerSetting(to)' = [ctl |-> CNTP_CTL', cval |-> Plus(CNTP_CVAL', CNTVOFF')]
  BY DEF TimerSetting
<1>8. TimerSetting(to)' = tf_timer[to]
  BY <1>2, <1>4, <1>6, <1>7 DEF Timers
<1>9. ASSUME NEW v \in Vcpus PROVE TimerSetting(v)' = TimerSetting(v)
  <2>1. TimerSetting(v) = tf_timer[v]
    BY ViewOfFrames
  <2>2. CASE v = to
    BY <1>8, <2>1, <2>2
  <2>3. CASE v # to
    BY <1>2, <2>1, <2>3 DEF TimerSetting
  <2> QED BY <2>2, <2>3
<1> QED BY <1>1, <1>2, <1>3, <1>5, <1>6, <1>9

(* Every step keeps the inductive invariant and every timer setting.       *)
LEMMA VtStep ==
  ASSUME VtInv, [VtNext]_vtVars
  PROVE  /\ VtInv'
         /\ \A v \in Vcpus : TimerSetting(v)' = TimerSetting(v)
<1>1. RunInv' /\ NoFrameYet'
  BY VtStepRuns, RunInvStep, NoFrameYetStep DEF VtInv
<1> DEFINE Typed ==
      /\ {CNTPCT, CNTVOFF, CNTP_CVAL} \subseteq Counts /\ CNTP_CTL \in Ctls
      /\ cntvct_el0 \in [Vcpus -> Counts]
      /\ cntvoff_el2 \in [Vcpus -> Counts]
      /\ tf_timer \in [Vcpus -> Timers]
<1>2. Typed /\ CachedOffsetFresh
  BY DEF VtInv, VtTypeOK
<1>3. SUFFICES /\ Typed' /\ CachedOffsetFresh'
               /\ \A v \in Vcpus : TimerSetting(v)' = TimerSetting(v)
  BY <1>1 DEF VtInv, VtTypeOK, RunInv
<1>4. CASE Tick \/ VtOther \/ UNCHANGED vtVars
  <2>1. /\ UNCHANGED <<hwTime, vcpuTime, current_trapframe, host_saved_area>>
        /\ host_saved_area # "none" => UNCHANGED sched_current
        /\ CNTPCT' \in Counts
    <3>1. CASE Tick
      <4>0. CNTPCT \in Counts
        BY <1>2
      <4>1. 1 \in Int /\ CNTPCT \in Int
        BY <4>0, CountArithmetic
      <4>2. CNTPCT' \in Counts
        BY <3>1, <4>1, CountArithmetic DEF Tick
      <4> QED BY <3>1, <4>2 DEF Tick, ctlVars, schedVars, runVars
    <3>2. CASE VtOther
      BY <1>2, <3>2, QuietFacts DEF VtOther, VtInv
    <3>3. CASE UNCHANGED vtVars
      BY <1>2, <3>3 DEF vtVars, ctlVars, schedVars, runVars
    <3> QED BY <1>4, <3>1, <3>2, <3>3
  <2>2. UNCHANGED <<CNTVOFF, CNTP_CVAL, CNTP_CTL, cntvct_el0, cntvoff_el2, tf_timer>>
    BY <2>1 DEF hwTime, vcpuTime
  <2>3. Typed' /\ CachedOffsetFresh'
    BY <1>2, <2>1, <2>2 DEF CachedOffsetFresh
  <2>4. \A v \in Vcpus : TimerSetting(v)' = TimerSetting(v)
    BY <2>1, <2>2 DEF TimerSetting
  <2> QED BY <2>3, <2>4
<1>5. CASE VtLoopEnter
  <2>1. /\ sched_current \in Vcpus /\ UNCHANGED sched_current
        /\ pc' = "guest" /\ current_trapframe' = sched_current /\ current_trapframe = NULL
    BY <1>5, LoopEnterFacts DEF VtLoopEnter, VtInv
  <2>2. SwitchTime(NULL, sched_current) /\ CNTPCT' = CNTPCT
    BY <1>5, <2>1 DEF VtLoopEnter
  <2> QED BY <2>1, <2>2, SwitchTimeFacts DEF CachedOffsetFresh
<1>6. CASE VtLoopCheckYield
  <2>1. /\ sched_current \in Vcpus /\ current_trapframe = NULL
        /\ \/ /\ pc' # "guest"
              /\ UNCHANGED <<sched_current, host_saved_area, current_trapframe>>
           \/ /\ pc' = "guest"
              /\ sched_current' \in Vcpus /\ current_trapframe' = sched_current'
    BY <1>6, LoopCheckYieldFacts DEF VtLoopCheckYield, VtInv
  <2>2. CASE pc' = "guest"
    <3>1. SwitchTime(sched_current, sched_current') /\ CNTPCT' = CNTPCT
      BY <1>6, <2>2 DEF VtLoopCheckYield
    <3>2. sched_current' \in Vcpus /\ current_trapframe' = sched_current'
      BY <2>1, <2>2
    <3> QED BY <2>1, <3>1, <3>2, SwitchTimeFacts DEF CachedOffsetFresh
  <2>3. CASE pc' # "guest"
    BY <1>2, <1>6, <2>1, <2>3 DEF VtLoopCheckYield, CachedOffsetFresh, TimerSetting, hwTime, vcpuTime
  <2> QED BY <2>2, <2>3
<1>7. ASSUME GuestTrap
      PROVE  /\ sched_current \in Vcpus /\ host_saved_area # "none"
             /\ UNCHANGED <<sched_current, host_saved_area>>
             /\ Captured \in [Vcpus -> Timers]
             /\ \A v \in Vcpus : TimerSetting(v) = Captured[v] /\ TimerSetting(v)' = tf_timer'[v]
             /\ Captured[sched_current].cval = Plus(CNTP_CVAL, CNTVOFF)
             /\ cntvoff_el2[sched_current] = CNTVOFF /\ CNTVOFF \in Counts
  <2>1. /\ sched_current \in Vcpus /\ host_saved_area # "none"
        /\ current_trapframe' = NULL /\ UNCHANGED <<sched_current, host_saved_area>>
        /\ Captured \in [Vcpus -> Timers]
        /\ \A v \in Vcpus : TimerSetting(v) = Captured[v]
    BY <1>7, CapturedFacts
  <2>2. current_trapframe = sched_current
    BY <1>7, TrapFacts DEF VtInv
  <2>3. TimerSetting(sched_current).cval = Plus(CNTP_CVAL, CNTVOFF)
    BY <2>2 DEF TimerSetting
  <2> QED BY <1>2, <2>1, <2>3, ViewOfFrames DEF CachedOffsetFresh
<1>8. CASE VtTrapOther
  <2>1. GuestTrap /\ tf_timer' = Captured /\ UNCHANGED <<CNTPCT, hwTime, cntvct_el0, cntvoff_el2>>
    BY <1>8 DEF VtTrapOther, GuestTrap
  <2> QED BY <1>2, <1>7, <2>1 DEF CachedOffsetFresh, hwTime
<1>9. ASSUME NEW d \in Counts, handle_guest_time_override(d)
      PROVE  /\ Typed' /\ CachedOffsetFresh'
             /\ \A v \in Vcpus : TimerSetting(v)' = TimerSetting(v)
  <2> DEFINE offset == Minus(d, CNTPCT)
  <2>1. offset \in Counts
    BY <1>2, CountArithmetic
  <2>2. /\ GuestTrap /\ tf_timer' = Captured /\ UNCHANGED CNTPCT
        /\ cntvct_el0' = [cntvct_el0 EXCEPT ![sched_current] = d]
        /\ cntvoff_el2' = [cntvoff_el2 EXCEPT ![sched_current] = offset]
        /\ CNTVOFF' = offset
        /\ CNTP_CVAL' = Minus(Captured[sched_current].cval, offset)
        /\ CNTP_CTL' = Captured[sched_current].ctl
    BY <1>9 DEF handle_guest_time_override, GuestTrap
  <2> HIDE DEF offset
  <2>3. Captured[sched_current].cval \in Counts /\ Captured[sched_current].ctl \in Ctls
    <3>1. Captured[sched_current] \in Timers
      BY <1>7, <2>2
    <3> QED BY <3>1 DEF Timers
  <2>4. CNTP_CVAL' \in Counts
    BY <2>1, <2>2, <2>3, CountArithmetic
  <2>5. Typed'
    BY <1>2, <1>7, <2>1, <2>2, <2>3, <2>4
  <2> QED BY <1>2, <1>7, <2>1, <2>2, <2>5 DEF CachedOffsetFresh
<1> QED BY <1>4, <1>5, <1>6, <1>8, <1>9 DEF VtNext

(* The inductive invariant holds from the launch on. *)
THEOREM VtInvariant == VtSpec => []VtInv
<1>1. VtInit => VtInv
  <2> SUFFICES ASSUME VtInit PROVE VtInv
    OBVIOUS
  <2>1. RunInv /\ NoFrameYet /\ CachedOffsetFresh
    BY RunInvInit DEF VtInit, RunInit, NoFrameYet, CachedOffsetFresh
  <2>2. Plus(CNTP_CVAL, 0) \in Counts
    BY CountArithmetic DEF VtInit
  <2>3. [ctl |-> CNTP_CTL, cval |-> Plus(CNTP_CVAL, 0)] \in Timers
    BY <2>2 DEF VtInit, Timers
  <2>4. tf_timer \in [Vcpus -> Timers]
    BY <2>3 DEF VtInit
  <2> QED BY <2>1, <2>4, CountArithmetic DEF VtInit, VtInv, VtTypeOK, RunInv
<1>2. VtInv /\ [VtNext]_vtVars => VtInv'
  BY VtStep
<1> QED BY <1>1, <1>2, PTL DEF VtSpec

(* The offset cached in the current vCPU is the one in the register, from  *)
(* the first guest entry on.                                               *)
THEOREM CachedOffsetAlwaysFresh == VtSpec => []CachedOffsetFresh
BY VtInvariant, PTL DEF VtInv

(* No vCPU's timer setting ever drifts, for every width and every pool. *)
THEOREM TimerSettingsKept == VtSpec => TimerSettingKept
<1>1. VtInv /\ [VtNext]_vtVars => [\A v \in Vcpus : TimerSetting(v)' = TimerSetting(v)]_vtVars
  BY VtStep
<1> QED BY <1>1, VtInvariant, PTL DEF VtSpec, TimerSettingKept
=============================================================================
