----------------------------- MODULE SchedProofs -----------------------------
(***************************************************************************)
(* The run queue is correct for every set of vCPUs, every capacity and     *)
(* every sequence of scheduler calls.                                      *)
(***************************************************************************)
EXTENDS Sched, TLAPS

(* The inductive invariant: the three parts need one another.  A register *)
(* keeps the queue free of duplicates because sched_find_slot sees every  *)
(* filled slot, and CurrentIsQueued needs sched_len = 0 before the first. *)
SchedInv == SchedTypeOK /\ QueueWellFormed /\ CurrentIsQueued

-----------------------------------------------------------------------------
(* sched_find_slot returns -1 exactly when no filled slot holds the vCPU,  *)
(* and otherwise a filled slot that holds it.                              *)
LEMMA FindSlot ==
  ASSUME NEW vcpu
  PROVE  \/ /\ sched_find_slot(vcpu) = -1
            /\ \A i \in Filled : sched_runqueue[i] # vcpu
         \/ /\ sched_find_slot(vcpu) \in Filled
            /\ sched_runqueue[sched_find_slot(vcpu)] = vcpu
BY DEF sched_find_slot

(* The successor slot of a queued current vCPU is a filled slot, and it is *)
(* another slot as soon as two are filled.                                 *)
LEMMA NextSlotFilled ==
  ASSUME NEW len \in Nat \ {0}, NEW idx \in 0 .. len - 1
  PROVE  /\ (idx + 1) % len \in 0 .. len - 1
         /\ len >= 2 => (idx + 1) % len # idx
<1>1. CASE idx + 1 = len
  <2>1. (idx + 1) % len = 0
    BY <1>1
  <2> QED BY <1>1, <2>1
<1>2. CASE idx + 1 < len
  <2>1. (idx + 1) % len = idx + 1
    BY <1>2
  <2> QED BY <1>2, <2>1
<1> QED BY <1>1, <1>2

(* vcpu_scheduler_register keeps the queue correct. *)
LEMMA RegisterKeepsInv ==
  ASSUME SchedInv, NEW vcpu \in Vcpus \cup {NULL}, vcpu_scheduler_register(vcpu)
  PROVE  SchedInv'
<1> USE SchedAssumption DEF SchedInv, SchedTypeOK, Slots, Filled
<1>1. CASE UNCHANGED schedVars
  BY <1>1 DEF QueueWellFormed, CurrentIsQueued, schedVars
<1>2. CASE ~RegisterRejects(vcpu)
  <2>1. /\ vcpu \in Vcpus
        /\ sched_len \in Slots
        /\ \A i \in Filled : sched_runqueue[i] # vcpu
    BY <1>2, FindSlot DEF RegisterRejects
  <2>2. /\ sched_runqueue' = [sched_runqueue EXCEPT ![sched_len] = vcpu]
        /\ sched_len' = sched_len + 1
        /\ sched_current' = IF sched_current = NULL THEN vcpu ELSE sched_current
        /\ sched_idx' = IF sched_current = NULL THEN sched_len ELSE sched_idx
    BY <1>2 DEF vcpu_scheduler_register, Enqueue
  <2>3. SchedTypeOK'
    BY <2>1, <2>2
  <2>4. QueueWellFormed'
    BY <2>1, <2>2 DEF QueueWellFormed
  <2>5. CurrentIsQueued'
    BY <2>1, <2>2 DEF CurrentIsQueued
  <2> QED BY <2>3, <2>4, <2>5
<1> QED BY <1>1, <1>2 DEF vcpu_scheduler_register

(* vcpu_scheduler_set_current keeps the queue correct. *)
LEMMA SetCurrentKeepsInv ==
  ASSUME SchedInv, NEW vcpu \in Vcpus \cup {NULL}, vcpu_scheduler_set_current(vcpu)
  PROVE  SchedInv'
<1> USE SchedAssumption DEF SchedInv, SchedTypeOK, Slots, Filled
<1> DEFINE found == sched_find_slot(vcpu)
<1>1. CASE UNCHANGED schedVars
  BY <1>1 DEF QueueWellFormed, CurrentIsQueued, schedVars
<1>2. CASE ~(vcpu = NULL \/ (found < 0 /\ sched_len >= VCPU_SCHED_MAX))
  <2>1. vcpu \in Vcpus /\ sched_current' = vcpu
    BY <1>2 DEF vcpu_scheduler_set_current
  <2>2. CASE found < 0
    <3>1. sched_len \in Slots /\ \A i \in Filled : sched_runqueue[i] # vcpu
      BY <1>2, <2>2, FindSlot
    <3>2. /\ sched_runqueue' = [sched_runqueue EXCEPT ![sched_len] = vcpu]
          /\ sched_len' = sched_len + 1
          /\ sched_idx' = sched_len
      BY <1>2, <2>2 DEF vcpu_scheduler_set_current, Enqueue
    <3>3. SchedTypeOK'
      BY <2>1, <3>1, <3>2
    <3>4. QueueWellFormed'
      BY <2>1, <3>1, <3>2 DEF QueueWellFormed
    <3>5. CurrentIsQueued'
      BY <2>1, <3>1, <3>2 DEF CurrentIsQueued
    <3> QED BY <3>3, <3>4, <3>5
  <2>3. CASE ~(found < 0)
    <3>1. found \in Filled /\ sched_runqueue[found] = vcpu
      BY <2>3, FindSlot
    <3>2. UNCHANGED <<sched_runqueue, sched_len>> /\ sched_idx' = found
      BY <1>2, <2>3 DEF vcpu_scheduler_set_current
    <3>3. SchedTypeOK'
      BY <2>1, <3>1, <3>2
    <3>4. QueueWellFormed'
      BY <3>2 DEF QueueWellFormed
    <3>5. CurrentIsQueued'
      BY <2>1, <3>1, <3>2 DEF CurrentIsQueued
    <3> QED BY <3>3, <3>4, <3>5
  <2> QED BY <2>2, <2>3
<1> QED BY <1>1, <1>2 DEF vcpu_scheduler_set_current

(* With two vCPUs queued a yield switches, and to the next slot. *)
LEMMA YieldTargetIsNext ==
  ASSUME SchedInv
  PROVE  /\ sched_len >= 2 => /\ YieldTarget = sched_runqueue[NextSlot]
                              /\ YieldTarget \in Vcpus
                              /\ YieldTarget # sched_current
         /\ YieldTarget # NULL => sched_len >= 2 /\ NextSlot \in Filled
<1> USE SchedAssumption DEF SchedInv, SchedTypeOK, Slots, Filled
<1>1. CASE sched_len < 2
  BY <1>1 DEF YieldTarget
<1>2. CASE sched_len >= 2
  <2>1. sched_current # NULL /\ sched_idx \in Filled /\ sched_runqueue[sched_idx] = sched_current
    BY <1>2 DEF CurrentIsQueued
  <2>2. NextSlot \in Filled /\ NextSlot # sched_idx
    <3>1. sched_len \in Nat \ {0} /\ sched_idx \in 0 .. sched_len - 1
      BY <1>2, <2>1
    <3>2. /\ (sched_idx + 1) % sched_len \in 0 .. sched_len - 1
          /\ sched_len >= 2 => (sched_idx + 1) % sched_len # sched_idx
      BY <3>1, NextSlotFilled, Zenon
    <3> QED BY <1>2, <3>2 DEF NextSlot
  <2>3. sched_runqueue[NextSlot] # NULL /\ sched_runqueue[NextSlot] # sched_current
    BY <2>1, <2>2 DEF QueueWellFormed
  <2> QED BY <1>2, <2>1, <2>2, <2>3 DEF YieldTarget
<1> QED BY <1>1, <1>2

(* vcpu_scheduler_yield keeps the queue correct. *)
LEMMA YieldKeepsInv ==
  ASSUME SchedInv, vcpu_scheduler_yield
  PROVE  SchedInv'
<1>1. CASE YieldTarget = NULL
  BY <1>1 DEF vcpu_scheduler_yield, schedVars, SchedInv, SchedTypeOK,
              QueueWellFormed, CurrentIsQueued, Filled
<1>2. CASE YieldTarget # NULL
  <2>1. /\ NextSlot \in Filled
        /\ YieldTarget = sched_runqueue[NextSlot]
        /\ YieldTarget \in Vcpus
    BY <1>2, YieldTargetIsNext
  <2>2. /\ sched_current' = YieldTarget
        /\ sched_idx' = NextSlot
        /\ UNCHANGED <<sched_runqueue, sched_len>>
    BY <1>2 DEF vcpu_scheduler_yield
  <2> QED
    BY <1>2, <2>1, <2>2, SchedAssumption
       DEF SchedInv, SchedTypeOK, QueueWellFormed, CurrentIsQueued, Filled, Slots
<1> QED BY <1>1, <1>2

-----------------------------------------------------------------------------
(* Every state the scheduler calls can reach satisfies the inductive       *)
(* invariant.                                                              *)
THEOREM SchedInvariant == SchedSpec => []SchedInv
<1>1. SchedInit => SchedInv
  BY SchedAssumption DEF SchedInit, SchedInv, SchedTypeOK, QueueWellFormed,
                         CurrentIsQueued, Slots, Filled
<1>2. SchedInv /\ [SchedNext]_schedVars => SchedInv'
  <2> SUFFICES ASSUME SchedInv, [SchedNext]_schedVars PROVE SchedInv'
    OBVIOUS
  <2>1. CASE UNCHANGED schedVars
    BY <2>1 DEF schedVars, SchedInv, SchedTypeOK, QueueWellFormed, CurrentIsQueued, Filled
  <2>2. ASSUME NEW v \in Vcpus \cup {NULL}, vcpu_scheduler_register(v) PROVE SchedInv'
    BY <2>2, RegisterKeepsInv
  <2>3. ASSUME NEW v \in Vcpus \cup {NULL}, vcpu_scheduler_set_current(v) PROVE SchedInv'
    BY <2>3, SetCurrentKeepsInv
  <2>4. CASE vcpu_scheduler_yield
    BY <2>4, YieldKeepsInv
  <2> QED BY <2>1, <2>2, <2>3, <2>4 DEF SchedNext
<1> QED BY <1>1, <1>2, PTL DEF SchedSpec

(* No call writes or reads outside sched_runqueue: length and slot stay in *)
(* range whatever is registered or made current, at a full queue too.      *)
THEOREM SchedTypeCorrect == SchedSpec => []SchedTypeOK
BY SchedInvariant, PTL DEF SchedInv

(* No vCPU is ever queued twice and the filled slots have no gap. *)
THEOREM QueueAlwaysWellFormed == SchedSpec => []QueueWellFormed
BY SchedInvariant, PTL DEF SchedInv

(* sched_idx and sched_current never part. *)
THEOREM CurrentAlwaysQueued == SchedSpec => []CurrentIsQueued
BY SchedInvariant, PTL DEF SchedInv

(* After any sequence of scheduler calls, as soon as two vCPUs are queued  *)
(* vcpu_scheduler_yield finds a vCPU other than the current one: its       *)
(* `target == sched_current` exit is dead code then.                       *)
THEOREM YieldAlwaysFindsAnother == SchedSpec => []YieldFindsAnother
<1>1. SchedInv => YieldFindsAnother
  BY YieldTargetIsNext, SchedAssumption DEF YieldFindsAnother
<1> QED BY <1>1, SchedInvariant, PTL

(* No scheduler call moves or drops a queued vCPU, so the round-robin order *)
(* is fixed at registration.                                                *)
THEOREM QueueNeverReordered == SchedSpec => QueueOnlyGrows
<1> DEFINE Grows == /\ sched_len <= sched_len'
                    /\ \A i \in Filled : sched_runqueue'[i] = sched_runqueue[i]
<1>1. SchedInv /\ [SchedNext]_schedVars => [Grows]_schedVars
  <2> SUFFICES ASSUME SchedInv, SchedNext PROVE Grows \/ UNCHANGED schedVars
    OBVIOUS
  <2>1. ASSUME NEW v, Enqueue(v) PROVE Grows
    BY <2>1, SchedAssumption DEF Enqueue, SchedInv, SchedTypeOK, Slots, Filled
  <2>2. ASSUME UNCHANGED <<sched_runqueue, sched_len>> PROVE Grows
    BY <2>2 DEF SchedInv, SchedTypeOK
  <2>3. ASSUME NEW v, vcpu_scheduler_register(v) PROVE Grows \/ UNCHANGED schedVars
    BY <2>1, <2>3, Zenon DEF vcpu_scheduler_register
  <2>4. ASSUME NEW v, vcpu_scheduler_set_current(v) PROVE Grows \/ UNCHANGED schedVars
    <3>1. UNCHANGED schedVars \/ Enqueue(v) \/ UNCHANGED <<sched_runqueue, sched_len>>
      BY <2>4, Zenon DEF vcpu_scheduler_set_current
    <3> QED BY <2>1, <2>2, <3>1, Zenon
  <2>5. CASE vcpu_scheduler_yield
    BY <2>2, <2>5, Zenon DEF vcpu_scheduler_yield
  <2> QED BY <2>3, <2>4, <2>5, Zenon DEF SchedNext
<1> QED BY <1>1, SchedInvariant, PTL DEF SchedSpec, QueueOnlyGrows
=============================================================================
