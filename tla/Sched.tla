-------------------------------- MODULE Sched --------------------------------
(***************************************************************************)
(* The run queue of core/vcpu.c: a fixed array of vCPU pointers, its fill  *)
(* count, and the slot and pointer of the current vCPU.  One operator per  *)
(* function of the file, each usable as an action by the modules that call *)
(* the scheduler.  A slot number is the C index, counted from 0.           *)
(***************************************************************************)
EXTENDS Integers

CONSTANTS
  Vcpus,            \* the vcpu_t objects
  NULL,             \* the C null pointer
  VCPU_SCHED_MAX    \* capacity of sched_runqueue (8 in the source)

ASSUME SchedAssumption ==
  /\ NULL \notin Vcpus
  /\ VCPU_SCHED_MAX \in Nat \ {0}

VARIABLES
  sched_runqueue,   \* slot -> vCPU pointer
  sched_len,        \* number of filled slots
  sched_idx,        \* slot of the current vCPU
  sched_current     \* the current vCPU, or NULL before the first one

schedVars == <<sched_runqueue, sched_len, sched_idx, sched_current>>

Slots == 0 .. VCPU_SCHED_MAX - 1
Filled == 0 .. sched_len - 1

(* Static storage: all zero when the hypervisor starts. *)
SchedInit ==
  /\ sched_runqueue = [i \in Slots |-> NULL]
  /\ sched_len = 0
  /\ sched_idx = 0
  /\ sched_current = NULL

-----------------------------------------------------------------------------
(* The filled slot that holds vcpu, or -1.  The C loop returns the first   *)
(* such slot; QueueWellFormed says there is never a second.                *)
sched_find_slot(vcpu) ==
  IF \E i \in Filled : sched_runqueue[i] = vcpu
  THEN CHOOSE i \in Filled : sched_runqueue[i] = vcpu
  ELSE -1

(* Fault: the current vCPU's slot is overwritten. *)
EnqueueOverCurrent(vcpu) ==
  /\ sched_runqueue' = [sched_runqueue EXCEPT ![sched_idx] = vcpu]
  /\ sched_len' = sched_len + 1

(* The vCPU goes to the first free slot. *)
Enqueue(vcpu) ==
  /\ sched_runqueue' = [sched_runqueue EXCEPT ![sched_len] = vcpu]
  /\ sched_len' = sched_len + 1

(* Faults: the capacity test is off by one; the duplicate test is missing. *)
RegisterRejectsLate(vcpu) ==
  vcpu = NULL \/ sched_len > VCPU_SCHED_MAX \/ sched_find_slot(vcpu) >= 0
RegisterAcceptsTwice(vcpu) == vcpu = NULL \/ sched_len >= VCPU_SCHED_MAX

(* NULL, a full queue and a queued vCPU are ignored without a report. *)
RegisterRejects(vcpu) ==
  vcpu = NULL \/ sched_len >= VCPU_SCHED_MAX \/ sched_find_slot(vcpu) >= 0

(* Enqueue a vCPU that is not queued yet; the first one becomes current. *)
vcpu_scheduler_register(vcpu) ==
  IF RegisterRejects(vcpu)
  THEN UNCHANGED schedVars
  ELSE /\ Enqueue(vcpu)
       /\ sched_current' = IF sched_current = NULL THEN vcpu ELSE sched_current
       /\ sched_idx' = IF sched_current = NULL THEN sched_len ELSE sched_idx

(* Fault: only an appended vCPU updates the slot. *)
SetCurrentKeepsSlot(vcpu) ==
  LET found == sched_find_slot(vcpu)
  IN IF vcpu = NULL \/ (found < 0 /\ sched_len >= VCPU_SCHED_MAX)
     THEN UNCHANGED schedVars
     ELSE /\ IF found < 0
             THEN Enqueue(vcpu) /\ sched_idx' = sched_len
             ELSE UNCHANGED <<sched_runqueue, sched_len, sched_idx>>
          /\ sched_current' = vcpu

(* Make a vCPU current, appending it first if it is not queued.  When it  *)
(* is not queued and the queue is full the call has no effect.            *)
vcpu_scheduler_set_current(vcpu) ==
  LET found == sched_find_slot(vcpu)
  IN IF vcpu = NULL \/ (found < 0 /\ sched_len >= VCPU_SCHED_MAX)
     THEN UNCHANGED schedVars
     ELSE /\ IF found < 0
             THEN Enqueue(vcpu) /\ sched_idx' = sched_len
             ELSE UNCHANGED <<sched_runqueue, sched_len>> /\ sched_idx' = found
          /\ sched_current' = vcpu

(* Faults: the wrap test comes one slot late; the index does not move. *)
NextSlotWrapsLate == IF sched_idx + 1 > sched_len THEN 0 ELSE sched_idx + 1
NextSlotStays == sched_idx % sched_len

(* The slot after the current one, cyclically. *)
NextSlot == (sched_idx + 1) % sched_len

(* The vCPU that a yield switches to, NULL when the yield returns false. *)
YieldTarget ==
  IF sched_len <= 1 \/ sched_current = NULL \/ sched_runqueue[NextSlot] = sched_current
  THEN NULL
  ELSE sched_runqueue[NextSlot]

(* Faults: the slot is not taken modulo the length; it is not stored. *)
YieldIndexRunsAway ==
  IF YieldTarget = NULL
  THEN UNCHANGED schedVars
  ELSE /\ sched_current' = YieldTarget
       /\ sched_idx' = sched_idx + 1
       /\ UNCHANGED <<sched_runqueue, sched_len>>
YieldForgetsIndex ==
  IF YieldTarget = NULL
  THEN UNCHANGED schedVars
  ELSE sched_current' = YieldTarget /\ UNCHANGED <<sched_runqueue, sched_len, sched_idx>>

(* The run-queue part of a yield; the caller adds the world switch from   *)
(* the old current vCPU to YieldTarget when that is not NULL.             *)
vcpu_scheduler_yield ==
  IF YieldTarget = NULL
  THEN UNCHANGED schedVars
  ELSE /\ sched_current' = YieldTarget
       /\ sched_idx' = NextSlot
       /\ UNCHANGED <<sched_runqueue, sched_len>>

-----------------------------------------------------------------------------
(* Any sequence of calls, with any argument. *)
SchedNext ==
  \/ \E v \in Vcpus \cup {NULL} : vcpu_scheduler_register(v)
  \/ \E v \in Vcpus \cup {NULL} : vcpu_scheduler_set_current(v)
  \/ vcpu_scheduler_yield

SchedSpec == SchedInit /\ [][SchedNext]_schedVars

-----------------------------------------------------------------------------
SchedTypeOK ==
  /\ sched_runqueue \in [Slots -> Vcpus \cup {NULL}]
  /\ sched_len \in 0 .. VCPU_SCHED_MAX
  /\ sched_idx \in Slots
  /\ sched_current \in Vcpus \cup {NULL}

(* The filled slots hold distinct vCPUs and the slots behind them nothing. *)
QueueWellFormed ==
  /\ \A i \in Slots : i < sched_len <=> sched_runqueue[i] # NULL
  /\ \A i, j \in Filled : sched_runqueue[i] = sched_runqueue[j] => i = j

(* Slot and pointer of the current vCPU agree, and there is a current vCPU *)
(* as soon as one is queued.                                               *)
CurrentIsQueued ==
  /\ sched_current = NULL <=> sched_len = 0
  /\ sched_current # NULL => /\ sched_idx < sched_len
                             /\ sched_runqueue[sched_idx] = sched_current

(* With two vCPUs queued a yield always finds another one to run, whatever *)
(* calls came before it.                                                   *)
YieldFindsAnother ==
  sched_len >= 2 => YieldTarget # NULL /\ YieldTarget # sched_current

(* No call moves or drops a queued vCPU: round-robin order is the order of *)
(* registration for ever.                                                  *)
QueueOnlyGrows ==
  [][/\ sched_len <= sched_len'
     /\ \A i \in Filled : sched_runqueue'[i] = sched_runqueue[i]]_schedVars
=============================================================================
