----------------------------- MODULE WorldSwitch -----------------------------
(***************************************************************************)
(* The state that world_switch moves in C: FP/SIMD, pointer-authentication *)
(* keys and the virtual GIC interface.  Unlike the trapframe it is not     *)
(* captured by a trap: it is saved only when world_switch is given a       *)
(* `from`, that is by a yield, and loaded on every entry.                  *)
(*                                                                         *)
(* The banks differ in when the load happens, so each is one value with    *)
(* its own rule: "fp" for q0-q31, FPCR and FPSR; "pauth" for the four keys *)
(* (under one name each, although a key is a pair of registers); "vgic"    *)
(* for the list registers, VMCR and AP0R0 (vgic_lr_count covers every list *)
(* register the processor has); "ap1r" for the group 1 active priorities,  *)
(* ICH_AP1R0_EL2, which a guest writes as ICC_AP1R0_EL1 and world_switch   *)
(* neither saves nor loads.  A value is tagged with the vCPU that wrote it.*)
(***************************************************************************)
EXTENDS VcpuRun

CONSTANTS
  Zero,    \* a cleared register or a memclr'ed context field
  Reset    \* what a register holds at power-on

ASSUME BankAssumption ==
  /\ Zero \notin Vcpus /\ Reset \notin Vcpus /\ Zero # Reset

VARIABLES
  banks,         \* the processor's banks
  ctx,           \* vCPU -> arch.fp, arch.pauth, arch.vgic
  pauth_build    \* was __ARM_FEATURE_PAUTH defined?  Never changes.

wsVars == <<ctlVars, banks, ctx, pauth_build>>

Banks == {"fp", "pauth", "vgic", "ap1r"}
Vals == Vcpus \cup {Zero, Reset}

(* vcpu_init_slot's memclr leaves a zero context with both `used` flags    *)
(* clear.                                                                  *)
WsInit ==
  /\ RunInit
  /\ banks = [b \in Banks |-> Reset]
  /\ ctx = [v \in Vcpus |->
              [val |-> [b \in Banks |-> Zero], fp_used |-> FALSE, pauth_used |-> FALSE]]
  /\ pauth_build \in BOOLEAN

-----------------------------------------------------------------------------
(* What each save stores in the outgoing context c.  SVE has no state. *)
save_fp(c) == [c EXCEPT !.val["fp"] = banks["fp"], !.fp_used = TRUE]
save_sve(c) == c
save_pauth(c) ==
  IF pauth_build
  THEN [c EXCEPT !.val["pauth"] = banks["pauth"], !.pauth_used = TRUE]
  ELSE [c EXCEPT !.pauth_used = FALSE]

(* Fault: the interrupt interface is left out of the save. *)
VgicNotSaved(c) == c

save_vgic(c) == [c EXCEPT !.val["vgic"] = banks["vgic"]]

Saved(c) == save_vgic(save_pauth(save_sve(save_fp(c))))

(* The banks after the saves: save_pauth wipes the keys. *)
BanksAfterSave ==
  IF pauth_build THEN [banks EXCEPT !["pauth"] = Zero] ELSE banks

(* Fault: the VGIC is loaded lazily, like FP, only from a saved context. *)
RestoreVgicLazily(live, c) ==
  IF c.fp_used THEN [live EXCEPT !["vgic"] = c.val["vgic"]] ELSE live

(* What each restore loads from the incoming context c. *)
restore_vgic(live, c) == [live EXCEPT !["vgic"] = c.val["vgic"]]
restore_pauth(live, c) ==
  IF c.pauth_used /\ pauth_build THEN [live EXCEPT !["pauth"] = c.val["pauth"]] ELSE live
restore_sve(live, c) == live
restore_fp(live, c) ==
  IF c.fp_used THEN [live EXCEPT !["fp"] = c.val["fp"]] ELSE live

Restored(live, c) ==
  restore_fp(restore_sve(restore_pauth(restore_vgic(live, c), c), c), c)

(* world_switch(from, to) on the banks; from is NULL when vcpu_run calls. *)
SwitchBanks(from, to) ==
  IF from = NULL
  THEN banks' = Restored(banks, ctx[to]) /\ UNCHANGED ctx
  ELSE /\ ctx' = [ctx EXCEPT ![from] = Saved(ctx[from])]
       /\ banks' = Restored(BanksAfterSave, ctx'[to])

WsLoopEnter ==
  /\ LoopEnter
  /\ IF pc' = "guest" THEN SwitchBanks(NULL, sched_current) ELSE UNCHANGED <<banks, ctx>>
  /\ UNCHANGED pauth_build

WsLoopCheckYield ==
  /\ LoopCheckYield
  /\ IF pc' = "guest" THEN SwitchBanks(sched_current, sched_current') ELSE UNCHANGED <<banks, ctx>>
  /\ UNCHANGED pauth_build

(* EL2 is compiled with -mgeneral-regs-only and its handlers touch none of *)
(* the banks.                                                              *)
WsOther ==
  /\ BootRegister \/ BootSetCurrent \/ VcpuRunStart \/ YieldReturn \/ GuestTrap \/ Halted
  /\ UNCHANGED <<banks, ctx, pauth_build>>

(* A guest instruction writes one of the banks (the VGIC's through the     *)
(* ICC registers, which HCR_EL2.IMO turns into the virtual interface).     *)
GuestWrites(b) ==
  /\ pc = "guest"
  /\ banks' = [banks EXCEPT ![b] = sched_current]
  /\ UNCHANGED <<ctlVars, ctx, pauth_build>>

WsNext == \/ WsLoopEnter \/ WsLoopCheckYield \/ WsOther
          \/ \E b \in Banks : GuestWrites(b)

WsSpec == WsInit /\ [][WsNext]_wsVars

-----------------------------------------------------------------------------
WsTypeOK ==
  /\ RunTypeOK
  /\ banks \in [Banks -> Vals]
  /\ ctx \in [Vcpus -> [val : [Banks -> Vals], fp_used : BOOLEAN, pauth_used : BOOLEAN]]
  /\ pauth_build \in BOOLEAN

(* The vCPU whose state the banks hold, once a guest has been entered. *)
Loaded == IF host_saved_area = "none" THEN NULL ELSE sched_current

BankView(v, b) == IF Loaded = v THEN banks[b] ELSE ctx[v].val[b]

(* The banks that world_switch moves. *)
Moved == {"fp", "vgic"} \cup (IF pauth_build THEN {"pauth"} ELSE {})

(* Has this context been captured, so that an entry loads the bank? *)
LoadsOnEntry(v, b) ==
  CASE b = "vgic"  -> TRUE
    [] b = "pauth" -> ctx[v].pauth_used
    [] b = "fp"    -> ctx[v].fp_used
    [] b = "ap1r"  -> FALSE

(* A yield from one vCPU to another loses nothing of what it moves: the    *)
(* outgoing vCPU's banks are in its context, the incoming one's are live.  *)
(* A vCPU that was never switched out has nothing captured yet.            *)
YieldLosesNothing ==
  [][Loaded # NULL /\ sched_current' # sched_current =>
       \A v \in Vcpus, b \in Moved :
         v = sched_current \/ LoadsOnEntry(v, b) => BankView(v, b)' = BankView(v, b)]_wsVars

(* No guest ever runs with, and no context ever holds, list registers,     *)
(* VMCR or AP0R0 that another guest wrote, because they are loaded on the  *)
(* first entry too; nor keys, which are not, but which the save wipes.     *)
(* FP has neither protection and AP1R0 is not moved: both do pass from one *)
(* guest to the next.                                                      *)
ListsAndKeysPrivate ==
  \A v \in Vcpus :
    /\ BankView(v, "vgic") \in {v, Zero}
    /\ pauth_build => BankView(v, "pauth") \in {v, Zero, Reset}

(* What the README says the scheduler does with the FP/SIMD context: once  *)
(* captured, only the vCPU's own instructions change it.                   *)
FpChangedOnlyByOwner ==
  [][\A v \in Vcpus :
       LoadsOnEntry(v, "fp") /\ BankView(v, "fp")' # BankView(v, "fp")
         => pc = "guest" /\ Loaded = v]_wsVars
=============================================================================
