-------------------------- MODULE WorldSwitchProofs --------------------------
(***************************************************************************)
(* The banks that world_switch moves in C, for every pool size and every   *)
(* set of register values: a yield loses none of them, and no guest ever   *)
(* runs with another guest's list registers or keys.                       *)
(***************************************************************************)
EXTENDS WorldSwitch, VcpuRunProofs

Contexts == [val : [Banks -> Vals], fp_used : BOOLEAN, pauth_used : BOOLEAN]

(* The saved list registers of a vCPU are its own or still clear, and so   *)
(* are the live ones from the first guest entry on.  The saved ones are    *)
(* needed while their vCPU is loaded too: the loop re-enters the current   *)
(* vCPU from the context of its last yield.                                *)
VgicOwned ==
  /\ \A v \in Vcpus : ctx[v].val["vgic"] \in {v, Zero}
  /\ host_saved_area # "none" => banks["vgic"] \in {sched_current, Zero}

(* The same of the keys, which keep their reset value until the first save.*)
KeysOwned ==
  pauth_build =>
    /\ \A v \in Vcpus : ctx[v].val["pauth"] \in {v, Zero, Reset}
    /\ host_saved_area # "none" => banks["pauth"] \in {sched_current, Zero, Reset}
    /\ host_saved_area = "none" => banks["pauth"] = Reset

(* The inductive invariant. *)
WsInv ==
  /\ RunInv
  /\ NoFrameYet
  /\ WsTypeOK
  /\ VgicOwned
  /\ KeysOwned

-----------------------------------------------------------------------------
(* The saves: every bank goes into the context, the keys only in a build   *)
(* that has them.                                                          *)
LEMMA SavedFacts ==
  ASSUME banks \in [Banks -> Vals], pauth_build \in BOOLEAN, NEW c \in Contexts
  PROVE  /\ Saved(c) \in Contexts
         /\ Saved(c).val["vgic"] = banks["vgic"]
         /\ Saved(c).val["fp"] = banks["fp"]
         /\ pauth_build => Saved(c).val["pauth"] = banks["pauth"]
<1> DEFINE f == save_fp(c)
           p == save_pauth(f)
<1>1. /\ f \in Contexts /\ f.val["fp"] = banks["fp"]
  BY DEF save_fp, Contexts, Banks
<1>2. Saved(c) = save_vgic(p)
  BY DEF Saved, save_sve
<1> HIDE DEF f
<1>3. /\ p \in Contexts /\ p.val["fp"] = f.val["fp"]
      /\ pauth_build => p.val["pauth"] = banks["pauth"]
  BY <1>1 DEF save_pauth, Contexts, Banks
<1> HIDE DEF p
<1>4. /\ save_vgic(p) \in Contexts /\ save_vgic(p).val["vgic"] = banks["vgic"]
      /\ save_vgic(p).val["fp"] = p.val["fp"]
      /\ save_vgic(p).val["pauth"] = p.val["pauth"]
  BY <1>3 DEF save_vgic, Contexts, Banks
<1> QED BY <1>1, <1>2, <1>3, <1>4

(* The wipe that follows the saves touches the keys only. *)
LEMMA AfterSaveFacts ==
  ASSUME banks \in [Banks -> Vals]
  PROVE  /\ BanksAfterSave \in [Banks -> Vals]
         /\ pauth_build => BanksAfterSave["pauth"] = Zero
BY DEF BanksAfterSave, Banks, Vals

(* The restores: the interrupt interface always comes from the context,    *)
(* the other banks when the context was captured.                          *)
LEMMA RestoredFacts ==
  ASSUME NEW live \in [Banks -> Vals], NEW c \in Contexts, pauth_build \in BOOLEAN
  PROVE  /\ Restored(live, c) \in [Banks -> Vals]
         /\ Restored(live, c)["vgic"] = c.val["vgic"]
         /\ c.fp_used => Restored(live, c)["fp"] = c.val["fp"]
         /\ Restored(live, c)["pauth"] = IF c.pauth_used /\ pauth_build THEN c.val["pauth"]
                                                                       ELSE live["pauth"]
<1> DEFINE g == restore_vgic(live, c)
           p == restore_pauth(g, c)
<1>1. c.val \in [Banks -> Vals]
  BY DEF Contexts
<1>2. g \in [Banks -> Vals] /\ g["vgic"] = c.val["vgic"] /\ g["pauth"] = live["pauth"]
  BY <1>1 DEF restore_vgic, Banks
<1>3. Restored(live, c) = restore_fp(p, c)
  BY DEF Restored, restore_sve
<1> HIDE DEF g
<1>4. /\ p \in [Banks -> Vals] /\ p["vgic"] = g["vgic"]
      /\ p["pauth"] = IF c.pauth_used /\ pauth_build THEN c.val["pauth"] ELSE g["pauth"]
  BY <1>1, <1>2 DEF restore_pauth, Banks
<1> HIDE DEF p
<1>5. /\ restore_fp(p, c) \in [Banks -> Vals]
      /\ restore_fp(p, c)["vgic"] = p["vgic"]
      /\ restore_fp(p, c)["pauth"] = p["pauth"]
      /\ c.fp_used => restore_fp(p, c)["fp"] = c.val["fp"]
  BY <1>1, <1>4 DEF restore_fp, Banks
<1> QED BY <1>2, <1>3, <1>4, <1>5

(* The banks never steer the run loop. *)
LEMMA WsStepRuns ==
  ASSUME [WsNext]_wsVars
  PROVE  [RunNext]_ctlVars
BY DEF WsNext, WsLoopEnter, WsLoopCheckYield, WsOther, GuestWrites, RunNext, El2Step, wsVars

(* The four shapes of a step on the banks: an entry from the loop, a yield *)
(* to another vCPU, a guest's write, and everything else.                  *)
LEMMA WsShapes ==
  ASSUME WsInv, [WsNext]_wsVars
  PROVE  /\ UNCHANGED pauth_build
         /\ \/ /\ sched_current \in Vcpus /\ UNCHANGED <<sched_current, ctx>>
               /\ host_saved_area' # "none"
               /\ banks' = Restored(banks, ctx[sched_current])
            \/ /\ sched_current \in Vcpus /\ sched_current' \in Vcpus
               /\ sched_current' # sched_current
               /\ host_saved_area # "none" /\ host_saved_area' # "none"
               /\ ctx' = [ctx EXCEPT ![sched_current] = Saved(ctx[sched_current])]
               /\ banks' = Restored(BanksAfterSave, ctx'[sched_current'])
            \/ /\ sched_current \in Vcpus /\ UNCHANGED <<sched_current, host_saved_area, ctx>>
               /\ host_saved_area # "none"
               /\ \E b \in Banks : banks' = [banks EXCEPT ![b] = sched_current]
            \/ /\ UNCHANGED <<banks, ctx, host_saved_area>>
               /\ host_saved_area # "none" => UNCHANGED sched_current
<1> USE DEF WsInv
<1>1. CASE WsLoopEnter
  <2>1. /\ sched_current \in Vcpus /\ UNCHANGED sched_current
        /\ pc' = "guest" /\ host_saved_area' = "vcpu_run"
    BY <1>1, LoopEnterFacts DEF WsLoopEnter
  <2> QED BY <1>1, <2>1 DEF WsLoopEnter, SwitchBanks
<1>2. CASE WsLoopCheckYield
  <2>1. /\ host_saved_area = "vcpu_run" /\ sched_current \in Vcpus
        /\ \/ pc' # "guest" /\ UNCHANGED <<sched_current, host_saved_area>>
           \/ /\ pc' = "guest" /\ host_saved_area' = "yield"
              /\ sched_current' \in Vcpus /\ sched_current' # sched_current
    BY <1>2, LoopCheckYieldFacts DEF WsLoopCheckYield
  <2>2. sched_current # NULL
    BY <2>1, SchedAssumption
  <2> QED BY <1>2, <2>1, <2>2 DEF WsLoopCheckYield, SwitchBanks
<1>3. CASE WsOther
  <2>1. CASE GuestTrap
    BY <1>3, <2>1, TrapFacts DEF WsOther
  <2>2. CASE ~GuestTrap
    BY <1>3, <2>2, QuietFacts DEF WsOther
  <2> QED BY <2>1, <2>2
<1>4. ASSUME NEW b \in Banks, GuestWrites(b)
      PROVE  /\ sched_current \in Vcpus /\ host_saved_area # "none"
             /\ UNCHANGED <<sched_current, host_saved_area, ctx, pauth_build>>
             /\ banks' = [banks EXCEPT ![b] = sched_current]
  BY <1>4, CurrentExists DEF GuestWrites, RunInv, FrameStored, ctlVars, schedVars, runVars
<1>5. CASE UNCHANGED wsVars
  BY <1>5 DEF wsVars, ctlVars, schedVars, runVars
<1> QED BY <1>1, <1>2, <1>3, <1>4, <1>5 DEF WsNext

(* Every step keeps the inductive invariant. *)
LEMMA WsInvStep ==
  ASSUME WsInv, [WsNext]_wsVars
  PROVE  WsInv'
<1> USE SchedAssumption
<1>1. RunInv' /\ NoFrameYet'
  BY WsStepRuns, RunInvStep, NoFrameYetStep DEF WsInv
<1>2. /\ banks \in [Banks -> Vals] /\ ctx \in [Vcpus -> Contexts] /\ pauth_build \in BOOLEAN
  BY DEF WsInv, WsTypeOK, Contexts
<1>3. VgicOwned /\ KeysOwned
  BY DEF WsInv
<1>4. SUFFICES /\ banks' \in [Banks -> Vals] /\ ctx' \in [Vcpus -> Contexts]
               /\ pauth_build' \in BOOLEAN
               /\ VgicOwned' /\ KeysOwned'
  BY <1>1, <1>4 DEF WsInv, WsTypeOK, Contexts, RunInv
<1>5. CASE /\ sched_current \in Vcpus /\ UNCHANGED <<sched_current, ctx>>
           /\ host_saved_area' # "none"
           /\ banks' = Restored(banks, ctx[sched_current])
  <2>1. /\ banks' \in [Banks -> Vals] /\ banks'["vgic"] = ctx[sched_current].val["vgic"]
        /\ banks'["pauth"] \in {ctx[sched_current].val["pauth"], banks["pauth"]}
    BY <1>2, <1>5, RestoredFacts
  <2> QED BY <1>2, <1>3, <1>5, <2>1, WsShapes DEF VgicOwned, KeysOwned
<1>6. CASE /\ sched_current \in Vcpus /\ sched_current' \in Vcpus
           /\ host_saved_area # "none" /\ host_saved_area' # "none"
           /\ ctx' = [ctx EXCEPT ![sched_current] = Saved(ctx[sched_current])]
           /\ banks' = Restored(BanksAfterSave, ctx'[sched_current'])
  <2> DEFINE s == Saved(ctx[sched_current])
  <2>1. /\ s \in Contexts /\ s.val["vgic"] = banks["vgic"]
        /\ pauth_build => s.val["pauth"] = banks["pauth"]
    BY <1>2, <1>6, SavedFacts
  <2> HIDE DEF s
  <2>2. ctx' \in [Vcpus -> Contexts]
    BY <1>2, <1>6, <2>1 DEF s
  <2>3. \A v \in Vcpus : /\ ctx'[v].val["vgic"] \in {v, Zero}
                         /\ pauth_build => ctx'[v].val["pauth"] \in {v, Zero, Reset}
    BY <1>2, <1>3, <1>6, <2>1 DEF VgicOwned, KeysOwned, s
  <2>4. /\ banks' \in [Banks -> Vals]
        /\ banks'["vgic"] = ctx'[sched_current'].val["vgic"]
        /\ pauth_build => banks'["pauth"] \in {ctx'[sched_current'].val["pauth"], Zero}
    BY <1>2, <1>6, <2>2, AfterSaveFacts, RestoredFacts
  <2> QED BY <1>2, <1>6, <2>2, <2>3, <2>4, WsShapes DEF VgicOwned, KeysOwned
<1>7. CASE /\ sched_current \in Vcpus /\ UNCHANGED <<sched_current, host_saved_area, ctx>>
           /\ host_saved_area # "none"
           /\ \E b \in Banks : banks' = [banks EXCEPT ![b] = sched_current]
  BY <1>2, <1>3, <1>7, WsShapes DEF VgicOwned, KeysOwned, Vals, Banks
<1>8. CASE /\ UNCHANGED <<banks, ctx, host_saved_area>>
           /\ host_saved_area # "none" => UNCHANGED sched_current
  BY <1>2, <1>3, <1>8, WsShapes DEF VgicOwned, KeysOwned
<1> QED BY <1>5, <1>6, <1>7, <1>8, WsShapes

(* The inductive invariant holds from the launch on. *)
THEOREM WsInvariant == WsSpec => []WsInv
<1>1. WsInit => WsInv
  <2> SUFFICES ASSUME WsInit PROVE WsInv
    OBVIOUS
  <2>1. RunInv /\ NoFrameYet
    BY RunInvInit DEF WsInit, RunInit, NoFrameYet
  <2>2. /\ banks \in [Banks -> Vals] /\ pauth_build \in BOOLEAN
        /\ ctx \in [Vcpus -> [val : [Banks -> Vals], fp_used : BOOLEAN, pauth_used : BOOLEAN]]
    BY DEF WsInit, Vals
  <2>3. VgicOwned /\ KeysOwned
    BY DEF WsInit, RunInit, VgicOwned, KeysOwned, Banks
  <2> QED BY <2>1, <2>2, <2>3 DEF WsInv, WsTypeOK, RunInv
<1>2. WsInv /\ [WsNext]_wsVars => WsInv'
  BY WsInvStep
<1> QED BY <1>1, <1>2, PTL DEF WsSpec

(* No guest ever runs with, and no context ever holds, list registers,     *)
(* VMCR, AP0R0 or keys that another guest wrote.                           *)
THEOREM ListsAndKeysStayPrivate == WsSpec => []ListsAndKeysPrivate
<1>1. WsInv => ListsAndKeysPrivate
  BY SchedAssumption DEF WsInv, VgicOwned, KeysOwned, ListsAndKeysPrivate, BankView, Loaded
<1> QED BY <1>1, WsInvariant, PTL

(* A yield from one vCPU to another loses nothing of the banks it moves. *)
THEOREM YieldsLoseNothing == WsSpec => YieldLosesNothing
<1> USE SchedAssumption
<1> DEFINE Kept == Loaded # NULL /\ sched_current' # sched_current =>
       \A v \in Vcpus, b \in Moved :
         v = sched_current \/ LoadsOnEntry(v, b) => BankView(v, b)' = BankView(v, b)
<1>1. WsInv /\ [WsNext]_wsVars => [Kept]_wsVars
  <2> SUFFICES ASSUME WsInv, [WsNext]_wsVars,
                      Loaded # NULL, sched_current' # sched_current,
                      NEW v \in Vcpus, NEW b \in Moved,
                      v = sched_current \/ LoadsOnEntry(v, b)
               PROVE  BankView(v, b)' = BankView(v, b)
    OBVIOUS
  <2>1. /\ banks \in [Banks -> Vals] /\ ctx \in [Vcpus -> Contexts] /\ pauth_build \in BOOLEAN
    BY DEF WsInv, WsTypeOK, Contexts
  <2>0. b \in {"fp", "vgic", "pauth"} /\ (b = "pauth" => pauth_build)
    BY DEF Moved
  <2>2. host_saved_area # "none" /\ Loaded = sched_current
    BY DEF Loaded
  <2>3. /\ sched_current \in Vcpus /\ sched_current' \in Vcpus
        /\ host_saved_area' # "none"
        /\ ctx' = [ctx EXCEPT ![sched_current] = Saved(ctx[sched_current])]
        /\ banks' = Restored(BanksAfterSave, ctx'[sched_current'])
    BY <2>2, WsShapes
  <2>4. Loaded' = sched_current'
    BY <2>3 DEF Loaded
  <2> DEFINE s == Saved(ctx[sched_current])
  <2>5. /\ s.val["vgic"] = banks["vgic"] /\ s.val["fp"] = banks["fp"]
        /\ pauth_build => s.val["pauth"] = banks["pauth"]
    BY <2>1, <2>3, SavedFacts
  <2> HIDE DEF s
  <2>6. CASE v = sched_current
    <3>1. ctx'[v] = s
      BY <2>1, <2>3, <2>6 DEF s
    <3>2. s.val[b] = banks[b]
      BY <2>5, <2>0
    <3> QED BY <2>2, <2>4, <2>6, <3>1, <3>2 DEF BankView
  <2>7. CASE v = sched_current'
    <3>1. ctx'[v] = ctx[v] /\ ctx[v] \in Contexts
      BY <2>1, <2>3, <2>7
    <3>2. LoadsOnEntry(v, b)
      BY <2>7
    <3>3. banks'[b] = ctx[v].val[b]
      <4>1. banks' = Restored(BanksAfterSave, ctx[v]) /\ BanksAfterSave \in [Banks -> Vals]
        BY <2>1, <2>3, <2>7, <3>1, AfterSaveFacts
      <4>2. CASE b = "vgic"
        BY <2>1, <3>1, <4>1, <4>2, RestoredFacts
      <4>3. CASE b = "pauth"
        BY <2>1, <2>0, <3>1, <3>2, <4>1, <4>3, RestoredFacts DEF LoadsOnEntry
      <4>4. CASE b = "fp"
        BY <2>1, <3>1, <3>2, <4>1, <4>4, RestoredFacts DEF LoadsOnEntry
      <4> QED BY <2>0, <4>2, <4>3, <4>4
    <3> QED BY <2>2, <2>4, <2>7, <3>3 DEF BankView
  <2>8. CASE v # sched_current /\ v # sched_current'
    BY <2>1, <2>2, <2>3, <2>4, <2>8 DEF BankView
  <2> QED BY <2>6, <2>7, <2>8
<1> QED BY <1>1, WsInvariant, PTL DEF WsSpec, YieldLosesNothing
=============================================================================
