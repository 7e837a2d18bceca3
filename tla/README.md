# Schism in TLA+

A verification project for Schism, an AArch64 hypervisor that runs two toy
guests on one core of QEMU's `virt` machine. TLC checks the modules on small
instances; TLAPS proves every safety property that these runs pass for every
instance.

## 1. The system

Schism is single-core and has no interrupts of its own: nothing runs
concurrently with EL2 code. What makes it hard is that control leaves C through
`eret` and comes back through an exception vector, into whichever C frame called
`world_switch` last, and that every piece of guest state lives in two places
(processor and `vcpu_t`) with its own rule for when it moves.

| Component | State | Operations | Correct when |
|---|---|---|---|
| Run queue (`core/vcpu.c`) | `sched_runqueue`, `sched_len`, `sched_idx`, `sched_current` | register, set_current, yield | slot and pointer agree, no duplicates, a yield finds another vCPU |
| Run loop and traps (`core/vcpu.c`, `core/trap.c`, `core/main.c`, `vectors_el2.S`) | `request_yield`, the latch `current_trapframe`, the EL2 frame in `host_saved_area`, `vcpu_run`'s local `current` | launch, loop, yield, one handler per exception class | the latch names the running guest, no stale pointer, requests are served, nobody starves |
| Trapframe (`switch_el2.S`, `vectors_el2.S`, `core/trap.c`) | `arch.tf`, the EL1-visible registers | capture, guest entry, frame edits | a guest has a private processor |
| Banks (`core/vcpu.c`) | `arch.fp`, `arch.pauth`, `arch.vgic`, the registers behind them | `save_*`, `restore_*` | a switch loses nothing and leaks nothing |
| Virtual time (`core/vcpu.c`, `core/trap.c`, both `.S` files) | `cntvct_el0`, `cntvoff_el2`, `tf.cntp_*`, `CNTVOFF_EL2`, `CNTP_*` | offset programming, snapshots, decoding of trapped accesses, HVC #0x61 | a guest's timer setting is kept, its count behaves like a count |
| Stage-2 tables (`core/s2_mmu.c`) | table pools, L1-L3 entries, VTTBR | build, map, program registers | builder and processor agree, slots and guards are as requested, no table is wasted |
| EL2 stage-1 tables (`core/el2_mmu.c`, `linker.ld`) | table pools, entries | map range, enable | every page has its section's attributes, nothing is writable and executable |
| Guests (`guests/`, `guest_stubs.h`) | mailbox slots, private regions, results on their stacks | store, report, rebase time, WFI | they reach their memory and do not overwrite each other's |
| Guest monitor, console, reset code | device registers | dump, print, set-up | - |

Interaction: `el2_main` registers the vCPUs and calls `vcpu_run`. The loop calls
`world_switch(NULL, current)`; a yield calls `world_switch(prev, target)`. Both
end in `vcpu_switch_asm`. A guest trap enters `el2_vector_common`, which captures
the frame named by the latch, calls `el2_exception_common`, and returns through
`host_saved_area`. The handlers reach the vCPU through the scheduler's current
pointer, while the vector uses the latch: two names for one vCPU. Before all this
`el2_main` maps its own image, builds the stage-2 tables and gives one VTTBR to
both vCPUs; the report handler follows a guest's pointer through EL2's map.

One interaction is invisible in the C code. The guests' stack tops (0x40080000
and 0x400A0000) lie in the hypervisor's `.bss`, which is almost only page-table
pools: about 0.4 MB of `el2_mmu.c`'s and more than 4 MB of `s2_mmu.c`'s. Whatever
the link order, the page below each stack top is a table of `s2_mmu.c`'s, and a
guest's frame (the locals of its `_os` function and the calls below it, some
300 bytes) is written over the last entries of that table.

The hard behaviours are therefore orderings of traps and entries, state read
before a guest run and used after it, cached copies of registers, counters that
wrap, tables kept twice and reused uncleared, static pools at their limit, and
progress. `PROJECT.json` lists them as hazards, each at its line.

## 2. Modules

| Module | Models | Uses |
|---|---|---|
| `Sched` | the run queue, one operator per function | |
| `SysregTrap` | the syndrome of a trapped register access and the fields that `trap.c` takes from it | |
| `VcpuRun` | launch, `vcpu_run`, yield, vector, dispatch | extends `Sched`, `SysregTrap` |
| `PrivateCpu` | abstract: one processor per vCPU | |
| `TrapFrame` | capture, entry, frame edits | extends `VcpuRun`, refines `PrivateCpu` |
| `WorldSwitch` | FP, keys, VGIC | extends `VcpuRun` |
| `VTime` | offsets, snapshots, physical timer | extends `VcpuRun` |
| `PageTable` | the table builder that both MMU files contain, as operators on a record | |
| `AddressMap` | abstract: a map that is cleared and set page by page | |
| `Mmu` | `el2_main`'s memory set-up: image map, stage-2 builds, registers | extends `PageTable`, refines `AddressMap` twice |
| `GuestMemory` | what the guests store, report and find again | extends `Mmu` |
| `MCMemory` | the instance of `GuestMemory` for TLC | extends `GuestMemory` |
| `SchedProofs`, `VcpuRunProofs`, `TrapFrameProofs`, `WorldSwitchProofs`, `VTimeProofs`, `PageTableProofs`, `MmuProofs`, `GuestMemoryProofs` | theorems | extend their modules |

`VcpuRun` is the control skeleton. `TrapFrame`, `WorldSwitch` and `VTime` conjoin
their own variables to its actions, so each of them runs under exactly the same
orders of traps and switches. `Mmu` is the part of `el2_main` before the launch;
`GuestMemory` continues it with any order of guest turns, of which `VcpuRun`'s
orders are a part.

How the state corresponds to the code:

- `pc` is the place in EL2 code, or `"guest"`. `host_saved_area` is the frame the
  next trap returns to: `vcpu_run`'s own call or the one inside the yield.
  `LoopEnter`, `LoopCheckYield` and `YieldReturn` are the loop's pieces between
  two places where a guest can run; EL2 code between them is one step, since
  nothing can interrupt it.
- `TrapWfx`, `TrapTaskReport` and `TrapTimeOverride` are the handled exceptions;
  `TrapFatal` is every class that ends in the `wfi` hang. A report pointer outside
  EL2's own map faults inside the handler, with the latch already clear, and
  hangs too. `TrapTimerSysreg` is handled if the decoded register is one of the
  handler's cases.
- `SysregTrap`: the syndrome is an integer laid out as the architecture says, the
  decoder shifts and masks it as the code does. `TimerDecodes` is what comes of
  every access that CNTHCTL_EL2 = 0 traps: never a case of the switch, because
  the code's bit positions are not the architecture's. So a timer access hangs
  EL2, in all modules, and the emulation in `handle_timer_sysreg` has no action.
- `TrapFrame`: `hw` is the processor, `tf` the frames. x0 and x16 stand for the
  general registers, because the assembly treats these two specially; `el1`
  stands for the other captured registers. Instruction addresses are numbered in
  a ring. Where ELR_EL2 points after WFI, a register trap and HVC is the
  architecture's rule (`TrappedAddr`, `HvcReturnAddr`).
- `WorldSwitch`: each bank is one value, tagged with its writer. `vgic` is what
  `save_vgic` and `restore_vgic` move (list registers, VMCR, AP0R0); `ap1r` is
  ICH_AP1R0_EL2, which a guest changes and nothing moves. Whether
  `__ARM_FEATURE_PAUTH` is defined is chosen once, at the start, so that both
  sides of the `#ifdef` are covered; the Makefile's flags do not define it. (With
  it the code would not assemble as written: `vcpu.c:200-208` names key registers
  that are Lo/Hi pairs in the architecture, and leaves out APGA. The model is of
  what the code means to do: save, clear, restore.)
- `VTime`: counts are W bits and wrap. `CntvoffAdded` says how the processor
  combines CNTPCT and CNTVOFF: FALSE is the Arm rule, TRUE the one that the code
  is written for. Time may pass between any two steps, not inside one.

- `PageTable`: a table is kept twice, as in the source: `children` is what the
  builder follows, `entries` what the processor walks. Table k of a pool is the
  number k, 0 is null or invalid. `hung` is the `wfi` loop of a builder without
  tables. Both files contain the same functions; they differ in the descriptor
  bits, which the client passes.
- `Mmu`: addresses count units, `PageSize` of them to a page, so that sections
  and slots can end inside a page. `pc` is the place in `el2_main`. A mapping
  loop takes one step per page, since a pool may run out at any of them.
  Descriptors keep output page, permissions and memory type.
- `GuestMemory`: nothing preempts a guest, so what it stores between two traps is
  one step; `mem` reduces a page to its last writer, `at` is a guest's place in
  its program, `seen` what EL2 found behind its last report pointer. `el2` and
  `s2` stay as the builder left them. `Under` says which table is below each
  guest's stack top and `FrameFirst` which entries its frame covers, from that
  entry to the last; `GuestSees` and `El2Sees` are the walks that meet such an
  entry once the guest has a frame. The word found there is any value; the model
  takes one that refuses the access.

Operators introduced by a comment "Fault:" are wrong versions of the operator
after them. No specification uses them: substituting one for the correct
operator must break the property named for it in `PROJECT.json` ("mutants"),
which shows that the property depends on that code.

## 3. Runs

| Run | Bounds | Result |
|---|---|---|
| `sched` | 5 vCPUs, 3 slots: the queue overflows | all calls in all orders keep the queue correct |
| `vcpu_run` | 8 vCPUs, 8 slots, the source's capacity | latch, pointer and requests consistent; round-robin; every request served; no starvation |
| `vcpu_run_wfi` | 2 vCPUs | violated: a WFI during the run that a yield started does not yield |
| `vcpu_timer` | 2 vCPUs; every timer register, direction and Rt | violated: a timer access is not emulated, EL2 hangs |
| `trapframe` | 2 vCPUs, 2 registers, 2 values, 3 addresses | refines `PrivateCpu`, no EL2 register content leaks |
| `trapframe_busy` | as above, 1 value | violated: a computing guest is never preempted |
| `world_switch` | 3 vCPUs, so that a vCPU waits through two switches | a yield loses no bank that is moved; list registers and keys are never foreign |
| `world_switch_fp` | 2 vCPUs | violated: resuming after a hypercall reloads old FP registers |
| `vtime` | 2 vCPUs, 2-bit counts, Arm offset rule | cached offsets fresh; timer settings do not drift |
| `vtime_resume` | as above | violated: the count of a guest that keeps the core jumps at a resume |
| `memory` | 6 entries per table, 2 units per page, 16 image layouts, 7 stage-2 requests, 2 builds, 2 vCPUs | the tables implement `AddressMap`, waste no table, map the image and the slots exactly; guests reach their data and keep it under each other's frames |
| `carve_out` | as above, only `el2_main`'s request | violated: each guest can write the other's memory and the hypervisor's |

Why the bounds are enough: the source has two vCPUs; three or eight add a vCPU
that is neither outgoing nor incoming. Register contents are only copied, so two
distinguishable values show every mix-up. Count arithmetic is linear modulo 2^W,
so two bits wrap in every way that 64 do. `vcpu_timer` needs no bound: the
syndromes are the real 25 bits.

`vtime_resume` has two causes. The offset is recomputed from a snapshot that only a
yield refreshes, and it has the sign of a processor that adds it. On the Arm rule,
which the run uses, the count jumps forward to twice CNTPCT less the snapshot;
with `CntvoffAdded = TRUE` the property is violated as well, by a jump back to the
stale snapshot. The rebase hypercall has the same sign.

In `memory` tables are small but keep the source's proportions: RAM starts at the
second "gigabyte" (what one L2 table maps, here 36 pages), the UART is in the
first, one VM fills a gigabyte, and the stage-2 L3 pool holds exactly two
gigabytes' tables. Sections end inside pages and may be empty. EL2's pool is too
small for the larger images and the stage-2 pool for two gigabytes with a guard,
so both builders also hang. The requests include sizes and guards that are no
whole pages, a shifted output base, and the two early returns. `MaxBuilds` is the
only artificial cap: `el2_main` builds once, the run up to twice, so that a build
on pools left by another is covered. Bases are page-aligned, as the source's
are. The guests' stacks lie inside the hypervisor's `.bss`, as they do in the
source. Frames cover the last of six entries (in the source, entries from about
474 of 512), in the stage-2 L3 tables that translate the programs and the private
regions.

The six violated properties are quoted from comments, messages and the README
of the repository; the findings in `PROJECT.json` give the lines.

Fairness. `El2Fairness` is weak fairness of EL2's own steps: straight-line code on
one core, with no interrupt enabled. `GuestFairness` is strong fairness of each
guest's WFI while it is current: it describes a cooperative guest, such as the
loops of `counter_os.c` and `memwalk_os.c`, which end in WFI, and it is an
assumption about guests, not about the hypervisor. `RequestServed` and
`EveryVcpuRuns` hold under it. `BusyGuestSpec` drops it: EL2 and the guest's
instructions make progress, but nothing obliges a guest to trap.

The final `wfi` loops are the stuttering action `Halted`, so deadlock is checked
in every run.

## 4. Proofs

Every invariant and every action property that a run passes is also a theorem,
for every value of the constants, and so are the three refinements. What is
assumed is assumed of constants, by name, and TLC evaluates it in that module's runs.

- Scheduler, run loop, frames: NULL is no vCPU, the capacity is positive, the
  pool fits the queue, x0 and x16 are registers, EL2's register content is no
  guest value.
- `TimeAssumption`, `PowerPositive` (`VTime`): the width of a count is positive.
  The second is arithmetic, 2^W > 0, which is stated because the provers know
  nothing of `^`.
- `MmuAssumption`, `InvalidAssumption` (`Mmu`): tables and pages are not empty,
  bases are page-aligned, a zero entry is no descriptor.
- `ReachAssumption` (`Mmu`): the UART's page lies below RAM, and image and slots
  end within what three levels translate (0x09000000, 0x40000000 and 512 GB in
  the source). Beyond the reach the index computation wraps one page onto
  another's entry: the code has no check for it, and neither map would be right.
- `GuestLayout` (`GuestMemory`): `guest_layout.h` and `el2_main` give stacks,
  mailboxes and regions pages of their own, stacks inside `.bss`, all of it
  inside the gigabyte that `el2_main` asks for. Its last condition on `S2Calls`
  concerns only requests other than `el2_main`'s: one that shifts the output
  base stays below the stacks. Otherwise a guest's store to its stack would land
  where EL2, whose map is the identity, does not look.
- `FrontAssumption` (`GuestMemory`): the pages of programs, stacks, mailboxes and
  regions have indices below `FrameFirst` at all three levels. In the source they
  are at most 1 (L1), 16 (L2) and 159 (L3), from `guest_layout.h`, the stack tops
  and the size of `.text` and `.rodata`, against 474. Nothing in the code checks
  it: a region moved to the end of a 2 MB block, or a frame of 3 KB, would break
  it, and with it the guests. Which tables are under the stacks is left open.

- `SchedProofs`. `SchedInv` joins types, `QueueWellFormed` and `CurrentIsQueued`.
  No part is inductive alone: a register keeps slots distinct only because the
  search sees every filled slot, and a yield keeps slot and pointer together
  only because the next slot is filled. `YieldAlwaysFindsAnother` follows from
  distinctness; `QueueNeverReordered` from each call either appending or leaving
  the slots alone.
- `VcpuRunProofs`. `RunInv` adds that the pool is queued in order
  (`PoolInOrder`), that a guest runs only with a frame stored (`FrameStored`),
  and the latch, pointer and request invariants, which need each other: the
  loop clears the request of its own pointer, so `RequestBelongsToCurrent` needs
  `LoopPointerFresh`, and the latch after a yield needs the yield to have a
  target. One lemma per group of actions; `RoundRobin` reads the turn order off
  `PoolInOrder`. `NoTimerAccessDecodes` follows the bits: the decoder's "CRn" is
  two bits of Op1 and the upper two of CRn, and a match of the key (`KeyFields`,
  `MatchedFields`) forces an encoding that is no timer register's.
  `TimerAccessHangs` is what the other modules' proofs use of it.
- `TrapFrameProofs`. Forgetting registers, a `TrapFrame` step is a `VcpuRun`
  step, so `RunInv` carries over. `TrapRetiresOne` says that a trap changes
  only the program counter in the running vCPU's frame; `EntryLoadsFrame`
  that an entry loads exactly the frame. `PrivateCpuRefinement` maps a trap to
  `Trap` or `Crash`, an entry to `Resume`, a guest instruction to `Execute`, and
  everything else to a stutter.
- `WorldSwitchProofs`. `WsInv` is `RunInv`, the types, `VgicOwned` and `KeysOwned`:
  the saved list registers and keys of every vCPU are its own, clear or as after
  reset, and so are the live ones from the first entry on. `ListsAndKeysPrivate`
  alone is not inductive: of a loaded vCPU it says nothing about the saved copy,
  from which the loop re-enters it. For the keys it rests on `save_pauth` clearing
  them; FP registers, which are neither cleared nor restored for a first run, and
  ICH_AP1R0_EL2, which is never moved, do pass from guest to guest.
  `YieldLosesNothing` joins what the saves leave in the outgoing context with
  what the restores load from the incoming one.
- `VTimeProofs`. `VtInv` is `RunInv`, the types and `CachedOffsetFresh`. Counts
  wrap, and the one fact needed of them (`CountArithmetic`) is that adding and
  subtracting modulo 2^W undo each other. `ViewOfFrames` reduces a vCPU's timer
  setting to frames and registers; a capture, an entry and a rebase then preserve
  it because each translates with the offset of its moment. The setting is in
  the code's terms, compare value plus CNTVOFF: on the Arm rule that is not the
  deadline in the guest's counts, which the wrong sign of the offset shifts.
- `PageTableProofs`. `WellFormed` is the builder's invariant: descriptors and
  child pointers agree in every table in use, they point to tables in use, and no
  table is pointed to twice. The last part is what makes writing one page leave
  the others alone; the second is what makes it harmless that the rest of a pool
  is uncleared. `EnsureL2` and `EnsureL3` change nothing that the processor walks
  to, `Install` changes one page, and `MapPathSetsOnePage` joins them, for every
  table and pool size.
- `MmuProofs`. `MmuInv` adds the types that the mapping loops compute with and
  that a hung builder means a hung `el2_main`. Each step leaves a set of tables
  alone, clears it, maps one page or stops (`TableStep`); these are a stutter,
  `Clear`, `Set` (or a stutter, if the page had that descriptor) and `Stop` of
  `AddressMap`, which gives `El2MapRefinement` and `S2MapRefinement`.
- `GuestMemoryProofs`, about the whole boot and the guests after it. All of it
  rests on the division lemmas at its head (`Floor`, `Ceiling`, `PathInjective`:
  within the reach two pages never share a path).
  - `ImageInv`: the loops have mapped the pages behind their cursor, each with
    its range's descriptor, and none ahead. That no later range undoes an
    earlier one is `RangesDisjoint`, which comes from the guard pages of
    `linker.ld` (`SectionOrder`); that no page wraps is `RangesInReach`. At the
    end of the loops it is `El2MapMatchesImage`.
  - `SlotInv` says the same of `s2_build_tables_identity`, with every page's
    translation. `CountInv` counts: each page mapped is a new one, so a finished
    build has `vm_count * vm_size` of them. `SlotsAsRequested` adds `SlotGap` and
    `SlotEnds`, that a slot's last page is followed by the whole guard.
  - `PoolInv`: every table taken leads to a mapped page, and as many are taken
    as mapped pages need. One builder step keeps it because it takes a table
    only for an index that had none (`EnsureL2Takes`, `EnsureL3Takes`,
    `MapPathTakes`) and fills the page in the same step, or hangs on a full pool.
  - `GuestInv`: on `el2_main`'s tables each access is allowed and goes to the
    same page, and what two guests store is disjoint (`StoredPages`); the
    report is found because a stack page is a `.bss` page, which `ImageInv`
    says EL2 maps to itself. That the processor still finds these pages once
    frames lie over the tables is `FramesElsewhere`: a walk to a used page reads
    one entry per level, each below `FrameFirst`, whichever tables are overwritten.
    `SlotsAsRequested`, `PoolsNotWasted` and the refinements speak of the tables
    as built, which for pages that nobody uses is all that can be said.

Only model-checked: liveness (`RequestServed`, `EveryVcpuRuns`), which is beyond
the prover. The six violated properties have counterexamples and no theorems.

## 5. Not modelled

- IRQ, FIQ and SError vectors: the GIC and the timers' interrupts are never
  enabled, and `world_switch` masks IRQs around a guest entry.
- EL1 registers that the frame does not hold (ELR_EL1, SPSR_EL1, MAIR_EL1,
  SP_EL0, ...). They are shared between the guests; `PrivateCpu` speaks of the
  registers in the frame only.
- The cases of `handle_timer_sysreg` (`trap.c:136-289`), with `esr_sys64_rt`,
  `esr_sys64_is_read` and `advance_guest_elr`, which only they use: no trapped
  access reaches them (`NoTimerAccessDecodes`), and CNTVCT and CNTV_* do not trap
  at all with CNTHCTL_EL2 = 0.
- The bits of SCTLR, TCR, MAIR, VTCR and HCR, cache and TLB maintenance: they are
  written once with constants. `vmid_mask_from_cpu` and `enter_el1_at` are never
  called.
- The values that the guests compute; `mem` only says whose they are.
- SVE (empty in the source), console output, reset code, and the guest monitor,
  which nothing calls. Its loads would fault after `el2_mmu_enable`, since the
  mailbox is not part of the image that EL2 maps.

## 6. Plan

1. The CNTP_* emulation, once the decoder's bit positions are corrected: what
   `esr_sys64_rt` and `esr_sys64_is_read` extract has to be corrected with it.
2. EL1 registers outside the frame and ICH_AP1R0_EL2, if the repository decides
   who owns them.
