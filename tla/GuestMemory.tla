----------------------------- MODULE GuestMemory -----------------------------
(***************************************************************************)
(* The two guests' use of memory on top of the tables of Mmu: the mailbox  *)
(* slots they log to, their private regions, the stacks that hold their    *)
(* results, and the report that EL2 reads through its own map.             *)
(*                                                                         *)
(* Nothing preempts a guest, so what it stores between two of its traps is *)
(* one step.  A page of memory is reduced to the vCPU that last stored to  *)
(* it.  Which guest gets the core next is VcpuRun's business: here, any.   *)
(*                                                                         *)
(* The stack tops lie in the hypervisor's .bss, and .bss is the table      *)
(* pools: a guest's frame is written over entries of a table.  el2 and s2  *)
(* are the tables as the builder left them; what the processor sees is     *)
(* that, except for the entries that a frame has overwritten.              *)
(***************************************************************************)
EXTENDS Mmu

CONSTANTS
  Nobody,            \* nothing stored since bss_clear
  GuestStack,        \* vCPU -> the stack top that el2_main passes
  Under,             \* vCPU -> the table in the page below its stack top: set, level, number
  FrameFirst,        \* the first entry of that table that the guest's frame covers
  Slots,             \* vCPU -> the mailbox slots its program logs to
  GUEST_SHARED_BASE, GUEST_SHARED_STRIDE,
  GUEST_WORK_BASE, GUEST_WORK_SIZE, GUEST_WORK_STRIDE

(* guest_layout.h and el2_main: the stacks, then the mailboxes, then the   *)
(* regions, each on pages of its own; the stacks are part of .bss however  *)
(* large the image is, el2_main's one call covers image and guests, and a  *)
(* build that is no identity ends below the stacks.                        *)
ASSUME GuestLayout ==
  /\ Vcpus \subseteq Nat /\ Nobody \notin Vcpus
  /\ GuestStack \in [Vcpus -> Nat] /\ Slots \in [Vcpus -> SUBSET Nat]
  /\ {GUEST_SHARED_BASE, GUEST_SHARED_STRIDE,
      GUEST_WORK_BASE, GUEST_WORK_SIZE, GUEST_WORK_STRIDE} \subseteq Nat
  /\ \A a \in {GUEST_SHARED_BASE, GUEST_SHARED_STRIDE, GUEST_WORK_BASE, GUEST_WORK_STRIDE} :
       a % PageSize = 0
  /\ GUEST_SHARED_STRIDE > 0 /\ GUEST_SHARED_BASE <= GUEST_WORK_BASE
  /\ GUEST_WORK_SIZE \in 1 .. GUEST_WORK_STRIDE
  /\ \A v \in Vcpus :
       /\ GuestStack[v] % PageSize = 0 /\ GuestStack[v] <= GUEST_SHARED_BASE
       /\ \A n \in Slots[v] : GUEST_SHARED_BASE + (n + 1) * GUEST_SHARED_STRIDE <= GUEST_WORK_BASE
       /\ \A w \in Vcpus \ {v} : GuestStack[v] # GuestStack[w] /\ Slots[v] \cap Slots[w] = {}
       /\ \A f \in Layouts : LET below == GuestStack[v] - PageSize
                            IN SectionStart(f)[4] <= below /\ below < SectionStart(f)[4] + f[4]
       /\ GUEST_WORK_BASE + (v + 1) * GUEST_WORK_STRIDE <= RamBase + MainCall.vm_size
       /\ \A c \in S2Calls : c.ipa = c.pa \/ c.ipa + Asked(c) <= GuestStack[v] - PageSize
  /\ MainCall.ipa = RamBase /\ MainCall.pa = RamBase /\ MainCall.vm_count > 0
  /\ MainCall.read /\ MainCall.write /\ MainCall.exec
  /\ \A f \in Layouts : SectionStart(f)[3] <= RamBase + MainCall.vm_size

(* guest_layout.h and linker.ld: programs, stack pages, mailboxes and      *)
(* regions sit at low indices of all three levels, below those that a      *)
(* frame covers.  Every other page may lose its translation.               *)
AtFront(p) == \A i \in {L1Index(p), L2Index(p), L3Index(p)} : i < FrameFirst
ASSUME FrontAssumption ==
  /\ FrameFirst \in Nat
  /\ \A f \in Layouts : \A p \in PageOf(RamBase) .. PageOf(SectionStart(f)[3]) - 2 : AtFront(p)
  /\ \A v \in Vcpus :
       /\ AtFront(PageOf(GuestStack[v] - 1))
       /\ \A n \in Slots[v] : AtFront(PageOf(GUEST_SHARED_BASE + n * GUEST_SHARED_STRIDE))
       /\ LET base == GUEST_WORK_BASE + v * GUEST_WORK_STRIDE
          IN \A p \in PageOf(base) .. PageOf(base + GUEST_WORK_SIZE - 1) : AtFront(p)

VARIABLES
  mem,      \* page -> the vCPU that stored to it last
  at,       \* vCPU -> where its program stands
  seen      \* vCPU -> whose data EL2 found behind its last report

memVars == <<mmuVars, mem, at, seen>>

MemInit ==
  /\ MmuInit
  /\ mem = [p \in Pages |-> Nobody]
  /\ at = [v \in Vcpus |-> "start"]
  /\ seen = [v \in Vcpus |-> Nobody]

guest_shared_slot(n) == PageOf(GUEST_SHARED_BASE + n * GUEST_SHARED_STRIDE)

(* Fault: the guest's number is not used. *)
RegionOfFirst(v) == PageOf(GUEST_WORK_BASE) .. PageOf(GUEST_WORK_BASE + GUEST_WORK_SIZE - 1)

guest_private_region(v) ==
  LET base == GUEST_WORK_BASE + v * GUEST_WORK_STRIDE
  IN PageOf(base) .. PageOf(base + GUEST_WORK_SIZE - 1)

(* The frame with struct guest_task_result, just below the stack top. *)
ResultPage(v) == PageOf(GuestStack[v] - 1)

Stored(v) == {guest_shared_slot(n) : n \in Slots[v]} \cup guest_private_region(v) \cup {ResultPage(v)}

(* The pages that the program of vCPU v executes from and reads constants  *)
(* from: guests are linked into the hypervisor's .text and .rodata.        *)
Fetched == PageOf(MapRange[1].start) .. RangeLimit(MapRange[1]) - 1
Loaded == PageOf(MapRange[2].start) .. RangeLimit(MapRange[2]) - 1

(* Fault: a frame that fills its page. *)
StackWordsDeep == Index

(* The entries under a frame, which grows down from the end of the page. *)
StackWords == {i \in Index : i >= FrameFirst}

(* The vCPUs whose program has built its frame. *)
Framed == {w \in Vcpus : at[w] # "start"}

(* The entries that the processor reads on its walk to page p. *)
Visited(t, p) ==
  LET k == t.l1[L1Index(p)]
      n == IF k = 0 THEN 0 ELSE t.l2_pool[k].entries[L2Index(p)]
  IN {[level |-> 1, number |-> 1, index |-> L1Index(p)],
      [level |-> 2, number |-> k, index |-> L2Index(p)],
      [level |-> 3, number |-> n, index |-> L3Index(p)]}

Overwritten(set, t, p, framed) ==
  \E w \in framed : \E e \in Visited(t, p) :
    /\ Under[w] = [set |-> set, level |-> e.level, number |-> e.number]
    /\ e.index \in StackWords

(* What the processor makes of a page: for a guest, and for EL2.  As a     *)
(* descriptor, a word of a frame is any value: here one that refuses.      *)
GuestSees(v, p, framed) ==
  IF Overwritten("s2", s2, p, framed) THEN Invalid ELSE GuestWalk(v, p)
El2Sees(p, framed) ==
  IF Overwritten("el2", el2, p, framed) THEN Invalid ELSE WalkPage(el2, p)

(* No access of vCPU v's program is refused while these frames exist. *)
Allowed(v, framed) ==
  LET Sees(p) == GuestSees(v, p, framed)
  IN /\ \A p \in Stored(v) : Sees(p) # Invalid /\ Sees(p).write
     /\ \A p \in Fetched : Sees(p) # Invalid /\ Sees(p).exec
     /\ \A p \in Loaded : Sees(p) # Invalid /\ Sees(p).read

(* An abort, by stage 2 or by EL2's own map, ends in EL2's wfi loop. *)
Aborts == {"s2_abort", "el2_abort"}
Running == pc = "guests" /\ \A w \in Vcpus : at[w] \notin Aborts
Halted == (\E w \in Vcpus : at[w] \in Aborts) /\ UNCHANGED memVars

(* guest_counter_os and guest_memwalk_os, from their start or from the     *)
(* return of WFI to guest_task_report.  The function's frame comes first.  *)
GuestTask(v) ==
  /\ Running
  /\ at[v] \in {"start", "task"}
  /\ IF Allowed(v, Framed \cup {v})
     THEN /\ mem' = [p \in Pages |->
                      IF p \in {GuestWalk(v, q).pa : q \in Stored(v)} THEN v ELSE mem[p]]
          /\ at' = [at EXCEPT ![v] = "report"]
     ELSE at' = [at EXCEPT ![v] = "s2_abort"] /\ UNCHANGED mem
  /\ UNCHANGED <<mmuVars, seen>>

(* HVC #0x60: handle_guest_task_report dereferences the guest's pointer    *)
(* with EL2's own translation.                                             *)
GuestReport(v) ==
  /\ Running
  /\ at[v] = "report"
  /\ LET d == El2Sees(ResultPage(v), Framed)
     IN IF d = Invalid
        THEN at' = [at EXCEPT ![v] = "el2_abort"] /\ UNCHANGED seen
        ELSE at' = [at EXCEPT ![v] = "wfi"] /\ seen' = [seen EXCEPT ![v] = mem[d.pa]]
  /\ UNCHANGED <<mmuVars, mem>>

(* guest_yield, at the end of the loop. *)
GuestYield(v) ==
  /\ Running
  /\ at[v] = "wfi"
  /\ at' = [at EXCEPT ![v] = "task"]
  /\ UNCHANGED <<mmuVars, mem, seen>>

MemNext ==
  \/ MmuNext /\ UNCHANGED <<mem, at, seen>>
  \/ \E v \in Vcpus : GuestTask(v) \/ GuestReport(v) \/ GuestYield(v)
  \/ Halted

MemSpec == MemInit /\ [][MemNext]_memVars

-----------------------------------------------------------------------------
MemTypeOK ==
  /\ MmuTypeOK
  /\ mem \in [Pages -> Vcpus \cup {Nobody}]
  /\ at \in [Vcpus -> {"start", "task", "report", "wfi"} \cup Aborts]
  /\ seen \in [Vcpus -> Vcpus \cup {Nobody}]

(* On the tables that el2_main asks for, no guest access is ever refused,  *)
(* and every report is readable at EL2 and holds the reporting guest's     *)
(* data, although each guest's stack is written over a page-table page:    *)
(* the overwritten entries are none that a program or a report needs.      *)
(* EL2 maps only its own image, so the reports are readable because the    *)
(* stacks that el2_main gives the guests lie inside the hypervisor's .bss. *)
GuestsReachMemory ==
  /\ call = MainCall => \A v \in Vcpus : at[v] \notin Aborts
  /\ \A v \in Vcpus : at[v] \in {"wfi", "task"} => seen[v] = v

(* With one shared set of tables only the guests' own layout keeps them    *)
(* apart: what a guest stored in its mailbox slots, its region and its     *)
(* stack is still there, and still translated for it, whenever it runs     *)
(* again, whoever's frame has been written over the tables meanwhile.      *)
GuestDataIntact ==
  \A v \in Vcpus : at[v] \in {"task", "report", "wfi"} =>
    \A p \in Stored(v) : LET d == GuestSees(v, p, Framed) IN d # Invalid /\ mem[d.pa] = v
=============================================================================
