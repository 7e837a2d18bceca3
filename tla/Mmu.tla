--------------------------------- MODULE Mmu ---------------------------------
(***************************************************************************)
(* The memory set-up of el2_main: EL2's own stage-1 map of the image that  *)
(* linker.ld lays out, then the stage-2 slots of the guests, then the      *)
(* registers, and the translation base that every vCPU is given.           *)
(*                                                                         *)
(* An address counts units of which PageSize make a page, so that section  *)
(* ends need not fall on page boundaries.  Mapping loops take one step per *)
(* page, because a pool may run out in the middle.                         *)
(***************************************************************************)
EXTENDS PageTable, FiniteSets

CONSTANTS
  PageSize,       \* units in a page
  SectionSizes,   \* section 1..5 -> its possible sizes
  RamBase,        \* where the image is linked (0x40000000)
  UartBase,       \* UART_PA
  El2L2Max, El2L3Max,   \* pool sizes of el2_mmu.c (16 and 64)
  S2L2Max, S2L3Max,     \* pool sizes of s2_mmu.c (16 and 1024)
  S2Calls,        \* argument records for s2_build_tables_identity
  MainCall,       \* the one that el2_main passes
  MaxBuilds,      \* how often the stage-2 tables may be built (1 in el2_main)
  Vcpus           \* the vCPUs

ASSUME MmuAssumption ==
  /\ PageSize \in Nat \ {0}
  /\ SectionSizes \in [1 .. 5 -> SUBSET Nat]
  /\ {RamBase, UartBase, El2L2Max, El2L3Max, S2L2Max, S2L3Max, MaxBuilds} \subseteq Nat
  /\ RamBase % PageSize = 0 /\ UartBase % PageSize = 0
  /\ MainCall \in S2Calls
  /\ S2Calls \subseteq [ipa : Nat, pa : Nat, vm_size : Nat, vm_count : Nat, guard_bytes : Nat,
                        read : BOOLEAN, write : BOOLEAN, exec : BOOLEAN]
  /\ \A c \in S2Calls : c.ipa % PageSize = 0 /\ c.pa % PageSize = 0

VARIABLES
  sizes,          \* section -> its size in this build
  el2, s2,        \* the two sets of tables
  pc,             \* place in el2_main
  range,          \* the el2_map_range call being served
  call, vm,       \* the s2_build_tables_identity call and slot being served
  cur,            \* page cursor of either loop
  builds,         \* stage-2 builds so far
  vttbr,          \* VTTBR_EL2
  vcpu_vttbr      \* vCPU -> arch.vttbr_el2

mmuVars == <<sizes, el2, s2, pc, range, call, vm, cur, builds, vttbr, vcpu_vttbr>>

Sections == 1 .. 5   \* .text, .rodata, .data, .bss, the EL2 stack
Ranges == 1 .. 6     \* el2_main maps the sections, then the UART
Pages == 0 .. Entries * Entries * Entries - 1
PCs == {"el2_init", "el2_map", "el2_enable", "s2_build", "s2_map", "s2_built",
        "vcpus", "guests", "hang"}
NoCall == [MainCall EXCEPT !.vm_count = 0]
NoVttbr == [vmid |-> 0, baddr |-> "reset"]

align_up(a) == ((a + PageSize - 1) \div PageSize) * PageSize
PageOf(a) == a \div PageSize

(* linker.ld: each section starts one guard page after the page that the   *)
(* one before it ends in.                                                  *)
AfterGuard(start, size) == align_up(start + size) + PageSize
SectionStart(f) ==
  LET rodata == AfterGuard(RamBase, f[1])
      data == AfterGuard(rodata, f[2])
      bss == AfterGuard(data, f[3])
      stack == AfterGuard(bss, f[4])
  IN <<RamBase, rodata, data, bss, stack>>

(* The section sizes that a build of the image can have. *)
Layouts ==
  {f \in [Sections -> UNION {SectionSizes[k] : k \in Sections}] :
     \A k \in Sections : f[k] \in SectionSizes[k]}

(* The units that three levels reach (512 GB in the source), and the units *)
(* that a stage-2 call asks for, guards included.                          *)
Reach == Entries * Entries * Entries * PageSize
Asked(c) == c.vm_count * (align_up(c.vm_size) + align_up(c.guard_bytes))

(* The UART lies below RAM; the image and the slots lie within the reach   *)
(* of the tables, so no page wraps onto another one's entry.               *)
ASSUME ReachAssumption ==
  /\ UartBase + PageSize <= RamBase
  /\ \A f \in Layouts : align_up(SectionStart(f)[5] + f[5]) <= Reach
  /\ \A c \in S2Calls : c.ipa + Asked(c) <= Reach /\ c.pa + Asked(c) <= Reach

(* The arguments of el2_main's el2_map_range calls. *)
MapRange ==
  [k \in Ranges |->
     IF k = 6 THEN [start |-> UartBase, size |-> PageSize, attr |-> "device", ro |-> FALSE, exec |-> FALSE]
     ELSE [start |-> SectionStart(sizes)[k], size |-> sizes[k], attr |-> "normal",
           ro |-> k <= 2, exec |-> k = 1]]

MmuInit ==
  /\ sizes \in Layouts
  /\ el2 = ZeroTables(El2L2Max, El2L3Max)
  /\ s2 = ZeroTables(S2L2Max, S2L3Max)
  /\ pc = "el2_init"
  /\ range = 1 /\ call = NoCall /\ vm = 0 /\ cur = 0 /\ builds = 0
  /\ vttbr = NoVttbr
  /\ vcpu_vttbr = [v \in Vcpus |-> NoVttbr]

s2Vars == <<s2, call, vm, builds, vttbr, vcpu_vttbr>>

-----------------------------------------------------------------------------
El2MmuInit ==
  /\ pc = "el2_init"
  /\ el2' = tables_reset(el2)
  /\ pc' = "el2_map"
  /\ cur' = PageOf(MapRange[1].start)
  /\ UNCHANGED <<sizes, range, s2Vars>>

(* Fault: a last page that the range does not fill is left out. *)
LimitRoundedDown(r) == IF r.size = 0 THEN 0 ELSE PageOf(r.start + r.size)

(* One past the last page of el2_map_range's loop; no page if size is 0. *)
RangeLimit(r) == IF r.size = 0 THEN 0 ELSE PageOf(align_up(r.start + r.size))

(* The page's descriptor.  The map is the identity. *)
El2Desc(r, page) == [pa |-> page, attr |-> r.attr, ro |-> r.ro, exec |-> r.exec]

El2MapPage ==
  /\ pc = "el2_map"
  /\ cur < RangeLimit(MapRange[range])
  /\ el2' = map_page(el2, cur, El2Desc(MapRange[range], cur))
  /\ cur' = cur + 1
  /\ pc' = IF el2'.hung THEN "hang" ELSE pc
  /\ UNCHANGED <<sizes, range, s2Vars>>

(* el2_map_range returns; el2_main calls it for the next range. *)
El2MapReturn ==
  /\ pc = "el2_map"
  /\ cur >= RangeLimit(MapRange[range])
  /\ IF range < 6
     THEN range' = range + 1 /\ cur' = PageOf(MapRange[range + 1].start) /\ UNCHANGED pc
     ELSE pc' = "el2_enable" /\ UNCHANGED <<range, cur>>
  /\ UNCHANGED <<sizes, el2, s2Vars>>

(* From here on EL2 itself runs on its map. *)
el2_mmu_enable ==
  /\ pc = "el2_enable"
  /\ pc' = "s2_build"
  /\ UNCHANGED <<sizes, el2, range, cur, s2Vars>>

-----------------------------------------------------------------------------
(* Fault: the guard is not rounded up to pages. *)
SlotOffsetUnaligned(c, n) == n * (align_up(c.vm_size) + c.guard_bytes)

SlotOffset(c, n) == n * (align_up(c.vm_size) + align_up(c.guard_bytes))

(* The pages of slot n: s2_map_identity_range's loop bounds. *)
SlotFirst(c, n) == PageOf(c.ipa + SlotOffset(c, n))
SlotLimit(c, n) == PageOf(align_up(c.ipa + SlotOffset(c, n) + align_up(c.vm_size)))

S2Desc(c, n, page) ==
  [pa |-> PageOf(c.pa + SlotOffset(c, n)) + (page - SlotFirst(c, n)),
   read |-> c.read, write |-> c.write, exec |-> c.exec]

(* s2_build_tables_identity up to its loop.  Without a VM or a size it     *)
(* returns at once and leaves the tables of an earlier call.               *)
S2BuildStart(c) ==
  /\ pc = "s2_build" \/ pc = "s2_built"
  /\ builds < MaxBuilds
  /\ builds' = builds + 1
  /\ IF c.vm_count = 0 \/ c.vm_size = 0
     THEN pc' = "s2_built" /\ UNCHANGED <<s2, call, vm, cur>>
     ELSE /\ s2' = tables_reset(s2)
          /\ call' = c /\ vm' = 0 /\ cur' = SlotFirst(c, 0)
          /\ pc' = "s2_map"
  /\ UNCHANGED <<sizes, el2, range, vttbr, vcpu_vttbr>>

S2MapPage ==
  /\ pc = "s2_map"
  /\ cur < SlotLimit(call, vm)
  /\ s2' = map_page(s2, cur, S2Desc(call, vm, cur))
  /\ cur' = cur + 1
  /\ pc' = IF s2'.hung THEN "hang" ELSE pc
  /\ UNCHANGED <<sizes, el2, range, call, vm, builds, vttbr, vcpu_vttbr>>

(* A slot is complete: the next one, or return. *)
S2SlotDone ==
  /\ pc = "s2_map"
  /\ cur >= SlotLimit(call, vm)
  /\ IF vm + 1 < call.vm_count
     THEN vm' = vm + 1 /\ cur' = SlotFirst(call, vm + 1) /\ UNCHANGED pc
     ELSE pc' = "s2_built" /\ UNCHANGED <<vm, cur>>
  /\ UNCHANGED <<sizes, el2, s2, range, call, builds, vttbr, vcpu_vttbr>>

(* One VMID and one root for everybody. *)
s2_program_regs_and_enable ==
  /\ pc = "s2_built"
  /\ vttbr' = [vmid |-> 1, baddr |-> "s2_l1"]
  /\ pc' = "vcpus"
  /\ UNCHANGED <<sizes, el2, s2, range, call, vm, cur, builds, vcpu_vttbr>>

(* el2_main's vttbr_snapshot and the vcpu_init_slot calls. *)
InitVcpus ==
  /\ pc = "vcpus"
  /\ vcpu_vttbr' = [v \in Vcpus |-> vttbr]
  /\ pc' = "guests"
  /\ UNCHANGED <<sizes, el2, s2, range, call, vm, cur, builds, vttbr>>

(* The wfi loop of el2_pt_hang and s2_pt_panic. *)
Hung == pc = "hang" /\ UNCHANGED mmuVars

BootStep ==
  \/ El2MmuInit \/ El2MapPage \/ El2MapReturn \/ el2_mmu_enable
  \/ (\E c \in S2Calls : S2BuildStart(c)) \/ S2MapPage \/ S2SlotDone
  \/ s2_program_regs_and_enable \/ InitVcpus

(* No function writes a table once the guests run; their frames: GuestMemory. *)
MmuNext == BootStep \/ Hung

MmuSpec == MmuInit /\ [][MmuNext]_mmuVars

-----------------------------------------------------------------------------
El2Descs == [pa : Int, attr : {"normal", "device"}, ro : BOOLEAN, exec : BOOLEAN]
S2Descs == [pa : Int, read : BOOLEAN, write : BOOLEAN, exec : BOOLEAN]
(* A zero descriptor is none that a mapping loop writes. *)
ASSUME InvalidAssumption == Invalid \notin El2Descs /\ Invalid \notin S2Descs

Vttbrs == {NoVttbr, [vmid |-> 1, baddr |-> "s2_l1"]}

MmuTypeOK ==
  /\ \A k \in Sections : sizes[k] \in SectionSizes[k]
  /\ el2 \in TableSets(El2L2Max, El2L3Max, El2Descs)
  /\ s2 \in TableSets(S2L2Max, S2L3Max, S2Descs)
  /\ pc \in PCs /\ range \in Ranges /\ cur \in Nat
  /\ call \in S2Calls \cup {NoCall} /\ vm \in 0 .. call.vm_count /\ builds \in 0 .. MaxBuilds
  /\ vttbr \in Vttbrs /\ vcpu_vttbr \in [Vcpus -> Vttbrs]

(* Once EL2 runs on its map, the processor finds every unit of the image   *)
(* and the UART with the attributes of its own section, although sections  *)
(* end inside a page and may be empty; nothing else is mapped, guard pages *)
(* included, and nothing is both writable and executable.                  *)
El2MapMatchesImage ==
  pc \notin {"el2_init", "el2_map", "hang"} =>
    LET R == MapRange
        Covers(k, p) == R[k].start < (p + 1) * PageSize /\ p * PageSize < R[k].start + R[k].size
    IN \A p \in Pages :
         LET d == WalkPage(el2, p)
             users == {k \in Ranges : R[k].size > 0 /\ Covers(k, p)}
         IN /\ \A k \in users : d = El2Desc(R[k], p)
            /\ d # Invalid => users # {} /\ (d.ro \/ ~d.exec)

(* A finished build holds vm_count slots of vm_size, translated by one     *)
(* offset, and between one slot and the next at least guard_bytes that     *)
(* nothing maps, whatever an earlier build left in the pools.              *)
SlotsAsRequested ==
  pc \in {"s2_built", "vcpus", "guests"} =>
    LET mapped == {p \in Pages : WalkPage(s2, p) # Invalid}
        ends == {p \in mapped : p + 1 \notin mapped}
    IN /\ Cardinality(mapped) * PageSize = call.vm_count * align_up(call.vm_size)
       /\ \A p \in mapped : WalkPage(s2, p).pa - p = PageOf(call.pa) - PageOf(call.ipa)
       /\ call.guard_bytes > 0 => Cardinality(ends) = call.vm_count
       /\ \A e \in ends : \A p \in mapped :
            p > e => (p - e - 1) * PageSize >= call.guard_bytes

(* Tables that the mapped pages need: one L2 per gigabyte, one L3 per 2 MB. *)
Needed(t) ==
  LET mapped == {q \in Paths : Walk(t, q) # Invalid}
  IN [l2 |-> Cardinality({q[1] : q \in mapped}),
      l3 |-> Cardinality({<<q[1], q[2]>> : q \in mapped})]

(* The pools are never wasted: a build uses exactly the tables its pages   *)
(* need, so it gives up only on a page for which every table of a pool is  *)
(* already in use by other pages.                                          *)
PoolsNotWasted ==
  \A t \in {el2, s2} :
    LET n == Needed(t)
    IN IF t.hung THEN n.l2 = t.l2_max \/ n.l3 = t.l3_max
       ELSE n.l2 = t.l2_used /\ n.l3 = t.l3_used

(* Builder and processor agree: walked by the processor, each set of       *)
(* tables behaves as a map that is cleared and set page by page.           *)
El2AsMap == INSTANCE AddressMap WITH
  Places <- Paths, Descs <- El2Descs, map <- [q \in Paths |-> Walk(el2, q)], stopped <- el2.hung
S2AsMap == INSTANCE AddressMap WITH
  Places <- Paths, Descs <- S2Descs, map <- [q \in Paths |-> Walk(s2, q)], stopped <- s2.hung
El2TablesImplementMap == El2AsMap!Spec
S2TablesImplementMap == S2AsMap!Spec

-----------------------------------------------------------------------------
(* What vCPU v's translation base makes of a page. *)
GuestWalk(v, p) == IF vcpu_vttbr[v].baddr = "s2_l1" THEN WalkPage(s2, p) ELSE Invalid

Reachable(v) == {GuestWalk(v, p).pa : p \in {q \in Pages : GuestWalk(v, q) # Invalid}}
Writable(v) ==
  {GuestWalk(v, p).pa : p \in {q \in Pages : GuestWalk(v, q) # Invalid /\ GuestWalk(v, q).write}}
ImagePages == PageOf(RamBase) .. RangeLimit(MapRange[5]) - 1

(* README.md of the repository: each guest receives a private carve-out.   *)
(* What one guest can write, no other guest can reach, and it is no part   *)
(* of the hypervisor's own image.                                          *)
PrivateCarveOut ==
  pc = "guests" =>
    \A v \in Vcpus : /\ Writable(v) \cap ImagePages = {}
                     /\ \A w \in Vcpus \ {v} : Writable(v) \cap Reachable(w) = {}
=============================================================================
