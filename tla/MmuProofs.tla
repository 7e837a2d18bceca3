------------------------------ MODULE MmuProofs ------------------------------
(***************************************************************************)
(* Both sets of tables that el2_main builds implement the abstract address *)
(* map, for every table size, pool size, image layout and sequence of      *)
(* stage-2 builds, and whatever the guests do afterwards.                  *)
(***************************************************************************)
EXTENDS GuestMemory, PageTableProofs

Calls == [ipa : Nat, pa : Nat, vm_size : Nat, vm_count : Nat, guard_bytes : Nat,
          read : BOOLEAN, write : BOOLEAN, exec : BOOLEAN]

(* The inductive invariant: types of what the mapping loops compute with,  *)
(* and tables that are well formed and have hung only where el2_main has.  *)
MmuInv ==
  /\ sizes \in [Sections -> Nat] /\ range \in Ranges
  /\ cur \in Int /\ call \in Calls /\ vm \in Nat
  /\ el2 \in TableSets(El2L2Max, El2L3Max, El2Descs) /\ WellFormed(el2)
  /\ s2 \in TableSets(S2L2Max, S2L3Max, S2Descs) /\ WellFormed(s2)
  /\ el2.hung => pc = "hang"
  /\ s2.hung => pc = "hang"

-----------------------------------------------------------------------------
(* Every page number, out of range ones included, has a place. *)
LEMMA PathInPaths == ASSUME NEW page \in Int PROVE Path(page) \in Paths
<1>1. \A x \in Int : x % Entries \in Index
  BY EntriesAssumption DEF Index
<1>2. Entries * Entries \in Nat \ {0}
  BY EntriesAssumption
<1>3. \A x \in Int, n \in Nat \ {0} : x \div n \in Int
  OBVIOUS
<1>4. page \div Entries \in Int /\ page \div (Entries * Entries) \in Int
  BY <1>2, <1>3, EntriesAssumption
<1> QED BY <1>1, <1>4 DEF Path, Paths, L1Index, L2Index, L3Index

(* Address arithmetic stays in the integers. *)
LEMMA Arithmetic ==
  /\ \A a \in Int : align_up(a) \in Int /\ PageOf(a) \in Int
  /\ \A a, n \in Int : AfterGuard(a, n) \in Int
<1>1. \A x \in Int : x \div PageSize \in Int
  BY MmuAssumption
<1>2. PageSize \in Int
  BY MmuAssumption
<1>3. \A a \in Int : align_up(a) \in Int /\ PageOf(a) \in Int
  BY <1>1, <1>2 DEF align_up, PageOf
<1> QED BY <1>2, <1>3 DEF AfterGuard

(* Each section starts one guard page after the one before it. *)
LEMMA SectionFacts ==
  ASSUME NEW f \in [Sections -> Nat]
  PROVE  /\ SectionStart(f)[1] = RamBase
         /\ \A k \in 1 .. 4 : SectionStart(f)[k + 1] = AfterGuard(SectionStart(f)[k], f[k])
         /\ \A k \in Sections : f[k] \in Int /\ SectionStart(f)[k] \in Int
<1> DEFINE rodata == AfterGuard(RamBase, f[1])
           data == AfterGuard(rodata, f[2])
           bss == AfterGuard(data, f[3])
           stack == AfterGuard(bss, f[4])
<1>1. /\ RamBase \in Int
      /\ f[1] \in Int /\ f[2] \in Int /\ f[3] \in Int /\ f[4] \in Int /\ f[5] \in Int
  BY MmuAssumption DEF Sections
<1>2. SectionStart(f) = <<RamBase, rodata, data, bss, stack>>
  BY DEF SectionStart
<1>3. rodata \in Int
  BY <1>1, Arithmetic
<1>4. rodata = AfterGuard(RamBase, f[1])
  OBVIOUS
<1> HIDE DEF rodata
<1>5. data \in Int
  BY <1>1, <1>3, Arithmetic
<1>6. data = AfterGuard(rodata, f[2])
  OBVIOUS
<1> HIDE DEF data
<1>7. bss \in Int
  BY <1>1, <1>5, Arithmetic
<1>8. bss = AfterGuard(data, f[3])
  OBVIOUS
<1> HIDE DEF bss
<1>9. stack \in Int
  BY <1>1, <1>7, Arithmetic
<1>10. stack = AfterGuard(bss, f[4])
  OBVIOUS
<1> HIDE DEF stack
<1>11. \A k \in 1 .. 4 : SectionStart(f)[k + 1] = AfterGuard(SectionStart(f)[k], f[k])
  <2> SUFFICES ASSUME NEW k \in 1 .. 4
               PROVE  SectionStart(f)[k + 1] = AfterGuard(SectionStart(f)[k], f[k])
    OBVIOUS
  <2>1. k = 1 \/ k = 2 \/ k = 3 \/ k = 4
    OBVIOUS
  <2> QED BY <1>2, <1>4, <1>6, <1>8, <1>10, <2>1
<1> QED BY <1>1, <1>2, <1>3, <1>5, <1>7, <1>9, <1>11 DEF Sections

(* The ranges that el2_main maps. *)
LEMMA RangeTypes ==
  ASSUME sizes \in [Sections -> Nat], NEW k \in Ranges
  PROVE  /\ MapRange[k].start \in Int /\ PageOf(MapRange[k].start) \in Int
         /\ \A p \in Int : El2Desc(MapRange[k], p) \in El2Descs
<1>1. \A s \in Sections : SectionStart(sizes)[s] \in Int
  BY SectionFacts
<1>2. CASE k = 6
  <2>1. MapRange[k] = [start |-> UartBase, size |-> PageSize, attr |-> "device", ro |-> FALSE, exec |-> FALSE]
    BY <1>2 DEF MapRange, Ranges
  <2>2. UartBase \in Int
    BY MmuAssumption
  <2> QED BY <2>1, <2>2, Arithmetic DEF El2Desc, El2Descs
<1>3. CASE k # 6
  <2>1. k \in Sections
    BY <1>3 DEF Ranges, Sections
  <2>2. MapRange[k] = [start |-> SectionStart(sizes)[k], size |-> sizes[k], attr |-> "normal",
                    ro |-> k <= 2, exec |-> k = 1]
    BY <1>3 DEF MapRange, Ranges
  <2>3. SectionStart(sizes)[k] \in Int /\ PageOf(SectionStart(sizes)[k]) \in Int
    BY <1>1, <2>1, Arithmetic
  <2>4. (k <= 2) \in BOOLEAN /\ (k = 1) \in BOOLEAN
    OBVIOUS
  <2>5. ASSUME NEW p \in Int
        PROVE  El2Desc(MapRange[k], p) \in El2Descs
    <3>1. El2Desc(MapRange[k], p) = [pa |-> p, attr |-> "normal", ro |-> k <= 2, exec |-> k = 1]
      BY <2>2 DEF El2Desc
    <3> QED BY <2>4, <3>1 DEF El2Descs
  <2> QED BY <2>2, <2>3, <2>5
<1> QED BY <1>2, <1>3

(* The slots of a stage-2 build. *)
LEMMA SlotTypes ==
  ASSUME NEW c \in Calls, NEW n \in Nat
  PROVE  /\ SlotFirst(c, n) \in Int
         /\ \A p \in Int : S2Desc(c, n, p) \in S2Descs
<1>1. c.ipa \in Int /\ c.pa \in Int /\ align_up(c.vm_size) \in Int /\ align_up(c.guard_bytes) \in Int
  BY Arithmetic DEF Calls
<1>2. \A x, y \in Int : x * y \in Int /\ x + y \in Int
  OBVIOUS
<1>3. SlotOffset(c, n) \in Int
  <2> DEFINE slot == align_up(c.vm_size) + align_up(c.guard_bytes)
  <2>1. slot \in Int
    BY <1>1
  <2> HIDE DEF slot
  <2>2. n * slot \in Int
    BY <2>1, <1>2
  <2> QED BY <2>2 DEF SlotOffset, slot
<1>4. SlotFirst(c, n) \in Int /\ PageOf(c.pa + SlotOffset(c, n)) \in Int
  <2>1. c.ipa + SlotOffset(c, n) \in Int /\ c.pa + SlotOffset(c, n) \in Int
    BY <1>1, <1>2, <1>3
  <2> QED BY <2>1, Arithmetic DEF SlotFirst
<1>5. c.read \in BOOLEAN /\ c.write \in BOOLEAN /\ c.exec \in BOOLEAN
  BY DEF Calls
<1> QED BY <1>4, <1>5 DEF S2Desc, S2Descs

(* The argument records, the one of no call included. *)
LEMMA CallTypes == NoCall \in Calls /\ \A c \in S2Calls : c \in Calls
<1>1. \A c \in S2Calls : c \in Calls
  BY MmuAssumption DEF Calls
<1>2. MainCall \in Calls
  BY <1>1, MmuAssumption
<1> QED BY <1>1, <1>2 DEF NoCall, Calls

-----------------------------------------------------------------------------
(* One step of the set-up on EL2's tables, and on the stage-2 tables: they *)
(* are left alone, cleared, given one page, or stopped.                    *)
Left(t, u) == u = t
Cleared(t, u) == ~t.hung /\ ~u.hung /\ \A q \in Paths : Walk(u, q) = Invalid
Mapped(t, u, D) ==
  /\ ~t.hung /\ ~u.hung
  /\ \E p \in Paths, d \in D : \A q \in Paths : Walk(u, q) = IF q = p THEN d ELSE Walk(t, q)
Stopped(t, u) == u.hung /\ SameWalk(t, u)
TableStep(t, u, D) == Left(t, u) \/ Cleared(t, u) \/ Mapped(t, u, D) \/ Stopped(t, u)

(* Either builder's next page. *)
LEMMA MapPageStep ==
  ASSUME NEW a \in Nat, NEW b \in Nat, NEW D, NEW t \in TableSets(a, b, D), WellFormed(t), ~t.hung,
         NEW page \in Int, NEW d \in D
  PROVE  /\ map_page(t, page, d) \in TableSets(a, b, D)
         /\ WellFormed(map_page(t, page, d))
         /\ TableStep(t, map_page(t, page, d), D)
<1> DEFINE u == map_path(t, Path(page), d)
<1>1. Path(page) \in Paths
  BY PathInPaths
<1>2. /\ u \in TableSets(a, b, D) /\ WellFormed(u)
      /\ u.hung => SameWalk(t, u)
      /\ ~u.hung => \A q \in Paths : Walk(u, q) = IF q = Path(page) THEN d ELSE Walk(t, q)
  BY <1>1, MapPathSetsOnePage
<1>3. u = map_page(t, page, d)
  BY DEF map_page
<1> HIDE DEF u
<1>4. CASE u.hung
  BY <1>2, <1>3, <1>4 DEF TableStep, Stopped
<1>5. CASE ~u.hung
  BY <1>1, <1>2, <1>3, <1>5 DEF TableStep, Mapped
<1> QED BY <1>4, <1>5

(* The invariant, and what a step does to the tables. *)
StepFacts ==
  /\ MmuInv'
  /\ TableStep(el2, el2', El2Descs)
  /\ TableStep(s2, s2', S2Descs)

(* The pool sizes are natural numbers. *)
LEMMA PoolSizes == {El2L2Max, El2L3Max, S2L2Max, S2L3Max} \subseteq Nat
BY MmuAssumption

(* The steps that build and enable EL2's own map. *)
LEMMA El2Steps ==
  ASSUME MmuInv, El2MmuInit \/ El2MapPage \/ El2MapReturn \/ el2_mmu_enable
  PROVE  StepFacts
<1>1. CASE El2MmuInit
  <2>1. /\ el2' \in TableSets(El2L2Max, El2L3Max, El2Descs) /\ WellFormed(el2')
        /\ el2'.hung = el2.hung /\ \A q \in Paths : Walk(el2', q) = Invalid
    BY <1>1, ResetWellFormed, PoolSizes DEF MmuInv, El2MmuInit
  <2>2. ~el2.hung /\ ~s2.hung
    BY <1>1 DEF MmuInv, El2MmuInit
  <2>3. cur' \in Int
    BY <1>1, RangeTypes DEF MmuInv, El2MmuInit, Ranges
  <2>4. MmuInv'
    BY <1>1, <2>1, <2>2, <2>3 DEF MmuInv, El2MmuInit, s2Vars
  <2> QED BY <1>1, <2>1, <2>2, <2>4 DEF StepFacts, TableStep, Cleared, Left, El2MmuInit, s2Vars
<1>2. CASE El2MapPage
  <2>1. ~el2.hung /\ ~s2.hung
    BY <1>2 DEF MmuInv, El2MapPage
  <2>2. cur \in Int /\ El2Desc(MapRange[range], cur) \in El2Descs
    BY RangeTypes DEF MmuInv
  <2>3. /\ el2' \in TableSets(El2L2Max, El2L3Max, El2Descs) /\ WellFormed(el2')
        /\ TableStep(el2, el2', El2Descs)
    BY <1>2, <2>1, <2>2, MapPageStep, PoolSizes DEF MmuInv, El2MapPage
  <2>4. MmuInv'
    BY <1>2, <2>1, <2>2, <2>3 DEF MmuInv, El2MapPage, s2Vars
  <2> QED BY <1>2, <2>3, <2>4 DEF StepFacts, TableStep, Left, El2MapPage, s2Vars
<1>3. CASE El2MapReturn
  <2>1. range < 6 => range + 1 \in Ranges /\ PageOf(MapRange[range + 1].start) \in Int
    BY RangeTypes DEF MmuInv, Ranges
  <2>2. ~el2.hung /\ ~s2.hung
    BY <1>3 DEF MmuInv, El2MapReturn
  <2>3. MmuInv'
    BY <1>3, <2>1, <2>2 DEF MmuInv, El2MapReturn, s2Vars
  <2> QED BY <1>3, <2>3 DEF StepFacts, TableStep, Left, El2MapReturn, s2Vars
<1>4. CASE el2_mmu_enable
  <2>1. ~el2.hung /\ ~s2.hung
    BY <1>4 DEF MmuInv, el2_mmu_enable
  <2>2. MmuInv'
    BY <1>4, <2>1 DEF MmuInv, el2_mmu_enable, s2Vars
  <2> QED BY <1>4, <2>2 DEF StepFacts, TableStep, Left, el2_mmu_enable, s2Vars
<1> QED BY <1>1, <1>2, <1>3, <1>4

(* The steps of s2_build_tables_identity. *)
LEMMA S2Steps ==
  ASSUME MmuInv, (\E c \in S2Calls : S2BuildStart(c)) \/ S2MapPage \/ S2SlotDone
  PROVE  StepFacts
<1>1. ASSUME NEW c \in S2Calls, S2BuildStart(c)
      PROVE  StepFacts
  <2>1. ~el2.hung /\ ~s2.hung
    BY <1>1 DEF MmuInv, S2BuildStart
  <2>2. c \in Calls /\ 0 \in Nat /\ SlotFirst(c, 0) \in Int
    BY CallTypes, SlotTypes
  <2>3. CASE c.vm_count = 0 \/ c.vm_size = 0
    <3>1. MmuInv'
      BY <1>1, <2>1, <2>3 DEF MmuInv, S2BuildStart
    <3> QED BY <1>1, <2>3, <3>1 DEF StepFacts, TableStep, Left, S2BuildStart
  <2>4. CASE ~(c.vm_count = 0 \/ c.vm_size = 0)
    <3>1. s2' = tables_reset(s2)
      BY <1>1, <2>4 DEF S2BuildStart
    <3>2. /\ s2' \in TableSets(S2L2Max, S2L3Max, S2Descs) /\ WellFormed(s2')
          /\ s2'.hung = s2.hung /\ \A q \in Paths : Walk(s2', q) = Invalid
      BY <3>1, ResetWellFormed, PoolSizes DEF MmuInv
    <3>3. MmuInv'
      BY <1>1, <2>1, <2>2, <2>4, <3>2 DEF MmuInv, S2BuildStart
    <3> QED BY <1>1, <2>1, <3>2, <3>3 DEF StepFacts, TableStep, Cleared, Left, S2BuildStart
  <2> QED BY <2>3, <2>4
<1>2. CASE S2MapPage
  <2>1. ~el2.hung /\ ~s2.hung
    BY <1>2 DEF MmuInv, S2MapPage
  <2>2. cur \in Int /\ S2Desc(call, vm, cur) \in S2Descs
    BY SlotTypes DEF MmuInv
  <2>3. /\ s2' \in TableSets(S2L2Max, S2L3Max, S2Descs) /\ WellFormed(s2')
        /\ TableStep(s2, s2', S2Descs)
    BY <1>2, <2>1, <2>2, MapPageStep, PoolSizes DEF MmuInv, S2MapPage
  <2>4. MmuInv'
    BY <1>2, <2>1, <2>2, <2>3 DEF MmuInv, S2MapPage
  <2> QED BY <1>2, <2>3, <2>4 DEF StepFacts, TableStep, Left, S2MapPage
<1>3. CASE S2SlotDone
  <2>1. ~el2.hung /\ ~s2.hung
    BY <1>3 DEF MmuInv, S2SlotDone
  <2>2. vm + 1 \in Nat /\ SlotFirst(call, vm + 1) \in Int
    BY SlotTypes DEF MmuInv
  <2>3. MmuInv'
    BY <1>3, <2>1, <2>2 DEF MmuInv, S2SlotDone
  <2> QED BY <1>3, <2>3 DEF StepFacts, TableStep, Left, S2SlotDone
<1> QED BY <1>1, <1>2, <1>3

(* Every other step leaves both sets of tables alone: the registers, the   *)
(* vCPUs, the guests, and the places where nothing runs any more.          *)
LEMMA OtherSteps ==
  ASSUME MmuInv, [MemNext]_memVars,
         ~(El2MmuInit \/ El2MapPage \/ El2MapReturn \/ el2_mmu_enable),
         ~((\E c \in S2Calls : S2BuildStart(c)) \/ S2MapPage \/ S2SlotDone)
  PROVE  StepFacts
<1>1. CASE s2_program_regs_and_enable \/ InitVcpus
  <2>1. /\ UNCHANGED <<sizes, el2, s2, range, call, vm, cur>>
        /\ ~el2.hung /\ ~s2.hung
    BY <1>1 DEF MmuInv, s2_program_regs_and_enable, InitVcpus
  <2>2. MmuInv'
    BY <2>1 DEF MmuInv
  <2> QED BY <2>1, <2>2 DEF StepFacts, TableStep, Left
<1>2. CASE UNCHANGED mmuVars
  <2>1. MmuInv'
    BY <1>2 DEF MmuInv, mmuVars
  <2> QED BY <1>2, <2>1 DEF StepFacts, TableStep, Left, mmuVars
<1>3. s2_program_regs_and_enable \/ InitVcpus \/ UNCHANGED mmuVars
  BY DEF MemNext, MmuNext, BootStep, Hung, GuestTask, GuestReport, GuestYield, Halted, memVars
<1> QED BY <1>1, <1>2, <1>3

(* Hence every step of the system keeps the invariant. *)
LEMMA MemStepFacts == ASSUME MmuInv, [MemNext]_memVars PROVE StepFacts
BY El2Steps, S2Steps, OtherSteps

(* bss_clear leaves well-formed tables. *)
LEMMA MmuInitInv == MemInit => MmuInv
<1> SUFFICES ASSUME MemInit PROVE MmuInv
  OBVIOUS
<1>1. sizes \in [Sections -> Nat]
  BY MmuAssumption DEF MemInit, MmuInit, Layouts, Sections
<1>2. /\ el2 \in TableSets(El2L2Max, El2L3Max, El2Descs) /\ WellFormed(el2) /\ ~el2.hung
      /\ s2 \in TableSets(S2L2Max, S2L3Max, S2Descs) /\ WellFormed(s2) /\ ~s2.hung
  BY ZeroWellFormed, PoolSizes DEF MemInit, MmuInit
<1> QED BY <1>1, <1>2, CallTypes DEF MemInit, MmuInit, MmuInv, Ranges

(* The tables stay well formed in every behaviour of the system. *)
THEOREM TablesStayWellFormed == MemSpec => []MmuInv
<1>1. MmuInv /\ [MemNext]_memVars => MmuInv'
  BY MemStepFacts DEF StepFacts
<1> QED BY <1>1, MmuInitInv, PTL DEF MemSpec

-----------------------------------------------------------------------------
(* EL2's stage-1 tables, walked by the processor, are the abstract map     *)
(* that el2_map_range sets page by page.                                   *)
THEOREM El2MapRefinement == MemSpec => El2TablesImplementMap
<1>1. MemInit => El2AsMap!Init
  <2> SUFFICES ASSUME MemInit PROVE El2AsMap!Init
    OBVIOUS
  <2>1. ~el2.hung /\ el2.hung \in BOOLEAN /\ \A q \in Paths : Walk(el2, q) = Invalid
    BY ZeroWellFormed, PoolSizes DEF MemInit, MmuInit, ZeroTables
  <2> QED BY <2>1 DEF El2AsMap!Init, El2AsMap!Empty
<1>2. MmuInv /\ [MemNext]_memVars => [El2AsMap!Next]_El2AsMap!mapVars
  <2> SUFFICES ASSUME MmuInv, [MemNext]_memVars
               PROVE  El2AsMap!Next \/ UNCHANGED El2AsMap!mapVars
    OBVIOUS
  <2>1. TableStep(el2, el2', El2Descs) /\ el2.hung \in BOOLEAN /\ el2'.hung \in BOOLEAN
    BY MemStepFacts, FieldTypes, PoolSizes DEF StepFacts, MmuInv
  <2>2. CASE Left(el2, el2')
    BY <2>2 DEF Left, El2AsMap!mapVars
  <2>3. CASE Cleared(el2, el2')
    BY <2>1, <2>3 DEF Cleared, El2AsMap!Next, El2AsMap!Clear, El2AsMap!Empty
  <2>4. CASE Mapped(el2, el2', El2Descs)
    <3>1. PICK p \in Paths, d \in El2Descs :
            \A q \in Paths : Walk(el2', q) = IF q = p THEN d ELSE Walk(el2, q)
      BY <2>4 DEF Mapped
    <3>2. el2'.hung = el2.hung /\ ~el2.hung
      BY <2>1, <2>4 DEF Mapped
    <3>3. CASE Walk(el2, p) = d
      <4>1. \A q \in Paths : Walk(el2', q) = Walk(el2, q)
        BY <3>1, <3>3
      <4> QED BY <3>2, <4>1 DEF El2AsMap!mapVars
    <3>4. CASE Walk(el2, p) # d
      <4>1. El2AsMap!Changed = {p}
        BY <3>1, <3>4 DEF El2AsMap!Changed
      <4> QED BY <3>1, <3>2, <4>1 DEF El2AsMap!Next, El2AsMap!Set
    <3> QED BY <3>3, <3>4
  <2>5. CASE Stopped(el2, el2')
    BY <2>1, <2>5 DEF Stopped, SameWalk, El2AsMap!Next, El2AsMap!Stop
  <2> QED BY <2>1, <2>2, <2>3, <2>4, <2>5 DEF TableStep
<1> QED BY <1>1, <1>2, TablesStayWellFormed, PTL DEF MemSpec, El2TablesImplementMap, El2AsMap!Spec

(* The stage-2 tables are one too, although a later build starts from      *)
(* pools that still hold an earlier one.                                   *)
THEOREM S2MapRefinement == MemSpec => S2TablesImplementMap
<1>1. MemInit => S2AsMap!Init
  <2> SUFFICES ASSUME MemInit PROVE S2AsMap!Init
    OBVIOUS
  <2>1. ~s2.hung /\ s2.hung \in BOOLEAN /\ \A q \in Paths : Walk(s2, q) = Invalid
    BY ZeroWellFormed, PoolSizes DEF MemInit, MmuInit, ZeroTables
  <2> QED BY <2>1 DEF S2AsMap!Init, S2AsMap!Empty
<1>2. MmuInv /\ [MemNext]_memVars => [S2AsMap!Next]_S2AsMap!mapVars
  <2> SUFFICES ASSUME MmuInv, [MemNext]_memVars
               PROVE  S2AsMap!Next \/ UNCHANGED S2AsMap!mapVars
    OBVIOUS
  <2>1. TableStep(s2, s2', S2Descs) /\ s2.hung \in BOOLEAN /\ s2'.hung \in BOOLEAN
    BY MemStepFacts, FieldTypes, PoolSizes DEF StepFacts, MmuInv
  <2>2. CASE Left(s2, s2')
    BY <2>2 DEF Left, S2AsMap!mapVars
  <2>3. CASE Cleared(s2, s2')
    BY <2>1, <2>3 DEF Cleared, S2AsMap!Next, S2AsMap!Clear, S2AsMap!Empty
  <2>4. CASE Mapped(s2, s2', S2Descs)
    <3>1. PICK p \in Paths, d \in S2Descs :
            \A q \in Paths : Walk(s2', q) = IF q = p THEN d ELSE Walk(s2, q)
      BY <2>4 DEF Mapped
    <3>2. s2'.hung = s2.hung /\ ~s2.hung
      BY <2>1, <2>4 DEF Mapped
    <3>3. CASE Walk(s2, p) = d
      <4>1. \A q \in Paths : Walk(s2', q) = Walk(s2, q)
        BY <3>1, <3>3
      <4> QED BY <3>2, <4>1 DEF S2AsMap!mapVars
    <3>4. CASE Walk(s2, p) # d
      <4>1. S2AsMap!Changed = {p}
        BY <3>1, <3>4 DEF S2AsMap!Changed
      <4> QED BY <3>1, <3>2, <4>1 DEF S2AsMap!Next, S2AsMap!Set
    <3> QED BY <3>3, <3>4
  <2>5. CASE Stopped(s2, s2')
    BY <2>1, <2>5 DEF Stopped, SameWalk, S2AsMap!Next, S2AsMap!Stop
  <2> QED BY <2>1, <2>2, <2>3, <2>4, <2>5 DEF TableStep
<1> QED BY <1>1, <1>2, TablesStayWellFormed, PTL DEF MemSpec, S2TablesImplementMap, S2AsMap!Spec
=============================================================================
