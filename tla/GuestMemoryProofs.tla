-------------------------- MODULE GuestMemoryProofs --------------------------
(***************************************************************************)
(* What the memory set-up gives EL2 and the guests, for every image, every *)
(* table size and every sequence of stage-2 calls: the processor's map of  *)
(* EL2 is the image that linker.ld laid out, the stage-2 map is the slots  *)
(* that were asked for, and the guests' data and reports are safe in it.   *)
(***************************************************************************)
EXTENDS MmuProofs, FiniteSetTheorems

-----------------------------------------------------------------------------
(* Division by a positive number: quotient and remainder, *)
LEMMA DivBounds ==
  ASSUME NEW m \in Nat \ {0}, NEW a \in Int
  PROVE  /\ a \div m \in Int /\ a % m \in 0 .. m - 1
         /\ \E q \in Int, r \in 0 .. m - 1 : q = a \div m /\ r = a % m /\ a = q * m + r
         /\ (a \div m) * m <= a /\ a < (a \div m) * m + m
<1> DEFINE q == a \div m
           r == a % m
<1>1. q \in Int /\ r \in 0 .. m - 1
  OBVIOUS
<1>2. a = q * m + r
  OBVIOUS
<1> HIDE DEF q, r
<1>3. q * m \in Int
  BY <1>1
<1>4. q * m <= a /\ a < q * m + m
  BY <1>1, <1>2, <1>3
<1>5. q = a \div m /\ r = a % m
  BY DEF q, r
<1> QED BY <1>1, <1>2, <1>4, <1>5

(* which are unique, *)
LEMMA DivUnique ==
  ASSUME NEW m \in Nat \ {0}, NEW b \in Int, NEW r \in 0 .. m - 1
  PROVE  (b * m + r) \div m = b
OBVIOUS

(* and a multiplication keeps the order. *)
LEMMA Scale ==
  ASSUME NEW m \in Nat \ {0}, NEW p \in Int, NEW q \in Int
  PROVE  /\ p * m \in Int /\ (p + 1) * m = p * m + m
         /\ p < q <=> p * m + m <= q * m
         /\ p < q <=> p * m < q * m
OBVIOUS

(* Dividing twice is dividing by the square. *)
LEMMA DivDiv ==
  ASSUME NEW m \in Nat \ {0}, NEW p \in Int
  PROVE  p \div (m * m) = (p \div m) \div m
<1> DEFINE a == p \div m
           b == a \div m
           r == p % m
           s == a % m
<1>1. p = a * m + r /\ r \in 0 .. m - 1 /\ a \in Int
  OBVIOUS
<1> HIDE DEF a, r
<1>2. a = b * m + s /\ s \in 0 .. m - 1 /\ b \in Int
  BY <1>1
<1> HIDE DEF b, s
<1>3. s * m + r \in 0 .. m * m - 1 /\ m * m \in Nat \ {0}
  BY <1>1, <1>2
<1>4. p = b * (m * m) + (s * m + r)
  BY <1>1, <1>2
<1>5. \A n \in Nat \ {0}, t \in Int : t \in 0 .. n - 1 => (b * n + t) \div n = b
  BY <1>2
<1>6. p \div (m * m) = b
  BY <1>3, <1>4, <1>5
<1> QED BY <1>6 DEF a, b

(* Within the reach of the tables no two pages share a place. *)
LEMMA PathInjective ==
  ASSUME NEW p \in Pages, NEW q \in Pages, Path(p) = Path(q)
  PROVE  p = q
<1> DEFINE a == p \div Entries
           b == q \div Entries
<1> USE EntriesAssumption
<1>1. p \in Int /\ q \in Int /\ p >= 0 /\ q >= 0
      /\ p < (Entries * Entries) * Entries /\ q < (Entries * Entries) * Entries
  BY DEF Pages
<1>2. /\ L1Index(p) = L1Index(q) /\ L2Index(p) = L2Index(q) /\ L3Index(p) = L3Index(q)
  BY DEF Path
<1>3. ASSUME NEW x \in Int, NEW y \in Int,
             x \div Entries = y \div Entries, x % Entries = y % Entries
      PROVE  x = y
  <2>1. PICK k \in Int, r \in 0 .. Entries - 1 :
          k = x \div Entries /\ r = x % Entries /\ x = k * Entries + r
    BY DivBounds
  <2>2. PICK l \in Int, t \in 0 .. Entries - 1 :
          l = y \div Entries /\ t = y % Entries /\ y = l * Entries + t
    BY DivBounds
  <2>3. k = l /\ r = t
    BY <1>3, <2>1, <2>2
  <2> QED BY <2>1, <2>2, <2>3
<1>4. a \in Int /\ b \in Int
  BY <1>1, DivBounds
<1>5. (a \div Entries) % Entries = (b \div Entries) % Entries
  BY <1>1, <1>2, DivDiv DEF L1Index
<1>6. a \in 0 .. Entries * Entries - 1 /\ b \in 0 .. Entries * Entries - 1
  <2>1. \A x, m \in Int : m > 0 /\ x >= 0 /\ x < m * Entries =>
                           x \div Entries \in 0 .. m - 1
    OBVIOUS
  <2>2. Entries * Entries \in Int /\ Entries * Entries > 0
    OBVIOUS
  <2> QED BY <1>1, <2>1, <2>2
<1>7. a % Entries = b % Entries
  BY <1>2 DEF L2Index
<1> HIDE DEF a, b
<1>8. a \div Entries \in Index /\ b \div Entries \in Index
  BY <1>6 DEF Index
<1>9. \A x \in Index : x % Entries = x
  BY DEF Index
<1>10. a \div Entries = b \div Entries
  BY <1>5, <1>8, <1>9
<1>11. a = b
  BY <1>3, <1>4, <1>7, <1>10
<1> QED BY <1>1, <1>2, <1>3, <1>11 DEF a, b, L3Index

(* Addresses and pages: rounding down, *)
LEMMA Floor ==
  ASSUME NEW a \in Int, NEW p \in Int
  PROVE  /\ PageOf(a) \in Int
         /\ PageOf(a) <= p <=> a < (p + 1) * PageSize
         /\ PageOf(a) * PageSize <= a /\ a < PageOf(a) * PageSize + PageSize
         /\ a % PageSize = 0 => PageOf(a) * PageSize = a
<1> DEFINE c == PageOf(a)
<1>1. PageSize \in Nat \ {0}
  BY MmuAssumption
<1>2. c \in Int /\ c * PageSize <= a /\ a < c * PageSize + PageSize
  BY <1>1, DivBounds DEF PageOf
<1>4. a % PageSize = 0 => c * PageSize = a
  <2>1. PICK q \in Int, r \in 0 .. PageSize - 1 :
          q = a \div PageSize /\ r = a % PageSize /\ a = q * PageSize + r
    BY <1>1, DivBounds
  <2>2. c = q
    BY <2>1 DEF PageOf
  <2> HIDE DEF c
  <2>3. r = 0 => a = q * PageSize
    BY <1>1, <2>1
  <2> QED BY <2>1, <2>2, <2>3, Zenon
<1> HIDE DEF c
<1>3. c <= p <=> a < (p + 1) * PageSize
  <2>1. CASE c <= p
    <3>1. ~(p < c) /\ (p + 1) * PageSize = p * PageSize + PageSize /\ p * PageSize \in Int
      BY <1>1, <1>2, <2>1, Scale
    <3>2. c = p \/ c * PageSize + PageSize <= p * PageSize
      BY <1>1, <1>2, <2>1, Scale
    <3> QED BY <1>1, <1>2, <2>1, <3>1, <3>2
  <2>2. CASE p < c
    <3>1. p * PageSize + PageSize <= c * PageSize /\ (p + 1) * PageSize = p * PageSize + PageSize
      BY <1>1, <1>2, <2>2, Scale
    <3>2. c * PageSize \in Int /\ p * PageSize \in Int
      BY <1>1, <1>2, Scale
    <3> QED BY <1>1, <1>2, <2>2, <3>1, <3>2
  <2> QED BY <1>2, <2>1, <2>2
<1> QED BY <1>2, <1>3, <1>4 DEF c

(* and rounding up. *)
LEMMA Ceiling ==
  ASSUME NEW a \in Int, NEW p \in Int
  PROVE  /\ align_up(a) \in Int /\ PageOf(align_up(a)) \in Int
         /\ align_up(a) = PageOf(align_up(a)) * PageSize
         /\ p < PageOf(align_up(a)) <=> p * PageSize < a
         /\ a <= align_up(a) /\ align_up(a) < a + PageSize
         /\ align_up(a) % PageSize = 0
<1> DEFINE c == (a + PageSize - 1) \div PageSize
<1>1. PageSize \in Nat \ {0} /\ a + PageSize - 1 \in Int
  BY MmuAssumption
<1>2. c \in Int /\ c * PageSize <= a + PageSize - 1 /\ a + PageSize - 1 < c * PageSize + PageSize
  BY <1>1, DivBounds
<1>3. align_up(a) = c * PageSize
  BY DEF align_up
<1> HIDE DEF c
<1>4. PageOf(c * PageSize) = c /\ (c * PageSize) % PageSize = 0 /\ c * PageSize \in Int
  BY <1>1, <1>2 DEF PageOf
<1>5. p < c <=> p * PageSize < a
  <2>1. CASE p < c
    <3>1. p * PageSize + PageSize <= c * PageSize /\ p * PageSize \in Int
      BY <1>1, <1>2, <2>1, Scale
    <3> QED BY <1>1, <1>2, <1>4, <2>1, <3>1
  <2>2. CASE ~(p < c)
    <3>1. c * PageSize <= p * PageSize /\ p * PageSize \in Int
      <4>1. CASE c = p
        BY <1>4, <4>1
      <4>2. CASE c < p
        BY <1>1, <1>2, <4>2, Scale
      <4> QED BY <1>2, <2>2, <4>1, <4>2
    <3> QED BY <1>1, <1>2, <1>4, <2>2, <3>1
  <2> QED BY <2>1, <2>2
<1> QED BY <1>1, <1>2, <1>3, <1>4, <1>5

-----------------------------------------------------------------------------
(* The sections of any image are in order, a guard page apart, above RAM's *)
(* start and within the reach of the tables.                               *)
LEMMA SectionOrder ==
  ASSUME NEW f \in Layouts
  PROVE  /\ f \in [Sections -> Nat]
         /\ \A k \in Sections :
              /\ SectionStart(f)[k] \in Int /\ f[k] \in Nat
              /\ RamBase <= SectionStart(f)[k]
              /\ align_up(SectionStart(f)[k] + f[k]) \in Int
              /\ SectionStart(f)[k] + f[k] <= align_up(SectionStart(f)[k] + f[k])
              /\ align_up(SectionStart(f)[k] + f[k]) <= Reach
         /\ \A j, k \in Sections :
              j < k => align_up(SectionStart(f)[j] + f[j]) + PageSize <= SectionStart(f)[k]
<1> DEFINE s == SectionStart(f)
           e == [k \in Sections |-> align_up(s[k] + f[k])]
<1>1. f \in [Sections -> Nat]
  BY MmuAssumption DEF Layouts, Sections
<1>2. /\ s[1] = RamBase
      /\ \A k \in 1 .. 4 : s[k + 1] = AfterGuard(s[k], f[k])
      /\ \A k \in Sections : f[k] \in Int /\ s[k] \in Int
  BY <1>1, SectionFacts
<1> HIDE DEF s
<1>3. \A k \in Sections : f[k] \in Nat /\ s[k] + f[k] \in Int
  BY <1>1, <1>2
<1>4. \A k \in Sections : e[k] \in Int /\ s[k] + f[k] <= e[k]
  BY <1>3, Ceiling
<1>5. \A k \in 1 .. 4 : s[k + 1] = e[k] + PageSize
  BY <1>2 DEF AfterGuard, Sections
<1>6. PageSize \in Nat /\ RamBase \in Nat
  BY MmuAssumption
<1>7. e[5] <= Reach /\ Reach \in Int
  BY ReachAssumption, MmuAssumption, EntriesAssumption DEF s, Sections, Reach
<1>8. \A k \in Sections : e[k] = align_up(s[k] + f[k])
  OBVIOUS
<1> HIDE DEF e
<1>9. /\ s[2] = e[1] + PageSize /\ s[3] = e[2] + PageSize
      /\ s[4] = e[3] + PageSize /\ s[5] = e[4] + PageSize
  BY <1>5
<1>10. \A k \in Sections : s[k] <= e[k] /\ s[k] \in Int /\ e[k] \in Int
  BY <1>2, <1>3, <1>4
<1>11. /\ s[1] <= e[1] /\ s[2] <= e[2] /\ s[3] <= e[3] /\ s[4] <= e[4] /\ s[5] <= e[5]
       /\ s[1] \in Int /\ s[2] \in Int /\ s[3] \in Int /\ s[4] \in Int /\ s[5] \in Int
       /\ e[1] \in Int /\ e[2] \in Int /\ e[3] \in Int /\ e[4] \in Int /\ e[5] \in Int
  BY <1>10 DEF Sections
<1>12. \A j, k \in Sections : j < k => e[j] + PageSize <= s[k]
  <2> SUFFICES ASSUME NEW j \in Sections, NEW k \in Sections, j < k
               PROVE  e[j] + PageSize <= s[k]
    OBVIOUS
  <2>1. j \in {1, 2, 3, 4} /\ k \in {2, 3, 4, 5}
    BY DEF Sections
  <2> QED BY <1>6, <1>9, <1>11, <2>1
<1>13. \A k \in Sections : RamBase <= s[k] /\ e[k] <= Reach
  <2> SUFFICES ASSUME NEW k \in Sections
               PROVE  RamBase <= s[k] /\ e[k] <= Reach
    OBVIOUS
  <2>1. k \in {1, 2, 3, 4, 5}
    BY DEF Sections
  <2> QED BY <1>2, <1>6, <1>7, <1>9, <1>11, <2>1
<1> QED BY <1>1, <1>2, <1>3, <1>4, <1>8, <1>12, <1>13 DEF s

(* Page p holds a part of range k. *)
InRange(k, p) ==
  /\ MapRange[k].size > 0
  /\ MapRange[k].start < (p + 1) * PageSize
  /\ p * PageSize < MapRange[k].start + MapRange[k].size

(* The fields of a range. *)
LEMMA RangeFields ==
  ASSUME sizes \in Layouts, NEW k \in Ranges
  PROVE  /\ MapRange[k].start \in Nat /\ MapRange[k].size \in Nat
         /\ MapRange[k].exec => MapRange[k].ro
         /\ \A p \in Int : El2Desc(MapRange[k], p) \in El2Descs
         /\ \/ k = 6 /\ MapRange[k].start = UartBase /\ MapRange[k].size = PageSize
            \/ k \in Sections /\ MapRange[k].start = SectionStart(sizes)[k] /\ MapRange[k].size = sizes[k]
<1>1. sizes \in [Sections -> Nat]
  BY SectionOrder
<1>2. CASE k = 6
  BY <1>1, <1>2, RangeTypes, MmuAssumption DEF MapRange, Ranges
<1>3. CASE k # 6
  <2>1. k \in Sections
    BY <1>3 DEF Ranges, Sections
  <2>2. MapRange[k] = [start |-> SectionStart(sizes)[k], size |-> sizes[k], attr |-> "normal",
                    ro |-> k <= 2, exec |-> k = 1]
    BY <1>3 DEF MapRange, Ranges
  <2>3. SectionStart(sizes)[k] \in Int /\ RamBase <= SectionStart(sizes)[k] /\ sizes[k] \in Nat
    BY <2>1, SectionOrder
  <2>4. SectionStart(sizes)[k] \in Nat
    BY <2>3, MmuAssumption
  <2>5. MapRange[k].exec => MapRange[k].ro
    <3>1. MapRange[k].exec = (k = 1) /\ MapRange[k].ro = (k <= 2)
      BY <2>2
    <3>2. k = 1 => k <= 2
      OBVIOUS
    <3> QED BY <3>1, <3>2, Zenon
  <2> QED BY <1>1, <2>1, <2>2, <2>3, <2>4, <2>5, RangeTypes
<1> QED BY <1>2, <1>3

(* el2_map_range's loop visits exactly the pages of its range, *)
LEMMA RangeLoop ==
  ASSUME sizes \in Layouts, NEW k \in Ranges, NEW p \in Int
  PROVE  InRange(k, p) <=> PageOf(MapRange[k].start) <= p /\ p < RangeLimit(MapRange[k])
<1>1. MapRange[k].start \in Nat /\ MapRange[k].size \in Nat
  BY RangeFields
<1>2. PageOf(MapRange[k].start) \in Int
      /\ (PageOf(MapRange[k].start) <= p <=> MapRange[k].start < (p + 1) * PageSize)
  <2>1. MapRange[k].start \in Int
    BY <1>1
  <2> HIDE DEF MapRange
  <2> QED BY <2>1, Floor
<1>3. CASE MapRange[k].size = 0
  <2>1. PageOf(MapRange[k].start) >= 0
    BY <1>1, MmuAssumption DEF PageOf
  <2>2. RangeLimit(MapRange[k]) = 0
    BY <1>3 DEF RangeLimit
  <2>3. ~(PageOf(MapRange[k].start) <= p /\ p < 0)
    BY <1>2, <2>1
  <2> QED BY <1>3, <2>2, <2>3 DEF InRange
<1>4. CASE MapRange[k].size > 0
  <2>1. RangeLimit(MapRange[k]) = PageOf(align_up(MapRange[k].start + MapRange[k].size))
    BY <1>1, <1>4 DEF RangeLimit
  <2>2. p < RangeLimit(MapRange[k]) <=> p * PageSize < MapRange[k].start + MapRange[k].size
    BY <1>1, <2>1, Ceiling
  <2> QED BY <1>2, <1>4, <2>2 DEF InRange
<1> QED BY <1>1, <1>3, <1>4

(* which the tables reach, *)
LEMMA RangesInReach ==
  ASSUME sizes \in Layouts, NEW k \in Ranges, NEW p \in Int, InRange(k, p)
  PROVE  p \in Pages
<1> DEFINE N == Entries * Entries * Entries
<1>1. PageSize \in Nat \ {0} /\ N \in Nat /\ Reach = N * PageSize
      /\ RamBase \in Int /\ UartBase \in Int
  BY MmuAssumption, EntriesAssumption DEF Reach
<1>2. Pages = 0 .. N - 1
  BY DEF Pages
<1> HIDE DEF N
<1>3. MapRange[k].start + MapRange[k].size <= Reach
  <2>1. CASE k = 6
    <3>1. RamBase <= Reach
      <4>1. /\ SectionStart(sizes)[5] \in Int /\ sizes[5] \in Nat
            /\ RamBase <= SectionStart(sizes)[5]
            /\ align_up(SectionStart(sizes)[5] + sizes[5]) \in Int
            /\ SectionStart(sizes)[5] + sizes[5] <= align_up(SectionStart(sizes)[5] + sizes[5])
            /\ align_up(SectionStart(sizes)[5] + sizes[5]) <= Reach
        BY SectionOrder DEF Sections
      <4>2. Reach \in Int
        BY <1>1
      <4> QED BY <1>1, <4>1, <4>2
    <3>2. Reach \in Int
      BY <1>1
    <3> QED BY <1>1, <2>1, <3>1, <3>2, RangeFields, ReachAssumption DEF Sections
  <2>2. CASE k # 6
    <3>1. k \in Sections /\ MapRange[k].start = SectionStart(sizes)[k] /\ MapRange[k].size = sizes[k]
      BY <2>2, RangeFields
    <3>2. /\ SectionStart(sizes)[k] \in Int /\ sizes[k] \in Nat
          /\ align_up(SectionStart(sizes)[k] + sizes[k]) \in Int
          /\ SectionStart(sizes)[k] + sizes[k] <= align_up(SectionStart(sizes)[k] + sizes[k])
          /\ align_up(SectionStart(sizes)[k] + sizes[k]) <= Reach
      BY <3>1, SectionOrder
    <3>3. Reach \in Int
      BY <1>1
    <3> QED BY <3>1, <3>2, <3>3
  <2> QED BY <2>1, <2>2
<1>4. MapRange[k].start \in Nat /\ MapRange[k].size \in Nat
  BY RangeFields
<1>5. p < N
  <2>1. p * PageSize < N * PageSize
    BY <1>1, <1>3, <1>4 DEF InRange
  <2> QED BY <1>1, <2>1, Scale
<1>6. 0 <= p
  <2>1. 0 < (p + 1) * PageSize
    BY <1>1, <1>4 DEF InRange
  <2>2. 0 < p + 1
    BY <1>1, <2>1
  <2> QED BY <2>2
<1> QED BY <1>1, <1>2, <1>5, <1>6

(* and no two ranges share a page. *)
LEMMA RangesDisjoint ==
  ASSUME sizes \in Layouts, NEW j \in Ranges, NEW k \in Ranges, NEW p \in Int,
         InRange(j, p), InRange(k, p), j < k
  PROVE  FALSE
<1>1. /\ MapRange[j].start \in Nat /\ MapRange[j].size \in Nat
      /\ MapRange[k].start \in Nat /\ MapRange[k].size \in Nat
  BY RangeFields
<1>2. PageSize \in Nat \ {0} /\ RamBase \in Int /\ UartBase \in Int
  BY MmuAssumption
<1>3. (p + 1) * PageSize = p * PageSize + PageSize /\ p * PageSize \in Int
  BY <1>2, Scale
<1>4. j \in Sections /\ MapRange[j].start = SectionStart(sizes)[j] /\ MapRange[j].size = sizes[j]
  <2>1. j # 6
    BY DEF Ranges
  <2> QED BY <2>1, RangeFields
<1>5. /\ RamBase <= SectionStart(sizes)[j] /\ SectionStart(sizes)[j] \in Int
      /\ sizes[j] \in Nat
      /\ align_up(SectionStart(sizes)[j] + sizes[j]) \in Int
      /\ SectionStart(sizes)[j] + sizes[j] <= align_up(SectionStart(sizes)[j] + sizes[j])
  BY <1>4, SectionOrder
<1>6. CASE k = 6
  <2>1. PICK u \in Int : UartBase = u * PageSize
    <3>1. UartBase % PageSize = 0
      BY MmuAssumption
    <3>2. PageOf(UartBase) \in Int /\ PageOf(UartBase) * PageSize = UartBase
      BY <1>2, <3>1, Floor
    <3> QED BY <3>2
  <2>2. PICK r \in Int : RamBase = r * PageSize
    <3>1. RamBase % PageSize = 0
      BY MmuAssumption
    <3>2. PageOf(RamBase) \in Int /\ PageOf(RamBase) * PageSize = RamBase
      BY <1>2, <3>1, Floor
    <3> QED BY <3>2
  <2>3. r * PageSize < (p + 1) * PageSize /\ p * PageSize < (u + 1) * PageSize
    <3>1. MapRange[k].start = UartBase /\ MapRange[k].size = PageSize
      BY <1>6, RangeFields DEF Sections
    <3>2. (u + 1) * PageSize = UartBase + PageSize
      BY <1>2, <2>1, Scale
    <3>3. RamBase < (p + 1) * PageSize /\ p * PageSize < UartBase + PageSize
      <4>1. RamBase < (p + 1) * PageSize
        BY <1>2, <1>3, <1>4, <1>5 DEF InRange
      <4> QED BY <3>1, <4>1 DEF InRange
    <3> QED BY <2>1, <2>2, <3>2, <3>3
  <2>4. r < p + 1 /\ p < u + 1
    BY <1>2, <2>3, Scale
  <2>5. u * PageSize + PageSize <= r * PageSize
    BY <2>1, <2>2, ReachAssumption
  <2>6. u < r
    BY <1>2, <2>5, Scale
  <2> QED BY <2>4, <2>6
<1>7. CASE k # 6
  <2>1. k \in Sections /\ MapRange[k].start = SectionStart(sizes)[k]
    BY <1>7, RangeFields
  <2>2. align_up(SectionStart(sizes)[j] + sizes[j]) + PageSize <= SectionStart(sizes)[k]
    BY <1>4, <2>1, SectionOrder
  <2>3. SectionStart(sizes)[k] < p * PageSize + PageSize
    BY <1>3, <2>1 DEF InRange
  <2>4. p * PageSize < SectionStart(sizes)[j] + sizes[j]
    BY <1>4 DEF InRange
  <2>5. SectionStart(sizes)[k] \in Int
    BY <1>1, <2>1
  <2> QED BY <1>2, <1>3, <1>5, <2>2, <2>3, <2>4, <2>5
<1> QED BY <1>6, <1>7

-----------------------------------------------------------------------------
(* Installing a page within reach changes what the processor finds there   *)
(* and nowhere else.                                                       *)
LEMMA MapPageWalk ==
  ASSUME NEW a \in Nat, NEW b \in Nat, NEW D, NEW t \in TableSets(a, b, D), WellFormed(t), ~t.hung,
         NEW page \in Pages, NEW d \in D, ~map_page(t, page, d).hung
  PROVE  \A p \in Pages :
           WalkPage(map_page(t, page, d), p) = IF p = page THEN d ELSE WalkPage(t, p)
<1> DEFINE u == map_path(t, Path(page), d)
<1>1. Pages \subseteq Int
  BY EntriesAssumption DEF Pages
<1>2. Path(page) \in Paths
  BY <1>1, PathInPaths
<1>3. u = map_page(t, page, d)
  BY DEF map_page
<1>4. ~u.hung => \A q \in Paths : Walk(u, q) = IF q = Path(page) THEN d ELSE Walk(t, q)
  BY <1>2, MapPathSetsOnePage
<1> HIDE DEF u
<1> SUFFICES ASSUME NEW p \in Pages
             PROVE  Walk(u, Path(p)) = IF p = page THEN d ELSE Walk(t, Path(p))
  BY <1>3 DEF WalkPage
<1>5. Path(p) \in Paths
  BY <1>1, PathInPaths
<1>6. Path(p) = Path(page) => p = page
  BY PathInjective
<1> QED BY <1>3, <1>4, <1>5, <1>6

(* The pages of range k that el2_main has mapped so far. *)
Done(k, p) == InRange(k, p) /\ (pc = "el2_map" => k < range \/ (k = range /\ p < cur))

(* The inductive invariant of EL2's own map: the loops have mapped the     *)
(* pages behind their cursor, each with its range's descriptor, and none   *)
(* ahead of it.  That no later range undoes an earlier one is              *)
(* RangesDisjoint, that no page wraps onto another is RangesInReach.       *)
ImageInv ==
  /\ sizes \in Layouts
  /\ pc = "el2_init" => range = 1
  /\ pc = "el2_map" => PageOf(MapRange[range].start) <= cur
  /\ pc \notin {"el2_init", "hang"} =>
       \A p \in Pages :
         /\ \A k \in Ranges : Done(k, p) => WalkPage(el2, p) = El2Desc(MapRange[k], p)
         /\ WalkPage(el2, p) # Invalid => \E k \in Ranges : Done(k, p)

(* The set-up of EL2's map keeps it. *)
LEMMA ImageMapping ==
  ASSUME MmuInv, ImageInv, El2MmuInit \/ El2MapPage \/ El2MapReturn
  PROVE  ImageInv'
<1> USE DEF ImageInv
<1>1. Pages \subseteq Int
  BY EntriesAssumption DEF Pages
<1>2. /\ sizes' = sizes /\ MapRange' = MapRange /\ \A k, p : InRange(k, p)' = InRange(k, p)
  BY DEF El2MmuInit, El2MapPage, El2MapReturn, MapRange, InRange
<1>3. range \in Ranges /\ cur \in Int
  BY DEF MmuInv
<1>4. CASE El2MmuInit
  <2>1. pc' = "el2_map" /\ range' = 1 /\ cur' = PageOf(MapRange[1].start)
    BY <1>4 DEF El2MmuInit
  <2>2. \A p \in Pages : WalkPage(el2, p)' = Invalid
    <3>1. \A q \in Paths : Walk(el2', q) = Invalid
      BY <1>4, ResetWellFormed, PoolSizes DEF MmuInv, El2MmuInit
    <3> QED BY <1>1, <3>1, PathInPaths DEF WalkPage
  <2>3. ASSUME NEW p \in Pages, NEW k \in Ranges PROVE ~Done(k, p)'
    <3>1. p \in Int /\ k >= 1 /\ PageOf(MapRange[1].start) \in Int
      BY <1>1, RangeTypes, SectionOrder DEF Ranges
    <3>2. InRange(1, p) => PageOf(MapRange[1].start) <= p
      BY <3>1, RangeLoop DEF Ranges
    <3> QED BY <1>2, <2>1, <3>1, <3>2 DEF Done, Ranges
  <2>4. PageOf(MapRange[1].start) <= PageOf(MapRange[1].start)
    <3>1. PageOf(MapRange[1].start) \in Int
      BY RangeTypes, SectionOrder DEF Ranges
    <3> QED BY <3>1
  <2> QED BY <1>2, <2>1, <2>2, <2>3, <2>4
<1>5. CASE El2MapPage
  <2>1. /\ pc = "el2_map" /\ cur < RangeLimit(MapRange[range]) /\ cur' = cur + 1 /\ range' = range
        /\ el2' = map_page(el2, cur, El2Desc(MapRange[range], cur))
        /\ pc' = IF el2'.hung THEN "hang" ELSE "el2_map"
    BY <1>5 DEF El2MapPage
  <2>2. PageOf(MapRange[range].start) <= cur /\ PageOf(MapRange[range].start) \in Int
    BY <1>3, <2>1, RangeTypes, SectionOrder
  <2>3. InRange(range, cur) /\ cur \in Pages
    BY <1>3, <2>1, <2>2, RangeLoop, RangesInReach
  <2>4. CASE el2'.hung
    BY <1>2, <2>1, <2>4
  <2>5. CASE ~el2'.hung
    <3>1. El2Desc(MapRange[range], cur) \in El2Descs
      BY <1>3, RangeFields
    <3>2. ~el2.hung
      BY <2>1 DEF MmuInv
    <3>3. \A p \in Pages :
            WalkPage(el2', p) = IF p = cur THEN El2Desc(MapRange[range], cur) ELSE WalkPage(el2, p)
      BY <2>1, <2>3, <2>5, <3>1, <3>2, MapPageWalk, PoolSizes DEF MmuInv
    <3>4. pc' = "el2_map"
      BY <2>1, <2>5
    <3>5. PageOf(MapRange'[range'].start) <= cur'
      BY <1>2, <1>3, <2>1, <2>2
    <3>6. ASSUME NEW p \in Pages
          PROVE  /\ \A k \in Ranges : Done(k, p)' => WalkPage(el2, p)' = El2Desc(MapRange[k], p)
                 /\ WalkPage(el2, p)' # Invalid => \E k \in Ranges : Done(k, p)'
      <4>1. p \in Int /\ WalkPage(el2, p)' = WalkPage(el2', p)
        BY <1>1 DEF WalkPage
      <4>2. CASE p = cur
        <5>1. ASSUME NEW k \in Ranges, k = range PROVE Done(k, p)'
          BY <1>2, <1>3, <2>1, <2>3, <4>2, <5>1 DEF Done
        <5>2. ASSUME NEW k \in Ranges, Done(k, p)' PROVE k = range
          <6>1. InRange(k, p) /\ InRange(range, p)
            BY <1>2, <2>3, <4>2, <5>2 DEF Done
          <6>2. ~(k < range) /\ ~(range < k)
            BY <1>3, <4>1, <6>1, RangesDisjoint
          <6> QED BY <1>3, <6>2 DEF Ranges
        <5>3. WalkPage(el2, p)' = El2Desc(MapRange[range], p)
          BY <3>3, <4>1, <4>2
        <5>4. \A k \in Ranges : Done(k, p)' => WalkPage(el2, p)' = El2Desc(MapRange[k], p)
          BY <5>2, <5>3
        <5> QED BY <1>3, <5>1, <5>4
      <4>3. CASE p # cur
        <5>1. \A k \in Ranges : Done(k, p)' <=> Done(k, p)
          BY <1>2, <1>3, <2>1, <3>4, <4>1, <4>3 DEF Done
        <5>2. WalkPage(el2, p)' = WalkPage(el2, p)
          BY <3>3, <4>1, <4>3
        <5> QED BY <2>1, <5>1, <5>2
      <4> QED BY <4>2, <4>3
    <3> QED BY <1>2, <3>4, <3>5, <3>6
  <2> QED BY <2>4, <2>5
<1>6. CASE El2MapReturn
  <2>1. /\ pc = "el2_map" /\ cur >= RangeLimit(MapRange[range]) /\ el2' = el2
        /\ \/ /\ range < 6 /\ range' = range + 1 /\ cur' = PageOf(MapRange[range + 1].start)
              /\ pc' = "el2_map"
           \/ /\ range = 6 /\ range' = range /\ cur' = cur /\ pc' = "el2_enable"
    BY <1>3, <1>6 DEF El2MapReturn, Ranges
  <2>2. ASSUME NEW p \in Pages, NEW k \in Ranges PROVE Done(k, p)' <=> Done(k, p)
    <3>1. p \in Int /\ k \in 1 .. 6 /\ range \in 1 .. 6
      BY <1>1, <1>3 DEF Ranges
    <3>2. InRange(range, p) => p < cur
      <4>1. InRange(range, p) => p < RangeLimit(MapRange[range])
        BY <1>3, <3>1, RangeLoop
      <4>2. RangeLimit(MapRange[range]) \in Int
        <5>1. MapRange[range].start + MapRange[range].size \in Int
          BY <1>3, RangeFields
        <5>2. align_up(MapRange[range].start + MapRange[range].size) \in Int
          BY <5>1, Arithmetic
        <5>3. PageOf(align_up(MapRange[range].start + MapRange[range].size)) \in Int
          BY <5>2, Arithmetic
        <5> QED BY <5>3 DEF RangeLimit
      <4> QED BY <1>3, <2>1, <3>1, <4>1, <4>2
    <3>3. CASE range < 6
      <4>1. range + 1 \in Ranges
        BY <3>1, <3>3 DEF Ranges
      <4>2. InRange(range + 1, p) => ~(p < cur')
        <5>1. PageOf(MapRange[range + 1].start) \in Int
          BY <4>1, RangeTypes, SectionOrder
        <5>2. InRange(range + 1, p) => PageOf(MapRange[range + 1].start) <= p
          BY <3>1, <4>1, RangeLoop
        <5> QED BY <2>1, <3>1, <3>3, <5>1, <5>2
      <4> QED BY <1>2, <2>1, <3>1, <3>2, <3>3, <4>2 DEF Done
    <3>4. CASE range = 6
      BY <1>2, <2>1, <3>1, <3>2, <3>4 DEF Done
    <3> QED BY <3>1, <3>3, <3>4
  <2>3. pc' = "el2_map" => PageOf(MapRange'[range'].start) <= cur'
    <3> SUFFICES ASSUME pc' = "el2_map" PROVE PageOf(MapRange[range + 1].start) <= cur'
      BY <1>2, <2>1
    <3>1. PageOf(MapRange[range + 1].start) \in Int
      BY <1>3, <2>1, RangeTypes, SectionOrder DEF Ranges
    <3> QED BY <2>1, <3>1
  <2>4. \A p \in Pages : WalkPage(el2, p)' = WalkPage(el2, p)
    BY <2>1 DEF WalkPage
  <2> QED BY <1>2, <2>1, <2>2, <2>3, <2>4
<1> QED BY <1>4, <1>5, <1>6

(* Every other step leaves EL2's map alone. *)
LEMMA ImageStep ==
  ASSUME MmuInv, ImageInv, [MemNext]_memVars
  PROVE  ImageInv'
<1>1. CASE El2MmuInit \/ El2MapPage \/ El2MapReturn
  BY <1>1, ImageMapping
<1>2. CASE ~(El2MmuInit \/ El2MapPage \/ El2MapReturn)
  <2>1. /\ UNCHANGED <<sizes, el2, range>>
        /\ \/ UNCHANGED <<pc, cur>>
           \/ /\ pc \notin {"el2_init", "el2_map", "hang"}
              /\ pc' \notin {"el2_init", "el2_map"}
    <3>1. CASE el2_mmu_enable \/ s2_program_regs_and_enable \/ InitVcpus
      BY <3>1 DEF el2_mmu_enable, s2_program_regs_and_enable, InitVcpus
    <3>2. CASE (\E c \in S2Calls : S2BuildStart(c)) \/ S2MapPage \/ S2SlotDone
      BY <3>2 DEF S2BuildStart, S2MapPage, S2SlotDone
    <3>3. CASE UNCHANGED mmuVars
      BY <3>3 DEF mmuVars
    <3> QED BY <1>2, <3>1, <3>2, <3>3
            DEF MemNext, MmuNext, BootStep, Hung, GuestTask, GuestReport, GuestYield, Halted, memVars
  <2>2. MapRange' = MapRange /\ \A k, p : InRange(k, p)' = InRange(k, p)
    BY <2>1 DEF MapRange, InRange
  <2>3. \A p \in Pages : WalkPage(el2, p)' = WalkPage(el2, p)
    BY <2>1 DEF WalkPage
  <2>4. CASE UNCHANGED <<pc, cur>>
    BY <2>1, <2>2, <2>3, <2>4 DEF ImageInv, Done
  <2>5. CASE /\ pc \notin {"el2_init", "el2_map", "hang"}
             /\ pc' \notin {"el2_init", "el2_map"}
    BY <2>1, <2>2, <2>3, <2>5 DEF ImageInv, Done
  <2> QED BY <2>1, <2>4, <2>5
<1> QED BY <1>1, <1>2

(* The invariant of EL2's map holds in every behaviour of the system. *)
THEOREM ImageInvariant == MemSpec => []ImageInv
<1>1. MemInit => ImageInv
  BY DEF MemInit, MmuInit, ImageInv
<1>2. MmuInv /\ ImageInv /\ [MemNext]_memVars => ImageInv'
  BY ImageStep
<1> QED BY <1>1, <1>2, TablesStayWellFormed, PTL DEF MemSpec

(* EL2's map is the image, whatever the sizes of its sections: every part  *)
(* of a section is mapped with that section's attributes, guard pages and  *)
(* everything else are not mapped, and nothing is writable and executable. *)
THEOREM El2MapIsTheImage == MemSpec => []El2MapMatchesImage
<1>1. MmuInv /\ ImageInv => El2MapMatchesImage
  <2> SUFFICES ASSUME MmuInv, ImageInv, pc \notin {"el2_init", "el2_map", "hang"},
                      NEW p \in Pages
               PROVE  /\ \A k \in Ranges : InRange(k, p) => WalkPage(el2, p) = El2Desc(MapRange[k], p)
                      /\ WalkPage(el2, p) # Invalid =>
                           /\ \E k \in Ranges : InRange(k, p)
                           /\ WalkPage(el2, p).ro \/ ~WalkPage(el2, p).exec
    BY DEF El2MapMatchesImage, InRange
  <2>1. /\ \A k \in Ranges : InRange(k, p) => WalkPage(el2, p) = El2Desc(MapRange[k], p)
        /\ WalkPage(el2, p) # Invalid => \E k \in Ranges : InRange(k, p)
    BY DEF ImageInv, Done
  <2>2. ASSUME NEW k \in Ranges, InRange(k, p)
        PROVE  WalkPage(el2, p).ro \/ ~WalkPage(el2, p).exec
    <3>1. MapRange[k].exec => MapRange[k].ro
      BY RangeFields DEF ImageInv
    <3> QED BY <2>1, <2>2, <3>1 DEF El2Desc
  <2> QED BY <2>1, <2>2
<1> QED BY <1>1, ImageInvariant, TablesStayWellFormed, PTL

-----------------------------------------------------------------------------
(* Sizes of a stage-2 call in pages. *)
VmPages(c) == PageOf(align_up(c.vm_size))
GuardPages(c) == PageOf(align_up(c.guard_bytes))
Pitch(c) == VmPages(c) + GuardPages(c)

(* The call that is being served or that was served last. *)
KnownCalls == S2Calls \cup {NoCall}

(* Whole pages are rounded to themselves. *)
LEMMA WholePages ==
  ASSUME NEW k \in Int
  PROVE  k * PageSize \in Int /\ PageOf(k * PageSize) = k /\ align_up(k * PageSize) = k * PageSize
<1>1. PageSize \in Nat \ {0}
  BY MmuAssumption
<1>2. k * PageSize \in Int /\ PageOf(k * PageSize) = k
  BY <1>1 DEF PageOf
<1>3. (k * PageSize + (PageSize - 1)) \div PageSize = k
  BY <1>1, DivUnique
<1>4. k * PageSize + PageSize - 1 = k * PageSize + (PageSize - 1)
  BY <1>1, <1>2
<1> QED BY <1>2, <1>3, <1>4 DEF align_up

(* What the arguments of a call amount to in pages. *)
LEMMA CallFacts ==
  ASSUME NEW c \in KnownCalls
  PROVE  /\ c \in Calls
         /\ PageOf(c.ipa) \in Nat /\ c.ipa = PageOf(c.ipa) * PageSize
         /\ PageOf(c.pa) \in Nat /\ c.pa = PageOf(c.pa) * PageSize
         /\ VmPages(c) \in Nat /\ align_up(c.vm_size) = VmPages(c) * PageSize
         /\ GuardPages(c) \in Nat /\ align_up(c.guard_bytes) = GuardPages(c) * PageSize
         /\ c.vm_size > 0 => VmPages(c) > 0
         /\ c.guard_bytes > 0 => GuardPages(c) > 0
         /\ Pitch(c) \in Nat
         /\ c.vm_count \in Nat
<1>1. /\ c \in Calls /\ c.ipa \in Nat /\ c.pa \in Nat /\ c.vm_size \in Nat
      /\ c.vm_count \in Nat /\ c.guard_bytes \in Nat
  BY CallTypes DEF KnownCalls, Calls
<1>2. c.ipa % PageSize = 0 /\ c.pa % PageSize = 0
  <2>1. CASE c \in S2Calls
    BY <2>1, MmuAssumption
  <2>2. CASE c = NoCall
    <3>1. MainCall \in Calls /\ MainCall.ipa % PageSize = 0 /\ MainCall.pa % PageSize = 0
      BY MmuAssumption, CallTypes
    <3>2. NoCall.ipa = MainCall.ipa /\ NoCall.pa = MainCall.pa
      BY <3>1 DEF NoCall, Calls
    <3> QED BY <2>2, <3>1, <3>2
  <2> QED BY <2>1, <2>2 DEF KnownCalls
<1>3. PageSize \in Nat \ {0}
  BY MmuAssumption
<1>4. ASSUME NEW a \in Nat
      PROVE  PageOf(a) \in Nat
  BY <1>3 DEF PageOf
<1>5. ASSUME NEW a \in Nat
      PROVE  /\ PageOf(align_up(a)) \in Nat /\ align_up(a) = PageOf(align_up(a)) * PageSize
             /\ a > 0 => PageOf(align_up(a)) > 0
  <2>1. 0 * PageSize = 0 /\ 0 \in Int
    BY <1>3
  <2>2. /\ align_up(a) \in Int /\ PageOf(align_up(a)) \in Int
        /\ align_up(a) = PageOf(align_up(a)) * PageSize
        /\ 0 < PageOf(align_up(a)) <=> 0 * PageSize < a
        /\ a <= align_up(a)
    BY <2>1, Ceiling
  <2>3. PageOf(align_up(a)) \in Nat
    BY <1>4, <2>2
  <2> QED BY <2>1, <2>2, <2>3
<1>6. PageOf(c.ipa) * PageSize = c.ipa /\ PageOf(c.pa) * PageSize = c.pa
  <2>1. \A a \in Int : a % PageSize = 0 => PageOf(a) * PageSize = a
    BY Floor
  <2>2. c.ipa \in Int /\ c.pa \in Int
    BY <1>1
  <2> QED BY <1>2, <2>1, <2>2
<1>7. /\ VmPages(c) \in Nat /\ align_up(c.vm_size) = VmPages(c) * PageSize
      /\ GuardPages(c) \in Nat /\ align_up(c.guard_bytes) = GuardPages(c) * PageSize
      /\ c.vm_size > 0 => VmPages(c) > 0
      /\ c.guard_bytes > 0 => GuardPages(c) > 0
  BY <1>1, <1>5 DEF VmPages, GuardPages
<1>8. Pitch(c) \in Nat
  BY <1>7 DEF Pitch
<1> QED BY <1>1, <1>4, <1>6, <1>7, <1>8

(* Slot n starts n pitches on and is VmPages long; the map is a shift. *)
LEMMA SlotShape ==
  ASSUME NEW c \in KnownCalls, NEW n \in Nat
  PROVE  /\ n * Pitch(c) \in Nat
         /\ SlotFirst(c, n) = PageOf(c.ipa) + n * Pitch(c)
         /\ SlotLimit(c, n) = SlotFirst(c, n) + VmPages(c)
         /\ \A p \in Int : S2Desc(c, n, p).pa = p + (PageOf(c.pa) - PageOf(c.ipa))
<1> DEFINE I == PageOf(c.ipa)
           A == PageOf(c.pa)
           V == VmPages(c)
           G == GuardPages(c)
           o == n * Pitch(c)
<1>1. /\ I \in Nat /\ c.ipa = I * PageSize /\ A \in Nat /\ c.pa = A * PageSize
      /\ V \in Nat /\ align_up(c.vm_size) = V * PageSize
      /\ G \in Nat /\ align_up(c.guard_bytes) = G * PageSize
      /\ Pitch(c) = V + G /\ Pitch(c) \in Nat
  BY CallFacts DEF Pitch
<1>2. PageSize \in Nat \ {0}
  BY MmuAssumption
<1>3. o \in Nat
  BY <1>1
<1> HIDE DEF I, A, V, G
<1>4. SlotOffset(c, n) = o * PageSize
  <2>1. V * PageSize + G * PageSize = Pitch(c) * PageSize
    BY <1>1, <1>2
  <2>2. n * (Pitch(c) * PageSize) = (n * Pitch(c)) * PageSize
    BY <1>1, <1>2
  <2> QED BY <1>1, <2>1, <2>2 DEF SlotOffset
<1> HIDE DEF o
<1>5. /\ c.ipa + SlotOffset(c, n) = (I + o) * PageSize
      /\ c.pa + SlotOffset(c, n) = (A + o) * PageSize
      /\ c.ipa + SlotOffset(c, n) + align_up(c.vm_size) = (I + o + V) * PageSize
  <2>1. /\ I * PageSize + o * PageSize = (I + o) * PageSize
        /\ A * PageSize + o * PageSize = (A + o) * PageSize
        /\ (I + o) * PageSize + V * PageSize = (I + o + V) * PageSize
    BY <1>1, <1>2, <1>3
  <2> QED BY <1>1, <1>4, <2>1
<1>6. I + o \in Int /\ A + o \in Int /\ I + o + V \in Int
  BY <1>1, <1>3
<1>7. SlotFirst(c, n) = I + o
  BY <1>5, <1>6, WholePages DEF SlotFirst
<1>8. SlotLimit(c, n) = I + o + V
  BY <1>5, <1>6, WholePages DEF SlotLimit
<1>9. PageOf(c.pa + SlotOffset(c, n)) = A + o
  BY <1>5, <1>6, WholePages
<1>10. \A p \in Int : S2Desc(c, n, p).pa = p + (A - I)
  <2> SUFFICES ASSUME NEW p \in Int PROVE S2Desc(c, n, p).pa = p + (A - I)
    OBVIOUS
  <2>1. S2Desc(c, n, p).pa = (A + o) + (p - (I + o))
    BY <1>7, <1>9 DEF S2Desc
  <2> QED BY <1>1, <1>3, <2>1
<1>11. I + o + V = SlotFirst(c, n) + V
  BY <1>7
<1> QED BY <1>3, <1>7, <1>8, <1>10, <1>11 DEF I, A, V, o

(* Page p belongs to slot n of a call, and what the call maps it to: the   *)
(* same page whichever slot it is in.                                      *)
InSlot(c, n, p) == SlotFirst(c, n) <= p /\ p < SlotLimit(c, n)
SlotDesc(c, p) ==
  [pa |-> p + (PageOf(c.pa) - PageOf(c.ipa)), read |-> c.read, write |-> c.write, exec |-> c.exec]

(* The descriptor that s2_map_identity_range writes. *)
LEMMA SlotDescFacts ==
  ASSUME NEW c \in KnownCalls, NEW n \in Nat, NEW p \in Int
  PROVE  /\ S2Desc(c, n, p) = SlotDesc(c, p)
         /\ SlotDesc(c, p) \in S2Descs
         /\ SlotDesc(c, p) # Invalid
<1>1. c \in Calls
  BY CallFacts
<1>2. S2Desc(c, n, p) \in S2Descs
  BY <1>1, SlotTypes
<1>3. S2Desc(c, n, p).pa = p + (PageOf(c.pa) - PageOf(c.ipa))
  BY SlotShape
<1>4. S2Desc(c, n, p) = SlotDesc(c, p)
  BY <1>3 DEF S2Desc, SlotDesc
<1> QED BY <1>2, <1>4, InvalidAssumption

(* Slots and what they are mapped to lie within reach. *)
LEMMA SlotsInReach ==
  ASSUME NEW c \in KnownCalls, NEW n \in Nat, n < c.vm_count, NEW p \in Int, InSlot(c, n, p)
  PROVE  p \in Pages /\ p + (PageOf(c.pa) - PageOf(c.ipa)) \in Pages
<1> DEFINE I == PageOf(c.ipa)
           A == PageOf(c.pa)
           V == VmPages(c)
           G == GuardPages(c)
           N == Entries * Entries * Entries
           w == c.vm_count * Pitch(c)
           o == n * Pitch(c)
<1>1. /\ I \in Nat /\ c.ipa = I * PageSize /\ A \in Nat /\ c.pa = A * PageSize
      /\ V \in Nat /\ align_up(c.vm_size) = V * PageSize
      /\ G \in Nat /\ align_up(c.guard_bytes) = G * PageSize
      /\ Pitch(c) = V + G /\ Pitch(c) \in Nat /\ c.vm_count \in Nat
  BY CallFacts DEF Pitch
<1>2. PageSize \in Nat \ {0} /\ N \in Nat /\ Reach = N * PageSize /\ Pages = 0 .. N - 1
  BY MmuAssumption, EntriesAssumption DEF Reach, Pages
<1>3. c \in S2Calls
  <2>1. NoCall.vm_count = 0
    <3>1. MainCall \in Calls
      BY MmuAssumption, CallTypes
    <3> QED BY <3>1 DEF NoCall, Calls
  <2> QED BY <2>1 DEF KnownCalls
<1>4. SlotFirst(c, n) = I + o /\ SlotLimit(c, n) = I + o + V /\ o \in Nat
  BY SlotShape
<1> HIDE DEF I, A, V, G, N
<1>5. w \in Nat /\ o + Pitch(c) <= w
  <2>1. w \in Nat
    BY <1>1
  <2>2. \A x, y, d \in Nat : x < y => x * d + d <= y * d
    OBVIOUS
  <2> QED BY <1>1, <2>1, <2>2
<1>6. Asked(c) = w * PageSize
  <2>1. V * PageSize + G * PageSize = Pitch(c) * PageSize
    BY <1>1, <1>2
  <2>2. c.vm_count * (Pitch(c) * PageSize) = (c.vm_count * Pitch(c)) * PageSize
    BY <1>1, <1>2
  <2> QED BY <1>1, <2>1, <2>2 DEF Asked
<1> HIDE DEF w, o
<1>7. (I + w) * PageSize <= N * PageSize /\ (A + w) * PageSize <= N * PageSize
  <2>1. c.ipa + Asked(c) <= Reach /\ c.pa + Asked(c) <= Reach
    BY <1>3, ReachAssumption
  <2>2. /\ I * PageSize + w * PageSize = (I + w) * PageSize
        /\ A * PageSize + w * PageSize = (A + w) * PageSize
    BY <1>1, <1>2, <1>5
  <2> QED BY <1>1, <1>2, <1>6, <2>1, <2>2
<1>8. I + w <= N /\ A + w <= N
  <2>1. ASSUME NEW x \in Int, x * PageSize <= N * PageSize PROVE x <= N
    <3>1. ~(N * PageSize < x * PageSize)
      BY <1>2, <2>1
    <3>2. ~(N < x)
      BY <1>2, <3>1, Scale
    <3> QED BY <1>2, <3>2
  <2> QED BY <1>1, <1>5, <1>7, <2>1
<1>9. I + o <= p /\ p < I + o + V
  BY <1>4 DEF InSlot
<1>10. o \in Nat /\ Pitch(c) = V + G
  BY <1>1, <1>4
<1>11. p \in 0 .. N - 1 /\ p + (A - I) \in 0 .. N - 1
  BY <1>1, <1>2, <1>5, <1>8, <1>9, <1>10
<1> QED BY <1>2, <1>11 DEF I, A

(* The pages that s2_build_tables_identity has mapped so far. *)
MappedNow(p) ==
  \E n \in Nat : /\ n < call.vm_count /\ InSlot(call, n, p)
                 /\ pc = "s2_map" => n < vm \/ (n = vm /\ p < cur)

(* The inductive invariant of the stage-2 tables: the pages behind the     *)
(* loop's cursor are mapped as asked, and no other, whatever the pools     *)
(* held before.                                                            *)
SlotInv ==
  /\ call \in KnownCalls /\ vm \in Nat /\ vm <= call.vm_count
  /\ pc = "s2_map" => /\ vm < call.vm_count /\ call.vm_size > 0
                      /\ SlotFirst(call, vm) <= cur /\ cur <= SlotLimit(call, vm)
  /\ pc # "hang" =>
       \A p \in Pages : WalkPage(s2, p) = IF MappedNow(p) THEN SlotDesc(call, p) ELSE Invalid

(* A build starts with nothing mapped, or returns at once. *)
LEMMA SlotInvBuild ==
  ASSUME MmuInv, SlotInv, NEW c \in S2Calls, S2BuildStart(c)
  PROVE  SlotInv'
<1>1. Pages \subseteq Int
  BY EntriesAssumption DEF Pages
<1>2. CASE c.vm_count = 0 \/ c.vm_size = 0
  <2>1. /\ pc \in {"s2_build", "s2_built"} /\ pc' = "s2_built" /\ UNCHANGED <<s2, call, vm, cur>>
    BY <1>2 DEF S2BuildStart
  <2>2. \A p : MappedNow(p)' = MappedNow(p)
    BY <2>1 DEF MappedNow, InSlot
  <2>3. \A p \in Pages : WalkPage(s2, p)' = WalkPage(s2, p)
    BY <2>1 DEF WalkPage
  <2> QED BY <2>1, <2>2, <2>3 DEF SlotInv
<1>3. CASE ~(c.vm_count = 0 \/ c.vm_size = 0)
  <2>1. /\ s2' = tables_reset(s2) /\ call' = c /\ vm' = 0 /\ cur' = SlotFirst(c, 0)
        /\ pc' = "s2_map"
    BY <1>3 DEF S2BuildStart
  <2>2. c \in KnownCalls
    BY DEF KnownCalls
  <2>3. /\ c \in Calls /\ VmPages(c) \in Nat /\ PageOf(c.ipa) \in Nat /\ c.vm_count \in Nat
    BY <2>2, CallFacts
  <2>4. c.vm_size \in Nat
    BY <2>3 DEF Calls
  <2>5. SlotFirst(c, 0) \in Int /\ SlotLimit(c, 0) = SlotFirst(c, 0) + VmPages(c)
    BY <2>2, <2>3, SlotTypes, SlotShape
  <2>6. \A p \in Pages : WalkPage(s2, p)' = Invalid
    <3>1. \A q \in Paths : Walk(s2', q) = Invalid
      BY <2>1, ResetWellFormed, PoolSizes DEF MmuInv
    <3> QED BY <1>1, <3>1, PathInPaths DEF WalkPage
  <2>7. \A p \in Pages : ~MappedNow(p)'
    BY <1>1, <2>1, <2>5 DEF MappedNow, InSlot
  <2> QED BY <1>3, <2>1, <2>2, <2>3, <2>4, <2>5, <2>6, <2>7 DEF SlotInv
<1> QED BY <1>2, <1>3

(* One more page of a slot. *)
LEMMA SlotInvMap ==
  ASSUME MmuInv, SlotInv, S2MapPage
  PROVE  /\ SlotInv'
         /\ cur \in Pages /\ ~MappedNow(cur)
         /\ pc' # "hang" => \A p \in Pages : MappedNow(p)' <=> MappedNow(p) \/ p = cur
<1>1. Pages \subseteq Int
  BY EntriesAssumption DEF Pages
<1>2. /\ pc = "s2_map" /\ cur < SlotLimit(call, vm) /\ cur' = cur + 1
      /\ s2' = map_page(s2, cur, S2Desc(call, vm, cur))
      /\ pc' = IF s2'.hung THEN "hang" ELSE "s2_map"
      /\ UNCHANGED <<call, vm>>
  BY DEF S2MapPage
<1>3. /\ call \in KnownCalls /\ vm \in Nat /\ vm < call.vm_count /\ call.vm_size > 0
      /\ SlotFirst(call, vm) <= cur /\ cur <= SlotLimit(call, vm)
      /\ \A p \in Pages : WalkPage(s2, p) = IF MappedNow(p) THEN SlotDesc(call, p) ELSE Invalid
  BY <1>2 DEF SlotInv
<1>4. cur \in Int /\ ~s2.hung /\ call.vm_count \in Nat
  BY <1>2, <1>3, CallFacts DEF MmuInv
<1>5. InSlot(call, vm, cur) /\ cur \in Pages
  BY <1>2, <1>3, <1>4, SlotsInReach DEF InSlot
<1>6. /\ SlotLimit(call, vm) = SlotFirst(call, vm) + VmPages(call)
      /\ SlotFirst(call, vm) \in Int /\ VmPages(call) \in Nat
  BY <1>3, CallFacts, SlotShape, SlotTypes
<1>7. ~MappedNow(cur)
  <2> SUFFICES ASSUME NEW n \in Nat, n < vm, InSlot(call, n, cur) PROVE FALSE
    BY <1>2, <1>4 DEF MappedNow
  <2> DEFINE P == Pitch(call)
             G == GuardPages(call)
             V == VmPages(call)
             J == PageOf(call.ipa)
  <2>1. P = V + G /\ G \in Nat /\ P \in Nat /\ V \in Nat /\ J \in Nat
    BY <1>3, CallFacts DEF Pitch
  <2>2. /\ SlotFirst(call, vm) = J + vm * P /\ vm * P \in Nat
        /\ SlotFirst(call, n) = J + n * P /\ n * P \in Nat
        /\ SlotLimit(call, n) = SlotFirst(call, n) + V
    BY <1>3, SlotShape
  <2>3. cur < SlotFirst(call, n) + V /\ SlotFirst(call, vm) <= cur
    BY <1>3, <2>2 DEF InSlot
  <2> HIDE DEF P, G, V, J
  <2>4. n * P + P <= vm * P
    <3>1. \A x, y, d \in Nat : x < y => x * d + d <= y * d
      OBVIOUS
    <3> QED BY <1>3, <2>1, <3>1
  <2> QED BY <1>4, <2>1, <2>2, <2>3, <2>4
<1>8. CASE s2'.hung
  BY <1>2, <1>3, <1>4, <1>5, <1>7, <1>8 DEF SlotInv
<1>9. CASE ~s2'.hung
  <2>1. S2Desc(call, vm, cur) = SlotDesc(call, cur) /\ SlotDesc(call, cur) \in S2Descs
    BY <1>3, <1>4, SlotDescFacts
  <2>2. \A p \in Pages :
          WalkPage(s2', p) = IF p = cur THEN SlotDesc(call, cur) ELSE WalkPage(s2, p)
    BY <1>2, <1>4, <1>5, <1>9, <2>1, MapPageWalk, PoolSizes DEF MmuInv
  <2>3. pc' = "s2_map"
    BY <1>2, <1>9
  <2>4. ASSUME NEW p \in Pages PROVE MappedNow(p)' <=> MappedNow(p) \/ p = cur
    <3>1. p \in Int
      BY <1>1
    <3>2. \A n : InSlot(call, n, p)' = InSlot(call, n, p)
      BY <1>2 DEF InSlot, SlotFirst, SlotLimit
    <3>3. MappedNow(p)' <=> \E n \in Nat : /\ n < call.vm_count /\ InSlot(call, n, p)
                                           /\ n < vm \/ (n = vm /\ p < cur + 1)
      BY <1>2, <2>3, <3>2 DEF MappedNow
    <3>4. MappedNow(p) <=> \E n \in Nat : /\ n < call.vm_count /\ InSlot(call, n, p)
                                          /\ n < vm \/ (n = vm /\ p < cur)
      BY <1>2 DEF MappedNow
    <3>5. p < cur + 1 <=> p < cur \/ p = cur
      BY <1>4, <3>1
    <3> QED BY <1>3, <1>5, <3>3, <3>4, <3>5
  <2>5. ASSUME NEW p \in Pages
        PROVE  WalkPage(s2, p)' = IF MappedNow(p)' THEN SlotDesc(call, p)' ELSE Invalid
    <3>1. WalkPage(s2, p)' = WalkPage(s2', p) /\ SlotDesc(call, p)' = SlotDesc(call, p)
      BY <1>2 DEF WalkPage, SlotDesc
    <3>2. CASE p = cur
      BY <2>2, <2>4, <3>1, <3>2
    <3>3. CASE p # cur
      <4>1. WalkPage(s2, p)' = WalkPage(s2, p)
        BY <2>2, <3>1, <3>3
      <4>2. MappedNow(p)' <=> MappedNow(p)
        BY <2>4, <3>3
      <4>3. CASE MappedNow(p)
        BY <1>3, <3>1, <4>1, <4>2, <4>3
      <4>4. CASE ~MappedNow(p)
        BY <1>3, <3>1, <4>1, <4>2, <4>4
      <4> QED BY <4>3, <4>4
    <3> QED BY <3>2, <3>3
  <2>6. /\ SlotFirst(call', vm') <= cur' /\ cur' <= SlotLimit(call', vm')
    BY <1>2, <1>3, <1>4, <1>6
  <2> QED BY <1>2, <1>3, <1>4, <1>5, <1>7, <2>3, <2>4, <2>5, <2>6 DEF SlotInv
<1> QED BY <1>8, <1>9

(* The end of a slot. *)
LEMMA SlotInvDone ==
  ASSUME MmuInv, SlotInv, S2SlotDone
  PROVE  /\ SlotInv'
         /\ \A p \in Pages : MappedNow(p)' <=> MappedNow(p)
<1>1. Pages \subseteq Int
  BY EntriesAssumption DEF Pages
<1>2. /\ call \in KnownCalls /\ vm \in Nat /\ vm < call.vm_count /\ call.vm_size > 0
      /\ SlotFirst(call, vm) <= cur /\ cur <= SlotLimit(call, vm)
  BY DEF SlotInv, S2SlotDone
<1>3. cur \in Int /\ call.vm_count \in Nat /\ VmPages(call) \in Nat
  BY <1>2, CallFacts DEF MmuInv
<1>4. \A n \in Nat : SlotFirst(call, n) \in Int /\ SlotLimit(call, n) = SlotFirst(call, n) + VmPages(call)
  BY <1>2, CallFacts, SlotShape, SlotTypes
<1>5. /\ pc = "s2_map" /\ cur >= SlotLimit(call, vm) /\ UNCHANGED <<s2, call>>
      /\ \/ /\ vm + 1 < call.vm_count /\ vm' = vm + 1 /\ cur' = SlotFirst(call, vm + 1)
            /\ pc' = "s2_map"
         \/ ~(vm + 1 < call.vm_count) /\ pc' = "s2_built" /\ UNCHANGED <<vm, cur>>
  BY DEF S2SlotDone
<1>6. ASSUME NEW p \in Pages PROVE MappedNow(p)' <=> MappedNow(p)
  <2>1. p \in Int
    BY <1>1
  <2>2. \A n : InSlot(call, n, p)' = InSlot(call, n, p)
    BY <1>5 DEF InSlot, SlotFirst, SlotLimit
  <2>3. MappedNow(p) <=> \E n \in Nat : /\ n < call.vm_count /\ InSlot(call, n, p)
                                        /\ n < vm \/ n = vm
    <3>1. InSlot(call, vm, p) => p < cur
      BY <1>2, <1>3, <1>4, <1>5, <2>1 DEF InSlot
    <3> QED BY <1>5, <3>1 DEF MappedNow
  <2>4. CASE vm + 1 < call.vm_count
    <3>1. pc' = "s2_map" /\ vm' = vm + 1 /\ cur' = SlotFirst(call, vm + 1)
      BY <1>5, <2>4
    <3>2. InSlot(call, vm + 1, p) => ~(p < SlotFirst(call, vm + 1))
      <4>1. SlotFirst(call, vm + 1) \in Int
        BY <1>2, <1>4
      <4> QED BY <2>1, <4>1 DEF InSlot
    <3>3. MappedNow(p)' <=> \E n \in Nat : /\ n < call.vm_count /\ InSlot(call, n, p)
                                           /\ n < vm + 1
      BY <1>5, <2>2, <3>1, <3>2 DEF MappedNow
    <3>4. \A n \in Nat : n < vm + 1 <=> n < vm \/ n = vm
      BY <1>2
    <3> QED BY <2>3, <3>3, <3>4
  <2>5. CASE ~(vm + 1 < call.vm_count)
    <3>1. MappedNow(p)' <=> \E n \in Nat : n < call.vm_count /\ InSlot(call, n, p)
      BY <1>5, <2>2, <2>5 DEF MappedNow
    <3>2. \A n \in Nat : n < call.vm_count => n < vm \/ n = vm
      BY <1>2, <1>3, <2>5
    <3> QED BY <2>3, <3>1, <3>2
  <2> QED BY <2>4, <2>5
<1>7. \A p \in Pages : WalkPage(s2, p)' = WalkPage(s2, p) /\ SlotDesc(call, p)' = SlotDesc(call, p)
  BY <1>5 DEF WalkPage, SlotDesc
<1>8. pc' = "s2_map" => /\ vm' < call'.vm_count /\ call'.vm_size > 0
                        /\ SlotFirst(call', vm') <= cur' /\ cur' <= SlotLimit(call', vm')
  <2>1. vm + 1 \in Nat
    BY <1>2
  <2>2. SlotFirst(call, vm + 1) <= SlotLimit(call, vm + 1) /\ SlotFirst(call, vm + 1) \in Int
    BY <1>3, <1>4, <2>1
  <2> QED BY <1>2, <1>5, <2>2
<1>9. \A p \in Pages : WalkPage(s2, p)' = IF MappedNow(p)' THEN SlotDesc(call, p)' ELSE Invalid
  <2> SUFFICES ASSUME NEW p \in Pages
               PROVE  WalkPage(s2, p)' = IF MappedNow(p)' THEN SlotDesc(call, p)' ELSE Invalid
    OBVIOUS
  <2>1. WalkPage(s2, p) = IF MappedNow(p) THEN SlotDesc(call, p) ELSE Invalid
    BY <1>5 DEF SlotInv
  <2>2. CASE MappedNow(p)
    BY <1>6, <1>7, <2>1, <2>2
  <2>3. CASE ~MappedNow(p)
    BY <1>6, <1>7, <2>1, <2>3
  <2> QED BY <2>2, <2>3
<1> QED BY <1>2, <1>3, <1>5, <1>6, <1>8, <1>9 DEF SlotInv

(* Every other step leaves the stage-2 tables and the loop alone. *)
LEMMA SlotStep ==
  ASSUME MmuInv, SlotInv, [MemNext]_memVars
  PROVE  SlotInv'
<1>1. CASE (\E c \in S2Calls : S2BuildStart(c)) \/ S2MapPage \/ S2SlotDone
  BY <1>1, SlotInvBuild, SlotInvMap, SlotInvDone
<1>2. CASE ~((\E c \in S2Calls : S2BuildStart(c)) \/ S2MapPage \/ S2SlotDone)
  <2>1. /\ UNCHANGED <<s2, call, vm>>
        /\ \/ UNCHANGED <<pc, cur>>
           \/ pc # "s2_map" /\ pc' # "s2_map" /\ pc # "hang"
    <3>1. CASE El2MmuInit \/ El2MapPage \/ El2MapReturn
      BY <3>1 DEF El2MmuInit, El2MapPage, El2MapReturn, s2Vars
    <3>2. CASE el2_mmu_enable \/ s2_program_regs_and_enable \/ InitVcpus
      BY <3>2 DEF el2_mmu_enable, s2_program_regs_and_enable, InitVcpus, s2Vars
    <3>3. CASE UNCHANGED mmuVars
      BY <3>3 DEF mmuVars
    <3> QED BY <1>2, <3>1, <3>2, <3>3
            DEF MemNext, MmuNext, BootStep, Hung, GuestTask, GuestReport, GuestYield, Halted, memVars
  <2>2. \A p : MappedNow(p)' = MappedNow(p)
    BY <2>1 DEF MappedNow, InSlot, SlotFirst, SlotLimit
  <2>3. \A p \in Pages : WalkPage(s2, p)' = WalkPage(s2, p) /\ SlotDesc(call, p)' = SlotDesc(call, p)
    BY <2>1 DEF WalkPage, SlotDesc
  <2>4. (pc # "hang")' => pc # "hang"
    BY <2>1
  <2> QED BY <2>1, <2>2, <2>3, <2>4 DEF SlotInv
<1> QED BY <1>1, <1>2

(* The invariant of the stage-2 tables holds in every behaviour, for any   *)
(* sequence of builds.                                                     *)
THEOREM SlotInvariant == MemSpec => []SlotInv
<1>1. MemInit => SlotInv
  <2> SUFFICES ASSUME MemInit PROVE SlotInv
    OBVIOUS
  <2>1. NoCall.vm_count = 0
    <3>1. MainCall \in Calls
      BY MmuAssumption, CallTypes
    <3> QED BY <3>1 DEF NoCall, Calls
  <2>2. /\ call = NoCall /\ vm = 0 /\ pc = "el2_init" /\ s2 = ZeroTables(S2L2Max, S2L3Max)
    BY DEF MemInit, MmuInit
  <2>3. \A p : ~MappedNow(p)
    BY <2>1, <2>2 DEF MappedNow
  <2>4. \A p \in Pages : WalkPage(s2, p) = Invalid
    <3>1. \A q \in Paths : Walk(s2, q) = Invalid
      BY <2>2, ZeroWellFormed, PoolSizes
    <3>2. Pages \subseteq Int
      BY EntriesAssumption DEF Pages
    <3> QED BY <3>1, <3>2, PathInPaths DEF WalkPage
  <2> QED BY <2>1, <2>2, <2>3, <2>4 DEF SlotInv, KnownCalls
<1>2. MmuInv /\ SlotInv /\ [MemNext]_memVars => SlotInv'
  BY SlotStep
<1> QED BY <1>1, <1>2, TablesStayWellFormed, PTL DEF MemSpec

-----------------------------------------------------------------------------
(* A page-aligned address is a page number times the size of a page. *)
LEMMA Aligned ==
  ASSUME NEW a \in Nat, a % PageSize = 0
  PROVE  PageOf(a) \in Nat /\ a = PageOf(a) * PageSize
<1>1. PageSize \in Nat \ {0} /\ a \in Int
  BY MmuAssumption
<1>2. PageOf(a) \in Nat
  BY <1>1 DEF PageOf
<1>3. \A p \in Int : PageOf(a) * PageSize = a
  BY <1>1, Floor
<1> QED BY <1>1, <1>2, <1>3

(* The page of a mailbox slot: its own, above the stacks and below the     *)
(* regions.                                                                *)
LEMMA MailboxPages ==
  ASSUME NEW v \in Vcpus, NEW n \in Slots[v]
  PROVE  /\ guest_shared_slot(n) \in Int
         /\ PageOf(GUEST_SHARED_BASE) <= guest_shared_slot(n)
         /\ guest_shared_slot(n) < PageOf(GUEST_WORK_BASE)
         /\ \A w \in Vcpus : \A m \in Slots[w] :
              guest_shared_slot(m) = guest_shared_slot(n) => m = n
<1> DEFINE sb == PageOf(GUEST_SHARED_BASE)
           ss == PageOf(GUEST_SHARED_STRIDE)
           wb == PageOf(GUEST_WORK_BASE)
<1>1. PageSize \in Nat \ {0} /\ n \in Nat /\ \A w \in Vcpus : \A m \in Slots[w] : m \in Nat
  BY MmuAssumption, GuestLayout
<1>2. /\ sb \in Nat /\ GUEST_SHARED_BASE = sb * PageSize
      /\ ss \in Nat /\ GUEST_SHARED_STRIDE = ss * PageSize
      /\ wb \in Nat /\ GUEST_WORK_BASE = wb * PageSize
  <2>1. /\ GUEST_SHARED_BASE \in Nat /\ GUEST_SHARED_BASE % PageSize = 0
        /\ GUEST_SHARED_STRIDE \in Nat /\ GUEST_SHARED_STRIDE % PageSize = 0
        /\ GUEST_WORK_BASE \in Nat /\ GUEST_WORK_BASE % PageSize = 0
    BY GuestLayout
  <2> QED BY <2>1, Aligned
<1> HIDE DEF sb, ss, wb
<1>3. ss > 0
  <2>1. ss * PageSize > 0
    BY <1>2, GuestLayout
  <2>2. ss # 0
    BY <1>1, <2>1
  <2> QED BY <1>2, <2>2
<1>4. ASSUME NEW m \in Nat
      PROVE  guest_shared_slot(m) = sb + m * ss /\ m * ss \in Nat
  <2>1. m * ss \in Nat
    BY <1>2
  <2>2. m * (ss * PageSize) = (m * ss) * PageSize
    BY <1>1, <1>2
  <2>3. sb * PageSize + (m * ss) * PageSize = (sb + m * ss) * PageSize
    BY <1>1, <1>2, <2>1
  <2>4. GUEST_SHARED_BASE + m * GUEST_SHARED_STRIDE = (sb + m * ss) * PageSize
    BY <1>2, <2>2, <2>3
  <2>5. sb + m * ss \in Int
    BY <1>2, <2>1
  <2> QED BY <2>1, <2>4, <2>5, WholePages DEF guest_shared_slot
<1>5. sb + n * ss + ss <= wb
  <2>1. GUEST_SHARED_BASE + (n + 1) * GUEST_SHARED_STRIDE <= GUEST_WORK_BASE
    BY GuestLayout
  <2>2. (n + 1) * (ss * PageSize) = (n * ss + ss) * PageSize
    BY <1>1, <1>2
  <2>3. n * ss + ss \in Nat
    BY <1>1, <1>2
  <2>4. sb * PageSize + (n * ss + ss) * PageSize = (sb + (n * ss + ss)) * PageSize
    BY <1>1, <1>2, <2>3
  <2>5. (sb + (n * ss + ss)) * PageSize <= wb * PageSize
    BY <1>2, <2>1, <2>2, <2>4
  <2>6. sb + (n * ss + ss) \in Int /\ wb \in Int
    BY <1>2, <2>3
  <2>7. ~(wb * PageSize < (sb + (n * ss + ss)) * PageSize)
    BY <1>1, <2>5, <2>6
  <2>8. ~(wb < sb + (n * ss + ss))
    BY <1>1, <2>6, <2>7, Scale
  <2>9. n * ss \in Nat
    BY <1>1, <1>2
  <2> QED BY <1>2, <2>6, <2>8, <2>9
<1>6. \A w \in Vcpus : \A m \in Slots[w] : guest_shared_slot(m) = guest_shared_slot(n) => m = n
  <2> SUFFICES ASSUME NEW w \in Vcpus, NEW m \in Slots[w], guest_shared_slot(m) = guest_shared_slot(n)
               PROVE  m = n
    OBVIOUS
  <2>1. m \in Nat
    BY <1>1
  <2>2. sb + m * ss = sb + n * ss /\ m * ss \in Nat /\ n * ss \in Nat
    BY <1>1, <1>4, <2>1
  <2>3. m * ss = n * ss
    BY <1>2, <2>2
  <2>4. ~(m < n) /\ ~(n < m)
    BY <1>1, <1>2, <1>3, <2>1, <2>3, Scale
  <2> QED BY <1>1, <2>1, <2>4
<1>7. guest_shared_slot(n) = sb + n * ss /\ n * ss \in Nat
  BY <1>1, <1>4
<1>8. /\ guest_shared_slot(n) \in Int /\ sb <= guest_shared_slot(n)
      /\ guest_shared_slot(n) < wb
  BY <1>2, <1>3, <1>5, <1>7
<1> QED BY <1>6, <1>8 DEF sb, wb

(* The pages of a private region: above the mailboxes, inside el2_main's   *)
(* VM, and nobody else's.                                                  *)
LEMMA RegionPages ==
  ASSUME NEW v \in Vcpus, NEW p \in guest_private_region(v)
  PROVE  /\ p \in Int
         /\ PageOf(GUEST_WORK_BASE) <= p
         /\ p * PageSize < RamBase + MainCall.vm_size
         /\ \A w \in Vcpus : p \in guest_private_region(w) => w = v
<1> DEFINE wb == PageOf(GUEST_WORK_BASE)
           ws == PageOf(GUEST_WORK_STRIDE)
<1>1. PageSize \in Nat \ {0} /\ Vcpus \subseteq Nat
  BY MmuAssumption, GuestLayout
<1>2. /\ wb \in Nat /\ GUEST_WORK_BASE = wb * PageSize
      /\ ws \in Nat /\ GUEST_WORK_STRIDE = ws * PageSize
  <2>1. /\ GUEST_WORK_BASE \in Nat /\ GUEST_WORK_BASE % PageSize = 0
        /\ GUEST_WORK_STRIDE \in Nat /\ GUEST_WORK_STRIDE % PageSize = 0
    BY GuestLayout
  <2> QED BY <2>1, Aligned
<1> HIDE DEF wb, ws
<1>3. ASSUME NEW w \in Vcpus
      PROVE  /\ w * ws \in Nat
             /\ \A q \in guest_private_region(w) :
                  q \in Int /\ wb + w * ws <= q /\ q < wb + w * ws + ws
  <2> DEFINE o == w * ws
             base == (wb + o) * PageSize
  <2>1. w \in Nat /\ o \in Nat
    BY <1>1, <1>2
  <2>2. w * (ws * PageSize) = o * PageSize
    BY <1>1, <1>2, <2>1
  <2> HIDE DEF o
  <2>3. base \in Int /\ wb + o \in Int /\ wb + o + ws \in Int
    BY <1>1, <1>2, <2>1
  <2>4. wb * PageSize + o * PageSize = base
    BY <1>1, <1>2, <2>1
  <2>5. GUEST_WORK_BASE + w * GUEST_WORK_STRIDE = base
    BY <1>2, <2>2, <2>4
  <2>6. PageOf(base) = wb + o
    BY <2>3, WholePages
  <2>7. base + ws * PageSize = (wb + o + ws) * PageSize
    BY <1>1, <1>2, <2>1
  <2> HIDE DEF base
  <2> DEFINE last == base + GUEST_WORK_SIZE - 1
  <2>8. GUEST_WORK_SIZE \in Nat /\ GUEST_WORK_SIZE <= ws * PageSize /\ ws * PageSize \in Nat
    <3>1. GUEST_WORK_SIZE \in Nat /\ GUEST_WORK_STRIDE \in Nat /\ GUEST_WORK_SIZE <= GUEST_WORK_STRIDE
      BY GuestLayout
    <3> QED BY <1>2, <3>1
  <2>9. last \in Int /\ last < (wb + o + ws) * PageSize
    <3>1. (wb + o + ws) * PageSize \in Int
      BY <1>1, <2>3
    <3> QED BY <2>3, <2>7, <2>8, <3>1
  <2> HIDE DEF last
  <2>10. PageOf(last) \in Int /\ PageOf(last) * PageSize <= last
    <3>1. \A q \in Int : PageOf(last) \in Int /\ PageOf(last) * PageSize <= last
      BY <2>9, Floor
    <3> QED BY <1>1, <3>1
  <2>11. PageOf(last) < wb + o + ws
    <3>1. PageOf(last) * PageSize \in Int /\ (wb + o + ws) * PageSize \in Int
      BY <1>1, <2>3, <2>10
    <3>2. PageOf(last) * PageSize < (wb + o + ws) * PageSize
      BY <2>9, <2>10, <3>1
    <3> QED BY <1>1, <2>3, <2>10, <3>2, Scale
  <2>12. guest_private_region(w) = (wb + o) .. PageOf(last)
    BY <2>5, <2>6 DEF guest_private_region, last
  <2>13. \A q \in guest_private_region(w) : q \in Int /\ wb + o <= q /\ q < wb + o + ws
    BY <2>3, <2>10, <2>11, <2>12
  <2> QED BY <2>1, <2>13 DEF o
<1>4. v * ws \in Nat /\ p \in Int /\ wb + v * ws <= p /\ p < wb + v * ws + ws
  BY <1>3
<1>5. ASSUME NEW w \in Vcpus, p \in guest_private_region(w) PROVE w = v
  <2>1. w * ws \in Nat /\ wb + w * ws <= p /\ p < wb + w * ws + ws
    BY <1>3, <1>5
  <2>2. v \in Nat /\ w \in Nat
    BY <1>1
  <2>3. \A x, y, d \in Nat : x < y => x * d + d <= y * d
    OBVIOUS
  <2>4. ~(w < v)
    <3>1. w < v => w * ws + ws <= v * ws
      BY <1>2, <2>2, <2>3
    <3> QED BY <1>2, <1>4, <2>1, <3>1
  <2>5. ~(v < w)
    <3>1. v < w => v * ws + ws <= w * ws
      BY <1>2, <2>2, <2>3
    <3> QED BY <1>2, <1>4, <2>1, <3>1
  <2> QED BY <2>2, <2>4, <2>5
<1>6. p * PageSize < RamBase + MainCall.vm_size
  <2> DEFINE top == wb + v * ws + ws
  <2>1. top \in Int /\ p < top /\ v \in Nat
    BY <1>1, <1>2, <1>4
  <2>2. GUEST_WORK_BASE + (v + 1) * GUEST_WORK_STRIDE <= RamBase + MainCall.vm_size
    BY GuestLayout
  <2>3. (v + 1) * (ws * PageSize) = (v * ws + ws) * PageSize
    BY <1>1, <1>2, <2>1
  <2>4. wb * PageSize + (v * ws + ws) * PageSize = top * PageSize
    BY <1>1, <1>2, <1>4
  <2>5. GUEST_WORK_BASE + (v + 1) * GUEST_WORK_STRIDE = top * PageSize
    BY <1>2, <2>3, <2>4
  <2> HIDE DEF top
  <2>6. p * PageSize < top * PageSize /\ p * PageSize \in Int /\ top * PageSize \in Int
    BY <1>1, <1>4, <2>1, Scale
  <2>7. RamBase + MainCall.vm_size \in Int
    <3>1. RamBase \in Nat /\ MainCall \in Calls
      BY MmuAssumption, CallTypes
    <3>2. MainCall.vm_size \in Nat
      BY <3>1 DEF Calls
    <3> QED BY <3>1, <3>2
  <2> QED BY <2>2, <2>5, <2>6, <2>7
<1>7. wb <= p
  BY <1>2, <1>4
<1> QED BY <1>4, <1>5, <1>6, <1>7 DEF wb

(* The page below a guest's stack top: its own, in .bss, below every       *)
(* mailbox.                                                                *)
LEMMA ResultPages ==
  ASSUME sizes \in Layouts, NEW v \in Vcpus
  PROVE  /\ ResultPage(v) \in Int
         /\ RamBase <= ResultPage(v) * PageSize
         /\ ResultPage(v) * PageSize = GuestStack[v] - PageSize
         /\ ResultPage(v) < PageOf(GUEST_SHARED_BASE)
         /\ InRange(4, ResultPage(v))
         /\ \A w \in Vcpus : ResultPage(w) = ResultPage(v) => w = v
<1> DEFINE sb == PageOf(GUEST_SHARED_BASE)
<1>1. PageSize \in Nat \ {0} /\ RamBase \in Nat
  BY MmuAssumption
<1>2. sb \in Nat /\ GUEST_SHARED_BASE = sb * PageSize
  <2>1. GUEST_SHARED_BASE \in Nat /\ GUEST_SHARED_BASE % PageSize = 0
    BY GuestLayout
  <2> QED BY <2>1, Aligned
<1> HIDE DEF sb
<1>3. ASSUME NEW w \in Vcpus
      PROVE  /\ ResultPage(w) \in Int /\ GuestStack[w] \in Nat
             /\ ResultPage(w) * PageSize = GuestStack[w] - PageSize
  <2> DEFINE t == PageOf(GuestStack[w])
  <2>1. GuestStack[w] \in Nat /\ GuestStack[w] % PageSize = 0
    BY GuestLayout
  <2>2. t \in Nat /\ GuestStack[w] = t * PageSize
    BY <2>1, Aligned
  <2> HIDE DEF t
  <2>3. GuestStack[w] - 1 = (t - 1) * PageSize + (PageSize - 1)
    BY <1>1, <2>2
  <2>4. t - 1 \in Int /\ PageSize - 1 \in 0 .. PageSize - 1
    BY <1>1, <2>2
  <2>5. ResultPage(w) = t - 1
    BY <1>1, <2>3, <2>4, DivUnique DEF ResultPage, PageOf
  <2>6. (t - 1) * PageSize = t * PageSize - PageSize
    BY <1>1, <2>2
  <2> QED BY <2>1, <2>2, <2>4, <2>5, <2>6
<1>4. /\ ResultPage(v) \in Int /\ GuestStack[v] \in Nat
      /\ ResultPage(v) * PageSize = GuestStack[v] - PageSize
  BY <1>3
<1>5. ResultPage(v) < sb
  <2>1. ResultPage(v) * PageSize < sb * PageSize
    <3>1. GuestStack[v] <= sb * PageSize /\ sb * PageSize \in Int
      BY <1>1, <1>2, GuestLayout
    <3> QED BY <1>1, <1>4, <3>1
  <2>2. sb \in Int
    BY <1>2
  <2> QED BY <1>1, <1>4, <2>1, <2>2, Scale
<1>6. /\ SectionStart(sizes)[4] <= ResultPage(v) * PageSize
      /\ ResultPage(v) * PageSize < SectionStart(sizes)[4] + sizes[4]
  BY <1>4, GuestLayout
<1>7. SectionStart(sizes)[4] \in Int /\ sizes[4] \in Nat /\ RamBase <= SectionStart(sizes)[4]
  BY SectionOrder DEF Sections
<1>8. ResultPage(v) * PageSize \in Int /\ (ResultPage(v) + 1) * PageSize = ResultPage(v) * PageSize + PageSize
  BY <1>1, <1>4, Scale
<1>9. InRange(4, ResultPage(v))
  <2>1. MapRange[4].start = SectionStart(sizes)[4] /\ MapRange[4].size = sizes[4]
    BY RangeFields DEF Ranges, Sections
  <2>2. /\ SectionStart(sizes)[4] < (ResultPage(v) + 1) * PageSize
        /\ sizes[4] > 0
    BY <1>1, <1>6, <1>7, <1>8
  <2> QED BY <1>6, <2>1, <2>2 DEF InRange
<1>10. \A w \in Vcpus : ResultPage(w) = ResultPage(v) => w = v
  <2> SUFFICES ASSUME NEW w \in Vcpus, ResultPage(w) = ResultPage(v) PROVE w = v
    OBVIOUS
  <2>1. GuestStack[w] - PageSize = GuestStack[v] - PageSize /\ GuestStack[w] \in Nat
    BY <1>3
  <2>2. GuestStack[w] = GuestStack[v]
    BY <1>1, <1>4, <2>1
  <2> QED BY <2>2, GuestLayout
<1>11. RamBase <= ResultPage(v) * PageSize
  BY <1>1, <1>6, <1>7, <1>8
<1> QED BY <1>4, <1>5, <1>9, <1>10, <1>11 DEF sb

(* A page between RAM's start and the end of el2_main's VM is in slot 0 of *)
(* el2_main's call.                                                        *)
LEMMA MainSlot ==
  ASSUME NEW p \in Int, RamBase < (p + 1) * PageSize, p * PageSize < RamBase + MainCall.vm_size
  PROVE  InSlot(MainCall, 0, p) /\ p \in Pages
<1>1. /\ PageSize \in Nat \ {0} /\ RamBase \in Nat /\ MainCall \in KnownCalls
      /\ MainCall.ipa = RamBase /\ MainCall.pa = RamBase /\ MainCall.vm_count > 0
  BY MmuAssumption, GuestLayout DEF KnownCalls
<1>2. /\ MainCall \in Calls /\ PageOf(RamBase) \in Nat /\ RamBase = PageOf(RamBase) * PageSize
      /\ VmPages(MainCall) \in Nat
  BY <1>1, CallFacts
<1>3. MainCall.vm_size \in Nat
  BY <1>2 DEF Calls
<1>4. SlotFirst(MainCall, 0) = PageOf(RamBase) /\ SlotLimit(MainCall, 0) = PageOf(RamBase) + VmPages(MainCall)
  <2>1. 0 \in Nat
    OBVIOUS
  <2>2. /\ SlotFirst(MainCall, 0) = PageOf(RamBase) + 0 * Pitch(MainCall)
        /\ SlotLimit(MainCall, 0) = SlotFirst(MainCall, 0) + VmPages(MainCall)
    BY <1>1, <2>1, SlotShape
  <2>3. Pitch(MainCall) \in Nat
    BY <1>1, CallFacts
  <2> QED BY <1>2, <2>2, <2>3
<1>5. PageOf(RamBase) <= p
  <2>1. RamBase \in Int
    BY <1>1
  <2> QED BY <2>1, Floor
<1>6. p - PageOf(RamBase) < VmPages(MainCall)
  <2> DEFINE r == PageOf(RamBase)
             q == p - r
  <2>1. r \in Nat /\ RamBase = r * PageSize
    BY <1>2
  <2> HIDE DEF r
  <2>2. q \in Int
    BY <2>1
  <2>3. p * PageSize = q * PageSize + r * PageSize /\ q * PageSize \in Int /\ r * PageSize \in Int
    BY <1>1, <2>1
  <2>4. q * PageSize < MainCall.vm_size
    <3>1. q * PageSize + r * PageSize < r * PageSize + MainCall.vm_size
      BY <2>1, <2>3
    <3> QED BY <1>3, <2>3, <3>1
  <2>5. MainCall.vm_size \in Int
    BY <1>3
  <2> HIDE DEF q
  <2>6. q < PageOf(align_up(MainCall.vm_size))
    BY <2>2, <2>4, <2>5, Ceiling
  <2> QED BY <2>6 DEF VmPages, q, r
<1>7. InSlot(MainCall, 0, p)
  BY <1>2, <1>4, <1>5, <1>6 DEF InSlot
<1>8. 0 \in Nat /\ 0 < MainCall.vm_count
  BY <1>1
<1> QED BY <1>1, <1>7, <1>8, SlotsInReach

(* What the guests store to: pages inside el2_main's VM, no two guests the *)
(* same one.                                                               *)
LEMMA StoredPages ==
  ASSUME sizes \in Layouts, NEW v \in Vcpus
  PROVE  /\ \A p \in Stored(v) : p \in Pages /\ InSlot(MainCall, 0, p)
         /\ \A w \in Vcpus \ {v} : Stored(v) \cap Stored(w) = {}
         /\ ResultPage(v) \in Stored(v)
<1>1. PageSize \in Nat \ {0} /\ RamBase \in Nat /\ RamBase + MainCall.vm_size \in Int
  <2>1. RamBase \in Nat /\ MainCall \in Calls
    BY MmuAssumption, CallTypes
  <2>2. MainCall.vm_size \in Nat
    BY <2>1 DEF Calls
  <2> QED BY <2>1, <2>2, MmuAssumption
<1> DEFINE sb == PageOf(GUEST_SHARED_BASE)
           wb == PageOf(GUEST_WORK_BASE)
<1>2. /\ sb \in Nat /\ GUEST_SHARED_BASE = sb * PageSize
      /\ wb \in Nat /\ GUEST_WORK_BASE = wb * PageSize
  <2>1. /\ GUEST_SHARED_BASE \in Nat /\ GUEST_SHARED_BASE % PageSize = 0
        /\ GUEST_WORK_BASE \in Nat /\ GUEST_WORK_BASE % PageSize = 0
    BY GuestLayout
  <2> QED BY <2>1, Aligned
<1>3. ASSUME NEW w \in Vcpus, NEW n \in Slots[w]
      PROVE  guest_shared_slot(n) \in Int /\ sb <= guest_shared_slot(n) /\ guest_shared_slot(n) < wb
  BY MailboxPages
<1>4. ASSUME NEW w \in Vcpus
      PROVE  \A p \in guest_private_region(w) : p \in Int /\ wb <= p
  BY RegionPages
<1>5. ASSUME NEW w \in Vcpus
      PROVE  ResultPage(w) \in Int /\ ResultPage(w) < sb
  BY ResultPages
<1>6. ResultPage(v) \in Stored(v)
  BY DEF Stored
<1> HIDE DEF sb, wb
<1>7. sb <= wb
  <2>1. sb * PageSize <= wb * PageSize
    BY <1>2, GuestLayout
  <2>2. ~(wb * PageSize < sb * PageSize)
    BY <1>1, <1>2, <2>1
  <2>3. ~(wb < sb)
    <3>1. sb \in Int /\ wb \in Int
      BY <1>2
    <3> QED BY <1>1, <2>2, <3>1, Scale
  <2> QED BY <1>2, <2>3
<1>8. ASSUME NEW w \in Vcpus \ {v}, NEW p, p \in Stored(v), p \in Stored(w)
      PROVE  FALSE
  <2>1. \/ \E n \in Slots[v] : p = guest_shared_slot(n)
        \/ p \in guest_private_region(v)
        \/ p = ResultPage(v)
    BY <1>8 DEF Stored
  <2>2. \/ \E n \in Slots[w] : p = guest_shared_slot(n)
        \/ p \in guest_private_region(w)
        \/ p = ResultPage(w)
    BY <1>8 DEF Stored
  <2>3. CASE \E n \in Slots[v] : p = guest_shared_slot(n)
    <3>1. PICK n \in Slots[v] : p = guest_shared_slot(n)
      BY <2>3
    <3>2. p \in Int /\ sb <= p /\ p < wb
      BY <1>3, <3>1
    <3>3. CASE \E m \in Slots[w] : p = guest_shared_slot(m)
      <4>1. PICK m \in Slots[w] : p = guest_shared_slot(m)
        BY <3>3
      <4>2. m = n
        BY <3>1, <4>1, MailboxPages
      <4>3. Slots[v] \cap Slots[w] = {}
        BY GuestLayout
      <4> QED BY <4>2, <4>3
    <3>4. CASE p \in guest_private_region(w)
      BY <1>2, <1>4, <3>2, <3>4
    <3>5. CASE p = ResultPage(w)
      BY <1>2, <1>5, <3>2, <3>5
    <3> QED BY <2>2, <3>3, <3>4, <3>5
  <2>4. CASE p \in guest_private_region(v)
    <3>1. p \in Int /\ wb <= p
      BY <1>4, <2>4
    <3>2. CASE \E m \in Slots[w] : p = guest_shared_slot(m)
      BY <1>2, <1>3, <3>1, <3>2
    <3>3. CASE p \in guest_private_region(w)
      BY <2>4, <3>3, RegionPages
    <3>4. CASE p = ResultPage(w)
      BY <1>2, <1>5, <1>7, <3>1, <3>4
    <3> QED BY <2>2, <3>2, <3>3, <3>4
  <2>5. CASE p = ResultPage(v)
    <3>1. p \in Int /\ p < sb
      BY <1>5, <2>5
    <3>2. CASE \E m \in Slots[w] : p = guest_shared_slot(m)
      BY <1>2, <1>3, <3>1, <3>2
    <3>3. CASE p \in guest_private_region(w)
      BY <1>2, <1>4, <1>7, <3>1, <3>3
    <3>4. CASE p = ResultPage(w)
      BY <2>5, <3>4, ResultPages
    <3> QED BY <2>2, <3>2, <3>3, <3>4
  <2> QED BY <2>1, <2>3, <2>4, <2>5
<1>9. ASSUME NEW p \in Stored(v)
      PROVE  p \in Int /\ RamBase < (p + 1) * PageSize /\ p * PageSize < RamBase + MainCall.vm_size
  <2>1. wb * PageSize <= RamBase + MainCall.vm_size
    <3>1. v \in Nat /\ GUEST_WORK_STRIDE \in Nat /\ GUEST_WORK_BASE \in Nat
      BY GuestLayout
    <3>2. GUEST_WORK_BASE + (v + 1) * GUEST_WORK_STRIDE <= RamBase + MainCall.vm_size
      BY GuestLayout
    <3>3. (v + 1) * GUEST_WORK_STRIDE \in Nat
      BY <3>1
    <3> QED BY <1>1, <1>2, <3>1, <3>2, <3>3
  <2>2. /\ RamBase <= ResultPage(v) * PageSize /\ ResultPage(v) \in Int
        /\ ResultPage(v) < sb
    BY ResultPages DEF sb
  <2>3. p \in Int /\ ResultPage(v) <= p
    <3>1. CASE \E n \in Slots[v] : p = guest_shared_slot(n)
      BY <1>2, <1>3, <2>2, <3>1
    <3>2. CASE p \in guest_private_region(v)
      BY <1>2, <1>4, <1>7, <2>2, <3>2
    <3>3. CASE p = ResultPage(v)
      BY <2>2, <3>3
    <3> QED BY <3>1, <3>2, <3>3 DEF Stored
  <2>4. RamBase < (p + 1) * PageSize
    <3>1. ResultPage(v) < p + 1 /\ p + 1 \in Int
      BY <2>2, <2>3
    <3>2. ResultPage(v) * PageSize < (p + 1) * PageSize
      BY <1>1, <2>2, <3>1, Scale
    <3>3. ResultPage(v) * PageSize \in Int /\ (p + 1) * PageSize \in Int
      BY <1>1, <2>2, <3>1, Scale
    <3> QED BY <1>1, <2>2, <3>2, <3>3
  <2>5. p * PageSize < RamBase + MainCall.vm_size
    <3>1. CASE p < wb
      <4>1. wb \in Int
        BY <1>2
      <4>2. p * PageSize < wb * PageSize /\ p * PageSize \in Int /\ wb * PageSize \in Int
        BY <1>1, <2>3, <3>1, <4>1, Scale
      <4> QED BY <1>1, <2>1, <4>2
    <3>2. CASE p \in guest_private_region(v)
      BY <3>2, RegionPages
    <3>3. p < wb \/ p \in guest_private_region(v)
      BY <1>2, <1>3, <1>5, <1>7, <1>9 DEF Stored
    <3> QED BY <3>1, <3>2, <3>3
  <2> QED BY <2>3, <2>4, <2>5
<1>10. \A p \in Stored(v) : p \in Pages /\ InSlot(MainCall, 0, p)
  BY <1>9, MainSlot
<1> QED BY <1>6, <1>8, <1>10

(* The guests' code and constants are in slot 0 of el2_main's call too,    *)
(* below the guard page that precedes .data.                               *)
LEMMA ProgramPages ==
  ASSUME sizes \in Layouts, NEW p \in Fetched \cup Loaded
  PROVE  /\ p \in Pages /\ InSlot(MainCall, 0, p)
         /\ p \in PageOf(RamBase) .. PageOf(SectionStart(sizes)[3]) - 2
<1>1. /\ PageSize \in Nat \ {0} /\ RamBase \in Nat /\ RamBase + MainCall.vm_size \in Int
  <2>1. RamBase \in Nat /\ MainCall \in Calls
    BY MmuAssumption, CallTypes
  <2>2. MainCall.vm_size \in Nat
    BY <2>1 DEF Calls
  <2> QED BY <2>1, <2>2, MmuAssumption
<1>2. PICK k \in {1, 2} : p \in PageOf(MapRange[k].start) .. RangeLimit(MapRange[k]) - 1
  BY DEF Fetched, Loaded
<1>3. k \in Ranges /\ k \in Sections /\ 3 \in Sections /\ k < 3
  BY DEF Ranges, Sections
<1>4. /\ MapRange[k].start = SectionStart(sizes)[k] /\ MapRange[k].size = sizes[k]
      /\ PageOf(MapRange[k].start) \in Int /\ RangeLimit(MapRange[k]) \in Int
  <2>1. MapRange[k].start = SectionStart(sizes)[k] /\ MapRange[k].size = sizes[k]
    BY <1>2, <1>3, RangeFields
  <2>2. MapRange[k].start \in Int /\ MapRange[k].start + MapRange[k].size \in Int
    BY <1>3, <2>1, SectionOrder
  <2>3. PageOf(MapRange[k].start) \in Int /\ align_up(MapRange[k].start + MapRange[k].size) \in Int
    BY <2>2, Arithmetic
  <2>4. PageOf(align_up(MapRange[k].start + MapRange[k].size)) \in Int
    BY <2>3, Arithmetic
  <2> QED BY <2>1, <2>3, <2>4 DEF RangeLimit
<1>5. p \in Int /\ PageOf(MapRange[k].start) <= p /\ p < RangeLimit(MapRange[k])
  BY <1>2, <1>4
<1>6. InRange(k, p)
  BY <1>3, <1>5, RangeLoop
<1>7. /\ SectionStart(sizes)[k] \in Int /\ sizes[k] \in Nat /\ RamBase <= SectionStart(sizes)[k]
      /\ SectionStart(sizes)[k] + sizes[k] <= align_up(SectionStart(sizes)[k] + sizes[k])
      /\ align_up(SectionStart(sizes)[k] + sizes[k]) \in Int
      /\ align_up(SectionStart(sizes)[k] + sizes[k]) + PageSize <= SectionStart(sizes)[3]
      /\ SectionStart(sizes)[3] \in Int
  BY <1>3, SectionOrder
<1>8. SectionStart(sizes)[3] <= RamBase + MainCall.vm_size
  BY GuestLayout
<1>9. (p + 1) * PageSize \in Int /\ p * PageSize \in Int
  BY <1>1, <1>5
<1>10. RamBase < (p + 1) * PageSize /\ p * PageSize < RamBase + MainCall.vm_size
  BY <1>1, <1>4, <1>6, <1>7, <1>8, <1>9 DEF InRange
<1>11. PageOf(RamBase) \in Int /\ PageOf(RamBase) <= p
  <2>1. RamBase \in Int
    BY <1>1
  <2>2. PageOf(RamBase) \in Int /\ (PageOf(RamBase) <= p <=> RamBase < (p + 1) * PageSize)
    BY <1>5, <2>1, Floor
  <2> QED BY <1>10, <2>2
<1>12. p + 1 < PageOf(SectionStart(sizes)[3]) /\ PageOf(SectionStart(sizes)[3]) \in Int
  <2> DEFINE z == SectionStart(sizes)[k] + sizes[k]
             e == PageOf(align_up(z))
             d == SectionStart(sizes)[3]
  <2>1. z \in Int /\ d \in Int /\ p * PageSize < z
    BY <1>4, <1>6, <1>7 DEF InRange
  <2>2. align_up(z) + PageSize <= d
    BY <1>7
  <2> HIDE DEF z, d
  <2>3. e \in Int /\ align_up(z) = e * PageSize /\ p < e
    BY <1>5, <2>1, Ceiling
  <2> HIDE DEF e
  <2>4. p * PageSize + PageSize <= e * PageSize /\ p * PageSize \in Int /\ e * PageSize \in Int
    BY <1>1, <1>5, <2>3, Scale
  <2>5. (p + 2) * PageSize = p * PageSize + PageSize + PageSize
    BY <1>1, <1>5
  <2>6. ~(d < (p + 2) * PageSize)
    BY <1>1, <2>1, <2>2, <2>3, <2>4, <2>5
  <2>7. p + 1 \in Int /\ (p + 1) + 1 = p + 2
    BY <1>5
  <2>8. PageOf(d) \in Int /\ (PageOf(d) <= p + 1 <=> d < (p + 2) * PageSize)
    BY <2>1, <2>7, Floor
  <2> QED BY <2>6, <2>7, <2>8 DEF d
<1>13. p \in PageOf(RamBase) .. PageOf(SectionStart(sizes)[3]) - 2
  BY <1>5, <1>11, <1>12
<1> QED BY <1>5, <1>10, <1>13, MainSlot

(* No frame covers an entry through which a guest or EL2 reaches a page    *)
(* that the guests use: the frames lie over other entries, whichever       *)
(* tables are under them.                                                  *)
LEMMA FramesElsewhere ==
  ASSUME sizes \in Layouts, NEW v \in Vcpus, NEW p \in Stored(v) \cup Fetched \cup Loaded
  PROVE  \A framed : /\ GuestSees(v, p, framed) = GuestWalk(v, p)
                     /\ El2Sees(p, framed) = WalkPage(el2, p)
<1>1. AtFront(p)
  <2>1. CASE \E n \in Slots[v] : p = guest_shared_slot(n)
    BY <2>1, FrontAssumption DEF guest_shared_slot
  <2>2. CASE p \in guest_private_region(v)
    BY <2>2, FrontAssumption DEF guest_private_region
  <2>3. CASE p = ResultPage(v)
    BY <2>3, FrontAssumption DEF ResultPage
  <2>4. CASE p \in Fetched \cup Loaded
    BY <2>4, ProgramPages, FrontAssumption
  <2> QED BY <2>1, <2>2, <2>3, <2>4 DEF Stored
<1>2. ASSUME NEW t, NEW e \in Visited(t, p) PROVE e.index \notin StackWords
  <2>1. e.index \in {L1Index(p), L2Index(p), L3Index(p)}
    BY DEF Visited
  <2>2. e.index < FrameFirst
    BY <1>1, <2>1 DEF AtFront
  <2> QED BY <2>2, FrontAssumption DEF StackWords, Index
<1>3. \A set, t, framed : ~Overwritten(set, t, p, framed)
  BY <1>2 DEF Overwritten
<1> QED BY <1>3 DEF GuestSees, El2Sees

-----------------------------------------------------------------------------
(* The inductive invariant of the guests' memory.  A guest that has run    *)
(* holds mappings for all it stores to, and its data are there; one has    *)
(* aborted only on tables other than el2_main's.                           *)
GuestInv ==
  /\ pc \in {"vcpus", "guests"} => vttbr.baddr = "s2_l1"
  /\ pc = "guests" => \A v \in Vcpus : vcpu_vttbr[v].baddr = "s2_l1"
  /\ mem \in [Pages -> Vcpus \cup {Nobody}]
  /\ at \in [Vcpus -> {"start", "task", "report", "wfi"} \cup Aborts]
  /\ seen \in [Vcpus -> Vcpus \cup {Nobody}]
  /\ \A v \in Vcpus :
       /\ at[v] # "start" => pc = "guests"
       /\ at[v] \in Aborts => call # MainCall
       /\ at[v] \in {"task", "report", "wfi"} =>
            \A p \in Stored(v) : GuestWalk(v, p) # Invalid /\ mem[GuestWalk(v, p).pa] = v
       /\ at[v] \in {"wfi", "task"} => seen[v] = v

(* What a guest finds when the guests run. *)
LEMMA GuestView ==
  ASSUME SlotInv, GuestInv, pc = "guests", NEW v \in Vcpus, NEW p \in Pages
  PROVE  /\ GuestWalk(v, p) = WalkPage(s2, p)
         /\ GuestWalk(v, p) # Invalid =>
              /\ GuestWalk(v, p) = SlotDesc(call, p)
              /\ GuestWalk(v, p).pa = p + (PageOf(call.pa) - PageOf(call.ipa))
              /\ GuestWalk(v, p).pa \in Pages
              /\ \E n \in Nat : n < call.vm_count /\ InSlot(call, n, p)
<1>1. GuestWalk(v, p) = WalkPage(s2, p)
  BY DEF GuestInv, GuestWalk
<1>2. WalkPage(s2, p) = IF MappedNow(p) THEN SlotDesc(call, p) ELSE Invalid
  BY DEF SlotInv
<1>3. p \in Int /\ call \in KnownCalls
  BY EntriesAssumption DEF Pages, SlotInv
<1>4. ASSUME MappedNow(p)
      PROVE  /\ \E n \in Nat : n < call.vm_count /\ InSlot(call, n, p)
             /\ p + (PageOf(call.pa) - PageOf(call.ipa)) \in Pages
  <2>1. PICK n \in Nat : n < call.vm_count /\ InSlot(call, n, p)
    BY <1>4 DEF MappedNow
  <2> QED BY <1>3, <2>1, SlotsInReach
<1>5. SlotDesc(call, p).pa = p + (PageOf(call.pa) - PageOf(call.ipa))
  BY DEF SlotDesc
<1> QED BY <1>1, <1>2, <1>4, <1>5

(* On el2_main's tables every guest is allowed all that its program does. *)
LEMMA MainAllows ==
  ASSUME ImageInv, SlotInv, GuestInv, pc = "guests", call = MainCall, NEW v \in Vcpus
  PROVE  \A framed : Allowed(v, framed)
<1>1. sizes \in Layouts /\ 0 \in Nat /\ 0 < call.vm_count
  BY GuestLayout DEF ImageInv
<1>2. ASSUME NEW p \in Stored(v) \cup Fetched \cup Loaded
      PROVE  GuestWalk(v, p) = SlotDesc(MainCall, p) /\ SlotDesc(MainCall, p) # Invalid
  <2>1. p \in Pages /\ InSlot(MainCall, 0, p)
    BY <1>1, StoredPages, ProgramPages
  <2>2. MappedNow(p)
    BY <1>1, <2>1 DEF MappedNow
  <2>3. p \in Int /\ MainCall \in KnownCalls
    BY <2>1, EntriesAssumption, MmuAssumption DEF Pages, KnownCalls
  <2>4. SlotDesc(MainCall, p) # Invalid
    BY <1>1, <2>3, SlotDescFacts
  <2>5. WalkPage(s2, p) = SlotDesc(MainCall, p)
    BY <2>1, <2>2 DEF SlotInv
  <2>6. GuestWalk(v, p) = WalkPage(s2, p)
    BY <2>1, GuestView
  <2> QED BY <2>4, <2>5, <2>6
<1>3. \A p : /\ SlotDesc(MainCall, p).write = MainCall.write
             /\ SlotDesc(MainCall, p).exec = MainCall.exec
             /\ SlotDesc(MainCall, p).read = MainCall.read
  BY DEF SlotDesc
<1>4. MainCall.read /\ MainCall.write /\ MainCall.exec
  BY GuestLayout
<1>5. \A framed : \A p \in Stored(v) \cup Fetched \cup Loaded :
        GuestSees(v, p, framed) = SlotDesc(MainCall, p)
  BY <1>1, <1>2, FramesElsewhere
<1> QED BY <1>2, <1>3, <1>4, <1>5 DEF Allowed

(* EL2 finds a guest's report where the guest left it. *)
LEMMA ReportPage ==
  ASSUME MmuInv, ImageInv, SlotInv, GuestInv, pc = "guests", NEW v \in Vcpus
  PROVE  /\ WalkPage(el2, ResultPage(v)) # Invalid
         /\ WalkPage(el2, ResultPage(v)).pa = ResultPage(v)
         /\ ResultPage(v) \in Pages
         /\ GuestWalk(v, ResultPage(v)) # Invalid => GuestWalk(v, ResultPage(v)).pa = ResultPage(v)
<1> DEFINE r == ResultPage(v)
<1>1. sizes \in Layouts /\ 4 \in Ranges
  BY DEF ImageInv, Ranges
<1>2. r \in Int /\ InRange(4, r) /\ r * PageSize = GuestStack[v] - PageSize
  BY <1>1, ResultPages
<1> HIDE DEF r
<1>3. r \in Pages
  BY <1>1, <1>2, RangesInReach
<1>4. WalkPage(el2, r) = El2Desc(MapRange[4], r)
  BY <1>1, <1>2, <1>3 DEF ImageInv, Done
<1>5. El2Desc(MapRange[4], r) \in El2Descs /\ El2Desc(MapRange[4], r).pa = r
  BY <1>1, <1>2, RangeFields DEF El2Desc
<1>6. ASSUME GuestWalk(v, r) # Invalid PROVE GuestWalk(v, r).pa = r
  <2>1. PICK n \in Nat : n < call.vm_count /\ InSlot(call, n, r)
    BY <1>3, <1>6, GuestView
  <2>2. GuestWalk(v, r).pa = r + (PageOf(call.pa) - PageOf(call.ipa))
    BY <1>3, <1>6, GuestView
  <2>3. call \in KnownCalls
    BY DEF SlotInv
  <2>4. CASE call.ipa = call.pa
    <3>1. PageOf(call.pa) = PageOf(call.ipa) /\ PageOf(call.ipa) \in Nat
      BY <2>3, <2>4, CallFacts
    <3> QED BY <1>2, <2>2, <3>1
  <2>5. CASE call.ipa # call.pa
    <3> DEFINE I == PageOf(call.ipa)
               V == VmPages(call)
               G == GuardPages(call)
               w == call.vm_count * Pitch(call)
               o == n * Pitch(call)
    <3>1. /\ I \in Nat /\ call.ipa = I * PageSize
          /\ V \in Nat /\ align_up(call.vm_size) = V * PageSize
          /\ G \in Nat /\ align_up(call.guard_bytes) = G * PageSize
          /\ Pitch(call) = V + G /\ Pitch(call) \in Nat /\ call.vm_count \in Nat
      BY <2>3, CallFacts DEF Pitch
    <3>2. PageSize \in Nat \ {0}
      BY MmuAssumption
    <3>3. call \in S2Calls
      <4>1. MainCall \in Calls
        BY MmuAssumption, CallTypes
      <4>2. NoCall.vm_count = 0
        BY <4>1 DEF NoCall, Calls
      <4> QED BY <2>1, <2>3, <4>2 DEF KnownCalls
    <3>4. SlotLimit(call, n) = I + o + V /\ o \in Nat
      BY <2>3, SlotShape
    <3> HIDE DEF I, V, G
    <3>5. w \in Nat /\ o + Pitch(call) <= w
      <4>1. w \in Nat
        BY <3>1
      <4>2. \A x, y, d \in Nat : x < y => x * d + d <= y * d
        OBVIOUS
      <4> QED BY <2>1, <3>1, <4>1, <4>2
    <3>6. Asked(call) = w * PageSize
      <4>1. V * PageSize + G * PageSize = Pitch(call) * PageSize
        BY <3>1, <3>2
      <4>2. call.vm_count * (Pitch(call) * PageSize) = (call.vm_count * Pitch(call)) * PageSize
        BY <3>1, <3>2
      <4> QED BY <3>1, <4>1, <4>2 DEF Asked
    <3> HIDE DEF w, o
    <3>7. (I + w) * PageSize <= r * PageSize
      <4>1. call.ipa + Asked(call) <= GuestStack[v] - PageSize
        BY <2>5, <3>3, GuestLayout
      <4>2. I * PageSize + w * PageSize = (I + w) * PageSize
        BY <3>1, <3>2, <3>5
      <4> QED BY <1>2, <3>1, <3>6, <4>1, <4>2
    <3>8. ~(r < I + w)
      <4>1. I + w \in Int /\ (I + w) * PageSize \in Int /\ r * PageSize \in Int
        BY <1>2, <3>1, <3>2, <3>5
      <4>2. ~(r * PageSize < (I + w) * PageSize)
        BY <3>7, <4>1
      <4> QED BY <1>2, <3>2, <4>1, <4>2, Scale
    <3>9. r < I + o + V
      BY <2>1, <3>4 DEF InSlot
    <3>10. o \in Nat
      BY <3>4
    <3> QED BY <1>2, <3>1, <3>5, <3>8, <3>9, <3>10
  <2> QED BY <2>4, <2>5
<1> QED BY <1>3, <1>4, <1>5, <1>6, InvalidAssumption DEF r

(* A guest's stores reach its own pages only. *)
LEMMA GuestInvTask ==
  ASSUME MmuInv, ImageInv, SlotInv, GuestInv, NEW v \in Vcpus, GuestTask(v)
  PROVE  GuestInv'
<1>1. /\ pc = "guests" /\ UNCHANGED <<mmuVars, seen>>
  BY DEF GuestTask, Running
<1>2. UNCHANGED <<pc, call, s2, vttbr, vcpu_vttbr>>
  BY <1>1 DEF mmuVars
<1>3. \A w, p : GuestWalk(w, p)' = GuestWalk(w, p)
  BY <1>2 DEF GuestWalk, WalkPage
<1>4. sizes \in Layouts
  BY DEF ImageInv
<1>5. CASE ~Allowed(v, Framed \cup {v})
  <2>1. at' = [at EXCEPT ![v] = "s2_abort"] /\ mem' = mem
    BY <1>5 DEF GuestTask
  <2>2. call # MainCall
    BY <1>1, <1>5, MainAllows
  <2> QED BY <1>1, <1>2, <1>3, <2>1, <2>2 DEF GuestInv, Aborts
<1>6. CASE Allowed(v, Framed \cup {v})
  <2> DEFINE hit == {GuestWalk(v, q).pa : q \in Stored(v)}
  <2>1. /\ mem' = [p \in Pages |-> IF p \in hit THEN v ELSE mem[p]]
        /\ at' = [at EXCEPT ![v] = "report"]
    BY <1>6 DEF GuestTask
  <2>2. ASSUME NEW w \in Vcpus, NEW p \in Stored(w), GuestWalk(w, p) # Invalid
        PROVE  /\ GuestWalk(w, p).pa \in Pages /\ p \in Int
               /\ GuestWalk(w, p).pa = p + (PageOf(call.pa) - PageOf(call.ipa))
    <3>1. p \in Pages
      BY <1>4, StoredPages
    <3> QED BY <1>1, <2>2, <3>1, GuestView, EntriesAssumption DEF Pages
  <2>3. \A q \in Stored(v) : GuestWalk(v, q) # Invalid
    BY <1>6 DEF Allowed, GuestSees
  <2>4. ASSUME NEW p \in Stored(v) PROVE mem'[GuestWalk(v, p).pa] = v
    <3>1. GuestWalk(v, p).pa \in Pages /\ GuestWalk(v, p).pa \in hit
      BY <2>2, <2>3
    <3> QED BY <2>1, <3>1
  <2>5. ASSUME NEW w \in Vcpus \ {v}, NEW p \in Stored(w), GuestWalk(w, p) # Invalid
        PROVE  mem'[GuestWalk(w, p).pa] = mem[GuestWalk(w, p).pa]
    <3>1. GuestWalk(w, p).pa \notin hit
      <4> SUFFICES ASSUME NEW q \in Stored(v), GuestWalk(v, q).pa = GuestWalk(w, p).pa PROVE FALSE
        OBVIOUS
      <4>1. PageOf(call.pa) \in Nat /\ PageOf(call.ipa) \in Nat
        BY CallFacts DEF SlotInv
      <4>2. q = p
        BY <2>2, <2>3, <2>5, <4>1
      <4> QED BY <1>4, <4>2, StoredPages
    <3> QED BY <2>1, <2>2, <2>5, <3>1
  <2> HIDE DEF hit
  <2>6. mem' \in [Pages -> Vcpus \cup {Nobody}]
    BY <2>1 DEF GuestInv
  <2>7. ASSUME NEW w \in Vcpus
        PROVE  /\ (at[w] # "start" => pc = "guests")'
               /\ (at[w] \in Aborts => call # MainCall)'
               /\ (at[w] \in {"task", "report", "wfi"} =>
                     \A p \in Stored(w) : GuestWalk(w, p) # Invalid /\ mem[GuestWalk(w, p).pa] = w)'
               /\ (at[w] \in {"wfi", "task"} => seen[w] = w)'
    <3>1. CASE w = v
      <4>1. at'[w] = "report"
        BY <2>1, <3>1 DEF GuestInv
      <4> QED BY <1>1, <1>2, <1>3, <2>3, <2>4, <3>1, <4>1 DEF Aborts
    <3>2. CASE w # v
      <4>1. at'[w] = at[w]
        BY <2>1, <3>2 DEF GuestInv
      <4> QED BY <1>1, <1>2, <1>3, <2>5, <3>2, <4>1 DEF GuestInv
    <3> QED BY <3>1, <3>2
  <2>8. at' \in [Vcpus -> {"start", "task", "report", "wfi"} \cup Aborts]
    BY <2>1 DEF GuestInv
  <2> QED BY <1>1, <1>2, <2>6, <2>7, <2>8 DEF GuestInv
<1> QED BY <1>5, <1>6

(* A report is read where the guest wrote it, and the yield changes        *)
(* nothing.                                                                *)
LEMMA GuestInvReport ==
  ASSUME MmuInv, ImageInv, SlotInv, GuestInv, NEW v \in Vcpus, GuestReport(v) \/ GuestYield(v)
  PROVE  GuestInv'
<1>1. pc = "guests" /\ UNCHANGED <<mmuVars, mem>>
  BY DEF GuestReport, GuestYield, Running
<1>2. UNCHANGED <<pc, call, s2, vttbr, vcpu_vttbr>>
  BY <1>1 DEF mmuVars
<1>3. \A w, p : GuestWalk(w, p)' = GuestWalk(w, p)
  BY <1>2 DEF GuestWalk, WalkPage
<1>4. CASE GuestReport(v)
  <2> DEFINE r == ResultPage(v)
  <2>1. at[v] = "report"
    BY <1>4 DEF GuestReport
  <2>2. r \in Stored(v)
    BY StoredPages DEF ImageInv
  <2>3. /\ El2Sees(r, Framed) = WalkPage(el2, r) /\ WalkPage(el2, r) # Invalid
        /\ WalkPage(el2, r).pa = r /\ r \in Pages
    BY <1>1, <2>2, ReportPage, FramesElsewhere DEF ImageInv
  <2>4. mem[r] = v
    <3>1. GuestWalk(v, r) # Invalid /\ mem[GuestWalk(v, r).pa] = v
      BY <2>1, <2>2 DEF GuestInv
    <3>2. GuestWalk(v, r).pa = r
      BY <1>1, <3>1, ReportPage
    <3> QED BY <3>1, <3>2
  <2>5. at' = [at EXCEPT ![v] = "wfi"] /\ seen' = [seen EXCEPT ![v] = v]
    BY <1>4, <2>3, <2>4 DEF GuestReport
  <2> QED BY <1>1, <1>2, <1>3, <2>1, <2>5 DEF GuestInv, Aborts
<1>5. CASE GuestYield(v)
  <2>1. at[v] = "wfi" /\ at' = [at EXCEPT ![v] = "task"] /\ seen' = seen
    BY <1>5 DEF GuestYield
  <2> QED BY <1>1, <1>2, <1>3, <2>1 DEF GuestInv, Aborts
<1> QED BY <1>4, <1>5

(* While el2_main runs no guest has. *)
LEMMA GuestInvBoot ==
  ASSUME GuestInv, BootStep, UNCHANGED <<mem, at, seen>>
  PROVE  GuestInv'
<1>1. pc # "guests" /\ (pc' = "guests" => InitVcpus) /\ (pc' = "vcpus" => s2_program_regs_and_enable)
  BY DEF BootStep, El2MmuInit, El2MapPage, El2MapReturn, el2_mmu_enable, S2BuildStart, S2MapPage,
         S2SlotDone, s2_program_regs_and_enable, InitVcpus
<1>2. \A v \in Vcpus : at[v] = "start"
  BY <1>1 DEF GuestInv
<1>3. (pc \in {"vcpus", "guests"} => vttbr.baddr = "s2_l1")'
  BY <1>1 DEF GuestInv, InitVcpus, s2_program_regs_and_enable
<1>4. (pc = "guests" => \A v \in Vcpus : vcpu_vttbr[v].baddr = "s2_l1")'
  BY <1>1 DEF GuestInv, InitVcpus
<1> QED BY <1>2, <1>3, <1>4 DEF GuestInv, Aborts

(* Hence every step keeps the invariant of the guests' memory. *)
LEMMA GuestInvStep ==
  ASSUME MmuInv, ImageInv, SlotInv, GuestInv, [MemNext]_memVars
  PROVE  GuestInv'
<1>1. CASE BootStep /\ UNCHANGED <<mem, at, seen>>
  BY <1>1, GuestInvBoot
<1>2. CASE \E v \in Vcpus : GuestTask(v) \/ GuestReport(v) \/ GuestYield(v)
  BY <1>2, GuestInvTask, GuestInvReport
<1>3. CASE UNCHANGED memVars
  <2>1. UNCHANGED <<pc, call, s2, vttbr, vcpu_vttbr, mem, at, seen>>
    BY <1>3 DEF memVars, mmuVars
  <2>2. \A w, p : GuestWalk(w, p)' = GuestWalk(w, p)
    BY <2>1 DEF GuestWalk, WalkPage
  <2> QED BY <2>1, <2>2 DEF GuestInv
<1> QED BY <1>1, <1>2, <1>3 DEF MemNext, MmuNext, Hung, Halted, memVars

(* The invariant of the guests' memory holds in every behaviour. *)
THEOREM GuestInvariant == MemSpec => [](MmuInv /\ ImageInv /\ SlotInv /\ GuestInv)
<1>1. MemInit => GuestInv
  BY DEF MemInit, MmuInit, GuestInv, Aborts
<1>2. MmuInv /\ ImageInv /\ SlotInv /\ GuestInv /\ [MemNext]_memVars => GuestInv'
  BY GuestInvStep
<1> QED BY <1>1, <1>2, TablesStayWellFormed, ImageInvariant, SlotInvariant, PTL DEF MemSpec

(* No guest access is refused on el2_main's tables, and every report that  *)
(* EL2 reads through its own map is the reporting guest's, whichever       *)
(* tables the guests' frames are written over.                             *)
THEOREM GuestsAlwaysReachMemory == MemSpec => []GuestsReachMemory
<1>1. GuestInv => GuestsReachMemory
  BY DEF GuestInv, GuestsReachMemory
<1> QED BY <1>1, GuestInvariant, PTL

(* What a guest has stored stays, and stays translated for it, whatever    *)
(* the other guests do, on every layout, on every set of tables and with   *)
(* any tables under the guests' frames.                                    *)
THEOREM GuestDataStaysIntact == MemSpec => []GuestDataIntact
<1>1. ImageInv /\ GuestInv => GuestDataIntact
  BY FramesElsewhere DEF ImageInv, GuestInv, GuestDataIntact
<1> QED BY <1>1, GuestInvariant, PTL

-----------------------------------------------------------------------------
(* The rest of the types: el2_main's place, the cursor, the counter of     *)
(* builds and the translation bases.                                       *)
BootTypes ==
  /\ pc \in PCs /\ cur \in Nat /\ builds \in 0 .. MaxBuilds
  /\ vttbr \in Vttbrs /\ vcpu_vttbr \in [Vcpus -> Vttbrs]

(* Cursors start at page numbers. *)
LEMMA Cursors ==
  /\ sizes \in Layouts => \A k \in Ranges : PageOf(MapRange[k].start) \in Nat
  /\ \A c \in KnownCalls, n \in Nat : SlotFirst(c, n) \in Nat
<1>1. \A a \in Nat : PageOf(a) \in Nat
  BY MmuAssumption DEF PageOf
<1>2. ASSUME NEW c \in KnownCalls, NEW n \in Nat PROVE SlotFirst(c, n) \in Nat
  <2>1. /\ PageOf(c.ipa) \in Nat /\ n * Pitch(c) \in Nat
        /\ SlotFirst(c, n) = PageOf(c.ipa) + n * Pitch(c)
    BY CallFacts, SlotShape
  <2> QED BY <2>1
<1> QED BY <1>1, <1>2, RangeFields

(* Every step keeps them. *)
LEMMA BootTypesStep ==
  ASSUME MmuInv, ImageInv, SlotInv, BootTypes, [MemNext]_memVars
  PROVE  BootTypes'
<1> USE DEF BootTypes
<1>1. sizes \in Layouts /\ range \in Ranges /\ call \in KnownCalls /\ vm \in Nat
  BY DEF ImageInv, SlotInv, MmuInv
<1>2. CASE El2MmuInit \/ El2MapPage \/ El2MapReturn \/ el2_mmu_enable
  <2>1. cur' \in Nat
    BY <1>1, <1>2, Cursors DEF El2MmuInit, El2MapPage, El2MapReturn, el2_mmu_enable, Ranges
  <2>2. UNCHANGED <<builds, vttbr, vcpu_vttbr>>
    BY <1>2 DEF El2MmuInit, El2MapPage, El2MapReturn, el2_mmu_enable, s2Vars
  <2>3. pc' \in PCs
    BY <1>2 DEF El2MmuInit, El2MapPage, El2MapReturn, el2_mmu_enable, PCs
  <2> QED BY <2>1, <2>2, <2>3
<1>3. ASSUME NEW c \in S2Calls, S2BuildStart(c) PROVE BootTypes'
  <2>1. c \in KnownCalls
    BY DEF KnownCalls
  <2>2. cur' \in Nat
    BY <1>3, <2>1, Cursors DEF S2BuildStart
  <2>3. builds' \in 0 .. MaxBuilds
    <3>1. MaxBuilds \in Nat
      BY MmuAssumption
    <3> QED BY <1>3, <3>1 DEF S2BuildStart
  <2> QED BY <1>3, <2>2, <2>3 DEF S2BuildStart, PCs
<1>4. CASE S2MapPage \/ S2SlotDone
  <2>1. cur' \in Nat
    BY <1>1, <1>4, Cursors DEF S2MapPage, S2SlotDone
  <2> QED BY <1>4, <2>1 DEF S2MapPage, S2SlotDone, PCs
<1>5. CASE s2_program_regs_and_enable \/ InitVcpus
  BY <1>5 DEF s2_program_regs_and_enable, InitVcpus, PCs, Vttbrs
<1>6. CASE UNCHANGED mmuVars
  BY <1>6 DEF mmuVars
<1> QED BY <1>2, <1>3, <1>4, <1>5, <1>6
        DEF MemNext, MmuNext, BootStep, Hung, GuestTask, GuestReport, GuestYield, Halted, memVars

(* The types of Mmu and GuestMemory. *)
THEOREM MemTypeCorrect == MemSpec => []MemTypeOK
<1>1. MemInit => BootTypes
  <2>1. MaxBuilds \in Nat
    BY MmuAssumption
  <2> QED BY <2>1 DEF MemInit, MmuInit, BootTypes, PCs, Vttbrs
<1>2. MmuInv /\ ImageInv /\ SlotInv /\ BootTypes /\ [MemNext]_memVars => BootTypes'
  BY BootTypesStep
<1>3. MmuInv /\ ImageInv /\ SlotInv /\ GuestInv /\ BootTypes => MemTypeOK
  <2> SUFFICES ASSUME MmuInv, ImageInv, SlotInv, GuestInv, BootTypes PROVE MemTypeOK
    OBVIOUS
  <2>1. \A k \in Sections : sizes[k] \in SectionSizes[k]
    BY DEF ImageInv, Layouts
  <2>2. call \in S2Calls \cup {NoCall} /\ vm \in 0 .. call.vm_count
    <3>1. call.vm_count \in Nat
      BY CallFacts DEF SlotInv
    <3> QED BY <3>1 DEF SlotInv, KnownCalls
  <2> QED BY <2>1, <2>2 DEF MemTypeOK, MmuTypeOK, MmuInv, GuestInv, BootTypes
<1> QED BY <1>1, <1>2, <1>3, GuestInvariant, PTL DEF MemSpec

-----------------------------------------------------------------------------
(* Sets in one-to-one correspondence are equally large. *)
LEMMA SameCount ==
  ASSUME NEW S, NEW T, IsFiniteSet(S), NEW F \in [S -> T],
         \A x, y \in S : F[x] = F[y] => x = y,
         \A t \in T : \E x \in S : F[x] = t
  PROVE  IsFiniteSet(T) /\ Cardinality(T) = Cardinality(S)
<1>1. F \in Bijection(S, T)
  BY DEF Bijection, Injection, Surjection, IsInjective
<1>2. ExistsBijection(S, T)
  BY <1>1 DEF ExistsBijection
<1> QED BY <1>2, FS_Bijection

(* What s2_build_tables_identity has mapped, and how many pages that is. *)
MappedSet == {p \in Pages : MappedNow(p)}
MappedCount ==
  IF pc = "s2_map" THEN vm * VmPages(call) + (cur - SlotFirst(call, vm))
                   ELSE call.vm_count * VmPages(call)

(* The inductive invariant behind the count of SlotsAsRequested. *)
CountInv ==
  /\ call.vm_count > 0 => call.vm_size > 0
  /\ pc # "hang" => IsFiniteSet(MappedSet) /\ Cardinality(MappedSet) = MappedCount

(* A build starts from nothing; one more page is one more; the end of a    *)
(* slot is the start of the next.                                          *)
LEMMA CountStep ==
  ASSUME MmuInv, SlotInv, CountInv, [MemNext]_memVars
  PROVE  CountInv'
<1>1. call \in KnownCalls /\ vm \in Nat /\ cur \in Int
  BY DEF SlotInv, MmuInv
<1>2. VmPages(call) \in Nat /\ call.vm_count \in Nat
  BY <1>1, CallFacts
<1>3. ASSUME NEW c \in S2Calls, S2BuildStart(c) PROVE CountInv'
  <2>1. CASE c.vm_count = 0 \/ c.vm_size = 0
    <3>1. /\ pc \in {"s2_build", "s2_built"} /\ pc' = "s2_built" /\ UNCHANGED <<call, vm, cur>>
      BY <1>3, <2>1 DEF S2BuildStart
    <3>2. MappedSet' = MappedSet
      BY <3>1 DEF MappedSet, MappedNow, InSlot, SlotFirst, SlotLimit
    <3>3. MappedCount' = MappedCount
      BY <3>1 DEF MappedCount, VmPages
    <3> QED BY <3>1, <3>2, <3>3 DEF CountInv
  <2>2. CASE ~(c.vm_count = 0 \/ c.vm_size = 0)
    <3>1. call' = c /\ vm' = 0 /\ cur' = SlotFirst(c, 0) /\ pc' = "s2_map"
      BY <1>3, <2>2 DEF S2BuildStart
    <3>2. c \in KnownCalls /\ 0 \in Nat
      BY DEF KnownCalls
    <3>3. VmPages(c) \in Nat /\ SlotFirst(c, 0) \in Int /\ c.vm_size > 0
      <4>1. c \in Calls /\ VmPages(c) \in Nat
        BY <3>2, CallFacts
      <4>2. c.vm_size \in Nat
        BY <4>1 DEF Calls
      <4> QED BY <2>2, <3>2, <4>1, <4>2, SlotTypes
    <3>4. ASSUME NEW p \in Pages PROVE ~MappedNow(p)'
      <4>1. p \in Int
        BY EntriesAssumption DEF Pages
      <4> QED BY <3>1, <3>3, <4>1 DEF MappedNow, InSlot
    <3>5. MappedSet' = {}
      BY <3>4 DEF MappedSet
    <3>6. MappedCount' = 0
      <4>1. MappedCount' = 0 * VmPages(c) + (SlotFirst(c, 0) - SlotFirst(c, 0))
        BY <3>1 DEF MappedCount
      <4> QED BY <3>3, <4>1
    <3> QED BY <3>1, <3>3, <3>5, <3>6, FS_EmptySet DEF CountInv
  <2> QED BY <2>1, <2>2
<1>4. CASE S2MapPage
  <2>1. /\ pc = "s2_map" /\ cur' = cur + 1 /\ UNCHANGED <<call, vm>>
        /\ pc' = "hang" \/ pc' = "s2_map"
    BY <1>4 DEF S2MapPage
  <2>2. CASE pc' = "hang"
    BY <2>1, <2>2 DEF CountInv
  <2>3. CASE pc' = "s2_map"
    <3>1. /\ cur \in Pages /\ ~MappedNow(cur)
          /\ \A p \in Pages : MappedNow(p)' <=> MappedNow(p) \/ p = cur
      BY <1>4, <2>3, SlotInvMap
    <3>2. MappedSet' = MappedSet \cup {cur} /\ cur \notin MappedSet
      BY <3>1 DEF MappedSet
    <3>3. IsFiniteSet(MappedSet) /\ Cardinality(MappedSet) = MappedCount
      BY <2>1 DEF CountInv
    <3>4. IsFiniteSet(MappedSet') /\ Cardinality(MappedSet') = MappedCount + 1
      BY <3>2, <3>3, FS_AddElement
    <3>5. MappedCount' = MappedCount + 1
      <4>1. SlotFirst(call, vm) \in Int /\ vm * VmPages(call) \in Int
        BY <1>1, <1>2, CallFacts, SlotTypes
      <4>2. MappedCount = vm * VmPages(call) + (cur - SlotFirst(call, vm))
        BY <2>1 DEF MappedCount
      <4>3. MappedCount' = vm * VmPages(call) + ((cur + 1) - SlotFirst(call, vm))
        BY <2>1, <2>3 DEF MappedCount
      <4> QED BY <1>1, <4>1, <4>2, <4>3
    <3> QED BY <2>1, <3>4, <3>5 DEF CountInv
  <2> QED BY <2>1, <2>2, <2>3
<1>5. CASE S2SlotDone
  <2>1. /\ pc = "s2_map" /\ cur >= SlotLimit(call, vm) /\ UNCHANGED call
        /\ \/ /\ vm + 1 < call.vm_count /\ vm' = vm + 1 /\ cur' = SlotFirst(call, vm + 1)
              /\ pc' = "s2_map"
           \/ ~(vm + 1 < call.vm_count) /\ pc' = "s2_built" /\ UNCHANGED <<vm, cur>>
    BY <1>5 DEF S2SlotDone
  <2>2. MappedSet' = MappedSet
    BY <1>5, SlotInvDone DEF MappedSet
  <2>3. /\ vm < call.vm_count /\ cur <= SlotLimit(call, vm)
    BY <2>1 DEF SlotInv
  <2>4. /\ SlotLimit(call, vm) = SlotFirst(call, vm) + VmPages(call)
        /\ SlotFirst(call, vm) \in Int /\ SlotFirst(call, vm + 1) \in Int
    <3>1. call \in Calls /\ vm + 1 \in Nat
      BY <1>1, CallFacts
    <3>2. \A n \in Nat : SlotFirst(call, n) \in Int
      BY <3>1, SlotTypes
    <3> QED BY <1>1, <3>1, <3>2, SlotShape
  <2>5. MappedCount = (vm + 1) * VmPages(call)
    <3>1. cur - SlotFirst(call, vm) = VmPages(call)
      BY <1>1, <1>2, <2>1, <2>3, <2>4
    <3>2. MappedCount = vm * VmPages(call) + VmPages(call)
      BY <2>1, <3>1 DEF MappedCount
    <3> QED BY <1>1, <1>2, <3>2
  <2>6. MappedCount' = (vm + 1) * VmPages(call)
    <3>1. CASE vm + 1 < call.vm_count
      <4>1. MappedCount' = (vm + 1) * VmPages(call) + (SlotFirst(call, vm + 1) - SlotFirst(call, vm + 1))
        BY <2>1, <3>1 DEF MappedCount
      <4>2. (vm + 1) * VmPages(call) \in Int
        BY <1>1, <1>2
      <4> QED BY <2>4, <4>1, <4>2
    <3>2. CASE ~(vm + 1 < call.vm_count)
      <4>1. call.vm_count = vm + 1
        BY <1>1, <1>2, <2>3, <3>2
      <4> QED BY <2>1, <3>2, <4>1 DEF MappedCount
    <3> QED BY <3>1, <3>2
  <2> QED BY <2>1, <2>2, <2>5, <2>6 DEF CountInv
<1>6. CASE ~((\E c \in S2Calls : S2BuildStart(c)) \/ S2MapPage \/ S2SlotDone)
  <2>1. /\ UNCHANGED <<call, vm>>
        /\ \/ UNCHANGED <<pc, cur>>
           \/ pc # "s2_map" /\ pc' # "s2_map" /\ pc # "hang"
    <3>1. CASE El2MmuInit \/ El2MapPage \/ El2MapReturn
      BY <3>1 DEF El2MmuInit, El2MapPage, El2MapReturn, s2Vars
    <3>2. CASE el2_mmu_enable \/ s2_program_regs_and_enable \/ InitVcpus
      BY <3>2 DEF el2_mmu_enable, s2_program_regs_and_enable, InitVcpus, s2Vars
    <3>3. CASE UNCHANGED mmuVars
      BY <3>3 DEF mmuVars
    <3> QED BY <1>6, <3>1, <3>2, <3>3
            DEF MemNext, MmuNext, BootStep, Hung, GuestTask, GuestReport, GuestYield, Halted, memVars
  <2>2. MappedSet' = MappedSet
    BY <2>1 DEF MappedSet, MappedNow, InSlot, SlotFirst, SlotLimit
  <2>3. MappedCount' = MappedCount
    BY <2>1 DEF MappedCount, VmPages
  <2> QED BY <2>1, <2>2, <2>3 DEF CountInv
<1> QED BY <1>3, <1>4, <1>5, <1>6

(* The pages are counted right in every behaviour. *)
THEOREM CountInvariant == MemSpec => []CountInv
<1>1. MemInit => CountInv
  <2> SUFFICES ASSUME MemInit PROVE CountInv
    OBVIOUS
  <2>1. call = NoCall /\ pc = "el2_init" /\ NoCall.vm_count = 0
    <3>1. MainCall \in Calls
      BY MmuAssumption, CallTypes
    <3> QED BY <3>1 DEF NoCall, Calls, MemInit, MmuInit
  <2>2. MappedSet = {}
    BY <2>1 DEF MappedSet, MappedNow
  <2>3. MappedCount = 0
    <3>1. VmPages(NoCall) \in Nat
      BY CallFacts DEF KnownCalls
    <3>2. MappedCount = 0 * VmPages(NoCall)
      BY <2>1 DEF MappedCount
    <3> QED BY <3>1, <3>2
  <2> QED BY <2>1, <2>2, <2>3, FS_EmptySet DEF CountInv
<1>2. MmuInv /\ SlotInv /\ CountInv /\ [MemNext]_memVars => CountInv'
  BY CountStep
<1> QED BY <1>1, <1>2, TablesStayWellFormed, SlotInvariant, PTL DEF MemSpec

(* A later slot starts at least the guard after the end of an earlier one. *)
LEMMA SlotGap ==
  ASSUME NEW c \in KnownCalls
  PROVE  /\ GuardPages(c) \in Nat
         /\ c.guard_bytes \in Nat /\ c.guard_bytes <= GuardPages(c) * PageSize
         /\ \A n \in Nat : /\ SlotFirst(c, n) \in Int
                           /\ SlotLimit(c, n) = SlotFirst(c, n) + VmPages(c)
         /\ \A m, n \in Nat : m < n => SlotLimit(c, m) + GuardPages(c) <= SlotFirst(c, n)
<1> DEFINE P == Pitch(c)
           G == GuardPages(c)
           V == VmPages(c)
           J == PageOf(c.ipa)
<1>1. /\ P = V + G /\ G \in Nat /\ P \in Nat /\ V \in Nat /\ J \in Nat /\ c \in Calls
      /\ align_up(c.guard_bytes) = G * PageSize
  BY CallFacts DEF Pitch
<1>2. c.guard_bytes \in Nat /\ c.guard_bytes <= G * PageSize
  <2>1. c.guard_bytes \in Nat /\ c.guard_bytes \in Int
    BY <1>1 DEF Calls
  <2>2. \A p \in Int : c.guard_bytes <= align_up(c.guard_bytes)
    BY <2>1, Ceiling
  <2> QED BY <1>1, <2>1, <2>2
<1>3. \A n \in Nat : /\ SlotFirst(c, n) = J + n * P /\ n * P \in Nat
                     /\ SlotLimit(c, n) = SlotFirst(c, n) + V
  BY SlotShape
<1>4. \A x, y, d \in Nat : x < y => x * d + d <= y * d
  OBVIOUS
<1> HIDE DEF P, G, V, J
<1>5. ASSUME NEW m \in Nat, NEW n \in Nat, m < n PROVE SlotLimit(c, m) + G <= SlotFirst(c, n)
  <2>1. m * P + P <= n * P
    BY <1>1, <1>4, <1>5
  <2> QED BY <1>1, <1>3, <2>1
<1>6. \A n \in Nat : SlotFirst(c, n) \in Int /\ SlotLimit(c, n) = SlotFirst(c, n) + V
  BY <1>1, <1>3
<1> QED BY <1>1, <1>2, <1>5, <1>6 DEF G, V

(* The last pages of the slots are where the mapped pages end, if there is *)
(* a guard.                                                                *)
LEMMA SlotEnds ==
  ASSUME MmuInv, SlotInv, CountInv, pc \notin {"s2_map", "hang"}, call.guard_bytes > 0
  PROVE  /\ \A p \in Pages : MappedNow(p) /\ ~(p + 1 \in Pages /\ MappedNow(p + 1)) <=>
              \E n \in Nat : n < call.vm_count /\ p = SlotLimit(call, n) - 1
         /\ \A n \in Nat : n < call.vm_count => SlotLimit(call, n) - 1 \in Pages
<1> DEFINE c == call
           V == VmPages(c)
           G == GuardPages(c)
<1>1. c \in KnownCalls
  BY DEF SlotInv
<1>2. /\ G \in Nat /\ V \in Nat /\ G > 0 /\ c.vm_count \in Nat
      /\ c.vm_count > 0 => V > 0
  BY <1>1, CallFacts DEF CountInv
<1>3. /\ \A n \in Nat : SlotFirst(c, n) \in Int /\ SlotLimit(c, n) = SlotFirst(c, n) + V
      /\ \A m, n \in Nat : m < n => SlotLimit(c, m) + G <= SlotFirst(c, n)
  BY <1>1, SlotGap
<1>4. \A p : MappedNow(p) <=> \E n \in Nat : n < c.vm_count /\ InSlot(c, n, p)
  BY DEF MappedNow
<1>5. \A n \in Nat, p \in Int : n < c.vm_count /\ InSlot(c, n, p) => p \in Pages
  BY <1>1, SlotsInReach
<1> HIDE DEF c, V, G
<1>6. ASSUME NEW n \in Nat, n < c.vm_count
      PROVE  InSlot(c, n, SlotLimit(c, n) - 1) /\ SlotLimit(c, n) - 1 \in Pages
  <2>1. SlotFirst(c, n) \in Int /\ SlotLimit(c, n) = SlotFirst(c, n) + V /\ V > 0
    BY <1>2, <1>3, <1>6
  <2>2. InSlot(c, n, SlotLimit(c, n) - 1) /\ SlotLimit(c, n) - 1 \in Int
    BY <1>2, <2>1 DEF InSlot
  <2> QED BY <1>5, <1>6, <2>2
<1>7. ASSUME NEW p \in Pages, MappedNow(p), ~(p + 1 \in Pages /\ MappedNow(p + 1))
      PROVE  \E n \in Nat : n < c.vm_count /\ p = SlotLimit(c, n) - 1
  <2>1. p \in Int
    BY EntriesAssumption DEF Pages
  <2>2. PICK n \in Nat : n < c.vm_count /\ InSlot(c, n, p)
    BY <1>4, <1>7
  <2>3. ~InSlot(c, n, p + 1)
    <3>1. p + 1 \in Int
      BY <2>1
    <3>2. InSlot(c, n, p + 1) => p + 1 \in Pages /\ MappedNow(p + 1)
      BY <1>4, <1>5, <2>2, <3>1
    <3> QED BY <1>7, <3>2
  <2>4. SlotFirst(c, n) \in Int /\ SlotLimit(c, n) = SlotFirst(c, n) + V
    BY <1>3
  <2>5. p = SlotLimit(c, n) - 1
    BY <1>2, <2>1, <2>2, <2>3, <2>4 DEF InSlot
  <2> QED BY <2>2, <2>5
<1>8. ASSUME NEW n \in Nat, n < c.vm_count, NEW m \in Nat
      PROVE  ~InSlot(c, m, SlotLimit(c, n))
  <2>1. /\ SlotFirst(c, n) \in Int /\ SlotLimit(c, n) = SlotFirst(c, n) + V
        /\ SlotFirst(c, m) \in Int /\ SlotLimit(c, m) = SlotFirst(c, m) + V
        /\ m < n => SlotLimit(c, m) + G <= SlotFirst(c, n)
        /\ n < m => SlotLimit(c, n) + G <= SlotFirst(c, m)
    BY <1>3
  <2>2. m < n \/ n < m \/ m = n
    OBVIOUS
  <2>3. V > 0
    BY <1>2, <1>8
  <2> QED BY <1>2, <2>1, <2>2, <2>3 DEF InSlot
<1>9. ASSUME NEW p \in Pages, NEW n \in Nat, n < c.vm_count, p = SlotLimit(c, n) - 1
      PROVE  MappedNow(p) /\ ~MappedNow(p + 1)
  <2>1. MappedNow(p)
    BY <1>4, <1>6, <1>9
  <2>2. p + 1 = SlotLimit(c, n)
    <3>1. SlotFirst(c, n) \in Int /\ SlotLimit(c, n) = SlotFirst(c, n) + V
      BY <1>3
    <3> QED BY <1>2, <1>9, <3>1
  <2> QED BY <1>4, <1>8, <1>9, <2>1, <2>2
<1> QED BY <1>6, <1>7, <1>9 DEF c

(* A finished build holds what was asked for, for every list of calls, and *)
(* whatever an earlier build left in the pools.                            *)
THEOREM SlotsAlwaysAsRequested == MemSpec => []SlotsAsRequested
<1>1. MmuInv /\ SlotInv /\ CountInv => SlotsAsRequested
  <2> SUFFICES ASSUME MmuInv, SlotInv, CountInv, pc \in {"s2_built", "vcpus", "guests"}
               PROVE  SlotsAsRequested
    BY DEF SlotsAsRequested
  <2> DEFINE mapped == {p \in Pages : WalkPage(s2, p) # Invalid}
             ends == {p \in mapped : p + 1 \notin mapped}
  <2>1. call \in KnownCalls /\ PageSize \in Nat \ {0}
    BY MmuAssumption DEF SlotInv
  <2>2. /\ call \in Calls /\ PageOf(call.pa) \in Nat /\ PageOf(call.ipa) \in Nat
        /\ VmPages(call) \in Nat /\ align_up(call.vm_size) = VmPages(call) * PageSize
        /\ call.vm_count \in Nat /\ call.guard_bytes \in Nat
    BY <2>1, CallFacts, SlotGap
  <2>3. \A p \in Pages : p \in Int
    BY EntriesAssumption DEF Pages
  <2>4. \A p \in Pages : /\ WalkPage(s2, p) # Invalid <=> MappedNow(p)
                         /\ MappedNow(p) => WalkPage(s2, p) = SlotDesc(call, p)
    <3>1. \A p \in Pages : WalkPage(s2, p) = IF MappedNow(p) THEN SlotDesc(call, p) ELSE Invalid
      BY DEF SlotInv
    <3>2. \A p \in Pages : SlotDesc(call, p) # Invalid
      <4>1. \A n \in Nat, p \in Int : SlotDesc(call, p) # Invalid
        BY <2>1, SlotDescFacts
      <4>2. 0 \in Nat
        OBVIOUS
      <4> QED BY <2>3, <4>1, <4>2
    <3> QED BY <3>1, <3>2
  <2>5. mapped = MappedSet
    <3>1. \A p \in Pages : WalkPage(s2, p) # Invalid <=> MappedNow(p)
      BY <2>4
    <3> QED BY <3>1, Zenon DEF MappedSet
  <2>6. Cardinality(mapped) * PageSize = call.vm_count * align_up(call.vm_size)
    <3>1. Cardinality(mapped) = call.vm_count * VmPages(call)
      BY <2>5 DEF CountInv, MappedCount
    <3>2. (call.vm_count * VmPages(call)) * PageSize = call.vm_count * (VmPages(call) * PageSize)
      BY <2>1, <2>2
    <3> QED BY <2>2, <3>1, <3>2
  <2>7. \A p \in mapped : WalkPage(s2, p).pa - p = PageOf(call.pa) - PageOf(call.ipa)
    <3> SUFFICES ASSUME NEW p \in mapped
                 PROVE  WalkPage(s2, p).pa - p = PageOf(call.pa) - PageOf(call.ipa)
      OBVIOUS
    <3>1. p \in Pages /\ WalkPage(s2, p) = SlotDesc(call, p)
      BY <2>4
    <3>2. SlotDesc(call, p).pa = p + (PageOf(call.pa) - PageOf(call.ipa)) /\ p \in Int
      BY <2>3, <3>1 DEF SlotDesc
    <3> QED BY <2>2, <3>1, <3>2
  <2>8. ASSUME call.guard_bytes > 0
        PROVE  \A p : p \in ends <=> p \in {SlotLimit(call, n) - 1 : n \in 0 .. call.vm_count - 1}
    <3>1. /\ \A p \in Pages : MappedNow(p) /\ ~(p + 1 \in Pages /\ MappedNow(p + 1)) <=>
                \E n \in Nat : n < call.vm_count /\ p = SlotLimit(call, n) - 1
          /\ \A n \in Nat : n < call.vm_count => SlotLimit(call, n) - 1 \in Pages
      BY <2>8, SlotEnds
    <3>2. \A p : p \in ends <=> p \in Pages /\ MappedNow(p) /\ ~(p + 1 \in Pages /\ MappedNow(p + 1))
      BY <2>5 DEF MappedSet
    <3>3. \A n : n \in 0 .. call.vm_count - 1 <=> n \in Nat /\ n < call.vm_count
      BY <2>2
    <3> HIDE DEF ends
    <3> QED BY <3>1, <3>2, <3>3
  <2>9. ASSUME call.guard_bytes > 0 PROVE Cardinality(ends) = call.vm_count
    <3> DEFINE S == 0 .. call.vm_count - 1
               T == {SlotLimit(call, n) - 1 : n \in S}
               F == [n \in S |-> SlotLimit(call, n) - 1]
    <3>1. ends = T
      BY <2>8, <2>9
    <3>2. IsFiniteSet(S) /\ Cardinality(S) = call.vm_count
      <4>1. 0 \in Int /\ call.vm_count - 1 \in Int
        BY <2>2
      <4>2. IsFiniteSet(S) /\ Cardinality(S) = IF 0 > call.vm_count - 1 THEN 0 ELSE call.vm_count - 1 - 0 + 1
        BY <4>1, FS_Interval
      <4> QED BY <2>2, <4>2
    <3>3. ASSUME NEW m \in S, NEW n \in S, m < n PROVE SlotLimit(call, m) - 1 # SlotLimit(call, n) - 1
      <4>1. m \in Nat /\ n \in Nat /\ call.vm_count > 0
        BY <2>2
      <4>2. /\ SlotFirst(call, n) \in Int /\ SlotLimit(call, n) = SlotFirst(call, n) + VmPages(call)
            /\ SlotFirst(call, m) \in Int /\ SlotLimit(call, m) = SlotFirst(call, m) + VmPages(call)
            /\ SlotLimit(call, m) + GuardPages(call) <= SlotFirst(call, n) /\ GuardPages(call) \in Nat
        BY <2>1, <3>3, <4>1, SlotGap
      <4>3. VmPages(call) > 0
        BY <2>1, <4>1, CallFacts DEF CountInv
      <4> QED BY <2>2, <4>2, <4>3
    <3>4. \A m, n \in S : F[m] = F[n] => m = n
      <4> SUFFICES ASSUME NEW m \in S, NEW n \in S, F[m] = F[n] PROVE m = n
        OBVIOUS
      <4>1. ~(m < n) /\ ~(n < m)
        BY <3>3
      <4>2. m \in Int /\ n \in Int
        BY <2>2
      <4> QED BY <4>1, <4>2
    <3>5. F \in [S -> T] /\ \A t \in T : \E n \in S : F[n] = t
      OBVIOUS
    <3> HIDE DEF S, T, F, ends
    <3>6. Cardinality(T) = Cardinality(S)
      BY <3>2, <3>4, <3>5, SameCount
    <3> QED BY <3>1, <3>2, <3>6
  <2>10. ASSUME NEW e \in ends, NEW p \in mapped, p > e
         PROVE  (p - e - 1) * PageSize >= call.guard_bytes
    <3>1. p \in Int /\ e \in Int
      BY <2>3
    <3>2. CASE call.guard_bytes = 0
      <4>1. p - e - 1 \in Nat
        BY <2>10, <3>1
      <4>2. (p - e - 1) * PageSize \in Nat
        BY <2>1, <4>1
      <4> QED BY <3>2, <4>2
    <3>3. CASE call.guard_bytes > 0
      <4>1. PICK n \in 0 .. call.vm_count - 1 : e = SlotLimit(call, n) - 1
        BY <2>8, <3>3
      <4>2. PICK m \in Nat : m < call.vm_count /\ InSlot(call, m, p)
        BY <2>5 DEF MappedSet, MappedNow
      <4>3. n \in Nat
        BY <2>2
      <4>4. /\ GuardPages(call) \in Nat /\ call.guard_bytes <= GuardPages(call) * PageSize
            /\ SlotFirst(call, n) \in Int /\ SlotLimit(call, n) = SlotFirst(call, n) + VmPages(call)
            /\ SlotFirst(call, m) \in Int /\ SlotLimit(call, m) = SlotFirst(call, m) + VmPages(call)
            /\ n < m => SlotLimit(call, n) + GuardPages(call) <= SlotFirst(call, m)
            /\ m < n => SlotLimit(call, m) + GuardPages(call) <= SlotFirst(call, n)
        BY <2>1, <4>2, <4>3, SlotGap
      <4>5. SlotFirst(call, m) <= p /\ p < SlotLimit(call, m)
        BY <4>2 DEF InSlot
      <4>6. n < m
        <5>1. ~(m < n) /\ m # n
          BY <2>2, <2>10, <3>1, <4>1, <4>4, <4>5
        <5> QED BY <4>3, <5>1
      <4>7. GuardPages(call) <= p - e - 1
        BY <2>2, <3>1, <4>1, <4>4, <4>5, <4>6
      <4>8. GuardPages(call) * PageSize <= (p - e - 1) * PageSize
        <5>1. \A x, y \in Int, d \in Nat : x <= y => x * d <= y * d
          OBVIOUS
        <5>2. p - e - 1 \in Int
          BY <3>1
        <5> QED BY <2>1, <4>4, <4>7, <5>1, <5>2
      <4>9. (p - e - 1) * PageSize \in Int /\ GuardPages(call) * PageSize \in Int
        BY <2>1, <3>1, <4>4
      <4> QED BY <2>2, <4>4, <4>8, <4>9
    <3> QED BY <2>2, <3>2, <3>3
  <2> QED BY <2>6, <2>7, <2>9, <2>10 DEF SlotsAsRequested
<1> QED BY <1>1, CountInvariant, TablesStayWellFormed, SlotInvariant, PTL

-----------------------------------------------------------------------------
(* The pages that a walk finds, and the tables that they need. *)
MappedPaths(t) == {q \in Paths : Walk(t, q) # Invalid}
L2Needs(t) == {q[1] : q \in MappedPaths(t)}
L3Needs(t) == {<<q[1], q[2]>> : q \in MappedPaths(t)}

(* The inductive invariant of the pools: every table that was taken leads  *)
(* to a mapped page, and as many were taken as the mapped pages need.      *)
Thrifty(t) ==
  /\ \A i \in Index : t.l1[i] # 0 => i \in L2Needs(t)
  /\ \A i, j \in Index : HasL3(t, i, j) => <<i, j>> \in L3Needs(t)
  /\ IsFiniteSet(L2Needs(t)) /\ Cardinality(L2Needs(t)) = t.l2_used
  /\ IsFiniteSet(L3Needs(t)) /\ Cardinality(L3Needs(t)) = t.l3_used
Exhausted(t) == Cardinality(L2Needs(t)) = t.l2_max \/ Cardinality(L3Needs(t)) = t.l3_max
PoolInv(t) == IF t.hung THEN Exhausted(t) ELSE Thrifty(t)

(* A mapped page is reached through an L2 table and an L3 table. *)
LEMMA NeedsReached ==
  ASSUME NEW t
  PROVE  /\ \A i \in L2Needs(t) : t.l1[i] # 0
         /\ \A i, j : <<i, j>> \in L3Needs(t) => HasL3(t, i, j)
<1>1. ASSUME NEW q \in MappedPaths(t) PROVE t.l1[q[1]] # 0 /\ HasL3(t, q[1], q[2])
  BY DEF MappedPaths, Walk, HasL3
<1>2. \A i \in L2Needs(t) : t.l1[i] # 0
  BY <1>1 DEF L2Needs
<1>3. ASSUME NEW i, NEW j, <<i, j>> \in L3Needs(t) PROVE HasL3(t, i, j)
  <2>1. PICK q \in MappedPaths(t) : <<i, j>> = <<q[1], q[2]>>
    BY <1>3 DEF L3Needs
  <2>2. i = q[1] /\ j = q[2]
    BY <2>1
  <2> QED BY <1>1, <2>2
<1> QED BY <1>2, <1>3

(* Tables that map nothing need nothing. *)
LEMMA EmptyThrifty ==
  ASSUME NEW t, t.l2_used = 0, t.l3_used = 0, \A i \in Index : t.l1[i] = 0
  PROVE  Thrifty(t)
<1>1. MappedPaths(t) = {}
  <2> SUFFICES ASSUME NEW q \in Paths PROVE Walk(t, q) = Invalid
    BY DEF MappedPaths
  <2>1. q[1] \in Index
    BY DEF Paths
  <2> QED BY <2>1 DEF Walk
<1>2. L2Needs(t) = {} /\ L3Needs(t) = {}
  BY <1>1 DEF L2Needs, L3Needs
<1> QED BY <1>2, FS_EmptySet DEF Thrifty, HasL3

(* Installing a page keeps the pools thrifty, or finds one exhausted by    *)
(* other pages.                                                            *)
LEMMA MapThrifty ==
  ASSUME NEW a \in Nat, NEW b \in Nat, NEW D, Invalid \notin D,
         NEW t \in TableSets(a, b, D), WellFormed(t), ~t.hung, Thrifty(t),
         NEW path \in Paths, NEW d \in D
  PROVE  PoolInv(map_path(t, path, d))
<1> DEFINE r == map_path(t, path, d)
           i == path[1]
           j == path[2]
<1>1. /\ r.hung => SameWalk(t, r)
      /\ ~r.hung => \A q \in Paths : Walk(r, q) = IF q = path THEN d ELSE Walk(t, q)
      /\ r \in TableSets(a, b, D)
  BY MapPathSetsOnePage
<1>2. /\ r.hung => t.l2_used = t.l2_max \/ t.l3_used = t.l3_max
      /\ ~r.hung =>
           /\ r.l2_used = IF t.l1[i] = 0 THEN t.l2_used + 1 ELSE t.l2_used
           /\ r.l3_used = IF HasL3(t, i, j) THEN t.l3_used ELSE t.l3_used + 1
           /\ \A x \in Index : r.l1[x] # 0 <=> t.l1[x] # 0 \/ x = i
           /\ \A x, y \in Index : HasL3(r, x, y) <=> HasL3(t, x, y) \/ (x = i /\ y = j)
  BY MapPathTakes
<1>3. i \in Index /\ j \in Index
  BY DEF Paths
<1> HIDE DEF r
<1>4. r.l2_max = a /\ r.l3_max = b /\ t.l2_max = a /\ t.l3_max = b
  <2>1. r \in TableSets(a, b, D)
    BY <1>1
  <2>2. r.l2_max = a /\ r.l3_max = b
    BY <2>1, FieldTypes
  <2>3. t.l2_max = a /\ t.l3_max = b
    BY FieldTypes
  <2> QED BY <2>2, <2>3
<1>5. CASE r.hung
  <2>1. MappedPaths(r) = MappedPaths(t)
    BY <1>1, <1>5 DEF MappedPaths, SameWalk
  <2>2. L2Needs(r) = L2Needs(t) /\ L3Needs(r) = L3Needs(t)
    BY <2>1 DEF L2Needs, L3Needs
  <2>3. Cardinality(L2Needs(r)) = t.l2_used /\ Cardinality(L3Needs(r)) = t.l3_used
    BY <2>2 DEF Thrifty
  <2>4. Exhausted(r)
    BY <1>2, <1>4, <1>5, <2>3 DEF Exhausted
  <2> QED BY <1>5, <2>4 DEF PoolInv, r
<1>6. CASE ~r.hung
  <2>1. MappedPaths(r) = MappedPaths(t) \cup {path}
    <3>1. d # Invalid
      OBVIOUS
    <3>2. \A q \in Paths : Walk(r, q) # Invalid <=> Walk(t, q) # Invalid \/ q = path
      BY <1>1, <1>6, <3>1
    <3> QED BY <3>2 DEF MappedPaths
  <2>2. L2Needs(r) = L2Needs(t) \cup {i}
    BY <2>1 DEF L2Needs
  <2>3. L3Needs(r) = L3Needs(t) \cup {<<i, j>>}
    BY <2>1 DEF L3Needs
  <2> HIDE DEF i, j
  <2>4. i \in L2Needs(t) <=> t.l1[i] # 0
    BY <1>3, NeedsReached DEF Thrifty
  <2>5. <<i, j>> \in L3Needs(t) <=> HasL3(t, i, j)
    BY <1>3, NeedsReached DEF Thrifty
  <2>6. IsFiniteSet(L2Needs(r)) /\ Cardinality(L2Needs(r)) = r.l2_used
    <3>1. IsFiniteSet(L2Needs(t)) /\ Cardinality(L2Needs(t)) = t.l2_used
      BY DEF Thrifty
    <3>2. /\ IsFiniteSet(L2Needs(t) \cup {i})
          /\ Cardinality(L2Needs(t) \cup {i}) =
               IF i \in L2Needs(t) THEN Cardinality(L2Needs(t)) ELSE Cardinality(L2Needs(t)) + 1
      BY <3>1, FS_AddElement
    <3> QED BY <1>2, <1>6, <2>2, <2>4, <3>1, <3>2
  <2>7. IsFiniteSet(L3Needs(r)) /\ Cardinality(L3Needs(r)) = r.l3_used
    <3>1. IsFiniteSet(L3Needs(t)) /\ Cardinality(L3Needs(t)) = t.l3_used
      BY DEF Thrifty
    <3>2. /\ IsFiniteSet(L3Needs(t) \cup {<<i, j>>})
          /\ Cardinality(L3Needs(t) \cup {<<i, j>>}) =
               IF <<i, j>> \in L3Needs(t) THEN Cardinality(L3Needs(t)) ELSE Cardinality(L3Needs(t)) + 1
      BY <3>1, FS_AddElement
    <3> QED BY <1>2, <1>6, <2>3, <2>5, <3>1, <3>2
  <2>8. \A x \in Index : r.l1[x] # 0 => x \in L2Needs(r)
    BY <1>2, <1>6, <2>2 DEF Thrifty
  <2>9. \A x, y \in Index : HasL3(r, x, y) => <<x, y>> \in L3Needs(r)
    BY <1>2, <1>6, <2>3 DEF Thrifty
  <2>10. Thrifty(r)
    BY <2>6, <2>7, <2>8, <2>9 DEF Thrifty
  <2> QED BY <1>6, <2>10 DEF PoolInv, r
<1> QED BY <1>5, <1>6

(* A reset gives all tables back. *)
LEMMA ResetThrifty ==
  ASSUME NEW a \in Nat, NEW b \in Nat, NEW D, NEW t \in TableSets(a, b, D), ~t.hung
  PROVE  PoolInv(tables_reset(t))
<1> DEFINE r == tables_reset(t)
<1>1. r.l1 = NoTables /\ r.l2_used = 0 /\ r.l3_used = 0 /\ r.hung = t.hung
  BY DEF tables_reset, TableSets
<1> HIDE DEF r
<1>2. \A i \in Index : r.l1[i] = 0
  BY <1>1, ZeroFacts
<1>3. Thrifty(r)
  BY <1>1, <1>2, EmptyThrifty
<1> QED BY <1>1, <1>3 DEF PoolInv, r

(* Every step keeps both sets of pools thrifty. *)
LEMMA PoolStep ==
  ASSUME MmuInv, PoolInv(el2), PoolInv(s2), [MemNext]_memVars
  PROVE  PoolInv(el2') /\ PoolInv(s2')
<1>1. /\ el2 \in TableSets(El2L2Max, El2L3Max, El2Descs) /\ WellFormed(el2)
      /\ s2 \in TableSets(S2L2Max, S2L3Max, S2Descs) /\ WellFormed(s2)
      /\ {El2L2Max, El2L3Max, S2L2Max, S2L3Max} \subseteq Nat
      /\ pc # "hang" => ~el2.hung /\ ~s2.hung
      /\ cur \in Int /\ range \in Ranges /\ call \in Calls /\ vm \in Nat
      /\ sizes \in [Sections -> Nat]
  BY PoolSizes DEF MmuInv
<1>2. PoolInv(el2')
  <2>1. CASE El2MmuInit
    BY <1>1, <2>1, ResetThrifty DEF El2MmuInit
  <2>2. CASE El2MapPage
    <3>1. /\ el2' = map_path(el2, Path(cur), El2Desc(MapRange[range], cur)) /\ ~el2.hung
      BY <1>1, <2>2 DEF El2MapPage, map_page
    <3>2. El2Desc(MapRange[range], cur) \in El2Descs /\ Path(cur) \in Paths
      BY <1>1, RangeTypes, PathInPaths
    <3>3. Thrifty(el2)
      BY <3>1 DEF PoolInv
    <3> QED BY <1>1, <3>1, <3>2, <3>3, MapThrifty, InvalidAssumption
  <2>3. CASE ~(El2MmuInit \/ El2MapPage)
    <3>1. el2' = el2
      BY <2>3 DEF MemNext, MmuNext, BootStep, El2MapReturn, el2_mmu_enable, S2BuildStart, S2MapPage,
                  S2SlotDone, s2_program_regs_and_enable, InitVcpus, Hung,
                  GuestTask, GuestReport, GuestYield, Halted, memVars, mmuVars
    <3> QED BY <3>1
  <2> QED BY <2>1, <2>2, <2>3
<1>3. PoolInv(s2')
  <2>1. ASSUME NEW c \in S2Calls, S2BuildStart(c) PROVE PoolInv(s2')
    <3>1. s2' = s2 \/ s2' = tables_reset(s2)
      BY <2>1 DEF S2BuildStart
    <3>2. ~s2.hung
      BY <1>1, <2>1 DEF S2BuildStart
    <3>3. PoolInv(tables_reset(s2))
      BY <1>1, <3>2, ResetThrifty
    <3> QED BY <3>1, <3>3
  <2>2. CASE S2MapPage
    <3>1. /\ s2' = map_path(s2, Path(cur), S2Desc(call, vm, cur)) /\ ~s2.hung
      BY <1>1, <2>2 DEF S2MapPage, map_page
    <3>2. S2Desc(call, vm, cur) \in S2Descs /\ Path(cur) \in Paths
      BY <1>1, SlotTypes, PathInPaths
    <3>3. Thrifty(s2)
      BY <3>1 DEF PoolInv
    <3> QED BY <1>1, <3>1, <3>2, <3>3, MapThrifty, InvalidAssumption
  <2>3. CASE ~((\E c \in S2Calls : S2BuildStart(c)) \/ S2MapPage)
    <3>1. s2' = s2
      BY <2>3 DEF MemNext, MmuNext, BootStep, El2MmuInit, El2MapPage, El2MapReturn, el2_mmu_enable,
                  S2SlotDone, s2_program_regs_and_enable, InitVcpus, Hung,
                  GuestTask, GuestReport, GuestYield, Halted, memVars, mmuVars, s2Vars
    <3> QED BY <3>1
  <2> QED BY <2>1, <2>2, <2>3
<1> QED BY <1>2, <1>3

(* Neither builder takes a table that its pages do not need, and neither   *)
(* gives up before a pool is used up by pages that are mapped, for every   *)
(* pool size and every sequence of builds.                                 *)
THEOREM PoolsNeverWasted == MemSpec => []PoolsNotWasted
<1>1. MemInit => PoolInv(el2) /\ PoolInv(s2)
  <2>1. ASSUME NEW a \in Nat, NEW b \in Nat PROVE PoolInv(ZeroTables(a, b))
    <3> DEFINE z == ZeroTables(a, b)
    <3>1. z.l1 = NoTables /\ z.l2_used = 0 /\ z.l3_used = 0 /\ ~z.hung
      BY DEF ZeroTables
    <3> HIDE DEF z
    <3>2. Thrifty(z)
      BY <3>1, ZeroFacts, EmptyThrifty
    <3> QED BY <3>1, <3>2 DEF PoolInv, z
  <2> QED BY <2>1, PoolSizes DEF MemInit, MmuInit
<1>2. MmuInv /\ PoolInv(el2) /\ PoolInv(s2) /\ [MemNext]_memVars => PoolInv(el2') /\ PoolInv(s2')
  BY PoolStep
<1>3. PoolInv(el2) /\ PoolInv(s2) => PoolsNotWasted
  <2>1. \A t : Needed(t).l2 = Cardinality(L2Needs(t)) /\ Needed(t).l3 = Cardinality(L3Needs(t))
    BY DEF Needed, L2Needs, L3Needs, MappedPaths
  <2> QED BY <2>1 DEF PoolsNotWasted, PoolInv, Exhausted, Thrifty
<1>4. (PoolInv(el2) /\ PoolInv(s2))' <=> PoolInv(el2') /\ PoolInv(s2')
  BY DEF PoolInv, Exhausted, Thrifty, L2Needs, L3Needs, MappedPaths, HasL3, Walk
<1> QED BY <1>1, <1>2, <1>3, <1>4, TablesStayWellFormed, PTL DEF MemSpec
=============================================================================
