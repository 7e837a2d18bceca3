--------------------------- MODULE PageTableProofs ---------------------------
(***************************************************************************)
(* The table builder, proved for every table size and pool size: whatever  *)
(* it has built before, installing one page changes what the processor     *)
(* walks to for that page only, or hangs and changes nothing.              *)
(***************************************************************************)
EXTENDS PageTable, TLAPS

(* The inductive invariant of the builder.  The processor's descriptors    *)
(* and the builder's pointers agree in every table that is in use, they    *)
(* point to tables in use, and no table is pointed to twice: without the   *)
(* last part, writing one page could change another.                       *)
TablesAgree(t) ==
  /\ t.l1 = t.l1_children
  /\ \A k \in 1 .. t.l2_used : t.l2_pool[k].entries = t.l2_pool[k].children
PointersInUse(t) ==
  /\ \A i \in Index : t.l1[i] \in 0 .. t.l2_used
  /\ \A k \in 1 .. t.l2_used, j \in Index : t.l2_pool[k].entries[j] \in 0 .. t.l3_used
PointersDistinct(t) ==
  /\ \A i, j \in Index : t.l1[i] # 0 /\ t.l1[i] = t.l1[j] => i = j
  /\ \A k, m \in 1 .. t.l2_used, i, j \in Index :
       t.l2_pool[k].entries[i] # 0 /\ t.l2_pool[k].entries[i] = t.l2_pool[m].entries[j]
       => k = m /\ i = j
WellFormed(t) == TablesAgree(t) /\ PointersInUse(t) /\ PointersDistinct(t)

(* Two sets of tables look the same to the processor. *)
SameWalk(t, u) == \A q \in Paths : Walk(u, q) = Walk(t, q)

(* The builder's updates of a pool and of a table, named so that the facts *)
(* about them can be cited without expanding them.                         *)
L2Set(f, k, j, x) == [f EXCEPT ![k].children[j] = x, ![k].entries[j] = x]
L3Cleared(f, n) == [f EXCEPT ![n] = ZeroL3]
L3Set(f, n, x, d) == [f EXCEPT ![n][x] = d]
Installed(t, n, x, d) == [t EXCEPT !.l3_pool[n][x] = d]

-----------------------------------------------------------------------------
(* Facts about the component sets, so that the proofs below can treat a    *)
(* set of tables as a record of opaque fields.                             *)
LEMMA PointersFacts ==
  ASSUME NEW n \in Nat
  PROVE  /\ NoTables \in Pointers(n)
         /\ \A i \in Index : NoTables[i] = 0
         /\ \A f \in Pointers(n), i \in Index : f[i] \in 0 .. n
         /\ \A f \in Pointers(n), i \in Index, x \in 0 .. n :
              /\ [f EXCEPT ![i] = x] \in Pointers(n)
              /\ [f EXCEPT ![i] = x][i] = x
              /\ \A j \in Index : j # i => [f EXCEPT ![i] = x][j] = f[j]
BY DEF Pointers, NoTables

(* Zeroing one L2 table of the pool leaves the others as they are. *)
LEMMA L2PoolFacts ==
  ASSUME NEW a \in Nat, NEW b \in Nat, NEW f \in L2Pools(a, b), NEW k \in 1 .. a
  PROVE  /\ f[k].entries \in Pointers(b) /\ f[k].children \in Pointers(b)
         /\ [f EXCEPT ![k] = ZeroL2] \in L2Pools(a, b)
         /\ [f EXCEPT ![k] = ZeroL2][k] = ZeroL2
         /\ \A m \in 1 .. a : m # k => [f EXCEPT ![k] = ZeroL2][m] = f[m]
BY PointersFacts DEF L2Pools, ZeroL2

(* What a zeroed table holds. *)
LEMMA ZeroFacts ==
  /\ ZeroL2.entries = NoTables /\ ZeroL2.children = NoTables
  /\ \A i \in Index : NoTables[i] = 0 /\ ZeroL3[i] = Invalid
BY DEF ZeroL2, NoTables, ZeroL3

(* Zeroing one L3 table of the pool leaves the others as they are. *)
LEMMA L3PoolFacts ==
  ASSUME NEW b \in Nat, NEW D, NEW f \in L3Pools(b, D), NEW n \in 1 .. b
  PROVE  /\ L3Cleared(f, n) \in L3Pools(b, D)
         /\ L3Cleared(f, n)[n] = ZeroL3
         /\ \A m \in 1 .. b : m # n => L3Cleared(f, n)[m] = f[m]
BY DEF L3Pools, ZeroL3, L3Cleared

(* Writing one page descriptor leaves every other one as it is. *)
LEMMA L3SetFacts ==
  ASSUME NEW b \in Nat, NEW D, NEW f \in L3Pools(b, D), NEW n \in 1 .. b,
         NEW x \in Index, NEW d \in D
  PROVE  /\ L3Set(f, n, x, d) \in L3Pools(b, D)
         /\ L3Set(f, n, x, d)[n][x] = d
         /\ \A m \in 1 .. b, y \in Index :
              ~(m = n /\ y = x) => L3Set(f, n, x, d)[m][y] = f[m][y]
BY DEF L3Pools, L3Set

(* An entry of an L2 table is set in both views. *)
LEMMA L2PoolSet ==
  ASSUME NEW a \in Nat, NEW b \in Nat, NEW f \in L2Pools(a, b), NEW k \in 1 .. a,
         NEW j \in Index, NEW x \in 0 .. b
  PROVE  /\ L2Set(f, k, j, x) \in L2Pools(a, b)
         /\ L2Set(f, k, j, x)[k].entries = [f[k].entries EXCEPT ![j] = x]
         /\ L2Set(f, k, j, x)[k].children = [f[k].children EXCEPT ![j] = x]
         /\ \A m \in 1 .. a : m # k => L2Set(f, k, j, x)[m] = f[m]
<1> DEFINE E == [f[k].entries EXCEPT ![j] = x]
           C == [f[k].children EXCEPT ![j] = x]
           r == [[f[k] EXCEPT !.children = C] EXCEPT !.entries = E]
           g == L2Set(f, k, j, x)
<1>1. f[k] \in [entries : Pointers(b), children : Pointers(b)]
  BY DEF L2Pools
<1>2. E \in Pointers(b) /\ C \in Pointers(b)
  BY <1>1, PointersFacts
<1>3. r \in [entries : Pointers(b), children : Pointers(b)] /\ r.entries = E /\ r.children = C
  <2> HIDE DEF E, C
  <2> QED BY <1>1, <1>2
<1>4. g = [f EXCEPT ![k] = r]
  BY DEF L2Pools, L2Set
<1> HIDE DEF r, g
<1>5. g \in L2Pools(a, b) /\ g[k] = r /\ \A m \in 1 .. a : m # k => g[m] = f[m]
  BY <1>3, <1>4 DEF L2Pools
<1>6. /\ g \in L2Pools(a, b) /\ g[k].entries = E /\ g[k].children = C
      /\ \A m \in 1 .. a : m # k => g[m] = f[m]
  BY <1>3, <1>5
<1> QED BY <1>6 DEF g

(* Each field of a set of tables may be replaced by another of its type. *)
LEMMA FieldSet ==
  ASSUME NEW a \in Nat, NEW b \in Nat, NEW D, NEW t \in TableSets(a, b, D)
  PROVE  /\ \A x \in Pointers(a) : [t EXCEPT !.l1 = x] \in TableSets(a, b, D)
         /\ \A x \in Pointers(a) : [t EXCEPT !.l1_children = x] \in TableSets(a, b, D)
         /\ \A x \in L2Pools(a, b) : [t EXCEPT !.l2_pool = x] \in TableSets(a, b, D)
         /\ \A x \in L3Pools(b, D) : [t EXCEPT !.l3_pool = x] \in TableSets(a, b, D)
         /\ \A x \in 0 .. a : [t EXCEPT !.l2_used = x] \in TableSets(a, b, D)
         /\ \A x \in 0 .. b : [t EXCEPT !.l3_used = x] \in TableSets(a, b, D)
         /\ \A x \in BOOLEAN : [t EXCEPT !.hung = x] \in TableSets(a, b, D)
<1>1. \A x \in Pointers(a) : [t EXCEPT !.l1 = x] \in TableSets(a, b, D)
  BY DEF TableSets
<1>2. \A x \in Pointers(a) : [t EXCEPT !.l1_children = x] \in TableSets(a, b, D)
  BY DEF TableSets
<1>3. \A x \in L2Pools(a, b) : [t EXCEPT !.l2_pool = x] \in TableSets(a, b, D)
  BY DEF TableSets
<1>4. \A x \in L3Pools(b, D) : [t EXCEPT !.l3_pool = x] \in TableSets(a, b, D)
  BY DEF TableSets
<1>5. \A x \in 0 .. a : [t EXCEPT !.l2_used = x] \in TableSets(a, b, D)
  BY DEF TableSets
<1>6. \A x \in 0 .. b : [t EXCEPT !.l3_used = x] \in TableSets(a, b, D)
  BY DEF TableSets
<1>7. \A x \in BOOLEAN : [t EXCEPT !.hung = x] \in TableSets(a, b, D)
  BY DEF TableSets
<1> QED BY <1>1, <1>2, <1>3, <1>4, <1>5, <1>6, <1>7

(* The types of the fields. *)
LEMMA FieldTypes ==
  ASSUME NEW a \in Nat, NEW b \in Nat, NEW D, NEW t \in TableSets(a, b, D)
  PROVE  /\ t.l1 \in Pointers(a) /\ t.l1_children \in Pointers(a)
         /\ t.l2_pool \in L2Pools(a, b) /\ t.l3_pool \in L3Pools(b, D)
         /\ t.l2_max = a /\ t.l3_max = b /\ t.hung \in BOOLEAN
         /\ t.l2_used \in 0 .. a /\ t.l3_used \in 0 .. b
BY DEF TableSets

-----------------------------------------------------------------------------
(* Zeroed tables are well formed and map nothing. *)
LEMMA ZeroWellFormed ==
  ASSUME NEW a \in Nat, NEW b \in Nat, NEW D
  PROVE  /\ ZeroTables(a, b) \in TableSets(a, b, D)
         /\ WellFormed(ZeroTables(a, b))
         /\ ~ZeroTables(a, b).hung
         /\ \A q \in Paths : Walk(ZeroTables(a, b), q) = Invalid
BY EntriesAssumption
   DEF ZeroTables, TableSets, WellFormed, TablesAgree, PointersInUse, PointersDistinct, Walk,
       NoTables, ZeroL2, ZeroL3, Index, Paths, Pointers, L2Pools, L3Pools

(* A reset makes every page invalid although the pools keep their contents. *)
LEMMA ResetWellFormed ==
  ASSUME NEW a \in Nat, NEW b \in Nat, NEW D, NEW t \in TableSets(a, b, D)
  PROVE  /\ tables_reset(t) \in TableSets(a, b, D)
         /\ WellFormed(tables_reset(t))
         /\ tables_reset(t).hung = t.hung
         /\ \A q \in Paths : Walk(tables_reset(t), q) = Invalid
<1> DEFINE r == tables_reset(t)
<1>1. /\ r.l1 = NoTables /\ r.l1_children = NoTables
      /\ r.l2_used = 0 /\ r.l3_used = 0 /\ r.hung = t.hung
  BY DEF tables_reset, TableSets
<1>2. r \in TableSets(a, b, D)
  <2> DEFINE r1 == [t EXCEPT !.l1 = NoTables]
             r2 == [r1 EXCEPT !.l1_children = NoTables]
             r3 == [r2 EXCEPT !.l2_used = 0]
             r4 == [r3 EXCEPT !.l3_used = 0]
  <2>1. r = r4
    BY DEF tables_reset
  <2>2. NoTables \in Pointers(a) /\ 0 \in 0 .. a /\ 0 \in 0 .. b
    BY PointersFacts
  <2>3. r1 \in TableSets(a, b, D)
    BY <2>2, FieldSet
  <2> HIDE DEF r1
  <2>4. r2 \in TableSets(a, b, D)
    BY <2>2, <2>3, FieldSet
  <2> HIDE DEF r2
  <2>5. r3 \in TableSets(a, b, D)
    BY <2>2, <2>4, FieldSet
  <2> HIDE DEF r3
  <2>6. r4 \in TableSets(a, b, D)
    BY <2>2, <2>5, FieldSet
  <2> QED BY <2>1, <2>6
<1>3. WellFormed(r)
  <2> HIDE DEF r
  <2> QED BY <1>1 DEF WellFormed, TablesAgree, PointersInUse, PointersDistinct, NoTables
<1>4. \A q \in Paths : Walk(r, q) = Invalid
  <2> HIDE DEF r
  <2> QED BY <1>1 DEF Walk, NoTables, Paths
<1> QED BY <1>1, <1>2, <1>3, <1>4

(* A builder that gives up leaves the tables as they were. *)
LEMMA HungKeeps ==
  ASSUME NEW a \in Nat, NEW b \in Nat, NEW D, NEW t \in TableSets(a, b, D), WellFormed(t)
  PROVE  LET h == [t EXCEPT !.hung = TRUE]
         IN h \in TableSets(a, b, D) /\ h.hung /\ WellFormed(h) /\ SameWalk(t, h)
<1> DEFINE h == [t EXCEPT !.hung = TRUE]
<1>1. h \in TableSets(a, b, D)
  BY FieldSet
<1>2. /\ h.l1 = t.l1 /\ h.l1_children = t.l1_children
      /\ h.l2_pool = t.l2_pool /\ h.l3_pool = t.l3_pool
      /\ h.l2_used = t.l2_used /\ h.l3_used = t.l3_used /\ h.hung
  BY DEF TableSets
<1> HIDE DEF h
<1>3. WellFormed(h)
  BY <1>2 DEF WellFormed, TablesAgree, PointersInUse, PointersDistinct
<1>4. SameWalk(t, h)
  BY <1>2 DEF SameWalk, Walk
<1> QED BY <1>1, <1>2, <1>3, <1>4 DEF h

(* ensure_l2 changes nothing that the processor sees and leaves a table    *)
(* below entry i, unless the pool is empty.                                *)
LEMMA EnsureL2 ==
  ASSUME NEW a \in Nat, NEW b \in Nat, NEW D,
         NEW t \in TableSets(a, b, D), WellFormed(t), ~t.hung, NEW i \in Index
  PROVE  LET u == ensure_l2(t, i)
         IN /\ u \in TableSets(a, b, D)
            /\ WellFormed(u)
            /\ SameWalk(t, u)
            /\ ~u.hung => u.l1_children[i] \in 1 .. u.l2_used
<1> DEFINE n == t.l2_used + 1
           v1 == [t EXCEPT !.l2_used = n]
           v2 == [v1 EXCEPT !.l2_pool = [t.l2_pool EXCEPT ![n] = ZeroL2]]
           v3 == [v2 EXCEPT !.l1_children = [t.l1_children EXCEPT ![i] = n]]
           v  == [v3 EXCEPT !.l1 = [t.l1 EXCEPT ![i] = n]]
<1>0. /\ t.l1 \in Pointers(a) /\ t.l1_children \in Pointers(a)
      /\ t.l2_pool \in L2Pools(a, b) /\ t.l2_max = a
      /\ t.l2_used \in 0 .. a /\ t.l3_used \in 0 .. b
  BY FieldTypes
<1>1. CASE t.l1_children[i] # 0
  BY <1>0, <1>1 DEF ensure_l2, SameWalk, WellFormed, TablesAgree, PointersInUse, Index
<1>2. CASE t.l1_children[i] = 0 /\ t.l2_used >= t.l2_max
  <2>1. ensure_l2(t, i) = [t EXCEPT !.hung = TRUE]
    BY <1>2 DEF ensure_l2, alloc_l2, TableSets
  <2> QED
    BY <2>1, HungKeeps
<1>3. CASE t.l1_children[i] = 0 /\ ~(t.l2_used >= t.l2_max)
  <2>1. ensure_l2(t, i) = v
    BY <1>3 DEF ensure_l2, alloc_l2, TableSets
  <2>2. n \in 1 .. a /\ n \in 0 .. a
    BY <1>0, <1>3
  <2>3. /\ v.l1 = [t.l1 EXCEPT ![i] = n] /\ v.l1_children = [t.l1_children EXCEPT ![i] = n]
        /\ v.l2_pool = [t.l2_pool EXCEPT ![n] = ZeroL2] /\ v.l3_pool = t.l3_pool
        /\ v.l2_used = n /\ v.l3_used = t.l3_used /\ ~v.hung
    BY DEF TableSets
  <2>4. /\ v.l1 \in Pointers(a) /\ v.l1[i] = n
        /\ v.l1_children \in Pointers(a) /\ v.l1_children[i] = n
        /\ \A j \in Index : j # i => v.l1[j] = t.l1[j]
    BY <1>0, <2>2, <2>3, PointersFacts
  <2>5. /\ v.l2_pool \in L2Pools(a, b) /\ v.l2_pool[n] = ZeroL2
        /\ \A k \in 1 .. a : k # n => v.l2_pool[k] = t.l2_pool[k]
    <3> HIDE DEF v
    <3>1. /\ [t.l2_pool EXCEPT ![n] = ZeroL2] \in L2Pools(a, b)
          /\ [t.l2_pool EXCEPT ![n] = ZeroL2][n] = ZeroL2
          /\ \A k \in 1 .. a : k # n => [t.l2_pool EXCEPT ![n] = ZeroL2][k] = t.l2_pool[k]
      <4> HIDE DEF n
      <4> QED BY <1>0, <2>2, L2PoolFacts
    <3> QED BY <2>3, <3>1
  <2>6. v \in TableSets(a, b, D)
    <3>1. v1 \in TableSets(a, b, D)
      BY <2>2, FieldSet
    <3> HIDE DEF v1
    <3>2. v2 \in TableSets(a, b, D)
      BY <2>3, <2>5, <3>1, FieldSet
    <3> HIDE DEF v2
    <3>3. v3 \in TableSets(a, b, D)
      BY <2>3, <2>4, <3>2, FieldSet
    <3> HIDE DEF v3
    <3> QED BY <2>3, <2>4, <3>3, FieldSet
  <2> HIDE DEF v
  <2>7. \A k \in 1 .. t.l2_used : v.l2_pool[k] = t.l2_pool[k]
    BY <1>0, <2>2, <2>5
  <2>8. t.l1[i] = 0
    BY <1>3 DEF WellFormed, TablesAgree
  <2>9. TablesAgree(v)
    BY <1>0, <2>3, <2>5, <2>7, ZeroFacts DEF TablesAgree, WellFormed
  <2>10. PointersInUse(v)
    BY <1>0, <2>3, <2>4, <2>5, <2>7, ZeroFacts DEF PointersInUse, WellFormed
  <2>11. PointersDistinct(v)
    <3>1. \A x, y \in Index : v.l1[x] # 0 /\ v.l1[x] = v.l1[y] => x = y
      BY <1>0, <2>4 DEF PointersDistinct, PointersInUse, WellFormed
    <3>2. ASSUME NEW k \in 1 .. n, NEW m \in 1 .. n, NEW x \in Index, NEW y \in Index,
                 v.l2_pool[k].entries[x] # 0,
                 v.l2_pool[k].entries[x] = v.l2_pool[m].entries[y]
          PROVE  k = m /\ x = y
      <4>1. k # n /\ m # n
        BY <2>5, <3>2, ZeroFacts
      <4>2. k \in 1 .. t.l2_used /\ m \in 1 .. t.l2_used
        BY <1>0, <4>1
      <4> QED BY <2>7, <3>2, <4>2 DEF PointersDistinct, WellFormed
    <3> QED BY <2>3, <3>1, <3>2 DEF PointersDistinct
  <2>12. SameWalk(t, v)
    <3> SUFFICES ASSUME NEW q \in Paths PROVE Walk(v, q) = Walk(t, q)
      BY DEF SameWalk
    <3>1. q[1] \in Index /\ q[2] \in Index
      BY DEF Paths
    <3>2. CASE q[1] = i
      <4>1. Walk(t, q) = Invalid
        BY <2>8, <3>2 DEF Walk
      <4>2. v.l1[q[1]] = n /\ v.l2_pool[n].entries[q[2]] = 0
        BY <2>4, <2>5, <3>1, <3>2, ZeroFacts
      <4> QED BY <4>1, <4>2 DEF Walk
    <3>3. CASE q[1] # i
      <4>1. v.l1[q[1]] = t.l1[q[1]] /\ t.l1[q[1]] \in 0 .. t.l2_used
        BY <2>4, <3>1, <3>3 DEF WellFormed, PointersInUse
      <4>2. t.l1[q[1]] # 0 => v.l2_pool[t.l1[q[1]]] = t.l2_pool[t.l1[q[1]]]
        BY <1>0, <2>7, <4>1
      <4> QED BY <2>3, <4>1, <4>2 DEF Walk
    <3> QED BY <3>2, <3>3
  <2> QED
    BY <1>0, <2>1, <2>2, <2>3, <2>4, <2>6, <2>9, <2>10, <2>11, <2>12 DEF WellFormed
<1> QED BY <1>0, <1>1, <1>2, <1>3

(* ensure_l3 does the same one level down and leaves the L1 table alone. *)
LEMMA EnsureL3 ==
  ASSUME NEW a \in Nat, NEW b \in Nat, NEW D,
         NEW t \in TableSets(a, b, D), WellFormed(t), ~t.hung,
         NEW k \in 1 .. t.l2_used, NEW j \in Index
  PROVE  LET u == ensure_l3(t, k, j)
         IN /\ u \in TableSets(a, b, D)
            /\ WellFormed(u)
            /\ SameWalk(t, u)
            /\ ~u.hung => /\ u.l1_children = t.l1_children /\ u.l2_used = t.l2_used
                          /\ u.l2_pool[k].children[j] \in 1 .. u.l3_used
<1> DEFINE n == t.l3_used + 1
           P == L2Set(t.l2_pool, k, j, n)
           v1 == [t EXCEPT !.l3_used = n]
           v2 == [v1 EXCEPT !.l3_pool = L3Cleared(t.l3_pool, n)]
           v  == [v2 EXCEPT !.l2_pool = P]
<1>0. /\ t.l1 \in Pointers(a) /\ t.l1_children \in Pointers(a)
      /\ t.l2_pool \in L2Pools(a, b) /\ t.l3_pool \in L3Pools(b, D) /\ t.l3_max = b
      /\ t.l2_used \in 0 .. a /\ t.l3_used \in 0 .. b
  BY FieldTypes
<1>1. CASE t.l2_pool[k].children[j] # 0
  <2>1. ensure_l3(t, k, j) = t
    BY <1>1 DEF ensure_l3
  <2>2. t.l2_pool[k].children[j] \in 0 .. t.l3_used
    BY DEF WellFormed, TablesAgree, PointersInUse
  <2>3. t.l2_pool[k].children[j] \in 1 .. t.l3_used
    BY <1>0, <1>1, <2>2
  <2>4. SameWalk(t, t)
    BY DEF SameWalk
  <2> QED BY <2>1, <2>3, <2>4
<1>2. CASE t.l2_pool[k].children[j] = 0 /\ t.l3_used >= t.l3_max
  <2>1. ensure_l3(t, k, j) = [t EXCEPT !.hung = TRUE]
    BY <1>2 DEF ensure_l3, alloc_l3, TableSets
  <2> QED BY <2>1, HungKeeps
<1>3. CASE t.l2_pool[k].children[j] = 0 /\ ~(t.l3_used >= t.l3_max)
  <2>1. ensure_l3(t, k, j) = v
    <3>1. alloc_l3(t) = v2
      BY <1>3 DEF alloc_l3, TableSets, L3Cleared
    <3>2. v2.l3_used = n /\ ~v2.hung /\ v2.l2_pool = t.l2_pool
      BY DEF TableSets
    <3> HIDE DEF v2, n
    <3>3. ensure_l3(t, k, j) = [v2 EXCEPT !.l2_pool[k].children[j] = n, !.l2_pool[k].entries[j] = n]
      BY <1>3, <3>1, <3>2 DEF ensure_l3
    <3> QED BY <3>2, <3>3 DEF L2Set, v2
  <2>2. n \in 1 .. b /\ n \in 0 .. b /\ k \in 1 .. a
    BY <1>0, <1>3
  <2>3. /\ v.l1 = t.l1 /\ v.l1_children = t.l1_children /\ v.l2_pool = P
        /\ v.l3_pool = L3Cleared(t.l3_pool, n)
        /\ v.l2_used = t.l2_used /\ v.l3_used = n /\ ~v.hung
    <3> HIDE DEF P
    <3> QED BY DEF TableSets
  <2>4. /\ P \in L2Pools(a, b)
        /\ P[k].entries = [t.l2_pool[k].entries EXCEPT ![j] = n]
        /\ P[k].children = [t.l2_pool[k].children EXCEPT ![j] = n]
        /\ \A m \in 1 .. a : m # k => P[m] = t.l2_pool[m]
    <3> DEFINE f == t.l2_pool
    <3>1. f \in L2Pools(a, b)
      BY <1>0
    <3> HIDE DEF n, f
    <3>2. /\ L2Set(f, k, j, n) \in L2Pools(a, b)
          /\ L2Set(f, k, j, n)[k].entries = [f[k].entries EXCEPT ![j] = n]
          /\ L2Set(f, k, j, n)[k].children = [f[k].children EXCEPT ![j] = n]
          /\ \A m \in 1 .. a : m # k => L2Set(f, k, j, n)[m] = f[m]
      BY <2>2, <3>1, L2PoolSet
    <3> QED BY <3>2 DEF f
  <2> HIDE DEF P
  <2>5. /\ t.l2_pool[k].entries \in Pointers(b) /\ t.l2_pool[k].children \in Pointers(b)
        /\ P[k].entries[j] = n /\ P[k].children[j] = n
        /\ \A x \in Index : x # j => P[k].entries[x] = t.l2_pool[k].entries[x]
    <3>1. t.l2_pool[k].entries \in Pointers(b) /\ t.l2_pool[k].children \in Pointers(b)
      BY <1>0, <2>2, L2PoolFacts
    <3> QED BY <2>2, <2>4, <3>1, PointersFacts
  <2>6. /\ v.l3_pool \in L3Pools(b, D) /\ v.l3_pool[n] = ZeroL3
        /\ \A m \in 1 .. b : m # n => v.l3_pool[m] = t.l3_pool[m]
    <3> DEFINE f == t.l3_pool
    <3>1. f \in L3Pools(b, D)
      BY <1>0
    <3> HIDE DEF n, v, f
    <3>2. /\ L3Cleared(f, n) \in L3Pools(b, D) /\ L3Cleared(f, n)[n] = ZeroL3
          /\ \A m \in 1 .. b : m # n => L3Cleared(f, n)[m] = f[m]
      BY <2>2, <3>1, L3PoolFacts
    <3> QED BY <2>3, <3>2 DEF f
  <2>7. v \in TableSets(a, b, D)
    <3>1. v1 \in TableSets(a, b, D)
      BY <2>2, FieldSet
    <3> HIDE DEF v1
    <3>2. v2 \in TableSets(a, b, D)
      BY <2>3, <2>6, <3>1, FieldSet
    <3> HIDE DEF v2
    <3> QED BY <2>4, <3>2, FieldSet
  <2> HIDE DEF v
  <2>8. t.l2_pool[k].entries[j] = 0
    BY <1>3 DEF WellFormed, TablesAgree
  <2>9. TablesAgree(v)
    BY <1>0, <2>3, <2>4 DEF TablesAgree, WellFormed
  <2>10. \A m \in 1 .. t.l2_used, x \in Index :
           /\ m = k /\ x = j => P[m].entries[x] = n
           /\ ~(m = k /\ x = j) => /\ P[m].entries[x] = t.l2_pool[m].entries[x]
                                   /\ P[m].entries[x] \in 0 .. t.l3_used
    <3> SUFFICES ASSUME NEW m \in 1 .. t.l2_used, NEW x \in Index
                 PROVE  /\ m = k /\ x = j => P[m].entries[x] = n
                        /\ ~(m = k /\ x = j) => /\ P[m].entries[x] = t.l2_pool[m].entries[x]
                                                /\ P[m].entries[x] \in 0 .. t.l3_used
      OBVIOUS
    <3>1. m \in 1 .. a
      BY <1>0
    <3>2. t.l2_pool[m].entries[x] \in 0 .. t.l3_used
      BY DEF WellFormed, PointersInUse
    <3>3. m # k => P[m] = t.l2_pool[m]
      BY <2>4, <3>1
    <3> HIDE DEF n
    <3> QED BY <2>5, <3>2, <3>3
  <2>11. PointersInUse(v)
    BY <1>0, <2>3, <2>10 DEF PointersInUse, WellFormed
  <2>12. PointersDistinct(v)
    <3>1. ASSUME NEW m \in 1 .. t.l2_used, NEW o \in 1 .. t.l2_used, NEW x \in Index, NEW y \in Index,
                 P[m].entries[x] # 0, P[m].entries[x] = P[o].entries[y]
          PROVE  m = o /\ x = y
      BY <1>0, <2>10, <3>1 DEF PointersDistinct, WellFormed
    <3> QED BY <2>3, <3>1 DEF PointersDistinct, WellFormed
  <2>13. SameWalk(t, v)
    <3> SUFFICES ASSUME NEW q \in Paths PROVE Walk(v, q) = Walk(t, q)
      BY DEF SameWalk
    <3> DEFINE m == t.l1[q[1]]
    <3>1. q[1] \in Index /\ q[2] \in Index /\ q[3] \in Index
      BY DEF Paths
    <3>2. m \in 0 .. t.l2_used
      BY <3>1 DEF WellFormed, PointersInUse
    <3>3. CASE m = 0
      BY <2>3, <3>3 DEF Walk
    <3>4. CASE m = k /\ q[2] = j
      <4>1. Walk(t, q) = Invalid
        BY <2>8, <3>4 DEF Walk
      <4>2. P[k].entries[j] = n /\ v.l3_pool[n][q[3]] = Invalid
        BY <2>5, <2>6, <3>1, ZeroFacts
      <4> QED BY <2>3, <3>4, <4>1, <4>2 DEF Walk
    <3>5. CASE m # 0 /\ ~(m = k /\ q[2] = j)
      <4> DEFINE o == t.l2_pool[m].entries[q[2]]
      <4>1. m \in 1 .. t.l2_used
        BY <1>0, <3>2, <3>5
      <4>2. P[m].entries[q[2]] = o /\ o \in 0 .. t.l3_used
        BY <2>10, <3>1, <3>5, <4>1
      <4>3. o # 0 => v.l3_pool[o] = t.l3_pool[o]
        BY <1>0, <2>2, <2>6, <4>2
      <4> QED BY <2>3, <4>2, <4>3 DEF Walk
    <3> QED BY <3>3, <3>4, <3>5
  <2> QED
    BY <1>0, <2>1, <2>2, <2>3, <2>5, <2>7, <2>9, <2>11, <2>12, <2>13 DEF WellFormed
<1> QED BY <1>0, <1>1, <1>2, <1>3

(* Writing a descriptor into the L3 table of a page changes that page. *)
LEMMA Install ==
  ASSUME NEW a \in Nat, NEW b \in Nat, NEW D,
         NEW t \in TableSets(a, b, D), WellFormed(t),
         NEW path \in Paths, NEW d \in D, NEW k \in 1 .. t.l2_used, NEW n \in 1 .. t.l3_used,
         t.l1_children[path[1]] = k, t.l2_pool[k].children[path[2]] = n
  PROVE  /\ Installed(t, n, path[3], d) \in TableSets(a, b, D)
         /\ WellFormed(Installed(t, n, path[3], d))
         /\ Installed(t, n, path[3], d).hung = t.hung
         /\ \A q \in Paths :
              Walk(Installed(t, n, path[3], d), q) = IF q = path THEN d ELSE Walk(t, q)
<1> DEFINE L == L3Set(t.l3_pool, n, path[3], d)
           v == [t EXCEPT !.l3_pool = L]
<1>0. /\ t.l3_pool \in L3Pools(b, D) /\ t.l2_used \in 0 .. a /\ t.l3_used \in 0 .. b
  BY FieldTypes
<1>1. path[1] \in Index /\ path[2] \in Index /\ path[3] \in Index
  BY DEF Paths
<1>2. /\ n \in 1 .. b /\ k \in 1 .. a /\ t.l1[path[1]] = k /\ t.l2_pool[k].entries[path[2]] = n
  BY <1>0 DEF WellFormed, TablesAgree
<1>3. /\ L \in L3Pools(b, D) /\ L[n][path[3]] = d
      /\ \A m \in 1 .. b, y \in Index : ~(m = n /\ y = path[3]) => L[m][y] = t.l3_pool[m][y]
  BY <1>0, <1>1, <1>2, L3SetFacts
<1> HIDE DEF L
<1>4. /\ v \in TableSets(a, b, D) /\ v.l3_pool = L
      /\ v.l1 = t.l1 /\ v.l1_children = t.l1_children /\ v.l2_pool = t.l2_pool
      /\ v.l2_used = t.l2_used /\ v.l3_used = t.l3_used /\ v.hung = t.hung
  <2>1. v \in TableSets(a, b, D)
    BY <1>3, FieldSet
  <2>2. /\ v.l3_pool = L
        /\ v.l1 = t.l1 /\ v.l1_children = t.l1_children /\ v.l2_pool = t.l2_pool
        /\ v.l2_used = t.l2_used /\ v.l3_used = t.l3_used /\ v.hung = t.hung
    BY DEF TableSets
  <2> QED BY <2>1, <2>2
<1>5. v = Installed(t, n, path[3], d)
  BY DEF L, L3Set, Installed
<1> HIDE DEF v
<1>6. WellFormed(v)
  BY <1>4 DEF WellFormed, TablesAgree, PointersInUse, PointersDistinct
<1>7. ASSUME NEW q \in Paths
      PROVE  Walk(v, q) = IF q = path THEN d ELSE Walk(t, q)
  <2> DEFINE m == t.l1[q[1]]
             o == t.l2_pool[m].entries[q[2]]
  <2>1. q[1] \in Index /\ q[2] \in Index /\ q[3] \in Index
    BY DEF Paths
  <2>2. CASE q = path
    <3>1. m = k /\ o = n
      BY <1>2, <2>2
    <3>2. m # 0 /\ o # 0
      BY <1>2, <3>1
    <3> QED BY <1>3, <1>4, <2>2, <3>1, <3>2 DEF Walk
  <2>3. CASE q # path /\ (m = 0 \/ o = 0)
    BY <1>4, <2>3 DEF Walk
  <2>4. CASE q # path /\ m # 0 /\ o # 0
    <3>1. m \in 1 .. t.l2_used
      BY <1>0, <2>1, <2>4 DEF WellFormed, PointersInUse
    <3>2. o \in 1 .. t.l3_used
      BY <1>0, <2>1, <2>4, <3>1 DEF WellFormed, PointersInUse
    <3>3. ~(q[1] = path[1] /\ q[2] = path[2] /\ q[3] = path[3])
      BY <2>4 DEF Paths
    <3>4. o = n => m = k /\ q[2] = path[2]
      <4>1. \A x, y \in 1 .. t.l2_used, g, h \in Index :
              t.l2_pool[x].entries[g] # 0 /\ t.l2_pool[x].entries[g] = t.l2_pool[y].entries[h]
              => x = y /\ g = h
        BY DEF WellFormed, PointersDistinct
      <4> HIDE DEF m
      <4> QED BY <1>1, <1>2, <2>1, <2>4, <3>1, <4>1
    <3>5. m = k => q[1] = path[1]
      BY <1>1, <1>2, <2>1, <2>4 DEF WellFormed, PointersDistinct
    <3>6. ~(o = n /\ q[3] = path[3])
      BY <3>3, <3>4, <3>5
    <3>7. L[o][q[3]] = t.l3_pool[o][q[3]]
      <4>1. o \in 1 .. b
        BY <1>0, <3>2
      <4> HIDE DEF o
      <4> QED BY <1>3, <2>1, <3>6, <4>1
    <3> QED BY <1>4, <2>4, <3>7 DEF Walk
  <2> QED BY <2>2, <2>3, <2>4
<1> QED BY <1>4, <1>5, <1>6, <1>7

(* map_path, which is map_page of el2_mmu.c and s2_map_page of s2_mmu.c:   *)
(* installing one page changes that page only, or the builder hangs and    *)
(* the processor sees what it saw before.                                  *)
THEOREM MapPathSetsOnePage ==
  ASSUME NEW a \in Nat, NEW b \in Nat, NEW D,
         NEW t \in TableSets(a, b, D), WellFormed(t), ~t.hung,
         NEW path \in Paths, NEW d \in D
  PROVE  LET u == map_path(t, path, d)
         IN /\ u \in TableSets(a, b, D)
            /\ WellFormed(u)
            /\ u.hung => SameWalk(t, u)
            /\ ~u.hung => \A q \in Paths : Walk(u, q) = IF q = path THEN d ELSE Walk(t, q)
<1> DEFINE u == ensure_l2(t, path[1])
           k == u.l1_children[path[1]]
           w == ensure_l3(u, k, path[2])
           r == map_path(t, path, d)
<1>1. path[1] \in Index /\ path[2] \in Index
  BY DEF Paths
<1>2. /\ u \in TableSets(a, b, D) /\ WellFormed(u) /\ SameWalk(t, u)
      /\ ~u.hung => k \in 1 .. u.l2_used
  BY <1>1, EnsureL2
<1>3. CASE u.hung
  <2>1. r = u
    BY <1>3 DEF map_path
  <2> HIDE DEF u, r
  <2> QED BY <1>2, <1>3, <2>1 DEF r
<1>4. CASE ~u.hung
  <2>1. /\ w \in TableSets(a, b, D) /\ WellFormed(w) /\ SameWalk(u, w)
        /\ ~w.hung => /\ w.l1_children = u.l1_children /\ w.l2_used = u.l2_used
                      /\ w.l2_pool[k].children[path[2]] \in 1 .. w.l3_used
    <3> HIDE DEF u
    <3> QED BY <1>1, <1>2, <1>4, EnsureL3
  <2>2. SameWalk(t, w)
    <3> HIDE DEF u, w
    <3> QED BY <1>2, <2>1 DEF SameWalk
  <2>3. CASE w.hung
    <3>1. r = w
      BY <1>4, <2>3 DEF map_path
    <3> HIDE DEF w, r
    <3> QED BY <2>1, <2>2, <2>3, <3>1 DEF r
  <2>4. CASE ~w.hung
    <3> DEFINE n == w.l2_pool[k].children[path[2]]
    <3>1. r = Installed(w, n, path[3], d)
      BY <1>4, <2>4 DEF map_path, Installed
    <3> HIDE DEF u, w, r
    <3>2. w.l1_children[path[1]] = k /\ k \in 1 .. w.l2_used /\ n \in 1 .. w.l3_used
      BY <1>2, <1>4, <2>1, <2>4
    <3>3. /\ r \in TableSets(a, b, D) /\ WellFormed(r) /\ r.hung = w.hung
          /\ \A q \in Paths : Walk(r, q) = IF q = path THEN d ELSE Walk(w, q)
      <4>1. w.l2_pool[k].children[path[2]] = n
        OBVIOUS
      <4> HIDE DEF k, n
      <4>2. /\ Installed(w, n, path[3], d) \in TableSets(a, b, D)
            /\ WellFormed(Installed(w, n, path[3], d))
            /\ Installed(w, n, path[3], d).hung = w.hung
            /\ \A q \in Paths :
                 Walk(Installed(w, n, path[3], d), q) = IF q = path THEN d ELSE Walk(w, q)
        BY <2>1, <3>2, <4>1, Install
      <4> QED BY <3>1, <4>2
    <3>4. \A q \in Paths : Walk(w, q) = Walk(t, q)
      BY <2>2 DEF SameWalk
    <3>5. /\ r \in TableSets(a, b, D) /\ WellFormed(r) /\ ~r.hung
          /\ \A q \in Paths : Walk(r, q) = IF q = path THEN d ELSE Walk(t, q)
      BY <2>4, <3>3, <3>4
    <3> QED BY <3>5 DEF r
  <2> QED BY <2>3, <2>4
<1> QED BY <1>3, <1>4

-----------------------------------------------------------------------------
(* What the builder takes from the pools.  A walk through i and j reaches  *)
(* an L3 table:                                                            *)
HasL3(t, i, j) == t.l1[i] # 0 /\ t.l2_pool[t.l1[i]].entries[j] # 0

(* ensure_l2 takes one L2 table, if entry i has none, and no L3 table; it  *)
(* gives up only if the pool is empty.                                     *)
LEMMA EnsureL2Takes ==
  ASSUME NEW a \in Nat, NEW b \in Nat, NEW D,
         NEW t \in TableSets(a, b, D), WellFormed(t), ~t.hung, NEW i \in Index
  PROVE  LET u == ensure_l2(t, i)
         IN /\ u.hung => t.l2_used = t.l2_max
            /\ ~u.hung => /\ u.l2_used = IF t.l1[i] = 0 THEN t.l2_used + 1 ELSE t.l2_used
                          /\ u.l3_used = t.l3_used
                          /\ \A x \in Index : u.l1[x] # 0 <=> t.l1[x] # 0 \/ x = i
                          /\ \A x, y \in Index : HasL3(u, x, y) <=> HasL3(t, x, y)
<1> DEFINE n == t.l2_used + 1
           v1 == [t EXCEPT !.l2_used = n]
           v2 == [v1 EXCEPT !.l2_pool = [t.l2_pool EXCEPT ![n] = ZeroL2]]
           v3 == [v2 EXCEPT !.l1_children = [t.l1_children EXCEPT ![i] = n]]
           v  == [v3 EXCEPT !.l1 = [t.l1 EXCEPT ![i] = n]]
<1>0. /\ t.l1 \in Pointers(a) /\ t.l1_children \in Pointers(a)
      /\ t.l2_pool \in L2Pools(a, b) /\ t.l2_max = a
      /\ t.l2_used \in 0 .. a /\ t.l3_used \in 0 .. b
  BY FieldTypes
<1>1. t.l1[i] = t.l1_children[i]
  BY DEF WellFormed, TablesAgree
<1>2. CASE t.l1_children[i] # 0
  BY <1>1, <1>2 DEF ensure_l2
<1>3. CASE t.l1_children[i] = 0 /\ t.l2_used >= t.l2_max
  <2>1. ensure_l2(t, i) = [t EXCEPT !.hung = TRUE]
    BY <1>3 DEF ensure_l2, alloc_l2, TableSets
  <2>2. [t EXCEPT !.hung = TRUE].hung
    BY DEF TableSets
  <2> QED BY <1>0, <1>3, <2>1, <2>2
<1>4. CASE t.l1_children[i] = 0 /\ ~(t.l2_used >= t.l2_max)
  <2>1. ensure_l2(t, i) = v
    BY <1>4 DEF ensure_l2, alloc_l2, TableSets
  <2>2. n \in 1 .. a /\ n \in 0 .. a
    BY <1>0, <1>4
  <2>3. /\ v.l1 = [t.l1 EXCEPT ![i] = n]
        /\ v.l2_pool = [t.l2_pool EXCEPT ![n] = ZeroL2]
        /\ v.l2_used = n /\ v.l3_used = t.l3_used /\ ~v.hung
    BY DEF TableSets
  <2> HIDE DEF v
  <2>4. v.l1[i] = n /\ \A x \in Index : x # i => v.l1[x] = t.l1[x]
    BY <1>0, <2>2, <2>3, PointersFacts
  <2>5. /\ v.l2_pool[n] = ZeroL2
        /\ \A k \in 1 .. a : k # n => v.l2_pool[k] = t.l2_pool[k]
    <3>1. /\ [t.l2_pool EXCEPT ![n] = ZeroL2] \in L2Pools(a, b)
          /\ [t.l2_pool EXCEPT ![n] = ZeroL2][n] = ZeroL2
          /\ \A k \in 1 .. a : k # n => [t.l2_pool EXCEPT ![n] = ZeroL2][k] = t.l2_pool[k]
      <4> HIDE DEF n
      <4> QED BY <1>0, <2>2, L2PoolFacts
    <3> QED BY <2>3, <3>1
  <2>6. ASSUME NEW x \in Index, NEW y \in Index PROVE HasL3(v, x, y) <=> HasL3(t, x, y)
    <3>1. CASE x = i
      <4>1. v.l2_pool[v.l1[x]].entries[y] = 0
        BY <2>4, <2>5, <3>1, ZeroFacts
      <4> QED BY <1>1, <1>4, <3>1, <4>1 DEF HasL3
    <3>2. CASE x # i
      <4>1. v.l1[x] = t.l1[x] /\ t.l1[x] \in 0 .. t.l2_used
        BY <2>4, <3>2 DEF WellFormed, PointersInUse
      <4>2. t.l1[x] # 0 => v.l2_pool[t.l1[x]] = t.l2_pool[t.l1[x]]
        BY <1>0, <2>5, <4>1
      <4> QED BY <4>1, <4>2 DEF HasL3
    <3> QED BY <3>1, <3>2
  <2>7. \A x \in Index : v.l1[x] # 0 <=> t.l1[x] # 0 \/ x = i
    BY <2>2, <2>4
  <2> QED BY <1>1, <1>4, <2>1, <2>3, <2>6, <2>7
<1> QED BY <1>2, <1>3, <1>4

(* ensure_l3 takes one L3 table, if entry j of table k has none; it gives  *)
(* up only if the pool is empty.                                           *)
LEMMA EnsureL3Takes ==
  ASSUME NEW a \in Nat, NEW b \in Nat, NEW D,
         NEW t \in TableSets(a, b, D), WellFormed(t), ~t.hung,
         NEW k \in 1 .. t.l2_used, NEW j \in Index
  PROVE  LET u == ensure_l3(t, k, j)
         IN /\ u.hung => t.l3_used = t.l3_max
            /\ ~u.hung =>
                 /\ u.l1 = t.l1 /\ u.l2_used = t.l2_used
                 /\ u.l3_used = IF t.l2_pool[k].entries[j] = 0 THEN t.l3_used + 1 ELSE t.l3_used
                 /\ \A m \in 1 .. t.l2_used, y \in Index :
                      u.l2_pool[m].entries[y] # 0 <=> t.l2_pool[m].entries[y] # 0 \/ (m = k /\ y = j)
<1> DEFINE n == t.l3_used + 1
           P == L2Set(t.l2_pool, k, j, n)
           v1 == [t EXCEPT !.l3_used = n]
           v2 == [v1 EXCEPT !.l3_pool = L3Cleared(t.l3_pool, n)]
           v  == [v2 EXCEPT !.l2_pool = P]
<1>0. /\ t.l2_pool \in L2Pools(a, b) /\ t.l3_max = b
      /\ t.l2_used \in 0 .. a /\ t.l3_used \in 0 .. b
  BY FieldTypes
<1>1. t.l2_pool[k].entries[j] = t.l2_pool[k].children[j]
  BY DEF WellFormed, TablesAgree
<1>2. CASE t.l2_pool[k].children[j] # 0
  BY <1>1, <1>2 DEF ensure_l3
<1>3. CASE t.l2_pool[k].children[j] = 0 /\ t.l3_used >= t.l3_max
  <2>1. ensure_l3(t, k, j) = [t EXCEPT !.hung = TRUE]
    BY <1>3 DEF ensure_l3, alloc_l3, TableSets
  <2>2. [t EXCEPT !.hung = TRUE].hung
    BY DEF TableSets
  <2> QED BY <1>0, <1>3, <2>1, <2>2
<1>4. CASE t.l2_pool[k].children[j] = 0 /\ ~(t.l3_used >= t.l3_max)
  <2>1. ensure_l3(t, k, j) = v
    <3>1. alloc_l3(t) = v2
      BY <1>4 DEF alloc_l3, TableSets, L3Cleared
    <3>2. v2.l3_used = n /\ ~v2.hung /\ v2.l2_pool = t.l2_pool
      BY DEF TableSets
    <3> HIDE DEF v2, n
    <3>3. ensure_l3(t, k, j) = [v2 EXCEPT !.l2_pool[k].children[j] = n, !.l2_pool[k].entries[j] = n]
      BY <1>4, <3>1, <3>2 DEF ensure_l3
    <3> QED BY <3>2, <3>3 DEF L2Set, v2
  <2>2. n \in 1 .. b /\ n \in 0 .. b /\ k \in 1 .. a
    BY <1>0, <1>4
  <2>3. v.l1 = t.l1 /\ v.l2_pool = P /\ v.l2_used = t.l2_used /\ v.l3_used = n /\ ~v.hung
    <3> HIDE DEF P
    <3> QED BY DEF TableSets
  <2>4. /\ P[k].entries = [t.l2_pool[k].entries EXCEPT ![j] = n]
        /\ \A m \in 1 .. a : m # k => P[m] = t.l2_pool[m]
    <3> DEFINE f == t.l2_pool
    <3>1. f \in L2Pools(a, b)
      BY <1>0
    <3> HIDE DEF n, f
    <3>2. /\ L2Set(f, k, j, n) \in L2Pools(a, b)
          /\ L2Set(f, k, j, n)[k].entries = [f[k].entries EXCEPT ![j] = n]
          /\ L2Set(f, k, j, n)[k].children = [f[k].children EXCEPT ![j] = n]
          /\ \A m \in 1 .. a : m # k => L2Set(f, k, j, n)[m] = f[m]
      BY <2>2, <3>1, L2PoolSet
    <3> QED BY <3>2 DEF f
  <2> HIDE DEF P, v
  <2>5. P[k].entries[j] = n /\ \A y \in Index : y # j => P[k].entries[y] = t.l2_pool[k].entries[y]
    <3>1. t.l2_pool[k].entries \in Pointers(b)
      BY <1>0, <2>2, L2PoolFacts
    <3> QED BY <2>2, <2>4, <3>1, PointersFacts
  <2>6. ASSUME NEW m \in 1 .. t.l2_used, NEW y \in Index
        PROVE  P[m].entries[y] # 0 <=> t.l2_pool[m].entries[y] # 0 \/ (m = k /\ y = j)
    <3>1. m # k => P[m] = t.l2_pool[m]
      BY <1>0, <2>4
    <3>2. n # 0
      BY <2>2
    <3> QED BY <2>5, <3>1, <3>2
  <2> QED BY <1>1, <1>4, <2>1, <2>3, <2>6
<1> QED BY <1>2, <1>3, <1>4

(* map_path takes an L2 table and an L3 table only where its path has      *)
(* none, and gives up only if the pool that it needs is empty.             *)
LEMMA MapPathTakes ==
  ASSUME NEW a \in Nat, NEW b \in Nat, NEW D,
         NEW t \in TableSets(a, b, D), WellFormed(t), ~t.hung,
         NEW path \in Paths, NEW d \in D
  PROVE  LET r == map_path(t, path, d)
         IN /\ r.hung => t.l2_used = t.l2_max \/ t.l3_used = t.l3_max
            /\ ~r.hung =>
                 /\ r.l2_used = IF t.l1[path[1]] = 0 THEN t.l2_used + 1 ELSE t.l2_used
                 /\ r.l3_used = IF HasL3(t, path[1], path[2]) THEN t.l3_used ELSE t.l3_used + 1
                 /\ \A x \in Index : r.l1[x] # 0 <=> t.l1[x] # 0 \/ x = path[1]
                 /\ \A x, y \in Index :
                      HasL3(r, x, y) <=> HasL3(t, x, y) \/ (x = path[1] /\ y = path[2])
<1> DEFINE u == ensure_l2(t, path[1])
           k == u.l1_children[path[1]]
           w == ensure_l3(u, k, path[2])
           r == map_path(t, path, d)
<1>1. path[1] \in Index /\ path[2] \in Index
  BY DEF Paths
<1>2. /\ u \in TableSets(a, b, D) /\ WellFormed(u)
      /\ ~u.hung => k \in 1 .. u.l2_used
  BY <1>1, EnsureL2
<1>3. /\ u.hung => t.l2_used = t.l2_max
      /\ ~u.hung => /\ u.l2_used = IF t.l1[path[1]] = 0 THEN t.l2_used + 1 ELSE t.l2_used
                    /\ u.l3_used = t.l3_used
                    /\ \A x \in Index : u.l1[x] # 0 <=> t.l1[x] # 0 \/ x = path[1]
                    /\ \A x, y \in Index : HasL3(u, x, y) <=> HasL3(t, x, y)
  BY <1>1, EnsureL2Takes
<1>4. CASE u.hung
  <2>1. r = u
    BY <1>4 DEF map_path
  <2> HIDE DEF u, r
  <2> QED BY <1>3, <1>4, <2>1 DEF r
<1>5. CASE ~u.hung
  <2>1. /\ w.hung => u.l3_used = u.l3_max
        /\ ~w.hung =>
             /\ w.l1 = u.l1 /\ w.l2_used = u.l2_used
             /\ w.l3_used = IF u.l2_pool[k].entries[path[2]] = 0 THEN u.l3_used + 1 ELSE u.l3_used
             /\ \A m \in 1 .. u.l2_used, y \in Index :
                  w.l2_pool[m].entries[y] # 0 <=>
                    u.l2_pool[m].entries[y] # 0 \/ (m = k /\ y = path[2])
    <3> HIDE DEF u
    <3> QED BY <1>1, <1>2, <1>5, EnsureL3Takes
  <2>2. u.l3_max = b /\ t.l3_max = b /\ u.l2_used \in 0 .. a
    <3>1. u \in TableSets(a, b, D)
      BY <1>2
    <3> HIDE DEF u
    <3>2. u.l3_max = b /\ u.l2_used \in 0 .. a
      BY <3>1, FieldTypes
    <3>3. t.l3_max = b
      BY FieldTypes
    <3> QED BY <3>2, <3>3
  <2>3. CASE w.hung
    <3>1. r = w
      BY <1>5, <2>3 DEF map_path
    <3> HIDE DEF u, w, r
    <3> QED BY <1>3, <1>5, <2>1, <2>2, <2>3, <3>1 DEF r
  <2>4. CASE ~w.hung
    <3> DEFINE n == w.l2_pool[k].children[path[2]]
    <3>1. r = Installed(w, n, path[3], d)
      BY <1>5, <2>4 DEF map_path, Installed
    <3>2. w \in TableSets(a, b, D)
      <4> HIDE DEF u
      <4> QED BY <1>1, <1>2, <1>5, EnsureL3
    <3> HIDE DEF u, w, r, n
    <3>3. /\ r.l1 = w.l1 /\ r.l2_pool = w.l2_pool
          /\ r.l2_used = w.l2_used /\ r.l3_used = w.l3_used /\ r.hung = w.hung
      BY <3>1, <3>2 DEF Installed, TableSets
    <3>4. u.l1[path[1]] = k /\ k \in 1 .. u.l2_used
      BY <1>2, <1>5 DEF WellFormed, TablesAgree
    <3>5. u.l2_pool[k].entries[path[2]] # 0 <=> HasL3(t, path[1], path[2])
      <4>1. k # 0
        BY <2>2, <3>4
      <4>2. u.l2_pool[k].entries[path[2]] # 0 <=> HasL3(u, path[1], path[2])
        BY <3>4, <4>1 DEF HasL3
      <4> QED BY <1>1, <1>3, <1>5, <4>2
    <3>6. ASSUME NEW x \in Index, NEW y \in Index
          PROVE  HasL3(r, x, y) <=> HasL3(t, x, y) \/ (x = path[1] /\ y = path[2])
      <4> DEFINE m == u.l1[x]
      <4>1. r.l1[x] = m /\ r.l2_pool = w.l2_pool
        BY <2>1, <2>4, <3>3
      <4>2. m \in 0 .. u.l2_used
        BY <1>2 DEF WellFormed, PointersInUse
      <4>3. m = k <=> x = path[1]
        <5>1. \A g, h \in Index : u.l1[g] # 0 /\ u.l1[g] = u.l1[h] => g = h
          BY <1>2 DEF WellFormed, PointersDistinct
        <5>2. k # 0
          BY <2>2, <3>4
        <5> QED BY <1>1, <3>4, <5>1, <5>2
      <4>4. HasL3(u, x, y) <=> HasL3(t, x, y)
        BY <1>3, <1>5
      <4>5. HasL3(r, x, y) <=> m # 0 /\ w.l2_pool[m].entries[y] # 0
        BY <4>1 DEF HasL3
      <4>6. HasL3(u, x, y) <=> m # 0 /\ u.l2_pool[m].entries[y] # 0
        BY DEF HasL3
      <4> HIDE DEF m
      <4>7. CASE m = 0
        <5>1. x # path[1]
          BY <2>2, <3>4, <4>3, <4>7
        <5> QED BY <4>4, <4>5, <4>6, <4>7, <5>1
      <4>8. CASE m # 0
        <5>1. m \in 1 .. u.l2_used
          BY <2>2, <4>2, <4>8
        <5>2. w.l2_pool[m].entries[y] # 0 <=> u.l2_pool[m].entries[y] # 0 \/ (m = k /\ y = path[2])
          BY <2>1, <2>4, <5>1
        <5> QED BY <4>3, <4>4, <4>5, <4>6, <4>8, <5>2
      <4> QED BY <4>7, <4>8
    <3>7. r.l2_used = IF t.l1[path[1]] = 0 THEN t.l2_used + 1 ELSE t.l2_used
      BY <1>3, <1>5, <2>1, <2>4, <3>3
    <3>8. r.l3_used = IF HasL3(t, path[1], path[2]) THEN t.l3_used ELSE t.l3_used + 1
      BY <1>3, <1>5, <2>1, <2>4, <3>3, <3>5
    <3>9. \A x \in Index : r.l1[x] # 0 <=> t.l1[x] # 0 \/ x = path[1]
      BY <1>3, <1>5, <2>1, <2>4, <3>3
    <3>10. ~r.hung
      BY <2>4, <3>3
    <3> QED BY <3>6, <3>7, <3>8, <3>9, <3>10 DEF r
  <2> QED BY <2>3, <2>4
<1> QED BY <1>4, <1>5
=============================================================================
