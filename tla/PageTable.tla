------------------------------ MODULE PageTable ------------------------------
(***************************************************************************)
(* The table builder that core/el2_mmu.c and core/s2_mmu.c each contain,   *)
(* function for function: a root, two static pools handed out in order,    *)
(* and for every table two views of it.  The `children` pointers are what  *)
(* the builder follows; the `entries` are what the processor walks.        *)
(*                                                                         *)
(* A set of tables is a record.  Table k of a pool is the number k >= 1,   *)
(* which also stands for a descriptor that points to it; 0 is a null       *)
(* pointer or an invalid descriptor.  A page descriptor is whatever the    *)
(* client installs, or Invalid.  A panic or hang sets `hung`.              *)
(***************************************************************************)
EXTENDS Integers

CONSTANTS
  Entries,   \* entries of a table (512 in the source)
  Invalid    \* a page descriptor without the valid bit

ASSUME EntriesAssumption == Entries \in Nat \ {0}

Index == 0 .. Entries - 1

(* A page's place in the three levels.  The masks drop higher bits. *)
L1Index(page) == (page \div (Entries * Entries)) % Entries
L2Index(page) == (page \div Entries) % Entries
L3Index(page) == page % Entries
Path(page) == <<L1Index(page), L2Index(page), L3Index(page)>>
Paths == Index \X Index \X Index

NoTables == [i \in Index |-> 0]
ZeroL2 == [entries |-> NoTables, children |-> NoTables]
ZeroL3 == [i \in Index |-> Invalid]

(* All sets of tables with the given pool sizes and page descriptors. *)
Pointers(n) == [Index -> 0 .. n]
L2Pools(l2_max, l3_max) ==
  [1 .. l2_max -> [entries : Pointers(l3_max), children : Pointers(l3_max)]]
L3Pools(l3_max, descs) == [1 .. l3_max -> [Index -> descs \cup {Invalid}]]
TableSets(l2_max, l3_max, descs) ==
  [l1 : Pointers(l2_max), l1_children : Pointers(l2_max),
   l2_pool : L2Pools(l2_max, l3_max), l3_pool : L3Pools(l3_max, descs),
   l2_used : 0 .. l2_max, l3_used : 0 .. l3_max,
   l2_max : {l2_max}, l3_max : {l3_max}, hung : BOOLEAN]

(* The tables after bss_clear. *)
ZeroTables(l2_max, l3_max) ==
  [l1 |-> NoTables, l1_children |-> NoTables,
   l2_pool |-> [k \in 1 .. l2_max |-> ZeroL2], l3_pool |-> [k \in 1 .. l3_max |-> ZeroL3],
   l2_used |-> 0, l3_used |-> 0, l2_max |-> l2_max, l3_max |-> l3_max, hung |-> FALSE]

(* Fault: the tables handed out so far stay lost to the pools. *)
ResetKeepsUsed(t) == [t EXCEPT !.l1 = NoTables, !.l1_children = NoTables]

(* el2_mmu_init, s2_tables_reset.  The pools keep their contents. *)
tables_reset(t) ==
  [t EXCEPT !.l1 = NoTables, !.l1_children = NoTables, !.l2_used = 0, !.l3_used = 0]

-----------------------------------------------------------------------------
alloc_l2(t) ==
  IF t.l2_used >= t.l2_max THEN [t EXCEPT !.hung = TRUE]
  ELSE [t EXCEPT !.l2_used = @ + 1, !.l2_pool[t.l2_used + 1] = ZeroL2]

(* Faults: a table of an earlier build is handed out as it is; the pool is *)
(* taken to have one table more than it has.                               *)
AllocL3Stale(t) ==
  IF t.l3_used >= t.l3_max THEN [t EXCEPT !.hung = TRUE]
  ELSE [t EXCEPT !.l3_used = @ + 1]
AllocL3PastEnd(t) ==
  IF t.l3_used > t.l3_max THEN [t EXCEPT !.hung = TRUE]
  ELSE [t EXCEPT !.l3_used = @ + 1, !.l3_pool[t.l3_used + 1] = ZeroL3]

alloc_l3(t) ==
  IF t.l3_used >= t.l3_max THEN [t EXCEPT !.hung = TRUE]
  ELSE [t EXCEPT !.l3_used = @ + 1, !.l3_pool[t.l3_used + 1] = ZeroL3]

(* Fault: a table that is already there is not found. *)
EnsureL2Anew(t, i) ==
  LET a == alloc_l2(t)
  IN IF a.hung THEN a
     ELSE [a EXCEPT !.l1_children[i] = a.l2_used, !.l1[i] = a.l2_used]

ensure_l2(t, i) ==
  LET a == alloc_l2(t)
  IN IF t.l1_children[i] # 0 THEN t
     ELSE IF a.hung THEN a
     ELSE [a EXCEPT !.l1_children[i] = a.l2_used, !.l1[i] = a.l2_used]

ensure_l3(t, k, j) ==
  LET a == alloc_l3(t)
  IN IF t.l2_pool[k].children[j] # 0 THEN t
     ELSE IF a.hung THEN a
     ELSE [a EXCEPT !.l2_pool[k].children[j] = a.l3_used, !.l2_pool[k].entries[j] = a.l3_used]

(* Install a page descriptor at a path: map_page, s2_map_page. *)
map_path(t, path, desc) ==
  LET u == ensure_l2(t, path[1])
      k == u.l1_children[path[1]]
      w == ensure_l3(u, k, path[2])
  IN IF u.hung THEN u
     ELSE IF w.hung THEN w
     ELSE [w EXCEPT !.l3_pool[w.l2_pool[k].children[path[2]]][path[3]] = desc]

map_page(t, page, desc) == map_path(t, Path(page), desc)

(* What the processor finds when it walks the entries. *)
Walk(t, path) ==
  LET k == t.l1[path[1]]
      n == t.l2_pool[k].entries[path[2]]
  IN IF k = 0 THEN Invalid ELSE IF n = 0 THEN Invalid ELSE t.l3_pool[n][path[3]]

WalkPage(t, page) == Walk(t, Path(page))
=============================================================================
