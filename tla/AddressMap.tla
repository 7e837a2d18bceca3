------------------------------ MODULE AddressMap ------------------------------
(***************************************************************************)
(* What a set of page tables promises: a map from page to descriptor that  *)
(* can be cleared and set one page at a time, and that no other page's     *)
(* entry moves.  When the tables run out of memory the builder stops and   *)
(* the map stays as it is for good.                                        *)
(***************************************************************************)
CONSTANTS
  Places,    \* what can be mapped
  Descs,     \* page descriptors
  Invalid    \* no descriptor

VARIABLES
  map,       \* place -> descriptor or Invalid
  stopped    \* the builder has given up

mapVars == <<map, stopped>>

Empty == [p \in Places |-> Invalid]

Init == map = Empty /\ stopped = FALSE

Clear ==
  /\ ~stopped
  /\ map' = Empty
  /\ UNCHANGED stopped

(* One place changes and gets a descriptor. *)
Changed == {p \in Places : map'[p] # map[p]}
Set ==
  /\ ~stopped
  /\ \E p \in Changed : Changed = {p} /\ map'[p] \in Descs
  /\ UNCHANGED stopped

Stop ==
  /\ stopped' = TRUE
  /\ UNCHANGED map

Next == Clear \/ Set \/ Stop

Spec == Init /\ [][Next]_mapVars
=============================================================================
