------------------------------- MODULE MCMemory -------------------------------
(***************************************************************************)
(* The instance for TLC.  Tables have 6 entries instead of 512, so a       *)
(* "gigabyte" (what one L2 table maps) is 36 pages, and a page is 2 units. *)
(* As in the source, RAM starts at the second gigabyte, the UART is in the *)
(* first, one VM fills one gigabyte, and the stage-2 L3 pool holds exactly *)
(* the tables of two gigabytes.  A frame covers the last entry of a table. *)
(***************************************************************************)
EXTENDS GuestMemory

Gigabyte == 36 * PageSize

MCSectionSizes == <<{1, 3}, {0, 1}, {0, 2}, {9, 17}, {2}>>

Call(size, count, guard, off, w, x) ==
  [ipa |-> RamBase, pa |-> RamBase + off, vm_size |-> size, vm_count |-> count,
   guard_bytes |-> guard, read |-> TRUE, write |-> w, exec |-> x]

MCMainCall == Call(Gigabyte, 1, 2 * PageSize, 0, TRUE, TRUE)

(* el2_main's call; two gigabytes with and without a guard; small slots    *)
(* with sizes and guards that are no whole pages; two calls that return    *)
(* at once.                                                                *)
MCS2Calls ==
  { MCMainCall,
    Call(Gigabyte, 2, PageSize, 0, TRUE, TRUE),
    Call(Gigabyte, 2, 0, 0, TRUE, TRUE),
    Call(3, 2, 1, PageSize, TRUE, FALSE),
    Call(9, 3, 3, 0, FALSE, TRUE),
    Call(Gigabyte, 0, 0, 0, TRUE, TRUE),
    Call(0, 2, 0, 0, TRUE, TRUE) }
MCOnlyMainCall == {MCMainCall}

(* Stacks inside .bss, then the mailbox slots, then the private regions. *)
MCGuestStack == [v \in Vcpus |-> (44 + v) * PageSize]
(* Under them, two stage-2 tables: of the programs, and of the regions. *)
MCUnder == [v \in Vcpus |-> [set |-> "s2", level |-> 3, number |-> IF v = 0 THEN 1 ELSE 5]]
MCSlots == [v \in Vcpus |-> IF v = 0 THEN {0, 1, 3} ELSE {2, 4}]
=============================================================================
