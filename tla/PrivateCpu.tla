------------------------------ MODULE PrivateCpu ------------------------------
(***************************************************************************)
(* What the trap and switch path promises a guest: it owns a processor.    *)
(* Every vCPU has registers that only its own instructions change, one     *)
(* vCPU executes at a time, an instruction that traps retires exactly once *)
(* and changes no register but the program counter, and being stopped and  *)
(* resumed changes nothing.                                                *)
(***************************************************************************)
EXTENDS Integers

CONSTANTS
  Vcpus,   \* the vCPUs
  NULL,    \* no vCPU
  Gprs,    \* names of general-purpose registers
  Vals,    \* register contents
  PcMod    \* instruction addresses are 0 .. PcMod - 1, in a ring

VARIABLES
  cpu,     \* vCPU -> its private registers
  active,  \* the vCPU that executes, or NULL
  halted   \* the machine has stopped

vars == <<cpu, active, halted>>

Cpus == [gpr : [Gprs -> Vals], elr : 0 .. PcMod - 1, el1 : Vals]

(* Instructions are numbered: the next one is 4 bytes on in the code. *)
Next4(addr) == (addr + 1) % PcMod

Init ==
  /\ cpu \in [Vcpus -> Cpus]
  /\ active = NULL
  /\ halted = FALSE

(* The active vCPU executes an instruction that does not trap. *)
Execute(v) ==
  /\ active = v
  /\ \E c \in Cpus : /\ c.elr = Next4(cpu[v].elr)
                     /\ cpu' = [cpu EXCEPT ![v] = c]
  /\ UNCHANGED <<active, halted>>

(* It executes one that traps: the instruction retires, with no effect on  *)
(* any other register, and the vCPU stops.                                 *)
Trap(v) ==
  /\ active = v
  /\ cpu' = [cpu EXCEPT ![v].elr = Next4(cpu[v].elr)]
  /\ active' = NULL
  /\ UNCHANGED halted

(* A trap that the hypervisor does not handle stops the machine. *)
Crash(v) ==
  /\ active = v
  /\ \E a \in {cpu[v].elr, Next4(cpu[v].elr)} : cpu' = [cpu EXCEPT ![v].elr = a]
  /\ active' = NULL
  /\ halted' = TRUE

(* A vCPU gets the core, with all its registers as it left them. *)
Resume(v) ==
  /\ active = NULL /\ ~halted
  /\ active' = v
  /\ UNCHANGED <<cpu, halted>>

Next == \E v \in Vcpus : Execute(v) \/ Trap(v) \/ Crash(v) \/ Resume(v)

Spec == Init /\ [][Next]_vars
=============================================================================
