------------------------------ MODULE SysregTrap ------------------------------
(***************************************************************************)
(* A trapped system-register access: the syndrome that the processor puts  *)
(* in ESR_EL2, and the fields that core/trap.c takes from it to tell which *)
(* timer register a guest touched.                                         *)
(*                                                                         *)
(* A syndrome is the integer the code shifts and masks: a shift is \div, a *)
(* mask %.                                                                 *)
(***************************************************************************)
EXTENDS Integers

(* An AArch64 system register by its encoding. *)
Sysregs == [op0 : 0 .. 3, op1 : 0 .. 7, crn : 0 .. 15, crm : 0 .. 15, op2 : 0 .. 7]

(* An access moves it from (dir 0) or to (dir 1) general register rt. *)
Accesses == [reg : Sysregs, rt : 0 .. 31, dir : 0 .. 1]

(* The architecture's ISS for EC 0x18: Op0 in bits 21:20, Op2 in 19:17,    *)
(* Op1 in 16:14, CRn in 13:10, Rt in 9:5, CRm in 4:1, direction in bit 0.  *)
Syndrome(op0, op1, crn, crm, op2, rt, dir) ==
  op0 * 1048576 + op2 * 131072 + op1 * 16384 + crn * 1024 + rt * 32 + crm * 2 + dir

SyndromeOf(a) ==
  Syndrome(a.reg.op0, a.reg.op1, a.reg.crn, a.reg.crm, a.reg.op2, a.rt, a.dir)

-----------------------------------------------------------------------------
(* The key of a register in the handler's switch.  crm and op2 are or-ed   *)
(* with one bit in common, bit 2.                                          *)
SYS_REG_ENCODE(op0, op1, crn, crm, op2) ==
  op0 * 16384 + op1 * 1024 + crn * 64 + (crm \div 2) * 8
    + (IF crm % 2 = 1 \/ op2 >= 4 THEN 4 ELSE 0) + (op2 % 4)

(* The handler's cases: CNTPCT and CNTVCT; CNTP_ and CNTV_ TVAL, CTL, CVAL. *)
TimerCases ==
  {SYS_REG_ENCODE(3, 3, 14, 0, op2) : op2 \in {1, 2}}
    \cup {SYS_REG_ENCODE(3, 3, 14, crm, op2) : crm \in {2, 3}, op2 \in {0, 1, 2}}

(* The field positions are the code's, not the architecture's. *)
esr_sys64_sysreg(iss) ==
  SYS_REG_ENCODE((iss \div 1048576) % 4, (iss \div 65536) % 16, (iss \div 4096) % 16,
                 (iss \div 256) % 16, (iss \div 32) % 8)

(* Does the handler's switch have a case for the access? *)
Emulated(a) == esr_sys64_sysreg(SyndromeOf(a)) \in TimerCases

-----------------------------------------------------------------------------
(* What CNTHCTL_EL2 = 0 traps: the physical counter and timer. *)
TrappedTimerRegs ==
  {[op0 |-> 3, op1 |-> 3, crn |-> 14, crm |-> 0, op2 |-> 1]}
    \cup {[op0 |-> 3, op1 |-> 3, crn |-> 14, crm |-> 2, op2 |-> o] : o \in {0, 1, 2}}

TimerAccesses == [reg : TrappedTimerRegs, rt : 0 .. 31, dir : 0 .. 1]

(* All that the rest of the system depends on: what the decoding makes of  *)
(* these accesses.                                                         *)
TimerDecodes == {Emulated(a) : a \in TimerAccesses}
=============================================================================
