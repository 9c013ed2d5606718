-------------------------------- MODULE MCCpu -------------------------------
(* The processor for TLC, with and without a BIOS image. *)
EXTENDS CpuReturn, FiniteSets

CONSTANTS Halfwords,   \* bound: length of the program, in halfwords
          MaxTouched   \* bound: registers (but for the links of exceptions) and SPSRs
                       \* that hold a new value

(* The program at the start of the ROM, in halfwords; the handlers run at  *)
(* their vectors and branch into it.                                       *)
RomCode == {RomEntry + 2 * h : h \in 0 .. Halfwords - 1}

(* The physical registers that instructions write here.                    *)
Written == {p \in Phys : p[2] \in {0, 1, 8, SP}}
Value(p) == IF p[1] = Owner(mode, p[2]) THEN regs[p[2]] ELSE banked[SlotOf(p)]
TouchedRegs == {p \in Written : Value(p) = 1}
TouchedSpsr == {i \in 0..4 : spsr[i] # [mode |-> "BAD", i |-> FALSE, t |-> FALSE]}
FewTouched  == Cardinality(TouchedRegs) + Cardinality(TouchedSpsr) <= MaxTouched
MCRegLists == {{8, 13}}
=============================================================================
