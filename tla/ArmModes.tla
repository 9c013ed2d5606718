------------------------------ MODULE ArmModes ------------------------------
(***************************************************************************)
(* The processor modes of the ARM7TDMI and which mode owns which copy of a *)
(* register (cpu/arm7tdmi.h).                                              *)
(***************************************************************************)
EXTENDS Integers

(* "BAD" stands for the mode numbers CPUMode does not define: the code     *)
(* treats them all alike, as the default of each switch.                   *)
Mode   == {"USR", "SYS", "FIQ", "IRQ", "SVC", "ABT", "UND", "BAD"}
Owners == {"USR", "FIQ", "IRQ", "SVC", "ABT", "UND"}
Reg    == 0..14
SP     == 13
LR     == 14

(* FIQ owns R8-R14, the other exception modes R13-R14, everybody else      *)
(* shares the user registers.                                              *)
Owner(m, r) == IF \/ m = "FIQ" /\ r >= 8
                  \/ m \in {"IRQ", "SVC", "ABT", "UND"} /\ r >= SP
               THEN m ELSE "USR"

Phys       == ({"USR"} \X Reg) \cup ({"FIQ"} \X (8..14))
              \cup ({"IRQ", "SVC", "ABT", "UND"} \X {SP, LR})
Visible(m) == {p \in Phys : p[1] = Owner(m, p[2])}
=============================================================================
