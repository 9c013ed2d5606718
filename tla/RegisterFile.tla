---------------------------- MODULE RegisterFile ----------------------------
(***************************************************************************)
(* What the ARM7TDMI promises about its registers: every processor mode    *)
(* owns its private copies of some of them, an instruction touches only    *)
(* the copies its mode sees, an exception touches only the link register   *)
(* of the mode it enters, and a mode change by itself touches nothing.     *)
(***************************************************************************)
EXTENDS ArmModes

CONSTANTS RegLists,    \* the register lists of LDM with ^
          Bases,       \* the base registers it may write back
          Words        \* the values it loads

VARIABLES file,    \* file[<<owner, r>>]: the physical register
          mode     \* the current processor mode

Init == /\ file \in [Phys -> Int]
        /\ mode \in Mode

KeepsAllBut(S) == LET old == file
                      new == file'
                  IN  DOMAIN new = Phys /\ \A p \in Phys \ S : new[p] = old[p]

(* The copies of the registers in list that mode m sees. *)
Seen(m, list) == {p \in Visible(m) : p[2] \in list}

Written(S, v) == file' = [p \in Phys |-> IF p \in S THEN v ELSE file[p]]

(* An ordinary instruction. *)
Instruction == /\ UNCHANGED mode
               /\ KeepsAllBut(Visible(mode))

(* MSR, and a return from an exception. *)
ModeChange == mode' \in Mode /\ UNCHANGED file

(* Exception entry writes the link register of the mode it enters.         *)
Exception == /\ mode' \in {"IRQ", "SVC"}
             /\ KeepsAllBut({<<mode', LR>>})

(* The base register written back, if any. *)
Base == {{}} \cup {{r} : r \in Bases}

(* A load of the user registers from any mode: only the base is written    *)
(* in the mode of the instruction.                                         *)
UserTransfer == /\ UNCHANGED mode
                /\ \E l \in RegLists, b \in Base, v \in Words :
                     Written(Seen("USR", l) \cup Seen(mode, b), v)

(* A load that ends in a return from an exception: registers of the mode   *)
(* that is left.                                                           *)
LoadAndReturn == /\ mode' \in Mode
                 /\ \E l \in RegLists, b \in Base, v \in Words :
                      Written(Seen(mode, l \cup b), v)

Next == Instruction \/ ModeChange \/ Exception \/ UserTransfer \/ LoadAndReturn

Spec == Init /\ [][Next]_<<file, mode>>
=============================================================================
