------------------------------ MODULE CpuReturn -----------------------------
(***************************************************************************)
(* The processor with a memory of where each exception interrupted the     *)
(* program, to say where the handlers' returns lead.  The BIOS (and the    *)
(* HLE stub of install_hle_bios_stubs) returns from an IRQ with            *)
(* SUBS PC, LR, #4 and from an SWI with MOVS PC, LR.                       *)
(***************************************************************************)
EXTENDS Cpu

VARIABLE entry   \* entry[m]: the last exception that entered mode m
                 \* (m is IRQ or SVC)

rvars == <<regs, pc, mode, irqOff, thumb, spsr, banked, pipeline_valid, halted,
           has_bios, pending, entry>>

(* lr: the link register the exception left; resume: the instruction the   *)
(* program must continue with; t, full: its instruction set, and whether   *)
(* the pipeline was full.                                                  *)
NoEntry == [lr |-> 0, resume |-> 0, t |-> FALSE, full |-> FALSE]

RInit == Init /\ entry = [m \in {"IRQ", "SVC"} |-> NoEntry]

Enter(m, resume) ==
  entry' = [entry EXCEPT ![m] = [lr |-> regs'[LR], resume |-> resume,
                                 t |-> thumb, full |-> pipeline_valid]]

RNext ==
  /\ \/ cpu_handle_irq /\ Enter("IRQ", NextInstr)
     \/ cpu_handle_swi /\ Enter("SVC", NextInstr + Size)
     \/ OtherStep /\ UNCHANGED entry
  /\ UNCHANGED has_bios

RSpec == RInit /\ [][RNext]_rvars

-----------------------------------------------------------------------------
(* A handler's return to the point of the last entry, through an untouched *)
(* link register.                                                          *)
Returns(m, k) == mode = m /\ regs[LR] = entry[m].lr /\ ExceptionReturn(k)

(* "The BIOS IRQ handler does SUBS PC, LR, #4 to return to the correct     *)
(* instruction" (cpu_handle_irq): the instruction that was next.           *)
IrqReturnsToInterrupted == [][Returns("IRQ", 4) => pc' = entry["IRQ"].resume]_rvars

(* The part of it that holds: an IRQ taken in Thumb state with a full      *)
(* pipeline, before an instruction on a word boundary, resumes exactly     *)
(* there, also when other interrupts, mode switches or SWIs came between.  *)
ThumbIrqResumes ==
  [][ (/\ Returns("IRQ", 4)
       /\ entry["IRQ"].t /\ entry["IRQ"].full /\ entry["IRQ"].resume % 4 = 0)
      => pc' = entry["IRQ"].resume ]_rvars

(* "LR_svc = address of instruction after the SWI" (cpu_handle_swi):       *)
(* MOVS PC, LR continues there.                                            *)
SwiReturnsAfterCall == [][Returns("SVC", 0) => pc' = entry["SVC"].resume]_rvars

(* The part of it that holds: an SWI in ARM state, or in Thumb state right *)
(* before a word boundary.                                                 *)
AlignedSwiResumes ==
  [][ Returns("SVC", 0) /\ (~entry["SVC"].t \/ entry["SVC"].resume % 4 = 0)
      => pc' = entry["SVC"].resume ]_rvars

(* Both handlers' returns in the cases in which they are right, through    *)
(* any nesting of interrupts, calls and mode switches.                     *)
AlignedReturnsResume == ThumbIrqResumes /\ AlignedSwiResumes
=============================================================================
