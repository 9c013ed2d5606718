--------------------------------- MODULE Cpu --------------------------------
(***************************************************************************)
(* The ARM7TDMI of cpu/arm7tdmi.c as seen by control: processor mode and   *)
(* banked registers, the two-stage pipeline and the program counter, IRQ   *)
(* and SWI entry, exception return, halting.  What an instruction computes *)
(* is abstracted to "some registers get some values"; which instruction    *)
(* sits at an address is left open, so every program is covered.           *)
(***************************************************************************)
EXTENDS ArmModes

CONSTANTS Code,        \* bound: the addresses instructions run at
          DataRegs,    \* the registers ordinary instructions write
          Words,       \* the values they write
          MsrModes,    \* the modes an MSR operand carries
          MsrThumb,    \* and the T bits
          RegLists,    \* the register lists of LDM with the S bit
          IsaBits,     \* the instruction sets in use: 0 is ARM, 1 is Thumb
          Links        \* the branches in use: with link (BL), without

ASSUME CpuAssumption ==
  /\ Code \subseteq Nat
  /\ DataRegs \subseteq Reg
  /\ Words \subseteq Int
  /\ MsrModes \subseteq Mode
  /\ MsrThumb \subseteq BOOLEAN
  /\ RegLists \subseteq SUBSET Reg
  /\ IsaBits \subseteq {0, 1}
  /\ Links \subseteq BOOLEAN

VARIABLES regs,             \* R0-R14
          pc,               \* R15
          mode,             \* CPSR bits 4-0
          irqOff,           \* CPSR.I
          thumb,            \* CPSR.T
          spsr,             \* spsr[5], each [mode, i, t]
          banked,           \* banked[22]
          pipeline_valid,
          halted,
          has_bios,         \* a BIOS image was loaded at start
          pending           \* interrupt_pending(): IME and IE & IF

psr  == <<mode, irqOff, thumb>>
vars == <<regs, pc, mode, irqOff, thumb, spsr, banked, pipeline_valid, halted,
          has_bios, pending>>

Slot == 0..21
Psr  == [mode : Mode, i : BOOLEAN, t : BOOLEAN]

-----------------------------------------------------------------------------
(* Mode switching.                                                         *)

(* bank_offset_for_mode, with the slots of FIQ (5) and of USR/SYS (20)     *)
(* that cpu_switch_mode names itself.                                      *)
bank_offset_for_mode(m) == IF m = "FIQ" THEN 5
                           ELSE IF m = "SVC" THEN 7
                           ELSE IF m = "ABT" THEN 9
                           ELSE IF m = "IRQ" THEN 11
                           ELSE IF m = "UND" THEN 13
                           ELSE 20

spsr_index_for_mode(m) == IF m = "FIQ" THEN 0
                          ELSE IF m = "SVC" THEN 1
                          ELSE IF m = "ABT" THEN 2
                          ELSE IF m = "IRQ" THEN 3
                          ELSE IF m = "UND" THEN 4
                          ELSE -1
HasSpsr(m) == spsr_index_for_mode(m) >= 0

(* The bank array once the outgoing mode's registers are saved. *)
SaveOutgoing(rg, bk, old) ==
  [i \in Slot |->
     IF i = bank_offset_for_mode(old)          THEN rg[SP]
     ELSE IF i = bank_offset_for_mode(old) + 1 THEN rg[LR]
     ELSE IF old = "FIQ" /\ i < 5              THEN rg[8 + i]
     ELSE bk[i]]

\* Mutant: entering FIQ forgets to put the user R8-R12 away.
SwitchBankForgetsUser(rg, bk, old, new) ==
  IF old = new THEN bk ELSE SaveOutgoing(rg, bk, old)

(* cpu_switch_mode: the bank array and the visible registers it leaves.    *)
SwitchBank(rg, bk, old, new) ==
  IF old = new THEN bk
  ELSE LET saved == SaveOutgoing(rg, bk, old)
       IN  [i \in Slot |-> IF new = "FIQ" /\ i \in 15..19 THEN rg[i - 7] ELSE saved[i]]

SwitchRegs(rg, bk, old, new) ==
  IF old = new THEN rg
  ELSE LET saved == SaveOutgoing(rg, bk, old)
       IN  [r \in Reg |->
              IF r >= SP          THEN saved[bank_offset_for_mode(new) + r - SP]
              ELSE IF r < 8       THEN rg[r]
              ELSE IF new = "FIQ" THEN saved[r - 8]
              ELSE IF old = "FIQ" THEN bk[r + 7]
              ELSE rg[r]]

cpu_switch_mode(new) ==
  /\ regs'   = SwitchRegs(regs, banked, mode, new)
  /\ banked' = SwitchBank(regs, banked, mode, new)
  /\ mode'   = new

-----------------------------------------------------------------------------
(* Power-on: cpu_init, then cpu_skip_bios when there is no BIOS image.     *)
StackIrq == 50364320               \* 0x03007FA0
StackSvc == 50364384               \* 0x03007FE0
StackSys == 50364160               \* 0x03007F00
RomEntry == 134217728              \* 0x08000000
VectorSwi == 8
VectorIrq == 24

cpu_init ==
  /\ regs = [r \in Reg |-> IF r = SP THEN StackSvc ELSE 0]
  /\ banked = [i \in Slot |-> 0]
  /\ mode = "SVC" /\ irqOff = TRUE
  /\ pc = 0

(* The SYS stack pointer cpu_init left in R13 survives in banked[20], as   *)
(* cpu_skip_bios relabels the mode before its first switch.                *)
cpu_skip_bios ==
  /\ regs = [r \in Reg |-> IF r = SP THEN StackSys ELSE 0]
  /\ banked = [i \in Slot |-> IF i = 7 THEN StackSvc ELSE IF i = 11 THEN StackIrq
                              ELSE IF i = 20 THEN StackSvc ELSE 0]
  /\ mode = "SYS" /\ irqOff = FALSE
  /\ pc = RomEntry

Init == /\ has_bios \in BOOLEAN
        /\ IF has_bios THEN cpu_init ELSE cpu_skip_bios
        /\ thumb = FALSE
        /\ spsr = [i \in 0..4 |-> [mode |-> "BAD", i |-> FALSE, t |-> FALSE]]
        /\ pipeline_valid = FALSE
        /\ halted = FALSE
        /\ pending = FALSE

-----------------------------------------------------------------------------
(* The pipeline.                                                           *)
Size == IF thumb THEN 2 ELSE 4

(* The instruction that executes next: with a full pipeline the program    *)
(* counter runs two instructions ahead of it.                              *)
NextInstr == IF pipeline_valid THEN pc - 2 * Size ELSE pc

(* cpu_check_irq *)
cpu_check_irq == pending /\ ~irqOff

(* cpu_run is about to call cpu_step. *)
Stepping == ~halted /\ ~cpu_check_irq

(* The first half of cpu_step. *)
Refill == /\ Stepping /\ ~pipeline_valid
          /\ pc' = pc + 2 * Size
          /\ pipeline_valid' = TRUE
          /\ UNCHANGED <<regs, psr, spsr, banked, halted, pending>>

(* The second half, around the instruction: it executes from a full        *)
(* pipeline; if it does not flush, the pipeline moves on by one.           *)
Executing == Stepping /\ pipeline_valid
Advance   == /\ NextInstr + Size \in Code
             /\ pc' = pc + Size
             /\ UNCHANGED pipeline_valid
cpu_flush_pipeline == pipeline_valid' = FALSE

Aligned(x, n) == x - (x % n)

-----------------------------------------------------------------------------
(* Exceptions.                                                             *)

\* Mutant: the link already points at the next instruction.
IrqLinkToNext == NextInstr

(* LR_irq = PC, "so the BIOS handler can return with SUBS PC, LR, #4".     *)
IrqLink == pc
(* LR_svc = PC - 2 in Thumb state, PC - 4 in ARM state. *)
SwiLink == pc - Size

(* A pass of cpu_run that finds an interrupt: wake up if halted,           *)
(* cpu_handle_irq, and the cpu_step after it, which refills the pipeline   *)
(* from the vector.                                                        *)
cpu_handle_irq ==
  /\ cpu_check_irq
  /\ halted' = FALSE
  /\ regs' = [SwitchRegs(regs, banked, mode, "IRQ") EXCEPT ![LR] = IrqLink]
  /\ banked' = SwitchBank(regs, banked, mode, "IRQ")
  /\ spsr' = [spsr EXCEPT ![3] = [mode |-> mode, i |-> irqOff, t |-> thumb]]
  /\ mode' = "IRQ" /\ irqOff' = TRUE /\ thumb' = FALSE
  /\ pc' = VectorIrq + 8
  /\ pipeline_valid' = TRUE
  /\ UNCHANGED pending

(* SWI with a BIOS image: enter SVC mode. *)
cpu_handle_swi ==
  /\ Executing /\ has_bios
  /\ regs' = [SwitchRegs(regs, banked, mode, "SVC") EXCEPT ![LR] = SwiLink]
  /\ banked' = SwitchBank(regs, banked, mode, "SVC")
  /\ spsr' = [spsr EXCEPT ![1] = [mode |-> mode, i |-> irqOff, t |-> thumb]]
  /\ mode' = "SVC" /\ irqOff' = TRUE /\ thumb' = FALSE
  /\ pc' = VectorSwi
  /\ cpu_flush_pipeline
  /\ UNCHANGED <<halted, pending>>

(* SWI without one: the function runs in C.  It may leave results in       *)
(* R0-R3, halt the processor (Halt, IntrWait), or restart (SoftReset).     *)
HleSwi ==
  /\ Executing /\ ~has_bios
  /\ \/ \E r \in DataRegs \cap 0..3, v \in Words :
          regs' = [regs EXCEPT ![r] = v] /\ Advance /\ UNCHANGED halted
     \/ /\ halted' = TRUE /\ Advance
        /\ regs' \in {regs, [regs EXCEPT ![0] = 1, ![1] = 1]}   \* VBlankIntrWait
     \/ pc' = RomEntry /\ cpu_flush_pipeline /\ UNCHANGED <<regs, halted>>
  /\ UNCHANGED <<psr, spsr, banked, pending>>

(* CPSR = SPSR of the current mode, with the banking that goes with it;    *)
(* modes without an SPSR keep their CPSR.                                  *)
RestoreCpsr(rg) ==
  IF HasSpsr(mode)
  THEN LET s == spsr[spsr_index_for_mode(mode)] IN
       /\ regs'   = SwitchRegs(rg, banked, mode, s.mode)
       /\ banked' = SwitchBank(rg, banked, mode, s.mode)
       /\ mode' = s.mode /\ irqOff' = s.i /\ thumb' = s.t
  ELSE regs' = rg /\ UNCHANGED <<banked, psr>>

(* arm_data_processing with Rd = R15 and S, as SUBS PC, LR, #k.  The word  *)
(* alignment at the end is applied whatever state is returned to.          *)
ExceptionReturn(k) ==
  /\ Executing /\ ~thumb
  /\ Aligned(regs[LR] - k, 4) \in Code
  /\ RestoreCpsr(regs)
  /\ pc' = Aligned(regs[LR] - k, 4)
  /\ cpu_flush_pipeline
  /\ UNCHANGED <<spsr, halted, pending>>

-----------------------------------------------------------------------------
(* Instructions that matter to control.                                    *)

(* Any instruction that leaves one value in one register, or none.         *)
DataInstr ==
  /\ Executing
  /\ \/ UNCHANGED regs
     \/ \E r \in DataRegs, v \in Words : regs' = [regs EXCEPT ![r] = v]
  /\ Advance
  /\ UNCHANGED <<psr, spsr, banked, halted, pending>>

(* B, LDR/POP/MOV into PC; BL leaves the return address in LR.             *)
Branch(target, link) ==
  /\ Executing
  /\ target % Size = 0
  /\ regs' = IF link THEN [regs EXCEPT ![LR] = IF thumb THEN pc - 2 + 1 ELSE pc - 4]
             ELSE regs
  /\ pc' = target
  /\ cpu_flush_pipeline
  /\ UNCHANGED <<psr, spsr, banked, halted, pending>>

(* BX: bit 0 of the operand chooses the state, the rest is the address.    *)
Bx(addr) ==
  /\ Executing
  /\ thumb' = (addr % 2 = 1)
  /\ pc' = Aligned(addr, IF addr % 2 = 1 THEN 2 ELSE 4)
  /\ cpu_flush_pipeline
  /\ UNCHANGED <<regs, mode, irqOff, spsr, banked, halted, pending>>

(* MSR CPSR_c: user mode may write the flags only.  The T bit is written   *)
(* with the others, and the pipeline is not flushed.                       *)
MsrCpsr(m, i, t) ==
  /\ Executing /\ ~thumb
  /\ IF mode = "USR" THEN UNCHANGED <<regs, banked, psr>>
     ELSE cpu_switch_mode(m) /\ irqOff' = i /\ thumb' = t
  /\ Advance
  /\ UNCHANGED <<spsr, halted, pending>>

MsrSpsr(m, t) ==
  /\ Executing /\ ~thumb
  /\ spsr' = IF HasSpsr(mode)
             THEN [spsr EXCEPT ![spsr_index_for_mode(mode)] =
                     [mode |-> m, i |-> FALSE, t |-> t]]
             ELSE spsr
  /\ Advance
  /\ UNCHANGED <<regs, psr, banked, halted, pending>>

(* arm_block_transfer, LDM with the S bit and without R15: a detour        *)
(* through user mode around the loads, then the base writeback in the mode *)
(* the instruction started in.                                             *)
Loaded(rg, list, v) == [r \in Reg |-> IF r \in list THEN v ELSE rg[r]]

LdmUser(list, v, rn, writeback) ==
  LET user == IF mode \in {"USR", "SYS"} THEN mode ELSE "USR"
      rg1  == Loaded(SwitchRegs(regs, banked, mode, user), list, v)
      bk1  == SwitchBank(regs, banked, mode, user)
      rg2  == SwitchRegs(rg1, bk1, user, mode)
  IN /\ Executing /\ ~thumb
     /\ regs' = IF writeback /\ rn \notin list THEN [rg2 EXCEPT ![rn] = v] ELSE rg2
     /\ banked' = SwitchBank(rg1, bk1, user, mode)
     /\ Advance
     /\ UNCHANGED <<psr, spsr, halted, pending>>

(* LDM with the S bit and R15 in the list: an exception return.  The base  *)
(* is written back before the mode changes.                                *)
LdmReturn(list, v, rn, writeback, target) ==
  /\ Executing /\ ~thumb
  /\ RestoreCpsr(Loaded(regs, IF writeback THEN list \cup {rn} ELSE list, v))
  /\ pc' = Aligned(target, 4)
  /\ cpu_flush_pipeline
  /\ UNCHANGED <<spsr, halted, pending>>

(* A store to HALTCNT. *)
WriteHaltcnt ==
  /\ Executing
  /\ halted' = TRUE
  /\ Advance
  /\ UNCHANGED <<regs, psr, spsr, banked, pending>>

(* Between two instructions the rest of the machine, or a store of the     *)
(* program, changes what interrupt_pending reports.                        *)
Signal == /\ pending' = ~pending
          /\ UNCHANGED <<regs, pc, psr, spsr, banked, pipeline_valid, halted>>

-----------------------------------------------------------------------------
(* Every step but the entry of an exception. *)
OtherStep ==
  \/ Refill
  \/ HleSwi
  \/ \E k \in {0, 4} : ExceptionReturn(k)
  \/ DataInstr
  \/ \E a \in Code, link \in Links : Branch(a, link)
  \/ \E a \in Code, b \in IsaBits : Bx(a + b)
  \/ \E m \in MsrModes, i \in BOOLEAN, t \in MsrThumb : MsrCpsr(m, i, t)
  \/ \E m \in MsrModes, t \in MsrThumb : MsrSpsr(m, t)
  \/ \E l \in RegLists, v \in Words, rn \in DataRegs, w \in BOOLEAN : LdmUser(l, v, rn, w)
  \/ \E l \in RegLists, v \in Words, rn \in DataRegs, w \in BOOLEAN, a \in Code :
       LdmReturn(l, v, rn, w, a)
  \/ WriteHaltcnt
  \/ Signal

Next == (cpu_handle_irq \/ cpu_handle_swi \/ OtherStep) /\ UNCHANGED has_bios

Spec == Init /\ [][Next]_vars

-----------------------------------------------------------------------------
(* Type invariant. *)
TypeOK == /\ regs \in [Reg -> Int]
          /\ pc \in Int
          /\ mode \in Mode
          /\ irqOff \in BOOLEAN /\ thumb \in BOOLEAN
          /\ spsr \in [0..4 -> Psr]
          /\ banked \in [Slot -> Int]
          /\ pipeline_valid \in BOOLEAN /\ halted \in BOOLEAN
          /\ has_bios \in BOOLEAN /\ pending \in BOOLEAN

(* The program counter is aligned for the instruction set it fetches:      *)
(* across branches, BX, exception entry, and returns that restore CPSR.T   *)
(* from an SPSR, cpu_step never fetches an ARM word or a Thumb halfword    *)
(* across its boundary.                                                    *)
PcAligned == pc % Size = 0

(* Where the bank array keeps the copy of a register nobody sees. *)
SlotOf(p) == IF p[2] >= SP THEN bank_offset_for_mode(p[1]) + p[2] - SP
             ELSE IF p[1] = "FIQ" THEN p[2] - 8 ELSE p[2] + 7

(* The physical registers: visible copies in rg, the others banked.        *)
FileOf(rg, bk, m) == [p \in Phys |-> IF p[1] = Owner(m, p[2]) THEN rg[p[2]]
                                     ELSE bk[SlotOf(p)]]
File == FileOf(regs, banked, mode)

(* Register isolation: however modes are switched (MSR, IRQ, SWI, returns, *)
(* the user-mode detour of LDM ^), cpu_switch_mode loses no register and   *)
(* leaks none: the flat bank array implements the private copies of every  *)
(* mode.                                                                   *)
RF == INSTANCE RegisterFile WITH file <- File, Bases <- DataRegs
ImplementsRegisterFile == RF!Spec
=============================================================================
