------------------------------ MODULE CpuProofs -----------------------------
(***************************************************************************)
(* Proofs about the processor, for every program, every set of modes and   *)
(* every register list: types, alignment of the program counter, that the  *)
(* bank array implements the private registers of each mode, and where the *)
(* handlers' returns lead; then the arithmetic of the instructions, for    *)
(* registers of every width.                                               *)
(***************************************************************************)
EXTENDS CpuReturn, Instructions, TLAPS

-----------------------------------------------------------------------------
(* Facts about cpu_switch_mode.                                            *)

LEMMA OffsetType ==
  ASSUME NEW m \in Mode
  PROVE  bank_offset_for_mode(m) \in {5, 7, 9, 11, 13, 20}
  BY DEF bank_offset_for_mode

(* Saving the outgoing registers keeps the type of the bank. *)
LEMMA SaveType ==
  ASSUME NEW rg \in [Reg -> Int], NEW bk \in [Slot -> Int], NEW old \in Mode
  PROVE  SaveOutgoing(rg, bk, old) \in [Slot -> Int]
  BY DEF SaveOutgoing, Slot, Reg, SP, LR

(* So does the whole mode switch. *)
LEMMA SwitchType ==
  ASSUME NEW rg \in [Reg -> Int], NEW bk \in [Slot -> Int],
         NEW old \in Mode, NEW new \in Mode
  PROVE  /\ SwitchRegs(rg, bk, old, new) \in [Reg -> Int]
         /\ SwitchBank(rg, bk, old, new) \in [Slot -> Int]
<1>1. SaveOutgoing(rg, bk, old) \in [Slot -> Int]
  BY SaveType
<1>2. SwitchBank(rg, bk, old, new) \in [Slot -> Int]
  BY <1>1 DEF SwitchBank, Slot, Reg
<1>3. \A r \in Reg : r >= SP => bank_offset_for_mode(new) + r - SP \in Slot
  BY OffsetType DEF Reg, SP, Slot
<1>4. SwitchRegs(rg, bk, old, new) \in [Reg -> Int]
  BY <1>1, <1>3 DEF SwitchRegs, Slot, Reg, SP
<1>. QED BY <1>2, <1>4

(* The owners of the registers a mode switch moves about. *)
LEMMA OwnerCases ==
  ASSUME NEW p \in Phys
  PROVE  /\ p[1] \in Owners /\ p[2] \in Reg
         /\ p[2] < 8 => p[1] = "USR"
         /\ p[2] \in 8..12 => p[1] \in {"USR", "FIQ"}
<1>1. CASE p \in {"USR"} \X Reg
  BY <1>1 DEF Owners
<1>2. CASE p \in {"FIQ"} \X (8..14)
  BY <1>2 DEF Owners, Reg
<1>3. CASE p \in {"IRQ", "SVC", "ABT", "UND"} \X {SP, LR}
  BY <1>3 DEF Owners, Reg, SP, LR
<1>. QED BY <1>1, <1>2, <1>3 DEF Phys

(* Switching modes moves copies about and changes no physical register.    *)
LEMMA SwitchKeepsFile ==
  ASSUME NEW rg \in [Reg -> Int], NEW bk \in [Slot -> Int],
         NEW old \in Mode, NEW new \in Mode
  PROVE  FileOf(SwitchRegs(rg, bk, old, new), SwitchBank(rg, bk, old, new), new)
           = FileOf(rg, bk, old)
<1>1. CASE old = new
  BY <1>1 DEF SwitchRegs, SwitchBank
<1>2. CASE old # new
  <2>. DEFINE rg2 == SwitchRegs(rg, bk, old, new)
              bk2 == SwitchBank(rg, bk, old, new)
              sv  == SaveOutgoing(rg, bk, old)
  <2>1. ASSUME NEW p \in Phys
        PROVE  (IF p[1] = Owner(new, p[2]) THEN rg2[p[2]] ELSE bk2[SlotOf(p)])
                 = (IF p[1] = Owner(old, p[2]) THEN rg[p[2]] ELSE bk[SlotOf(p)])
    <3>. DEFINE o == p[1]
                r == p[2]
    <3>0. /\ o \in Owners /\ r \in Reg
          /\ r < 8 => o = "USR"
          /\ r \in 8..12 => o \in {"USR", "FIQ"}
      BY OwnerCases
    <3>1. /\ sv = [i \in Slot |->
                     IF i = bank_offset_for_mode(old)          THEN rg[SP]
                     ELSE IF i = bank_offset_for_mode(old) + 1 THEN rg[LR]
                     ELSE IF old = "FIQ" /\ i < 5              THEN rg[8 + i]
                     ELSE bk[i]]
          /\ bk2 = [i \in Slot |-> IF new = "FIQ" /\ i \in 15..19 THEN rg[i - 7] ELSE sv[i]]
          /\ rg2 = [q \in Reg |->
                     IF q >= SP          THEN sv[bank_offset_for_mode(new) + q - SP]
                     ELSE IF q < 8       THEN rg[q]
                     ELSE IF new = "FIQ" THEN sv[q - 8]
                     ELSE IF old = "FIQ" THEN bk[q + 7]
                     ELSE rg[q]]
      BY <1>2 DEF SaveOutgoing, SwitchBank, SwitchRegs
    <3>. HIDE DEF rg2, bk2, sv
    <3>2. CASE r < 8
      BY <3>0, <3>1, <3>2 DEF Owner, Reg, SP, Mode
    <3>3. CASE r \in 8..12
      <4>1. CASE o = "FIQ"
        BY <1>2, <3>0, <3>1, <3>3, <4>1
           DEF Owner, SlotOf, Reg, Slot, SP, LR, Mode, bank_offset_for_mode
      <4>2. CASE o = "USR"
        BY <1>2, <3>0, <3>1, <3>3, <4>2
           DEF Owner, SlotOf, Reg, Slot, SP, LR, Mode, bank_offset_for_mode
      <4>. QED BY <3>0, <3>3, <4>1, <4>2
    <3>4. CASE r = 13
      <4>0. /\ bank_offset_for_mode(new) + 13 - 13 = bank_offset_for_mode(new)
            /\ bank_offset_for_mode(o) + 13 - 13 = bank_offset_for_mode(o)
        BY <3>0 DEF bank_offset_for_mode
      <4>1. /\ rg2[13] = sv[bank_offset_for_mode(new)]
            /\ SlotOf(p) = bank_offset_for_mode(o)
        BY <3>0, <3>1, <3>4, <4>0 DEF SlotOf, Reg, SP
      <4>. QED
        BY <1>2, <3>0, <3>1, <3>4, <4>1
           DEF Owner, Owners, Reg, Slot, SP, LR, Mode, bank_offset_for_mode
    <3>5. CASE r = 14
      <4>1. /\ rg2[14] = sv[bank_offset_for_mode(new) + 1]
            /\ SlotOf(p) = bank_offset_for_mode(o) + 1
        BY <3>0, <3>1, <3>5, OffsetType DEF SlotOf, Reg, SP, Slot
      <4>. QED
        BY <1>2, <3>0, <3>1, <3>5, <4>1
           DEF Owner, Owners, Reg, Slot, SP, LR, Mode, bank_offset_for_mode
    <3>. QED BY <3>0, <3>2, <3>3, <3>4, <3>5 DEF Reg
  <2>. QED BY <2>1 DEF FileOf
<1>. QED BY <1>1, <1>2

-----------------------------------------------------------------------------
(* Types.                                                                  *)

LEMMA RestoreType ==
  ASSUME TypeOK, NEW rg \in [Reg -> Int], RestoreCpsr(rg)
  PROVE  /\ regs' \in [Reg -> Int] /\ banked' \in [Slot -> Int]
         /\ mode' \in Mode /\ irqOff' \in BOOLEAN /\ thumb' \in BOOLEAN
<1>1. CASE HasSpsr(mode)
  <2>. DEFINE s == spsr[spsr_index_for_mode(mode)]
  <2>1. spsr_index_for_mode(mode) \in 0..4
    BY <1>1 DEF HasSpsr, spsr_index_for_mode, TypeOK
  <2>2. s \in Psr
    BY <2>1 DEF TypeOK
  <2>3. s.mode \in Mode /\ s.i \in BOOLEAN /\ s.t \in BOOLEAN
    BY <2>2 DEF Psr
  <2>4. /\ regs'   = SwitchRegs(rg, banked, mode, s.mode)
        /\ banked' = SwitchBank(rg, banked, mode, s.mode)
        /\ mode' = s.mode /\ irqOff' = s.i /\ thumb' = s.t
    BY <1>1 DEF RestoreCpsr
  <2>. QED BY <2>3, <2>4, SwitchType DEF TypeOK
<1>2. CASE ~HasSpsr(mode)
  BY <1>2 DEF RestoreCpsr, TypeOK, psr
<1>. QED BY <1>1, <1>2

(* Loading registers from memory keeps their type. *)
LEMMA LoadedType ==
  ASSUME NEW rg \in [Reg -> Int], NEW list, NEW v \in Words
  PROVE  Loaded(rg, list, v) \in [Reg -> Int]
  BY CpuAssumption DEF Loaded

(* What aligning an address gives. *)
LEMMA AlignedFacts ==
  ASSUME NEW x \in Int
  PROVE  /\ Aligned(x, 2) \in Int /\ Aligned(x, 2) % 2 = 0
         /\ Aligned(x, 4) \in Int /\ Aligned(x, 4) % 4 = 0 /\ Aligned(x, 4) % 2 = 0
  BY DEF Aligned

(* What is aligned to a word is aligned to a halfword. *)
LEMMA WordIsHalfword ==
  ASSUME NEW x \in Int, x % 4 = 0
  PROVE  x % 2 = 0
<1>1. Aligned(x, 4) = x
  BY DEF Aligned
<1>. QED BY <1>1, AlignedFacts

(* The entry point of the cartridge is a word address. *)
LEMMA RomEntryFacts == RomEntry \in Int /\ RomEntry % 4 = 0
  BY SMT DEF RomEntry

(* The initial stack pointers are numbers. *)
LEMMA StackFacts == StackSvc \in Int /\ StackIrq \in Int /\ StackSys \in Int
  BY SMT DEF StackSvc, StackIrq, StackSys

(* Going to the next instruction keeps the types. *)
LEMMA AdvanceType ==
  ASSUME TypeOK, Advance
  PROVE  pc' \in Int /\ pipeline_valid' \in BOOLEAN
  BY DEF TypeOK, Advance, Size

(* Every step keeps the types. *)
LEMMA StepTypeOK == TypeOK /\ [Next]_vars => TypeOK'
<1>. SUFFICES ASSUME TypeOK, [Next]_vars
              PROVE  TypeOK'
  OBVIOUS
<1>. has_bios' \in BOOLEAN
  BY Zenon DEF Next, vars, TypeOK
<1>0. Words \subseteq Int /\ Code \subseteq Nat /\ DataRegs \subseteq Reg
      /\ MsrModes \subseteq Mode /\ MsrThumb \subseteq BOOLEAN
  BY CpuAssumption
<1>1. CASE Refill
  BY <1>1 DEF TypeOK, Refill, psr, Size
<1>2. CASE cpu_handle_irq
  <2>1. /\ SwitchRegs(regs, banked, mode, "IRQ") \in [Reg -> Int]
        /\ SwitchBank(regs, banked, mode, "IRQ") \in [Slot -> Int]
    BY SwitchType DEF TypeOK, Mode
  <2>2. spsr' \in [0..4 -> Psr]
    BY <1>2 DEF TypeOK, cpu_handle_irq, Psr
  <2>3. regs' \in [Reg -> Int] /\ banked' \in [Slot -> Int]
    BY <1>2, <2>1 DEF TypeOK, cpu_handle_irq, IrqLink
  <2>4. /\ mode' \in Mode /\ irqOff' \in BOOLEAN /\ thumb' \in BOOLEAN
        /\ pipeline_valid' \in BOOLEAN /\ halted' \in BOOLEAN /\ pending' \in BOOLEAN
    BY <1>2, Zenon DEF TypeOK, cpu_handle_irq, Mode
  <2>5. pc' \in Int
    BY <1>2 DEF cpu_handle_irq, VectorIrq
  <2>. QED BY <2>2, <2>3, <2>4, <2>5 DEF TypeOK
<1>3. CASE cpu_handle_swi
  <2>1. /\ SwitchRegs(regs, banked, mode, "SVC") \in [Reg -> Int]
        /\ SwitchBank(regs, banked, mode, "SVC") \in [Slot -> Int]
    BY SwitchType DEF TypeOK, Mode
  <2>2. spsr' \in [0..4 -> Psr]
    BY <1>3 DEF TypeOK, cpu_handle_swi, Psr
  <2>0. SwiLink \in Int
    BY DEF TypeOK, SwiLink, Size
  <2>3. regs' \in [Reg -> Int] /\ banked' \in [Slot -> Int]
    BY <1>3, <2>0, <2>1 DEF cpu_handle_swi
  <2>4. /\ mode' \in Mode /\ irqOff' \in BOOLEAN /\ thumb' \in BOOLEAN
        /\ pipeline_valid' \in BOOLEAN /\ halted' \in BOOLEAN /\ pending' \in BOOLEAN
    BY <1>3, Zenon DEF TypeOK, cpu_handle_swi, cpu_flush_pipeline, Mode
  <2>5. pc' \in Int
    BY <1>3 DEF cpu_handle_swi, VectorSwi
  <2>. QED BY <2>2, <2>3, <2>4, <2>5 DEF TypeOK
<1>4. CASE HleSwi
  <2>1. regs' \in [Reg -> Int]
    <3>1. CASE regs' = regs
      BY <3>1 DEF TypeOK
    <3>2. ASSUME NEW r \in DataRegs \cap 0..3, NEW v \in Words,
                 regs' = [regs EXCEPT ![r] = v]
          PROVE  regs' \in [Reg -> Int]
      BY <1>0, <3>2 DEF TypeOK
    <3>3. CASE regs' = [regs EXCEPT ![0] = 1, ![1] = 1]
      BY <3>3 DEF TypeOK, Reg
    <3>. QED BY <1>4, <3>1, <3>2, <3>3 DEF HleSwi
  <2>2. Advance \/ (pc' = RomEntry /\ pipeline_valid' = FALSE)
    BY <1>4 DEF HleSwi, cpu_flush_pipeline
  <2>3. pc' \in Int /\ pipeline_valid' \in BOOLEAN
    BY <2>2, AdvanceType, RomEntryFacts
  <2>4. halted' \in BOOLEAN
    BY <1>4, Zenon DEF HleSwi, TypeOK
  <2>. QED BY <1>4, <2>1, <2>3, <2>4, Zenon DEF HleSwi, TypeOK, psr
<1>5. ASSUME NEW k \in {0, 4}, ExceptionReturn(k)
      PROVE  TypeOK'
  <2>1. pc' \in Int
    <3>1. regs[LR] - k \in Int
      BY DEF TypeOK, Reg, LR
    <3>. QED BY <3>1, <1>5, AlignedFacts DEF ExceptionReturn
  <2>2. RestoreCpsr(regs)
    BY <1>5 DEF ExceptionReturn
  <2>3. /\ regs' \in [Reg -> Int] /\ banked' \in [Slot -> Int]
        /\ mode' \in Mode /\ irqOff' \in BOOLEAN /\ thumb' \in BOOLEAN
    BY <2>2, RestoreType DEF TypeOK
  <2>. QED BY <1>5, <2>1, <2>3 DEF ExceptionReturn, TypeOK, cpu_flush_pipeline
<1>6. CASE DataInstr
  <2>1. regs' \in [Reg -> Int]
    BY <1>0, <1>6 DEF DataInstr, TypeOK
  <2>. QED BY <1>6, <2>1, AdvanceType DEF DataInstr, TypeOK, psr
<1>7. ASSUME NEW a \in Code, NEW link \in Links, Branch(a, link)
      PROVE  TypeOK'
  <2>. DEFINE ret == IF thumb THEN pc - 2 + 1 ELSE pc - 4
  <2>1. ret \in Int
    BY DEF TypeOK
  <2>2. regs' = (IF link THEN [regs EXCEPT ![LR] = ret] ELSE regs)
    BY <1>7 DEF Branch
  <2>. HIDE DEF ret
  <2>3. regs' \in [Reg -> Int]
    BY <2>1, <2>2 DEF TypeOK
  <2>4. pc' \in Int
    BY <1>0, <1>7 DEF Branch
  <2>5. pipeline_valid' \in BOOLEAN
    BY <1>7, Zenon DEF Branch, cpu_flush_pipeline
  <2>. QED BY <1>7, <2>3, <2>4, <2>5, Zenon DEF Branch, TypeOK, psr
<1>8. ASSUME NEW a \in Code, NEW b \in IsaBits, Bx(a + b)
      PROVE  TypeOK'
  <2>1. a + b \in Int
    BY CpuAssumption
  <2>2. pc' \in {Aligned(a + b, 2), Aligned(a + b, 4)}
    BY <1>8 DEF Bx
  <2>4. pc' \in Int
    BY <2>1, <2>2, AlignedFacts
  <2>3. thumb' \in BOOLEAN
    BY <1>8, Zenon DEF Bx
  <2>. QED BY <1>8, <2>3, <2>4, Zenon DEF Bx, TypeOK, cpu_flush_pipeline
<1>9. ASSUME NEW m \in MsrModes, NEW i \in BOOLEAN, NEW t \in MsrThumb,
             MsrCpsr(m, i, t)
      PROVE  TypeOK'
  <2>1. /\ regs' \in [Reg -> Int] /\ banked' \in [Slot -> Int]
        /\ mode' \in Mode
    BY <1>0, <1>9, SwitchType DEF MsrCpsr, cpu_switch_mode, TypeOK, psr
  <2>2. irqOff' \in BOOLEAN /\ thumb' \in BOOLEAN
    BY <1>0, <1>9, Zenon DEF MsrCpsr, TypeOK, psr
  <2>. QED BY <1>9, <2>1, <2>2, AdvanceType DEF MsrCpsr, TypeOK
<1>10. ASSUME NEW m \in MsrModes, NEW t \in MsrThumb, MsrSpsr(m, t)
       PROVE  TypeOK'
  <2>1. spsr' \in [0..4 -> Psr]
    <3>1. m \in Mode /\ t \in BOOLEAN
      BY <1>0
    <3>2. [mode |-> m, i |-> FALSE, t |-> t] \in Psr
      BY <3>1 DEF Psr
    <3>3. HasSpsr(mode) => spsr_index_for_mode(mode) \in 0..4
      BY DEF HasSpsr, spsr_index_for_mode, TypeOK
    <3>. QED BY <1>10, <3>2, <3>3 DEF MsrSpsr, TypeOK
  <2>. QED BY <1>10, <2>1, AdvanceType DEF MsrSpsr, TypeOK, psr
<1>11. ASSUME NEW l \in RegLists, NEW v \in Words, NEW rn \in DataRegs, NEW w \in BOOLEAN,
              LdmUser(l, v, rn, w)
       PROVE  TypeOK'
  <2>. DEFINE user == IF mode \in {"USR", "SYS"} THEN mode ELSE "USR"
              rg0  == SwitchRegs(regs, banked, mode, user)
              rg1  == Loaded(rg0, l, v)
              bk1  == SwitchBank(regs, banked, mode, user)
              rg2  == SwitchRegs(rg1, bk1, user, mode)
              bk2  == SwitchBank(rg1, bk1, user, mode)
  <2>1. user \in Mode /\ mode \in Mode
    BY DEF TypeOK, Mode
  <2>2. rg0 \in [Reg -> Int] /\ bk1 \in [Slot -> Int]
    BY <2>1, SwitchType DEF TypeOK
  <2>3. rg1 \in [Reg -> Int]
    BY <2>2, LoadedType
  <2>4. rg2 \in [Reg -> Int] /\ bk2 \in [Slot -> Int]
    BY <2>1, <2>2, <2>3, SwitchType
  <2>5. /\ regs' = (IF w /\ rn \notin l THEN [rg2 EXCEPT ![rn] = v] ELSE rg2)
        /\ banked' = bk2
    BY <1>11 DEF LdmUser
  <2>. HIDE DEF rg2, bk2
  <2>6. regs' \in [Reg -> Int] /\ banked' \in [Slot -> Int]
    BY <1>0, <2>4, <2>5
  <2>. QED BY <1>11, <2>6, AdvanceType DEF LdmUser, TypeOK, psr
<1>12. ASSUME NEW l \in RegLists, NEW v \in Words, NEW rn \in DataRegs, NEW w \in BOOLEAN,
              NEW a \in Code, LdmReturn(l, v, rn, w, a)
       PROVE  TypeOK'
  <2>. DEFINE list == IF w THEN l \cup {rn} ELSE l
  <2>1. Loaded(regs, list, v) \in [Reg -> Int]
    BY LoadedType DEF TypeOK
  <2>2. RestoreCpsr(Loaded(regs, list, v))
    BY <1>12 DEF LdmReturn
  <2>3. /\ regs' \in [Reg -> Int] /\ banked' \in [Slot -> Int]
        /\ mode' \in Mode /\ irqOff' \in BOOLEAN /\ thumb' \in BOOLEAN
    BY <2>1, <2>2, RestoreType
  <2>4. pc' \in Int
    BY <1>0, <1>12, AlignedFacts DEF LdmReturn
  <2>. QED BY <1>12, <2>3, <2>4 DEF LdmReturn, TypeOK, cpu_flush_pipeline
<1>13. CASE WriteHaltcnt
  BY <1>13, AdvanceType DEF WriteHaltcnt, TypeOK, psr
<1>14. CASE Signal
  BY <1>14 DEF Signal, TypeOK, psr
<1>15. CASE UNCHANGED vars
  BY <1>15 DEF vars, TypeOK
<1>. QED
  BY <1>1, <1>2, <1>3, <1>4, <1>5, <1>6, <1>7, <1>8, <1>9, <1>10, <1>11, <1>12,
     <1>13, <1>14, <1>15 DEF Next, OtherStep

(* The initial state is of its type. *)
LEMMA InitTypeOK == Init => TypeOK
<1>1. \A i \in 0..4 : [mode |-> "BAD", i |-> FALSE, t |-> FALSE] \in Psr
  BY DEF Psr, Mode
<1>. SUFFICES ASSUME Init
              PROVE  TypeOK
  OBVIOUS
<1>2. spsr \in [0..4 -> Psr]
  BY <1>1 DEF Init
<1>3. /\ mode \in Mode /\ irqOff \in BOOLEAN /\ thumb \in BOOLEAN
      /\ pipeline_valid \in BOOLEAN /\ halted \in BOOLEAN
      /\ has_bios \in BOOLEAN /\ pending \in BOOLEAN
  BY Zenon DEF Init, cpu_init, cpu_skip_bios, Mode
<1>4. regs \in [Reg -> Int] /\ banked \in [Slot -> Int] /\ pc \in Int
  <2>1. CASE has_bios
    <3>1. cpu_init
      BY <2>1 DEF Init
    <3>. QED BY <3>1, StackFacts DEF cpu_init
  <2>2. CASE ~has_bios
    <3>1. cpu_skip_bios
      BY <2>2 DEF Init
    <3>. QED BY <3>1, StackFacts, RomEntryFacts DEF cpu_skip_bios
  <2>. QED BY <2>1, <2>2
<1>. QED BY <1>2, <1>3, <1>4 DEF TypeOK

(* The processor's state stays well formed under every program.            *)
THEOREM CpuTypeCorrect == Spec => []TypeOK
  BY InitTypeOK, StepTypeOK, PTL DEF Spec

-----------------------------------------------------------------------------
(* Alignment.                                                              *)

LEMMA AdvanceAligned ==
  ASSUME TypeOK, PcAligned, Advance, UNCHANGED thumb
  PROVE  PcAligned'
  BY DEF TypeOK, PcAligned, Advance, Size

(* A word address is right in either instruction set. *)
LEMMA WordAligned ==
  ASSUME pc' \in Int, pc' % 4 = 0
  PROVE  PcAligned'
<1>1. pc' % 2 = 0
  BY WordIsHalfword
<1>2. CASE thumb'
  BY <1>1, <1>2 DEF PcAligned, Size
<1>3. CASE ~thumb'
  BY <1>3 DEF PcAligned, Size
<1>. QED BY <1>2, <1>3

(* Every step leaves the program counter aligned. *)
LEMMA StepPcAligned == TypeOK /\ PcAligned /\ [Next]_vars => PcAligned'
<1>. SUFFICES ASSUME TypeOK, PcAligned, [Next]_vars
              PROVE  PcAligned'
  OBVIOUS
<1>0. Code \subseteq Nat
  BY CpuAssumption
<1>1. CASE Refill
  <2>1. CASE thumb
    BY <1>1, <2>1 DEF TypeOK, Refill, psr, Size, PcAligned
  <2>2. CASE ~thumb
    BY <1>1, <2>2 DEF TypeOK, Refill, psr, Size, PcAligned
  <2>. QED BY <2>1, <2>2
<1>2. CASE cpu_handle_irq
  BY <1>2, WordAligned DEF cpu_handle_irq, VectorIrq
<1>3. CASE cpu_handle_swi
  BY <1>3, WordAligned DEF cpu_handle_swi, VectorSwi
<1>4. CASE HleSwi
  <2>1. Advance \/ pc' = RomEntry
    BY <1>4 DEF HleSwi
  <2>2. UNCHANGED thumb
    BY <1>4 DEF HleSwi, psr
  <2>. QED BY <2>1, <2>2, AdvanceAligned, RomEntryFacts, WordAligned
<1>5. ASSUME NEW k \in {0, 4}, ExceptionReturn(k)
      PROVE  PcAligned'
  <2>1. regs[LR] - k \in Int
    BY DEF TypeOK, Reg, LR
  <2>. QED BY <2>1, <1>5, AlignedFacts, WordAligned DEF ExceptionReturn
<1>6. CASE DataInstr
  BY <1>6, AdvanceAligned DEF DataInstr, psr
<1>7. ASSUME NEW a \in Code, NEW link \in Links, Branch(a, link)
      PROVE  PcAligned'
  BY <1>7 DEF Branch, psr, PcAligned, Size
<1>8. ASSUME NEW a \in Code, NEW b \in IsaBits, Bx(a + b)
      PROVE  PcAligned'
  <2>1. a + b \in Int
    BY CpuAssumption
  <2>2. CASE (a + b) % 2 = 1
    BY <1>8, <2>1, <2>2, AlignedFacts DEF Bx, PcAligned, Size
  <2>3. CASE (a + b) % 2 # 1
    BY <1>8, <2>1, <2>3, AlignedFacts, WordAligned DEF Bx
  <2>. QED BY <2>2, <2>3
<1>9. ASSUME NEW m \in MsrModes, NEW i \in BOOLEAN, NEW t \in MsrThumb,
             MsrCpsr(m, i, t)
      PROVE  PcAligned'
  <2>1. pc' = pc + 4 /\ pc % 4 = 0
    BY <1>9 DEF MsrCpsr, Advance, PcAligned, Size
  <2>. QED BY <2>1, WordAligned DEF TypeOK
<1>10. ASSUME NEW m \in MsrModes, NEW t \in MsrThumb, MsrSpsr(m, t)
       PROVE  PcAligned'
  BY <1>10, AdvanceAligned DEF MsrSpsr, psr
<1>11. ASSUME NEW l \in RegLists, NEW v \in Words, NEW rn \in DataRegs, NEW w \in BOOLEAN,
              LdmUser(l, v, rn, w)
       PROVE  PcAligned'
  BY <1>11, AdvanceAligned DEF LdmUser, psr
<1>12. ASSUME NEW l \in RegLists, NEW v \in Words, NEW rn \in DataRegs, NEW w \in BOOLEAN,
              NEW a \in Code, LdmReturn(l, v, rn, w, a)
       PROVE  PcAligned'
  BY <1>0, <1>12, AlignedFacts, WordAligned DEF LdmReturn
<1>13. CASE WriteHaltcnt
  BY <1>13, AdvanceAligned DEF WriteHaltcnt, psr
<1>14. CASE Signal
  BY <1>14 DEF Signal, psr, PcAligned, Size
<1>15. CASE UNCHANGED vars
  BY <1>15 DEF vars, PcAligned, Size
<1>. QED
  BY <1>1, <1>2, <1>3, <1>4, <1>5, <1>6, <1>7, <1>8, <1>9, <1>10, <1>11, <1>12,
     <1>13, <1>14, <1>15 DEF Next, OtherStep

(* The program counter is always aligned for the instruction set that is   *)
(* fetched, whatever the program branches to, returns to or keeps in SPSR. *)
THEOREM CpuPcAligned == Spec => []PcAligned
<1>1. Init => PcAligned
  <2>1. Init => pc \in {0, RomEntry} /\ ~thumb
    BY Zenon DEF Init, cpu_init, cpu_skip_bios
  <2>. QED BY <2>1, RomEntryFacts DEF PcAligned, Size
<1>. QED BY <1>1, CpuTypeCorrect, StepPcAligned, PTL DEF Spec

-----------------------------------------------------------------------------
(* The refinement.                                                         *)

LEMMA SameNames ==
  /\ RF!Phys = Phys /\ RF!Mode = Mode /\ RF!LR = LR
  /\ \A m : RF!Visible(m) = Visible(m)
  BY DEF RF!Phys, Phys, RF!Mode, Mode, RF!LR, LR, RF!Visible, Visible,
     RF!Owner, Owner, RF!Owners, Owners, RF!Reg, Reg, RF!SP, SP

(* Keeping all registers but S, in the words of the register file. *)
LEMMA Keeps ==
  ASSUME NEW S, \A p \in Phys \ S : File'[p] = File[p]
  PROVE  RF!KeepsAllBut(S)
  BY SameNames DEF RF!KeepsAllBut, File, FileOf

(* Writing visible registers disturbs only the copies the mode sees. *)
LEMMA WritesVisible ==
  ASSUME NEW rg, NEW rg2, NEW bk, NEW m, NEW p \in Phys \ Visible(m)
  PROVE  FileOf(rg2, bk, m)[p] = FileOf(rg, bk, m)[p]
  BY DEF FileOf, Visible

(* What happens within a mode is an instruction of the register file. *)
LEMMA SameModeStep ==
  ASSUME TypeOK, UNCHANGED <<banked, mode>>
  PROVE  RF!Instruction
<1>1. \A p \in Phys \ Visible(mode) : File'[p] = File[p]
  BY WritesVisible DEF File
<1>. QED BY <1>1, Keeps, SameNames DEF RF!Instruction

(* The copies of a list of registers, written with one value.              *)
Updated(f, m, list, v) ==
  [p \in Phys |-> IF p[1] = Owner(m, p[2]) /\ p[2] \in list THEN v ELSE f[p]]

(* Loading visible registers, seen in the register file. *)
LEMMA LoadedFile ==
  ASSUME NEW rg, NEW bk, NEW m, NEW list, NEW v
  PROVE  FileOf(Loaded(rg, list, v), bk, m) = Updated(FileOf(rg, bk, m), m, list, v)
<1>1. ASSUME NEW p \in Phys
      PROVE  FileOf(Loaded(rg, list, v), bk, m)[p] = Updated(FileOf(rg, bk, m), m, list, v)[p]
  <2>1. p[2] \in Reg
    BY OwnerCases
  <2>. QED BY <2>1 DEF FileOf, Loaded, Updated
<1>. QED BY <1>1 DEF FileOf, Updated

(* Registers loaded in the old mode, then CPSR restored. *)
LEMMA RestoredFile ==
  ASSUME TypeOK, NEW rg \in [Reg -> Int], RestoreCpsr(rg)
  PROVE  File' = FileOf(rg, banked, mode) /\ mode' \in Mode
<1>1. CASE HasSpsr(mode)
  <2>. DEFINE s == spsr[spsr_index_for_mode(mode)]
  <2>1. spsr_index_for_mode(mode) \in 0..4
    BY <1>1 DEF HasSpsr, spsr_index_for_mode, TypeOK
  <2>2. s.mode \in Mode
    BY <2>1 DEF TypeOK, Psr
  <2>3. /\ regs'   = SwitchRegs(rg, banked, mode, s.mode)
        /\ banked' = SwitchBank(rg, banked, mode, s.mode)
        /\ mode' = s.mode
    BY <1>1 DEF RestoreCpsr
  <2>. QED BY <2>2, <2>3, SwitchKeepsFile DEF File, TypeOK
<1>2. CASE ~HasSpsr(mode)
  BY <1>2 DEF RestoreCpsr, psr, File, TypeOK
<1>. QED BY <1>1, <1>2

(* Entering an exception: a mode switch, then the link. *)
LEMMA ExceptionStep ==
  ASSUME TypeOK, NEW m \in {"IRQ", "SVC"}, NEW link,
         regs'   = [SwitchRegs(regs, banked, mode, m) EXCEPT ![LR] = link],
         banked' = SwitchBank(regs, banked, mode, m),
         mode'   = m
  PROVE  RF!Exception
<1>. DEFINE rg == SwitchRegs(regs, banked, mode, m)
            bk == SwitchBank(regs, banked, mode, m)
<1>1. m \in Mode
  BY DEF Mode
<1>2. rg \in [Reg -> Int] /\ FileOf(rg, bk, m) = File
  BY <1>1, SwitchType, SwitchKeepsFile DEF TypeOK, File
<1>3. regs' = [rg EXCEPT ![LR] = link] /\ banked' = bk
  OBVIOUS
<1>. HIDE DEF rg, bk
<1>4. ASSUME NEW p \in Phys \ {<<m, LR>>}
      PROVE  File'[p] = File[p]
  <2>1. p[1] \in Owners /\ p[2] \in Reg /\ p = <<p[1], p[2]>>
    BY OwnerCases DEF Phys
  <2>2. p[1] = Owner(m, p[2]) => p[2] # LR
    BY <2>1 DEF Owner, SP, LR, Reg
  <2>3. File'[p] = (IF p[1] = Owner(m, p[2]) THEN regs'[p[2]] ELSE bk[SlotOf(p)])
    BY <1>3 DEF File, FileOf
  <2>4. File[p] = (IF p[1] = Owner(m, p[2]) THEN rg[p[2]] ELSE bk[SlotOf(p)])
    BY <1>2 DEF FileOf
  <2>. QED BY <1>2, <1>3, <2>1, <2>2, <2>3, <2>4
<1>. QED BY <1>4, Keeps, SameNames DEF RF!Exception

(* LDM with the PC and the S bit is one step of the register file. *)
LEMMA LoadAndReturnStep ==
  ASSUME TypeOK, NEW l \in RegLists, NEW v \in Words, NEW rn \in DataRegs, NEW w \in BOOLEAN,
         RestoreCpsr(Loaded(regs, IF w THEN l \cup {rn} ELSE l, v))
  PROVE  RF!LoadAndReturn
<1>. DEFINE b    == IF w THEN {rn} ELSE {}
            list == IF w THEN l \cup {rn} ELSE l
<1>1. b \in RF!Base /\ list = l \cup b
  BY DEF RF!Base
<1>2. Loaded(regs, list, v) \in [Reg -> Int]
  BY LoadedType DEF TypeOK
<1>3. File' = FileOf(Loaded(regs, list, v), banked, mode) /\ mode' \in Mode
  BY <1>2, RestoredFile
<1>4. File' = Updated(File, mode, list, v)
  BY <1>3, LoadedFile DEF File
<1>. HIDE DEF b, list
<1>5. RF!Written(RF!Seen(mode, l \cup b), v)
  BY <1>1, <1>4, SameNames DEF RF!Written, RF!Seen, Updated, Visible
<1>. QED BY <1>1, <1>3, <1>5, SameNames DEF RF!LoadAndReturn

(* LDM with the S bit alone goes to the user registers and back. *)
LEMMA UserTransferStep ==
  ASSUME TypeOK, NEW l \in RegLists, NEW v \in Words, NEW rn \in DataRegs, NEW w \in BOOLEAN,
         LdmUser(l, v, rn, w)
  PROVE  RF!UserTransfer
<1>. DEFINE user == IF mode \in {"USR", "SYS"} THEN mode ELSE "USR"
            rg0  == SwitchRegs(regs, banked, mode, user)
            bk1  == SwitchBank(regs, banked, mode, user)
            rg1  == Loaded(rg0, l, v)
            rg2  == SwitchRegs(rg1, bk1, user, mode)
            bk2  == SwitchBank(rg1, bk1, user, mode)
            b    == IF w /\ rn \notin l THEN {rn} ELSE {}
<1>1. user \in Mode /\ mode \in Mode
  BY DEF TypeOK, Mode
<1>2. rg0 \in [Reg -> Int] /\ bk1 \in [Slot -> Int] /\ FileOf(rg0, bk1, user) = File
  BY <1>1, SwitchType, SwitchKeepsFile DEF TypeOK, File
<1>3. rg1 \in [Reg -> Int]
  BY <1>2, LoadedType
<1>4. /\ FileOf(rg2, bk2, mode) = FileOf(rg1, bk1, user)
      /\ rg2 \in [Reg -> Int]
  BY <1>1, <1>2, <1>3, SwitchKeepsFile, SwitchType
<1>5. banked' = bk2 /\ mode' = mode
  BY DEF LdmUser, psr
<1>6. Visible(user) = Visible("USR") /\ \A r : Owner(user, r) = Owner("USR", r)
  BY DEF Visible, Owner
<1>7. FileOf(rg1, bk1, user) = Updated(File, "USR", l, v)
  BY <1>2, <1>6, LoadedFile DEF Updated
<1>8. regs' = (IF w /\ rn \notin l THEN [rg2 EXCEPT ![rn] = v] ELSE rg2)
  BY DEF LdmUser
<1>. HIDE DEF user, rg0, bk1, rg1, rg2, bk2
<1>9. regs' = Loaded(rg2, b, v)
  BY <1>4, <1>8 DEF Loaded, Reg
<1>10. File' = Updated(Updated(File, "USR", l, v), mode, b, v)
  BY <1>4, <1>5, <1>7, <1>9, LoadedFile DEF File
<1>11. b \in RF!Base
  BY DEF RF!Base
<1>. HIDE DEF b
<1>12. RF!Written(RF!Seen("USR", l) \cup RF!Seen(mode, b), v)
  BY <1>10, SameNames DEF RF!Written, RF!Seen, Updated, Visible
<1>. QED BY <1>5, <1>11, <1>12 DEF RF!UserTransfer

(* Every step is one of the register file, or none. *)
LEMMA StepImplementsRegisterFile ==
  TypeOK /\ [Next]_vars => [RF!Next]_<<File, mode>>
<1>. SUFFICES ASSUME TypeOK, Next
              PROVE  RF!Next
  BY DEF vars, File
<1>. USE DEF RF!Next
<1>1. CASE Refill
  BY <1>1, SameModeStep DEF Refill, psr
<1>2. CASE cpu_handle_irq
  BY <1>2, ExceptionStep DEF cpu_handle_irq
<1>3. CASE cpu_handle_swi
  BY <1>3, ExceptionStep DEF cpu_handle_swi
<1>4. CASE HleSwi
  BY <1>4, SameModeStep DEF HleSwi, psr
<1>5. ASSUME NEW k \in {0, 4}, ExceptionReturn(k)
      PROVE  RF!Next
  <2>1. RestoreCpsr(regs) /\ regs \in [Reg -> Int]
    BY <1>5 DEF ExceptionReturn, TypeOK
  <2>. QED BY <2>1, RestoredFile, SameNames DEF RF!ModeChange, File
<1>6. CASE DataInstr
  BY <1>6, SameModeStep DEF DataInstr, psr
<1>7. ASSUME NEW a \in Code, NEW link \in Links, Branch(a, link)
      PROVE  RF!Next
  BY <1>7, SameModeStep DEF Branch, psr
<1>8. ASSUME NEW a \in Code, NEW b \in IsaBits, Bx(a + b)
      PROVE  RF!Next
  BY <1>8, SameModeStep DEF Bx
<1>9. ASSUME NEW m \in MsrModes, NEW i \in BOOLEAN, NEW t \in MsrThumb,
             MsrCpsr(m, i, t)
      PROVE  RF!Next
  <2>1. CASE mode = "USR"
    BY <1>9, <2>1, SameModeStep DEF MsrCpsr, psr
  <2>2. CASE mode # "USR"
    <3>1. m \in Mode
      BY CpuAssumption
    <3>2. File' = File /\ mode' = m
      BY <1>9, <2>2, <3>1, SwitchKeepsFile DEF MsrCpsr, cpu_switch_mode, TypeOK, File
    <3>. QED BY <3>1, <3>2, SameNames DEF RF!ModeChange
  <2>. QED BY <2>1, <2>2
<1>10. ASSUME NEW m \in MsrModes, NEW t \in MsrThumb, MsrSpsr(m, t)
       PROVE  RF!Next
  BY <1>10, SameModeStep DEF MsrSpsr, psr
<1>11. ASSUME NEW l \in RegLists, NEW v \in Words, NEW rn \in DataRegs, NEW w \in BOOLEAN,
              LdmUser(l, v, rn, w)
       PROVE  RF!Next
  BY <1>11, UserTransferStep
<1>12. ASSUME NEW l \in RegLists, NEW v \in Words, NEW rn \in DataRegs, NEW w \in BOOLEAN,
              NEW a \in Code, LdmReturn(l, v, rn, w, a)
       PROVE  RF!Next
  BY <1>12, LoadAndReturnStep DEF LdmReturn
<1>13. CASE WriteHaltcnt
  BY <1>13, SameModeStep DEF WriteHaltcnt, psr
<1>14. CASE Signal
  BY <1>14, SameModeStep DEF Signal, psr
<1>. QED
  BY <1>1, <1>2, <1>3, <1>4, <1>5, <1>6, <1>7, <1>8, <1>9, <1>10, <1>11, <1>12,
     <1>13, <1>14 DEF Next, OtherStep

(* The bank array and cpu_switch_mode implement private registers for each *)
(* mode: no sequence of mode changes, exceptions, returns and user-bank    *)
(* loads loses or leaks a register, whatever the program.                  *)
THEOREM CpuImplementsRegisterFile == Spec => ImplementsRegisterFile
<1>1. TypeOK => RF!Init
  <2>1. \A m \in Mode, p \in Phys :
          p[2] \in Reg /\ (p[1] # Owner(m, p[2]) => SlotOf(p) \in Slot)
    BY OffsetType, OwnerCases DEF SlotOf, Phys, Owner, Owners, Mode, Reg, Slot, SP
  <2>2. TypeOK => File \in [Phys -> Int]
    BY <2>1 DEF TypeOK, File, FileOf
  <2>. QED BY <2>2, SameNames DEF RF!Init, TypeOK
<1>. QED
  BY <1>1, InitTypeOK, CpuTypeCorrect, StepImplementsRegisterFile, PTL
     DEF Spec, ImplementsRegisterFile, RF!Spec

-----------------------------------------------------------------------------
(* Returns from exceptions.                                                *)

LEMMA RNextIsNext == [RNext]_rvars => [Next]_vars
  BY DEF RNext, Next, rvars, vars

(* Types and alignment hold with the history of entries too. *)
LEMMA ReturnTypes == RSpec => [](TypeOK /\ PcAligned)
<1>1. RInit => TypeOK /\ PcAligned
  <2>1. Init => PcAligned
    BY RomEntryFacts DEF Init, PcAligned, Size, cpu_init, cpu_skip_bios
  <2>. QED BY <2>1, InitTypeOK DEF RInit
<1>. QED BY <1>1, StepTypeOK, StepPcAligned, RNextIsNext, PTL DEF RSpec

(* What the link registers are worth.  An IRQ leaves the program counter   *)
(* in LR, two Thumb instructions ahead of the one to resume; an SWI leaves *)
(* the address after the call, a word boundary when it was made in ARM     *)
(* state.  IRQs in ARM state or with an empty pipeline are left out: there *)
(* SUBS PC, LR, #4 leads elsewhere.                                        *)
EntryInv ==
  /\ DOMAIN entry = {"IRQ", "SVC"}
  /\ entry["IRQ"].resume \in Int /\ entry["SVC"].resume \in Int
  /\ entry["IRQ"].t /\ entry["IRQ"].full => entry["IRQ"].lr = entry["IRQ"].resume + 4
  /\ entry["SVC"].lr = entry["SVC"].resume
  /\ ~entry["SVC"].t => entry["SVC"].resume % 4 = 0

(* Every step keeps the link registers of entries right. *)
LEMMA StepEntryInv == TypeOK /\ PcAligned /\ EntryInv /\ [RNext]_rvars => EntryInv'
<1>. SUFFICES ASSUME TypeOK, PcAligned, EntryInv, [RNext]_rvars
              PROVE  EntryInv'
  OBVIOUS
<1>0. DOMAIN entry = {"IRQ", "SVC"} /\ pc \in Int /\ thumb \in BOOLEAN /\ LR \in Reg
      /\ Size \in {2, 4}
  BY DEF EntryInv, TypeOK, LR, Reg, Size
<1>1. CASE cpu_handle_irq /\ Enter("IRQ", NextInstr)
  <2>. DEFINE e == [lr |-> regs'[LR], resume |-> NextInstr, t |-> thumb,
                    full |-> pipeline_valid]
  <2>1. entry' = [entry EXCEPT !["IRQ"] = e]
    BY <1>1 DEF Enter
  <2>2. SwitchRegs(regs, banked, mode, "IRQ") \in [Reg -> Int]
    BY SwitchType DEF TypeOK, Mode
  <2>3. regs'[LR] = pc
    BY <1>0, <1>1, <2>2 DEF cpu_handle_irq, IrqLink
  <2>4. /\ NextInstr \in Int
        /\ thumb /\ pipeline_valid => pc = NextInstr + 4
    BY <1>0 DEF NextInstr, Size
  <2>5. /\ e.resume \in Int
        /\ e.t /\ e.full => e.lr = e.resume + 4
    BY <2>3, <2>4
  <2>. HIDE DEF e
  <2>6. entry'["IRQ"] = e /\ entry'["SVC"] = entry["SVC"] /\ DOMAIN entry' = {"IRQ", "SVC"}
    BY <1>0, <2>1
  <2>. QED BY <2>5, <2>6 DEF EntryInv
<1>2. CASE cpu_handle_swi /\ Enter("SVC", NextInstr + Size)
  <2>. DEFINE e == [lr |-> regs'[LR], resume |-> NextInstr + Size, t |-> thumb,
                    full |-> pipeline_valid]
  <2>1. entry' = [entry EXCEPT !["SVC"] = e]
    BY <1>2 DEF Enter
  <2>2. SwitchRegs(regs, banked, mode, "SVC") \in [Reg -> Int]
    BY SwitchType DEF TypeOK, Mode
  <2>3. regs'[LR] = pc - Size
    BY <1>0, <1>2, <2>2 DEF cpu_handle_swi, SwiLink
  <2>4. NextInstr + Size = pc - Size /\ pc - Size \in Int
    BY <1>0, <1>2 DEF cpu_handle_swi, Executing, NextInstr
  <2>5. ~thumb => (pc - Size) % 4 = 0
    BY <1>0 DEF PcAligned, Size
  <2>6. e.resume \in Int /\ e.lr = e.resume /\ (~e.t => e.resume % 4 = 0)
    BY <2>3, <2>4, <2>5
  <2>. HIDE DEF e
  <2>7. entry'["SVC"] = e /\ entry'["IRQ"] = entry["IRQ"] /\ DOMAIN entry' = {"IRQ", "SVC"}
    BY <1>0, <2>1
  <2>. QED BY <2>6, <2>7 DEF EntryInv
<1>3. CASE UNCHANGED entry
  BY <1>3 DEF EntryInv
<1>. QED BY <1>1, <1>2, <1>3 DEF RNext, rvars

(* Where they are right at all, the handlers' returns are right for every  *)
(* program: MOVS PC, LR leads behind the SWI and SUBS PC, LR, #4 to the    *)
(* interrupted Thumb instruction, whatever exceptions, mode switches and   *)
(* register loads came between.                                            *)
THEOREM CpuReturnsResume == RSpec => AlignedReturnsResume
<1>1. RInit => EntryInv
  <2>. SUFFICES ASSUME RInit
                PROVE  EntryInv
    OBVIOUS
  <2>1. /\ DOMAIN entry = {"IRQ", "SVC"}
        /\ entry["IRQ"] = NoEntry /\ entry["SVC"] = NoEntry
    BY DEF RInit
  <2>. QED BY <2>1 DEF EntryInv, NoEntry
<1>2. \A x \in Int : x % 4 = 0 => Aligned(x, 4) = x
  BY DEF Aligned
<1>3. EntryInv =>
        ((/\ Returns("IRQ", 4)
          /\ entry["IRQ"].t /\ entry["IRQ"].full /\ entry["IRQ"].resume % 4 = 0)
         => pc' = entry["IRQ"].resume)
  <2>. SUFFICES ASSUME EntryInv, Returns("IRQ", 4), entry["IRQ"].t, entry["IRQ"].full,
                       entry["IRQ"].resume % 4 = 0
                PROVE  pc' = entry["IRQ"].resume
    OBVIOUS
  <2>1. pc' = Aligned(entry["IRQ"].lr - 4, 4)
    BY DEF Returns, ExceptionReturn
  <2>2. entry["IRQ"].resume \in Int /\ entry["IRQ"].lr - 4 = entry["IRQ"].resume
    BY DEF EntryInv
  <2>. QED BY <1>2, <2>1, <2>2
<1>4. EntryInv =>
        (Returns("SVC", 0) /\ (~entry["SVC"].t \/ entry["SVC"].resume % 4 = 0)
         => pc' = entry["SVC"].resume)
  <2>. SUFFICES ASSUME EntryInv, Returns("SVC", 0),
                       ~entry["SVC"].t \/ entry["SVC"].resume % 4 = 0
                PROVE  pc' = entry["SVC"].resume
    OBVIOUS
  <2>1. pc' = Aligned(entry["SVC"].lr - 0, 4)
    BY DEF Returns, ExceptionReturn
  <2>2. /\ entry["SVC"].resume \in Int /\ entry["SVC"].lr - 0 = entry["SVC"].resume
        /\ entry["SVC"].resume % 4 = 0
    BY DEF EntryInv
  <2>. QED BY <1>2, <2>1, <2>2
<1>. QED
  BY <1>1, <1>3, <1>4, ReturnTypes, StepEntryInv, PTL
     DEF RSpec, AlignedReturnsResume, ThumbIrqResumes, AlignedSwiResumes

-----------------------------------------------------------------------------
(* The arithmetic of the instruction set (Instructions).                   *)

(* Division of integers with remainder, and that there is only one.        *)
LEMMA DivMod ==
  ASSUME NEW n \in Nat, n > 0, NEW a \in Int
  PROVE  /\ a \div n \in Int /\ a % n \in Nat /\ a % n < n
         /\ a = n * (a \div n) + (a % n)
  OBVIOUS

(* Quotient and remainder are the only numbers of their kind.              *)
LEMMA OneQuotient ==
  ASSUME NEW n \in Nat, n > 0, NEW a \in Int, NEW q \in Int, NEW r \in Nat, r < n, a = n * q + r
  PROVE  a % n = r /\ a \div n = q
<1>. DEFINE p == a \div n
            s == a % n
<1>1. p \in Int /\ s \in Nat /\ s < n /\ a = n * p + s
  BY DivMod
<1>. HIDE DEF p, s
<1>2. ASSUME p < q PROVE FALSE
  <2>1. n * (p + 1) <= n * q
    BY <1>1, <1>2
  <2>. QED BY <1>1, <2>1
<1>3. ASSUME q < p PROVE FALSE
  <2>1. n * (q + 1) <= n * p
    BY <1>1, <1>3
  <2>. QED BY <1>1, <2>1
<1>4. p = q
  BY <1>1, <1>2, <1>3
<1>. QED BY <1>1, <1>4 DEF p, s

(* A register of WideBits bits is a digit; a pair of them is a number in   *)
(* base 2^WideBits.                                                        *)
Base == 2^WideBits
Top  == 2^(WideBits - 1)
Digit == 0 .. Base - 1
Unit(b) == IF b THEN 1 ELSE 0
Sign(a) == IF a >= Top THEN a - Base ELSE a

(* What the assumption on the widths says of these numbers.                *)
LEMMA Widths ==
  /\ Base \in Nat /\ Base > 0 /\ Top \in Nat /\ Top > 0 /\ Base = 2 * Top
  /\ Range2 = Base * Base /\ Range2 \div 2 = Top * Base /\ Range2 \in Nat /\ Range2 > 0
<1>1. /\ Base \in Nat /\ Base > 0 /\ Top \in Nat /\ Top > 0 /\ Base = 2 * Top
      /\ Range2 = Base * Base
  BY WidthAssumption DEF Base, Top, Range2
<1>2. Base * Base = 2 * (Top * Base)
  BY <1>1
<1>3. Top * Base \in Nat /\ Top * Base > 0
  BY <1>1
<1>4. \A k \in Nat : (2 * k) \div 2 = k
  OBVIOUS
<1>. QED BY <1>1, <1>2, <1>3, <1>4

(* The highest bit tells the upper half, and gives the signed value.       *)
LEMMA TopBit ==
  ASSUME NEW a \in Digit
  PROVE  /\ Wide!BIT(a, WideBits - 1) = (a >= Top)
         /\ Wide!Signed(a) = Sign(a)
<1>1. /\ Top \in Nat /\ Top > 0 /\ a \in Nat /\ a < 2 * Top
  BY Widths DEF Digit
<1>2. CASE a >= Top
  <2>1. a \div Top = 1
    BY <1>1, <1>2
  <2>. QED BY <1>2, <2>1 DEF Wide!BIT, Wide!Signed, Sign, Base, Top
<1>3. CASE ~(a >= Top)
  <2>1. a \div Top = 0
    BY <1>1, <1>3
  <2>. QED BY <1>3, <2>1 DEF Wide!BIT, Wide!Signed, Sign, Base, Top
<1>. QED BY <1>2, <1>3

(* s is the sum of two digits and a carry: the digit, the carry and the    *)
(* overflow.                                                               *)
Sums(s, a, b, k) ==
  /\ s.x \in Digit /\ s.c \in BOOLEAN /\ s.v \in BOOLEAN
  /\ s.x = a + b + k - Base * Unit(s.c)
  /\ s.v = ~(Sign(a) + Sign(b) + k \in -Top .. Top - 1)

(* A sum of two digits wraps at most once.                                 *)
LEMMA WrapIs ==
  ASSUME NEW s \in Nat, s < 2 * Base
  PROVE  Wide!Wrap(s) = IF s >= Base THEN s - Base ELSE s
<1>1. CASE s >= Base
  <2>1. s = Base * 1 + (s - Base) /\ s - Base \in Nat /\ s - Base < Base
    BY <1>1, Widths
  <2>2. s % Base = s - Base
    BY <2>1, Widths, OneQuotient
  <2>. QED BY <1>1, <2>2 DEF Wide!Wrap, Base
<1>2. CASE ~(s >= Base)
  <2>1. s = Base * 0 + s /\ s < Base
    BY <1>2, Widths
  <2>2. s % Base = s
    BY <2>1, Widths, OneQuotient
  <2>. QED BY <1>2, <2>2 DEF Wide!Wrap, Base
<1>. QED BY <1>1, <1>2

(* ADD and ADC add digits.                                                 *)
LEMMA AddDigits ==
  ASSUME NEW a \in Digit, NEW b \in Digit, NEW k \in {0, 1}
  PROVE  Sums(Wide!Add(a, b, k), a, b, k)
<1>. DEFINE s == a + b + k
            x == Wide!Wrap(s)
<1>1. s \in Nat /\ s < 2 * Base /\ a \in Nat /\ b \in Nat /\ k \in Nat
  BY Widths DEF Digit
<1>2. x = IF s >= Base THEN s - Base ELSE s
  BY <1>1, WrapIs
<1>3. x \in Digit
  BY <1>1, <1>2, Widths DEF Digit
<1>4. Wide!add_overflow(a, b, x) = ((a >= Top) # (x >= Top) /\ (b >= Top) # (x >= Top))
  BY <1>3, TopBit, Zenon DEF Wide!add_overflow
<1>5. /\ Wide!Add(a, b, k).x = x /\ Wide!Add(a, b, k).c = (s >= Base)
      /\ Wide!Add(a, b, k).v = Wide!add_overflow(a, b, x)
  BY DEF Wide!Add, Base
<1>6. ((a >= Top) # (x >= Top) /\ (b >= Top) # (x >= Top))
        = ~(Sign(a) + Sign(b) + k \in -Top .. Top - 1)
  <2>. HIDE DEF x
  <2>. QED BY <1>1, <1>2, <1>3, Widths DEF Sign, Digit
<1>. HIDE DEF x
<1>7. x = a + b + k - Base * Unit(s >= Base)
  BY <1>1, <1>2, Widths DEF Unit
<1>. QED BY <1>3, <1>4, <1>5, <1>6, <1>7 DEF Sums

(* s is the difference of two digits less a borrow, which is a carry of 0. *)
Differs(s, a, b, k) ==
  /\ s.x \in Digit /\ s.c \in BOOLEAN /\ s.v \in BOOLEAN
  /\ s.x = a - b - (1 - k) + Base * (1 - Unit(s.c))
  /\ s.v = ~(Sign(a) - Sign(b) - (1 - k) \in -Top .. Top - 1)

(* a + Not(b) + carry subtracts digits.                                    *)
LEMMA SubDigits ==
  ASSUME NEW a \in Digit, NEW b \in Digit, NEW k \in {0, 1}
  PROVE  Differs(Wide!Sub(a, b, k), a, b, k)
<1>. DEFINE s == a + Wide!Not(b) + k
            x == Wide!Wrap(s)
<1>0. s = a - b - (1 - k) + Base
  BY Widths DEF Wide!Not, Base, Digit
<1>1. s \in Nat /\ s < 2 * Base /\ a \in Nat /\ b \in Nat /\ k \in Nat
  BY <1>0, Widths DEF Digit
<1>2. x = IF s >= Base THEN s - Base ELSE s
  BY <1>1, WrapIs
<1>3. x \in Digit
  BY <1>1, <1>2, Widths DEF Digit
<1>4. Wide!sub_overflow(a, b, x) = ((a >= Top) # (b >= Top) /\ (a >= Top) # (x >= Top))
  BY <1>3, TopBit, Zenon DEF Wide!sub_overflow
<1>5. /\ Wide!Sub(a, b, k).x = x /\ Wide!Sub(a, b, k).c = (s >= Base)
      /\ Wide!Sub(a, b, k).v = Wide!sub_overflow(a, b, x)
  BY DEF Wide!Sub, Base
<1>. HIDE DEF x, s
<1>6. ((a >= Top) # (b >= Top) /\ (a >= Top) # (x >= Top))
        = ~(Sign(a) - Sign(b) - (1 - k) \in -Top .. Top - 1)
  BY <1>0, <1>1, <1>2, <1>3, Widths DEF Sign, Digit
<1>7. x = a - b - (1 - k) + Base * (1 - Unit(s >= Base))
  BY <1>0, <1>1, <1>2, Widths DEF Unit
<1>. QED BY <1>3, <1>4, <1>5, <1>6, <1>7 DEF Differs
-----------------------------------------------------------------------------
(* Processors of four registers; what a processor holds; and when its N    *)
(* and Z flags are those of a result.                                      *)
Cpus == [r : [0..3 -> Int], n : BOOLEAN, z : BOOLEAN, c : BOOLEAN, v : BOOLEAN,
         t : BOOLEAN, flush : BOOLEAN, mem : {<<>>}]
Holds(k, R, n, z, c, v) ==
  k \in Cpus /\ k.r = R /\ k.n = n /\ k.z = z /\ k.c = c /\ k.v = v
Flags(k, R, x, c, v) == Holds(k, R, Wide!BIT(x, WideBits - 1), x = 0, c, v)

(* set_nz_flags and set_cv together leave the registers alone.             *)
LEMMA FlagsSet ==
  ASSUME NEW m \in Cpus, NEW x \in Int, NEW c \in BOOLEAN, NEW v \in BOOLEAN
  PROVE  Flags(Wide!set_cv(Wide!set_nz_flags(m, x), c, v), m.r, x, c, v)
<1>. DEFINE k == Wide!set_nz_flags(m, x)
<1>1. Holds(k, m.r, Wide!BIT(x, WideBits - 1), x = 0, m.c, m.v)
  BY DEF Wide!set_nz_flags, Wide!BIT, Cpus, Holds
<1>. HIDE DEF k
<1>2. Flags(Wide!set_cv(k, c, v), k.r, x, c, v)
  BY <1>1 DEF Wide!set_cv, Cpus, Holds, Flags
<1>. QED BY <1>1, <1>2 DEF Holds, k

(* Writing a register leaves the flags alone.                              *)
LEMMA RegisterSet ==
  ASSUME NEW k \in Cpus, NEW d \in 0..3, NEW x \in Int, NEW y, NEW c, NEW v,
         Flags(k, k.r, y, c, v)
  PROVE  Flags([k EXCEPT !.r[d] = x], [k.r EXCEPT ![d] = x], y, c, v)
  BY DEF Cpus, Flags, Holds

(* One instruction of a program: arithmetic on Rd and Rs, a shift of Rd,   *)
(* and what either leaves behind.                                          *)
RunDp(m, op, d, s)      == Execute(m, Always(Dp(op, TRUE, d, d, RegOp(s))))
RunShift(m, d, ty, n)   == Execute(m, Always(Dp("MOV", TRUE, d, d, Shifted(d, ty, n))))
Leaves(k, m, d, x, c, v) == Flags(k, [m.r EXCEPT ![d] = x], x, c, v)
IsResult(a) == a.x \in Int /\ a.c \in BOOLEAN /\ a.v \in BOOLEAN

(* An arithmetic instruction writes its result to Rd and its flags.        *)
LEMMA DpArithmetic ==
  ASSUME NEW m \in Cpus, NEW d \in 0..3, NEW s \in 0..3,
         NEW op \in {"ADD", "ADC", "SUB", "SBC", "RSB", "RSC"},
         NEW a, a = Wide!Arithmetic(op, m.r[d], m.r[s], Unit(m.c)), IsResult(a)
  PROVE  Leaves(RunDp(m, op, d, s), m, d, a.x, a.c, a.v)
<1>0. a.x \in Int /\ a.c \in BOOLEAN /\ a.v \in BOOLEAN
  BY DEF IsResult
<1>. DEFINE i == Dp(op, TRUE, d, d, RegOp(s))
            k == Wide!set_cv(Wide!set_nz_flags(m, a.x), a.c, a.v)
<1>1. Wide!decode_dp_operand2(m, i.op2).v = m.r[s]
  BY DEF Wide!decode_dp_operand2, Dp, RegOp, Wide!barrel_shift, Wide!ShiftByImmediate
<1>2. op \notin Wide!LogicalOps /\ op \notin Wide!TestOps /\ d # Wide!PC
  BY DEF Wide!LogicalOps, Wide!TestOps, Wide!PC
<1>3. i.opcode = op /\ i.s = TRUE /\ i.rd = d /\ i.rn = d /\ i.op2.kind = "reg" /\ i.kind = "dp"
  BY DEF Dp, RegOp
<1>4. Execute(m, Always(i)) = Wide!arm_data_processing(m, i)
  BY <1>3 DEF Execute, Always, Wide!cpu_condition_passed
<1>5. Flags(k, m.r, a.x, a.c, a.v)
  BY <1>0, FlagsSet
<1>. HIDE DEF i
<1>6. Wide!arm_data_processing(m, i) = [k EXCEPT !.r[d] = a.x]
  BY <1>1, <1>2, <1>3, Zenon DEF Wide!arm_data_processing, Unit
<1>. HIDE DEF k
<1>7. k \in Cpus /\ k.r = m.r
  BY <1>5 DEF Flags, Holds
<1>8. Flags([k EXCEPT !.r[d] = a.x], [m.r EXCEPT ![d] = a.x], a.x, a.c, a.v)
  BY <1>0, <1>5, <1>7, RegisterSet
<1>. QED BY <1>4, <1>6, <1>8 DEF i, RunDp, Leaves

(* CMP only sets flags.                                                    *)
LEMMA DpCompare ==
  ASSUME NEW m \in Cpus, NEW d \in 0..3, NEW s \in 0..3,
         NEW a, a = Wide!Sub(m.r[d], m.r[s], 1), a.x \in Int, a.c \in BOOLEAN, a.v \in BOOLEAN
  PROVE  Flags(Wide!arm_data_processing(m, Dp("CMP", TRUE, d, d, RegOp(s))), m.r, a.x, a.c, a.v)
<1>. DEFINE i == Dp("CMP", TRUE, d, d, RegOp(s))
            k == Wide!set_cv(Wide!set_nz_flags(m, a.x), a.c, a.v)
<1>1. Wide!decode_dp_operand2(m, i.op2).v = m.r[s]
  BY DEF Wide!decode_dp_operand2, Dp, RegOp, Wide!barrel_shift, Wide!ShiftByImmediate
<1>2. "CMP" \notin Wide!LogicalOps /\ "CMP" \in Wide!TestOps /\ d # Wide!PC
  BY DEF Wide!LogicalOps, Wide!TestOps, Wide!PC
<1>3. i.opcode = "CMP" /\ i.s = TRUE /\ i.rd = d /\ i.rn = d /\ i.op2.kind = "reg"
  BY DEF Dp, RegOp
<1>4. Wide!Arithmetic("CMP", m.r[d], m.r[s], Unit(m.c)) = a
  BY DEF Wide!Arithmetic
<1>5. Flags(k, m.r, a.x, a.c, a.v)
  BY FlagsSet
<1>. HIDE DEF i
<1>6. Wide!arm_data_processing(m, i) = k
  BY <1>1, <1>2, <1>3, <1>4, Zenon DEF Wide!arm_data_processing, Unit
<1>. QED BY <1>5, <1>6 DEF i

(* After such an instruction. *)
LEMMA AfterLeaves ==
  ASSUME NEW m \in Cpus, m.r \in [0..3 -> Digit], NEW d \in 0..3, NEW x \in Digit,
         NEW k, NEW c, NEW v, Leaves(k, m, d, x, c, v)
  PROVE  /\ k \in Cpus /\ k.r \in [0..3 -> Digit] /\ k.r[d] = x
         /\ \A i \in 0..3 : i # d => k.r[i] = m.r[i]
         /\ k.n = (x >= Top) /\ k.z = (x = 0) /\ k.c = c /\ k.v = v
<1>1. k \in Cpus /\ k.r = [m.r EXCEPT ![d] = x] /\ k.n = Wide!BIT(x, WideBits - 1)
  BY DEF Leaves, Flags, Holds
<1>2. k.z = (x = 0) /\ k.c = c /\ k.v = v
  BY DEF Leaves, Flags, Holds
<1>3. k.n = (x >= Top)
  BY <1>1, TopBit
<1>. QED BY <1>1, <1>2, <1>3

(* A MOV of a shifted register takes its carry from the shifter and keeps  *)
(* V.                                                                      *)
LEMMA DpMove ==
  ASSUME NEW m \in Cpus, NEW d \in 0..3, NEW ty, NEW n,
         NEW y, y = Wide!ShiftByImmediate(m.r[d], ty, n, m.c), y.v \in Int, y.c \in BOOLEAN
  PROVE  Leaves(RunShift(m, d, ty, n), m, d, y.v, y.c, m.v)
<1>. DEFINE i == Dp("MOV", TRUE, d, d, Shifted(d, ty, n))
            k == Wide!set_cv(Wide!set_nz_flags(m, y.v), y.c, m.v)
<1>1. Wide!decode_dp_operand2(m, i.op2) = y
  BY DEF Wide!decode_dp_operand2, Dp, Shifted, Wide!barrel_shift
<1>2. "MOV" \in Wide!LogicalOps /\ "MOV" \notin Wide!TestOps /\ d # Wide!PC
  BY DEF Wide!LogicalOps, Wide!TestOps, Wide!PC
<1>3. i.opcode = "MOV" /\ i.s = TRUE /\ i.rd = d /\ i.rn = d /\ i.op2.kind = "reg"
        /\ i.kind = "dp"
  BY DEF Dp, Shifted
<1>4. Execute(m, Always(i)) = Wide!arm_data_processing(m, i)
  BY <1>3 DEF Execute, Always, Wide!cpu_condition_passed
<1>5. Flags(k, m.r, y.v, y.c, m.v)
  BY FlagsSet DEF Cpus
<1>6. \A b : Wide!Logical("MOV", b, y.v) = y.v
  BY DEF Wide!Logical
<1>. HIDE DEF i
<1>7. Wide!arm_data_processing(m, i) = [k EXCEPT !.r[d] = y.v]
  BY <1>1, <1>2, <1>3, <1>6, Zenon DEF Wide!arm_data_processing
<1>. HIDE DEF k
<1>8. k \in Cpus /\ k.r = m.r
  BY <1>5 DEF Flags, Holds
<1>9. Flags([k EXCEPT !.r[d] = y.v], [m.r EXCEPT ![d] = y.v], y.v, y.c, m.v)
  BY <1>5, <1>8, RegisterSet
<1>. QED BY <1>4, <1>7, <1>9 DEF i, RunShift, Leaves

(* The number a long multiplication computes, before it is cut to two      *)
(* registers.                                                              *)
Product(m, signed, acc) ==
  LET a == IF acc THEN m.r[3] ELSE m.r[0]
  IN  (IF signed THEN Wide!Signed(a) * Wide!Signed(m.r[2]) ELSE a * m.r[2])
      + (IF acc THEN m.r[1] * Base + m.r[0] ELSE 0)

(* A long multiplication leaves that number in R1:R0 and keeps C and V.    *)
LEMMA LongMultiply ==
  ASSUME NEW m \in Cpus, NEW signed \in BOOLEAN, NEW acc \in BOOLEAN,
         NEW x, x = Product(m, signed, acc) % Range2, x \in Int
  PROVE  Holds(Execute(m, Always(Long(signed, acc))),
               [m.r EXCEPT ![0] = x % Base, ![1] = x \div Base],
               Wide!BIT(x, 2 * WideBits - 1), x = 0, m.c, m.v)
<1>. DEFINE i == Long(signed, acc)
            R == [m.r EXCEPT ![0] = x % Base, ![1] = x \div Base]
            k == [m EXCEPT !.r = R]
<1>1. /\ i.kind = "long" /\ i.signed = signed /\ i.accumulate = acc /\ i.s = TRUE
           /\ i.hi = 1 /\ i.lo = 0
      /\ i.rm = (IF acc THEN 3 ELSE 0) /\ i.rs = 2
  BY DEF Long
<1>2. Execute(m, Always(i)) = Wide!arm_multiply_long(m, i)
  BY <1>1 DEF Execute, Always, Wide!cpu_condition_passed
<1>3. R \in [0..3 -> Int]
  BY Widths DEF Cpus
<1>. HIDE DEF R
<1>4. Holds(k, R, m.n, m.z, m.c, m.v)
  BY <1>3 DEF Cpus, Holds
<1>. HIDE DEF k
<1>5. Holds([k EXCEPT !.n = Wide!BIT(x, 2 * WideBits - 1), !.z = (x = 0)], R,
            Wide!BIT(x, 2 * WideBits - 1), x = 0, m.c, m.v)
  BY <1>4 DEF Cpus, Holds, Wide!BIT
<1>. HIDE DEF i
<1>6. Wide!arm_multiply_long(m, i)
        = [k EXCEPT !.n = Wide!BIT(x, 2 * WideBits - 1), !.z = (x = 0)]
  BY <1>1, Zenon DEF Wide!arm_multiply_long, k, R, Product, Base, Range2
<1>. QED BY <1>2, <1>5, <1>6 DEF i, R

-----------------------------------------------------------------------------
(* Numbers of two digits: each has one pair of digits, ...                 *)
LEMMA Split ==
  ASSUME NEW x \in 0 .. Range2 - 1
  PROVE  /\ x \div Base \in Digit /\ x % Base \in Digit
         /\ x = (x \div Base) * Base + (x % Base)
<1>. DEFINE q == x \div Base
            r == x % Base
<1>1. x \in Int /\ x >= 0 /\ x < Base * Base
  BY Widths
<1>2. q \in Int /\ r \in Nat /\ r < Base /\ x = Base * q + r
  BY <1>1, Widths, DivMod
<1>. HIDE DEF q, r
<1>3. q < Base
  <2>. SUFFICES ASSUME q >= Base PROVE FALSE
    BY <1>2, Widths
  <2>1. Base * q >= Base * Base
    BY <1>2, Widths
  <2>. QED BY <1>1, <1>2, <2>1, Widths
<1>4. q >= 0
  <2>. SUFFICES ASSUME q <= -1 PROVE FALSE
    BY <1>2
  <2>1. Base * q <= Base * (-1)
    BY <1>2, Widths
  <2>. QED BY <1>1, <1>2, <2>1, Widths
<1>5. Base * q = q * Base
  BY <1>2, Widths
<1>. QED BY <1>2, <1>3, <1>4, <1>5, Widths DEF q, r, Digit

(* ... is ordered by the higher digit first, ...                           *)
LEMMA PairLess ==
  ASSUME NEW d \in Int, NEW e \in Int, NEW l \in Digit, NEW k \in Digit
  PROVE  (d * Base + l >= e * Base + k) <=> (d > e \/ (d = e /\ l >= k))
<1>1. /\ l \in Nat /\ l < Base /\ k \in Nat /\ k < Base /\ Base \in Nat
      /\ d * Base \in Int /\ e * Base \in Int
  BY Widths DEF Digit
<1>2. CASE d > e
  <2>1. (e + 1) * Base <= d * Base /\ (e + 1) * Base = e * Base + Base
    BY <1>2, Widths
  <2>. QED BY <1>1, <1>2, <2>1
<1>3. CASE d < e
  <2>1. (d + 1) * Base <= e * Base /\ (d + 1) * Base = d * Base + Base
    BY <1>3, Widths
  <2>. QED BY <1>1, <1>3, <2>1
<1>4. CASE d = e
  BY <1>1, <1>4
<1>. QED BY <1>2, <1>3, <1>4

(* ... and lies below Range2.                                              *)
LEMMA PairRange ==
  ASSUME NEW h \in Digit, NEW l \in Digit
  PROVE  h * Base + l \in 0 .. Range2 - 1
<1>1. h \in Int /\ 0 \in Digit /\ h * Base + l \in Int
  BY Widths DEF Digit
<1>2. h * Base + l >= 0 * Base + 0
  BY <1>1, PairLess, Widths DEF Digit
<1>3. ~(h * Base + l >= Base * Base + 0)
  BY <1>1, PairLess, Widths DEF Digit
<1>. QED BY <1>1, <1>2, <1>3, Widths

(* z is the pair h, l up to multiples of Range2.                           *)
Joins(z, h, l, e) == z = h * Base + l + e * (Base * Base)

(* Two digits that are right up to such multiples are the remainder.       *)
LEMMA Join ==
  ASSUME NEW h \in Digit, NEW l \in Digit, NEW e \in Int, NEW z \in Int, Joins(z, h, l, e)
  PROVE  z % Range2 = h * Base + l
<1>. DEFINE r == h * Base + l
<1>1. r \in 0 .. Range2 - 1
  BY PairRange
<1>2. z = Range2 * e + r
  BY <1>1, Widths DEF Joins
<1>. HIDE DEF r
<1>3. r \in Nat /\ r < Range2
  BY <1>1, Widths
<1>4. z % Range2 = r
  BY <1>2, <1>3, Widths, OneQuotient
<1>. QED BY <1>4 DEF r

(* Whether a number fits as a signed pair is a question for its higher     *)
(* digit, ...                                                              *)
LEMMA PairFits ==
  ASSUME NEW d \in Int, NEW l \in Digit
  PROVE  Fits2(d * Base + l) <=> d \in -Top .. Top - 1
<1>1. 0 \in Digit /\ l \in Nat /\ l >= 0 /\ d * Base \in Int /\ Top \in Int /\ -Top \in Int
  BY Widths DEF Digit
<1>2. (d * Base + l >= (-Top) * Base + 0) <=> d >= -Top
  BY <1>1, PairLess
<1>3. (d * Base + l >= Top * Base + 0) <=> d >= Top
  BY <1>1, PairLess
<1>4. (-Top) * Base = -(Top * Base) /\ Top * Base \in Nat
  BY Widths
<1>. QED BY <1>1, <1>2, <1>3, <1>4, Widths DEF Fits2

(* ... and so are its sign and its signed value.                           *)
LEMMA PairSign ==
  ASSUME NEW h \in Digit, NEW l \in Digit
  PROVE  /\ (h * Base + l >= Range2 \div 2) <=> (h >= Top)
         /\ Neg2(h * Base + l) = Sign(h) * Base + l
         /\ Sign(h) \in -Top .. Top - 1
<1>1. 0 \in Digit /\ l \in Nat /\ h \in Int /\ h * Base \in Int /\ Top \in Int
        /\ Top * Base \in Int
  BY Widths DEF Digit
<1>2. (h * Base + l >= Top * Base + 0) <=> h >= Top
  BY <1>1, PairLess
<1>3. (h - Base) * Base = h * Base - Base * Base /\ (h - Base) * Base \in Int
        /\ Base * Base \in Int
  BY <1>1, Widths
<1>4. (h * Base + l >= Range2 \div 2) <=> (h >= Top)
  BY <1>1, <1>2, Widths
<1>5. Neg2(h * Base + l) = Sign(h) * Base + l
  BY <1>1, <1>3, <1>4, Widths DEF Neg2, Sign
<1>. QED BY <1>4, <1>5, Widths DEF Sign, Digit

-----------------------------------------------------------------------------
(* Before the first instruction: x is in R1:R0 and y in R3:R2.             *)
LoadedPair(m, x, y) ==
  /\ m \in Cpus /\ m.r \in [0..3 -> Digit]
  /\ x \in 0 .. Range2 - 1 /\ y \in 0 .. Range2 - 1
  /\ x = m.r[1] * Base + m.r[0] /\ y = m.r[3] * Base + m.r[2]
  /\ m.r[0] = x % Base /\ m.r[2] = y % Base /\ m.r[3] = y \div Base

(* The same, register by register.                                         *)
LEMMA LoadedDigits ==
  ASSUME NEW x, NEW y, NEW m, LoadedPair(m, x, y)
  PROVE  /\ m \in Cpus /\ m.r[0] \in Digit /\ m.r[1] \in Digit /\ m.r[2] \in Digit
              /\ m.r[3] \in Digit
         /\ x = m.r[1] * Base + m.r[0] /\ y = m.r[3] * Base + m.r[2]
         /\ x \in Int /\ y \in Int /\ 0 \in 0..3 /\ 1 \in 0..3 /\ 2 \in 0..3 /\ 3 \in 0..3
<1>1. m.r \in [0..3 -> Digit]
  BY DEF LoadedPair
<1>2. m.r[0] \in Digit /\ m.r[1] \in Digit /\ m.r[2] \in Digit /\ m.r[3] \in Digit
  BY <1>1
<1>3. m \in Cpus /\ x = m.r[1] * Base + m.r[0] /\ y = m.r[3] * Base + m.r[2]
  BY DEF LoadedPair
<1>4. x \in Int /\ y \in Int
  BY Widths DEF LoadedPair
<1>. QED BY <1>2, <1>3, <1>4

(* The machine a program starts on is such a machine.                      *)
LEMMA StartLoaded ==
  ASSUME NEW x \in 0 .. Range2 - 1, NEW y \in 0 .. Range2 - 1, NEW c \in BOOLEAN
  PROVE  LoadedPair(Machine(Operands(x, y), FALSE, FALSE, c, FALSE), x, y)
<1>. DEFINE R == Operands(x, y)
<1>1. /\ x \div Base \in Digit /\ x % Base \in Digit /\ x = (x \div Base) * Base + (x % Base)
      /\ y \div Base \in Digit /\ y % Base \in Digit /\ y = (y \div Base) * Base + (y % Base)
  BY Split
<1>2. /\ R = [i \in 0..3 |-> R[i]]
      /\ R[0] = x % Base /\ R[1] = x \div Base /\ R[2] = y % Base /\ R[3] = y \div Base
  BY DEF Operands, Base
<1>. HIDE DEF R
<1>3. R \in [0..3 -> Digit]
  <2>1. \A i \in 0..3 : R[i] \in Digit
    BY <1>1, <1>2
  <2>. QED BY <1>2, <2>1
<1>4. R \in [0..3 -> Int]
  BY <1>3, Widths DEF Digit
<1>5. Machine(R, FALSE, FALSE, c, FALSE) \in Cpus /\ Machine(R, FALSE, FALSE, c, FALSE).r = R
  BY <1>4 DEF Machine, Cpus
<1>. QED BY <1>1, <1>2, <1>3, <1>5 DEF LoadedPair, R

(* Two instructions, the second of which reads the carry of the first.     *)
(* After two instructions: their results are in R0 and R1, the flags are   *)
(* those of the second.                                                    *)
PairLeft(k, s, u) == /\ k.r[0] = s.x /\ k.r[1] = u.x
                     /\ k.n \in BOOLEAN /\ k.v \in BOOLEAN
                     /\ (k.n <=> u.x >= Top) /\ k.c = u.c /\ k.v = u.v
IsDigit(s) == s.x \in Digit /\ s.c \in BOOLEAN /\ s.v \in BOOLEAN

(* The second instruction uses the carry of the first, on registers the    *)
(* first did not touch.                                                    *)
LEMMA TwoSteps ==
  ASSUME NEW m \in Cpus, m.r \in [0..3 -> Digit], NEW a \in {0, 2}, NEW b \in {1, 3},
         NEW op1 \in {"ADD", "SUB", "RSB"}, NEW op2 \in {"ADC", "SBC", "RSC"},
         NEW s, IsDigit(s), s = Wide!Arithmetic(op1, m.r[0], m.r[a], Unit(m.c)),
         NEW u, IsDigit(u), u = Wide!Arithmetic(op2, m.r[1], m.r[b], Unit(s.c))
  PROVE  PairLeft(RunDp(RunDp(m, op1, 0, a), op2, 1, b), s, u)
<1>. DEFINE m1 == RunDp(m, op1, 0, a)
            k  == RunDp(m1, op2, 1, b)
<1>0. a \in 0..3 /\ b \in 0..3 /\ b # 0 /\ 0 \in 0..3 /\ 1 \in 0..3
  OBVIOUS
<1>1. IsResult(s) /\ s.x \in Digit /\ IsResult(u) /\ u.x \in Digit
  BY Widths DEF Digit, IsResult, IsDigit
<1>2. Leaves(m1, m, 0, s.x, s.c, s.v)
  BY <1>0, <1>1, DpArithmetic
<1>. HIDE DEF m1
<1>3. m1 \in Cpus /\ m1.r \in [0..3 -> Digit] /\ m1.r[0] = s.x /\ m1.c = s.c
  BY <1>0, <1>1, <1>2, AfterLeaves
<1>4. m1.r[1] = m.r[1] /\ m1.r[b] = m.r[b]
  BY <1>0, <1>1, <1>2, AfterLeaves
<1>5. u = Wide!Arithmetic(op2, m1.r[1], m1.r[b], Unit(m1.c))
  BY <1>3, <1>4
<1>6. Leaves(k, m1, 1, u.x, u.c, u.v)
  BY <1>0, <1>1, <1>3, <1>5, DpArithmetic
<1>. HIDE DEF k
<1>7. /\ k \in Cpus /\ k.r[0] = m1.r[0] /\ k.r[1] = u.x
      /\ k.n = (u.x >= Top) /\ k.c = u.c /\ k.v = u.v
  <2>1. u.x \in Digit /\ 1 \in 0..3 /\ m1 \in Cpus /\ m1.r \in [0..3 -> Digit]
    BY <1>0, <1>1, <1>3
  <2>2. /\ k \in Cpus /\ k.r[1] = u.x /\ \A i \in 0..3 : i # 1 => k.r[i] = m1.r[i]
        /\ k.n = (u.x >= Top) /\ k.c = u.c /\ k.v = u.v
    BY <1>6, <2>1, AfterLeaves
  <2>3. k.r[0] = m1.r[0]
    BY <2>2
  <2>. QED BY <2>2, <2>3
<1>8. PairLeft(k, s, u)
  BY <1>3, <1>7 DEF PairLeft, Cpus
<1>. QED BY <1>8 DEF k, m1

(* Numbers of two digits, added and subtracted from the lower digit up.    *)
LEMMA SumOfPairs ==
  ASSUME NEW x1 \in Digit, NEW x0 \in Digit, NEW y1 \in Digit, NEW y0 \in Digit,
         NEW s, NEW u, Sums(s, x0, y0, 0), Sums(u, x1, y1, Unit(s.c)),
         NEW x, x = x1 * Base + x0, NEW y, y = y1 * Base + y0
  PROVE  /\ (x + y) % Range2 = u.x * Base + s.x
         /\ u.c = (x + y >= Range2)
         /\ u.v = ~Fits2(Neg2(x) + Neg2(y))
         /\ (u.x >= Top) <=> ((x + y) % Range2 >= Range2 \div 2)
<1>. DEFINE k == Unit(s.c)
            e == Unit(u.c)
            h == u.x
            l == s.x
<1>1. /\ k \in {0, 1} /\ e \in {0, 1} /\ h \in Digit /\ l \in Digit /\ u.c \in BOOLEAN
      /\ l = x0 + y0 - Base * k /\ h = x1 + y1 + k - Base * e /\ (u.c <=> e = 1)
      /\ u.v = ~(Sign(x1) + Sign(y1) + k \in -Top .. Top - 1)
  BY Widths DEF Sums, Unit, Digit
<1>. HIDE DEF k, e, h, l
<1>2. /\ x1 \in Int /\ x0 \in Int /\ y1 \in Int /\ y0 \in Int /\ h \in Int /\ l \in Int
      /\ k \in Int /\ e \in Int /\ Base \in Int /\ Top \in Int
  BY <1>1, Widths DEF Digit
<1>3. x + y = h * Base + l + e * (Base * Base)
  <2>1. h * Base = x1 * Base + y1 * Base + k * Base - e * (Base * Base)
    BY <1>1, <1>2
  <2>2. k * Base = Base * k
    BY <1>2
  <2>. QED BY <1>1, <1>2, <2>1, <2>2
<1>4. h * Base + l \in Int /\ e * (Base * Base) \in Int /\ x + y \in Int /\ Base * Base \in Int
  BY <1>2
<1>5. (x + y) % Range2 = h * Base + l
  <2>. DEFINE z == x + y
              f == e
  <2>1. Joins(z, h, l, f) /\ z \in Int /\ f \in Int /\ h \in Digit /\ l \in Digit
    BY <1>1, <1>2, <1>3, <1>4 DEF Joins
  <2>. HIDE DEF z, f
  <2>2. z % Range2 = h * Base + l
    BY <2>1, Join
  <2>. QED BY <2>2 DEF z
<1>6. u.c = (x + y >= Range2)
  <2>1. h * Base + l \in 0 .. Range2 - 1
    BY <1>1, PairRange
  <2>. QED BY <1>1, <1>3, <1>4, <2>1, Widths
<1>7. Neg2(x) + Neg2(y) = (Sign(x1) + Sign(y1) + k) * Base + l
  <2>1. /\ Neg2(x) = Sign(x1) * Base + x0 /\ Neg2(y) = Sign(y1) * Base + y0
        /\ Sign(x1) \in Int /\ Sign(y1) \in Int
    BY PairSign, Widths
  <2>2. (Sign(x1) + Sign(y1) + k) * Base = Sign(x1) * Base + Sign(y1) * Base + Base * k
    BY <1>2, <2>1
  <2>. QED BY <1>1, <1>2, <2>1, <2>2
<1>8. u.v = ~Fits2(Neg2(x) + Neg2(y))
  <2>1. Sign(x1) + Sign(y1) + k \in Int
    BY <1>2 DEF Sign
  <2>2. Fits2((Sign(x1) + Sign(y1) + k) * Base + l)
          <=> (Sign(x1) + Sign(y1) + k \in -Top .. Top - 1)
    BY <1>1, <2>1, PairFits
  <2>3. Fits2(Neg2(x) + Neg2(y)) \in BOOLEAN
    BY DEF Fits2
  <2>. QED BY <1>1, <1>7, <2>2, <2>3
<1>9. (h >= Top) <=> (h * Base + l >= Range2 \div 2)
  BY <1>1, PairSign
<1>. QED BY <1>5, <1>6, <1>8, <1>9 DEF h, l

(* The same for differences; N = V then tells the signed order.            *)
LEMMA DifferenceOfPairs ==
  ASSUME NEW x1 \in Digit, NEW x0 \in Digit, NEW y1 \in Digit, NEW y0 \in Digit,
         NEW s, NEW u, Differs(s, x0, y0, 1), Differs(u, x1, y1, Unit(s.c)),
         NEW x, x = x1 * Base + x0, NEW y, y = y1 * Base + y0
  PROVE  /\ (x - y) % Range2 = u.x * Base + s.x
         /\ u.c = (x >= y)
         /\ u.v = ~Fits2(Neg2(x) - Neg2(y))
         /\ (u.x >= Top) <=> ((x - y) % Range2 >= Range2 \div 2)
         /\ ((u.x >= Top) <=> u.v) <=> (Neg2(x) >= Neg2(y))
<1>. DEFINE k == 1 - Unit(s.c)
            e == 1 - Unit(u.c)
            h == u.x
            l == s.x
            d == Sign(x1) - Sign(y1) - k
<1>1. /\ k \in {0, 1} /\ e \in {0, 1} /\ h \in Digit /\ l \in Digit /\ u.c \in BOOLEAN
      /\ l = x0 - y0 + Base * k /\ h = x1 - y1 - k + Base * e /\ (u.c <=> e = 0)
      /\ u.v = ~(d \in -Top .. Top - 1)
  BY Widths DEF Differs, Unit, Digit
<1>. HIDE DEF k, e, h, l
<1>2. /\ x1 \in Int /\ x0 \in Int /\ y1 \in Int /\ y0 \in Int /\ h \in Int /\ l \in Int
      /\ k \in Int /\ e \in Int /\ Base \in Int /\ Top \in Int /\ d \in Int
      /\ Sign(x1) \in Int /\ Sign(y1) \in Int
  BY <1>1, Widths DEF Digit, Sign
<1>3. x - y = h * Base + l + (-e) * (Base * Base)
  <2>1. h * Base = x1 * Base - y1 * Base - Base * k + e * (Base * Base)
    BY <1>1, <1>2
  <2>. QED BY <1>1, <1>2, <2>1
<1>4. h * Base + l \in Int /\ e * (Base * Base) \in Int /\ x - y \in Int /\ Base * Base \in Int
  BY <1>2
<1>5. (x - y) % Range2 = h * Base + l
  <2>. DEFINE z == x - y
              f == -e
  <2>1. Joins(z, h, l, f) /\ z \in Int /\ f \in Int /\ h \in Digit /\ l \in Digit
    BY <1>1, <1>2, <1>3, <1>4 DEF Joins
  <2>. HIDE DEF z, f
  <2>2. z % Range2 = h * Base + l
    BY <2>1, Join
  <2>. QED BY <2>2 DEF z
<1>6. u.c = (x >= y)
  <2>1. h * Base + l \in 0 .. Range2 - 1
    BY <1>1, PairRange
  <2>2. x \in Int /\ y \in Int
    BY <1>2
  <2>. QED BY <1>1, <1>3, <1>4, <2>1, <2>2, Widths
<1>7. Neg2(x) - Neg2(y) = d * Base + l /\ Neg2(x) \in Int /\ Neg2(y) \in Int
  <2>1. Neg2(x) = Sign(x1) * Base + x0 /\ Neg2(y) = Sign(y1) * Base + y0
    BY PairSign
  <2>2. (Sign(x1) - Sign(y1) - k) * Base = Sign(x1) * Base - Sign(y1) * Base - Base * k
    BY <1>2
  <2>. QED BY <1>1, <1>2, <2>1, <2>2
<1>8. u.v = ~Fits2(Neg2(x) - Neg2(y))
  <2>1. Fits2(d * Base + l) <=> (d \in -Top .. Top - 1)
    BY <1>1, <1>2, PairFits
  <2>2. Fits2(Neg2(x) - Neg2(y)) \in BOOLEAN
    BY DEF Fits2
  <2>. QED BY <1>1, <1>7, <2>1, <2>2
<1>9. (h >= Top) <=> (h * Base + l >= Range2 \div 2)
  BY <1>1, PairSign
<1>10. (Neg2(x) >= Neg2(y)) <=> d >= 0
  <2>1. 0 \in Digit
    BY Widths DEF Digit
  <2>2. (d * Base + l >= 0 * Base + 0) <=> (d > 0 \/ (d = 0 /\ l >= 0))
    BY <1>1, <1>2, <2>1, PairLess
  <2>3. l >= 0 /\ d * Base \in Int
    BY <1>1, <1>2, Widths DEF Digit
  <2>. QED BY <1>2, <1>7, <2>2, <2>3
<1>11. ((h >= Top) <=> u.v) <=> d >= 0
  <2>. HIDE DEF d
  <2>1. u.v <=> (d < -Top \/ d > Top - 1)
    <3>1. u.v = ~(d \in -Top .. Top - 1) /\ d \in Int /\ Top \in Int
      BY <1>1, <1>2
    <3>2. (d \in -Top .. Top - 1) <=> ~(d < -Top \/ d > Top - 1)
      BY <3>1
    <3>. QED BY <3>1, <3>2
  <2>2. \E i \in {-2, -1, 0, 1, 2} : h = d + Base * i
    BY <1>1, <1>2, Widths DEF Sign, Digit, d
  <2>3. d >= -Base /\ d < Base
    BY <1>1, <1>2, Widths DEF Sign, Digit, d
  <2>. QED BY <1>1, <1>2, <2>1, <2>2, <2>3, Widths DEF Digit
<1>. QED BY <1>5, <1>6, <1>8, <1>9, <1>10, <1>11 DEF h, l

-----------------------------------------------------------------------------
(* What the conditions read.                                               *)
LEMMA Conditions ==
  ASSUME NEW k
  PROVE  /\ Wide!cpu_condition_passed(k, "EQ") <=> k.z
         /\ Wide!cpu_condition_passed(k, "NE") <=> ~k.z
         /\ Wide!cpu_condition_passed(k, "CS") <=> k.c
         /\ Wide!cpu_condition_passed(k, "CC") <=> ~k.c
         /\ Wide!cpu_condition_passed(k, "MI") <=> k.n
         /\ Wide!cpu_condition_passed(k, "PL") <=> ~k.n
         /\ Wide!cpu_condition_passed(k, "VS") <=> k.v
         /\ Wide!cpu_condition_passed(k, "HI") <=> (k.c /\ ~k.z)
         /\ Wide!cpu_condition_passed(k, "LS") <=> (~k.c \/ k.z)
         /\ Wide!cpu_condition_passed(k, "GE") <=> (k.n = k.v)
         /\ Wide!cpu_condition_passed(k, "LT") <=> (k.n # k.v)
         /\ Wide!cpu_condition_passed(k, "GT") <=> (~k.z /\ (k.n = k.v))
         /\ Wide!cpu_condition_passed(k, "LE") <=> (k.z \/ (k.n # k.v))
         /\ Wide!cpu_condition_passed(k, "AL") <=> TRUE
  BY DEF Wide!cpu_condition_passed

(* A machine that holds what a program has to compute.                     *)
Computes(k, res) ==
  /\ k.r[1] * Base + k.r[0] = res.value
  /\ \A c \in DOMAIN res.holds : Wide!cpu_condition_passed(k, c) <=> res.holds[c]

(* ADDS and ADCS add pairs.                                                *)
LEMMA AddProgram ==
  ASSUME NEW x, NEW y, NEW m, LoadedPair(m, x, y)
  PROVE  Computes(RunDp(RunDp(m, "ADD", 0, 2), "ADC", 1, 3), Result("add", x, y))
<1>. DEFINE k == RunDp(RunDp(m, "ADD", 0, 2), "ADC", 1, 3)
            s == Wide!Add(m.r[0], m.r[2], 0)
            u == Wide!Add(m.r[1], m.r[3], Unit(s.c))
            res == Result("add", x, y)
<1>1. m \in Cpus /\ m.r \in [0..3 -> Digit] /\ x = m.r[1] * Base + m.r[0]
        /\ y = m.r[3] * Base + m.r[2]
  BY DEF LoadedPair
<1>2. m.r[0] \in Digit /\ m.r[1] \in Digit /\ m.r[2] \in Digit /\ m.r[3] \in Digit
  BY <1>1
<1>3. Sums(s, m.r[0], m.r[2], 0)
  BY <1>2, AddDigits
<1>4. Sums(u, m.r[1], m.r[3], Unit(s.c))
  BY <1>2, AddDigits DEF Unit
<1>5. /\ s = Wide!Arithmetic("ADD", m.r[0], m.r[2], Unit(m.c))
      /\ u = Wide!Arithmetic("ADC", m.r[1], m.r[3], Unit(s.c))
  BY DEF Wide!Arithmetic
<1>. HIDE DEF s, u
<1>6. IsDigit(s) /\ IsDigit(u)
  BY <1>3, <1>4 DEF Sums, IsDigit
<1>7. PairLeft(k, s, u)
  BY <1>1, <1>5, <1>6, TwoSteps
<1>8. /\ (x + y) % Range2 = u.x * Base + s.x
      /\ u.c = (x + y >= Range2)
      /\ u.v = ~Fits2(Neg2(x) + Neg2(y))
      /\ (u.x >= Top) <=> ((x + y) % Range2 >= Range2 \div 2)
  BY <1>1, <1>2, <1>3, <1>4, SumOfPairs
<1>9. /\ res.value = (x + y) % Range2
      /\ DOMAIN res.holds = {"CS", "VS", "PL"}
      /\ res.holds["CS"] <=> (x + y >= Range2)
      /\ res.holds["VS"] <=> ~Fits2(Neg2(x) + Neg2(y))
      /\ res.holds["PL"] <=> ((x + y) % Range2 < Range2 \div 2)
  BY DEF Result
<1>. HIDE DEF k, res
<1>10. Computes(k, res)
  <2>1. k.r[1] * Base + k.r[0] = res.value
    BY <1>7, <1>8, <1>9 DEF PairLeft
  <2>2. Wide!cpu_condition_passed(k, "CS") <=> res.holds["CS"]
    BY <1>7, <1>8, <1>9, Conditions DEF PairLeft
  <2>3. Wide!cpu_condition_passed(k, "VS") <=> res.holds["VS"]
    BY <1>7, <1>8, <1>9, Conditions DEF PairLeft
  <2>4. Wide!cpu_condition_passed(k, "PL") <=> res.holds["PL"]
    <3>1. (x + y) % Range2 \in Int /\ Range2 \div 2 \in Int
      BY <1>6, <1>8, Widths DEF IsDigit, Digit
    <3>2. ((x + y) % Range2 < Range2 \div 2) <=> ~(u.x >= Top)
      BY <1>8, <3>1
    <3>. QED BY <1>7, <1>9, <3>2, Conditions DEF PairLeft
  <2>. QED BY <1>9, <2>1, <2>2, <2>3, <2>4 DEF Computes
<1>. QED BY <1>10 DEF k, res

(* Both subtractions: the difference of a pair and another. *)
LEMMA DifferenceComputed ==
  ASSUME NEW x1 \in Digit, NEW x0 \in Digit, NEW y1 \in Digit, NEW y0 \in Digit,
         NEW s, NEW u, Differs(s, x0, y0, 1), Differs(u, x1, y1, Unit(s.c)),
         NEW x, x = x1 * Base + x0, NEW y, y = y1 * Base + y0, NEW k, PairLeft(k, s, u)
  PROVE  Computes(k, Difference(x, y))
<1>. DEFINE res == Difference(x, y)
<1>1. /\ (x - y) % Range2 = u.x * Base + s.x
      /\ u.c = (x >= y)
      /\ u.v = ~Fits2(Neg2(x) - Neg2(y))
      /\ (u.x >= Top) <=> ((x - y) % Range2 >= Range2 \div 2)
      /\ ((u.x >= Top) <=> u.v) <=> (Neg2(x) >= Neg2(y))
  BY DifferenceOfPairs
<1>2. /\ res.value = (x - y) % Range2
      /\ DOMAIN res.holds = {"CS", "CC", "GE", "LT", "VS", "MI"}
      /\ res.holds["CS"] <=> (x >= y)
      /\ res.holds["CC"] <=> (x < y)
      /\ res.holds["GE"] <=> (Neg2(x) >= Neg2(y))
      /\ res.holds["LT"] <=> (Neg2(x) < Neg2(y))
      /\ res.holds["VS"] <=> ~Fits2(Neg2(x) - Neg2(y))
      /\ res.holds["MI"] <=> ((x - y) % Range2 >= Range2 \div 2)
  BY DEF Difference
<1>3. x \in Int /\ y \in Int /\ Neg2(x) \in Int /\ Neg2(y) \in Int
  BY Widths DEF Digit, Neg2
<1>. HIDE DEF res
<1>4. k.r[1] * Base + k.r[0] = res.value
  BY <1>1, <1>2 DEF PairLeft
<1>5. Wide!cpu_condition_passed(k, "CS") <=> res.holds["CS"]
  BY <1>1, <1>2, Conditions DEF PairLeft
<1>6. Wide!cpu_condition_passed(k, "CC") <=> res.holds["CC"]
  <2>1. (x < y) <=> ~(x >= y)
    BY <1>3
  <2>. QED BY <1>1, <1>2, <2>1, Conditions DEF PairLeft
<1>7. Wide!cpu_condition_passed(k, "GE") <=> res.holds["GE"]
  BY <1>1, <1>2, Conditions DEF PairLeft
<1>8. Wide!cpu_condition_passed(k, "LT") <=> res.holds["LT"]
  <2>1. (Neg2(x) < Neg2(y)) <=> ~(Neg2(x) >= Neg2(y))
    BY <1>3
  <2>. QED BY <1>1, <1>2, <2>1, Conditions DEF PairLeft
<1>9. Wide!cpu_condition_passed(k, "VS") <=> res.holds["VS"]
  BY <1>1, <1>2, Conditions DEF PairLeft
<1>10. Wide!cpu_condition_passed(k, "MI") <=> res.holds["MI"]
  BY <1>1, <1>2, Conditions DEF PairLeft
<1>11. Computes(k, res)
  BY <1>2, <1>4, <1>5, <1>6, <1>7, <1>8, <1>9, <1>10 DEF Computes
<1>. QED BY <1>11 DEF res

(* SUBS and SBCS subtract them.                                            *)
LEMMA SubProgram ==
  ASSUME NEW x, NEW y, NEW m, LoadedPair(m, x, y)
  PROVE  Computes(RunDp(RunDp(m, "SUB", 0, 2), "SBC", 1, 3), Result("sub", x, y))
<1>. DEFINE k == RunDp(RunDp(m, "SUB", 0, 2), "SBC", 1, 3)
            s == Wide!Sub(m.r[0], m.r[2], 1)
            u == Wide!Sub(m.r[1], m.r[3], Unit(s.c))
<1>1. m \in Cpus /\ m.r \in [0..3 -> Digit] /\ x = m.r[1] * Base + m.r[0]
        /\ y = m.r[3] * Base + m.r[2]
  BY DEF LoadedPair
<1>2. m.r[0] \in Digit /\ m.r[1] \in Digit /\ m.r[2] \in Digit /\ m.r[3] \in Digit
  BY <1>1
<1>3. Differs(s, m.r[0], m.r[2], 1)
  BY <1>2, SubDigits
<1>4. Differs(u, m.r[1], m.r[3], Unit(s.c))
  BY <1>2, SubDigits DEF Unit
<1>5. /\ s = Wide!Arithmetic("SUB", m.r[0], m.r[2], Unit(m.c))
      /\ u = Wide!Arithmetic("SBC", m.r[1], m.r[3], Unit(s.c))
  BY DEF Wide!Arithmetic
<1>. HIDE DEF s, u, k
<1>6. IsDigit(s) /\ IsDigit(u)
  BY <1>3, <1>4 DEF Differs, IsDigit
<1>7. PairLeft(k, s, u)
  BY <1>1, <1>5, <1>6, TwoSteps DEF k
<1>8. Computes(k, Difference(x, y))
  BY <1>1, <1>2, <1>3, <1>4, <1>7, DifferenceComputed
<1>9. Result("sub", x, y) = Difference(x, y)
  BY DEF Result
<1>. QED BY <1>8, <1>9 DEF k

(* RSBS and RSCS subtract them the other way round.                        *)
LEMMA RsbProgram ==
  ASSUME NEW x, NEW y, NEW m, LoadedPair(m, x, y)
  PROVE  Computes(RunDp(RunDp(m, "RSB", 0, 2), "RSC", 1, 3), Result("rsb", x, y))
<1>. DEFINE k == RunDp(RunDp(m, "RSB", 0, 2), "RSC", 1, 3)
            s == Wide!Sub(m.r[2], m.r[0], 1)
            u == Wide!Sub(m.r[3], m.r[1], Unit(s.c))
<1>1. m \in Cpus /\ m.r \in [0..3 -> Digit] /\ x = m.r[1] * Base + m.r[0]
        /\ y = m.r[3] * Base + m.r[2]
  BY DEF LoadedPair
<1>2. m.r[0] \in Digit /\ m.r[1] \in Digit /\ m.r[2] \in Digit /\ m.r[3] \in Digit
  BY <1>1
<1>3. Differs(s, m.r[2], m.r[0], 1)
  BY <1>2, SubDigits
<1>4. Differs(u, m.r[3], m.r[1], Unit(s.c))
  BY <1>2, SubDigits DEF Unit
<1>5. /\ s = Wide!Arithmetic("RSB", m.r[0], m.r[2], Unit(m.c))
      /\ u = Wide!Arithmetic("RSC", m.r[1], m.r[3], Unit(s.c))
  BY DEF Wide!Arithmetic
<1>. HIDE DEF s, u, k
<1>6. IsDigit(s) /\ IsDigit(u)
  BY <1>3, <1>4 DEF Differs, IsDigit
<1>7. PairLeft(k, s, u)
  BY <1>1, <1>5, <1>6, TwoSteps DEF k
<1>8. Computes(k, Difference(y, x))
  BY <1>1, <1>2, <1>3, <1>4, <1>7, DifferenceComputed
<1>9. Result("rsb", x, y) = Difference(y, x)
  BY DEF Result
<1>. QED BY <1>8, <1>9 DEF k

(* ADDS and ADCS of a pair to itself double it.                            *)
LEMMA DoubleProgram ==
  ASSUME NEW x, NEW y, NEW m, LoadedPair(m, x, y)
  PROVE  Computes(RunDp(RunDp(m, "ADD", 0, 0), "ADC", 1, 1), Result("double", x, y))
<1>. DEFINE k == RunDp(RunDp(m, "ADD", 0, 0), "ADC", 1, 1)
            s == Wide!Add(m.r[0], m.r[0], 0)
            u == Wide!Add(m.r[1], m.r[1], Unit(s.c))
<1>1. m \in Cpus /\ m.r \in [0..3 -> Digit] /\ x = m.r[1] * Base + m.r[0]
  BY DEF LoadedPair
<1>2. m.r[0] \in Digit /\ m.r[1] \in Digit
  BY <1>1
<1>3. Sums(s, m.r[0], m.r[0], 0)
  BY <1>2, AddDigits
<1>4. Sums(u, m.r[1], m.r[1], Unit(s.c))
  BY <1>2, AddDigits DEF Unit
<1>5. /\ s = Wide!Arithmetic("ADD", m.r[0], m.r[0], Unit(m.c))
      /\ u = Wide!Arithmetic("ADC", m.r[1], m.r[1], Unit(s.c))
  BY DEF Wide!Arithmetic
<1>. HIDE DEF s, u, k
<1>6. IsDigit(s) /\ IsDigit(u)
  BY <1>3, <1>4 DEF Sums, IsDigit
<1>7. PairLeft(k, s, u)
  BY <1>1, <1>5, <1>6, TwoSteps DEF k
<1>8. (x + x) % Range2 = u.x * Base + s.x
  BY <1>1, <1>2, <1>3, <1>4, SumOfPairs
<1>9. x + x = 2 * x
  BY <1>1, <1>2, Widths DEF Digit
<1>10. Result("double", x, y).value = (2 * x) % Range2
         /\ DOMAIN Result("double", x, y).holds = {}
  BY DEF Result, Sum
<1>. QED BY <1>7, <1>8, <1>9, <1>10 DEF k, Computes, PairLeft

(* The flags after a comparison. *)
Compared(k, m, a, b) ==
  /\ k \in Cpus /\ k.r = m.r
  /\ k.z <=> (a = b)
  /\ k.c <=> (a >= b)
  /\ (k.n = k.v) <=> (Sign(a) >= Sign(b))
Compare(m, d, s) == Wide!arm_data_processing(m, Dp("CMP", TRUE, d, d, RegOp(s)))

(* CMP leaves the order of its operands, signed and unsigned, in the       *)
(* flags.                                                                  *)
LEMMA CompareFlags ==
  ASSUME NEW m \in Cpus, NEW d \in 0..3, NEW s \in 0..3, m.r[d] \in Digit, m.r[s] \in Digit
  PROVE  Compared(Compare(m, d, s), m, m.r[d], m.r[s])
<1>. DEFINE a == m.r[d]
            b == m.r[s]
            u == Wide!Sub(a, b, 1)
            k == Compare(m, d, s)
<1>1. Differs(u, a, b, 1)
  BY SubDigits
<1>. HIDE DEF u
<1>2. IsResult(u) /\ u.x \in Digit
  BY <1>1, Widths DEF Differs, Digit, IsResult
<1>3. Flags(k, m.r, u.x, u.c, u.v)
  BY <1>2, DpCompare DEF u, IsResult, Compare
<1>. HIDE DEF k, a, b
<1>4. k \in Cpus /\ k.r = m.r /\ (k.n <=> u.x >= Top) /\ (k.z <=> u.x = 0) /\ k.c = u.c
        /\ k.v = u.v
  BY <1>2, <1>3, TopBit DEF Flags, Holds
<1>5. k.n \in BOOLEAN /\ k.v \in BOOLEAN
  BY <1>4 DEF Cpus
<1>6. /\ a \in Digit /\ b \in Digit /\ u.c \in BOOLEAN /\ u.x = a - b + Base * (1 - Unit(u.c))
      /\ u.v = ~(Sign(a) - Sign(b) \in -Top .. Top - 1)
  BY <1>1, Widths DEF a, b, Differs, Digit, Sign
<1>7. Sign(a) \in Int /\ Sign(b) \in Int /\ a \in Int /\ b \in Int /\ u.x \in Int
  BY <1>2, <1>6, Widths DEF Digit, Sign
<1>7a. u.v <=> (Sign(a) - Sign(b) < -Top \/ Sign(a) - Sign(b) >= Top)
  <2>. DEFINE q == Sign(a) - Sign(b)
  <2>1. q \in Int /\ Top \in Int /\ u.v = ~(q \in -Top .. Top - 1)
    BY <1>6, <1>7, Widths
  <2>. HIDE DEF q
  <2>2. (q \in -Top .. Top - 1) <=> ~(q < -Top \/ q >= Top)
    BY <2>1
  <2>3. u.v <=> (q < -Top \/ q >= Top)
    BY <2>1, <2>2
  <2>. QED BY <2>3 DEF q
<1>8. ASSUME u.c PROVE Compared(k, m, a, b)
  <2>1. u.x = a - b
    BY <1>6, <1>7, <1>8, Widths DEF Unit
  <2>2. (k.z <=> (a = b)) /\ (k.c <=> (a >= b))
    BY <1>2, <1>4, <1>7, <1>8, <2>1 DEF Digit
  <2>4. (u.x >= Top <=> u.v) <=> (Sign(a) >= Sign(b))
    BY <1>2, <1>6, <1>7, <1>7a, <2>1, Widths DEF Sign, Digit
  <2>. QED BY <1>4, <1>5, <2>2, <2>4 DEF Compared
<1>9. ASSUME ~u.c PROVE Compared(k, m, a, b)
  <2>1. u.x = a - b + Base
    BY <1>6, <1>7, <1>9, Widths DEF Unit
  <2>2. (k.z <=> (a = b)) /\ (k.c <=> (a >= b))
    BY <1>2, <1>4, <1>6, <1>7, <1>9, <2>1, Widths DEF Digit
  <2>4. (u.x >= Top <=> u.v) <=> (Sign(a) >= Sign(b))
    BY <1>2, <1>6, <1>7, <1>7a, <2>1, Widths DEF Sign, Digit
  <2>. QED BY <1>4, <1>5, <2>2, <2>4 DEF Compared
<1>10. Compared(k, m, a, b)
  BY <1>6, <1>8, <1>9
<1>. QED BY <1>10 DEF k, a, b

(* All ten conditions after one CMP.                                       *)
LEMMA OrderProgram ==
  ASSUME NEW x, NEW y, NEW m, LoadedPair(m, x, y)
  PROVE  Computes(Compare(m, 0, 2), Result("order", x, y))
<1>. DEFINE k == Compare(m, 0, 2)
            a == m.r[0]
            b == m.r[2]
            res == Result("order", x, y)
<1>1. m \in Cpus /\ a \in Digit /\ b \in Digit /\ x = m.r[1] * Base + a /\ 0 \in 0..3
        /\ 2 \in 0..3
  BY LoadedDigits
<1>1a. a = x % Base /\ b = y % Base
  BY DEF LoadedPair
<1>2. Compared(k, m, a, b)
  BY <1>1, CompareFlags
<1>3. /\ res.value = x
      /\ res.holds = Order(a, b, Sign(a), Sign(b))
  <2>1. Wide!Signed(a) = Sign(a) /\ Wide!Signed(b) = Sign(b)
    BY <1>1, TopBit
  <2>. HIDE DEF a, b
  <2>. QED BY <1>1a, <2>1 DEF Result, Neg1, Base
<1>4. a \in Int /\ b \in Int /\ Sign(a) \in Int /\ Sign(b) \in Int
  BY <1>1, Widths DEF Digit, Sign
<1>. HIDE DEF k, a, b, res
<1>. DEFINE o == Order(a, b, Sign(a), Sign(b))
<1>5. DOMAIN o = {"EQ", "NE", "CS", "CC", "HI", "LS", "GE", "LT", "GT", "LE"}
  BY DEF Order
<1>6. /\ o["EQ"] <=> (a = b)
      /\ o["NE"] <=> (a # b)
      /\ o["CS"] <=> (a >= b)
      /\ o["CC"] <=> (a < b)
      /\ o["HI"] <=> (a > b)
      /\ o["LS"] <=> (a <= b)
  BY DEF Order
<1>7. /\ o["GE"] <=> (Sign(a) >= Sign(b))
      /\ o["LT"] <=> (Sign(a) < Sign(b))
      /\ o["GT"] <=> (Sign(a) > Sign(b))
      /\ o["LE"] <=> (Sign(a) <= Sign(b))
  BY DEF Order
<1>. HIDE DEF o
<1>8. (a = b) <=> (Sign(a) = Sign(b))
  BY <1>1, <1>4, Widths DEF Sign, Digit
<1>9. /\ Wide!cpu_condition_passed(k, "EQ") <=> o["EQ"]
      /\ Wide!cpu_condition_passed(k, "NE") <=> o["NE"]
      /\ Wide!cpu_condition_passed(k, "CS") <=> o["CS"]
      /\ Wide!cpu_condition_passed(k, "CC") <=> o["CC"]
      /\ Wide!cpu_condition_passed(k, "HI") <=> o["HI"]
      /\ Wide!cpu_condition_passed(k, "LS") <=> o["LS"]
  BY <1>2, <1>4, <1>6, Conditions DEF Compared
<1>10. /\ Wide!cpu_condition_passed(k, "GE") <=> o["GE"]
       /\ Wide!cpu_condition_passed(k, "LT") <=> o["LT"]
       /\ Wide!cpu_condition_passed(k, "GT") <=> o["GT"]
       /\ Wide!cpu_condition_passed(k, "LE") <=> o["LE"]
  BY <1>2, <1>4, <1>7, <1>8, Conditions DEF Compared
<1>11. k.r[1] * Base + k.r[0] = res.value
  BY <1>1, <1>2, <1>3 DEF Compared, a
<1>12. \A c \in DOMAIN o : Wide!cpu_condition_passed(k, c) <=> o[c]
  BY <1>5, <1>9, <1>10
<1>13. Computes(k, res)
  BY <1>3, <1>11, <1>12 DEF Computes, o
<1>. QED BY <1>13 DEF k, res

(* CMP of the higher registers and then, if they are equal, of the lower.  *)
CmpAfter(m) == IF m.z THEN Compare(m, 0, 2) ELSE m

(* CMP and CMPEQ compare pairs without sign.                               *)
LEMMA CmpProgram ==
  ASSUME NEW x, NEW y, NEW m, LoadedPair(m, x, y)
  PROVE  Computes(CmpAfter(Compare(m, 1, 3)), Result("cmp", x, y))
<1>. DEFINE m1 == Compare(m, 1, 3)
            k == CmpAfter(m1)
            x1 == m.r[1]
            x0 == m.r[0]
            y1 == m.r[3]
            y0 == m.r[2]
            res == Result("cmp", x, y)
<1>1. /\ m \in Cpus /\ x0 \in Digit /\ y0 \in Digit /\ x1 \in Digit /\ y1 \in Digit
      /\ x = x1 * Base + x0 /\ y = y1 * Base + y0 /\ x \in Int /\ y \in Int
  BY LoadedDigits
<1>2. Compared(m1, m, x1, y1)
  BY <1>1, CompareFlags
<1>. HIDE DEF m1
<1>3. k \in Cpus /\ k.r = m.r /\ (k.z <=> x = y) /\ (k.c <=> x >= y)
  <2>0. x1 \in Int /\ y1 \in Int /\ x0 \in Int /\ y0 \in Int
    BY <1>1, Widths DEF Digit
  <2>1. (x >= y) <=> (x1 > y1 \/ (x1 = y1 /\ x0 >= y0))
    BY <1>1, <2>0, PairLess
  <2>2. (y >= x) <=> (y1 > x1 \/ (y1 = x1 /\ y0 >= x0))
    BY <1>1, <2>0, PairLess
  <2>3. CASE m1.z
    <3>1. k = Compare(m1, 0, 2) /\ x1 = y1
      BY <1>2, <2>3 DEF Compared, CmpAfter
    <3>2. m1 \in Cpus /\ m1.r = m.r
      BY <1>2 DEF Compared
    <3>3. Compared(k, m1, x0, y0)
      BY <1>1, <3>1, <3>2, CompareFlags
    <3>. HIDE DEF k, x1, x0, y1, y0
    <3>4. (x = y) <=> (x0 = y0)
      BY <1>1, <2>0, <2>1, <2>2, <3>1
    <3>5. (x >= y) <=> (x0 >= y0)
      BY <2>0, <2>1, <3>1
    <3>. QED BY <3>2, <3>3, <3>4, <3>5 DEF Compared
  <2>4. CASE ~m1.z
    <3>1. k = m1 /\ x1 # y1
      BY <1>2, <2>4 DEF Compared, CmpAfter
    <3>. HIDE DEF k, x1, x0, y1, y0
    <3>2. ~(x = y) /\ ((x >= y) <=> (x1 >= y1))
      BY <1>1, <2>0, <2>1, <2>2, <3>1
    <3>. QED BY <1>2, <3>1, <3>2, <2>4 DEF Compared
  <2>. QED BY <2>3, <2>4
<1>. DEFINE D == {"EQ", "NE", "CS", "CC", "HI", "LS"}
            o == Restrict(Order(x, y, x, y), D)
<1>4. res.value = x /\ res.holds = o
  BY DEF Result
<1>5. DOMAIN o = D
  BY DEF Restrict, Order
<1>6. /\ o["EQ"] <=> (x = y)
      /\ o["NE"] <=> (x # y)
      /\ o["CS"] <=> (x >= y)
      /\ o["CC"] <=> (x < y)
      /\ o["HI"] <=> (x > y)
      /\ o["LS"] <=> (x <= y)
  BY DEF Restrict, Order
<1>. HIDE DEF o, res, k
<1>7. /\ Wide!cpu_condition_passed(k, "EQ") <=> o["EQ"]
      /\ Wide!cpu_condition_passed(k, "NE") <=> o["NE"]
      /\ Wide!cpu_condition_passed(k, "CS") <=> o["CS"]
      /\ Wide!cpu_condition_passed(k, "CC") <=> o["CC"]
      /\ Wide!cpu_condition_passed(k, "HI") <=> o["HI"]
      /\ Wide!cpu_condition_passed(k, "LS") <=> o["LS"]
  <2>. HIDE DEF x1, x0, y1, y0
  <2>1. x \in Int /\ y \in Int
    BY <1>1
  <2>. QED BY <1>3, <1>6, <2>1, Conditions
<1>8. k.r[1] * Base + k.r[0] = res.value
  BY <1>1, <1>3, <1>4
<1>9. \A c \in DOMAIN o : Wide!cpu_condition_passed(k, c) <=> o[c]
  BY <1>5, <1>7
<1>10. Computes(k, res)
  BY <1>4, <1>8, <1>9 DEF Computes
<1>. QED BY <1>10 DEF k, m1, res

-----------------------------------------------------------------------------
(* Halving: a shift by one bit into the carry, and a rotation through it.  *)
LEMMA Halves ==
  ASSUME NEW x0 \in Digit
  PROVE  /\ Wide!BIT(x0, 0) \in BOOLEAN
         /\ Wide!BIT(x0, 0) <=> x0 % 2 = 1
         /\ x0 \div 2 \in Nat /\ x0 \div 2 < Top /\ x0 % 2 \in {0, 1}
         /\ x0 = 2 * (x0 \div 2) + (x0 % 2)
  BY Widths, WidthAssumption DEF Wide!BIT, Digit

(* LSR into the carry and RRX out of it halve a pair.                      *)
LEMMA HalfProgram ==
  ASSUME NEW x, NEW y, NEW m, LoadedPair(m, x, y)
  PROVE  Computes(RunShift(RunShift(m, 1, "LSR", 1), 0, "ROR", 0), Result("half", x, y))
<1>. DEFINE m1 == RunShift(m, 1, "LSR", 1)
            k == RunShift(m1, 0, "ROR", 0)
            x1 == m.r[1]
            x0 == m.r[0]
            res == Result("half", x, y)
            s == Wide!ShiftByImmediate(x1, "LSR", 1, m.c)
            u == Wide!ShiftByImmediate(x0, "ROR", 0, m1.c)
<1>1. /\ m \in Cpus /\ x0 \in Digit /\ x1 \in Digit /\ x = x1 * Base + x0 /\ x \in Int
      /\ 0 \in 0..3 /\ 1 \in 0..3
  BY LoadedDigits
<1>2. m.r \in [0..3 -> Digit]
  BY DEF LoadedPair
<1>3. s.v = x1 \div 2 /\ s.c = Wide!BIT(x1, 0)
  BY WidthAssumption DEF Wide!ShiftByImmediate, Wide!ShiftBy
<1>. HIDE DEF s
<1>4. s.v \in Digit /\ s.v \in Int /\ s.c \in BOOLEAN
  BY <1>1, <1>3, Halves, Widths DEF Digit
<1>5. Leaves(m1, m, 1, s.v, s.c, m.v)
  BY <1>1, <1>4, DpMove DEF s
<1>. HIDE DEF m1
<1>6. m1 \in Cpus /\ m1.r \in [0..3 -> Digit] /\ m1.r[1] = s.v /\ m1.r[0] = x0 /\ m1.c = s.c
  BY <1>1, <1>2, <1>4, <1>5, AfterLeaves
<1>7. u.v = (x0 \div 2) + (IF s.c THEN Top ELSE 0) /\ u.c = Wide!BIT(x0, 0)
  BY <1>6 DEF Wide!ShiftByImmediate, Top
<1>. HIDE DEF u
<1>8. u.v \in Digit /\ u.v \in Int /\ u.c \in BOOLEAN
  BY <1>1, <1>7, Halves, Widths DEF Digit
<1>9. Leaves(k, m1, 0, u.v, u.c, m1.v)
  BY <1>1, <1>6, <1>8, DpMove DEF u
<1>. HIDE DEF k
<1>10. k \in Cpus /\ k.r[0] = u.v /\ k.r[1] = s.v /\ k.c = u.c
  BY <1>1, <1>6, <1>8, <1>9, AfterLeaves
<1>. DEFINE q == x1 \div 2
            r == x1 % 2
            p == x0 \div 2
            t == x0 % 2
<1>11. /\ q \in Nat /\ r \in {0, 1} /\ p \in Nat /\ t \in {0, 1}
       /\ x1 = 2 * q + r /\ x0 = 2 * p + t
       /\ (s.c <=> r = 1) /\ (u.c <=> t = 1) /\ s.v = q /\ u.v = p + r * Top
  BY <1>1, <1>3, <1>7, Halves, Widths
<1>. HIDE DEF q, r, p, t, x1, x0
<1>12. x = 2 * (q * Base + (p + r * Top)) + t
  <2>1. x1 * Base = 2 * (q * Base) + 2 * (r * Top)
    BY <1>11, Widths
  <2>. QED BY <1>1, <1>11, <2>1, Widths
<1>13. x \div 2 = q * Base + (p + r * Top) /\ x % 2 = t
  <2>. DEFINE z == q * Base + (p + r * Top)
  <2>1. z \in Int /\ t \in Nat /\ t < 2 /\ x = 2 * z + t
    BY <1>11, <1>12, Widths
  <2>. HIDE DEF z
  <2>2. x \div 2 = z /\ x % 2 = t
    BY <1>1, <2>1, OneQuotient
  <2>. QED BY <2>2 DEF z
<1>14. /\ res.value = x \div 2 /\ DOMAIN res.holds = {"CS"}
       /\ res.holds["CS"] <=> (x % 2 = 1)
  BY DEF Result
<1>. HIDE DEF res
<1>15. k.r[1] * Base + k.r[0] = res.value
  BY <1>10, <1>11, <1>13, <1>14
<1>16. Wide!cpu_condition_passed(k, "CS") <=> res.holds["CS"]
  BY <1>10, <1>11, <1>13, <1>14, Conditions
<1>17. Computes(k, res)
  BY <1>14, <1>15, <1>16 DEF Computes
<1>. QED BY <1>17 DEF k, m1, res

(* ASR and RRX halve a signed pair.                                        *)
LEMMA HalfSignedProgram ==
  ASSUME NEW x, NEW y, NEW m, LoadedPair(m, x, y)
  PROVE  Computes(RunShift(RunShift(m, 1, "ASR", 1), 0, "ROR", 0), Result("half_signed", x, y))
<1>. DEFINE m1 == RunShift(m, 1, "ASR", 1)
            k == RunShift(m1, 0, "ROR", 0)
            x1 == m.r[1]
            x0 == m.r[0]
            res == Result("half_signed", x, y)
            s == Wide!ShiftByImmediate(x1, "ASR", 1, m.c)
            u == Wide!ShiftByImmediate(x0, "ROR", 0, m1.c)
            q == Sign(x1) \div 2
            h == IF q < 0 THEN q + Base ELSE q
<1>1. /\ m \in Cpus /\ x0 \in Digit /\ x1 \in Digit /\ x = x1 * Base + x0 /\ x \in Int
      /\ 0 \in 0..3 /\ 1 \in 0..3
  BY LoadedDigits
<1>2. m.r \in [0..3 -> Digit]
  BY DEF LoadedPair
<1>3. /\ Sign(x1) \in Int /\ Sign(x1) >= -Top /\ Sign(x1) < Top /\ Sign(x1) % 2 = x1 % 2
      /\ Wide!Signed(x1) = Sign(x1)
  <2>1. Wide!Signed(x1) = Sign(x1) /\ x1 \in Int
    BY <1>1, TopBit, Widths DEF Digit
  <2>. HIDE DEF x1
  <2>2. (x1 - Base) % 2 = x1 % 2
    BY <2>1, Widths
  <2>. QED BY <1>1, <2>1, <2>2, Widths DEF Sign, Digit
<1>4. q \in Int /\ q >= -Top /\ q < Top /\ Sign(x1) = 2 * q + (x1 % 2) /\ x1 % 2 \in {0, 1}
  <2>. DEFINE g == Sign(x1)
  <2>1. g \in Int /\ g >= -Top /\ g < Top /\ g % 2 = x1 % 2
    BY <1>3
  <2>. HIDE DEF g
  <2>2. /\ g \div 2 \in Int /\ g \div 2 >= -Top /\ g \div 2 < Top
             /\ g = 2 * (g \div 2) + (g % 2)
        /\ g % 2 \in {0, 1}
    BY <2>1, Widths
  <2>. QED BY <2>1, <2>2 DEF g
<1>. HIDE DEF q
<1>5. h \in Digit /\ h = q % Base
  <2>1. h \in Digit /\ h \in Nat /\ h < Base
    BY <1>4, Widths DEF Digit
  <2>2. q = Base * (IF q < 0 THEN -1 ELSE 0) + h
    BY <1>4, Widths
  <2>3. (IF q < 0 THEN -1 ELSE 0) \in Int
    OBVIOUS
  <2>. HIDE DEF h
  <2>. QED BY <1>4, <2>1, <2>2, <2>3, Widths, OneQuotient
<1>6. s.v = h /\ s.c = Wide!BIT(x1, 0)
  BY <1>3, <1>5, WidthAssumption DEF Wide!ShiftByImmediate, Wide!ShiftBy, Wide!Wrap, Base, q
<1>. HIDE DEF s
<1>7. s.v \in Digit /\ s.v \in Int /\ s.c \in BOOLEAN
  BY <1>1, <1>5, <1>6, Halves, Widths DEF Digit
<1>8. Leaves(m1, m, 1, s.v, s.c, m.v)
  BY <1>1, <1>7, DpMove DEF s
<1>. HIDE DEF m1
<1>9. m1 \in Cpus /\ m1.r \in [0..3 -> Digit] /\ m1.r[1] = s.v /\ m1.r[0] = x0 /\ m1.c = s.c
  BY <1>1, <1>2, <1>7, <1>8, AfterLeaves
<1>10. u.v = (x0 \div 2) + (IF s.c THEN Top ELSE 0) /\ u.c = Wide!BIT(x0, 0)
  BY <1>9 DEF Wide!ShiftByImmediate, Top
<1>. HIDE DEF u
<1>11. u.v \in Digit /\ u.v \in Int /\ u.c \in BOOLEAN
  BY <1>1, <1>10, Halves, Widths DEF Digit
<1>12. Leaves(k, m1, 0, u.v, u.c, m1.v)
  BY <1>1, <1>9, <1>11, DpMove DEF u
<1>. HIDE DEF k
<1>13. k.r[0] = u.v /\ k.r[1] = s.v
  BY <1>1, <1>9, <1>11, <1>12, AfterLeaves
<1>. DEFINE r == x1 % 2
            p == x0 \div 2
            t == x0 % 2
            g == Sign(x1)
<1>14. /\ r \in {0, 1} /\ p \in Nat /\ t \in {0, 1} /\ g \in Int /\ g = 2 * q + r
            /\ x0 = 2 * p + t
       /\ u.v = p + r * Top
  <2>1. p \in Nat /\ t \in {0, 1} /\ x0 = 2 * p + t /\ (s.c <=> r = 1)
    BY <1>1, <1>6, Halves
  <2>2. r \in {0, 1} /\ g \in Int /\ g = 2 * q + r
    BY <1>3, <1>4
  <2>3. u.v = p + (IF s.c THEN Top ELSE 0)
    BY <1>10
  <2>. HIDE DEF r, p, t, g, x1, x0
  <2>. QED BY <2>1, <2>2, <2>3, Widths
<1>15. Neg2(x) = g * Base + x0
  BY <1>1, PairSign
<1>. HIDE DEF r, p, t, g, x1, x0
<1>16. Neg2(x) = 2 * (q * Base + u.v) + t
  <2>1. g * Base = 2 * (q * Base) + 2 * (r * Top)
    BY <1>4, <1>14, Widths
  <2>. QED BY <1>4, <1>14, <1>15, <2>1, Widths
<1>17. Neg2(x) \div 2 = q * Base + u.v
  <2>. DEFINE z == q * Base + u.v
  <2>1. z \in Int /\ t \in Nat /\ t < 2 /\ Neg2(x) = 2 * z + t /\ Neg2(x) \in Int
    BY <1>4, <1>11, <1>14, <1>16, Widths
  <2>. HIDE DEF z
  <2>2. Neg2(x) \div 2 = z
    BY <2>1, OneQuotient
  <2>. QED BY <2>2 DEF z
<1>18. (Neg2(x) \div 2) % Range2 = h * Base + u.v
  <2>. DEFINE z == q * Base + u.v
              e == IF q < 0 THEN -1 ELSE 0
              l == u.v
  <2>1. q = h + e * Base /\ e \in Int
    <3>1. CASE q < 0
      <4>1. h = q + Base /\ e = -1
        BY <3>1
      <4>. QED BY <1>4, <4>1, Widths
    <3>2. CASE ~(q < 0)
      <4>1. h = q /\ e = 0
        BY <3>2
      <4>. QED BY <1>4, <4>1, Widths
    <3>. QED BY <3>1, <3>2
  <2>. HIDE DEF h, e
  <2>2. q * Base = h * Base + e * (Base * Base)
    <3>1. h \in Int /\ Base \in Int
      BY <1>5, Widths DEF Digit
    <3>. QED BY <2>1, <3>1
  <2>3. z \in Int /\ Joins(z, h, l, e) /\ h \in Digit /\ l \in Digit /\ e \in Int
    BY <1>4, <1>5, <1>11, <2>1, <2>2, Widths DEF Joins, Digit
  <2>. HIDE DEF z, l
  <2>4. z % Range2 = h * Base + l
    BY <2>3, Join
  <2>. QED BY <1>17, <2>4 DEF z, l
<1>19. res.value = (Neg2(x) \div 2) % Range2 /\ DOMAIN res.holds = {}
  BY DEF Result
<1>. HIDE DEF res
<1>20. k.r[1] * Base + k.r[0] = res.value
  BY <1>6, <1>13, <1>18, <1>19
<1>21. Computes(k, res)
  BY <1>19, <1>20 DEF Computes
<1>. QED BY <1>21 DEF k, m1, res

-----------------------------------------------------------------------------
(* The long multiplications leave their result, and its sign and whether   *)
(* it is zero.                                                             *)
LEMMA LongResult ==
  ASSUME NEW m \in Cpus, NEW signed \in BOOLEAN, NEW acc \in BOOLEAN,
         Product(m, signed, acc) \in Int,
         NEW k, k = Execute(m, Always(Long(signed, acc)))
  PROVE  LET x == Product(m, signed, acc) % Range2
         IN  /\ k.r[1] * Base + k.r[0] = x
             /\ x \in 0 .. Range2 - 1
             /\ k.z <=> (x = 0)
             /\ k.n <=> (x >= Range2 \div 2)
<1>. DEFINE x == Product(m, signed, acc) % Range2
<1>1. x \in Nat /\ x < Range2
  BY Widths, DivMod
<1>2. x \in 0 .. Range2 - 1 /\ x \in Int
  BY <1>1, Widths
<1>3. Holds(k, [m.r EXCEPT ![0] = x % Base, ![1] = x \div Base],
            Wide!BIT(x, 2 * WideBits - 1), x = 0, m.c, m.v)
  BY <1>2, LongMultiply
<1>. HIDE DEF x
<1>4. /\ k.r = [m.r EXCEPT ![0] = x % Base, ![1] = x \div Base]
      /\ k.z = (x = 0) /\ k.n = Wide!BIT(x, 2 * WideBits - 1)
  BY <1>3 DEF Holds
<1>5. k.r[0] = x % Base /\ k.r[1] = x \div Base
  BY <1>4 DEF Cpus
<1>6. k.r[1] * Base + k.r[0] = x
  BY <1>2, <1>5, Split
<1>7. Wide!BIT(x, 2 * WideBits - 1) <=> (x >= Range2 \div 2)
  <2>. DEFINE g == Top * Base
  <2>1. /\ 2^(2 * WideBits - 1) = g /\ g \in Nat /\ g > 0 /\ Range2 \div 2 = g /\ Range2 = 2 * g
    <3>1. Top * Base = Base * Top /\ Base * Base = 2 * (Top * Base) /\ Top * Base > 0
      BY Widths
    <3>2. 2^(2 * WideBits - 1) = Base * Top
      BY WidthAssumption DEF Base, Top
    <3>. QED BY <3>1, <3>2, Widths
  <2>. HIDE DEF g
  <2>2. CASE x >= g
    <3>1. x = g * 1 + (x - g) /\ x - g \in Nat /\ x - g < g
      BY <1>1, <2>1, <2>2
    <3>2. x \div g = 1
      BY <1>2, <2>1, <3>1, OneQuotient
    <3>. QED BY <2>1, <2>2, <3>2 DEF Wide!BIT
  <2>3. CASE ~(x >= g)
    <3>1. x = g * 0 + x /\ x \in Nat /\ x < g
      BY <1>1, <2>1, <2>3
    <3>2. x \div g = 0
      BY <1>2, <2>1, <3>1, OneQuotient
    <3>. QED BY <2>1, <2>3, <3>2 DEF Wide!BIT
  <2>. QED BY <2>2, <2>3
<1>. QED BY <1>2, <1>4, <1>6, <1>7 DEF x

(* UMULL: the product without sign, and Z.                                 *)
LEMMA UmullProgram ==
  ASSUME NEW x, NEW y, NEW m, LoadedPair(m, x, y)
  PROVE  Computes(Execute(m, Always(Long(FALSE, FALSE))), Result("umull", x, y))
<1>. DEFINE k == Execute(m, Always(Long(FALSE, FALSE)))
            x0 == m.r[0]
            y0 == m.r[2]
            res == Result("umull", x, y)
            z == x0 * y0
<1>1. m \in Cpus /\ x0 \in Digit /\ y0 \in Digit
  BY LoadedDigits
<1>2. x0 = x % Base /\ y0 = y % Base
  BY DEF LoadedPair
<1>3. Product(m, FALSE, FALSE) = z /\ z \in Int
  BY <1>1, Widths DEF Product, Digit
<1>4. z >= 0 /\ z < Range2
  <2>. HIDE DEF x0, y0
  <2>1. x0 \in Nat /\ y0 \in Nat /\ x0 < Base /\ y0 < Base
    BY <1>1, Widths DEF Digit
  <2>2. x0 * y0 <= x0 * Base /\ x0 * Base <= (Base - 1) * Base
          /\ (Base - 1) * Base = Base * Base - Base
    BY <2>1, Widths
  <2>. QED BY <2>1, <2>2, Widths
<1>5. res.value = z /\ DOMAIN res.holds = {"EQ"} /\ (res.holds["EQ"] <=> z = 0)
  <2>. HIDE DEF x0, y0
  <2>. QED BY <1>2 DEF Result, Base
<1>. HIDE DEF z, res, k
<1>6. z % Range2 = z
  <2>1. z = Range2 * 0 + z /\ z \in Nat
    BY <1>3, <1>4, Widths
  <2>. QED BY <1>3, <1>4, <2>1, Widths, OneQuotient
<1>7. k.r[1] * Base + k.r[0] = z /\ (k.z <=> z = 0)
  BY <1>1, <1>3, <1>6, LongResult DEF k
<1>8. Computes(k, res)
  BY <1>5, <1>7, Conditions DEF Computes
<1>. QED BY <1>8 DEF k, res

(* SMULL: the signed product; N is the sign of the true product.           *)
LEMMA SmullProgram ==
  ASSUME NEW x, NEW y, NEW m, LoadedPair(m, x, y)
  PROVE  Computes(Execute(m, Always(Long(TRUE, FALSE))), Result("smull", x, y))
<1>. DEFINE k == Execute(m, Always(Long(TRUE, FALSE)))
            x0 == m.r[0]
            y0 == m.r[2]
            res == Result("smull", x, y)
            a == Sign(x0)
            b == Sign(y0)
            z == a * b
<1>1. m \in Cpus /\ x0 \in Digit /\ y0 \in Digit
  BY LoadedDigits
<1>2. x0 = x % Base /\ y0 = y % Base
  BY DEF LoadedPair
<1>3. /\ Wide!Signed(x0) = a /\ Wide!Signed(y0) = b /\ a \in Int /\ b \in Int
      /\ a >= -Top /\ a < Top /\ b >= -Top /\ b < Top
  <2>1. Wide!Signed(x0) = a /\ Wide!Signed(y0) = b
    BY <1>1, TopBit
  <2>. HIDE DEF x0, y0
  <2>. QED BY <1>1, <2>1, Widths DEF Digit, Sign
<1>4. Product(m, TRUE, FALSE) = z /\ z \in Int
  <2>. HIDE DEF a, b
  <2>. QED BY <1>1, <1>3, Widths DEF Product, Digit
<1>5. res.value = z % Range2 /\ DOMAIN res.holds = {"MI"} /\ (res.holds["MI"] <=> z < 0)
  <2>. HIDE DEF x0, y0, a, b
  <2>. QED BY <1>2, <1>3 DEF Result, Base, Neg1
<1>. HIDE DEF res, k, a, b, x0, y0
<1>6. z <= Top * Top /\ z >= -(Top * Top) /\ Top * Top < Top * Base
  <2>1. a <= Top /\ b <= Top /\ -a <= Top /\ -b <= Top
    BY <1>3, Widths
  <2>2. (Top - a) * (Top + b) >= 0 /\ (Top + a) * (Top - b) >= 0
    BY <1>3, <2>1, Widths
  <2>3. (Top - a) * (Top - b) >= 0 /\ (Top + a) * (Top + b) >= 0
    BY <1>3, <2>1, Widths
  <2>4. /\ (Top - a) * (Top + b) = Top * Top + Top * b - a * Top - a * b
        /\ (Top + a) * (Top - b) = Top * Top - Top * b + a * Top - a * b
        /\ (Top - a) * (Top - b) = Top * Top - Top * b - a * Top + a * b
        /\ (Top + a) * (Top + b) = Top * Top + Top * b + a * Top + a * b
    BY <1>3, Widths
  <2>5. Top * Base = Top * Top + Top * Top /\ Top * Top > 0
    BY Widths
  <2>6. Top * Top \in Int /\ Top * b \in Int /\ a * Top \in Int /\ a * b \in Int
    BY <1>3, Widths
  <2>. QED BY <2>2, <2>3, <2>4, <2>5, <2>6
<1>. HIDE DEF z
<1>. DEFINE g == Top * Base
<1>7. g \in Nat /\ g > 0 /\ Range2 \div 2 = g /\ Range2 = 2 * g /\ z >= -g /\ z < g
  <2>1. Base * Base = 2 * (Top * Base) /\ Top * Base > 0 /\ Top * Top \in Int
          /\ Top * Base \in Nat
    BY Widths
  <2>. QED BY <1>4, <1>6, <2>1, Widths
<1>. HIDE DEF g
<1>8. z % Range2 >= Range2 \div 2 <=> z < 0
  <2>1. CASE z < 0
    <3>1. z = Range2 * (-1) + (z + Range2) /\ z + Range2 \in Nat /\ z + Range2 < Range2
      BY <1>4, <1>7, <2>1
    <3>2. z % Range2 = z + Range2
      BY <1>4, <1>7, <3>1, Widths, OneQuotient
    <3>. QED BY <1>4, <1>7, <2>1, <3>2
  <2>2. CASE ~(z < 0)
    <3>1. z = Range2 * 0 + z /\ z \in Nat /\ z < Range2
      BY <1>4, <1>7, <2>2
    <3>2. z % Range2 = z
      BY <1>4, <1>7, <3>1, Widths, OneQuotient
    <3>. QED BY <1>4, <1>7, <2>2, <3>2
  <2>. QED BY <2>1, <2>2
<1>9. k.r[1] * Base + k.r[0] = z % Range2 /\ (k.n <=> z % Range2 >= Range2 \div 2)
  BY <1>1, <1>4, LongResult DEF k
<1>10. Computes(k, res)
  BY <1>5, <1>8, <1>9, Conditions DEF Computes
<1>. QED BY <1>10 DEF k, res

(* UMLAL and SMLAL add the product to the pair.                            *)
LEMMA MlalPrograms ==
  ASSUME NEW x, NEW y, NEW m, LoadedPair(m, x, y)
  PROVE  /\ Computes(Execute(m, Always(Long(FALSE, TRUE))), Result("umlal", x, y))
         /\ Computes(Execute(m, Always(Long(TRUE, TRUE))), Result("smlal", x, y))
<1>. DEFINE k(signed) == Execute(m, Always(Long(signed, TRUE)))
            y1 == m.r[3]
            y0 == m.r[2]
            z(signed) == IF signed THEN Wide!Signed(y1) * Wide!Signed(y0) ELSE y1 * y0
<1>1. m \in Cpus /\ y0 \in Digit /\ y1 \in Digit /\ x = m.r[1] * Base + m.r[0] /\ x \in Int
  BY LoadedDigits
<1>2. y0 = y % Base /\ y1 = y \div Base
  BY DEF LoadedPair
<1>3. Wide!Signed(y1) \in Int /\ Wide!Signed(y0) \in Int /\ y1 \in Int /\ y0 \in Int
  <2>1. Wide!Signed(y0) = Sign(y0) /\ Wide!Signed(y1) = Sign(y1)
    BY <1>1, TopBit
  <2>. HIDE DEF y0, y1
  <2>. QED BY <1>1, <2>1, Widths DEF Digit, Sign
<1>4. ASSUME NEW signed \in BOOLEAN
      PROVE  k(signed).r[1] * Base + k(signed).r[0] = (x + z(signed)) % Range2
  <2>1. Product(m, signed, TRUE) = z(signed) + x
    BY <1>1 DEF Product
  <2>2. z(signed) + x = x + z(signed) /\ x + z(signed) \in Int
    BY <1>1, <1>3
  <2>. HIDE DEF z
  <2>. QED BY <1>1, <2>1, <2>2, LongResult
<1>5. Computes(k(FALSE), Result("umlal", x, y))
  <2>1. k(FALSE).r[1] * Base + k(FALSE).r[0] = (x + y1 * y0) % Range2
    BY <1>4
  <2>2. Result("umlal", x, y).value = (x + y1 * y0) % Range2
          /\ DOMAIN Result("umlal", x, y).holds = {}
    <3>. HIDE DEF y1, y0
    <3>. QED BY <1>2 DEF Result, Sum, Base
  <2>. HIDE DEF k
  <2>. QED BY <2>1, <2>2 DEF Computes
<1>6. Computes(k(TRUE), Result("smlal", x, y))
  <2>1. k(TRUE).r[1] * Base + k(TRUE).r[0] = (x + Wide!Signed(y1) * Wide!Signed(y0)) % Range2
    BY <1>4
  <2>2. /\ Result("smlal", x, y).value = (x + Wide!Signed(y1) * Wide!Signed(y0)) % Range2
        /\ DOMAIN Result("smlal", x, y).holds = {}
    <3>. HIDE DEF y1, y0
    <3>. QED BY <1>2 DEF Result, Sum, Base, Neg1
  <2>. HIDE DEF k
  <2>. QED BY <2>1, <2>2 DEF Computes
<1>. QED BY <1>5, <1>6

-----------------------------------------------------------------------------
(* The first machine of a program, and programs of one and of two          *)
(* instructions.                                                           *)
Start(x, y, c) == Machine(Operands(x, y), FALSE, FALSE, c, FALSE)
Alone(p, i)    == Program(p) = <<i>>
Both(p, i, j)  == Program(p) = <<i, j>>

(* Every program computes what it has to. *)
LEMMA ProgramsCompute ==
  ASSUME NEW x \in 0 .. Range2 - 1, NEW y \in 0 .. Range2 - 1, NEW c \in BOOLEAN,
           NEW p \in Pairs
  PROVE  \/ \E i : Alone(p, i) /\ Computes(Execute(Start(x, y, c), i), Result(p, x, y))
         \/ \E i, j : /\ Both(p, i, j)
                      /\ Computes(Execute(Execute(Start(x, y, c), i), j), Result(p, x, y))
<1>. DEFINE m == Start(x, y, c)
            Goal == \/ \E i : Alone(p, i) /\ Computes(Execute(m, i), Result(p, x, y))
                    \/ \E i, j : /\ Both(p, i, j)
                                 /\ Computes(Execute(Execute(m, i), j), Result(p, x, y))
<1>0. LoadedPair(m, x, y)
  BY StartLoaded DEF Start
<1>. HIDE DEF m
<1>0a. \A k, d, s : Execute(k, Always(Dp("CMP", TRUE, d, d, RegOp(s)))) = Compare(k, d, s)
  <2>. TAKE k, d, s
  <2>. DEFINE i == Dp("CMP", TRUE, d, d, RegOp(s))
  <2>1. i.kind = "dp"
    BY DEF Dp
  <2>. HIDE DEF i
  <2>2. Execute(k, Always(i)) = Wide!arm_data_processing(k, i)
    BY <2>1 DEF Execute, Always, Wide!cpu_condition_passed
  <2>. QED BY <2>2 DEF Compare, i
<1>0b. ASSUME NEW k
       PROVE  Execute(k, [cond |-> "EQ", instr |-> Dp("CMP", TRUE, 0, 0, RegOp(2))])
                = CmpAfter(k)
  <2>. DEFINE i == Dp("CMP", TRUE, 0, 0, RegOp(2))
  <2>1. i.kind = "dp"
    BY DEF Dp
  <2>. HIDE DEF i
  <2>2. Execute(k, [cond |-> "EQ", instr |-> i])
          = IF k.z THEN Wide!arm_data_processing(k, i) ELSE k
    BY <2>1 DEF Execute, Wide!cpu_condition_passed
  <2>. QED BY <2>2 DEF Compare, i, CmpAfter
<1>1. CASE p = "order"
  <2>. DEFINE i == Always(Dp("CMP", TRUE, 0, 0, RegOp(2)))
  <2>1. Alone(p, i)
    BY <1>1 DEF Alone, Program
  <2>2. Computes(Execute(m, i), Result(p, x, y))
    BY <1>0, <1>0a, <1>1, OrderProgram
  <2>. QED BY <2>1, <2>2 DEF m
<1>2. CASE p = "add"
  <2>. DEFINE i == Always(Dp("ADD", TRUE, 0, 0, RegOp(2)))
              j == Always(Dp("ADC", TRUE, 1, 1, RegOp(3)))
  <2>1. Both(p, i, j)
    BY <1>2 DEF Both, Program
  <2>2. Computes(Execute(Execute(m, i), j), Result(p, x, y))
    BY <1>0, <1>2, AddProgram DEF RunDp
  <2>. QED BY <2>1, <2>2 DEF m
<1>3. CASE p = "sub"
  <2>. DEFINE i == Always(Dp("SUB", TRUE, 0, 0, RegOp(2)))
              j == Always(Dp("SBC", TRUE, 1, 1, RegOp(3)))
  <2>1. Both(p, i, j)
    BY <1>3 DEF Both, Program
  <2>2. Computes(Execute(Execute(m, i), j), Result(p, x, y))
    BY <1>0, <1>3, SubProgram DEF RunDp
  <2>. QED BY <2>1, <2>2 DEF m
<1>4. CASE p = "rsb"
  <2>. DEFINE i == Always(Dp("RSB", TRUE, 0, 0, RegOp(2)))
              j == Always(Dp("RSC", TRUE, 1, 1, RegOp(3)))
  <2>1. Both(p, i, j)
    BY <1>4 DEF Both, Program
  <2>2. Computes(Execute(Execute(m, i), j), Result(p, x, y))
    BY <1>0, <1>4, RsbProgram DEF RunDp
  <2>. QED BY <2>1, <2>2 DEF m
<1>5. CASE p = "cmp"
  <2>. DEFINE i == Always(Dp("CMP", TRUE, 1, 1, RegOp(3)))
              j == [cond |-> "EQ", instr |-> Dp("CMP", TRUE, 0, 0, RegOp(2))]
  <2>1. Both(p, i, j)
    BY <1>5 DEF Both, Program
  <2>2. Computes(Execute(Execute(m, i), j), Result(p, x, y))
    BY <1>0, <1>0a, <1>0b, <1>5, CmpProgram
  <2>. QED BY <2>1, <2>2 DEF m
<1>6. CASE p = "double"
  <2>. DEFINE i == Always(Dp("ADD", TRUE, 0, 0, RegOp(0)))
              j == Always(Dp("ADC", TRUE, 1, 1, RegOp(1)))
  <2>1. Both(p, i, j)
    BY <1>6 DEF Both, Program
  <2>2. Computes(Execute(Execute(m, i), j), Result(p, x, y))
    BY <1>0, <1>6, DoubleProgram DEF RunDp
  <2>. QED BY <2>1, <2>2 DEF m
<1>7. CASE p = "half"
  <2>. DEFINE i == Always(Dp("MOV", TRUE, 1, 1, Shifted(1, "LSR", 1)))
              j == Always(Dp("MOV", TRUE, 0, 0, Shifted(0, "ROR", 0)))
  <2>1. Both(p, i, j)
    BY <1>7 DEF Both, Program
  <2>2. Computes(Execute(Execute(m, i), j), Result(p, x, y))
    BY <1>0, <1>7, HalfProgram DEF RunShift
  <2>. QED BY <2>1, <2>2 DEF m
<1>8. CASE p = "half_signed"
  <2>. DEFINE i == Always(Dp("MOV", TRUE, 1, 1, Shifted(1, "ASR", 1)))
              j == Always(Dp("MOV", TRUE, 0, 0, Shifted(0, "ROR", 0)))
  <2>1. Both(p, i, j)
    BY <1>8 DEF Both, Program
  <2>2. Computes(Execute(Execute(m, i), j), Result(p, x, y))
    BY <1>0, <1>8, HalfSignedProgram DEF RunShift
  <2>. QED BY <2>1, <2>2 DEF m
<1>9. CASE p = "umull"
  <2>1. Alone(p, Always(Long(FALSE, FALSE)))
    BY <1>9 DEF Alone, Program
  <2>2. Computes(Execute(m, Always(Long(FALSE, FALSE))), Result(p, x, y))
    BY <1>0, <1>9, UmullProgram
  <2>. QED BY <2>1, <2>2 DEF m
<1>10. CASE p = "smull"
  <2>1. Alone(p, Always(Long(TRUE, FALSE)))
    BY <1>10 DEF Alone, Program
  <2>2. Computes(Execute(m, Always(Long(TRUE, FALSE))), Result(p, x, y))
    BY <1>0, <1>10, SmullProgram
  <2>. QED BY <2>1, <2>2 DEF m
<1>11. CASE p = "umlal"
  <2>1. Alone(p, Always(Long(FALSE, TRUE)))
    BY <1>11 DEF Alone, Program
  <2>2. Computes(Execute(m, Always(Long(FALSE, TRUE))), Result(p, x, y))
    BY <1>0, <1>11, MlalPrograms
  <2>. QED BY <2>1, <2>2 DEF m
<1>12. CASE p = "smlal"
  <2>1. Alone(p, Always(Long(TRUE, TRUE)))
    BY <1>12 DEF Alone, Program
  <2>2. Computes(Execute(m, Always(Long(TRUE, TRUE))), Result(p, x, y))
    BY <1>0, <1>12, MlalPrograms
  <2>. QED BY <2>1, <2>2 DEF m
<1>. QED BY <1>1, <1>2, <1>3, <1>4, <1>5, <1>6, <1>7, <1>8, <1>9, <1>10, <1>11, <1>12 DEF Pairs

(* The programs share nothing: a step of one is no step of another.        *)
LEMMA Apart ==
  ASSUME [INext]_ivars
  PROVE  /\ part' = part
         /\ part = "wide" => WideStep \/ UNCHANGED ivars
         /\ part = "shift" => ShiftStep \/ UNCHANGED ivars
         /\ part = "twins" => TwinsStep \/ UNCHANGED ivars
         /\ part = "memory" => MemoryStep \/ UNCHANGED ivars
<1>1. CASE WideStep
  BY <1>1 DEF WideStep
<1>2. CASE ShiftStep
  BY <1>2 DEF ShiftStep
<1>3. CASE TwinsStep
  BY <1>3 DEF TwinsStep
<1>4. CASE MemoryStep
  BY <1>4 DEF MemoryStep
<1>5. CASE ExpandStep
  BY <1>5 DEF ExpandStep
<1>6. CASE CallsStep
  <2>1. part = "calls" /\ part' = part
    BY <1>6 DEF CallsStep, BlFirst, BlSecond, Bl, CallByBx, Save, UseR4, Jump, ReturnSaved,
                ReturnByBx, ReturnLeaf, CanCall, Ready, Run
  <2>. QED BY <2>1
<1>7. CASE UNCHANGED ivars
  BY <1>7 DEF ivars
<1>. QED BY <1>1, <1>2, <1>3, <1>4, <1>5, <1>6, <1>7 DEF INext

(* Where a program is and what it has left in the processor so far.        *)
At(x, y, c, p) ==
  /\ x \in 0 .. Range2 - 1 /\ y \in 0 .. Range2 - 1 /\ c \in BOOLEAN /\ p \in Pairs
  /\ spec = Result(p, x, y)
  /\ \/ todo = Program(p) /\ cpu = Start(x, y, c)
     \/ \E i, j : Both(p, i, j) /\ todo = <<j>> /\ cpu = Execute(Start(x, y, c), i)
     \/ todo = <<>> /\ Computes(cpu, spec)
WideInv == part = "wide" => \E x, y, c, p : At(x, y, c, p)

(* A program begins there.                                                 *)
LEMMA WideStart ==
  IInit => WideInv
<1>. SUFFICES ASSUME IInit, part = "wide" PROVE \E x, y, c, p : At(x, y, c, p)
  BY DEF WideInv
<1>1. WideInit
  BY DEF IInit, WideInit, ShiftInit, TwinsInit, MemoryInit, ExpandInit, CallsInit, DecodeInit
<1>. QED BY <1>1 DEF WideInit, At, Start

(* A step executes the next instruction of the program.                    *)
LEMMA WideKept ==
  ASSUME WideInv, [INext]_ivars
  PROVE  WideInv'
<1>. SUFFICES ASSUME part' = "wide" PROVE (\E x, y, c, p : At(x, y, c, p))'
  BY DEF WideInv
<1>1. part = "wide" /\ (WideStep \/ UNCHANGED ivars)
  BY Apart
<1>2. PICK x, y, c, p : At(x, y, c, p)
  BY <1>1 DEF WideInv
<1>3. /\ x \in 0 .. Range2 - 1 /\ y \in 0 .. Range2 - 1 /\ c \in BOOLEAN /\ p \in Pairs
      /\ spec = Result(p, x, y)
  BY <1>2 DEF At
<1>4. CASE UNCHANGED ivars
  BY <1>2, <1>4 DEF At, ivars
<1>5. CASE WideStep
  <2>0. spec' = spec /\ todo # <<>> /\ todo' = Tail(todo) /\ cpu' = Execute(cpu, Head(todo))
    BY <1>5 DEF WideStep
  <2>1. CASE todo = Program(p) /\ cpu = Start(x, y, c)
    <3>1. CASE \E i : Alone(p, i) /\ Computes(Execute(Start(x, y, c), i), Result(p, x, y))
      <4>1. PICK i : Alone(p, i) /\ Computes(Execute(Start(x, y, c), i), Result(p, x, y))
        BY <3>1
      <4>2. todo = <<i>>
        BY <2>1, <4>1 DEF Alone
      <4>3. todo' = <<>> /\ cpu' = Execute(Start(x, y, c), i)
        BY <2>0, <2>1, <4>2
      <4>. QED BY <1>3, <2>0, <4>1, <4>3 DEF At
    <3>2. CASE \E i, j : /\ Both(p, i, j)
                         /\ Computes(Execute(Execute(Start(x, y, c), i), j), Result(p, x, y))
      <4>1. PICK i, j : Both(p, i, j)
        BY <3>2
      <4>2. todo = <<i, j>>
        BY <2>1, <4>1 DEF Both
      <4>3. todo' = <<j>> /\ cpu' = Execute(Start(x, y, c), i)
        BY <2>0, <2>1, <4>2
      <4>. QED BY <1>3, <2>0, <4>1, <4>3 DEF At
    <3>. QED BY <1>3, <3>1, <3>2, ProgramsCompute
  <2>2. CASE \E i, j : Both(p, i, j) /\ todo = <<j>> /\ cpu = Execute(Start(x, y, c), i)
    <3>1. PICK i, j : Both(p, i, j) /\ todo = <<j>> /\ cpu = Execute(Start(x, y, c), i)
      BY <2>2
    <3>2. todo' = <<>> /\ cpu' = Execute(Execute(Start(x, y, c), i), j)
      BY <2>0, <3>1
    <3>3. \A k : ~Alone(p, k)
      BY <3>1 DEF Alone, Both
    <3>4. PICK i2, j2 : /\ Both(p, i2, j2)
                        /\ Computes(Execute(Execute(Start(x, y, c), i2), j2), Result(p, x, y))
      BY <1>3, <3>3, ProgramsCompute
    <3>5. i2 = i /\ j2 = j
      BY <3>1, <3>4 DEF Both
    <3>. QED BY <1>3, <2>0, <3>2, <3>4, <3>5 DEF At
  <2>. QED BY <1>2, <2>0, <2>1, <2>2 DEF At
<1>. QED BY <1>1, <1>4, <1>5

(* No program is empty, so one that has finished has computed.             *)
LEMMA WideDone ==
  WideInv => WideArithmetic
<1>. SUFFICES ASSUME WideInv, part = "wide", todo = <<>>
              PROVE  Computes(cpu, spec)
  BY DEF WideArithmetic, Computes, Base
<1>1. PICK x, y, c, p : At(x, y, c, p)
  BY DEF WideInv
<1>2. x \in 0 .. Range2 - 1 /\ y \in 0 .. Range2 - 1 /\ c \in BOOLEAN /\ p \in Pairs
  BY <1>1 DEF At
<1>3. Program(p) # <<>>
  BY <1>2, ProgramsCompute DEF Alone, Both
<1>. QED BY <1>1, <1>3 DEF At

(* For every register width: the carry that ADD, ADC, SUB, SBC, RSB, RSC,  *)
(* CMP, LSR, ASR and RRX pass on, and the long multiplications, make a     *)
(* pair of registers compute as one number of twice the width, and the     *)
(* conditions tell the order of such numbers.                              *)
THEOREM WideNumbers == ISpec => []WideArithmetic
<1>1. IInit => WideInv
  BY WideStart
<1>2. WideInv /\ [INext]_ivars => WideInv'
  BY WideKept
<1>3. WideInv => WideArithmetic
  BY WideDone
<1>. QED BY <1>1, <1>2, <1>3, PTL DEF ISpec

-----------------------------------------------------------------------------
(* Shifting by one bit more, as arithmetic: dividing by a and then by two  *)
(* is dividing by 2 * a, and the bit that leaves is the lowest of the      *)
(* quotient.                                                               *)
LEMMA HalveAgain ==
  ASSUME NEW a \in Nat, a > 0, NEW x \in Int
  PROVE  /\ x \div (2 * a) = (x \div a) \div 2
         /\ x % (2 * a) = (x % a) + a * ((x \div a) % 2)
<1>. DEFINE q == x \div a
            r == x % a
            h == q \div 2
            b == q % 2
<1>1. q \in Int /\ r \in Nat /\ r < a /\ x = a * q + r
  BY DivMod
<1>2. h \in Int /\ b \in Nat /\ b < 2 /\ q = 2 * h + b
  <2>. HIDE DEF q
  <2>. QED BY <1>1, DivMod
<1>. HIDE DEF q, r, h, b
<1>3. a * q = (2 * a) * h + a * b
  BY <1>1, <1>2
<1>4. a * b \in Nat /\ a * b <= a
  <2>1. b = 0 \/ b = 1
    BY <1>2
  <2>. QED BY <2>1
<1>5. x = (2 * a) * h + (r + a * b) /\ r + a * b \in Nat /\ r + a * b < 2 * a
  <2>. DEFINE aq == a * q
              ah == (2 * a) * h
              ab == a * b
  <2>1. aq \in Int /\ ah \in Int /\ x = aq + r /\ aq = ah + ab /\ ab \in Nat /\ ab <= a
    BY <1>1, <1>2, <1>3, <1>4
  <2>. HIDE DEF aq, ah, ab
  <2>2. x = ah + (r + ab) /\ r + ab \in Nat /\ r + ab < 2 * a
    BY <1>1, <2>1
  <2>. QED BY <2>2 DEF aq, ah, ab
<1>6. 2 * a \in Nat /\ 2 * a > 0
  OBVIOUS
<1>7. x % (2 * a) = r + a * b /\ x \div (2 * a) = h
  BY <1>2, <1>5, <1>6, OneQuotient
<1>. QED BY <1>7 DEF q, r, h, b

(* A rotation by one bit more: of x the part above the lowest k bits has   *)
(* moved down and those k bits are on top (a = 2^k, h = 2^(width - k - 1)). *)
Turned(x, a, g) == (x \div a) + (x % a) * g
(* The lowest bit of what has moved down goes to the top.                  *)
LEMMA TurnAgain ==
  ASSUME NEW a \in Nat, a > 0, NEW h \in Nat, h > 0, NEW x \in Nat
  PROVE  LET y == Turned(x, a, 2 * h)
         IN  /\ y \in Nat
             /\ y % 2 = (x \div a) % 2
             /\ (y \div 2) + (y % 2) * (a * h) = Turned(x, 2 * a, h)
<1>. DEFINE q == x \div a
            r == x % a
            p == q \div 2
            b == q % 2
            y == Turned(x, a, 2 * h)
<1>1. q \in Int /\ r \in Nat /\ r < a /\ x = a * q + r
  BY DivMod
<1>1a. q \in Nat
  <2>1. x \div a >= 0
    OBVIOUS
  <2>. QED BY <1>1, <2>1
<1>2. p \in Nat /\ b \in Nat /\ b < 2 /\ q = 2 * p + b
  <2>. HIDE DEF q
  <2>. QED BY <1>1a
<1>3. y = q + r * (2 * h)
  BY DEF Turned
<1>4. x \div (2 * a) = p /\ x % (2 * a) = r + a * b
  <2>1. x \in Int
    OBVIOUS
  <2>. QED BY <2>1, HalveAgain, Zenon
<1>. HIDE DEF q, r, p, b, y
<1>5. r * (2 * h) = 2 * (r * h) /\ r * h \in Nat
  BY <1>1
<1>6. y = 2 * (p + r * h) + b /\ p + r * h \in Int /\ y \in Nat
  BY <1>2, <1>3, <1>5
<1>7. y % 2 = b /\ y \div 2 = p + r * h
  BY <1>2, <1>6, OneQuotient
<1>8. (r + a * b) * h = r * h + b * (a * h)
  BY <1>1, <1>2
<1>9. Turned(x, 2 * a, h) = p + (r * h + b * (a * h))
  BY <1>4, <1>8 DEF Turned
<1>10. a * h \in Nat /\ b * (a * h) \in Nat
  BY <1>2
<1>11. (y \div 2) + (y % 2) * (a * h) = Turned(x, 2 * a, h)
  BY <1>2, <1>5, <1>7, <1>9, <1>10
<1>. QED BY <1>6, <1>7, <1>11 DEF y, b, q

-----------------------------------------------------------------------------
(* The register that is shifted.                                           *)
FullRange == 2^AluBits
HalfRange == 2^(AluBits - 1)
Values == 0 .. FullRange - 1
SignedValue(v) == IF v >= HalfRange THEN v - FullRange ELSE v

(* The powers of two that occur, from the assumption on the widths.        *)
LEMMA Powers ==
  /\ 2^0 = 1 /\ 2^1 = 2
  /\ FullRange \in Nat /\ FullRange > 0 /\ HalfRange \in Nat /\ HalfRange > 0
       /\ FullRange = 2 * HalfRange
  /\ \A n \in 0 .. AluBits :
       /\ 2^n \in Nat /\ 2^n > 0
       /\ 2^(n + 1) = 2 * 2^n
       /\ 2^(AluBits - n) \in Nat /\ 2^(AluBits - n) > 0
       /\ 2^(AluBits + 1 - n) = 2 * 2^(AluBits - n)
       /\ 2^n * 2^(AluBits - n) = FullRange
  /\ \A n \in 0 .. AluBits - 1 :
       /\ 2^(AluBits - n - 1) \in Nat /\ 2^(AluBits - n - 1) > 0
       /\ 2^(AluBits - n) = 2 * 2^(AluBits - n - 1)
       /\ 2^n * 2^(AluBits - n - 1) = HalfRange
<1>. DEFINE W == AluBits
            P(i) == 2^i
<1>0. W \in Nat /\ W > 0 /\ P(0) = 1 /\ P(1) = 2
  BY WidthAssumption
<1>1. /\ \A i \in 0 .. W + 1 : P(i) \in Nat /\ P(i) > 0
      /\ \A i, j \in 0 .. W + 1 : P(i + j) = P(i) * P(j)
  BY WidthAssumption
<1>. SUFFICES
      /\ P(W) \in Nat /\ P(W) > 0 /\ P(W - 1) \in Nat /\ P(W - 1) > 0 /\ P(W) = 2 * P(W - 1)
      /\ \A n \in 0 .. W :
           /\ P(n) \in Nat /\ P(n) > 0
           /\ P(n + 1) = 2 * P(n)
           /\ P(W - n) \in Nat /\ P(W - n) > 0
           /\ P(W + 1 - n) = 2 * P(W - n)
           /\ P(n) * P(W - n) = P(W)
      /\ \A n \in 0 .. W - 1 :
           /\ P(W - n - 1) \in Nat /\ P(W - n - 1) > 0
           /\ P(W - n) = 2 * P(W - n - 1)
           /\ P(n) * P(W - n - 1) = P(W - 1)
  BY <1>0 DEF FullRange, HalfRange
<1>. HIDE DEF W, P
<1>2. /\ P(W) \in Nat /\ P(W) > 0 /\ P(W - 1) \in Nat /\ P(W - 1) > 0
  <2>1. W \in 0 .. W + 1 /\ W - 1 \in 0 .. W + 1
    BY <1>0
  <2>. QED BY <1>1, <2>1
<1>3. \A n \in 0 .. W : P(n + 1) = 2 * P(n)
  <2>. TAKE n \in 0 .. W
  <2>1. P(1 + n) = P(1) * P(n)
    BY <1>0, <1>1
  <2>2. 1 + n = n + 1
    BY <1>0
  <2>. QED BY <1>0, <2>1, <2>2
<1>4. \A n \in 0 .. W :
           /\ P(n) \in Nat /\ P(n) > 0
           /\ P(W - n) \in Nat /\ P(W - n) > 0
           /\ P(W + 1 - n) = 2 * P(W - n)
           /\ P(n) * P(W - n) = P(W)
  <2>. TAKE n \in 0 .. W
  <2>1. W - n \in 0 .. W /\ (W - n) + 1 = W + 1 - n /\ n + (W - n) = W
    BY <1>0
  <2>2. P(n + (W - n)) = P(n) * P(W - n)
    BY <1>0, <1>1, <2>1
  <2>. QED BY <1>0, <1>1, <1>3, <2>1, <2>2
<1>5. \A n \in 0 .. W - 1 :
           /\ P(W - n - 1) \in Nat /\ P(W - n - 1) > 0
           /\ P(W - n) = 2 * P(W - n - 1)
           /\ P(n) * P(W - n - 1) = P(W - 1)
  <2>. TAKE n \in 0 .. W - 1
  <2>1. W - n - 1 \in 0 .. W /\ (W - n - 1) + 1 = W - n /\ n + (W - n - 1) = W - 1
          /\ n \in 0 .. W
    BY <1>0
  <2>2. P(n + (W - n - 1)) = P(n) * P(W - n - 1)
    BY <1>0, <1>1, <2>1
  <2>. QED BY <1>0, <1>1, <1>3, <2>1, <2>2
<1>6. P(W) = 2 * P(W - 1)
  <2>1. W - 1 \in 0 .. W /\ (W - 1) + 1 = W
    BY <1>0
  <2>. QED BY <1>3, <2>1
<1>. QED BY <1>2, <1>3, <1>4, <1>5, <1>6

(* The lowest and the highest bit of a register.                           *)
LEMMA EndBits ==
  ASSUME NEW v \in Values
  PROVE  /\ ArmAlu!BIT(v, 0) <=> v % 2 = 1
         /\ ArmAlu!BIT(v, AluBits - 1) <=> v >= HalfRange
         /\ ArmAlu!Signed(v) = SignedValue(v)
         /\ AluBits = 1 => (v % 2 = 1 <=> v >= HalfRange)
<1>1. /\ HalfRange \in Nat /\ HalfRange > 0 /\ v \in Nat /\ v < 2 * HalfRange /\ 2^0 = 1
  BY Powers DEF Values
<1>2. ArmAlu!BIT(v, 0) <=> v % 2 = 1
  <2>1. v \div 1 = v
    BY <1>1
  <2>. QED BY <1>1, <2>1 DEF ArmAlu!BIT
<1>3. CASE v >= HalfRange
  <2>1. v \div HalfRange = 1
    BY <1>1, <1>3
  <2>2. ArmAlu!BIT(v, AluBits - 1)
    BY <1>3, <2>1 DEF ArmAlu!BIT, HalfRange
  <2>3. AluBits = 1 => v % 2 = 1
    BY <1>2, <2>2
  <2>. QED BY <1>2, <1>3, <2>2, <2>3 DEF ArmAlu!Signed, SignedValue, FullRange
<1>4. CASE ~(v >= HalfRange)
  <2>1. v \div HalfRange = 0
    BY <1>1, <1>4
  <2>2. ~ArmAlu!BIT(v, AluBits - 1)
    BY <1>4, <2>1 DEF ArmAlu!BIT, HalfRange
  <2>3. AluBits = 1 => v % 2 # 1
    BY <1>2, <2>2
  <2>. QED BY <1>2, <1>4, <2>2, <2>3 DEF ArmAlu!Signed, SignedValue, FullRange
<1>. QED BY <1>3, <1>4

(* What barrel_shift by a register gives, case by case.                    *)
By(v, ty, n, c) == ArmAlu!barrel_shift(v, ty, n, c, TRUE)
Pair(x, b) == [v |-> x, c |-> b]

(* By 0: nothing changes, not even the carry.                              *)
LEMMA ByNothing ==
  ASSUME NEW v, NEW ty, NEW c
  PROVE  By(v, ty, 0, c) = Pair(v, c)
<1>1. ~(0 >= AluBits) /\ 0 \notin 1 .. AluBits - 1
  BY WidthAssumption
<1>. QED BY <1>1 DEF By, Pair, ArmAlu!barrel_shift, ArmAlu!ShiftByRegister

(* By less than the width.                                                 *)
LEMMA ByLess ==
  ASSUME NEW v, NEW c, NEW n \in 1 .. AluBits - 1
  PROVE  /\ By(v, "LSL", n, c) = Pair((v * 2^n) % FullRange, ArmAlu!BIT(v, AluBits - n))
         /\ By(v, "LSR", n, c) = Pair(v \div 2^n, ArmAlu!BIT(v, n - 1))
         /\ By(v, "ASR", n, c)
              = Pair((ArmAlu!Signed(v) \div 2^n) % FullRange, ArmAlu!BIT(v, n - 1))
<1>0. AluBits \in Nat
  BY WidthAssumption
<1>1. n # 0 /\ ~(n >= AluBits)
  BY <1>0
<1>2. \A ty \in {"LSL", "LSR", "ASR"} : By(v, ty, n, c) = ArmAlu!ShiftBy(v, ty, n)
  BY <1>1 DEF By, ArmAlu!barrel_shift, ArmAlu!ShiftByRegister
<1>3. /\ ArmAlu!ShiftBy(v, "LSL", n) = Pair((v * 2^n) % FullRange, ArmAlu!BIT(v, AluBits - n))
      /\ ArmAlu!ShiftBy(v, "LSR", n) = Pair(v \div 2^n, ArmAlu!BIT(v, n - 1))
      /\ ArmAlu!ShiftBy(v, "ASR", n)
           = Pair((ArmAlu!Signed(v) \div 2^n) % FullRange, ArmAlu!BIT(v, n - 1))
  BY DEF ArmAlu!ShiftBy, ArmAlu!Wrap, Pair, FullRange
<1>. QED BY <1>2, <1>3

(* By the width or more.                                                   *)
LEMMA ByMore ==
  ASSUME NEW v, NEW c, NEW n \in Nat, n >= AluBits
  PROVE  /\ By(v, "LSL", n, c) = Pair(0, n = AluBits /\ ArmAlu!BIT(v, 0))
         /\ By(v, "LSR", n, c) = Pair(0, n = AluBits /\ ArmAlu!BIT(v, AluBits - 1))
         /\ By(v, "ASR", n, c) = Pair(IF ArmAlu!BIT(v, AluBits - 1) THEN FullRange - 1 ELSE 0,
                                      ArmAlu!BIT(v, AluBits - 1))
<1>0. AluBits \in Nat /\ AluBits > 0
  BY WidthAssumption
<1>1. n # 0 /\ n \notin 1 .. AluBits - 1
  BY <1>0
<1>. QED BY <1>1 DEF By, ArmAlu!barrel_shift, ArmAlu!ShiftByRegister, Pair, FullRange

(* A rotation takes the amount modulo the width.                           *)
LEMMA ByRor ==
  ASSUME NEW v, NEW c, NEW n \in Nat, n # 0
  PROVE  /\ n % AluBits = 0 => By(v, "ROR", n, c) = Pair(v, ArmAlu!BIT(v, AluBits - 1))
         /\ n % AluBits # 0 =>
              By(v, "ROR", n, c) = Pair(ArmAlu!RotateRight(v, n % AluBits),
                                        ArmAlu!BIT(v, (n % AluBits) - 1))
<1>1. ArmAlu!ShiftBy(v, "ROR", n % AluBits)
        = Pair(ArmAlu!RotateRight(v, n % AluBits), ArmAlu!BIT(v, (n % AluBits) - 1))
  BY DEF ArmAlu!ShiftBy, Pair
<1>. QED BY <1>1 DEF By, Pair, ArmAlu!barrel_shift, ArmAlu!ShiftByRegister

(* A shift by one bit.                                                     *)
LEMMA OneBit ==
  ASSUME NEW x \in Values, NEW c \in BOOLEAN
  PROVE  /\ By(x, "LSL", 1, c) = Pair((2 * x) % FullRange, x >= HalfRange)
         /\ By(x, "LSR", 1, c) = Pair(x \div 2, x % 2 = 1)
         /\ By(x, "ASR", 1, c) = Pair((SignedValue(x) \div 2) % FullRange, x % 2 = 1)
         /\ By(x, "ROR", 1, c) = Pair((x \div 2) + (x % 2) * HalfRange, x % 2 = 1)
<1>0. /\ HalfRange \in Nat /\ HalfRange > 0 /\ FullRange \in Nat
           /\ FullRange = 2 * HalfRange /\ x \in Nat /\ x < FullRange
      /\ 2^1 = 2 /\ 2^0 = 1 /\ AluBits \in Nat /\ AluBits > 0
  BY Powers, WidthAssumption DEF Values
<1>1. /\ ArmAlu!BIT(x, 0) <=> x % 2 = 1
      /\ ArmAlu!BIT(x, AluBits - 1) <=> x >= HalfRange
      /\ ArmAlu!Signed(x) = SignedValue(x)
  BY EndBits
<1>2. CASE AluBits # 1
  <2>1. 1 \in 1 .. AluBits - 1 /\ 1 - 1 = 0 /\ x * 2 = 2 * x
    BY <1>0, <1>2
  <2>2. /\ By(x, "LSL", 1, c) = Pair((x * 2^1) % FullRange, ArmAlu!BIT(x, AluBits - 1))
        /\ By(x, "LSR", 1, c) = Pair(x \div 2^1, ArmAlu!BIT(x, 1 - 1))
        /\ By(x, "ASR", 1, c)
             = Pair((ArmAlu!Signed(x) \div 2^1) % FullRange, ArmAlu!BIT(x, 1 - 1))
    BY <2>1, ByLess
  <2>3. 1 % AluBits = 1
    BY <1>0, <1>2
  <2>4. By(x, "ROR", 1, c) = Pair(ArmAlu!RotateRight(x, 1), ArmAlu!BIT(x, 1 - 1))
    BY <2>3, ByRor
  <2>5. ArmAlu!RotateRight(x, 1) = (x \div 2) + ((x * HalfRange) % FullRange)
    BY <1>0 DEF ArmAlu!RotateRight, ArmAlu!Wrap, HalfRange, FullRange
  <2>6. (x * HalfRange) % FullRange = (x % 2) * HalfRange
    <3>. DEFINE q == x \div 2
                b == x % 2
    <3>1. q \in Nat /\ b \in Nat /\ b < 2 /\ x = 2 * q + b
      BY <1>0
    <3>. HIDE DEF q, b
    <3>2. x * HalfRange = FullRange * q + b * HalfRange
      BY <1>0, <3>1
    <3>3. b * HalfRange \in Nat /\ b * HalfRange < FullRange
      <4>1. b = 0 \/ b = 1
        BY <3>1
      <4>. QED BY <1>0, <4>1
    <3>4. x * HalfRange \in Int /\ FullRange > 0
      BY <1>0
    <3>5. (x * HalfRange) % FullRange = b * HalfRange
      <4>. DEFINE a == x * HalfRange
                  r == b * HalfRange
      <4>1. a \in Int /\ r \in Nat /\ r < FullRange /\ a = FullRange * q + r /\ q \in Int
        BY <3>1, <3>2, <3>3, <3>4
      <4>. HIDE DEF a, r
      <4>2. a % FullRange = r
        BY <1>0, <3>4, <4>1, OneQuotient
      <4>. QED BY <4>2 DEF a, r
    <3>. QED BY <3>5 DEF b
  <2>7. /\ ArmAlu!BIT(x, 1 - 1) = (x % 2 = 1)
        /\ ArmAlu!BIT(x, AluBits - 1) = (x >= HalfRange)
    BY <1>1, <2>1 DEF ArmAlu!BIT
  <2>8. By(x, "LSL", 1, c) = Pair((2 * x) % FullRange, x >= HalfRange)
    <3>1. x * 2^1 = 2 * x
      BY <1>0
    <3>. QED BY <2>2, <2>7, <3>1, Zenon
  <2>9. By(x, "LSR", 1, c) = Pair(x \div 2, x % 2 = 1)
    BY <1>0, <2>2, <2>7, Zenon
  <2>10. By(x, "ASR", 1, c) = Pair((SignedValue(x) \div 2) % FullRange, x % 2 = 1)
    <3>1. ArmAlu!Signed(x) \div 2^1 = SignedValue(x) \div 2
      BY <1>0, <1>1, Zenon
    <3>. QED BY <2>2, <2>7, <3>1, Zenon
  <2>11. By(x, "ROR", 1, c) = Pair((x \div 2) + (x % 2) * HalfRange, x % 2 = 1)
    <3>1. ArmAlu!RotateRight(x, 1) = (x \div 2) + (x % 2) * HalfRange
      BY <2>5, <2>6, Zenon
    <3>2. ArmAlu!BIT(x, 1 - 1) = (x % 2 = 1)
      BY <2>7
    <3>. QED BY <2>4, <3>1, <3>2, Zenon
  <2>. QED BY <2>8, <2>9, <2>10, <2>11
<1>3. CASE AluBits = 1
  <2>0. HalfRange = 1 /\ FullRange = 2 /\ (x = 0 \/ x = 1)
    BY <1>0, <1>3 DEF HalfRange
  <2>1. /\ By(x, "LSL", 1, c) = Pair(0, ArmAlu!BIT(x, 0))
        /\ By(x, "LSR", 1, c) = Pair(0, ArmAlu!BIT(x, 0))
        /\ By(x, "ASR", 1, c) = Pair(IF ArmAlu!BIT(x, 0) THEN FullRange - 1 ELSE 0,
             ArmAlu!BIT(x, 0))
    <3>1. 1 \in Nat /\ 1 >= AluBits /\ AluBits - 1 = 0
      BY <1>3
    <3>2. (1 = AluBits /\ ArmAlu!BIT(x, 0)) = ArmAlu!BIT(x, 0)
      BY <1>3 DEF ArmAlu!BIT
    <3>3. /\ By(x, "LSL", 1, c) = Pair(0, 1 = AluBits /\ ArmAlu!BIT(x, 0))
          /\ By(x, "LSR", 1, c) = Pair(0, 1 = AluBits /\ ArmAlu!BIT(x, AluBits - 1))
          /\ By(x, "ASR", 1, c) = Pair(IF ArmAlu!BIT(x, AluBits - 1) THEN FullRange - 1 ELSE 0,
                                       ArmAlu!BIT(x, AluBits - 1))
      BY <3>1, ByMore
    <3>. QED BY <3>1, <3>2, <3>3, Zenon
  <2>2. 1 % AluBits = 0 /\ By(x, "ROR", 1, c) = Pair(x, ArmAlu!BIT(x, 0))
    BY <1>3, ByRor
  <2>3. x >= HalfRange <=> x % 2 = 1
    BY <1>1, <1>3
  <2>4. /\ (2 * x) % FullRange = 0 /\ x \div 2 = 0 /\ (x \div 2) + (x % 2) * HalfRange = x
        /\ (SignedValue(x) \div 2) % FullRange = IF x % 2 = 1 THEN FullRange - 1 ELSE 0
    BY <2>0 DEF SignedValue
  <2>5. /\ ArmAlu!BIT(x, 0) = (x % 2 = 1)
        /\ (x >= HalfRange) = (x % 2 = 1)
    BY <1>1, <2>3 DEF ArmAlu!BIT
  <2>. QED BY <2>1, <2>2, <2>4, <2>5, Zenon
<1>. QED BY <1>2, <1>3

(* LSL: the bits that stay are a remainder, the bit that leaves is the     *)
(* lowest of the quotient (a = 2^n, h = 2^(width - n - 1)).                *)
Doubled(F, a, h) == F = 2 * (a * h)
LeftShifted(v, a, h, F) ==
  LET x == (v * a) % F
  IN  /\ x \in 0 .. F - 1
      /\ (2 * x) % F = (v % h) * (2 * a)
      /\ (v * (2 * a)) % F = (v % h) * (2 * a)
      /\ x >= a * h <=> (v \div h) % 2 = 1
(* Doubling what stayed, and doubling the factor, keep the same bits.      *)
LEMMA LeftAgain ==
  ASSUME NEW a \in Nat, a > 0, NEW h \in Nat, h > 0, NEW v \in Nat,
         NEW F \in Nat, Doubled(F, a, h)
  PROVE  LeftShifted(v, a, h, F)
<1>. DEFINE q == v \div h
            r == v % h
            p == q \div 2
            b == q % 2
            u == a * h
            ra == r * a
<1>1. q \in Int /\ r \in Nat /\ r < h /\ v = h * q + r
  BY DivMod
<1>2. p \in Int /\ b \in Nat /\ b < 2 /\ q = 2 * p + b
  <2>. HIDE DEF q
  <2>. QED BY <1>1, DivMod
<1>. HIDE DEF q, r, p, b
<1>3. u \in Nat /\ u > 0 /\ ra \in Nat /\ F = 2 * u
  BY <1>1 DEF Doubled
<1>4. ra < u
  <2>1. (r + 1) * a <= h * a
    BY <1>1
  <2>2. (r + 1) * a = ra + a /\ h * a = u
    BY <1>1
  <2>. QED BY <1>3, <2>1, <2>2
<1>5. v * a = u * q + ra
  BY <1>1
<1>. HIDE DEF u, ra
<1>6. u * q = F * p + u * b
  BY <1>2, <1>3
<1>7. b = 0 \/ b = 1
  BY <1>2
<1>. DEFINE x == (v * a) % F
            up == F * p
            va == v * a
<1>8. x = ra + u * b
  <2>1. va \in Int /\ up \in Int /\ F > 0
    BY <1>2, <1>3
  <2>2. va = up + (ra + u * b)
    BY <1>3, <1>5, <1>6, <1>7, <2>1
  <2>3. ra + u * b \in Nat /\ ra + u * b < F
    BY <1>3, <1>4, <1>7
  <2>. DEFINE s == ra + u * b
  <2>. HIDE DEF va, s
  <2>4. va = F * p + s /\ s \in Nat /\ s < F
    BY <2>2, <2>3 DEF s
  <2>5. va % F = s
    BY <1>2, <2>1, <2>4, OneQuotient
  <2>. QED BY <2>5 DEF s, va
<1>9. x \in 0 .. F - 1
  BY <1>3, <1>4, <1>7, <1>8
<1>10. x >= u <=> b = 1
  BY <1>3, <1>4, <1>7, <1>8
<1>11. (2 * x) % F = 2 * ra
  <2>1. 2 * x = F * b + 2 * ra
    BY <1>3, <1>7, <1>8
  <2>2. 2 * ra \in Nat /\ 2 * ra < F /\ F > 0 /\ 2 * x \in Int /\ b \in Int
    BY <1>2, <1>3, <1>4, <1>9
  <2>. DEFINE y == 2 * x
              s == 2 * ra
  <2>. HIDE DEF y, s
  <2>3. y = F * b + s /\ s \in Nat /\ s < F /\ y \in Int
    BY <2>1, <2>2 DEF y, s
  <2>4. y % F = s
    BY <2>2, <2>3, OneQuotient
  <2>. QED BY <2>4 DEF y, s
<1>12. (v * (2 * a)) % F = 2 * ra
  <2>1. v * (2 * a) = 2 * va
    OBVIOUS
  <2>2. va = u * q + ra /\ u * q \in Int /\ va \in Int
    BY <1>1, <1>3, <1>5
  <2>3. F * q = 2 * (u * q)
    BY <1>1, <1>3
  <2>. DEFINE y == v * (2 * a)
              s == 2 * ra
  <2>. HIDE DEF va
  <2>4. y = F * q + s /\ s \in Nat /\ s < F /\ y \in Int
    BY <1>3, <1>4, <2>1, <2>2, <2>3
  <2>. HIDE DEF y, s
  <2>5. y % F = s
    BY <1>1, <1>3, <2>4, OneQuotient
  <2>. QED BY <2>5 DEF y, s
<1>13. r * (2 * a) = 2 * ra
  BY <1>1 DEF ra
<1>. QED BY <1>9, <1>10, <1>11, <1>12, <1>13 DEF u, q, r, b, LeftShifted

(* A shift by n + 1 is a shift by n and then by one bit: for each kind.    *)
Repeats(ty, v, c, n) ==
  LET x == By(v, ty, n, c)
  IN  /\ x.v \in Values /\ x.c \in BOOLEAN
      /\ By(x.v, ty, 1, x.c) = By(v, ty, n + 1, c)

(* From no shift to one bit.                                               *)
LEMMA FromNothing ==
  ASSUME NEW v \in Values, NEW c \in BOOLEAN, NEW ty
  PROVE  Repeats(ty, v, c, 0)
<1>1. By(v, ty, 0, c) = Pair(v, c)
  BY ByNothing
<1>2. 0 + 1 = 1
  OBVIOUS
<1>. QED BY <1>1, <1>2 DEF Repeats, Pair

(* Value and carry of such a record.                                       *)
LEMMA PairParts ==
  ASSUME NEW x, NEW b
  PROVE  Pair(x, b).v = x /\ Pair(x, b).c = b
BY DEF Pair

(* LSL: below the width by LeftAgain; beyond it nothing is left.           *)
LEMMA LslRepeats ==
  ASSUME NEW v \in Values, NEW c \in BOOLEAN, NEW n \in Nat
  PROVE  Repeats("LSL", v, c, n)
<1>. DEFINE W == AluBits
<1>0. /\ W \in Nat /\ W > 0 /\ FullRange \in Nat /\ FullRange > 0 /\ HalfRange \in Nat
           /\ HalfRange > 0
      /\ FullRange = 2 * HalfRange /\ v \in Nat /\ v < FullRange /\ 2^0 = 1
  BY Powers, WidthAssumption DEF Values
<1>1. CASE n = 0
  BY <1>1, FromNothing
<1>2. CASE n \in 1 .. W - 1
  <2>. DEFINE a == 2^n
              h == 2^(W - n - 1)
              x == (v * a) % FullRange
              b == ArmAlu!BIT(v, W - n)
  <2>1. n \in 0 .. W /\ n \in 0 .. W - 1
    BY <1>0, <1>2
  <2>2. /\ a \in Nat /\ a > 0 /\ h \in Nat /\ h > 0 /\ a * h = HalfRange /\ 2^(n + 1) = 2 * a
    BY <2>1, Powers
  <2>3. By(v, "LSL", n, c) = Pair(x, b)
    BY <1>2, ByLess
  <2>4. b \in BOOLEAN
    BY DEF ArmAlu!BIT
  <2>5. ArmAlu!BIT(v, W - n - 1) = ((v \div h) % 2 = 1)
    BY Zenon DEF ArmAlu!BIT
  <2>. HIDE DEF a, h
  <2>6. FullRange = 2 * (a * h)
    BY <1>0, <2>2
  <2>7. /\ x \in 0 .. FullRange - 1
        /\ (2 * x) % FullRange = (v % h) * (2 * a)
        /\ (v * (2 * a)) % FullRange = (v % h) * (2 * a)
        /\ x >= a * h <=> (v \div h) % 2 = 1
    <3>1. Doubled(FullRange, a, h)
      BY <2>6 DEF Doubled
    <3>2. LeftShifted(v, a, h, FullRange)
      BY <1>0, <2>2, <3>1, LeftAgain
    <3>. QED BY <3>2, Zenon DEF LeftShifted
  <2>. HIDE DEF x, b
  <2>8. x \in Values /\ (x >= HalfRange) = ((v \div h) % 2 = 1)
    BY <2>2, <2>7 DEF Values
  <2>9. By(x, "LSL", 1, b) = Pair((v % h) * (2 * a), ArmAlu!BIT(v, W - n - 1))
    <3>1. By(x, "LSL", 1, b) = Pair((2 * x) % FullRange, x >= HalfRange)
      BY <2>4, <2>8, OneBit
    <3>. QED BY <2>5, <2>7, <2>8, <3>1, Zenon
  <2>10. By(v, "LSL", n + 1, c) = Pair((v % h) * (2 * a), ArmAlu!BIT(v, W - n - 1))
    <3>1. CASE n + 1 \in 1 .. W - 1
      <4>1. By(v, "LSL", n + 1, c)
              = Pair((v * 2^(n + 1)) % FullRange, ArmAlu!BIT(v, W - (n + 1)))
        BY <3>1, ByLess
      <4>2. W - (n + 1) = W - n - 1
        BY <1>0
      <4>. QED BY <2>2, <2>7, <4>1, <4>2, Zenon
    <3>2. CASE n + 1 = W
      <4>1. By(v, "LSL", W, c) = Pair(0, W = W /\ ArmAlu!BIT(v, 0))
        BY <1>0, ByMore
      <4>0. W - n - 1 = 0
        BY <1>0, <3>2
      <4>2. W - n - 1 = 0 /\ h = 1
        BY <1>0, <4>0, Zenon DEF h
      <4>3. v % h = 0 /\ 0 * (2 * a) = 0
        BY <1>0, <2>2, <4>2
      <4>4. (W = W /\ ArmAlu!BIT(v, 0)) = ArmAlu!BIT(v, 0)
        BY DEF ArmAlu!BIT
      <4>. QED BY <3>2, <4>1, <4>2, <4>3, <4>4, Zenon
    <3>. QED BY <1>0, <1>2, <3>1, <3>2
  <2>11. By(v, "LSL", n, c).v = x /\ By(v, "LSL", n, c).c = b
    BY <2>3, PairParts
  <2>. QED BY <2>4, <2>8, <2>9, <2>10, <2>11, Zenon DEF Repeats
<1>3. CASE n >= W
  <2>1. n + 1 \in Nat /\ n + 1 >= W /\ n + 1 # W
    BY <1>0, <1>3
  <2>2. /\ By(v, "LSL", n, c) = Pair(0, n = W /\ ArmAlu!BIT(v, 0))
        /\ By(v, "LSL", n + 1, c) = Pair(0, n + 1 = W /\ ArmAlu!BIT(v, 0))
    BY <1>3, <2>1, ByMore
  <2>3. (n + 1 = W /\ ArmAlu!BIT(v, 0)) = (0 >= HalfRange)
    BY <1>0, <2>1
  <2>4. 0 \in Values /\ (2 * 0) % FullRange = 0
    BY <1>0 DEF Values
  <2>. DEFINE b == n = W /\ ArmAlu!BIT(v, 0)
  <2>5. b \in BOOLEAN
    OBVIOUS
  <2>. HIDE DEF b
  <2>6. By(0, "LSL", 1, b) = Pair((2 * 0) % FullRange, 0 >= HalfRange)
    BY <2>4, <2>5, OneBit
  <2>7. By(v, "LSL", n, c).v = 0 /\ By(v, "LSL", n, c).c = b
    BY <2>2, PairParts DEF b
  <2>. QED BY <2>2, <2>3, <2>4, <2>5, <2>6, <2>7, Zenon DEF Repeats
<1>. QED BY <1>0, <1>1, <1>2, <1>3

(* LSR: below the width by HalveAgain; beyond it nothing is left.          *)
LEMMA LsrRepeats ==
  ASSUME NEW v \in Values, NEW c \in BOOLEAN, NEW n \in Nat
  PROVE  Repeats("LSR", v, c, n)
<1>. DEFINE W == AluBits
<1>0. /\ W \in Nat /\ W > 0 /\ FullRange \in Nat /\ FullRange > 0 /\ HalfRange \in Nat
           /\ HalfRange > 0
      /\ FullRange = 2 * HalfRange /\ v \in Nat /\ v < FullRange
  BY Powers, WidthAssumption DEF Values
<1>1. CASE n = 0
  BY <1>1, FromNothing
<1>2. CASE n \in 1 .. W - 1
  <2>. DEFINE a == 2^n
              x == v \div a
              b == ArmAlu!BIT(v, n - 1)
  <2>1. n \in 0 .. W /\ (n + 1) - 1 = n
    BY <1>0, <1>2
  <2>2. a \in Nat /\ a > 0 /\ 2^(n + 1) = 2 * a
    BY <2>1, Powers
  <2>3. By(v, "LSR", n, c) = Pair(x, b)
    BY <1>2, ByLess
  <2>4. b \in BOOLEAN
    BY DEF ArmAlu!BIT
  <2>5. ArmAlu!BIT(v, n) = (x % 2 = 1)
    BY Zenon DEF ArmAlu!BIT
  <2>. HIDE DEF a
  <2>6. v \div (2 * a) = x \div 2
    BY <1>0, <2>2, HalveAgain
  <2>7. x \in Values
    <3>1. x >= 0 /\ x <= v /\ x \in Int
      BY <1>0, <2>2
    <3>. QED BY <1>0, <3>1 DEF Values
  <2>. HIDE DEF x, b
  <2>8. By(x, "LSR", 1, b) = Pair(x \div 2, x % 2 = 1)
    BY <2>4, <2>7, OneBit
  <2>9. By(v, "LSR", n + 1, c) = Pair(x \div 2, x % 2 = 1)
    <3>1. CASE n + 1 \in 1 .. W - 1
      <4>1. By(v, "LSR", n + 1, c) = Pair(v \div 2^(n + 1), ArmAlu!BIT(v, (n + 1) - 1))
        BY <3>1, ByLess
      <4>. QED BY <2>1, <2>2, <2>5, <2>6, <4>1, Zenon
    <3>2. CASE n + 1 = W
      <4>1. By(v, "LSR", W, c) = Pair(0, W = W /\ ArmAlu!BIT(v, W - 1))
        BY <1>0, ByMore
      <4>2. 2 * a = FullRange
        BY <2>2, <3>2, Zenon DEF FullRange
      <4>3. v \div FullRange = 0
        BY <1>0
      <4>4. (W = W /\ ArmAlu!BIT(v, W - 1)) = (x % 2 = 1)
        <5>1. W - 1 = n
          BY <1>0, <3>2
        <5>. QED BY <2>5, <5>1, Zenon
      <4>. QED BY <2>6, <3>2, <4>1, <4>2, <4>3, <4>4, Zenon
    <3>. QED BY <1>0, <1>2, <3>1, <3>2
  <2>10. By(v, "LSR", n, c).v = x /\ By(v, "LSR", n, c).c = b
    BY <2>3, PairParts
  <2>. QED BY <2>4, <2>7, <2>8, <2>9, <2>10, Zenon DEF Repeats
<1>3. CASE n >= W
  <2>1. n + 1 \in Nat /\ n + 1 >= W /\ n + 1 # W
    BY <1>0, <1>3
  <2>2. /\ By(v, "LSR", n, c) = Pair(0, n = W /\ ArmAlu!BIT(v, W - 1))
        /\ By(v, "LSR", n + 1, c) = Pair(0, n + 1 = W /\ ArmAlu!BIT(v, W - 1))
    BY <1>3, <2>1, ByMore
  <2>3. (n + 1 = W /\ ArmAlu!BIT(v, W - 1)) = (0 % 2 = 1)
    BY <1>0, <2>1
  <2>4. 0 \in Values /\ 0 \div 2 = 0
    BY <1>0 DEF Values
  <2>. DEFINE b == n = W /\ ArmAlu!BIT(v, W - 1)
  <2>5. b \in BOOLEAN
    OBVIOUS
  <2>. HIDE DEF b
  <2>6. By(0, "LSR", 1, b) = Pair(0 \div 2, 0 % 2 = 1)
    BY <2>4, <2>5, OneBit
  <2>7. By(v, "LSR", n, c).v = 0 /\ By(v, "LSR", n, c).c = b
    BY <2>2, PairParts DEF b
  <2>. QED BY <2>2, <2>3, <2>4, <2>5, <2>6, <2>7, Zenon DEF Repeats
<1>. QED BY <1>0, <1>1, <1>2, <1>3

(* A signed number that fits a register comes back from it.                *)
LEMMA SignedInWord ==
  ASSUME NEW t \in Int, -HalfRange <= t, t < HalfRange
  PROVE  t % FullRange \in Values /\ SignedValue(t % FullRange) = t
           /\ (t % FullRange) % 2 = t % 2
<1>0. FullRange \in Nat /\ FullRange > 0 /\ HalfRange \in Nat /\ HalfRange > 0
        /\ FullRange = 2 * HalfRange
  BY Powers
<1>1. CASE t >= 0
  <2>1. t % FullRange = t
    BY <1>0, <1>1
  <2>. QED BY <1>0, <1>1, <2>1 DEF Values, SignedValue
<1>2. CASE t < 0
  <2>1. t = FullRange * (-1) + (t + FullRange) /\ t + FullRange \in Nat
          /\ t + FullRange < FullRange
    BY <1>0, <1>2
  <2>2. t % FullRange = t + FullRange
    <3>. DEFINE q == -1
                r == t + FullRange
    <3>1. q \in Int /\ r \in Nat /\ r < FullRange /\ t = FullRange * q + r
      BY <2>1
    <3>. HIDE DEF q, r
    <3>2. t % FullRange = r
      BY <1>0, <3>1, OneQuotient
    <3>. QED BY <3>2 DEF r
  <2>3. (t + 2 * HalfRange) % 2 = t % 2
    <3>1. \A i, k \in Int : (i + 2 * k) % 2 = i % 2
      OBVIOUS
    <3>. QED BY <1>0, <3>1
  <2>4. SignedValue(t + FullRange) = t /\ t + FullRange \in Values
    BY <1>0, <1>2, <2>1 DEF Values, SignedValue
  <2>. QED BY <1>0, <2>2, <2>3, <2>4
<1>. QED BY <1>0, <1>1, <1>2

(* The sign does not change which bits leave at the bottom.                *)
LEMMA SignedQuotient ==
  ASSUME NEW v \in Values, NEW a \in Nat, a > 0, NEW h \in Nat, h > 0, Doubled(FullRange, a, h)
  PROVE  LET t == SignedValue(v) \div a
         IN  t \in Int /\ -HalfRange <= t /\ t < HalfRange /\ t % 2 = (v \div a) % 2
<1>0. /\ FullRange \in Nat /\ FullRange > 0 /\ HalfRange \in Nat /\ HalfRange > 0
           /\ FullRange = 2 * HalfRange
      /\ v \in Nat /\ v < FullRange
  BY Powers DEF Values
<1>. DEFINE q == v \div a
            r == v % a
            s == SignedValue(v)
            t == s \div a
<1>1. q \in Int /\ r \in Nat /\ r < a /\ v = a * q + r
  BY <1>0, DivMod
<1>2. s \in Int /\ -HalfRange <= s /\ s < HalfRange
  BY <1>0 DEF SignedValue
<1>. HIDE DEF s
<1>3. t \in Int /\ -HalfRange <= t /\ t < HalfRange
  <2>1. t \in Int /\ s % a \in Nat /\ s % a < a /\ s = a * t + (s % a)
    BY <1>2, DivMod
  <2>. HIDE DEF t
  <2>2. ASSUME t >= HalfRange PROVE FALSE
    <3>1. a * t >= t
      BY <1>0, <2>1, <2>2
    <3>. QED BY <1>0, <1>2, <2>1, <2>2, <3>1
  <2>3. ASSUME t <= -HalfRange - 1 PROVE FALSE
    <3>. DEFINE d == -t - 1
    <3>1. d \in Nat /\ d >= HalfRange /\ t = -d - 1
      BY <1>0, <2>1, <2>3
    <3>. HIDE DEF d
    <3>2. a * t = -(a * d) - a
      BY <3>1
    <3>3. a * d >= d
      BY <3>1
    <3>. QED BY <1>0, <1>2, <2>1, <3>1, <3>2, <3>3
  <2>. QED BY <1>0, <2>1, <2>2, <2>3
<1>4. t % 2 = q % 2
  <2>1. CASE v < HalfRange
    BY <1>0, <2>1 DEF t, s, q, SignedValue
  <2>2. CASE v >= HalfRange
    <3>1. s = v - FullRange
      BY <2>2 DEF s, SignedValue
    <3>. HIDE DEF q, r
    <3>2. FullRange = a * (2 * h)
      BY DEF Doubled
    <3>3. s = a * (q - 2 * h) + r
      <4>1. a * (q - 2 * h) = a * q - a * (2 * h)
        BY <1>1
      <4>2. a * q \in Int /\ a * (2 * h) \in Int
        BY <1>1
      <4>. DEFINE aq == a * q
                  af == a * (2 * h)
      <4>. HIDE DEF aq, af
      <4>3. s = aq - af + r
        BY <1>0, <1>1, <3>1, <3>2, <4>2 DEF aq, af
      <4>. QED BY <4>1, <4>3 DEF aq, af
    <3>4. q - 2 * h \in Int
      BY <1>1
    <3>5. t = q - 2 * h
      <4>. DEFINE p == q - 2 * h
      <4>. HIDE DEF p, t
      <4>1. s = a * p + r /\ p \in Int
        BY <3>3, <3>4 DEF p
      <4>2. s \div a = p
        BY <1>1, <1>2, <4>1, OneQuotient
      <4>. QED BY <4>2 DEF p, t
    <3>6. \A i, k \in Int : (i - 2 * k) % 2 = i % 2
      OBVIOUS
    <3>. HIDE DEF t
    <3>. QED BY <1>1, <3>5, <3>6
  <2>. QED BY <1>0, <2>1, <2>2
<1>. QED BY <1>3, <1>4 DEF t, s, q

(* ASR: the signed value is halved; beyond the width only the sign is      *)
(* left, and stays.                                                        *)
LEMMA AsrRepeats ==
  ASSUME NEW v \in Values, NEW c \in BOOLEAN, NEW n \in Nat
  PROVE  Repeats("ASR", v, c, n)
<1>. DEFINE W == AluBits
            s == ArmAlu!BIT(v, W - 1)
<1>0. /\ W \in Nat /\ W > 0 /\ FullRange \in Nat /\ FullRange > 0 /\ HalfRange \in Nat
           /\ HalfRange > 0
      /\ FullRange = 2 * HalfRange /\ v \in Nat /\ v < FullRange
  BY Powers, WidthAssumption DEF Values
<1>01. (s <=> v >= HalfRange) /\ s \in BOOLEAN /\ ArmAlu!Signed(v) = SignedValue(v)
  BY EndBits DEF ArmAlu!BIT
<1>1. CASE n = 0
  BY <1>1, FromNothing
<1>2. CASE n \in 1 .. W - 1
  <2>. DEFINE a == 2^n
              h == 2^(W - n - 1)
              t == SignedValue(v) \div a
              x == t % FullRange
              b == ArmAlu!BIT(v, n - 1)
  <2>1. n \in 0 .. W /\ n \in 0 .. W - 1 /\ (n + 1) - 1 = n
    BY <1>0, <1>2
  <2>2. a \in Nat /\ a > 0 /\ h \in Nat /\ h > 0 /\ a * h = HalfRange /\ 2^(n + 1) = 2 * a
    BY <2>1, Powers
  <2>3. By(v, "ASR", n, c) = Pair(x, b)
    BY <1>01, <1>2, ByLess
  <2>4. b \in BOOLEAN
    BY DEF ArmAlu!BIT
  <2>5. ArmAlu!BIT(v, n) = ((v \div a) % 2 = 1)
    BY Zenon DEF ArmAlu!BIT
  <2>. HIDE DEF a, h
  <2>6. Doubled(FullRange, a, h)
    BY <1>0, <2>2 DEF Doubled
  <2>7. t \in Int /\ -HalfRange <= t /\ t < HalfRange /\ t % 2 = (v \div a) % 2
    BY <2>2, <2>6, SignedQuotient
  <2>8. SignedValue(v) \in Int
    BY <1>0 DEF SignedValue
  <2>9. SignedValue(v) \div (2 * a) = t \div 2
    BY <2>2, <2>8, HalveAgain
  <2>. HIDE DEF t
  <2>10. x \in Values /\ SignedValue(x) = t /\ x % 2 = t % 2
    BY <2>7, SignedInWord
  <2>11. (x % 2 = 1) = ArmAlu!BIT(v, n)
    BY <2>5, <2>7, <2>10, Zenon
  <2>. HIDE DEF x, b
  <2>12. By(x, "ASR", 1, b) = Pair((t \div 2) % FullRange, x % 2 = 1)
    <3>1. By(x, "ASR", 1, b) = Pair((SignedValue(x) \div 2) % FullRange, x % 2 = 1)
      BY <2>4, <2>10, OneBit
    <3>. QED BY <2>10, <3>1, Zenon
  <2>13. By(v, "ASR", n + 1, c) = Pair((t \div 2) % FullRange, x % 2 = 1)
    <3>1. CASE n + 1 \in 1 .. W - 1
      <4>1. By(v, "ASR", n + 1, c)
              = Pair((ArmAlu!Signed(v) \div 2^(n + 1)) % FullRange, ArmAlu!BIT(v, (n + 1) - 1))
        BY <3>1, ByLess
      <4>2. ArmAlu!Signed(v) \div 2^(n + 1) = t \div 2
        BY <1>01, <2>2, <2>9, Zenon
      <4>3. ArmAlu!BIT(v, (n + 1) - 1) = (x % 2 = 1)
        BY <2>1, <2>11, Zenon
      <4>. QED BY <4>1, <4>2, <4>3, Zenon
    <3>2. CASE n + 1 = W
      <4>1. By(v, "ASR", W, c) = Pair(IF s THEN FullRange - 1 ELSE 0, s)
        BY <1>0, ByMore
      <4>2. 2 * a = FullRange
        BY <2>2, <3>2, Zenon DEF FullRange
      <4>3. (t \div 2) % FullRange = IF s THEN FullRange - 1 ELSE 0
        <5>1. t \div 2 = SignedValue(v) \div FullRange
          BY <2>9, <4>2
        <5>2. CASE s
          <6>1. SignedValue(v) = v - FullRange /\ -FullRange <= v - FullRange
                  /\ v - FullRange < 0
            BY <1>0, <1>01, <5>2 DEF SignedValue
          <6>2. (v - FullRange) \div FullRange = -1
            <7>. DEFINE i == v - FullRange
                        q == -1
            <7>1. i \in Int /\ q \in Int /\ i = FullRange * q + v
              BY <1>0
            <7>. HIDE DEF i, q
            <7>2. i \div FullRange = q
              BY <1>0, <7>1, OneQuotient
            <7>. QED BY <7>2 DEF i, q
          <6>3. -1 \in Int /\ -HalfRange <= -1 /\ -1 < HalfRange
            BY <1>0
          <6>4. (-1) % FullRange = FullRange - 1
            <7>. DEFINE i == -1
                        r == FullRange - 1
            <7>1. i \in Int /\ r \in Nat /\ r < FullRange /\ i = FullRange * i + r
              BY <1>0
            <7>. HIDE DEF i, r
            <7>2. i % FullRange = r
              BY <1>0, <7>1, OneQuotient
            <7>. QED BY <7>2 DEF i, r
          <6>. QED BY <5>1, <5>2, <6>1, <6>2, <6>4
        <5>3. CASE ~s
          <6>1. SignedValue(v) = v /\ v \div FullRange = 0 /\ 0 % FullRange = 0
            BY <1>0, <1>01, <5>3 DEF SignedValue
          <6>. QED BY <5>1, <5>3, <6>1
        <5>. QED BY <5>2, <5>3
      <4>4. s = (x % 2 = 1)
        <5>1. W - 1 = n
          BY <1>0, <3>2
        <5>. QED BY <2>11, <5>1, Zenon
      <4>. QED BY <3>2, <4>1, <4>3, <4>4, Zenon
    <3>. QED BY <1>0, <1>2, <3>1, <3>2
  <2>14. By(v, "ASR", n, c).v = x /\ By(v, "ASR", n, c).c = b
    BY <2>3, PairParts
  <2>. QED BY <2>4, <2>10, <2>12, <2>13, <2>14, Zenon DEF Repeats
<1>3. CASE n >= W
  <2>. DEFINE t == IF s THEN -1 ELSE 0
              x == IF s THEN FullRange - 1 ELSE 0
  <2>1. n + 1 \in Nat /\ n + 1 >= W
    BY <1>0, <1>3
  <2>2. By(v, "ASR", n, c) = Pair(x, s) /\ By(v, "ASR", n + 1, c) = Pair(x, s)
    BY <1>3, <2>1, ByMore
  <2>. HIDE DEF s
  <2>3. t \in Int /\ -HalfRange <= t /\ t < HalfRange /\ t \div 2 = t
    BY <1>0, <1>01
  <2>4. t % FullRange = x
    <3>1. CASE s
      <4>. DEFINE i == -1
                  r == FullRange - 1
      <4>1. i \in Int /\ r \in Nat /\ r < FullRange /\ i = FullRange * i + r
        BY <1>0
      <4>. HIDE DEF i, r
      <4>2. i % FullRange = r
        BY <1>0, <4>1, OneQuotient
      <4>. QED BY <3>1, <4>2 DEF i, r
    <3>2. CASE ~s
      BY <1>0, <3>2
    <3>. QED BY <3>1, <3>2
  <2>5. x \in Values /\ SignedValue(x) = t /\ x % 2 = t % 2
    <3>. HIDE DEF t, x
    <3>. QED BY <2>3, <2>4, SignedInWord
  <2>6. (x % 2 = 1) = s
    BY <1>01, <2>5
  <2>. HIDE DEF x, t
  <2>7. By(x, "ASR", 1, s) = Pair(x, s)
    <3>1. By(x, "ASR", 1, s) = Pair((SignedValue(x) \div 2) % FullRange, x % 2 = 1)
      BY <1>01, <2>5, OneBit
    <3>. QED BY <2>3, <2>4, <2>5, <2>6, <3>1, Zenon
  <2>8. By(v, "ASR", n, c).v = x /\ By(v, "ASR", n, c).c = s
    BY <2>2, PairParts
  <2>. QED BY <1>01, <2>2, <2>5, <2>7, <2>8, Zenon DEF Repeats
<1>. QED BY <1>0, <1>1, <1>2, <1>3

(* A rotation, as the two parts it exchanges.                              *)
LEMMA RotateTurns ==
  ASSUME NEW v \in Values, NEW k \in 0 .. AluBits
  PROVE  /\ ArmAlu!RotateRight(v, k) = Turned(v, 2^k, 2^(AluBits - k))
         /\ Turned(v, 2^k, 2^(AluBits - k)) \in Values
<1>. DEFINE a == 2^k
            g == 2^(AluBits - k)
            q == v \div a
            r == v % a
<1>0. /\ FullRange \in Nat /\ FullRange > 0 /\ v \in Nat /\ v < FullRange
      /\ a \in Nat /\ a > 0 /\ g \in Nat /\ g > 0 /\ a * g = FullRange
  BY Powers DEF Values
<1>1. ArmAlu!RotateRight(v, k) = q + ((v * g) % FullRange)
  BY Zenon DEF ArmAlu!RotateRight, ArmAlu!Wrap, FullRange
<1>2. Turned(v, 2^k, 2^(AluBits - k)) = q + r * g
  BY Zenon DEF Turned
<1>. HIDE DEF a, g
<1>3. q \in Int /\ q >= 0 /\ r \in Nat /\ r < a /\ v = a * q + r
  BY <1>0, DivMod
<1>. HIDE DEF q, r
<1>. DEFINE vg == v * g
            rg == r * g
<1>4. vg = FullRange * q + rg
  <2>1. v * g = (a * g) * q + r * g
    BY <1>0, <1>3
  <2>. QED BY <1>0, <2>1
<1>5. rg \in Nat /\ vg \in Int /\ rg + g <= FullRange
  <2>1. (r + 1) * g <= a * g
    BY <1>0, <1>3
  <2>2. (r + 1) * g = rg + g
    BY <1>0, <1>3
  <2>. QED BY <1>0, <1>3, <2>1, <2>2
<1>6. q < g
  <2>1. ASSUME q >= g PROVE FALSE
    <3>1. a * q >= a * g
      BY <1>0, <1>3, <2>1
    <3>. DEFINE aq == a * q
    <3>2. aq \in Int
      BY <1>0, <1>3
    <3>. HIDE DEF aq
    <3>3. aq >= FullRange /\ v = aq + r
      BY <1>0, <1>3, <3>1 DEF aq
    <3>. QED BY <1>0, <1>3, <3>2, <3>3
  <2>. QED BY <1>0, <1>3, <2>1
<1>. HIDE DEF vg, rg
<1>7. rg < FullRange
  BY <1>0, <1>5
<1>8. vg % FullRange = rg
  BY <1>0, <1>3, <1>4, <1>5, <1>7, OneQuotient
<1>9. q + rg \in Values
  BY <1>0, <1>3, <1>5, <1>6 DEF Values
<1>. QED BY <1>1, <1>2, <1>8, <1>9 DEF vg, rg

(* Counting modulo the width.                                              *)
LEMMA NextRemainder ==
  ASSUME NEW n \in Nat, NEW w \in Nat, w > 0
  PROVE  /\ (n % w) + 1 < w => (n + 1) % w = (n % w) + 1
         /\ (n % w) + 1 = w => (n + 1) % w = 0
<1>. DEFINE q == n \div w
            k == n % w
<1>1. q \in Int /\ k \in Nat /\ k < w /\ n = w * q + k
  BY DivMod
<1>. HIDE DEF q, k
<1>2. CASE k + 1 < w
  <2>1. n + 1 = w * q + (k + 1) /\ k + 1 \in Nat /\ n + 1 \in Int
    BY <1>1
  <2>. DEFINE m == n + 1
              r == k + 1
  <2>. HIDE DEF m, r
  <2>2. m = w * q + r /\ r \in Nat /\ m \in Int /\ r < w
    BY <1>2, <2>1 DEF m, r
  <2>3. m % w = r
    BY <1>1, <2>2, OneQuotient
  <2>. QED BY <1>2, <2>3 DEF m, r, k
<1>3. CASE k + 1 = w
  <2>1. w * (q + 1) = w * q + w
    BY <1>1
  <2>. DEFINE m == n + 1
              p == q + 1
              wq == w * q
  <2>2. wq \in Int
    BY <1>1
  <2>3. m = w * p + 0 /\ m \in Int /\ p \in Int
    BY <1>1, <1>3, <2>1, <2>2
  <2>. HIDE DEF m, p, wq
  <2>4. m % w = 0
    BY <2>3, OneQuotient
  <2>. QED BY <1>3, <2>4 DEF m, k
<1>. QED BY <1>1, <1>2, <1>3 DEF k

(* ROR: by TurnAgain, and after as many bits as the width it starts again. *)
LEMMA RorRepeats ==
  ASSUME NEW v \in Values, NEW c \in BOOLEAN, NEW n \in Nat
  PROVE  Repeats("ROR", v, c, n)
<1>. DEFINE W == AluBits
            k == n % W
<1>0. /\ W \in Nat /\ W > 0 /\ FullRange \in Nat /\ FullRange > 0 /\ HalfRange \in Nat
           /\ HalfRange > 0
      /\ FullRange = 2 * HalfRange /\ v \in Nat /\ v < FullRange /\ 2^0 = 1
  BY Powers, WidthAssumption DEF Values
<1>1. CASE n = 0
  BY <1>1, FromNothing
<1>2. CASE n # 0
  <2>0. k \in Nat /\ k < W
    BY <1>0, DivMod
  <2>. DEFINE a == 2^k
              h == 2^(W - k - 1)
              x == Turned(v, a, 2 * h)
              b == By(v, "ROR", n, c).c
  <2>1. k \in 0 .. W /\ k \in 0 .. W - 1 /\ (k + 1) - 1 = k
    BY <1>0, <2>0
  <2>2. /\ a \in Nat /\ a > 0 /\ h \in Nat /\ h > 0 /\ a * h = HalfRange /\ 2^(k + 1) = 2 * a
        /\ 2^(W - k) = 2 * h
    BY <2>1, Powers
  <2>3. By(v, "ROR", n, c).v = x /\ b \in BOOLEAN /\ x \in Values
    <3>0. x = Turned(v, 2^k, 2^(W - k)) /\ x \in Values
      BY <2>1, <2>2, RotateTurns
    <3>1. CASE k = 0
      <4>1. By(v, "ROR", n, c) = Pair(v, ArmAlu!BIT(v, W - 1))
        BY <1>2, <3>1, ByRor
      <4>2. a = 1
        BY <1>0, <3>1, Zenon
      <4>. HIDE DEF a, h
      <4>3. v \div 1 = v /\ v % 1 = 0 /\ 0 * (2 * h) = 0
        BY <1>0, <2>2
      <4>4. x = v
        BY <1>0, <4>2, <4>3 DEF Turned
      <4>5. ArmAlu!BIT(v, W - 1) \in BOOLEAN
        BY DEF ArmAlu!BIT
      <4>6. By(v, "ROR", n, c).v = v /\ By(v, "ROR", n, c).c = ArmAlu!BIT(v, W - 1)
        BY <4>1, PairParts
      <4>. QED BY <3>0, <4>4, <4>5, <4>6, Zenon
    <3>2. CASE k # 0
      <4>1. By(v, "ROR", n, c) = Pair(ArmAlu!RotateRight(v, k), ArmAlu!BIT(v, k - 1))
        BY <1>2, <3>2, ByRor
      <4>2. ArmAlu!RotateRight(v, k) = Turned(v, 2^k, 2^(W - k))
        BY <2>1, RotateTurns
      <4>3. ArmAlu!BIT(v, k - 1) \in BOOLEAN
        BY DEF ArmAlu!BIT
      <4>4. /\ By(v, "ROR", n, c).v = ArmAlu!RotateRight(v, k)
            /\ By(v, "ROR", n, c).c = ArmAlu!BIT(v, k - 1)
        BY <4>1, PairParts
      <4>. QED BY <3>0, <4>2, <4>3, <4>4, Zenon
    <3>. QED BY <3>1, <3>2
  <2>4. ArmAlu!BIT(v, k) = ((v \div a) % 2 = 1)
    BY Zenon DEF ArmAlu!BIT
  <2>5. /\ x % 2 = (v \div a) % 2
        /\ (x \div 2) + (x % 2) * (a * h) = Turned(v, 2 * a, h)
    <3>. HIDE DEF a, h
    <3>. QED BY <1>0, <2>2, TurnAgain
  <2>. HIDE DEF x, b
  <2>6. By(x, "ROR", 1, b) = Pair(Turned(v, 2 * a, h), ArmAlu!BIT(v, k))
    <3>1. By(x, "ROR", 1, b) = Pair((x \div 2) + (x % 2) * HalfRange, x % 2 = 1)
      BY <2>3, OneBit
    <3>. HIDE DEF a, h, k
    <3>. QED BY <2>2, <2>4, <2>5, <3>1, Zenon
  <2>7. By(v, "ROR", n + 1, c) = Pair(Turned(v, 2 * a, h), ArmAlu!BIT(v, k))
    <3>0. n + 1 \in Nat /\ n + 1 # 0
      OBVIOUS
    <3>1. CASE k + 1 < W
      <4>1. (n + 1) % W = k + 1 /\ k + 1 # 0
        <5>1. (n % W) + 1 < W => (n + 1) % W = (n % W) + 1
          BY <1>0, NextRemainder
        <5>2. k + 1 # 0
          <6>. HIDE DEF k
          <6>. QED BY <2>0
        <5>. QED BY <3>1, <5>1, <5>2
      <4>2. By(v, "ROR", n + 1, c)
              = Pair(ArmAlu!RotateRight(v, k + 1), ArmAlu!BIT(v, (k + 1) - 1))
        <5>. HIDE DEF k
        <5>. QED BY <3>0, <4>1, ByRor
      <4>3. k + 1 \in 0 .. W /\ W - (k + 1) = W - k - 1
        BY <1>0, <2>0
      <4>4. ArmAlu!RotateRight(v, k + 1) = Turned(v, 2^(k + 1), 2^(W - (k + 1)))
        BY <4>3, RotateTurns
      <4>5. ArmAlu!RotateRight(v, k + 1) = Turned(v, 2 * a, h)
        BY <2>2, <4>3, <4>4, Zenon
      <4>. QED BY <2>1, <4>2, <4>5, Zenon
    <3>2. CASE k + 1 = W
      <4>1. (n + 1) % W = 0
        BY <1>0, <2>0, <3>2, NextRemainder
      <4>2. By(v, "ROR", n + 1, c) = Pair(v, ArmAlu!BIT(v, W - 1))
        BY <3>0, <4>1, ByRor
      <4>3. W - 1 = k /\ W - k - 1 = 0
        BY <1>0, <2>0, <3>2
      <4>4. h = 1
        BY <1>0, <4>3, Zenon
      <4>5. 2 * a = FullRange
        BY <2>2, <3>2, Zenon DEF FullRange
      <4>6. v \div FullRange = 0 /\ v % FullRange = v /\ 0 + v * 1 = v
        BY <1>0
      <4>7. Turned(v, 2 * a, h) = v
        BY <4>4, <4>5, <4>6, Zenon DEF Turned
      <4>. QED BY <4>2, <4>3, <4>7, Zenon
    <3>. QED BY <1>0, <2>0, <3>1, <3>2
  <2>. QED BY <2>3, <2>6, <2>7, Zenon DEF Repeats, b
<1>. QED BY <1>1, <1>2

(* RRX: carry and register together are a register of one bit more.        *)
Through(c, x) == Unit(c) * FullRange + x
Rrx(x, c) == ArmAlu!barrel_shift(x, "ROR", 0, c, FALSE)

(* One RRX is a rotation of that wider register by one bit.                *)
LEMMA OneThrough ==
  ASSUME NEW x \in Values, NEW c \in BOOLEAN
  PROVE  LET X == Through(c, x)
             y == Rrx(x, c)
         IN  /\ X \in Nat /\ X < 2 * FullRange
             /\ y.v \in Values /\ y.c \in BOOLEAN
             /\ Through(y.c, y.v) = (X \div 2) + (X % 2) * FullRange
<1>0. /\ FullRange \in Nat /\ FullRange > 0 /\ HalfRange \in Nat /\ HalfRange > 0
           /\ FullRange = 2 * HalfRange
      /\ x \in Nat /\ x < FullRange
  BY Powers DEF Values
<1>. DEFINE p == x \div 2
            b == x % 2
            X == Through(c, x)
            y == Rrx(x, c)
<1>1. y = Pair(p + (IF c THEN HalfRange ELSE 0), ArmAlu!BIT(x, 0))
  BY DEF ArmAlu!barrel_shift, ArmAlu!ShiftByImmediate, Rrx, Pair, HalfRange
<1>2. y.v = p + Unit(c) * HalfRange /\ (y.c <=> b = 1) /\ y.c \in BOOLEAN
  <2>1. (IF c THEN HalfRange ELSE 0) = Unit(c) * HalfRange
    BY <1>0 DEF Unit
  <2>2. (ArmAlu!BIT(x, 0) <=> b = 1) /\ ArmAlu!BIT(x, 0) \in BOOLEAN
    BY EndBits DEF ArmAlu!BIT
  <2>. HIDE DEF b, p
  <2>3. y.v = p + (IF c THEN HalfRange ELSE 0) /\ y.c = ArmAlu!BIT(x, 0)
    BY <1>1, PairParts
  <2>. QED BY <2>1, <2>2, <2>3, Zenon
<1>3. p \in Nat /\ b \in Nat /\ (b = 0 \/ b = 1) /\ x = 2 * p + b
  BY <1>0
<1>. HIDE DEF p, b, y
<1>4. Unit(y.c) = b
  BY <1>2, <1>3 DEF Unit
<1>5. X = 2 * (Unit(c) * HalfRange + p) + b /\ X \in Nat /\ X < 2 * FullRange
  BY <1>0, <1>3 DEF Through, Unit
<1>6. X % 2 = b /\ X \div 2 = Unit(c) * HalfRange + p
  <2>. DEFINE q == Unit(c) * HalfRange + p
  <2>1. q \in Int
    BY <1>0, <1>3 DEF Unit
  <2>. HIDE DEF X, q
  <2>2. X = 2 * q + b
    BY <1>5 DEF q
  <2>3. X % 2 = b /\ X \div 2 = q
    BY <1>3, <1>5, <2>1, <2>2, OneQuotient
  <2>. QED BY <2>3 DEF q
<1>7. y.v \in Values
  BY <1>0, <1>2, <1>3 DEF Values, Unit
<1>8. Through(y.c, y.v) = b * FullRange + (p + Unit(c) * HalfRange)
  BY <1>2, <1>4, Zenon DEF Through
<1>9. b * FullRange + (p + Unit(c) * HalfRange) = (Unit(c) * HalfRange + p) + b * FullRange
  BY <1>0, <1>3 DEF Unit
<1>. QED BY <1>2, <1>5, <1>6, <1>7, <1>8, <1>9 DEF y

(* So n + 1 of them are n and one more, ...                                *)
LEMMA ThroughAgain ==
  ASSUME NEW v \in Values, NEW c \in BOOLEAN, NEW x \in Values, NEW b \in BOOLEAN,
         NEW n \in 0 .. AluBits,
         Through(b, x) = Turned(Through(c, v), 2^n, 2^(AluBits + 1 - n))
  PROVE  Through(Rrx(x, b).c, Rrx(x, b).v)
           = Turned(Through(c, v), 2^(n + 1), 2^(AluBits + 1 - (n + 1)))
<1>. DEFINE a == 2^n
            h == 2^(AluBits - n)
            Z == Through(c, v)
            X == Through(b, x)
<1>1. /\ a \in Nat /\ a > 0 /\ h \in Nat /\ h > 0 /\ a * h = FullRange /\ 2^(n + 1) = 2 * a
      /\ 2^(AluBits + 1 - n) = 2 * h
  BY Powers
<1>2. AluBits + 1 - (n + 1) = AluBits - n
  BY WidthAssumption
<1>3. Z \in Nat /\ Through(Rrx(x, b).c, Rrx(x, b).v) = (X \div 2) + (X % 2) * FullRange
  BY OneThrough
<1>4. X = Turned(Z, a, 2 * h)
  BY <1>1, Zenon
<1>. HIDE DEF a, h, Z, X
<1>5. (X \div 2) + (X % 2) * (a * h) = Turned(Z, 2 * a, h)
  BY <1>1, <1>3, <1>4, TurnAgain
<1>6. Through(Rrx(x, b).c, Rrx(x, b).v) = Turned(Z, 2 * a, h)
  BY <1>1, <1>3, <1>5, Zenon
<1>. QED BY <1>1, <1>2, <1>6, Zenon DEF h, Z

(* ... and width + 1 of them change nothing.                               *)
LEMMA ThroughOnce ==
  ASSUME NEW v \in Values, NEW c \in BOOLEAN, NEW x \in Values, NEW b \in BOOLEAN,
         Through(b, x) = Turned(Through(c, v), 2^(AluBits + 1), 2^0)
  PROVE  x = v /\ b = c
<1>0. FullRange \in Nat /\ FullRange > 0 /\ AluBits \in 0 .. AluBits /\ 2^0 = 1
  BY Powers, WidthAssumption
<1>1. 2^(AluBits + 1) = 2 * FullRange
  BY <1>0, Powers DEF FullRange
<1>. DEFINE Z == Through(c, v)
<1>2. Z \in Nat /\ Z < 2 * FullRange
  BY OneThrough
<1>. HIDE DEF Z
<1>3. Z \div (2 * FullRange) = 0 /\ Z % (2 * FullRange) = Z /\ 0 + Z * 1 = Z
  <2>. DEFINE F == 2 * FullRange
  <2>1. F \in Nat /\ F > 0 /\ Z < F
    BY <1>0, <1>2
  <2>. HIDE DEF F
  <2>2. Z \div F = 0 /\ Z % F = Z /\ 0 + Z * 1 = Z
    BY <1>2, <2>1
  <2>. QED BY <2>2 DEF F
<1>4. Turned(Z, 2 * FullRange, 1) = Z
  BY <1>3, Zenon DEF Turned
<1>5. Through(b, x) = Z
  BY <1>0, <1>1, <1>4, Zenon DEF Z
<1>. QED BY <1>0, <1>5 DEF Z, Through, Unit, Values

-----------------------------------------------------------------------------
(* A processor of one register, and how far the shift has come.            *)
OneRegister == [r : [{0} -> Values], n : BOOLEAN, z : BOOLEAN, c : BOOLEAN, v : BOOLEAN,
                t : BOOLEAN, flush : BOOLEAN, mem : {<<>>}]
Progress == [v : Values, c : BOOLEAN, type : ArmAlu!Shift \cup {"RRX"}, n : Nat]
ShiftInv ==
  part = "shift" =>
    /\ cpu \in OneRegister /\ spec \in Progress
    /\ spec.type = "RRX" /\ spec.n <= AluBits + 1 =>
         Through(cpu.c, cpu.r[0])
           = Turned(Through(spec.c, spec.v), 2^spec.n, 2^(AluBits + 1 - spec.n))
    /\ spec.type # "RRX" => Pair(cpu.r[0], cpu.c) = By(spec.v, spec.type, spec.n, spec.c)

(* At first nothing is shifted.                                            *)
LEMMA ShiftStart ==
  IInit => ShiftInv
<1>. SUFFICES ASSUME IInit, part = "shift" PROVE ShiftInv
  BY DEF ShiftInv
<1>1. ShiftInit
  BY DEF IInit, WideInit, ShiftInit, TwinsInit, MemoryInit, ExpandInit, CallsInit, DecodeInit
<1>2. PICK v \in 0 .. 2^AluBits - 1, c \in BOOLEAN, ty \in ArmAlu!Shift \cup {"RRX"} :
        /\ cpu = Machine([i \in {0} |-> v], FALSE, FALSE, c, FALSE)
        /\ spec = [v |-> v, c |-> c, type |-> ty, n |-> 0]
  BY <1>1 DEF ShiftInit
<1>3. v \in Values
  BY DEF Values, FullRange
<1>4. /\ cpu \in OneRegister /\ cpu.r[0] = v /\ cpu.c = c
  BY <1>2, <1>3 DEF Machine, OneRegister
<1>5. spec \in Progress /\ spec.v = v /\ spec.c = c /\ spec.type = ty /\ spec.n = 0
  BY <1>2, <1>3 DEF Progress
<1>6. Pair(v, c) = By(v, ty, 0, c)
  BY ByNothing
<1>7. Through(c, v) = Turned(Through(c, v), 2^0, 2^(AluBits + 1 - 0))
  <2>. DEFINE Z == Through(c, v)
              g == 2^(AluBits + 1 - 0)
  <2>1. Z \in Nat /\ 2^0 = 1
    BY <1>3, OneThrough, Powers
  <2>2. g \in Nat
    <3>1. 0 \in 0 .. AluBits
      BY WidthAssumption
    <3>2. /\ 2^(AluBits + 1 - 0) = 2 * 2^(AluBits - 0) /\ 2^(AluBits - 0) \in Nat
      BY <3>1, Powers
    <3>. QED BY <3>2
  <2>. HIDE DEF Z, g
  <2>3. Z \div 1 = Z /\ Z % 1 = 0 /\ Z + 0 * g = Z
    BY <2>1, <2>2
  <2>4. Turned(Z, 1, g) = Z
    BY <2>3, Zenon DEF Turned
  <2>. QED BY <2>1, <2>4, Zenon DEF Z, g
<1>. QED BY <1>4, <1>5, <1>6, <1>7, Zenon DEF ShiftInv

(* A step shifts by one bit more.                                          *)
LEMMA ShiftKept ==
  ASSUME ShiftInv, [INext]_ivars
  PROVE  ShiftInv'
<1>. SUFFICES ASSUME part' = "shift" PROVE ShiftInv'
  BY DEF ShiftInv
<1>1. part = "shift" /\ (ShiftStep \/ UNCHANGED ivars)
  BY Apart
<1>2. CASE UNCHANGED ivars
  BY <1>2 DEF ShiftInv, ivars
<1>3. CASE ShiftStep
  <2>. DEFINE x == cpu.r[0]
              b == cpu.c
              v == spec.v
              c == spec.c
              ty == spec.type
              n == spec.n
              y == IF ty = "RRX" THEN Rrx(x, b) ELSE By(x, ty, 1, b)
  <2>1. /\ cpu \in OneRegister /\ spec \in Progress
        /\ ty = "RRX" /\ n <= AluBits + 1 =>
             Through(b, x) = Turned(Through(c, v), 2^n, 2^(AluBits + 1 - n))
        /\ ty # "RRX" => Pair(x, b) = By(v, ty, n, c)
    BY <1>1 DEF ShiftInv
  <2>2. cpu' = [cpu EXCEPT !.r[0] = y.v, !.c = y.c] /\ spec' = [spec EXCEPT !.n = n + 1]
    BY <1>3 DEF ShiftStep, Rrx, By
  <2>3. /\ x \in Values /\ b \in BOOLEAN
    BY <2>1 DEF OneRegister
  <2>4. /\ v \in Values /\ c \in BOOLEAN /\ ty \in ArmAlu!Shift \cup {"RRX"} /\ n \in Nat
    BY <2>1 DEF Progress
  <2>5. /\ spec' \in Progress /\ spec'.v = v /\ spec'.c = c /\ spec'.type = ty
             /\ spec'.n = n + 1
    BY <2>1, <2>2 DEF Progress
  <2>. HIDE DEF x, b, v, c, ty, n, y
  <2>6. ASSUME ty # "RRX"
        PROVE  y = By(v, ty, n + 1, c) /\ y.v \in Values /\ y.c \in BOOLEAN
               /\ y = Pair(y.v, y.c)
    <3>1. ty \in {"LSL", "LSR", "ASR", "ROR"}
      BY <2>4, <2>6 DEF ArmAlu!Shift
    <3>2. Repeats(ty, v, c, n) /\ Repeats(ty, v, c, n + 1)
      BY <2>4, <3>1, LslRepeats, LsrRepeats, AsrRepeats, RorRepeats
    <3>3. By(v, ty, n, c).v = x /\ By(v, ty, n, c).c = b
      BY <2>1, <2>6, PairParts
    <3>4. y = By(v, ty, n + 1, c)
      BY <2>6, <3>2, <3>3 DEF Repeats, y
    <3>5. y.v \in Values /\ y.c \in BOOLEAN
      BY <3>2, <3>4 DEF Repeats
    <3>6. y = Pair(y.v, y.c)
      <4>1. y = By(x, ty, 1, b)
        BY <2>6 DEF y
      <4>2. \E i, j : By(x, ty, 1, b) = Pair(i, j)
        BY <2>3, <3>1, OneBit
      <4>3. PICK i, j : By(x, ty, 1, b) = Pair(i, j)
        BY <4>2
      <4>. QED BY <4>1, <4>3, PairParts
    <3>. QED BY <3>4, <3>5, <3>6
  <2>7. ASSUME ty = "RRX"
        PROVE  y = Rrx(x, b) /\ y.v \in Values /\ y.c \in BOOLEAN
    BY <2>3, <2>7, OneThrough DEF y
  <2>8. y.v \in Values /\ y.c \in BOOLEAN
    BY <2>6, <2>7
  <2>9. cpu' \in OneRegister /\ cpu'.r[0] = y.v /\ cpu'.c = y.c
    BY <2>1, <2>2, <2>8 DEF OneRegister
  <2>10. ASSUME ty = "RRX", n + 1 <= AluBits + 1
         PROVE  Through(y.c, y.v) = Turned(Through(c, v), 2^(n + 1),
                  2^(AluBits + 1 - (n + 1)))
    <3>1. n \in 0 .. AluBits /\ n <= AluBits + 1
      BY <2>4, <2>10, WidthAssumption
    <3>2. Through(b, x) = Turned(Through(c, v), 2^n, 2^(AluBits + 1 - n))
      BY <2>1, <2>10, <3>1
    <3>3. y = Rrx(x, b)
      BY <2>7, <2>10
    <3>. QED BY <2>3, <2>4, <3>1, <3>2, <3>3, ThroughAgain
  <2>. QED BY <2>5, <2>6, <2>9, <2>10, Zenon DEF ShiftInv
<1>. QED BY <1>1, <1>2, <1>3

(* An immediate amount shifts as the same amount in a register; 0 stands   *)
(* for the width.                                                          *)
LEMMA ByImmediate ==
  ASSUME NEW v \in Values, NEW c \in BOOLEAN, NEW ty \in ArmAlu!Shift
  PROVE  /\ \A n \in 1 .. AluBits - 1 :
              ArmAlu!barrel_shift(v, ty, n, c, FALSE) = By(v, ty, n, c)
         /\ ty \in {"LSR", "ASR"} =>
              ArmAlu!barrel_shift(v, ty, 0, c, FALSE) = By(v, ty, AluBits, c)
<1>0. AluBits \in Nat /\ AluBits > 0
  BY WidthAssumption
<1>1. ASSUME NEW n \in 1 .. AluBits - 1
      PROVE  ArmAlu!barrel_shift(v, ty, n, c, FALSE) = By(v, ty, n, c)
  <2>1. n # 0 /\ n % AluBits = n /\ ~(n >= AluBits)
    BY <1>0
  <2>. QED BY <2>1 DEF By, ArmAlu!barrel_shift, ArmAlu!ShiftByRegister, ArmAlu!ShiftByImmediate
<1>2. ASSUME ty \in {"LSR", "ASR"}
      PROVE  ArmAlu!barrel_shift(v, ty, 0, c, FALSE) = By(v, ty, AluBits, c)
  <2>1. AluBits \in Nat /\ AluBits >= AluBits
    BY <1>0
  <2>. DEFINE s == ArmAlu!BIT(v, AluBits - 1)
  <2>2. /\ By(v, "LSR", AluBits, c) = Pair(0, AluBits = AluBits /\ s)
        /\ By(v, "ASR", AluBits, c) = Pair(IF s THEN FullRange - 1 ELSE 0, s)
    BY <2>1, ByMore
  <2>3. (AluBits = AluBits /\ s) = s
    BY DEF ArmAlu!BIT
  <2>4. /\ ArmAlu!barrel_shift(v, "LSR", 0, c, FALSE) = Pair(0, s)
        /\ ArmAlu!barrel_shift(v, "ASR", 0, c, FALSE) = Pair(IF s THEN FullRange - 1 ELSE 0, s)
    BY DEF ArmAlu!barrel_shift, ArmAlu!ShiftByImmediate, Pair, FullRange
  <2>. HIDE DEF s
  <2>. QED BY <1>2, <2>2, <2>3, <2>4
<1>. QED BY <1>1, <1>2

(* What the invariant says is the property.                                *)
LEMMA ShiftDone ==
  ShiftInv => ShiftIsRepeated
<1>. SUFFICES ASSUME ShiftInv, part = "shift" PROVE ShiftIsRepeated
  BY DEF ShiftIsRepeated
<1>. DEFINE x == cpu.r[0]
            b == cpu.c
            v == spec.v
            c == spec.c
            ty == spec.type
            n == spec.n
<1>1. /\ ty = "RRX" /\ n <= AluBits + 1 =>
           Through(b, x) = Turned(Through(c, v), 2^n, 2^(AluBits + 1 - n))
      /\ ty # "RRX" => Pair(x, b) = By(v, ty, n, c)
      /\ cpu \in OneRegister /\ spec \in Progress
  BY DEF ShiftInv
<1>2. /\ x \in Values /\ b \in BOOLEAN
      /\ v \in Values /\ c \in BOOLEAN /\ ty \in ArmAlu!Shift \cup {"RRX"} /\ n \in Nat
  BY <1>1 DEF OneRegister, Progress
<1>. HIDE DEF x, b, v, c, ty, n
<1>3. ASSUME ty = "RRX", n = AluBits + 1 PROVE Pair(x, b) = Pair(v, c)
  <2>1. n <= AluBits + 1 /\ AluBits + 1 - n = 0
    BY <1>3, WidthAssumption
  <2>2. Through(b, x) = Turned(Through(c, v), 2^(AluBits + 1), 2^0)
    BY <1>1, <1>3, <2>1
  <2>3. x = v /\ b = c
    BY <1>2, <2>2, ThroughOnce
  <2>. QED BY <2>3
<1>4. ASSUME ty # "RRX"
      PROVE  /\ Pair(x, b) = ArmAlu!barrel_shift(v, ty, n, c, TRUE)
             /\ n \in 1 .. AluBits - 1 => Pair(x, b) = ArmAlu!barrel_shift(v, ty, n, c, FALSE)
             /\ n = AluBits /\ ty \in {"LSR", "ASR"} =>
                  Pair(x, b) = ArmAlu!barrel_shift(v, ty, 0, c, FALSE)
  <2>1. ty \in ArmAlu!Shift /\ Pair(x, b) = By(v, ty, n, c)
    BY <1>1, <1>2, <1>4
  <2>2. Pair(x, b) = ArmAlu!barrel_shift(v, ty, n, c, TRUE)
    BY <2>1 DEF By
  <2>3. n \in 1 .. AluBits - 1 => Pair(x, b) = ArmAlu!barrel_shift(v, ty, n, c, FALSE)
    BY <1>2, <2>1, ByImmediate
  <2>4. n = AluBits /\ ty \in {"LSR", "ASR"} =>
          Pair(x, b) = ArmAlu!barrel_shift(v, ty, 0, c, FALSE)
    BY <1>2, <2>1, ByImmediate
  <2>. QED BY <2>2, <2>3, <2>4
<1>. QED BY <1>3, <1>4, Zenon DEF ShiftIsRepeated, Pair, x, b, v, c, ty, n

(* For every register width and any number of bits: the single case        *)
(* analysis of barrel_shift, with its special amounts, shifts as so many   *)
(* shifts by one bit do, the carry included.                               *)
THEOREM ShiftsCompose == ISpec => []ShiftIsRepeated
<1>1. IInit => ShiftInv
  BY ShiftStart
<1>2. ShiftInv /\ [INext]_ivars => ShiftInv'
  BY ShiftKept
<1>3. ShiftInv => ShiftIsRepeated
  BY ShiftDone
<1>. QED BY <1>1, <1>2, <1>3, PTL DEF ISpec
=============================================================================
