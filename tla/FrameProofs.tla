----------------------------- MODULE FrameProofs ----------------------------
(***************************************************************************)
(* Proofs about the frame loop, for any number of lines, any slice length  *)
(* and any program: what VCOUNT and DISPSTAT show, what a frame delivers,  *)
(* and where the affine reference points are.                              *)
(***************************************************************************)
EXTENDS FrameLoop, TLAPS

-----------------------------------------------------------------------------
(* Types.                                                                  *)

LEMMA InstrType ==
  ASSUME TypeOK, Instr
  PROVE  budget' \in 0..Budget
  BY FrameAssumption DEF TypeOK, Instr, InSlice

(* What no instruction, and no interrupt entry, can do. *)
LEMMA ProgramFrame ==
  ASSUME Program
  PROVE  /\ UNCHANGED <<phase, line, hdma, vdma, frame_complete, vcount, vblank, hblank, vmatch>>
         /\ ref' = ref \/ ref' = 0
         /\ budget' = budget - 1 /\ budget > 0
<1>. USE DEF Instr, InSlice, ppuvars
<1>1. CASE Other
  BY <1>1 DEF Other
<1>2. ASSUME NEW e \in EnableSets, WriteDispstatLow(e)
      PROVE  /\ UNCHANGED <<phase, line, hdma, vdma, frame_complete, vcount, vblank, hblank, vmatch>>
             /\ ref' = ref \/ ref' = 0
             /\ budget' = budget - 1 /\ budget > 0
  BY <1>2 DEF WriteDispstatLow
<1>3. ASSUME NEW t \in Targets, WriteDispstatHigh(t)
      PROVE  /\ UNCHANGED <<phase, line, hdma, vdma, frame_complete, vcount, vblank, hblank, vmatch>>
             /\ ref' = ref \/ ref' = 0
             /\ budget' = budget - 1 /\ budget > 0
  BY <1>3 DEF WriteDispstatHigh
<1>4. ASSUME NEW b \in BOOLEAN, WriteDispcnt(b) \/ WriteIme(b) \/ WriteCpsr(b)
      PROVE  /\ UNCHANGED <<phase, line, hdma, vdma, frame_complete, vcount, vblank, hblank, vmatch>>
             /\ ref' = ref \/ ref' = 0
             /\ budget' = budget - 1 /\ budget > 0
  BY <1>4 DEF WriteDispcnt, WriteIme, WriteCpsr
<1>5. CASE WriteBgRef
  BY <1>5 DEF WriteBgRef
<1>6. ASSUME NEW S, WriteIe(S) \/ WriteIf(S)
      PROVE  /\ UNCHANGED <<phase, line, hdma, vdma, frame_complete, vcount, vblank, hblank, vmatch>>
             /\ ref' = ref \/ ref' = 0
             /\ budget' = budget - 1 /\ budget > 0
  BY <1>6 DEF WriteIe, WriteIf
<1>7. CASE Halt \/ swi_vblank_intr_wait
  BY <1>7 DEF Halt, swi_vblank_intr_wait
<1>8. CASE cpu_handle_irq
  BY <1>8 DEF cpu_handle_irq
<1>. QED BY <1>1, <1>2, <1>3, <1>4, <1>5, <1>6, <1>7, <1>8 DEF Program

(* Every step keeps the types. *)
LEMMA StepTypeOK == TypeOK /\ [Next]_vars => TypeOK'
<1>. SUFFICES ASSUME TypeOK, [Next]_vars
              PROVE  TypeOK'
  OBVIOUS
<1>0. /\ Targets \subseteq 0..255 /\ EnableSets \subseteq SUBSET Ppu
      /\ IeSets \subseteq SUBSET Irq
      /\ TOTAL_LINES \in Nat /\ TOTAL_LINES > 0 /\ Budget \in Nat
  BY FrameAssumption
<1>1. CASE Program
  <2>1. /\ phase' \in {"between", "hdraw", "hblank"}
        /\ line' \in 0 .. TOTAL_LINES - 1 /\ budget' \in 0..Budget
        /\ vcount' \in 0 .. TOTAL_LINES - 1 /\ ref' \in Nat
        /\ hdma' \in Nat /\ vdma' \in Nat
    BY <1>0, <1>1, ProgramFrame DEF TypeOK
  <2>2. vblank' \in BOOLEAN /\ hblank' \in BOOLEAN /\ vmatch' \in BOOLEAN
        /\ frame_complete' \in BOOLEAN
    BY <1>1, ProgramFrame, Zenon DEF TypeOK
  <2>3. /\ enables' \in SUBSET Ppu /\ target' \in 0..255 /\ forced_blank' \in BOOLEAN
        /\ irf' \in SUBSET Irq /\ ie' \in SUBSET Irq /\ ime' \in BOOLEAN
        /\ irqOff' \in BOOLEAN /\ halted' \in BOOLEAN /\ waiting' \in BOOLEAN
    <3>. USE <1>0 DEF TypeOK, ppuvars, icvars, cpuvars
    <3>1. CASE Other
      BY <3>1 DEF Other
    <3>2. CASE \E e \in EnableSets : WriteDispstatLow(e)
      BY <3>2 DEF WriteDispstatLow
    <3>3. CASE \E t \in Targets : WriteDispstatHigh(t)
      BY <3>3 DEF WriteDispstatHigh
    <3>4. ASSUME NEW b \in BOOLEAN, WriteDispcnt(b) \/ WriteIme(b) \/ WriteCpsr(b)
          PROVE  /\ enables' \in SUBSET Ppu /\ target' \in 0..255 /\ forced_blank' \in BOOLEAN
                 /\ irf' \in SUBSET Irq /\ ie' \in SUBSET Irq /\ ime' \in BOOLEAN
                 /\ irqOff' \in BOOLEAN /\ halted' \in BOOLEAN /\ waiting' \in BOOLEAN
      <4>1. CASE WriteDispcnt(b)
        BY <4>1 DEF WriteDispcnt
      <4>2. CASE WriteIme(b)
        BY <4>2 DEF WriteIme
      <4>3. CASE WriteCpsr(b)
        BY <4>3 DEF WriteCpsr
      <4>. QED BY <3>4, <4>1, <4>2, <4>3
    <3>5. CASE WriteBgRef
      BY <3>5 DEF WriteBgRef
    <3>6. CASE \E S \in IeSets : WriteIe(S)
      BY <3>6 DEF WriteIe
    <3>7. CASE \E S \in {{q} : q \in Irq} : WriteIf(S)
      BY <3>7 DEF WriteIf
    <3>8. CASE Halt \/ swi_vblank_intr_wait
      <4>1. halted' \in BOOLEAN /\ waiting' \in BOOLEAN
        BY <3>8, Zenon DEF Halt, swi_vblank_intr_wait
      <4>. QED BY <3>8, <4>1 DEF Halt, swi_vblank_intr_wait
    <3>9. CASE cpu_handle_irq
      BY <3>9, Zenon DEF cpu_handle_irq
    <3>. QED BY <1>1, <3>1, <3>2, <3>3, <3>4, <3>5, <3>6, <3>7, <3>8, <3>9 DEF Program
  <2>. QED BY <2>1, <2>2, <2>3 DEF TypeOK
<1>2. CASE StartFrame
  <2>1. /\ vblank' \in BOOLEAN /\ hblank' \in BOOLEAN /\ vmatch' \in BOOLEAN
        /\ forced_blank' \in BOOLEAN /\ ime' \in BOOLEAN /\ irqOff' \in BOOLEAN
        /\ halted' \in BOOLEAN /\ waiting' \in BOOLEAN /\ frame_complete' \in BOOLEAN
    BY <1>2, Zenon DEF StartFrame, TypeOK, ppuvars, icvars, cpuvars
  <2>. QED BY <1>0, <1>2, <2>1 DEF StartFrame, TypeOK, ppuvars, icvars, cpuvars
<1>3. ASSUME NEW tick \in Ticked, StartHBlank(tick)
      PROVE  TypeOK'
  <2>1. irf' \in SUBSET Irq
    BY <1>3 DEF StartHBlank, TypeOK, Ticked, Requested, Ppu, Irq
  <2>2. ref' \in Nat /\ hdma' \in Nat
    BY <1>3 DEF StartHBlank, TypeOK, RefAdvances
  <2>3. hblank' \in BOOLEAN
    BY <1>3, Zenon DEF StartHBlank
  <2>4. phase' \in {"between", "hdraw", "hblank"} /\ budget' \in 0..Budget
    BY <1>0, <1>3 DEF StartHBlank
  <2>5. UNCHANGED <<line, vdma, frame_complete, vcount, vblank, vmatch, enables, target,
                    forced_blank, ie, ime, irqOff, halted, waiting>>
    BY <1>3 DEF StartHBlank, cpuvars
  <2>. QED BY <2>1, <2>2, <2>3, <2>4, <2>5 DEF TypeOK
<1>4. ASSUME NEW tick \in Ticked, EndLine(tick)
      PROVE  TypeOK'
  <2>1. irf' \in SUBSET Irq
    BY <1>4 DEF EndLine, TypeOK, Ticked, Requested, Ppu, Irq
  <2>2. /\ vcount' \in 0 .. TOTAL_LINES - 1 /\ line' \in 0 .. TOTAL_LINES - 1
        /\ budget' \in 0..Budget /\ phase' \in {"between", "hdraw", "hblank"}
    BY <1>0, <1>4 DEF EndLine, TypeOK, Incremented
  <2>3. ref' \in Nat /\ vdma' \in Nat
    BY <1>4 DEF EndLine, TypeOK
  <2>4. vblank' \in BOOLEAN /\ vmatch' \in BOOLEAN /\ hblank' \in BOOLEAN
        /\ frame_complete' \in BOOLEAN
    BY <1>4, Zenon DEF EndLine, TypeOK, VBlankAt, VBlankStarts
  <2>. QED BY <1>4, <2>1, <2>2, <2>3, <2>4 DEF EndLine, TypeOK, cpuvars
<1>5. CASE UNCHANGED vars
  BY <1>5 DEF vars, TypeOK
<1>. QED BY <1>1, <1>2, <1>3, <1>4, <1>5 DEF Next, Machine

(* The initial state is of its type. *)
LEMMA InitTypeOK == Init => TypeOK
<1>. SUFFICES ASSUME Init
              PROVE  TypeOK
  OBVIOUS
<1>1. /\ vblank \in BOOLEAN /\ hblank \in BOOLEAN /\ vmatch \in BOOLEAN
      /\ forced_blank \in BOOLEAN /\ ime \in BOOLEAN /\ irqOff \in BOOLEAN
      /\ halted \in BOOLEAN /\ waiting \in BOOLEAN /\ frame_complete \in BOOLEAN
  BY Zenon DEF Init
<1>2. enables \in SUBSET Ppu /\ irf \in SUBSET Irq /\ ie \in SUBSET Irq
  BY DEF Init
<1>3. /\ phase \in {"between", "hdraw", "hblank"}
      /\ line \in 0 .. TOTAL_LINES - 1 /\ budget \in 0..Budget
      /\ vcount \in 0 .. TOTAL_LINES - 1 /\ target \in 0..255
      /\ ref \in Nat /\ hdma \in Nat /\ vdma \in Nat
  BY FrameAssumption DEF Init
<1>. QED BY <1>1, <1>2, <1>3 DEF TypeOK

(* The registers, the loop and the processor's state stay in range.        *)
THEOREM FrameTypeCorrect == Spec => []TypeOK
  BY InitTypeOK, StepTypeOK, PTL DEF Spec

-----------------------------------------------------------------------------
(* The beam.                                                               *)

LEMMA StepStatus == TypeOK /\ StatusMatchesBeam /\ [Next]_vars => StatusMatchesBeam'
<1>. SUFFICES ASSUME TypeOK, StatusMatchesBeam, [Next]_vars
              PROVE  StatusMatchesBeam'
  OBVIOUS
<1>1. CASE Program
  BY <1>1, ProgramFrame DEF StatusMatchesBeam
<1>2. CASE StartFrame
  BY <1>2 DEF StartFrame, StatusMatchesBeam, ppuvars
<1>3. ASSUME NEW tick \in Ticked, StartHBlank(tick)
      PROVE  StatusMatchesBeam'
  BY <1>3 DEF StartHBlank, StatusMatchesBeam
<1>4. ASSUME NEW tick \in Ticked, EndLine(tick)
      PROVE  StatusMatchesBeam'
  <2>1. /\ vcount = line /\ vcount \in 0 .. TOTAL_LINES - 1
        /\ vblank <=> vcount >= VDRAW_LINES
    BY <1>4 DEF EndLine, StatusMatchesBeam, TypeOK
  <2>2. CASE line + 1 < TOTAL_LINES
    <3>1. vcount' = vcount + 1 /\ line' = line + 1 /\ phase' = "hdraw" /\ ~hblank'
      BY <1>4, <2>1, <2>2, FrameAssumption DEF EndLine, Incremented
    <3>2. vblank' <=> vcount' >= VDRAW_LINES
      BY <1>4, <2>1, <3>1, FrameAssumption DEF EndLine, VBlankAt
    <3>. QED BY <2>1, <3>1, <3>2 DEF StatusMatchesBeam
  <2>3. CASE ~(line + 1 < TOTAL_LINES)
    <3>1. vcount' = 0 /\ phase' = "between" /\ ~hblank'
      BY <1>4, <2>1, <2>3, FrameAssumption DEF EndLine, Incremented
    <3>2. vblank' <=> vcount' >= VDRAW_LINES
      BY <1>4, <2>1, <3>1, FrameAssumption DEF EndLine, VBlankAt
    <3>. QED BY <3>1, <3>2 DEF StatusMatchesBeam
  <2>. QED BY <2>2, <2>3
<1>5. CASE UNCHANGED vars
  BY <1>5 DEF vars, StatusMatchesBeam
<1>. QED BY <1>1, <1>2, <1>3, <1>4, <1>5 DEF Next, Machine

(* VCOUNT and DISPSTAT always show where gba_run_frame is, whatever the    *)
(* program writes and however long it sleeps.                              *)
THEOREM FrameStatusMatchesBeam == Spec => []StatusMatchesBeam
<1>1. Init => StatusMatchesBeam
  BY FrameAssumption DEF Init, StatusMatchesBeam
<1>. QED BY <1>1, FrameTypeCorrect, StepStatus, PTL DEF Spec

-----------------------------------------------------------------------------
(* What a frame delivers.                                                  *)

LEMMA StepDelivered ==
  TypeOK /\ StatusMatchesBeam /\ FrameDelivered /\ [Next]_vars => FrameDelivered'
<1>. SUFFICES ASSUME TypeOK, StatusMatchesBeam, FrameDelivered, [Next]_vars
              PROVE  FrameDelivered'
  OBVIOUS
<1>1. CASE Program
  BY <1>1, ProgramFrame DEF FrameDelivered, LinesDrawn
<1>2. CASE StartFrame
  BY <1>2, FrameAssumption DEF StartFrame, FrameDelivered, LinesDrawn, StatusMatchesBeam, ppuvars
<1>3. ASSUME NEW tick \in Ticked, StartHBlank(tick)
      PROVE  FrameDelivered'
  <2>1. /\ line \in Nat /\ hdma = (IF line >= VDRAW_LINES THEN VDRAW_LINES ELSE line)
        /\ frame_complete <=> vcount >= VDRAW_LINES
        /\ vdma = (IF vcount >= VDRAW_LINES THEN 1 ELSE 0)
    BY <1>3, FrameAssumption DEF StartHBlank, FrameDelivered, LinesDrawn, TypeOK
  <2>2. /\ UNCHANGED <<line, vcount, vdma, frame_complete>> /\ phase' = "hblank"
        /\ hdma' = IF line < VDRAW_LINES THEN hdma + 1 ELSE hdma
    BY <1>3 DEF StartHBlank
  <2>. QED BY <2>1, <2>2, FrameAssumption DEF FrameDelivered, LinesDrawn
<1>4. ASSUME NEW tick \in Ticked, EndLine(tick)
      PROVE  FrameDelivered'
  <2>1. /\ vcount = line /\ line \in 0 .. TOTAL_LINES - 1
        /\ hdma = (IF line >= VDRAW_LINES THEN VDRAW_LINES ELSE line + 1)
        /\ frame_complete <=> vcount >= VDRAW_LINES
        /\ vdma = (IF vcount >= VDRAW_LINES THEN 1 ELSE 0)
    BY <1>4 DEF EndLine, FrameDelivered, LinesDrawn, StatusMatchesBeam, TypeOK
  <2>2. /\ hdma' = hdma /\ vcount' = Incremented
        /\ vdma' = IF vcount' = VDRAW_LINES THEN vdma + 1 ELSE vdma
        /\ frame_complete' = (frame_complete \/ vcount' = VDRAW_LINES)
    BY <1>4 DEF EndLine, VBlankStarts
  <2>3. CASE line + 1 < TOTAL_LINES
    <3>1. vcount' = vcount + 1 /\ line' = line + 1 /\ phase' = "hdraw"
      BY <1>4, <2>1, <2>3, FrameAssumption DEF EndLine, Incremented
    <3>a. vcount' >= VDRAW_LINES <=> (vcount >= VDRAW_LINES \/ vcount' = VDRAW_LINES)
      BY <2>1, <3>1, FrameAssumption
    <3>2. frame_complete' <=> vcount' >= VDRAW_LINES
      BY <2>1, <2>2, <3>a, Zenon
    <3>3. vdma' = (IF vcount' >= VDRAW_LINES THEN 1 ELSE 0)
      BY <2>1, <2>2, <3>1, FrameAssumption
    <3>4. hdma' = (IF line' >= VDRAW_LINES THEN VDRAW_LINES ELSE line')
      BY <2>1, <2>2, <3>1, FrameAssumption
    <3>. QED BY <3>1, <3>2, <3>3, <3>4 DEF FrameDelivered, LinesDrawn
  <2>4. CASE ~(line + 1 < TOTAL_LINES)
    <3>1. vcount' = 0 /\ phase' = "between" /\ vcount >= VDRAW_LINES
      BY <1>4, <2>1, <2>4, FrameAssumption DEF EndLine, Incremented
    <3>2. hdma' = VDRAW_LINES /\ vdma' = 1
      BY <2>1, <2>2, <3>1, FrameAssumption
    <3>. QED BY <3>1, <3>2 DEF FrameDelivered
  <2>. QED BY <2>3, <2>4
<1>5. CASE UNCHANGED vars
  BY <1>5 DEF vars, FrameDelivered, LinesDrawn
<1>. QED BY <1>1, <1>2, <1>3, <1>4, <1>5 DEF Next, Machine

(* Each call of gba_run_frame delivers one whole frame: all the HBlank     *)
(* transfers of the visible lines, one VBlank, one completion.             *)
THEOREM FrameIsDelivered == Spec => []FrameDelivered
<1>1. Init => FrameDelivered
  BY DEF Init, FrameDelivered
<1>. QED BY <1>1, FrameTypeCorrect, FrameStatusMatchesBeam, StepDelivered, PTL DEF Spec

-----------------------------------------------------------------------------
(* The reference points.                                                   *)

LEMMA StepRef ==
  TypeOK /\ StatusMatchesBeam /\ RefBehindBeam /\ [Next]_vars => RefBehindBeam'
<1>. SUFFICES ASSUME TypeOK, StatusMatchesBeam, RefBehindBeam, [Next]_vars
              PROVE  RefBehindBeam'
  OBVIOUS
<1>0. /\ vcount \in Nat /\ ref \in Nat
      /\ VDRAW_LINES \in Nat /\ VDRAW_LINES > 0
  BY FrameAssumption DEF TypeOK
<1>1. CASE Program
  BY <1>0, <1>1, ProgramFrame DEF RefBehindBeam
<1>2. CASE StartFrame
  BY <1>0, <1>2 DEF StartFrame, RefBehindBeam, StatusMatchesBeam, ppuvars
<1>3. ASSUME NEW tick \in Ticked, StartHBlank(tick)
      PROVE  RefBehindBeam'
  BY <1>0, <1>3 DEF StartHBlank, RefBehindBeam, RefAdvances
<1>4. ASSUME NEW tick \in Ticked, EndLine(tick)
      PROVE  RefBehindBeam'
  <2>1. /\ vcount = line /\ line \in 0 .. TOTAL_LINES - 1 /\ phase = "hblank"
    BY <1>4 DEF EndLine, StatusMatchesBeam, TypeOK
  <2>2. vcount' = Incremented /\ ref' = (IF vcount' = VDRAW_LINES THEN 0 ELSE ref)
        /\ phase' \in {"hdraw", "between"}
    BY <1>4 DEF EndLine, VBlankStarts
  <2>3. vcount' = vcount + 1 \/ (vcount' = 0 /\ vcount >= VDRAW_LINES)
    BY <2>1, <2>2, FrameAssumption DEF Incremented
  <2>. QED BY <1>0, <2>1, <2>2, <2>3 DEF RefBehindBeam
<1>5. CASE UNCHANGED vars
  BY <1>5 DEF vars, RefBehindBeam
<1>. QED BY <1>1, <1>2, <1>3, <1>4, <1>5 DEF Next, Machine

(* The affine reference points are reloaded by the time VBlank begins and  *)
(* never run ahead of the beam, whatever the program writes.               *)
THEOREM FrameRefBehindBeam == Spec => []RefBehindBeam
<1>1. Init => RefBehindBeam
  BY FrameAssumption DEF Init, RefBehindBeam
<1>. QED BY <1>1, FrameTypeCorrect, FrameStatusMatchesBeam, StepRef, PTL DEF Spec
=============================================================================
