------------------------------ MODULE FrameLoop -----------------------------
(***************************************************************************)
(* gba_run_frame (gba.c) and what it drives: the scanline counter and the  *)
(* flags of DISPSTAT (ppu/ppu.c), the interrupt controller (interrupt.c),  *)
(* the HBlank and VBlank transfers, the affine reference points, and a     *)
(* processor that runs for a slice of every half line and may sleep        *)
(* (cpu_run).  The program is arbitrary: in its slices it may write any    *)
(* of the registers involved.                                              *)
(***************************************************************************)
EXTENDS Naturals

CONSTANTS TOTAL_LINES,     \* 228
          VDRAW_LINES,     \* 160
          Budget,          \* instructions in one slice of cpu_run
          Targets,         \* the VCount targets the program sets
          EnableSets,      \* the DISPSTAT interrupt enables it sets
          IeSets           \* the values it gives IE

Ppu  == {"VBLANK", "HBLANK", "VCOUNT"}
Irq  == Ppu \cup {"OTHER"}    \* OTHER: timers, DMA

ASSUME FrameAssumption ==
  /\ TOTAL_LINES \in Nat /\ VDRAW_LINES \in Nat
  /\ 0 < VDRAW_LINES /\ VDRAW_LINES < TOTAL_LINES
  /\ Budget \in Nat \ {0}
  /\ Targets \subseteq 0..255
  /\ EnableSets \subseteq SUBSET Ppu
  /\ IeSets \subseteq SUBSET Irq

VARIABLES phase,           \* between frames, or in cpu_run of a half line
          line,            \* the loop of gba_run_frame
          budget,          \* what is left of cpu_run's cycles
          vcount,
          vblank, hblank, vmatch,     \* DISPSTAT bits 0-2
          enables,         \* DISPSTAT bits 3-5
          target,          \* DISPSTAT bits 8-15
          forced_blank,    \* DISPCNT bit 7
          ref,             \* bg_ref - bg_ref_latch, in lines (PB = PD = 1)
          irf, ie, ime,    \* InterruptController
          irqOff, halted,  \* CPSR.I, ARM7TDMI.halted
          waiting,         \* the VBlankIntrWait call the processor sleeps in
          hdma, vdma,      \* calls of dma_on_hblank and dma_on_vblank this frame
          frame_complete

ppuvars == <<vcount, vblank, hblank, vmatch, enables, target, forced_blank, ref>>
icvars  == <<irf, ie, ime>>
cpuvars == <<irqOff, halted, waiting>>
vars == <<phase, line, budget, vcount, vblank, hblank, vmatch, enables, target,
          forced_blank, ref, irf, ie, ime, irqOff, halted, waiting, hdma, vdma,
          frame_complete>>

Init == /\ phase = "between" /\ line = 0 /\ budget = 0
        /\ vcount = 0 /\ vblank = FALSE /\ hblank = FALSE /\ vmatch = FALSE
        /\ enables = {} /\ target = 0 /\ forced_blank = FALSE /\ ref = 0
        /\ irf = {} /\ ie = {} /\ ime = FALSE
        /\ irqOff = FALSE /\ halted = FALSE /\ waiting = FALSE
        /\ hdma = 0 /\ vdma = 0 /\ frame_complete = FALSE

-----------------------------------------------------------------------------
(* The processor, in its slice.                                            *)
InSlice == phase \in {"hdraw", "hblank"} /\ budget > 0

interrupt_pending == ime /\ ie \cap irf # {}
cpu_check_irq     == interrupt_pending /\ ~irqOff

\* Mutant: an instruction that costs nothing.
InstrFree == /\ InSlice /\ ~halted /\ ~cpu_check_irq
             /\ UNCHANGED <<budget, phase, line, hdma, vdma, frame_complete>>

(* An instruction is executed: the processor is awake, no interrupt is due. *)
Instr == /\ InSlice /\ ~halted /\ ~cpu_check_irq
         /\ budget' = budget - 1
         /\ UNCHANGED <<phase, line, hdma, vdma, frame_complete>>

Other == Instr /\ UNCHANGED <<ppuvars, icvars, cpuvars>>

\* Mutant: the read-only flags are taken from the program's value.
DispstatOverwrites(e) ==
  /\ Instr
  /\ enables' = e /\ vblank' = FALSE
  /\ UNCHANGED <<vcount, hblank, vmatch, target, forced_blank, ref, icvars, cpuvars>>

(* DISPSTAT, low and high byte: bits 0-2 are preserved. *)
WriteDispstatLow(e) ==
  /\ Instr
  /\ enables' = e
  /\ UNCHANGED <<vcount, vblank, hblank, vmatch, target, forced_blank, ref, icvars, cpuvars>>

WriteDispstatHigh(t) ==
  /\ Instr
  /\ target' = t
  /\ UNCHANGED <<vcount, vblank, hblank, vmatch, enables, forced_blank, ref, icvars, cpuvars>>

WriteDispcnt(b) ==
  /\ Instr
  /\ forced_blank' = b
  /\ UNCHANGED <<vcount, vblank, hblank, vmatch, enables, target, ref, icvars, cpuvars>>

(* A reference point: written to the latch and to the internal copy.       *)
WriteBgRef ==
  /\ Instr
  /\ ref' = 0
  /\ UNCHANGED <<vcount, vblank, hblank, vmatch, enables, target, forced_blank, icvars, cpuvars>>

WriteIe(S)  == Instr /\ ie' = S       /\ UNCHANGED <<ppuvars, irf, ime, cpuvars>>
WriteIf(S)  == Instr /\ irf' = irf \ S /\ UNCHANGED <<ppuvars, ie, ime, cpuvars>>
WriteIme(b) == Instr /\ ime' = b      /\ UNCHANGED <<ppuvars, irf, ie, cpuvars>>

(* MSR, or the return from an interrupt handler. *)
WriteCpsr(b) == Instr /\ irqOff' = b /\ UNCHANGED <<ppuvars, icvars, halted, waiting>>

(* HALTCNT, swi_halt and swi_intr_wait; swi_vblank_intr_wait. *)
Halt   == Instr /\ halted' = TRUE /\ UNCHANGED <<ppuvars, icvars, irqOff, waiting>>
swi_vblank_intr_wait ==
  Instr /\ halted' = TRUE /\ waiting' = TRUE /\ UNCHANGED <<ppuvars, icvars, irqOff>>

\* Mutant: an interrupt does not wake the processor.
HandleIrqAsleep ==
  /\ InSlice /\ cpu_check_irq
  /\ irqOff' = TRUE /\ waiting' = FALSE
  /\ budget' = budget - 1
  /\ UNCHANGED <<phase, line, hdma, vdma, frame_complete, ppuvars, icvars, halted>>

(* An interrupt is due: cpu_run wakes the processor if need be, calls      *)
(* cpu_handle_irq and steps once.                                          *)
cpu_handle_irq ==
  /\ InSlice /\ cpu_check_irq
  /\ halted' = FALSE /\ irqOff' = TRUE /\ waiting' = FALSE
  /\ budget' = budget - 1
  /\ UNCHANGED <<phase, line, hdma, vdma, frame_complete, ppuvars, icvars>>

Program ==
  \/ Other
  \/ \E e \in EnableSets : WriteDispstatLow(e)
  \/ \E t \in Targets : WriteDispstatHigh(t)
  \/ \E b \in BOOLEAN : WriteDispcnt(b) \/ WriteIme(b) \/ WriteCpsr(b)
  \/ WriteBgRef
  \/ \E S \in IeSets : WriteIe(S)
  \/ \E S \in {{q} : q \in Irq} : WriteIf(S)
  \/ Halt
  \/ swi_vblank_intr_wait
  \/ cpu_handle_irq

(* cpu_run returns: its cycles are used up, or the processor sleeps.       *)
SliceOver == budget = 0 \/ (halted /\ ~cpu_check_irq)

-----------------------------------------------------------------------------
(* gba_run_frame.                                                          *)
StartFrame ==
  /\ phase = "between"
  /\ phase' = "hdraw" /\ line' = 0 /\ budget' = Budget
  /\ frame_complete' = FALSE /\ hdma' = 0 /\ vdma' = 0
  /\ UNCHANGED <<ppuvars, icvars, cpuvars>>

(* interrupt_request_if_enabled *)
Requested(q, b) == IF b /\ q \in enables THEN {q} ELSE {}

(* The timers and the sound tick may request interrupts of their own.      *)
Ticked == {{}, {"OTHER"}}

\* Mutant: they move on during VBlank too.
RefAdvancesAlways == ~forced_blank

(* ppu_render_scanline reaches its last step, the reference points.        *)
RefAdvances == line < VDRAW_LINES /\ vcount < VDRAW_LINES /\ ~forced_blank

(* From HDraw to HBlank: the line is rendered, the reference points move   *)
(* on unless the display is blanked, HBlank transfers run on visible lines *)
(* and the HBlank interrupt is requested on all of them.                   *)
StartHBlank(tick) ==
  /\ phase = "hdraw" /\ SliceOver
  /\ phase' = "hblank" /\ budget' = Budget
  /\ hblank' = TRUE
  /\ ref'  = IF RefAdvances THEN ref + 1 ELSE ref
  /\ hdma' = IF line < VDRAW_LINES THEN hdma + 1 ELSE hdma
  /\ irf'  = irf \cup tick \cup Requested("HBLANK", TRUE)
  /\ UNCHANGED <<line, vdma, frame_complete, vcount, vblank, vmatch, enables, target,
                 forced_blank, ie, ime, cpuvars>>

(* ppu_increment_vcount *)
Incremented == IF vcount + 1 >= TOTAL_LINES THEN 0 ELSE vcount + 1

(* ppu_set_vblank at the first line of VBlank and at line 0. *)
VBlankAt(v) == IF v = VDRAW_LINES THEN TRUE ELSE IF v = 0 THEN FALSE ELSE vblank

\* Mutant: the frame is reported at the wrap, which the loop never reaches.
ReportedAtWrap(v) == v = TOTAL_LINES

(* The line on which VBlank starts and the frame is reported complete.     *)
VBlankStarts(v) == v = VDRAW_LINES

(* The end of a scanline. *)
EndLine(tick) ==
  LET v == Incremented IN
  /\ phase = "hblank" /\ SliceOver
  /\ hblank' = FALSE
  /\ vcount' = v
  /\ vmatch' = (v = target)
  /\ vblank' = VBlankAt(v)
  /\ irf' = irf \cup tick \cup Requested("VCOUNT", v = target)
                          \cup Requested("VBLANK", VBlankStarts(v))
  /\ vdma' = IF VBlankStarts(v) THEN vdma + 1 ELSE vdma
  /\ ref'  = IF VBlankStarts(v) THEN 0 ELSE ref
  /\ frame_complete' = (frame_complete \/ VBlankStarts(v))
  /\ IF line + 1 < TOTAL_LINES
     THEN phase' = "hdraw" /\ line' = line + 1 /\ budget' = Budget
     ELSE phase' = "between" /\ line' = 0 /\ budget' = 0
  /\ UNCHANGED <<hdma, enables, target, forced_blank, ie, ime, cpuvars>>

Machine == \/ StartFrame
           \/ \E tick \in Ticked : StartHBlank(tick) \/ EndLine(tick)

Next == Program \/ Machine

Spec == Init /\ [][Next]_vars

(* main's loop calls gba_run_frame again and again, and everything below   *)
(* it is sequential code.                                                  *)
FairSpec == Spec /\ WF_vars(Next)

-----------------------------------------------------------------------------
(* Type invariant of the loop, the registers and the processor's state.    *)
TypeOK == /\ phase \in {"between", "hdraw", "hblank"}
          /\ line \in 0 .. TOTAL_LINES - 1 /\ budget \in 0..Budget
          /\ vcount \in 0 .. TOTAL_LINES - 1
          /\ vblank \in BOOLEAN /\ hblank \in BOOLEAN /\ vmatch \in BOOLEAN
          /\ enables \in SUBSET Ppu /\ target \in 0..255
          /\ forced_blank \in BOOLEAN /\ ref \in Nat
          /\ irf \in SUBSET Irq /\ ie \in SUBSET Irq /\ ime \in BOOLEAN
          /\ irqOff \in BOOLEAN /\ halted \in BOOLEAN /\ waiting \in BOOLEAN
          /\ hdma \in Nat /\ vdma \in Nat /\ frame_complete \in BOOLEAN

(* Whenever the program can look, VCOUNT and the flags of DISPSTAT tell    *)
(* where the loop of gba_run_frame is - although the program writes        *)
(* DISPSTAT, and loop and counter are kept separately.                     *)
StatusMatchesBeam ==
  /\ phase # "between" => vcount = line
  /\ phase = "between" => vcount = 0
  /\ vblank <=> vcount >= VDRAW_LINES
  /\ hblank <=> phase = "hblank"

(* The visible lines whose HDraw is over. *)
LinesDrawn == IF line >= VDRAW_LINES THEN VDRAW_LINES
              ELSE IF phase = "hblank" THEN line + 1 ELSE line

(* One frame per call: when gba_run_frame returns, the frame was reported  *)
(* complete, every visible line had its HBlank transfers, and VBlank       *)
(* transfers were triggered once, whatever the program slept or wrote.     *)
FrameDelivered ==
  /\ phase = "between" /\ frame_complete => hdma = VDRAW_LINES /\ vdma = 1
  /\ phase # "between" => /\ frame_complete <=> vcount >= VDRAW_LINES
                          /\ vdma = (IF vcount >= VDRAW_LINES THEN 1 ELSE 0)
                          /\ hdma = LinesDrawn

(* The reference points are back at the latches for the whole of VBlank,   *)
(* and are never ahead of the beam while the picture is drawn.             *)
RefBehindBeam ==
  IF vcount >= VDRAW_LINES THEN ref = 0
  ELSE ref <= vcount + (IF phase = "hblank" THEN 1 ELSE 0)

(* Frames never stop coming, not even when the program sleeps for good or  *)
(* never leaves its interrupt handlers.                                    *)
FramesGoOn == []<>(phase = "between")

(* A program that sleeps until VBlank wakes up: halted with the VBlank     *)
(* interrupt enabled in DISPSTAT, IE, IME and CPSR, cpu_run lets it go on. *)
AsleepForVBlank == /\ halted /\ ime /\ ~irqOff
                   /\ "VBLANK" \in ie /\ "VBLANK" \in enables
SleeperWakes == AsleepForVBlank ~> ~halted

(* VBlankIntrWait is documented to "wait for VBlank interrupt"             *)
(* (swi_vblank_intr_wait, cpu/bios_hle.c): it ends with one due.           *)
WaitsForVBlank == [][waiting /\ ~waiting' => "VBLANK" \in irf]_vars

(* "This happens unconditionally for visible lines" (ppu_render_scanline): *)
(* the reference points move on with every visible line.                   *)
RefAlwaysTicks ==
  [][phase = "hdraw" /\ phase' = "hblank" /\ line < VDRAW_LINES => ref' = ref + 1]_vars
=============================================================================
