---------------------------- MODULE SoundChannels ---------------------------
(***************************************************************************)
(* The four tone channels of the sound unit (apu/channel.c), the frame     *)
(* sequencer that clocks them (apu_tick) and the registers through which   *)
(* the program plays them (io_write8): when a channel sounds, how long,    *)
(* how loud, and how channel 1's pitch sweeps.  The oscillators (freq_timer*)
(* and duty_pos, wave_pos, lfsr) decide nothing here; the noise generator  *)
(* has a module of its own.                                                *)
(***************************************************************************)
EXTENDS Naturals

CONSTANTS FRAME_SEQ_PERIOD,   \* 32768
          Slices,             \* cycles of one apu_tick: 960 and 272
          Used,               \* the channels the program plays
          FullLength,         \* 64, 64, 256, 64
          MaxVolume,          \* 15
          LowFreqs,           \* 256: values of the low frequency byte
          HighFreqs,          \* 8: values of its three high bits
          Lengths,            \* what 64 - n or 256 - n comes to
          EnvPeriods, SweepPeriods, Shifts   \* settings, out of 0..7

Ch       == 1..4
Enveloped == {1, 2, 4}
FreqLimit == LowFreqs * HighFreqs - 1          \* 2047

ASSUME ChannelsAssumption ==
  /\ FRAME_SEQ_PERIOD \in Nat \ {0}
  /\ Slices \subseteq 1 .. FRAME_SEQ_PERIOD
  /\ Used \subseteq Ch
  /\ FullLength \in [Ch -> Nat \ {0}]
  /\ MaxVolume \in Nat \ {0}
  /\ LowFreqs \in Nat \ {0} /\ HighFreqs \in Nat \ {0}
  /\ Lengths \subseteq Nat \ {0}
  /\ EnvPeriods \subseteq 0..7 /\ SweepPeriods \subseteq 0..7 /\ Shifts \subseteq 0..7

VARIABLES master,             \* SOUNDCNT_X bit 7
          frame_seq_timer, frame_seq_step,
          enabled, length_counter, length_enable,
          volume, vol_period, vol_dir, vol_timer,
          frequency,          \* of channel 1; the others only sound with theirs
          sweep_period, sweep_dir, sweep_shift,
          sweep_timer, sweep_freq, sweep_enabled

lenvars   == <<length_counter, length_enable>>
volvars   == <<volume, vol_period, vol_dir, vol_timer>>
sweepregs == <<sweep_period, sweep_dir, sweep_shift>>
sweepvars == <<sweep_timer, sweep_freq, sweep_enabled>>
seqvars   == <<frame_seq_timer, frame_seq_step>>
tone_vars == <<master, frame_seq_timer, frame_seq_step, enabled, length_counter, length_enable,
          volume, vol_period, vol_dir, vol_timer, frequency, sweep_period, sweep_dir,
          sweep_shift, sweep_timer, sweep_freq, sweep_enabled>>

Silent == /\ enabled' = [c \in Ch |-> FALSE]
          /\ length_counter' = [c \in Ch |-> 0] /\ length_enable' = [c \in Ch |-> FALSE]
          /\ volume' = [c \in Ch |-> 0] /\ vol_period' = [c \in Ch |-> 0]
          /\ vol_dir' = [c \in Ch |-> FALSE] /\ vol_timer' = [c \in Ch |-> 0]
          /\ frequency' = 0
          /\ sweep_period' = 0 /\ sweep_dir' = FALSE /\ sweep_shift' = 0
          /\ sweep_timer' = 0 /\ sweep_freq' = 0 /\ sweep_enabled' = FALSE

(* apu_init *)
ToneInit == /\ master = FALSE /\ frame_seq_timer = 0 /\ frame_seq_step = 0
        /\ enabled = [c \in Ch |-> FALSE]
        /\ length_counter = [c \in Ch |-> 0] /\ length_enable = [c \in Ch |-> FALSE]
        /\ volume = [c \in Ch |-> 0] /\ vol_period = [c \in Ch |-> 0]
        /\ vol_dir = [c \in Ch |-> FALSE] /\ vol_timer = [c \in Ch |-> 0]
        /\ frequency = 0
        /\ sweep_period = 0 /\ sweep_dir = FALSE /\ sweep_shift = 0
        /\ sweep_timer = 0 /\ sweep_freq = 0 /\ sweep_enabled = FALSE

-----------------------------------------------------------------------------
(* Registers.  All but SOUNDCNT_X ignore writes while the master is off.   *)

(* SOUNDCNT_X: turning the master off clears the channels and their        *)
(* registers; the sequencer keeps its place.                               *)
WriteMaster(b) ==
  /\ master' = b
  /\ IF master /\ ~b THEN Silent
     ELSE UNCHANGED <<enabled, lenvars, volvars, frequency, sweepregs, sweepvars>>
  /\ UNCHANGED seqvars

WriteSweep(p, d, s) ==
  /\ master
  /\ sweep_period' = p /\ sweep_dir' = d /\ sweep_shift' = s
  /\ UNCHANGED <<master, seqvars, enabled, lenvars, volvars, frequency, sweepvars>>

WriteLength(c, n) ==
  /\ master
  /\ length_counter' = [length_counter EXCEPT ![c] = n]
  /\ UNCHANGED <<master, seqvars, enabled, length_enable, volvars, frequency, sweepregs,
                 sweepvars>>

WriteEnvelope(c, v, up, p) ==
  /\ master
  /\ c \in Enveloped
  /\ vol_period' = [vol_period EXCEPT ![c] = p]
  /\ vol_dir' = [vol_dir EXCEPT ![c] = up]
  /\ volume' = [volume EXCEPT ![c] = v]
  /\ UNCHANGED <<master, seqvars, enabled, lenvars, vol_timer, frequency, sweepregs, sweepvars>>

(* SOUND3CNT_L: with bit 7 clear, the wave channel is off at once.         *)
WriteWaveOff ==
  /\ master
  /\ 3 \in Used
  /\ enabled' = [enabled EXCEPT ![3] = FALSE]
  /\ UNCHANGED <<master, seqvars, lenvars, volvars, frequency, sweepregs, sweepvars>>

WriteFreqLow(f) ==
  /\ master
  /\ frequency' = LowFreqs * (frequency \div LowFreqs) + f
  /\ UNCHANGED <<master, seqvars, enabled, lenvars, volvars, sweepregs, sweepvars>>

-----------------------------------------------------------------------------
(* A frequency shifted right by sweep_shift.                               *)
Shifted(f, s) == f \div <<1, 2, 4, 8, 16, 32, 64, 128>>[s + 1]

(* The frequency one sweep step on, and whether it is out of range.        *)
Swept(f, s)  == IF sweep_dir THEN f - Shifted(f, s) ELSE f + Shifted(f, s)
TooHigh(f)   == f > FreqLimit

(* The frequency with new high bits, as the control registers write it.    *)
WithHigh(c, h) == IF c = 1 THEN LowFreqs * h + (frequency % LowFreqs) ELSE frequency

(* *_channel_trigger: whether the channel comes on.  A volume of 0 that    *)
(* may only fall means the converter is off.                               *)
SweepAllows(f) == ~(sweep_shift > 0 /\ TooHigh(Swept(f, sweep_shift)))
ComesOn(c, f)  == /\ c = 1 => SweepAllows(f)
                  /\ c \in Enveloped => volume[c] > 0 \/ vol_dir[c]

\* Mutant: the length is not reloaded.
TriggerLengthStays(c) == length_counter[c]

(* The length a trigger leaves: a full one if it had run out.              *)
TriggerLength(c) == IF length_counter[c] = 0 THEN FullLength[c] ELSE length_counter[c]

(* The high control byte of a channel: frequency, length flag, trigger.    *)
WriteControl(c, h, len, trigger) ==
  LET f == WithHigh(c, h) IN
  /\ master
  /\ frequency' = f
  /\ length_enable' = [length_enable EXCEPT ![c] = len]
  /\ IF trigger
     THEN /\ enabled' = [enabled EXCEPT ![c] = ComesOn(c, f)]
          /\ length_counter' = [length_counter EXCEPT ![c] = TriggerLength(c)]
          /\ vol_timer' = IF c \in Enveloped
                          THEN [vol_timer EXCEPT ![c] = vol_period[c]] ELSE vol_timer
          /\ IF c = 1
             THEN /\ sweep_freq' = f /\ sweep_timer' = sweep_period
                  /\ sweep_enabled' = (sweep_period > 0 \/ sweep_shift > 0)
             ELSE UNCHANGED sweepvars
     ELSE UNCHANGED <<enabled, length_counter, vol_timer, sweepvars>>
  /\ UNCHANGED <<master, seqvars, volume, vol_period, vol_dir, sweepregs>>

Program ==
  \/ \E b \in BOOLEAN : WriteMaster(b)
  \/ 1 \in Used /\ \E p \in SweepPeriods, d \in BOOLEAN, s \in Shifts : WriteSweep(p, d, s)
  \/ 1 \in Used /\ \E f \in 0 .. LowFreqs - 1 : WriteFreqLow(f)
  \/ \E c \in Used, n \in Lengths : n <= FullLength[c] /\ WriteLength(c, n)
  \/ \E c \in Used, v \in 0..MaxVolume, up \in BOOLEAN, p \in EnvPeriods :
        WriteEnvelope(c, v, up, p)
  \/ WriteWaveOff
  \/ \E c \in Used, h \in 0 .. HighFreqs - 1, len \in BOOLEAN, trigger \in BOOLEAN :
        WriteControl(c, h, len, trigger)

-----------------------------------------------------------------------------
(* The frame sequencer: its eight steps.                                   *)
LengthStep   == frame_seq_step \in {0, 2, 4, 6}
SweepStep    == frame_seq_step \in {2, 6}
EnvelopeStep == frame_seq_step = 7

(* *_channel_length_tick *)
Counting(c) == LengthStep /\ length_enable[c] /\ length_counter[c] > 0

RunsOut(c)  == Counting(c) /\ length_counter[c] = 1

(* square_channel_sweep.  A timer at 0 or 1 is due.                        *)
Sweeping   == SweepStep /\ sweep_enabled /\ sweep_period > 0
SweepDue   == Sweeping /\ sweep_timer <= 1
SweepMoves == SweepDue /\ sweep_shift > 0
NewFreq    == Swept(sweep_freq, sweep_shift)

SweepTaken == SweepMoves /\ (sweep_dir \/ ~TooHigh(NewFreq))

\* Mutant: the second overflow check is forgotten.
SweepSilencesOnce == SweepMoves /\ ~sweep_dir /\ TooHigh(NewFreq)

(* The sweep ends the sound when the new frequency is too high, or the one *)
(* after it would be.                                                      *)
SweepSilences == /\ SweepMoves /\ ~sweep_dir
                 /\ TooHigh(NewFreq) \/ TooHigh(Swept(NewFreq, sweep_shift))

(* *_channel_envelope *)
Fading(c)  == EnvelopeStep /\ c \in Enveloped /\ vol_period[c] > 0
FadeDue(c) == Fading(c) /\ vol_timer[c] <= 1

Faded(c)   == IF vol_dir[c] /\ volume[c] < MaxVolume THEN volume[c] + 1
              ELSE IF ~vol_dir[c] /\ volume[c] > 0 THEN volume[c] - 1
              ELSE volume[c]

(* One step of the sequencer: lengths, then the sweep, then the envelopes. *)
SeqStep ==
  /\ frame_seq_step' = (frame_seq_step + 1) % 8
  /\ length_counter' = [c \in Ch |-> IF Counting(c) THEN length_counter[c] - 1
                                     ELSE length_counter[c]]
  /\ enabled' = [c \in Ch |-> /\ enabled[c] /\ ~RunsOut(c)
                              /\ ~(c = 1 /\ SweepSilences)]
  /\ sweep_timer' = IF SweepDue THEN sweep_period
                    ELSE IF Sweeping THEN sweep_timer - 1 ELSE sweep_timer
  /\ sweep_freq' = IF SweepTaken THEN NewFreq ELSE sweep_freq
  /\ frequency'  = IF SweepTaken THEN NewFreq ELSE frequency
  /\ vol_timer' = [c \in Ch |-> IF FadeDue(c) THEN vol_period[c]
                                ELSE IF Fading(c) THEN vol_timer[c] - 1 ELSE vol_timer[c]]
  /\ volume' = [c \in Ch |-> IF FadeDue(c) THEN Faded(c) ELSE volume[c]]
  /\ UNCHANGED <<length_enable, vol_period, vol_dir, sweepregs, sweep_enabled>>

\* Mutant: the cycles of earlier slices are forgotten (= instead of +=).
TickForgets(cycles) ==
  /\ master
  /\ IF cycles >= FRAME_SEQ_PERIOD
     THEN frame_seq_timer' = cycles - FRAME_SEQ_PERIOD /\ SeqStep
     ELSE /\ frame_seq_timer' = cycles
          /\ UNCHANGED <<frame_seq_step, enabled, lenvars, volvars, frequency, sweepregs,
                         sweepvars>>
  /\ UNCHANGED master

(* apu_tick: a slice is shorter than the sequencer's period, which is why  *)
(* its loop takes at most one step.                                        *)
apu_tick(cycles) ==
  /\ master
  /\ IF frame_seq_timer + cycles >= FRAME_SEQ_PERIOD
     THEN /\ frame_seq_timer' = frame_seq_timer + cycles - FRAME_SEQ_PERIOD
          /\ SeqStep
     ELSE /\ frame_seq_timer' = frame_seq_timer + cycles
          /\ UNCHANGED <<frame_seq_step, enabled, lenvars, volvars, frequency, sweepregs,
                         sweepvars>>
  /\ UNCHANGED master

ToneNext == Program \/ \E c \in Slices : apu_tick(c)

ToneSpec == ToneInit /\ [][ToneNext]_tone_vars

-----------------------------------------------------------------------------
(* Type invariant: in particular channel 1 never leaves the range in which *)
(* its period (2048 - frequency) * 16 is positive, volumes stay in 4 bits  *)
(* and the sequencer never owes itself a step.                             *)
TonesTyped ==
  /\ master \in BOOLEAN
  /\ frame_seq_timer \in 0 .. FRAME_SEQ_PERIOD - 1 /\ frame_seq_step \in 0..7
  /\ enabled \in [Ch -> BOOLEAN]
  /\ length_counter \in [Ch -> Nat] /\ length_enable \in [Ch -> BOOLEAN]
  /\ volume \in [Ch -> 0..MaxVolume] /\ vol_period \in [Ch -> 0..7]
  /\ vol_dir \in [Ch -> BOOLEAN] /\ vol_timer \in [Ch -> 0..7]
  /\ frequency \in 0..FreqLimit
  /\ sweep_period \in 0..7 /\ sweep_dir \in BOOLEAN /\ sweep_shift \in 0..7
  /\ sweep_timer \in 0..7 /\ sweep_freq \in 0..FreqLimit /\ sweep_enabled \in BOOLEAN

(* A channel that sounds has time left: no order of length writes,         *)
(* triggers, flag changes and master switches leaves one sounding with its *)
(* counter at zero, where the length tick could never end it.              *)
SoundHasTimeLeft == \A c \in Ch : enabled[c] => length_counter[c] > 0

(* With the master off nothing sounds, and nothing can be started.         *)
MasterOffIsSilent == ~master => \A c \in Ch : ~enabled[c]

(* Both: a channel that sounds is one that something will silence.         *)
SoundsOnlyWhenAllowed == SoundHasTimeLeft /\ MasterOffIsSilent

(* A sound with its length flag on ends, if the program leaves its length  *)
(* alone from some point on.                                               *)
LengthLeftAlone(c) == <>[][length_counter'[c] <= length_counter[c]]_tone_vars
TimedSoundEnds ==
  \A c \in Used : LengthLeftAlone(c) =>
     ((enabled[c] /\ length_enable[c]) ~> (~enabled[c] \/ ~length_enable[c]))

-----------------------------------------------------------------------------
(***************************************************************************)
(* The tone channels with a memory of whether the program changed the      *)
(* sweep register since channel 1 was last triggered.                      *)
(***************************************************************************)
VARIABLE rewritten

traced_vars == <<tone_vars, rewritten>>

TracedInit == ToneInit /\ rewritten = FALSE

HTick == \E c \in Slices : apu_tick(c) /\ UNCHANGED rewritten

TracedNext ==
  \/ \E b \in BOOLEAN : WriteMaster(b) /\ UNCHANGED rewritten
  \/ /\ 1 \in Used
     /\ \E p \in SweepPeriods, d \in BOOLEAN, s \in Shifts : WriteSweep(p, d, s)
     /\ rewritten' = TRUE
  \/ 1 \in Used /\ \E f \in 0 .. LowFreqs - 1 : WriteFreqLow(f) /\ UNCHANGED rewritten
  \/ /\ \E c \in Used, n \in Lengths : n <= FullLength[c] /\ WriteLength(c, n)
     /\ UNCHANGED rewritten
  \/ /\ \E c \in Used, v \in 0..MaxVolume, up \in BOOLEAN, p \in EnvPeriods :
          WriteEnvelope(c, v, up, p)
     /\ UNCHANGED rewritten
  \/ WriteWaveOff /\ UNCHANGED rewritten
  \/ \E c \in Used, h \in 0 .. HighFreqs - 1, len \in BOOLEAN, trigger \in BOOLEAN :
       /\ WriteControl(c, h, len, trigger)
       /\ rewritten' = (rewritten /\ ~(c = 1 /\ trigger))
  \/ HTick

(* gba_run_frame calls apu_tick twice a line, whatever the program does.   *)
TracedSpec == TracedInit /\ [][TracedNext]_traced_vars /\ WF_traced_vars(HTick)

-----------------------------------------------------------------------------
(* The two overflow checks together look one step ahead: unless the sweep  *)
(* register was rewritten under it, a rising sound that is still on has    *)
(* room for its next step, and so is never cut off by the first check.     *)
NextSweepFits ==
  enabled[1] /\ sweep_shift > 0 /\ ~sweep_dir /\ ~rewritten
    => ~TooHigh(Swept(sweep_freq, sweep_shift))
=============================================================================
