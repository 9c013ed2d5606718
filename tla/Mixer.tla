-------------------------------- MODULE Mixer -------------------------------
(***************************************************************************)
(* apu_mix_sample (apu/apu.c) up to the ring buffer: the four tone         *)
(* channels and the two held FIFO samples are routed and scaled to each    *)
(* side, biased, clamped as the 10-bit DAC does, turned into a signed      *)
(* 16-bit sample and low-pass filtered.  apu_tick gets that far only while *)
(* the program has the sound switched on; it may switch it at any time.    *)
(***************************************************************************)
EXTENDS Integers

CONSTANT Settings     \* what the mixer finds in the channels and registers: some of Setting

Side == {"left", "right"}
Tone == 1..4
Fifo == {"A", "B"}

(* level: the volume of a square or noise channel while its wave is high,  *)
(* the 4-bit sample of the wave channel; 0 for a channel that is off.      *)
Setting == [level : [Tone -> 0..15],
            wave_code : 0..3, force : BOOLEAN,              \* SOUND3CNT_H
            on : [Side -> SUBSET Tone], volume : [Side -> 0..7],  \* SOUNDCNT_L
            ratio : 0..3,                                   \* SOUNDCNT_H
            sample : [Fifo -> -128..127], full : SUBSET Fifo,
            route : [Side -> SUBSET Fifo],
            bias : 0..511]                                  \* SOUNDBIAS

VARIABLES sound_on, \* bit 7 of soundcnt_x: the sound is on
          prev,     \* prev_left, prev_right
          quiet,    \* nothing was heard in the last sample, on either side
          parity    \* of the number of samples: every call is a step

vars == <<sound_on, prev, quiet, parity>>

Init == sound_on = FALSE /\ prev = [s \in Side |-> 0] /\ quiet = TRUE /\ parity = 0

-----------------------------------------------------------------------------
(* Division and shift of C: the one rounds towards 0, the other down.      *)
Quotient(a, b) == IF a >= 0 THEN a \div b ELSE -((-a) \div b)
Shift(a, k) == a \div 2^k

Clamp(a, lo, hi) == IF a < lo THEN lo ELSE IF a > hi THEN hi ELSE a

(* The wave channel's own volume. *)
WaveLevel(x) ==
  LET s == IF x.wave_code = 0 THEN 0 ELSE Shift(x.level[3], x.wave_code - 1)
  IN  IF x.force THEN Shift(3 * s, 2) ELSE s

ChOut(x, t) == IF t = 3 THEN WaveLevel(x) ELSE x.level[t]

(* The tone channels on side s: master volume, then the ratio.             *)
Legacy(x, s) ==
  LET part(t) == IF t \in x.on[s] THEN ChOut(x, t) ELSE 0
      sum == part(1) + part(2) + part(3) + part(4)
      vol == Quotient(sum * (x.volume[s] + 1), 8)
  IN  IF x.ratio = 0 THEN Shift(vol, 2) ELSE IF x.ratio = 1 THEN Shift(vol, 1) ELSE vol

(* The FIFOs on side s, 50% or 100%. *)
Direct(x, s) ==
  LET part(f) == IF f \in x.route[s] THEN x.sample[f] * (IF f \in x.full THEN 4 ELSE 2)
                 ELSE 0
  IN  part("A") + part("B")

Mixed(x, s) == Legacy(x, s) + Direct(x, s)

(* Biased and clamped to the 10 bits of the DAC. *)
Dac(x, s) == Clamp(Mixed(x, s) + x.bias, 0, 1023)

(* Centred again and scaled, before the last clamp.                        *)
Scaled(x, s) == (Dac(x, s) - x.bias) * 32

Sample16(x, s) == Clamp(Scaled(x, s), -32768, 32767)

\* Mutant: the filter divides by a shift.
FilterShifts(p, a) == Shift(p + 3 * a, 2)

(* The low-pass filter: a quarter of the last sample, the rest of this.    *)
Filter(p, a) == Quotient(p + 3 * a, 4)

(* SOUNDCNT_X: the channels fall silent with the sound, which the settings *)
(* of the next sample show; what the filter remembers stays as it is.      *)
Switch == sound_on' = ~sound_on /\ UNCHANGED <<prev, quiet, parity>>

(* apu_mix_sample; apu_tick returns before it while the sound is off.      *)
Mix(x) ==
  /\ sound_on
  /\ prev' = [s \in Side |-> Filter(prev[s], Sample16(x, s))]
  /\ quiet' = \A s \in Side : Mixed(x, s) = 0
  /\ parity' = 1 - parity
  /\ UNCHANGED sound_on

Next == Switch \/ \E x \in Settings : Mix(x)

-----------------------------------------------------------------------------
(* The comment on the scaling says it fills "int16_t without overflow":    *)
(* for every bias the factor 32 keeps the sample within the DAC's range    *)
(* around it, so the filtered output stays there too, and the cast to      *)
(* int16_t loses nothing.  (The range is 32 times -511 .. 1023.)           *)
Fits == \A s \in Side : prev[s] \in Int /\ -16352 <= prev[s] /\ prev[s] <= 32736

(* Silence is silent: whatever sounded before, and whatever the bias is    *)
(* set to meanwhile, once the sound stays on and nothing more is heard the *)
(* filter comes to rest at 0 and leaves no offset.  (While the sound is    *)
(* off it keeps what it last held.)                                        *)
Settles == <>[](sound_on /\ quiet) => <>[](prev = [s \in Side |-> 0])
=============================================================================
