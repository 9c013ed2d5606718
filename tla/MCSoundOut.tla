----------------------------- MODULE MCSoundOut -----------------------------
(***************************************************************************)
(* The way of a sound to the loudspeaker, for TLC: a DirectSound FIFO with *)
(* its DMA channel, the noise generator, the mixer and the ring buffer     *)
(* behind it.  Each hands plain samples to the next and none looks back,   *)
(* so a behaviour follows one of them; the mixer either at its limits or   *)
(* with small sounds.                                                      *)
(***************************************************************************)
EXTENDS SoundHistory, Integers, Sequences

CONSTANTS SAMPLE_BUFFER_SIZE, FrameSamples

(* A frame's samples fit into the ring (549 and 4096 in the code).         *)
ASSUME OutAssumption ==
  SAMPLE_BUFFER_SIZE \in Nat /\ FrameSamples \in Nat /\ FrameSamples < SAMPLE_BUFFER_SIZE

VARIABLES part,
          sound_on, prev, quiet, parity,                              \* Mixer
          device, sample_buffer, write_pos, read_pos, mixed, number,  \* AudioOut
          sent, sentFrom,
          sounding, lfsr, width_mode, age, switched, narrowed         \* NoiseGenerator

mixvars   == <<sound_on, prev, quiet, parity>>
outvars   == <<device, sample_buffer, write_pos, read_pos, mixed, number, sent, sentFrom>>
noisevars == <<sounding, lfsr, width_mode, age, switched, narrowed>>
ovars     == <<part, hvars, mixvars, outvars, noisevars>>

(* The FIFO's channel may point at the FIFO or away from it.               *)
MCControls == [enabled : BOOLEAN, fifo_timing : {TRUE}, repeat : BOOLEAN,
               dest : Fifo \cup {Elsewhere}]

-----------------------------------------------------------------------------
(* Settings of the mixer: tones at the levels lv[t], wave volume w, ratio  *)
(* r, FIFO A and B at a and b, at full volume for those in full.           *)
Heard(lv, w, r, a, b, full, on, route, bias) ==
  [level |-> lv, wave_code |-> w, force |-> w = 2,
   on |-> [s \in {"left", "right"} |-> IF s \in on THEN 1..4 ELSE {}],
   volume |-> [s \in {"left", "right"} |-> 7], ratio |-> r,
   sample |-> [f \in {"A", "B"} |-> IF f = "A" THEN a ELSE b], full |-> full,
   route |-> [s \in {"left", "right"} |-> route[s]], bias |-> bias]

(* All at the limit, up and down, for the least, usual and largest bias,   *)
(* on the left; nothing on the right.                                      *)
OnLeft == [s \in {"left", "right"} |-> IF s = "left" THEN {"A", "B"} ELSE {}]
Extremes == {Heard([t \in 1..4 |-> x[1]], 1, 2, x[2], x[2], {"A", "B"}, {"left"}, OnLeft, i) :
               x \in {<<0, -128>>, <<15, 127>>}, i \in {0, 256, 511}}

(* FIFO A a step up or down on the left, a quiet tone on both sides, any   *)
(* ratio and wave volume; the least, usual and largest bias.               *)
Apart == [s \in {"left", "right"} |-> IF s = "left" THEN {"A"} ELSE {"B"}]
Small == {Heard([t \in 1..4 |-> IF t \in {1, 3} THEN v ELSE 0], r, r, a, 0, {},
                {"left", "right"}, Apart, i) :
            a \in {-1, 0, 1}, v \in {0, 3}, r \in 0..3, i \in {0, 256, 511}}

Loud  == INSTANCE Mixer WITH Settings <- Extremes
Soft  == INSTANCE Mixer WITH Settings <- Small
Out   == INSTANCE AudioOut
Noise == INSTANCE NoiseGenerator

-----------------------------------------------------------------------------
OInit == /\ part \in {"fifo", "loud", "soft", "out", "noise"}
         /\ HInit /\ Soft!Init /\ Out!Init /\ Noise!Init

SoftMix == /\ part = "soft" /\ UNCHANGED <<part, hvars, outvars, noisevars>>
           /\ \E x \in Small : Soft!Mix(x)

ONext == \/ SoftMix
         \/ part = "soft"  /\ Soft!Switch /\ UNCHANGED <<part, hvars, outvars, noisevars>>
         \/ part = "loud"  /\ Loud!Next  /\ UNCHANGED <<part, hvars, outvars, noisevars>>
         \/ part = "out"   /\ Out!Next   /\ UNCHANGED <<part, hvars, mixvars, noisevars>>
         \/ part = "noise" /\ Noise!Next /\ UNCHANGED <<part, hvars, mixvars, outvars>>
         \/ part = "fifo"  /\ HNext      /\ UNCHANGED <<part, mixvars, outvars, noisevars>>

(* While the sound is on apu_tick mixes a sample every SAMPLE_PERIOD       *)
(* cycles; the program need not leave it on.                               *)
OSpec == OInit /\ [][ONext]_ovars /\ WF_ovars(SoftMix)

-----------------------------------------------------------------------------
(* Silence is silent: whatever sounded before, and whatever the bias is    *)
(* set to meanwhile, once the program leaves the sound on and nothing is   *)
(* heard any more, the low-pass filter of apu_mix_sample comes to rest at  *)
(* 0 and leaves no offset.                                                 *)
SilenceSettles == Soft!Settles

(* What SDL gets: for every bias and with every source at its limit, the  *)
(* factor 32 of apu_mix_sample keeps the filtered sample within int16_t    *)
(* ("fill int16_t without overflow"); and every sample arrives once and in *)
(* order, through the ring buffer and the two pieces frontend_push_audio   *)
(* makes of it where it wraps.                                             *)
SoundArrives == Loud!Fits /\ Out!InOrder

(* The noise is as long as its register allows: in either mode the state   *)
(* after a trigger comes back after 2^15 - 1 or 2^7 - 1 clocks, not before;*)
(* and a sounding channel never locks up at zero, where the feedback can   *)
(* only bring in zeros, unless the program narrowed the register meanwhile.*)
NoiseHasFullPeriod == Noise!FullPeriod /\ Noise!NeverLocks
=============================================================================
