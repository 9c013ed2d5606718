--------------------------- MODULE NoiseGenerator ---------------------------
(***************************************************************************)
(* The shift register of sound channel 4 (noise_channel_tick and           *)
(* noise_channel_trigger, apu/channel.c) at its real size: 15 bits, or 7   *)
(* when the program chooses the short mode, which it may do while the      *)
(* channel sounds.  How fast the register is clocked is left out.          *)
(***************************************************************************)
EXTENDS Naturals

VARIABLES sounding,      \* NoiseChannel.enabled
          lfsr, width_mode,
          age,           \* history: clocks since the trigger, modulo the period
          switched,      \* history: the mode was changed since the trigger
          narrowed       \* history: it was changed from 15 to 7 bits

vars == <<sounding, lfsr, width_mode, age, switched, narrowed>>

Width  == IF width_mode THEN 7 ELSE 15
Seed   == 2^Width - 1          \* 0x7F or 0x7FFF
Period == 2^Width - 1

Init == /\ sounding = FALSE /\ lfsr = 0 /\ width_mode = FALSE
        /\ age = 0 /\ switched = FALSE /\ narrowed = FALSE

Bit(n, k) == (n \div 2^k) % 2

\* Mutant: the second tap is one bit too far.
FeedbackWide == (Bit(lfsr, 0) + Bit(lfsr, 2)) % 2

(* (lfsr ^ (lfsr >> 1)) & 1 *)
Feedback == (Bit(lfsr, 0) + Bit(lfsr, 1)) % 2

(* One clock: shift right, and replace the top bit of the mode's width.    *)
Clocked == LET n == lfsr \div 2
               k == Width - 1
           IN  (n - Bit(n, k) * 2^k) + Feedback * 2^k

noise_channel_tick ==
  /\ sounding
  /\ lfsr' = Clocked
  /\ age' = IF switched THEN 0 ELSE (age + 1) % Period
  /\ UNCHANGED <<sounding, width_mode, switched, narrowed>>

(* noise_channel_trigger; whether it sounds depends on the envelope.       *)
noise_channel_trigger(audible) ==
  /\ sounding' = audible
  /\ lfsr' = Seed
  /\ age' = 0 /\ switched' = FALSE /\ narrowed' = FALSE
  /\ UNCHANGED width_mode

(* SOUND4CNT_H, low byte. *)
WriteNoiseParams(w) ==
  /\ width_mode' = w
  /\ switched' = (switched \/ w # width_mode)
  /\ narrowed' = (narrowed \/ (w /\ ~width_mode))
  /\ age' = IF switched' THEN 0 ELSE age
  /\ UNCHANGED <<sounding, lfsr>>

(* The length runs out. *)
Expire == /\ sounding /\ sounding' = FALSE
          /\ UNCHANGED <<lfsr, width_mode, age, switched, narrowed>>

(* SOUNDCNT_X bit 7 cleared. *)
MasterOff == /\ sounding' = FALSE /\ lfsr' = 0 /\ width_mode' = FALSE
             /\ age' = 0 /\ switched' = FALSE /\ narrowed' = FALSE

Next == \/ noise_channel_tick
        \/ \E b \in BOOLEAN : noise_channel_trigger(b) \/ WriteNoiseParams(b)
        \/ Expire
        \/ MasterOff

-----------------------------------------------------------------------------
(* The noise is as long as its register allows: in either mode the state   *)
(* after a trigger comes back after 2^15 - 1 or 2^7 - 1 clocks, not before.*)
FullPeriod ==
  sounding /\ ~switched => (lfsr = Seed <=> age = 0)

(* A sounding channel never locks up at zero, where the feedback can only  *)
(* bring in zeros - unless the program narrowed the register meanwhile.    *)
NeverLocks == sounding /\ ~narrowed => lfsr # 0
=============================================================================
