------------------------------ MODULE AudioOut ------------------------------
(***************************************************************************)
(* The samples' way out: apu_mix_sample puts them into a ring buffer       *)
(* (apu/apu.c), and once a frame frontend_push_audio (frontend.c) hands    *)
(* what is there to SDL, in two pieces when the ring has wrapped.  A       *)
(* sample is represented by its number, modulo the ring's size twice over, *)
(* which tells all the samples in flight apart.                            *)
(***************************************************************************)
EXTENDS Naturals, Sequences

CONSTANTS SAMPLE_BUFFER_SIZE,   \* 4096
          FrameSamples          \* the most samples in a frame: 549, less than the ring holds

VARIABLES device,               \* an audio device was opened
          sample_buffer, write_pos, read_pos,
          mixed,                \* samples mixed this frame
          number,               \* of the next sample
          sent, sentFrom        \* last handed to SDL, and the number it starts at

vars == <<device, sample_buffer, write_pos, read_pos, mixed, number, sent, sentFrom>>

Slot   == 0 .. SAMPLE_BUFFER_SIZE - 1
Number == 0 .. 2 * SAMPLE_BUFFER_SIZE - 1

(* n % m, for the sums of two remainders that the code takes it of.        *)
Wrap(n, m) == IF n >= m THEN n - m ELSE n
Plus(n, k) == Wrap(n + k, 2 * SAMPLE_BUFFER_SIZE)

Init == /\ device \in BOOLEAN
        /\ sample_buffer = [i \in Slot |-> 0] /\ write_pos = 0 /\ read_pos = 0
        /\ mixed = 0 /\ number = 0 /\ sent = <<>> /\ sentFrom = 0

-----------------------------------------------------------------------------
(* One slot stays free, to tell a full ring from an empty one.             *)
Full == Wrap(write_pos + 1, SAMPLE_BUFFER_SIZE) = read_pos

(* apu_mix_sample; a sample that finds the ring full is dropped.           *)
apu_mix_sample ==
  /\ mixed < FrameSamples
  /\ mixed' = mixed + 1
  /\ number' = Plus(number, 1)
  /\ IF Full THEN UNCHANGED <<sample_buffer, write_pos>>
     ELSE /\ sample_buffer' = [sample_buffer EXCEPT ![write_pos] = number]
          /\ write_pos' = Wrap(write_pos + 1, SAMPLE_BUFFER_SIZE)
  /\ UNCHANGED <<device, read_pos, sent, sentFrom>>

(* The slots from a up to, not including, b. *)
Piece(a, b) == [i \in 1 .. b - a |-> sample_buffer[a + i - 1]]

\* Mutant: the piece before the wrap is left out.
AvailableTail == IF write_pos > read_pos THEN Piece(read_pos, write_pos)
                 ELSE Piece(0, write_pos)

(* What frontend_push_audio queues: one piece, or two around the wrap.     *)
Available == IF write_pos > read_pos THEN Piece(read_pos, write_pos)
             ELSE Piece(read_pos, SAMPLE_BUFFER_SIZE) \o Piece(0, write_pos)

(* The end of a frame: main calls frontend_push_audio, which does nothing  *)
(* without a device or without samples.                                    *)
frontend_push_audio ==
  /\ mixed' = 0
  /\ IF device /\ write_pos # read_pos
     THEN /\ sent' = Available
          /\ read_pos' = write_pos
          /\ sentFrom' = Plus(sentFrom, Len(sent))
     ELSE UNCHANGED <<sent, read_pos, sentFrom>>
  /\ UNCHANGED <<device, sample_buffer, write_pos, number>>

Next == apu_mix_sample \/ frontend_push_audio

-----------------------------------------------------------------------------
(* Every sample reaches SDL once and in order: what was handed over last   *)
(* starts where the handover before ended, is consecutive, and together    *)
(* with what waits in the ring reaches up to the sample mixed last.        *)
Waiting == Wrap(write_pos + SAMPLE_BUFFER_SIZE - read_pos, SAMPLE_BUFFER_SIZE)

InOrder ==
  device =>
    /\ \A i \in 1 .. Len(sent) : sent[i] = Plus(sentFrom, i - 1)
    /\ number = Plus(sentFrom, Len(sent) + Waiting)
=============================================================================
