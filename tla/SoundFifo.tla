------------------------------ MODULE SoundFifo -----------------------------
(***************************************************************************)
(* The DirectSound pipeline of apu/apu.c and memory/dma.c: a timer         *)
(* overflow pops one sample from every FIFO it drives and, when the FIFO   *)
(* is half empty, DMA channel 1 or 2 refills it at once - or some other    *)
(* place, when the program pointed the channel elsewhere.  The program     *)
(* also writes the FIFOs itself.  Every byte written is a step.            *)
(***************************************************************************)
EXTENDS Naturals

CONSTANTS LastFifo,    \* FIFOs 0 (A) to LastFifo (B is 1)
          TimerIds,    \* the timers that overflow; SOUNDCNT_H offers 0 and 1
          FIFO_SIZE,   \* 32
          Half,        \* refill when no more than this is left (16)
          WordBytes,   \* bytes a 32-bit store pushes (4)
          BurstBytes,  \* bytes a FIFO transfer pushes: 4 words (16)
          Samples,     \* byte values
          Controls     \* the set-ups of DMA channels 1 and 2 in use

Fifo == 0..LastFifo
Idx  == 0 .. FIFO_SIZE - 1
Elsewhere == LastFifo + 1     \* a destination that is not a FIFO
Channel   == [enabled : BOOLEAN, fifo_timing : BOOLEAN, repeat : BOOLEAN,
              dest : Fifo \cup {Elsewhere}]

ASSUME SoundAssumption ==
  /\ LastFifo \in Nat
  /\ FIFO_SIZE \in Nat /\ Half \in Nat
  /\ WordBytes \in Nat \ {0} /\ BurstBytes \in Nat \ {0}
  /\ Half + BurstBytes <= FIFO_SIZE
  /\ 0 \in Samples
  /\ TimerIds \subseteq Nat
  /\ Controls \subseteq Channel

VARIABLES buffer, read_idx, write_idx, count, timer_id, last_sample,   \* FIFO
          latch,       \* fifo_a_latch, fifo_b_latch
          channel,     \* channel[f]: DMA channel f + 1
          phase,       \* where the code is: idle, serving FIFOs, pushing
          timer,       \* the timer that overflowed
          cur,         \* the FIFO apu_on_timer_overflow looks at
          origin,      \* who pushes: a store, or the DMA channel of cur
          target,      \* the FIFO pushed to, or Elsewhere
          left         \* bytes still to push

fifovars == <<buffer, read_idx, write_idx, count, last_sample>>
vars == <<buffer, read_idx, write_idx, count, timer_id, last_sample, latch, channel,
          phase, timer, cur, origin, target, left>>

-----------------------------------------------------------------------------
(* apu_init, dma_init. *)
Init == /\ buffer = [f \in Fifo |-> [k \in Idx |-> 0]]
        /\ read_idx = [f \in Fifo |-> 0] /\ write_idx = [f \in Fifo |-> 0]
        /\ count = [f \in Fifo |-> 0]
        /\ timer_id = [f \in Fifo |-> 0]
        /\ last_sample = [f \in Fifo |-> 0] /\ latch = [f \in Fifo |-> 0]
        /\ channel = [f \in Fifo |-> [enabled |-> FALSE, fifo_timing |-> FALSE,
                                      repeat |-> FALSE, dest |-> Elsewhere]]
        /\ phase = "idle" /\ timer = 0 /\ cur = 0 /\ origin = "store"
        /\ target = Elsewhere /\ left = 0

(* (idx + 1) % FIFO_SIZE *)
Succ(k) == IF k + 1 = FIFO_SIZE THEN 0 ELSE k + 1

\* Mutant: a byte that finds the FIFO full empties it and is lost.
PushByteEmpties(f, s) ==
  LET full == count[f] >= FIFO_SIZE IN
  /\ buffer'    = IF full THEN buffer ELSE [buffer EXCEPT ![f][write_idx[f]] = s]
  /\ write_idx' = [write_idx EXCEPT ![f] = IF full THEN 0 ELSE Succ(@)]
  /\ read_idx'  = [read_idx  EXCEPT ![f] = IF full THEN 0 ELSE @]
  /\ count'     = [count     EXCEPT ![f] = IF full THEN 0 ELSE @ + 1]

(* One round of the loop in apu_fifo_write: a full FIFO is reset first.    *)
PushByte(f, s) ==
  LET full == count[f] >= FIFO_SIZE
      w    == IF full THEN 0 ELSE write_idx[f]
  IN /\ buffer'    = [buffer    EXCEPT ![f][w] = s]
     /\ write_idx' = [write_idx EXCEPT ![f] = Succ(w)]
     /\ read_idx'  = [read_idx  EXCEPT ![f] = IF full THEN 0 ELSE @]
     /\ count'     = [count     EXCEPT ![f] = IF full THEN 1 ELSE @ + 1]

\* Mutant: the sample is read after the index has moved.
PopNext(f) ==
  IF count[f] = 0
  THEN latch' = [latch EXCEPT ![f] = last_sample[f]] /\ UNCHANGED <<read_idx, count, last_sample>>
  ELSE /\ latch'       = [latch       EXCEPT ![f] = buffer[f][Succ(read_idx[f])]]
       /\ last_sample' = [last_sample EXCEPT ![f] = buffer[f][Succ(read_idx[f])]]
       /\ read_idx'    = [read_idx    EXCEPT ![f] = Succ(@)]
       /\ count'       = [count       EXCEPT ![f] = @ - 1]

(* fifo_a_latch = apu_fifo_pop(...); an empty FIFO repeats itself.         *)
apu_fifo_pop(f) ==
  IF count[f] = 0
  THEN latch' = [latch EXCEPT ![f] = last_sample[f]] /\ UNCHANGED <<read_idx, count, last_sample>>
  ELSE /\ latch'       = [latch       EXCEPT ![f] = buffer[f][read_idx[f]]]
       /\ last_sample' = [last_sample EXCEPT ![f] = buffer[f][read_idx[f]]]
       /\ read_idx'    = [read_idx    EXCEPT ![f] = Succ(@)]
       /\ count'       = [count       EXCEPT ![f] = @ - 1]

-----------------------------------------------------------------------------
(* The program.                                                            *)

(* SOUNDCNT_H high byte: timer selection, and fifo_reset of the FIFOs in   *)
(* reset; the held sample stays.                                           *)
WriteSoundcntH(ids, reset) ==
  /\ phase = "idle"
  /\ timer_id'  = ids
  /\ read_idx'  = [f \in Fifo |-> IF f \in reset THEN 0 ELSE read_idx[f]]
  /\ write_idx' = [f \in Fifo |-> IF f \in reset THEN 0 ELSE write_idx[f]]
  /\ count'     = [f \in Fifo |-> IF f \in reset THEN 0 ELSE count[f]]
  /\ UNCHANGED <<buffer, last_sample, latch, channel, phase, timer, cur, origin, target, left>>

(* CNT_H of channel f + 1: the destination is latched on the rising edge   *)
(* of the enable bit.  (An immediate transfer is a series of stores.)      *)
dma_write_control(f, c) ==
  /\ phase = "idle"
  /\ channel' = [channel EXCEPT ![f] =
       [c EXCEPT !.dest = IF ~channel[f].enabled /\ c.enabled THEN c.dest
                          ELSE channel[f].dest]]
  /\ UNCHANGED <<fifovars, timer_id, latch, phase, timer, cur, origin, target, left>>

(* A store of a word, or of its fourth byte. *)
Store(f) ==
  /\ phase = "idle"
  /\ phase' = "push" /\ origin' = "store" /\ target' = f /\ left' = WordBytes
  /\ UNCHANGED <<fifovars, timer_id, latch, channel, timer, cur>>

-----------------------------------------------------------------------------
(* apu_on_timer_overflow.                                                  *)
Overflow(t) ==
  /\ phase = "idle"
  /\ phase' = "serve" /\ timer' = t /\ cur' = 0
  /\ UNCHANGED <<fifovars, timer_id, latch, channel, origin, target, left>>

NextFifo == IF cur = LastFifo THEN phase' = "idle" /\ UNCHANGED cur
            ELSE phase' = "serve" /\ cur' = cur + 1

NotDriven == /\ phase = "serve" /\ timer_id[cur] # timer
             /\ NextFifo
             /\ UNCHANGED <<fifovars, timer_id, latch, channel, timer, origin, target, left>>

(* dma_on_fifo: channel f + 1 is enabled and has FIFO timing. *)
Armed(f) == channel[f].enabled /\ channel[f].fifo_timing

\* Mutant: the level is compared with the capacity.
LowWhenNotFull(n) == n < FIFO_SIZE

Low(n) == n <= Half

Serve == /\ phase = "serve" /\ timer_id[cur] = timer
         /\ apu_fifo_pop(cur)
         /\ IF Low(count'[cur]) /\ Armed(cur)
            THEN /\ phase' = "push" /\ origin' = "dma"
                 /\ target' = channel[cur].dest /\ left' = BurstBytes
                 /\ UNCHANGED cur
            ELSE NextFifo /\ UNCHANGED <<origin, target, left>>
         /\ UNCHANGED <<buffer, write_idx, timer_id, channel, timer>>

-----------------------------------------------------------------------------
(* A transfer that is over: a store is done; a channel that does not       *)
(* repeat is disabled, and the next FIFO is looked at.                     *)
TransferDone ==
  IF origin = "store"
  THEN phase' = "idle" /\ UNCHANGED <<cur, channel>>
  ELSE /\ NextFifo
       /\ channel' = IF channel[cur].repeat THEN channel
                     ELSE [channel EXCEPT ![cur].enabled = FALSE]

Push(s) == /\ phase = "push"
           /\ IF target = Elsewhere THEN UNCHANGED <<buffer, read_idx, write_idx, count>>
              ELSE PushByte(target, s)
           /\ left' = left - 1
           /\ IF left = 1 THEN TransferDone ELSE UNCHANGED <<phase, cur, channel>>
           /\ UNCHANGED <<timer_id, last_sample, latch, timer, origin, target>>

Next == \/ \E ids \in [Fifo -> {0, 1}], reset \in SUBSET Fifo : WriteSoundcntH(ids, reset)
        \/ \E f \in Fifo, c \in Controls : dma_write_control(f, c)
        \/ \E f \in Fifo : Store(f)
        \/ \E t \in TimerIds : Overflow(t)
        \/ NotDriven
        \/ Serve
        \/ \E s \in Samples : Push(s)

Spec == Init /\ [][Next]_vars

-----------------------------------------------------------------------------
(* Type invariant: indices stay inside the ring, a FIFO never holds more   *)
(* than its capacity, and a transfer in progress has bytes left.           *)
TypeOK ==
  /\ buffer \in [Fifo -> [Idx -> Samples]]
  /\ read_idx \in [Fifo -> Idx] /\ write_idx \in [Fifo -> Idx]
  /\ count \in [Fifo -> 0..FIFO_SIZE]
  /\ timer_id \in [Fifo -> {0, 1}]
  /\ last_sample \in [Fifo -> Samples] /\ latch \in [Fifo -> Samples]
  /\ channel \in [Fifo -> Channel]
  /\ phase \in {"idle", "serve", "push"} /\ origin \in {"store", "dma"}
  /\ timer \in Nat /\ cur \in Fifo /\ target \in Fifo \cup {Elsewhere} /\ left \in Nat
  /\ phase = "push" => left > 0

(* The n-th slot after k, around the ring. *)
Slot(k, n) == IF k + n >= FIFO_SIZE THEN k + n - FIFO_SIZE ELSE k + n

(* The indices and the count of a FIFO never drift apart, across pops,     *)
(* refills, resets on overflow and resets by the program.                  *)
RingConsistent == \A f \in Fifo : write_idx[f] = Slot(read_idx[f], count[f])

(* The samples that wait, oldest first. *)
Waiting == [f \in Fifo |-> [n \in 1..count[f] |-> buffer[f][Slot(read_idx[f], n - 1)]]]

(* Playback order: each FIFO implements a queue, so every sample written   *)
(* is played once, in order, unless a reset discards it.                   *)
Q == INSTANCE SampleQueue WITH queue <- Waiting, out <- latch, Size <- FIFO_SIZE
ImplementsQueue == Q!Spec

(* A refill of a FIFO by its own DMA channel never finds it full, so the   *)
(* refill never throws away samples that were waiting (apu_fifo_write      *)
(* resets a full FIFO) - however stores, resets and overflows interleave.  *)
RefillFits ==
  phase = "push" /\ origin = "dma" /\ target = cur => count[cur] + left <= FIFO_SIZE
=============================================================================
