---------------------------- MODULE SoundHistory ----------------------------
(***************************************************************************)
(* The DirectSound pipeline with a memory of which FIFOs are being kept    *)
(* alive: refilled by their own DMA channel, and since then neither reset  *)
(* by the program nor drained by an overflow the channel did not answer.   *)
(***************************************************************************)
EXTENDS SoundFifo

VARIABLE primed       \* the FIFOs kept alive

hvars == <<buffer, read_idx, write_idx, count, timer_id, last_sample, latch, channel,
           phase, timer, cur, origin, target, left, primed>>

HInit == Init /\ primed = {}

(* The channel of f is armed and points at f. *)
Answers(f) == Armed(f) /\ channel[f].dest = f

HNext ==
  \/ \E ids \in [Fifo -> {0, 1}], reset \in SUBSET Fifo :
       WriteSoundcntH(ids, reset) /\ primed' = primed \ reset
  \/ \E f \in Fifo, c \in Controls : dma_write_control(f, c) /\ UNCHANGED primed
  \/ \E f \in Fifo : Store(f) /\ UNCHANGED primed
  \/ \E t \in TimerIds : Overflow(t) /\ UNCHANGED primed
  \/ NotDriven /\ UNCHANGED primed
  \/ Serve /\ primed' = IF Answers(cur) THEN primed ELSE primed \ {cur}
  \/ \E s \in Samples :
       /\ Push(s)
       /\ primed' = IF origin = "dma" /\ target = cur THEN primed \cup {cur} ELSE primed

HSpec == HInit /\ [][HNext]_hvars

-----------------------------------------------------------------------------
(* No dropouts: once its DMA channel has refilled a FIFO, no timer         *)
(* overflow finds it empty as long as the channel answers each of them -   *)
(* whatever the program stores into the FIFO meanwhile, even when that     *)
(* overflows it.                                                           *)
NeverStarves == phase = "idle" => \A f \in primed : count[f] > 0
=============================================================================
