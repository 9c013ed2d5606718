---------------------------- MODULE SoundProofs -----------------------------
(***************************************************************************)
(* The way of a sample.  First the DirectSound FIFOs, for every size,      *)
(* burst and word length with room for a burst above the refill level:     *)
(* they are queues, a refill never discards samples and none that is       *)
(* served runs dry.  Then the mixer, for every setting of its registers,   *)
(* and the ring that hands the samples to SDL, for every size of it.  Last *)
(* the tone channels, for every length of the sequencer's period, every    *)
(* range of volumes and frequencies and every program.                     *)
(***************************************************************************)
EXTENDS MCSoundOut, SoundChannels, SequenceTheorems, TLAPS

(* A FIFO has room. *)
LEMMA SizePositive == FIFO_SIZE \in Nat \ {0}
  BY SoundAssumption

(* The index after an index is an index. *)
LEMMA SuccType ==
  ASSUME NEW k \in Idx
  PROVE  Succ(k) \in Idx
  BY SizePositive DEF Succ, Idx

(* The initial state is of its type. *)
LEMMA InitTypeOK == Init => TypeOK
<1>. SUFFICES ASSUME Init
              PROVE  TypeOK
  OBVIOUS
<1>. DEFINE off == [enabled |-> FALSE, fifo_timing |-> FALSE, repeat |-> FALSE,
                    dest |-> Elsewhere]
<1>1. off \in Channel
  BY DEF Channel
<1>2. channel = [f \in Fifo |-> off]
  BY DEF Init
<1>. HIDE DEF off
<1>3. channel \in [Fifo -> Channel]
  BY <1>1, <1>2
<1>4. /\ buffer \in [Fifo -> [Idx -> Samples]]
      /\ read_idx \in [Fifo -> Idx] /\ write_idx \in [Fifo -> Idx]
      /\ count \in [Fifo -> 0..FIFO_SIZE] /\ timer_id \in [Fifo -> {0, 1}]
      /\ last_sample \in [Fifo -> Samples] /\ latch \in [Fifo -> Samples]
  BY SizePositive, SoundAssumption DEF Init, Idx
<1>5. /\ phase \in {"idle", "serve", "push"} /\ origin \in {"store", "dma"}
      /\ timer \in Nat /\ cur \in Fifo /\ target \in Fifo \cup {Elsewhere} /\ left \in Nat
      /\ phase # "push"
  BY SoundAssumption DEF Init, Fifo
<1>. QED BY <1>3, <1>4, <1>5 DEF TypeOK

(* Going on to the next FIFO keeps the types. *)
LEMMA NextFifoType ==
  ASSUME TypeOK, NextFifo
  PROVE  cur' \in Fifo /\ phase' \in {"idle", "serve"}
  BY SoundAssumption DEF TypeOK, NextFifo, Fifo

(* Pushing a sample keeps the types. *)
LEMMA PushByteType ==
  ASSUME TypeOK, NEW f \in Fifo, NEW s \in Samples, PushByte(f, s)
  PROVE  /\ buffer' \in [Fifo -> [Idx -> Samples]]
         /\ read_idx' \in [Fifo -> Idx] /\ write_idx' \in [Fifo -> Idx]
         /\ count' \in [Fifo -> 0..FIFO_SIZE]
<1>. DEFINE full == count[f] >= FIFO_SIZE
            w    == IF full THEN 0 ELSE write_idx[f]
<1>1. w \in Idx /\ 0 \in Idx
  BY SizePositive DEF TypeOK, Idx
<1>2. Succ(w) \in Idx
  BY <1>1, SuccType
<1>3. (IF full THEN 1 ELSE count[f] + 1) \in 0..FIFO_SIZE
  BY SizePositive DEF TypeOK
<1>4. /\ buffer'    = [buffer    EXCEPT ![f] = [@ EXCEPT ![w] = s]]
      /\ write_idx' = [write_idx EXCEPT ![f] = Succ(w)]
      /\ read_idx'  = [read_idx  EXCEPT ![f] = IF full THEN 0 ELSE @]
      /\ count'     = [count     EXCEPT ![f] = IF full THEN 1 ELSE @ + 1]
  BY DEF PushByte
<1>. HIDE DEF w, full
<1>5. buffer' \in [Fifo -> [Idx -> Samples]]
  <2>1. [buffer[f] EXCEPT ![w] = s] \in [Idx -> Samples]
    BY <1>1 DEF TypeOK
  <2>. QED BY <1>4, <2>1 DEF TypeOK
<1>6. read_idx' \in [Fifo -> Idx] /\ write_idx' \in [Fifo -> Idx]
  BY <1>1, <1>2, <1>4 DEF TypeOK
<1>7. count' \in [Fifo -> 0..FIFO_SIZE]
  BY <1>3, <1>4 DEF TypeOK
<1>. QED BY <1>5, <1>6, <1>7

(* Popping a sample keeps the types. *)
LEMMA PopType ==
  ASSUME TypeOK, NEW f \in Fifo, apu_fifo_pop(f)
  PROVE  /\ latch' \in [Fifo -> Samples] /\ last_sample' \in [Fifo -> Samples]
         /\ read_idx' \in [Fifo -> Idx] /\ count' \in [Fifo -> 0..FIFO_SIZE]
<1>1. CASE count[f] = 0
  BY <1>1 DEF apu_fifo_pop, TypeOK
<1>2. CASE count[f] # 0
  <2>1. /\ read_idx[f] \in Idx /\ Succ(read_idx[f]) \in Idx
        /\ count[f] \in 0..FIFO_SIZE
    BY SuccType DEF TypeOK
  <2>3. count[f] - 1 \in 0..FIFO_SIZE
    BY <1>2, <2>1, SizePositive
  <2>2. buffer[f][read_idx[f]] \in Samples
    BY <2>1 DEF TypeOK
  <2>4. /\ latch'       = [latch       EXCEPT ![f] = buffer[f][read_idx[f]]]
        /\ last_sample' = [last_sample EXCEPT ![f] = buffer[f][read_idx[f]]]
        /\ read_idx'    = [read_idx    EXCEPT ![f] = Succ(read_idx[f])]
        /\ count'       = [count       EXCEPT ![f] = count[f] - 1]
    BY <1>2 DEF apu_fifo_pop
  <2>5. latch' \in [Fifo -> Samples] /\ last_sample' \in [Fifo -> Samples]
    BY <2>2, <2>4 DEF TypeOK
  <2>6. read_idx' \in [Fifo -> Idx]
    BY <2>1, <2>4 DEF TypeOK
  <2>7. count' \in [Fifo -> 0..FIFO_SIZE]
    BY <2>3, <2>4 DEF TypeOK
  <2>. QED BY <2>5, <2>6, <2>7
<1>. QED BY <1>1, <1>2

(* So does the end of a transfer. *)
LEMMA TransferDoneType ==
  ASSUME TypeOK, TransferDone
  PROVE  /\ cur' \in Fifo /\ phase' \in {"idle", "serve"}
         /\ channel' \in [Fifo -> Channel]
<1>1. CASE origin = "store"
  BY <1>1 DEF TransferDone, TypeOK
<1>2. CASE origin # "store"
  <2>1. cur' \in Fifo /\ phase' \in {"idle", "serve"}
    BY <1>2, NextFifoType DEF TransferDone
  <2>2. \A c \in Channel : [c EXCEPT !.enabled = FALSE] \in Channel
    BY DEF Channel
  <2>3. channel \in [Fifo -> Channel] /\ cur \in Fifo
    BY DEF TypeOK
  <2>4. [channel[cur] EXCEPT !.enabled = FALSE] \in Channel
    BY <2>2, <2>3
  <2>5. [channel EXCEPT ![cur].enabled = FALSE] \in [Fifo -> Channel]
    BY <2>3, <2>4, Zenon
  <2>6. channel' = channel \/ channel' = [channel EXCEPT ![cur].enabled = FALSE]
    BY <1>2, Zenon DEF TransferDone
  <2>. QED BY <2>1, <2>3, <2>5, <2>6
<1>. QED BY <1>1, <1>2

(* Every step keeps the types. *)
LEMMA StepTypeOK == TypeOK /\ [Next]_vars => TypeOK'
<1>. SUFFICES ASSUME TypeOK, [Next]_vars
              PROVE  TypeOK'
  OBVIOUS
<1>1. ASSUME NEW ids \in [Fifo -> {0, 1}], NEW reset \in SUBSET Fifo, WriteSoundcntH(ids, reset)
      PROVE  TypeOK'
  <2>1. /\ read_idx' \in [Fifo -> Idx] /\ write_idx' \in [Fifo -> Idx]
        /\ count' \in [Fifo -> 0..FIFO_SIZE] /\ timer_id' \in [Fifo -> {0, 1}]
    BY <1>1, SizePositive DEF WriteSoundcntH, TypeOK, Idx
  <2>. QED BY <1>1, <2>1 DEF WriteSoundcntH, TypeOK
<1>2. ASSUME NEW f \in Fifo, NEW c \in Controls, dma_write_control(f, c)
      PROVE  TypeOK'
  <2>. DEFINE c2 == [c EXCEPT !.dest = IF ~channel[f].enabled /\ c.enabled THEN c.dest
                                       ELSE channel[f].dest]
  <2>1. c \in Channel /\ channel[f] \in Channel
    BY SoundAssumption DEF TypeOK
  <2>2. c2 \in Channel
    BY <2>1 DEF Channel
  <2>3. channel' = [channel EXCEPT ![f] = c2]
    BY <1>2 DEF dma_write_control
  <2>. HIDE DEF c2
  <2>4. channel' \in [Fifo -> Channel]
    BY <2>2, <2>3 DEF TypeOK
  <2>. QED BY <1>2, <2>4 DEF dma_write_control, fifovars, TypeOK
<1>3. ASSUME NEW f \in Fifo, Store(f)
      PROVE  TypeOK'
  BY <1>3, SoundAssumption DEF Store, fifovars, TypeOK
<1>4. ASSUME NEW t \in TimerIds, Overflow(t)
      PROVE  TypeOK'
  BY <1>4, SoundAssumption DEF Overflow, fifovars, TypeOK, Fifo
<1>5. CASE NotDriven
  BY <1>5, NextFifoType DEF NotDriven, fifovars, TypeOK
<1>6. CASE Serve
  <2>1. apu_fifo_pop(cur) /\ cur \in Fifo
    BY <1>6 DEF Serve, TypeOK
  <2>2. /\ latch' \in [Fifo -> Samples] /\ last_sample' \in [Fifo -> Samples]
        /\ read_idx' \in [Fifo -> Idx] /\ count' \in [Fifo -> 0..FIFO_SIZE]
    BY <2>1, PopType
  <2>3. /\ phase' \in {"idle", "serve", "push"} /\ cur' \in Fifo
        /\ origin' \in {"store", "dma"} /\ target' \in Fifo \cup {Elsewhere}
        /\ left' \in Nat /\ (phase' = "push" => left' > 0)
    <3>1. channel[cur].dest \in Fifo \cup {Elsewhere}
      BY <2>1 DEF TypeOK, Channel
    <3>2. CASE Low(count'[cur]) /\ Armed(cur)
      BY <1>6, <2>1, <3>1, <3>2, SoundAssumption DEF Serve
    <3>3. CASE ~(Low(count'[cur]) /\ Armed(cur))
      BY <1>6, <3>3, NextFifoType DEF Serve, TypeOK
    <3>. QED BY <3>2, <3>3
  <2>. QED BY <1>6, <2>2, <2>3 DEF Serve, TypeOK
<1>7. ASSUME NEW s \in Samples, Push(s)
      PROVE  TypeOK'
  <2>1. /\ buffer' \in [Fifo -> [Idx -> Samples]]
        /\ read_idx' \in [Fifo -> Idx] /\ write_idx' \in [Fifo -> Idx]
        /\ count' \in [Fifo -> 0..FIFO_SIZE]
    <3>1. CASE target = Elsewhere
      BY <1>7, <3>1 DEF Push, TypeOK
    <3>2. CASE target # Elsewhere
      <4>1. target \in Fifo
        BY <3>2 DEF TypeOK
      <4>. QED BY <1>7, <3>2, <4>1, PushByteType DEF Push
    <3>. QED BY <3>1, <3>2
  <2>2. /\ cur' \in Fifo /\ phase' \in {"idle", "serve", "push"}
        /\ channel' \in [Fifo -> Channel]
        /\ left' \in Nat /\ (phase' = "push" => left' > 0)
    <3>1. left \in Nat /\ left > 0
      BY <1>7 DEF Push, TypeOK
    <3>2. CASE left = 1
      BY <1>7, <3>1, <3>2, TransferDoneType DEF Push
    <3>3. CASE left # 1
      BY <1>7, <3>1, <3>3 DEF Push, TypeOK
    <3>. QED BY <3>2, <3>3
  <2>. QED BY <1>7, <2>1, <2>2 DEF Push, TypeOK
<1>8. CASE UNCHANGED vars
  BY <1>8 DEF vars, TypeOK
<1>. QED BY <1>1, <1>2, <1>3, <1>4, <1>5, <1>6, <1>7, <1>8 DEF Next

(* The state of the pipeline stays well formed; in particular no FIFO ever *)
(* claims more samples than it has room for.                               *)
THEOREM SoundTypeCorrect == Spec => []TypeOK
  BY InitTypeOK, StepTypeOK, PTL DEF Spec

-----------------------------------------------------------------------------
(* The ring buffer.                                                        *)

LEMMA SlotFacts ==
  ASSUME NEW k \in Idx, NEW n \in 0..FIFO_SIZE
  PROVE  /\ Slot(k, 0) = k
         /\ n < FIFO_SIZE => Slot(k, n + 1) = Succ(Slot(k, n))
         /\ n > 0 => Slot(Succ(k), n - 1) = Slot(k, n)
  BY SizePositive DEF Slot, Succ, Idx

(* Every step keeps the write index count slots ahead of the read index. *)
LEMMA StepRingConsistent == TypeOK /\ RingConsistent /\ [Next]_vars => RingConsistent'
<1>. SUFFICES ASSUME TypeOK, RingConsistent, [Next]_vars, NEW g \in Fifo
              PROVE  write_idx'[g] = Slot(read_idx'[g], count'[g])
  BY DEF RingConsistent, Slot
<1>0. /\ read_idx[g] \in Idx /\ write_idx[g] \in Idx /\ count[g] \in 0..FIFO_SIZE
      /\ write_idx[g] = Slot(read_idx[g], count[g])
  BY DEF TypeOK, RingConsistent
<1>1. ASSUME NEW ids \in [Fifo -> {0, 1}], NEW reset \in SUBSET Fifo, WriteSoundcntH(ids, reset)
      PROVE  write_idx'[g] = Slot(read_idx'[g], count'[g])
  <2>1. CASE g \in reset
    <3>1. write_idx'[g] = 0 /\ read_idx'[g] = 0 /\ count'[g] = 0
      BY <1>1, <2>1 DEF WriteSoundcntH
    <3>. QED BY <3>1, SizePositive DEF Slot
  <2>2. CASE g \notin reset
    BY <1>0, <1>1, <2>2 DEF WriteSoundcntH
  <2>. QED BY <2>1, <2>2
<1>2. CASE Serve
  <2>1. PICK f \in Fifo : f = cur
    BY DEF TypeOK
  <2>2. apu_fifo_pop(f) /\ write_idx' = write_idx
    BY <1>2, <2>1 DEF Serve
  <2>3. CASE g = f /\ count[f] # 0
    <3>1. read_idx'[g] = Succ(read_idx[g]) /\ count'[g] = count[g] - 1
      BY <2>2, <2>3 DEF apu_fifo_pop, TypeOK
    <3>. QED BY <1>0, <2>2, <2>3, <3>1, SlotFacts
  <2>4. CASE ~(g = f /\ count[f] # 0)
    <3>1. read_idx'[g] = read_idx[g] /\ count'[g] = count[g]
      BY <2>2, <2>4 DEF apu_fifo_pop, TypeOK
    <3>. QED BY <1>0, <2>2, <3>1
  <2>. QED BY <2>3, <2>4
<1>3. ASSUME NEW s \in Samples, Push(s)
      PROVE  write_idx'[g] = Slot(read_idx'[g], count'[g])
  <2>1. CASE target # g
    <3>1. read_idx'[g] = read_idx[g] /\ count'[g] = count[g] /\ write_idx'[g] = write_idx[g]
      <4>1. CASE target = Elsewhere
        BY <1>3, <4>1 DEF Push
      <4>2. CASE target # Elsewhere
        BY <1>3, <2>1, <4>2 DEF Push, PushByte, TypeOK
      <4>. QED BY <4>1, <4>2
    <3>. QED BY <1>0, <3>1
  <2>2. CASE target = g
    <3>0. target # Elsewhere
      BY <2>2, SoundAssumption DEF Fifo, Elsewhere
    <3>1. PushByte(g, s)
      BY <1>3, <2>2, <3>0 DEF Push
    <3>2. CASE count[g] >= FIFO_SIZE
      <4>1. read_idx'[g] = 0 /\ count'[g] = 1 /\ write_idx'[g] = Succ(0)
        BY <3>1, <3>2 DEF PushByte, TypeOK
      <4>. QED BY <4>1, SizePositive DEF Slot, Succ
    <3>3. CASE ~(count[g] >= FIFO_SIZE)
      <4>1. /\ read_idx'[g] = read_idx[g] /\ count'[g] = count[g] + 1
            /\ write_idx'[g] = Succ(write_idx[g])
        BY <3>1, <3>3 DEF PushByte, TypeOK
      <4>2. count[g] < FIFO_SIZE
        BY <1>0, <3>3, SizePositive
      <4>. QED BY <1>0, <4>1, <4>2, SlotFacts
    <3>. QED BY <3>2, <3>3
  <2>. QED BY <2>1, <2>2
<1>4. CASE UNCHANGED <<read_idx, write_idx, count>>
  BY <1>0, <1>4
<1>. QED
  BY <1>1, <1>2, <1>3, <1>4
     DEF Next, dma_write_control, Store, Overflow, NotDriven, fifovars, vars

(* The indices and the count of a FIFO always agree, so no sample is read  *)
(* from a slot that holds none.                                            *)
THEOREM SoundRingConsistent == Spec => []RingConsistent
<1>1. Init => RingConsistent
  BY SizePositive DEF Init, RingConsistent, Slot
<1>. QED BY <1>1, SoundTypeCorrect, StepRingConsistent, PTL DEF Spec

-----------------------------------------------------------------------------
(* Refills.                                                                *)

LEMMA StepRefillFits == TypeOK /\ RefillFits /\ [Next]_vars => RefillFits'
<1>. SUFFICES ASSUME TypeOK, RefillFits, [Next]_vars,
                     phase' = "push", origin' = "dma", target' = cur'
              PROVE  count'[cur'] + left' <= FIFO_SIZE
  BY DEF RefillFits
<1>1. CASE Serve
  <2>1. cur \in Fifo /\ count' \in [Fifo -> 0..FIFO_SIZE]
    BY <1>1, PopType DEF Serve, TypeOK
  <2>2. Low(count'[cur]) /\ cur' = cur /\ left' = BurstBytes
    BY <1>1 DEF Serve, NextFifo
  <2>3. count'[cur] <= Half
    BY <2>2 DEF Low
  <2>. QED BY <2>1, <2>2, <2>3, SoundAssumption
<1>2. ASSUME NEW s \in Samples, Push(s)
      PROVE  count'[cur'] + left' <= FIFO_SIZE
  <2>1. /\ phase = "push" /\ left # 1 /\ left \in Nat
        /\ cur' = cur /\ target = cur /\ origin = "dma" /\ left' = left - 1 /\ cur \in Fifo
    <3>1. left = 1 => phase' # "push"
      BY <1>2 DEF Push, TransferDone, NextFifo
    <3>. QED BY <1>2, <3>1 DEF Push, TypeOK
  <2>2. count[cur] + left <= FIFO_SIZE /\ left > 0 /\ count[cur] \in Nat
    BY <2>1 DEF RefillFits, TypeOK
  <2>3. target # Elsewhere
    BY <2>1, SoundAssumption DEF Fifo, Elsewhere
  <2>4. PushByte(cur, s)
    BY <1>2, <2>1, <2>3 DEF Push
  <2>5. ~(count[cur] >= FIFO_SIZE)
    BY <2>1, <2>2, SizePositive
  <2>6. count'[cur] = count[cur] + 1
    BY <2>1, <2>4, <2>5 DEF PushByte, TypeOK
  <2>. QED BY <2>1, <2>2, <2>6, SizePositive
<1>3. CASE UNCHANGED vars
  BY <1>3 DEF vars, RefillFits
<1>. QED
  BY <1>1, <1>2, <1>3
     DEF Next, WriteSoundcntH, dma_write_control, Store, Overflow, NotDriven, NextFifo

(* A refill of a FIFO by its own channel never overflows it, for every     *)
(* geometry with room for a burst above the refill level, and whatever the *)
(* program writes between overflows.                                       *)
THEOREM SoundRefillFits == Spec => []RefillFits
<1>1. Init => RefillFits
  BY DEF Init, RefillFits
<1>. QED BY <1>1, SoundTypeCorrect, StepRefillFits, PTL DEF Spec

-----------------------------------------------------------------------------
(* Playback order.                                                         *)

(* What is played is what was popped last, so a pop that finds its FIFO    *)
(* empty changes nothing that can be heard.                                *)
LatchHeld == latch = last_sample

(* Every step keeps the latch on the last sample popped. *)
LEMMA StepLatchHeld == TypeOK /\ LatchHeld /\ [Next]_vars => LatchHeld'
<1>. SUFFICES ASSUME TypeOK, LatchHeld, [Next]_vars
              PROVE  LatchHeld'
  OBVIOUS
<1>1. CASE Serve
  <2>1. apu_fifo_pop(cur) /\ cur \in Fifo /\ latch = last_sample
    BY <1>1 DEF Serve, TypeOK, LatchHeld
  <2>2. CASE count[cur] = 0
    <3>1. latch' = [latch EXCEPT ![cur] = latch[cur]] /\ last_sample' = last_sample
      BY <2>1, <2>2 DEF apu_fifo_pop
    <3>2. latch' = latch
      BY <2>1, <3>1 DEF TypeOK
    <3>. QED BY <2>1, <3>1, <3>2 DEF LatchHeld
  <2>3. CASE count[cur] # 0
    BY <2>1, <2>3 DEF apu_fifo_pop, LatchHeld
  <2>. QED BY <2>2, <2>3
<1>2. CASE UNCHANGED <<latch, last_sample>>
  BY <1>2 DEF LatchHeld
<1>. QED
  BY <1>1, <1>2
     DEF Next, WriteSoundcntH, dma_write_control, Store, Overflow, NotDriven, Push,
         fifovars, vars

(* The slots a FIFO uses are in the ring and no two are the same. *)
LEMMA SlotRange ==
  ASSUME NEW k \in Idx, NEW n \in 0 .. FIFO_SIZE - 1
  PROVE  /\ Slot(k, n) \in Idx
         /\ \A m \in 0 .. FIFO_SIZE - 1 : m # n => Slot(k, m) # Slot(k, n)
  BY SizePositive DEF Slot, Idx

(* What a ring with contents b holds, c samples from index r on. *)
Held(b, r, c) == [n \in 1..c |-> b[Slot(r, n - 1)]]

(* What a ring holds, as a sequence.                                       *)
LEMMA HeldType ==
  ASSUME NEW b \in [Idx -> Samples], NEW r \in Idx, NEW c \in 0..FIFO_SIZE
  PROVE  /\ Held(b, r, c) \in Seq(Samples)
         /\ Len(Held(b, r, c)) = c
         /\ \A n \in 1..c : Held(b, r, c)[n] = b[Slot(r, n - 1)]
<1>1. c \in Nat /\ c <= FIFO_SIZE
  BY SizePositive
<1>2. ASSUME NEW n \in 1..c
      PROVE  b[Slot(r, n - 1)] \in Samples
  <2>1. n - 1 \in 0 .. FIFO_SIZE - 1
    BY <1>1, SizePositive
  <2>2. Slot(r, n - 1) \in Idx
    BY <2>1, SlotRange
  <2>. QED BY <2>2
<1>3. Held(b, r, c) \in [1..c -> Samples]
  BY <1>2 DEF Held
<1>4. Held(b, r, c) \in Seq(Samples) /\ Len(Held(b, r, c)) = c
  BY <1>1, <1>3
<1>. QED BY <1>4 DEF Held

(* A sample written behind the last one is appended. *)
LEMMA HeldAppend ==
  ASSUME NEW b \in [Idx -> Samples], NEW r \in Idx, NEW c \in 0..FIFO_SIZE,
         NEW s \in Samples, c < FIFO_SIZE
  PROVE  Held([b EXCEPT ![Slot(r, c)] = s], r, c + 1) = Append(Held(b, r, c), s)
<1>. DEFINE b2 == [b EXCEPT ![Slot(r, c)] = s]
            t  == Held(b2, r, c + 1)
            u  == Append(Held(b, r, c), s)
<1>1. c \in 0 .. FIFO_SIZE - 1 /\ c + 1 \in 0..FIFO_SIZE
  BY SizePositive
<1>2. b2 \in [Idx -> Samples] /\ Slot(r, c) \in Idx
  BY <1>1, SlotRange
<1>3. t \in Seq(Samples) /\ Len(t) = c + 1 /\ \A n \in 1..c + 1 : t[n] = b2[Slot(r, n - 1)]
  BY <1>1, <1>2, HeldType
<1>4. /\ u \in Seq(Samples) /\ Len(u) = c + 1
      /\ u[c + 1] = s /\ \A n \in 1..c : u[n] = b[Slot(r, n - 1)]
  BY <1>1, HeldType, AppendProperties
<1>5. ASSUME NEW n \in 1 .. c + 1
      PROVE  t[n] = u[n]
  <2>1. CASE n = c + 1
    <3>1. n - 1 = c
      BY <1>1, <2>1, SizePositive
    <3>2. t[n] = b2[Slot(r, c)]
      BY <1>3, <3>1
    <3>. QED BY <1>2, <1>4, <2>1, <3>2
  <2>2. CASE n # c + 1
    <3>1. n \in 1..c /\ n - 1 \in 0 .. FIFO_SIZE - 1 /\ n - 1 # c
      BY <1>1, <2>2, SizePositive
    <3>2. Slot(r, n - 1) # Slot(r, c) /\ Slot(r, n - 1) \in Idx
      BY <1>1, <3>1, SlotRange
    <3>3. b2[Slot(r, n - 1)] = b[Slot(r, n - 1)]
      BY <3>2
    <3>. QED BY <1>3, <1>4, <3>1, <3>3
  <2>. QED BY <2>1, <2>2
<1>. HIDE DEF t, u, b2
<1>6. t = u
  BY <1>3, <1>4, <1>5, SeqEqual
<1>. QED BY <1>6 DEF t, u, b2

(* The sample at the read index is the oldest; without it the rest stays.  *)
LEMMA HeldTail ==
  ASSUME NEW b \in [Idx -> Samples], NEW r \in Idx, NEW c \in 0..FIFO_SIZE, c # 0
  PROVE  /\ Held(b, r, c) # <<>>
         /\ Head(Held(b, r, c)) = b[r]
         /\ Held(b, Succ(r), c - 1) = Tail(Held(b, r, c))
<1>. DEFINE h == Held(b, r, c)
            t == Held(b, Succ(r), c - 1)
            u == Tail(h)
<1>1. c \in Nat \ {0} /\ c - 1 \in 0..FIFO_SIZE /\ Succ(r) \in Idx /\ c <= FIFO_SIZE
  BY SizePositive, SuccType
<1>2. h \in Seq(Samples) /\ Len(h) = c /\ \A n \in 1..c : h[n] = b[Slot(r, n - 1)]
  BY HeldType
<1>3. /\ t \in Seq(Samples) /\ Len(t) = c - 1
      /\ \A n \in 1..c - 1 : t[n] = b[Slot(Succ(r), n - 1)]
  BY <1>1, HeldType
<1>. HIDE DEF h, t
<1>4. h # <<>>
  BY <1>1, <1>2, EmptySeq
<1>5. Head(h) = b[r]
  <2>1. Head(h) = h[1]
    BY <1>2, <1>4
  <2>2. 1 \in 1..c /\ Slot(r, 1 - 1) = r
    BY <1>1, SlotFacts
  <2>. QED BY <1>2, <2>1, <2>2
<1>6. u \in Seq(Samples) /\ Len(u) = c - 1 /\ \A n \in 1..c - 1 : u[n] = h[n + 1]
  BY <1>2, <1>4, HeadTailProperties
<1>7. ASSUME NEW n \in 1..c - 1
      PROVE  t[n] = u[n]
  <2>1. n + 1 \in 1..c /\ n \in 0..FIFO_SIZE /\ n > 0 /\ n + 1 - 1 = n
    BY <1>1, SizePositive
  <2>2. Slot(Succ(r), n - 1) = Slot(r, n)
    BY <2>1, SlotFacts
  <2>3. h[n + 1] = b[Slot(r, n)]
    BY <1>2, <2>1
  <2>. QED BY <1>3, <1>6, <2>2, <2>3
<1>. HIDE DEF u
<1>8. t = u
  BY <1>3, <1>6, <1>7, SeqEqual
<1>. QED BY <1>4, <1>5, <1>8 DEF h, t, u

(* What waits in a FIFO is what its ring holds from the read index on.     *)
LEMMA WaitingHeld ==
  /\ Waiting  = [f \in Fifo |-> Held(buffer[f], read_idx[f], count[f])]
  /\ Waiting' = [f \in Fifo |-> Held(buffer'[f], read_idx'[f], count'[f])]
  BY DEF Waiting, Held, Slot

(* Indices and counts of a ring.                                           *)
LEMMA RingTypes ==
  ASSUME TypeOK, NEW f \in Fifo
  PROVE  /\ buffer[f] \in [Idx -> Samples] /\ read_idx[f] \in Idx
         /\ write_idx[f] \in Idx /\ count[f] \in 0..FIFO_SIZE
  BY DEF TypeOK

(* A byte pushed into a FIFO. *)
LEMMA PushIsPush ==
  ASSUME TypeOK, RingConsistent, NEW f \in Fifo, NEW s \in Samples,
         PushByte(f, s), UNCHANGED latch
  PROVE  Q!Push(f, s)
<1>. DEFINE W == [g \in Fifo |-> Held(buffer[g], read_idx[g], count[g])]
            V == IF Len(W[f]) = FIFO_SIZE THEN <<s>> ELSE Append(W[f], s)
<1>1. /\ buffer[f] \in [Idx -> Samples] /\ read_idx[f] \in Idx
      /\ write_idx[f] \in Idx /\ count[f] \in 0..FIFO_SIZE
      /\ write_idx[f] = Slot(read_idx[f], count[f])
  BY RingTypes DEF RingConsistent
<1>2. W[f] = Held(buffer[f], read_idx[f], count[f]) /\ Len(W[f]) = count[f]
  BY <1>1, HeldType
<1>3. Held(buffer'[f], read_idx'[f], count'[f]) = V
  <2>1. CASE count[f] >= FIFO_SIZE
    <3>1. count[f] = FIFO_SIZE /\ V = <<s>>
      BY <1>1, <1>2, <2>1, SizePositive
    <3>2. /\ buffer'[f] = [buffer[f] EXCEPT ![0] = s] /\ read_idx'[f] = 0 /\ count'[f] = 1
      BY <2>1 DEF PushByte, TypeOK
    <3>3. 0 \in Idx /\ Slot(0, 0) = 0 /\ 0 \in 0..FIFO_SIZE /\ 0 < FIFO_SIZE
      BY SizePositive DEF Idx, Slot
    <3>4. Held([buffer[f] EXCEPT ![0] = s], 0, 0 + 1) = Append(Held(buffer[f], 0, 0), s)
      BY <1>1, <3>3, HeldAppend
    <3>5. Held(buffer[f], 0, 0) = <<>>
      BY DEF Held
    <3>. QED BY <3>1, <3>2, <3>4, <3>5
  <2>2. CASE ~(count[f] >= FIFO_SIZE)
    <3>1. count[f] < FIFO_SIZE /\ V = Append(W[f], s)
      BY <1>1, <1>2, <2>2, SizePositive
    <3>2. /\ buffer'[f] = [buffer[f] EXCEPT ![write_idx[f]] = s]
          /\ read_idx'[f] = read_idx[f] /\ count'[f] = count[f] + 1
      BY <2>2 DEF PushByte, TypeOK
    <3>3. Held([buffer[f] EXCEPT ![Slot(read_idx[f], count[f])] = s], read_idx[f], count[f] + 1)
            = Append(Held(buffer[f], read_idx[f], count[f]), s)
      BY <1>1, <3>1, HeldAppend
    <3>. QED BY <1>1, <1>2, <3>1, <3>2, <3>3
  <2>. QED BY <2>1, <2>2
<1>4. \A g \in Fifo : g # f => /\ buffer'[g] = buffer[g] /\ read_idx'[g] = read_idx[g]
                               /\ count'[g] = count[g]
  BY DEF PushByte, TypeOK
<1>5. [g \in Fifo |-> Held(buffer'[g], read_idx'[g], count'[g])] = [W EXCEPT ![f] = V]
  <2>. HIDE DEF V
  <2>. QED BY <1>3, <1>4
<1>. HIDE DEF W
<1>6. Waiting' = [W EXCEPT ![f] = V] /\ Waiting = W
  BY <1>5, WaitingHeld DEF W
<1>. QED BY <1>6 DEF Q!Push

(* A pop from a FIFO that holds something. *)
LEMMA PopIsPop ==
  ASSUME TypeOK, NEW f \in Fifo, apu_fifo_pop(f), UNCHANGED buffer, count[f] # 0
  PROVE  Q!Pop(f)
<1>. DEFINE W == [g \in Fifo |-> Held(buffer[g], read_idx[g], count[g])]
<1>1. /\ buffer[f] \in [Idx -> Samples] /\ read_idx[f] \in Idx /\ count[f] \in 0..FIFO_SIZE
  BY RingTypes
<1>2. /\ latch' = [latch EXCEPT ![f] = buffer[f][read_idx[f]]]
      /\ read_idx' = [read_idx EXCEPT ![f] = Succ(read_idx[f])]
      /\ count' = [count EXCEPT ![f] = count[f] - 1]
  BY DEF apu_fifo_pop
<1>3. /\ W[f] # <<>> /\ Head(W[f]) = buffer[f][read_idx[f]]
      /\ Held(buffer[f], Succ(read_idx[f]), count[f] - 1) = Tail(W[f])
  BY <1>1, HeldTail
<1>4. /\ read_idx'[f] = Succ(read_idx[f]) /\ count'[f] = count[f] - 1
      /\ \A g \in Fifo : g # f => read_idx'[g] = read_idx[g] /\ count'[g] = count[g]
  BY <1>2 DEF TypeOK
<1>5. [g \in Fifo |-> Held(buffer'[g], read_idx'[g], count'[g])] = [W EXCEPT ![f] = Tail(W[f])]
  BY <1>3, <1>4
<1>. HIDE DEF W
<1>6. Waiting' = [W EXCEPT ![f] = Tail(W[f])] /\ Waiting = W
  BY <1>5, WaitingHeld DEF W
<1>. QED BY <1>2, <1>3, <1>6 DEF Q!Pop

(* A reset of some FIFOs by the program. *)
LEMMA ResetIsReset ==
  ASSUME TypeOK, NEW ids, NEW reset \in SUBSET Fifo, WriteSoundcntH(ids, reset)
  PROVE  Q!Reset(reset)
<1>1. \A g \in Fifo : Held(buffer'[g], read_idx'[g], count'[g])
        = IF g \in reset THEN <<>> ELSE Held(buffer[g], read_idx[g], count[g])
  <2>. TAKE g \in Fifo
  <2>1. CASE g \in reset
    <3>1. count'[g] = 0
      BY <2>1 DEF WriteSoundcntH
    <3>. QED BY <2>1, <3>1 DEF Held
  <2>2. CASE g \notin reset
    <3>1. count'[g] = count[g] /\ read_idx'[g] = read_idx[g] /\ buffer'[g] = buffer[g]
      BY <2>2 DEF WriteSoundcntH
    <3>. QED BY <2>2, <3>1
  <2>. QED BY <2>1, <2>2
<1>2. Waiting' = [g \in Fifo |-> IF g \in reset THEN <<>> ELSE Waiting[g]]
  BY <1>1, WaitingHeld
<1>. QED BY <1>2 DEF Q!Reset, WriteSoundcntH

(* Any step is one of the queue, or none.                                  *)
LEMMA StepImplementsQueue ==
  TypeOK /\ RingConsistent /\ LatchHeld /\ [Next]_vars => [Q!Next]_<<Waiting, latch>>
<1>. SUFFICES ASSUME TypeOK, RingConsistent, LatchHeld, [Next]_vars
              PROVE  Q!Next \/ UNCHANGED <<Waiting, latch>>
  OBVIOUS
<1>. USE DEF Q!Next
<1>1. ASSUME NEW ids \in [Fifo -> {0, 1}], NEW reset \in SUBSET Fifo, WriteSoundcntH(ids, reset)
      PROVE  Q!Next
  BY <1>1, ResetIsReset
<1>2. CASE Serve
  <2>1. apu_fifo_pop(cur) /\ cur \in Fifo /\ UNCHANGED buffer
    BY <1>2 DEF Serve, TypeOK
  <2>2. CASE count[cur] = 0
    <3>1. latch' = [latch EXCEPT ![cur] = latch[cur]] /\ UNCHANGED <<read_idx, count>>
      BY <2>1, <2>2 DEF apu_fifo_pop, LatchHeld
    <3>2. latch' = latch
      BY <2>1, <3>1 DEF TypeOK
    <3>. QED BY <2>1, <3>1, <3>2, WaitingHeld
  <2>3. CASE count[cur] # 0
    BY <2>1, <2>3, PopIsPop
  <2>. QED BY <2>2, <2>3
<1>3. ASSUME NEW s \in Samples, Push(s)
      PROVE  Q!Next \/ UNCHANGED <<Waiting, latch>>
  <2>1. CASE target = Elsewhere
    BY <1>3, <2>1, WaitingHeld DEF Push
  <2>2. CASE target # Elsewhere
    <3>1. target \in Fifo /\ PushByte(target, s) /\ UNCHANGED latch
      BY <1>3, <2>2 DEF Push, TypeOK
    <3>. QED BY <3>1, PushIsPush
  <2>. QED BY <2>1, <2>2
<1>4. CASE UNCHANGED <<buffer, read_idx, count, latch>>
  BY <1>4, WaitingHeld
<1>. QED
  BY <1>1, <1>2, <1>3, <1>4
     DEF Next, dma_write_control, Store, Overflow, NotDriven, fifovars, vars

(* Each FIFO, a ring buffer that transfers, stores, pops and resets share, *)
(* is a queue: whatever the sizes, every sample written is played once and *)
(* in the order of the writes, unless a reset discards it.                 *)
THEOREM SoundImplementsQueue == Spec => ImplementsQueue
<1>1. Init => LatchHeld
  BY DEF Init, LatchHeld
<1>2. Init => Q!Init
  <2>. SUFFICES ASSUME Init
                PROVE  Q!Init
    OBVIOUS
  <2>1. \A f \in Fifo : Held(buffer[f], read_idx[f], count[f]) = <<>>
    BY DEF Init, Held
  <2>2. Waiting = [f \in Fifo |-> <<>>]
    BY <2>1, WaitingHeld
  <2>3. latch \in [Fifo -> Samples]
    BY InitTypeOK DEF TypeOK
  <2>. QED BY <2>2, <2>3 DEF Q!Init
<1>. QED
  BY <1>1, <1>2, SoundTypeCorrect, SoundRingConsistent, StepLatchHeld,
     StepImplementsQueue, PTL
     DEF Spec, ImplementsQueue, Q!Spec

-----------------------------------------------------------------------------
(* Dropouts.                                                               *)

LEMMA HNextIsNext == [HNext]_hvars => [Next]_vars
  BY DEF HNext, Next, hvars, vars

(* The history keeps the types.                                            *)
LEMMA HistoryTypes == HSpec => []TypeOK
<1>1. HInit => Init
  BY DEF HInit
<1>. QED BY <1>1, InitTypeOK, StepTypeOK, HNextIsNext, PTL DEF HSpec

(* The inductive form of NeverStarves: a FIFO kept alive may be empty only *)
(* between the pop that took its last sample and the first byte of the     *)
(* refill that answers it.                                                 *)
Refilling(f) == phase = "push" /\ origin = "dma" /\ target = f /\ cur = f
KeptAlive == primed \subseteq Fifo /\ \A f \in primed : count[f] > 0 \/ Refilling(f)

(* Any step keeps a served FIFO filled.                                    *)
LEMMA StepKeptAlive == TypeOK /\ KeptAlive /\ [HNext]_hvars => KeptAlive'
<1>. SUFFICES ASSUME TypeOK, KeptAlive, [HNext]_hvars
              PROVE  KeptAlive'
  OBVIOUS
<1>0. \A f \in primed : f \in Fifo /\ (phase # "push" => count[f] > 0)
  BY DEF KeptAlive, Refilling
<1>1. ASSUME NEW ids \in [Fifo -> {0, 1}], NEW reset \in SUBSET Fifo,
             WriteSoundcntH(ids, reset), primed' = primed \ reset
      PROVE  KeptAlive'
  <2>1. phase # "push" /\ \A f \in primed' : count'[f] = count[f]
    BY <1>0, <1>1 DEF WriteSoundcntH
  <2>. QED BY <1>0, <1>1, <2>1 DEF KeptAlive
<1>2. CASE /\ phase # "push" /\ UNCHANGED <<count, primed>>
  BY <1>0, <1>2 DEF KeptAlive
<1>3. CASE Serve /\ primed' = IF Answers(cur) THEN primed ELSE primed \ {cur}
  <2>1. cur \in Fifo /\ phase # "push" /\ apu_fifo_pop(cur)
    BY <1>3 DEF Serve, TypeOK
  <2>2. primed' \subseteq primed
    BY <1>3
  <2>3. ASSUME NEW f \in primed'
        PROVE  count'[f] > 0 \/ Refilling(f)'
    <3>1. f \in Fifo /\ count[f] > 0
      BY <1>0, <2>1, <2>2
    <3>2. CASE f # cur
      <4>1. count'[f] = count[f]
        BY <2>1, <3>1, <3>2 DEF apu_fifo_pop, TypeOK
      <4>. QED BY <3>1, <4>1
    <3>3. CASE f = cur
      <4>1. Answers(cur)
        BY <1>3, <3>3
      <4>2. CASE Low(count'[cur])
        <5>1. phase' = "push" /\ origin' = "dma" /\ target' = cur /\ cur' = cur
          BY <1>3, <4>1, <4>2 DEF Serve, Answers
        <5>. QED BY <3>3, <5>1 DEF Refilling
      <4>3. CASE ~Low(count'[cur])
        <5>1. count'[cur] \in 0..FIFO_SIZE
          BY <2>1, PopType
        <5>2. ~(count'[cur] <= Half)
          BY <4>3 DEF Low
        <5>. QED BY <3>3, <5>1, <5>2, SoundAssumption
      <4>. QED BY <4>2, <4>3
    <3>. QED BY <3>2, <3>3
  <2>4. primed' \subseteq Fifo
    BY <1>0, <2>2
  <2>. QED BY <2>3, <2>4 DEF KeptAlive
<1>4. ASSUME NEW s \in Samples, Push(s),
             primed' = IF origin = "dma" /\ target = cur THEN primed \cup {cur} ELSE primed
      PROVE  KeptAlive'
  <2>1. cur \in Fifo /\ phase = "push" /\ primed' \subseteq Fifo
    BY <1>0, <1>4 DEF Push, TypeOK
  <2>2. ASSUME NEW f \in Fifo, f = target
        PROVE  count'[f] > 0
    <3>1. target # Elsewhere
      BY <2>2, SoundAssumption DEF Fifo, Elsewhere
    <3>2. PushByte(f, s) /\ count[f] \in 0..FIFO_SIZE
      BY <1>4, <2>2, <3>1 DEF Push, TypeOK
    <3>3. count'[f] = IF count[f] >= FIFO_SIZE THEN 1 ELSE count[f] + 1
      BY <3>2 DEF PushByte, TypeOK
    <3>. QED BY <3>2, <3>3, SizePositive
  <2>3. ASSUME NEW f \in Fifo, f # target
        PROVE  count'[f] = count[f]
    <3>1. CASE target = Elsewhere
      BY <1>4, <3>1 DEF Push
    <3>2. CASE target # Elsewhere
      BY <1>4, <2>3, <3>2 DEF Push, PushByte, TypeOK
    <3>. QED BY <3>1, <3>2
  <2>4. ASSUME NEW f \in primed', f # target
        PROVE  count[f] > 0 /\ f \in Fifo
    <3>1. f \in primed
      BY <1>4, <2>4
    <3>. QED BY <2>4, <3>1 DEF KeptAlive, Refilling
  <2>. QED BY <2>1, <2>2, <2>3, <2>4 DEF KeptAlive
<1>5. CASE UNCHANGED hvars
  BY <1>5 DEF hvars, KeptAlive, Refilling
<1>. QED
  BY <1>1, <1>2, <1>3, <1>4, <1>5
     DEF HNext, dma_write_control, Store, Overflow, NotDriven, fifovars

(* No dropouts, for every geometry: once its DMA channel has refilled a    *)
(* FIFO, no overflow finds it empty while the channel answers each - not   *)
(* even when the program's own stores overflow the FIFO and reset it.      *)
THEOREM SoundNeverStarves == HSpec => []NeverStarves
<1>1. HInit => KeptAlive
  BY DEF HInit, KeptAlive
<1>2. KeptAlive => NeverStarves
  BY DEF KeptAlive, NeverStarves, Refilling
<1>. QED BY <1>1, <1>2, HistoryTypes, StepKeptAlive, PTL DEF HSpec

-----------------------------------------------------------------------------
(* The mixer.                                                              *)

LEMMA MixerShifts ==
  ASSUME NEW a \in Int
  PROVE  Loud!Shift(a, 0) \in Int /\ Loud!Shift(a, 1) \in Int /\ Loud!Shift(a, 2) \in Int
<1>1. 2^0 = 1 /\ 2^1 = 2 /\ 2^2 = 4
  OBVIOUS
<1>2. a \div 1 \in Int /\ a \div 2 \in Int /\ a \div 4 \in Int
  OBVIOUS
<1>. QED BY <1>1, <1>2 DEF Loud!Shift

(* The fields of a setting of the mixer.                                   *)
LEMMA SettingFields ==
  ASSUME NEW x \in Loud!Setting, NEW s \in Loud!Side
  PROVE  /\ \A t \in 1..4 : x.level[t] \in 0..15
         /\ x.wave_code \in 0..3 /\ x.volume[s] \in 0..7 /\ x.ratio \in 0..3
         /\ x.sample["A"] \in -128..127 /\ x.sample["B"] \in -128..127
         /\ x.bias \in 0..511
  BY DEF Loud!Setting, Loud!Side, Loud!Tone, Loud!Fifo

(* What a channel puts out.                                                *)
LEMMA ChOutType ==
  ASSUME NEW x \in Loud!Setting, NEW s \in Loud!Side, NEW t \in 1..4
  PROVE  Loud!ChOut(x, t) \in Int
<1>1. x.level[t] \in Int /\ x.level[3] \in Int /\ x.wave_code \in 0..3
  BY SettingFields
<1>. DEFINE w == IF x.wave_code = 0 THEN 0 ELSE Loud!Shift(x.level[3], x.wave_code - 1)
<1>2. w \in Int
  <2>1. x.wave_code - 1 \in {0, 1, 2} \/ x.wave_code = 0
    BY <1>1
  <2>. QED BY <1>1, <2>1, MixerShifts
<1>3. Loud!Shift(3 * w, 2) \in Int
  BY <1>2, MixerShifts
<1>4. Loud!WaveLevel(x) \in Int
  BY <1>2, <1>3 DEF Loud!WaveLevel
<1>. QED BY <1>1, <1>4 DEF Loud!ChOut

(* The sum of the channels is a number.                                    *)
LEMMA MixedType ==
  ASSUME NEW x \in Loud!Setting, NEW s \in Loud!Side
  PROVE  Loud!Mixed(x, s) \in Int
<1>. DEFINE share(t) == IF t \in x.on[s] THEN Loud!ChOut(x, t) ELSE 0
            sum == share(1) + share(2) + share(3) + share(4)
            p   == sum * (x.volume[s] + 1)
            vol == Loud!Quotient(p, 8)
<1>1. share(1) \in Int /\ share(2) \in Int /\ share(3) \in Int /\ share(4) \in Int
  BY ChOutType
<1>2. sum \in Int
  BY <1>1
<1>. HIDE DEF sum
<1>3. p \in Int
  BY <1>2, SettingFields
<1>. HIDE DEF p
<1>4. vol \in Int
  BY <1>3 DEF Loud!Quotient
<1>5. x.ratio \in 0..3
  BY SettingFields
<1>6. Loud!Legacy(x, s) \in Int
  <2>1. Loud!Legacy(x, s) = IF x.ratio = 0 THEN Loud!Shift(vol, 2)
                            ELSE IF x.ratio = 1 THEN Loud!Shift(vol, 1) ELSE vol
    BY DEF Loud!Legacy, sum, p
  <2>. HIDE DEF vol
  <2>. QED BY <1>4, <1>5, <2>1, MixerShifts
<1>7. Loud!Direct(x, s) \in Int
  <2>. DEFINE d(f) == IF f \in x.route[s] THEN x.sample[f] * (IF f \in x.full THEN 4 ELSE 2)
                      ELSE 0
  <2>1. ASSUME NEW f \in {"A", "B"}
        PROVE  d(f) \in Int
    <3>1. x.sample["A"] \in Int /\ x.sample["B"] \in Int
      <4>1. x.sample["A"] \in -128..127 /\ x.sample["B"] \in -128..127
        BY SettingFields
      <4>. QED BY <4>1
    <3>2. x.sample[f] \in Int
      BY <3>1
    <3>3. x.sample[f] * 4 \in Int /\ x.sample[f] * 2 \in Int
      BY <3>2
    <3>. QED BY <3>3
  <2>2. d("A") \in Int /\ d("B") \in Int
    BY <2>1
  <2>3. Loud!Direct(x, s) = d("A") + d("B")
    BY DEF Loud!Direct
  <2>. HIDE DEF d
  <2>. QED BY <2>2, <2>3
<1>. QED BY <1>6, <1>7 DEF Loud!Mixed

(* Clamping ends in the range of the DAC.                                  *)
LEMMA ClampRange ==
  ASSUME NEW a \in Int, NEW lo \in Int, NEW hi \in Int, lo <= hi
  PROVE  /\ Loud!Clamp(a, lo, hi) \in Int
         /\ lo <= Loud!Clamp(a, lo, hi) /\ Loud!Clamp(a, lo, hi) <= hi
         /\ lo <= a /\ a <= hi => Loud!Clamp(a, lo, hi) = a
  BY DEF Loud!Clamp

(* Scaling to 16 bits keeps it there.                                      *)
LEMMA ScaledRange ==
  ASSUME NEW d \in Int, NEW b \in Int, 0 <= d, d <= 1023, 0 <= b, b <= 511
  PROVE  (d - b) * 32 \in Int /\ -16352 <= (d - b) * 32 /\ (d - b) * 32 <= 32736
  OBVIOUS

(* So does the low-pass filter.                                            *)
LEMMA FilterRange ==
  ASSUME NEW p \in Int, NEW a \in Int,
         -16352 <= p, p <= 32736, -16352 <= a, a <= 32736
  PROVE  /\ Loud!Filter(p, a) \in Int
         /\ -16352 <= Loud!Filter(p, a) /\ Loud!Filter(p, a) <= 32736
<1>. DEFINE n == p + 3 * a
<1>1. n \in Int /\ -65408 <= n /\ n <= 130944
  OBVIOUS
<1>2. Loud!Filter(p, a) = IF n >= 0 THEN n \div 4 ELSE -((-n) \div 4)
  BY DEF Loud!Filter, Loud!Quotient
<1>. HIDE DEF n
<1>3. CASE n >= 0
  <2>1. n \div 4 \in Int /\ 0 <= n \div 4 /\ n \div 4 <= 32736
    BY <1>1, <1>3
  <2>. QED BY <1>2, <1>3, <2>1
<1>4. CASE ~(n >= 0)
  <2>1. -n \in Int /\ 0 <= -n /\ -n <= 65408
    BY <1>1, <1>4
  <2>2. \A m \in Int : 0 <= m /\ m <= 65408 => m \div 4 \in Int /\ 0 <= m \div 4 /\ m \div 4 <= 16352
    OBVIOUS
  <2>3. (-n) \div 4 \in Int /\ 0 <= (-n) \div 4 /\ (-n) \div 4 <= 16352
    BY <2>1, <2>2
  <2>. QED BY <1>2, <1>4, <2>3
<1>. QED BY <1>3, <1>4

(* The same, in short. *)
Within(a) == a \in Int /\ -16352 <= a /\ a <= 32736

(* The filter mixes two samples of the scaled range into another.          *)
LEMMA FilterWithin ==
  ASSUME NEW p, NEW a, Within(p), Within(a)
  PROVE  Within(Loud!Filter(p, a))
<1>1. p \in Int /\ a \in Int /\ -16352 <= p /\ p <= 32736 /\ -16352 <= a /\ a <= 32736
  BY DEF Within
<1>. QED BY <1>1, FilterRange DEF Within

(* For every setting the registers allow, and not only the extreme ones,   *)
(* apu_mix_sample leaves the filtered sample within the scaled range of    *)
(* the DAC, so that neither the last clamp nor the casts cut anything off. *)
THEOREM MixedSampleFits ==
  ASSUME NEW x \in Loud!Setting, Loud!Fits, Loud!Mix(x)
  PROVE  /\ Loud!Fits'
         /\ \A s \in Loud!Side : Loud!Sample16(x, s) = Loud!Scaled(x, s)
<1>1. ASSUME NEW s \in Loud!Side
      PROVE  /\ Loud!Scaled(x, s) \in Int
             /\ -16352 <= Loud!Scaled(x, s) /\ Loud!Scaled(x, s) <= 32736
             /\ Loud!Sample16(x, s) = Loud!Scaled(x, s)
  <2>. DEFINE b == x.bias
              d == Loud!Dac(x, s)
  <2>1. Loud!Mixed(x, s) \in Int /\ b \in Int /\ 0 <= b /\ b <= 511
    <3>1. Loud!Mixed(x, s) \in Int
      BY MixedType
    <3>2. x.bias \in 0..511
      BY SettingFields
    <3>. QED BY <3>1, <3>2
  <2>2. Loud!Mixed(x, s) + b \in Int
    BY <2>1
  <2>3. d \in Int /\ 0 <= d /\ d <= 1023
    BY <2>2, ClampRange DEF Loud!Dac
  <2>4. Loud!Scaled(x, s) = (d - b) * 32
    BY DEF Loud!Scaled
  <2>. HIDE DEF b, d
  <2>5. /\ Loud!Scaled(x, s) \in Int /\ -16352 <= Loud!Scaled(x, s)
        /\ Loud!Scaled(x, s) <= 32736
    BY <2>1, <2>3, <2>4, ScaledRange
  <2>6. Loud!Sample16(x, s) = Loud!Scaled(x, s)
    BY <2>5, ClampRange DEF Loud!Sample16
  <2>. QED BY <2>5, <2>6
<1>3. ASSUME NEW s \in Loud!Side
      PROVE  prev'[s] \in Int /\ -16352 <= prev'[s] /\ prev'[s] <= 32736
  <2>1. prev'[s] = Loud!Filter(prev[s], Loud!Sample16(x, s))
    BY DEF Loud!Mix
  <2>2. Within(prev[s]) /\ Within(Loud!Sample16(x, s))
    BY <1>1 DEF Loud!Fits, Within
  <2>3. Within(prev'[s])
    BY <2>1, <2>2, FilterWithin
  <2>. QED BY <2>3 DEF Within
<1>. QED BY <1>1, <1>3 DEF Loud!Fits

-----------------------------------------------------------------------------
(* The ring behind the mixer.                                              *)

OutTypes ==
  /\ write_pos \in Out!Slot /\ read_pos \in Out!Slot
  /\ sample_buffer \in [Out!Slot -> Out!Number]
  /\ mixed \in 0..FrameSamples /\ number \in Out!Number /\ sentFrom \in Out!Number
  /\ sent \in Seq(Out!Number) /\ Len(sent) < SAMPLE_BUFFER_SIZE

(* With a device the ring holds exactly this frame's samples, so that it   *)
(* is never full, and they continue what was handed over last.             *)
RingHolds ==
  device =>
    /\ Out!Waiting = mixed
    /\ \A i \in 0 .. mixed - 1 :
         sample_buffer[Out!Wrap(read_pos + i, SAMPLE_BUFFER_SIZE)]
           = Out!Plus(sentFrom, Len(sent) + i)

OutInv == OutTypes /\ RingHolds /\ Out!InOrder

(* The ring has slots.                                                     *)
LEMMA RingSize == SAMPLE_BUFFER_SIZE \in Nat \ {0} /\ 2 * SAMPLE_BUFFER_SIZE \in Nat
  BY OutAssumption

(* The next slot is a slot.                                                *)
LEMMA WrapSlot ==
  ASSUME NEW a \in Out!Slot, NEW k \in Out!Slot
  PROVE  /\ Out!Wrap(a + k, SAMPLE_BUFFER_SIZE) \in Out!Slot
         /\ Out!Wrap(a + SAMPLE_BUFFER_SIZE - k, SAMPLE_BUFFER_SIZE) \in Out!Slot
         /\ Out!Wrap(a + 1, SAMPLE_BUFFER_SIZE) \in Out!Slot
  BY RingSize DEF Out!Slot, Out!Wrap

(* Numbers of samples go round.                                            *)
LEMMA PlusNumber ==
  ASSUME NEW n \in Out!Number, NEW k \in 0 .. 2 * SAMPLE_BUFFER_SIZE - 1
  PROVE  Out!Plus(n, k) \in Out!Number
  BY RingSize DEF Out!Number, Out!Plus, Out!Wrap

(* Counting on twice is counting on by the sum.                            *)
LEMMA PlusPlus ==
  ASSUME NEW n \in Out!Number, NEW j \in 0 .. SAMPLE_BUFFER_SIZE - 1,
         NEW k \in 0 .. SAMPLE_BUFFER_SIZE
  PROVE  Out!Plus(Out!Plus(n, j), k) = Out!Plus(n, j + k)
  BY RingSize DEF Out!Number, Out!Plus, Out!Wrap

(* Counting on by one.                                                     *)
LEMMA PlusOne ==
  ASSUME NEW n \in Out!Number, NEW k \in 0 .. 2 * SAMPLE_BUFFER_SIZE - 1
  PROVE  Out!Plus(Out!Plus(n, k), 1) = Out!Plus(n, k + 1)
  BY RingSize DEF Out!Number, Out!Plus, Out!Wrap

(* One more sample waits after a write to a ring that is not full. *)
LEMMA WaitingGrows ==
  ASSUME NEW w \in Out!Slot, NEW r \in Out!Slot,
         Out!Wrap(w + SAMPLE_BUFFER_SIZE - r, SAMPLE_BUFFER_SIZE) < SAMPLE_BUFFER_SIZE - 1
  PROVE  /\ Out!Wrap(w + 1, SAMPLE_BUFFER_SIZE) # r
         /\ Out!Wrap(Out!Wrap(w + 1, SAMPLE_BUFFER_SIZE) + SAMPLE_BUFFER_SIZE - r,
                     SAMPLE_BUFFER_SIZE)
              = Out!Wrap(w + SAMPLE_BUFFER_SIZE - r, SAMPLE_BUFFER_SIZE) + 1
         /\ w = Out!Wrap(r + Out!Wrap(w + SAMPLE_BUFFER_SIZE - r, SAMPLE_BUFFER_SIZE),
                         SAMPLE_BUFFER_SIZE)
  BY RingSize DEF Out!Slot, Out!Wrap

(* The slots that hold samples are not written again. *)
LEMMA OtherSlots ==
  ASSUME NEW r \in Out!Slot, NEW i \in Out!Slot, NEW j \in Out!Slot, i # j
  PROVE  Out!Wrap(r + i, SAMPLE_BUFFER_SIZE) # Out!Wrap(r + j, SAMPLE_BUFFER_SIZE)
  BY RingSize DEF Out!Slot, Out!Wrap

(* A piece of the ring is a sequence of samples.                           *)
LEMMA PieceType ==
  ASSUME OutTypes, NEW a \in 0..SAMPLE_BUFFER_SIZE, NEW b \in 0..SAMPLE_BUFFER_SIZE, a <= b
  PROVE  /\ Out!Piece(a, b) \in Seq(Out!Number)
         /\ Len(Out!Piece(a, b)) = b - a
         /\ \A i \in 1 .. b - a : Out!Piece(a, b)[i] = sample_buffer[a + i - 1]
<1>1. b - a \in Nat
  BY RingSize
<1>2. \A i \in 1 .. b - a : a + i - 1 \in Out!Slot
  BY RingSize DEF Out!Slot
<1>3. Out!Piece(a, b) \in [1 .. b - a -> Out!Number]
  BY <1>2 DEF Out!Piece, OutTypes
<1>. DEFINE n == b - a
            q == Out!Piece(a, b)
<1>4. q \in [1..n -> Out!Number] /\ n \in Nat
  BY <1>1, <1>3
<1>. HIDE DEF n, q
<1>5. q \in Seq(Out!Number) /\ Len(q) = n
  BY <1>4
<1>. QED BY <1>5 DEF n, q, Out!Piece

(* What is handed over is what waits, oldest first, wrapped or not. *)
LEMMA AvailableIsWaiting ==
  ASSUME OutTypes, write_pos # read_pos
  PROVE  /\ Out!Available \in Seq(Out!Number)
         /\ Len(Out!Available) = Out!Waiting
         /\ \A i \in 1..Out!Waiting :
              Out!Available[i] = sample_buffer[Out!Wrap(read_pos + (i - 1), SAMPLE_BUFFER_SIZE)]
<1>. DEFINE N == SAMPLE_BUFFER_SIZE
            W == write_pos
            R == read_pos
<1>1. /\ N \in Nat \ {0} /\ W \in 0 .. N - 1 /\ R \in 0 .. N - 1 /\ W # R
      /\ W \in 0..N /\ R \in 0..N /\ 0 \in 0..N /\ N \in 0..N /\ R <= N /\ 0 <= W
  BY RingSize DEF OutTypes, Out!Slot
<1>2. CASE W > R
  <2>1. Out!Available = Out!Piece(R, W) /\ R <= W
    BY <1>1, <1>2 DEF Out!Available
  <2>2. Out!Waiting = W - R
    BY <1>1, <1>2 DEF Out!Waiting, Out!Wrap
  <2>3. /\ Out!Piece(R, W) \in Seq(Out!Number) /\ Len(Out!Piece(R, W)) = W - R
        /\ \A i \in 1 .. W - R : Out!Piece(R, W)[i] = sample_buffer[R + i - 1]
    BY <1>1, <2>1, PieceType
  <2>4. \A i \in 1 .. W - R : Out!Wrap(R + (i - 1), N) = R + i - 1
    BY <1>1, <1>2 DEF Out!Wrap
  <2>. QED BY <2>1, <2>2, <2>3, <2>4
<1>3. CASE ~(W > R)
  <2>. DEFINE p1 == Out!Piece(R, N)
              p2 == Out!Piece(0, W)
  <2>1. Out!Available = p1 \o p2
    BY <1>3 DEF Out!Available
  <2>2. Out!Waiting = W + N - R /\ W < R
    BY <1>1, <1>3 DEF Out!Waiting, Out!Wrap
  <2>3. /\ p1 \in Seq(Out!Number) /\ Len(p1) = N - R
        /\ \A i \in 1 .. N - R : p1[i] = sample_buffer[R + i - 1]
    BY <1>1, PieceType
  <2>4. /\ p2 \in Seq(Out!Number) /\ Len(p2) = W - 0
        /\ \A i \in 1 .. W - 0 : p2[i] = sample_buffer[0 + i - 1]
    BY <1>1, PieceType
  <2>. HIDE DEF p1, p2
  <2>5. /\ p1 \o p2 \in Seq(Out!Number) /\ Len(p1 \o p2) = Len(p1) + Len(p2)
        /\ \A i \in 1 .. Len(p1) + Len(p2) :
             (p1 \o p2)[i] = IF i <= Len(p1) THEN p1[i] ELSE p2[i - Len(p1)]
    BY <2>3, <2>4, ConcatProperties
  <2>6. Len(p1) + Len(p2) = W + N - R
    BY <1>1, <2>3, <2>4
  <2>7. ASSUME NEW i \in 1 .. W + N - R
        PROVE  (p1 \o p2)[i] = sample_buffer[Out!Wrap(R + (i - 1), N)]
    <3>1. CASE i <= N - R
      <4>1. i \in 1 .. N - R /\ Out!Wrap(R + (i - 1), N) = R + i - 1
        BY <1>1, <3>1 DEF Out!Wrap
      <4>. QED BY <2>3, <2>5, <2>6, <3>1, <4>1
    <3>2. CASE ~(i <= N - R)
      <4>1. /\ i - (N - R) \in 1 .. W - 0
            /\ Out!Wrap(R + (i - 1), N) = 0 + (i - (N - R)) - 1
        BY <1>1, <3>2 DEF Out!Wrap
      <4>2. (p1 \o p2)[i] = p2[i - (N - R)]
        BY <2>3, <2>5, <2>6, <3>2
      <4>. QED BY <2>4, <4>1, <4>2
    <3>. QED BY <3>1, <3>2
  <2>. QED BY <2>1, <2>2, <2>3, <2>4, <2>5, <2>6, <2>7
<1>. QED BY <1>2, <1>3

(* An empty ring.                                                          *)
LEMMA OutInit == Out!Init => OutInv
<1>. SUFFICES ASSUME Out!Init
              PROVE  OutInv
  OBVIOUS
<1>1. 0 \in Out!Slot /\ 0 \in Out!Number
  BY RingSize DEF Out!Slot, Out!Number
<1>2. sent = <<>> /\ Len(sent) = 0 /\ sent \in Seq(Out!Number)
  BY EmptySeq DEF Out!Init
<1>3. OutTypes
  BY <1>1, <1>2, RingSize, OutAssumption DEF Out!Init, OutTypes
<1>4. Out!Waiting = 0
  BY RingSize DEF Out!Init, Out!Waiting, Out!Wrap
<1>5. RingHolds
  BY <1>4 DEF RingHolds, Out!Init
<1>6. Out!InOrder
  BY <1>2, <1>4, RingSize DEF Out!InOrder, Out!Init, Out!Plus, Out!Wrap
<1>. QED BY <1>3, <1>5, <1>6 DEF OutInv

(* A sample is mixed.                                                      *)
LEMMA MixKeepsOrder == OutInv /\ Out!apu_mix_sample => OutInv'
<1>. SUFFICES ASSUME OutInv, Out!apu_mix_sample
              PROVE  OutInv'
  OBVIOUS
<1>. DEFINE N == SAMPLE_BUFFER_SIZE
<1>0. /\ OutTypes /\ mixed \in Nat /\ mixed < FrameSamples /\ mixed' = mixed + 1
      /\ number' = Out!Plus(number, 1) /\ UNCHANGED <<device, read_pos, sent, sentFrom>>
      /\ Len(sent) \in Nat /\ Len(sent) < N /\ N \in Nat \ {0} /\ FrameSamples < N
      /\ FrameSamples \in Nat
  BY RingSize, OutAssumption DEF OutInv, OutTypes, Out!apu_mix_sample
<1>1. OutTypes'
  <2>1. mixed' \in 0..FrameSamples
    BY <1>0
  <2>2. number' \in Out!Number
    <3>1. 1 \in 0 .. 2 * N - 1
      BY RingSize
    <3>. QED BY <1>0, <3>1, PlusNumber DEF OutTypes
  <2>3. write_pos' \in Out!Slot /\ sample_buffer' \in [Out!Slot -> Out!Number]
    BY <1>0, WrapSlot DEF OutTypes, Out!apu_mix_sample
  <2>. QED BY <1>0, <2>1, <2>2, <2>3 DEF OutTypes
<1>2. CASE ~device
  BY <1>0, <1>1, <1>2 DEF OutInv, RingHolds, Out!InOrder
<1>3. CASE device
  <2>1. /\ Out!Waiting = mixed
        /\ \A i \in 0 .. mixed - 1 : sample_buffer[Out!Wrap(read_pos + i, N)]
                                     = Out!Plus(sentFrom, Len(sent) + i)
        /\ \A i \in 1 .. Len(sent) : sent[i] = Out!Plus(sentFrom, i - 1)
        /\ number = Out!Plus(sentFrom, Len(sent) + mixed)
    BY <1>3 DEF OutInv, RingHolds, Out!InOrder
  <2>2. Out!Wrap(write_pos + N - read_pos, N) = mixed /\ mixed < N - 1
    BY <1>0, <2>1 DEF Out!Waiting
  <2>3. /\ Out!Wrap(write_pos + 1, N) # read_pos
        /\ Out!Wrap(Out!Wrap(write_pos + 1, N) + N - read_pos, N) = mixed + 1
        /\ write_pos = Out!Wrap(read_pos + mixed, N)
    BY <1>0, <2>2, WaitingGrows DEF OutTypes
  <2>4. /\ sample_buffer' = [sample_buffer EXCEPT ![write_pos] = number]
        /\ write_pos' = Out!Wrap(write_pos + 1, N)
    BY <2>3 DEF Out!apu_mix_sample, Out!Full
  <2>5. Out!Waiting' = mixed'
    BY <1>0, <2>3, <2>4 DEF Out!Waiting, Out!Wrap
  <2>6. ASSUME NEW i \in 0 .. mixed' - 1
        PROVE  sample_buffer'[Out!Wrap(read_pos + i, N)] = Out!Plus(sentFrom, Len(sent) + i)
    <3>1. i \in 0..mixed /\ i \in Out!Slot /\ mixed \in Out!Slot
      BY <1>0, <2>2 DEF Out!Slot
    <3>2. Out!Wrap(read_pos + i, N) \in Out!Slot
      BY <1>0, <3>1, WrapSlot DEF OutTypes
    <3>3. CASE i = mixed
      BY <1>0, <2>1, <2>3, <2>4, <3>2, <3>3 DEF OutTypes
    <3>4. CASE i # mixed
      <4>1. i \in 0 .. mixed - 1
        BY <1>0, <3>1, <3>4
      <4>2. Out!Wrap(read_pos + i, N) # write_pos
        BY <1>0, <2>3, <3>1, <3>4, OtherSlots DEF OutTypes
      <4>. QED BY <1>0, <2>1, <2>4, <3>2, <4>1, <4>2 DEF OutTypes
    <3>. QED BY <3>3, <3>4
  <2>7. number' = Out!Plus(sentFrom, Len(sent) + mixed')
    <3>1. Len(sent) + mixed \in 0 .. 2 * N - 1 /\ Len(sent) + mixed + 1 = Len(sent) + mixed'
      BY <1>0, <2>2
    <3>2. Out!Plus(Out!Plus(sentFrom, Len(sent) + mixed), 1)
            = Out!Plus(sentFrom, Len(sent) + mixed + 1)
      BY <1>0, <3>1, PlusOne DEF OutTypes
    <3>. QED BY <1>0, <2>1, <3>1, <3>2
  <2>8. RingHolds'
    <3>1. \A i \in 0 .. mixed' - 1 :
            sample_buffer'[Out!Wrap(read_pos' + i, N)]
              = Out!Plus(sentFrom', Len(sent') + i)
      BY <1>0, <2>6
    <3>. QED BY <2>5, <3>1 DEF RingHolds, Out!Wrap, Out!Plus
  <2>9. Out!InOrder'
    BY <1>0, <2>1, <2>5, <2>7 DEF Out!InOrder, Out!Plus, Out!Wrap
  <2>. QED BY <1>1, <2>8, <2>9 DEF OutInv
<1>. QED BY <1>2, <1>3

(* The ring is handed to SDL.                                              *)
LEMMA HandoverKeepsOrder == OutInv /\ Out!frontend_push_audio => OutInv'
<1>. SUFFICES ASSUME OutInv, Out!frontend_push_audio
              PROVE  OutInv'
  OBVIOUS
<1>. DEFINE N == SAMPLE_BUFFER_SIZE
<1>0. /\ OutTypes /\ mixed' = 0 /\ UNCHANGED <<device, sample_buffer, write_pos, number>>
      /\ Len(sent) \in Nat /\ Len(sent) < N /\ N \in Nat \ {0}
      /\ write_pos \in Out!Slot /\ read_pos \in Out!Slot /\ mixed' \in 0..FrameSamples
  BY RingSize, OutAssumption DEF OutInv, OutTypes, Out!frontend_push_audio
<1>1. Out!Waiting \in 0 .. N - 1 /\ (write_pos = read_pos => Out!Waiting = 0)
  BY <1>0 DEF Out!Waiting, Out!Wrap, Out!Slot
<1>2. CASE ~(device /\ write_pos # read_pos)
  <2>1. UNCHANGED <<sent, read_pos, sentFrom>>
    BY <1>2 DEF Out!frontend_push_audio
  <2>2. OutTypes' /\ Out!Waiting' = Out!Waiting
    BY <1>0, <2>1 DEF OutTypes, Out!Waiting, Out!Wrap
  <2>3. device' => Out!Waiting' = mixed'
    BY <1>0, <1>1, <1>2, <2>2
  <2>4. RingHolds'
    BY <1>0, <2>3 DEF RingHolds
  <2>5. Out!InOrder'
    BY <1>0, <2>1, <2>2 DEF OutInv, Out!InOrder, Out!Plus, Out!Wrap
  <2>. QED BY <2>2, <2>4, <2>5 DEF OutInv
<1>3. CASE device /\ write_pos # read_pos
  <2>1. /\ sent' = Out!Available /\ read_pos' = write_pos
        /\ sentFrom' = Out!Plus(sentFrom, Len(sent))
    BY <1>3 DEF Out!frontend_push_audio
  <2>2. /\ Out!Waiting = mixed
        /\ \A i \in 0 .. mixed - 1 : sample_buffer[Out!Wrap(read_pos + i, N)]
                                     = Out!Plus(sentFrom, Len(sent) + i)
        /\ number = Out!Plus(sentFrom, Len(sent) + mixed)
    BY <1>3 DEF OutInv, RingHolds, Out!InOrder
  <2>3. /\ sent' \in Seq(Out!Number) /\ Len(sent') = mixed
        /\ \A i \in 1..mixed : sent'[i] = sample_buffer[Out!Wrap(read_pos + (i - 1), N)]
    BY <1>0, <1>3, <2>1, <2>2, AvailableIsWaiting
  <2>4. mixed \in 0 .. N - 1 /\ Len(sent) \in 0 .. N - 1 /\ sentFrom \in Out!Number
    BY <1>0, <1>1, <2>2 DEF OutTypes
  <2>5. OutTypes'
    <3>1. Len(sent) \in 0 .. 2 * N - 1
      BY <2>4, <1>0
    <3>2. sentFrom' \in Out!Number
      BY <2>1, <2>4, <3>1, PlusNumber
    <3>3. Len(sent') < N
      BY <2>3, <2>4, <1>0
    <3>. QED BY <1>0, <2>1, <2>3, <3>2, <3>3 DEF OutTypes
  <2>6. Out!Waiting' = 0
    BY <1>0, <2>1 DEF Out!Waiting, Out!Wrap, Out!Slot
  <2>7. RingHolds'
    BY <1>0, <2>6 DEF RingHolds
  <2>8. ASSUME NEW k \in 0..mixed
        PROVE  Out!Plus(sentFrom', k) = Out!Plus(sentFrom, Len(sent) + k)
    <3>1. k \in 0..N
      BY <2>4, <1>0
    <3>. QED BY <2>1, <2>4, <3>1, PlusPlus
  <2>9. \A i \in 1 .. Len(sent') : sent'[i] = Out!Plus(sentFrom', i - 1)
    <3>. SUFFICES ASSUME NEW i \in 1..mixed
                  PROVE  sent'[i] = Out!Plus(sentFrom', i - 1)
      BY <2>3
    <3>1. i - 1 \in 0 .. mixed - 1 /\ i - 1 \in 0..mixed
      BY <2>4
    <3>. QED BY <2>2, <2>3, <2>8, <3>1
  <2>10. number' = Out!Plus(sentFrom', Len(sent') + Out!Waiting')
    <3>1. mixed \in 0..mixed /\ Len(sent') + Out!Waiting' = mixed
      BY <2>3, <2>4, <2>6
    <3>. QED BY <1>0, <2>2, <2>8, <3>1
  <2>11. Out!InOrder'
    BY <2>9, <2>10 DEF Out!InOrder, Out!Plus, Out!Wrap
  <2>. QED BY <2>5, <2>7, <2>11 DEF OutInv
<1>. QED BY <1>2, <1>3

-----------------------------------------------------------------------------
(* Out of the mixer and through the ring.                                  *)

LEMMA HeardType ==
  ASSUME NEW lv \in [1..4 -> 0..15], NEW w \in 0..3, NEW r \in 0..3,
         NEW a \in -128..127, NEW b \in -128..127, NEW full \in SUBSET {"A", "B"},
         NEW on, NEW route \in [{"left", "right"} -> SUBSET {"A", "B"}], NEW bias \in 0..511
  PROVE  Heard(lv, w, r, a, b, full, on, route, bias) \in Loud!Setting
<1>. DEFINE o == [s \in {"left", "right"} |-> IF s \in on THEN 1..4 ELSE {}]
            v == [s \in {"left", "right"} |-> 7]
            c == [f \in {"A", "B"} |-> IF f = "A" THEN a ELSE b]
            t == [s \in {"left", "right"} |-> route[s]]
<1>1. o \in [{"left", "right"} -> SUBSET (1..4)]
  OBVIOUS
<1>2. v \in [{"left", "right"} -> 0..7]
  OBVIOUS
<1>3. c \in [{"A", "B"} -> -128..127]
  OBVIOUS
<1>4. t \in [{"left", "right"} -> SUBSET {"A", "B"}]
  OBVIOUS
<1>5. (w = 2) \in BOOLEAN
  OBVIOUS
<1>. DEFINE force == w = 2
<1>6. Heard(lv, w, r, a, b, full, on, route, bias) =
        [level |-> lv, wave_code |-> w, force |-> force, on |-> o, volume |-> v,
         ratio |-> r, sample |-> c, full |-> full, route |-> t, bias |-> bias]
  BY DEF Heard
<1>. HIDE DEF o, v, c, t, force
<1>7. force \in BOOLEAN
  BY DEF force
<1>. QED
  BY <1>1, <1>2, <1>3, <1>4, <1>6, <1>7
     DEF Loud!Setting, Loud!Side, Loud!Tone, Loud!Fifo

LEMMA SmallType ==
  ASSUME NEW lv \in [1..4 -> 0..15], NEW r \in 0..3, NEW a \in -128..127, NEW i \in 0..511
  PROVE  Heard(lv, r, r, a, 0, {}, {"left", "right"}, Apart, i) \in Loud!Setting
<1>. DEFINE z    == 0
            none == {}
            lr   == {"left", "right"}
<1>1. z \in -128..127 /\ none \in SUBSET {"A", "B"}
  OBVIOUS
<1>2. Apart \in [{"left", "right"} -> SUBSET {"A", "B"}]
  BY DEF Apart
<1>. HIDE DEF z, none, lr
<1>3. Heard(lv, r, r, a, z, none, lr, Apart, i) \in Loud!Setting
  BY <1>1, <1>2, HeardType
<1>. QED BY <1>3 DEF z, none, lr

(* The settings the runs use are settings.                                 *)
LEMMA SettingsType == Extremes \subseteq Loud!Setting /\ Small \subseteq Loud!Setting
<1>1. ASSUME NEW x \in {<<0, -128>>, <<15, 127>>}, NEW i \in {0, 256, 511}
      PROVE  Heard([t \in 1..4 |-> x[1]], 1, 2, x[2], x[2], {"A", "B"}, {"left"}, OnLeft, i)
               \in Loud!Setting
  <2>. DEFINE lv == [t \in 1..4 |-> x[1]]
              a  == x[2]
              ab == {"A", "B"}
              l  == {"left"}
              w  == 1
              r  == 2
  <2>1. x[1] \in 0..15 /\ a \in -128..127 /\ i \in 0..511
    BY <1>1
  <2>2. lv \in [1..4 -> 0..15]
    BY <2>1
  <2>3. OnLeft \in [{"left", "right"} -> SUBSET {"A", "B"}] /\ w \in 0..3 /\ r \in 0..3
    BY DEF OnLeft
  <2>4. ab \in SUBSET {"A", "B"}
    OBVIOUS
  <2>. HIDE DEF lv, a, ab, l, w, r
  <2>5. Heard(lv, w, r, a, a, ab, l, OnLeft, i) \in Loud!Setting
    BY <2>1, <2>2, <2>3, <2>4, HeardType
  <2>. QED BY <2>5 DEF lv, a, ab, l, w, r
<1>2. ASSUME NEW a, NEW v, NEW r \in 0..3, NEW i,
             a \in {-1, 0, 1}, v \in {0, 3}, i \in {0, 256, 511}
      PROVE  Heard([t \in 1..4 |-> IF t \in {1, 3} THEN v ELSE 0], r, r, a, 0, {},
                   {"left", "right"}, Apart, i) \in Loud!Setting
  <2>. DEFINE lv == [t \in 1..4 |-> IF t \in {1, 3} THEN v ELSE 0]
  <2>1. a \in -128..127 /\ i \in 0..511
    BY <1>2
  <2>2. lv \in [1..4 -> 0..15]
    BY <1>2
  <2>. HIDE DEF lv
  <2>3. Heard(lv, r, r, a, 0, {}, {"left", "right"}, Apart, i) \in Loud!Setting
    BY <2>1, <2>2, SmallType
  <2>. QED BY <2>3 DEF lv
<1>. QED BY <1>1, <1>2 DEF Extremes, Small

(* A step of the quiet mixer is one of the loud one.                       *)
LEMMA SoftIsLoud == \A x : Soft!Mix(x) => Loud!Mix(x)
<1>1. \A x, t : Soft!ChOut(x, t) = Loud!ChOut(x, t)
  BY DEF Soft!ChOut, Loud!ChOut, Soft!WaveLevel, Loud!WaveLevel, Soft!Shift, Loud!Shift
<1>2. \A x, s : Soft!Legacy(x, s) = Loud!Legacy(x, s)
  BY <1>1 DEF Soft!Legacy, Loud!Legacy, Soft!Shift, Loud!Shift, Soft!Quotient, Loud!Quotient
<1>3. \A x, s : Soft!Mixed(x, s) = Loud!Mixed(x, s)
  BY <1>2 DEF Soft!Mixed, Loud!Mixed, Soft!Direct, Loud!Direct
<1>4. \A x, s : Soft!Sample16(x, s) = Loud!Sample16(x, s)
  BY <1>3 DEF Soft!Sample16, Loud!Sample16, Soft!Scaled, Loud!Scaled, Soft!Dac,
              Loud!Dac, Soft!Clamp, Loud!Clamp
<1>5. \A p, a : Soft!Filter(p, a) = Loud!Filter(p, a)
  BY DEF Soft!Filter, Loud!Filter, Soft!Quotient, Loud!Quotient
<1>6. Soft!Side = Loud!Side
  BY DEF Soft!Side, Loud!Side
<1>. QED BY <1>3, <1>4, <1>5, <1>6 DEF Soft!Mix, Loud!Mix

(* Any step of the way out.                                                *)
LEMMA StepSoundArrives ==
  OutInv /\ Loud!Fits /\ [ONext]_ovars => OutInv' /\ Loud!Fits'
<1>. SUFFICES ASSUME OutInv, Loud!Fits, [ONext]_ovars
              PROVE  OutInv' /\ Loud!Fits'
  OBVIOUS
<1>1. UNCHANGED outvars => OutInv'
  BY DEF outvars, OutInv, OutTypes, RingHolds, Out!InOrder, Out!Waiting, Out!Plus, Out!Wrap
<1>2. UNCHANGED prev => Loud!Fits'
  BY DEF Loud!Fits
<1>3. CASE SoftMix
  <2>1. UNCHANGED outvars
    BY <1>3 DEF SoftMix
  <2>2. PICK x \in Small : Soft!Mix(x)
    BY <1>3 DEF SoftMix
  <2>. QED BY <1>1, <2>1, <2>2, SoftIsLoud, SettingsType, MixedSampleFits
<1>4. CASE Loud!Next /\ ~Loud!Switch /\ UNCHANGED outvars
  <2>1. PICK x \in Extremes : Loud!Mix(x)
    BY <1>4 DEF Loud!Next
  <2>. QED BY <1>1, <1>4, <2>1, SettingsType, MixedSampleFits
<1>5. CASE Out!Next /\ UNCHANGED mixvars
  BY <1>2, <1>5, MixKeepsOrder, HandoverKeepsOrder DEF Out!Next, mixvars
<1>6. CASE UNCHANGED <<mixvars, outvars>>
  BY <1>1, <1>2, <1>6 DEF mixvars
<1>7. CASE (Soft!Switch \/ Loud!Switch) /\ UNCHANGED outvars
  BY <1>1, <1>2, <1>7 DEF Soft!Switch, Loud!Switch
<1>. QED BY <1>3, <1>4, <1>5, <1>6, <1>7 DEF ONext, ovars

(* From the mixer to SDL, for every ring that holds a frame: the samples   *)
(* stay within int16_t, and each arrives once and in order, through the    *)
(* ring and the two pieces it is handed over in where it wraps.            *)
THEOREM SoundOutArrives == OSpec => []SoundArrives
<1>1. OInit => OutInv /\ Loud!Fits
  BY OutInit DEF OInit, Soft!Init, Soft!Side, Loud!Fits, Loud!Side
<1>2. OutInv /\ Loud!Fits => SoundArrives
  BY DEF OutInv, SoundArrives
<1>. QED BY <1>1, <1>2, StepSoundArrives, PTL DEF OSpec

-----------------------------------------------------------------------------
(* The tone channels.                                                      *)

(* Shifting right never makes a number larger.                             *)
LEMMA ShiftedBound ==
  ASSUME NEW f \in Nat, NEW s \in 0..7
  PROVE  Shifted(f, s) \in 0..f
<1>1. CASE s = 0
  BY <1>1 DEF Shifted
<1>2. CASE s = 1
  BY <1>2 DEF Shifted
<1>3. CASE s = 2
  BY <1>3 DEF Shifted
<1>4. CASE s = 3
  BY <1>4 DEF Shifted
<1>5. CASE s = 4
  BY <1>5 DEF Shifted
<1>6. CASE s = 5
  BY <1>6 DEF Shifted
<1>7. CASE s = 6
  BY <1>7 DEF Shifted
<1>8. CASE s = 7
  BY <1>8 DEF Shifted
<1>. QED BY <1>1, <1>2, <1>3, <1>4, <1>5, <1>6, <1>7, <1>8

(* Frequencies are natural numbers. *)
LEMMA LimitNat == FreqLimit \in Nat
<1>1. LowFreqs * HighFreqs \in Nat \ {0}
  BY ChannelsAssumption
<1>. QED BY <1>1 DEF FreqLimit

(* The two parts of a frequency put together stay in range.                *)
LEMMA FreqParts ==
  ASSUME NEW h \in 0 .. HighFreqs - 1, NEW l \in 0 .. LowFreqs - 1
  PROVE  LowFreqs * h + l \in 0..FreqLimit
<1>1. h <= HighFreqs - 1 /\ LowFreqs \in Nat /\ HighFreqs \in Nat
  BY ChannelsAssumption
<1>2. LowFreqs * h <= LowFreqs * (HighFreqs - 1)
  BY <1>1
<1>3. LowFreqs * (HighFreqs - 1) = LowFreqs * HighFreqs - LowFreqs
  BY <1>1
<1>4. LowFreqs * h \in Nat /\ LowFreqs * HighFreqs \in Nat
  BY <1>1
<1>. QED BY <1>1, <1>2, <1>3, <1>4 DEF FreqLimit

(* A frequency is split over two registers. *)
LEMMA FreqSplit ==
  ASSUME NEW f \in 0..FreqLimit
  PROVE  /\ f % LowFreqs \in 0 .. LowFreqs - 1
         /\ f \div LowFreqs \in 0 .. HighFreqs - 1
<1>1. LowFreqs \in Nat \ {0} /\ HighFreqs \in Nat \ {0} /\ f \in Nat
      /\ f < LowFreqs * HighFreqs
  BY ChannelsAssumption, LimitNat DEF FreqLimit
<1>2. f % LowFreqs \in 0 .. LowFreqs - 1
  BY <1>1
<1>3. f \div LowFreqs \in Nat /\ LowFreqs * (f \div LowFreqs) <= f
  BY <1>1
<1>4. f \div LowFreqs < HighFreqs
  <2>. SUFFICES ASSUME f \div LowFreqs >= HighFreqs PROVE FALSE
    BY <1>1, <1>3
  <2>1. LowFreqs * (f \div LowFreqs) >= LowFreqs * HighFreqs
    BY <1>1, <1>3
  <2>. QED BY <2>1, <1>1, <1>3
<1>. QED BY <1>1, <1>2, <1>3, <1>4

-----------------------------------------------------------------------------
(* The initial state is of its type. *)
LEMMA TonesStartTyped == ToneInit => TonesTyped
<1>. SUFFICES ASSUME ToneInit PROVE TonesTyped
  OBVIOUS
<1>1. /\ enabled \in [Ch -> BOOLEAN] /\ length_enable \in [Ch -> BOOLEAN]
      /\ vol_dir \in [Ch -> BOOLEAN]
      /\ master \in BOOLEAN /\ sweep_dir \in BOOLEAN /\ sweep_enabled \in BOOLEAN
  BY Zenon DEF ToneInit
<1>2. 0 \in 0..MaxVolume /\ 0 \in 0..FreqLimit /\ 0 \in 0 .. FRAME_SEQ_PERIOD - 1
  BY ChannelsAssumption, LimitNat
<1>3. /\ length_counter \in [Ch -> Nat] /\ volume \in [Ch -> 0..MaxVolume]
      /\ vol_period \in [Ch -> 0..7] /\ vol_timer \in [Ch -> 0..7]
  BY <1>2 DEF ToneInit
<1>. QED BY <1>1, <1>2, <1>3 DEF ToneInit, TonesTyped

(* What switching the master off leaves has its types.                     *)
LEMMA SilentTypes ==
  ASSUME Silent
  PROVE  /\ enabled' \in [Ch -> BOOLEAN] /\ length_enable' \in [Ch -> BOOLEAN]
         /\ vol_dir' \in [Ch -> BOOLEAN]
         /\ length_counter' \in [Ch -> Nat] /\ volume' \in [Ch -> 0..MaxVolume]
         /\ vol_period' \in [Ch -> 0..7] /\ vol_timer' \in [Ch -> 0..7]
         /\ frequency' \in 0..FreqLimit /\ sweep_freq' \in 0..FreqLimit
         /\ sweep_period' \in 0..7 /\ sweep_shift' \in 0..7 /\ sweep_timer' \in 0..7
         /\ sweep_dir' \in BOOLEAN /\ sweep_enabled' \in BOOLEAN
<1>1. /\ enabled' \in [Ch -> BOOLEAN] /\ length_enable' \in [Ch -> BOOLEAN]
      /\ vol_dir' \in [Ch -> BOOLEAN]
      /\ sweep_dir' \in BOOLEAN /\ sweep_enabled' \in BOOLEAN
  BY Zenon DEF Silent
<1>2. 0 \in 0..MaxVolume /\ 0 \in 0..FreqLimit
  BY ChannelsAssumption, LimitNat
<1>. QED BY <1>1, <1>2 DEF Silent

(* A sweep step that is taken stays in range, one that falls always does.  *)
LEMMA SweptRange ==
  ASSUME NEW f \in 0..FreqLimit, NEW s \in 0..7, sweep_dir \in BOOLEAN
  PROVE  /\ Swept(f, s) \in Nat
         /\ sweep_dir \/ ~TooHigh(Swept(f, s)) => Swept(f, s) \in 0..FreqLimit
<1>1. f \in Nat /\ FreqLimit \in Nat
  BY LimitNat
<1>2. Shifted(f, s) \in 0..f
  BY <1>1, ShiftedBound
<1>. QED BY <1>1, <1>2 DEF Swept, TooHigh

(* Writing a control register, with a trigger or without, keeps the types. *)
LEMMA ControlTypeOK ==
  ASSUME TonesTyped, NEW c \in Used, NEW h \in 0 .. HighFreqs - 1,
         NEW len \in BOOLEAN, NEW trigger \in BOOLEAN, WriteControl(c, h, len, trigger)
  PROVE  TonesTyped'
<1>. DEFINE f == WithHigh(c, h)
<1>0. c \in Ch
  BY ChannelsAssumption
<1>1. f \in 0..FreqLimit
  BY FreqParts, FreqSplit DEF WithHigh, TonesTyped
<1>2. length_enable' \in [Ch -> BOOLEAN]
  BY <1>0 DEF WriteControl, TonesTyped
<1>3. enabled' \in [Ch -> BOOLEAN]
  <2>1. CASE trigger
    <3>1. ComesOn(c, f) \in BOOLEAN
      BY Zenon DEF ComesOn
    <3>2. enabled' = [enabled EXCEPT ![c] = ComesOn(c, f)]
      BY <2>1, Zenon DEF WriteControl
    <3>3. enabled \in [Ch -> BOOLEAN]
      BY DEF TonesTyped
    <3>. HIDE DEF f
    <3>. QED BY <3>1, <3>2, <3>3, <1>0, Zenon
  <2>2. CASE ~trigger
    BY <2>2 DEF WriteControl, TonesTyped
  <2>. QED BY <2>1, <2>2
<1>4. length_counter' \in [Ch -> Nat]
  BY <1>0, ChannelsAssumption DEF WriteControl, TonesTyped, TriggerLength
<1>5. vol_timer' \in [Ch -> 0..7]
  BY <1>0 DEF WriteControl, TonesTyped
<1>6. frequency' \in 0..FreqLimit
  BY <1>1 DEF WriteControl
<1>7. sweep_freq' \in 0..FreqLimit /\ sweep_timer' \in 0..7
  BY <1>1 DEF WriteControl, TonesTyped, sweepvars
<1>8. sweep_enabled' \in BOOLEAN
  <2>1. sweep_enabled' = (sweep_period > 0 \/ sweep_shift > 0) \/ UNCHANGED sweep_enabled
    BY DEF WriteControl, sweepvars
  <2>. QED BY <2>1, Zenon DEF TonesTyped
<1>9. UNCHANGED <<master, frame_seq_timer, frame_seq_step, volume, vol_period, vol_dir,
                  sweep_period, sweep_dir, sweep_shift>>
  BY DEF WriteControl, seqvars, sweepregs
<1>. QED BY <1>2, <1>3, <1>4, <1>5, <1>6, <1>7, <1>8, <1>9 DEF TonesTyped

(* A tick of the frame sequencer keeps the types. *)
LEMMA TickTypeOK ==
  ASSUME TonesTyped, NEW k \in Slices, apu_tick(k)
  PROVE  TonesTyped'
<1>1. CASE frame_seq_timer + k >= FRAME_SEQ_PERIOD
  <2>0. SeqStep /\ frame_seq_timer' = frame_seq_timer + k - FRAME_SEQ_PERIOD
        /\ master' = master
    BY <1>1 DEF apu_tick
  <2>1. frame_seq_timer' \in 0 .. FRAME_SEQ_PERIOD - 1
    BY <2>0, <1>1, ChannelsAssumption DEF TonesTyped
  <2>2. frame_seq_step' \in 0..7
    BY <2>0 DEF SeqStep, TonesTyped
  <2>3. length_counter' \in [Ch -> Nat]
    BY <2>0 DEF SeqStep, TonesTyped, Counting
  <2>4. enabled' \in [Ch -> BOOLEAN]
    <3>1. enabled' = [c \in Ch |-> /\ enabled[c] /\ ~RunsOut(c) /\ ~(c = 1 /\ SweepSilences)]
      BY <2>0, Zenon DEF SeqStep
    <3>. QED BY <3>1, Zenon
  <2>5. sweep_timer' \in 0..7
    BY <2>0 DEF SeqStep, TonesTyped, SweepDue, Sweeping
  <2>6. sweep_freq' \in 0..FreqLimit /\ frequency' \in 0..FreqLimit
    <3>1. SweepTaken => NewFreq \in 0..FreqLimit
      <4>1. sweep_freq \in 0..FreqLimit /\ sweep_shift \in 0..7 /\ sweep_dir \in BOOLEAN
        BY DEF TonesTyped
      <4>. QED BY <4>1, SweptRange DEF SweepTaken, NewFreq
    <3>2. sweep_freq' = IF SweepTaken THEN NewFreq ELSE sweep_freq
      BY <2>0 DEF SeqStep
    <3>3. frequency' = IF SweepTaken THEN NewFreq ELSE frequency
      BY <2>0 DEF SeqStep
    <3>. QED BY <3>1, <3>2, <3>3 DEF TonesTyped
  <2>7. vol_timer' \in [Ch -> 0..7]
    BY <2>0 DEF SeqStep, TonesTyped, FadeDue, Fading
  <2>8. volume' \in [Ch -> 0..MaxVolume]
    <3>1. \A c \in Ch : Faded(c) \in 0..MaxVolume
      BY ChannelsAssumption DEF Faded, TonesTyped
    <3>. QED BY <2>0, <3>1 DEF SeqStep, TonesTyped
  <2>9. UNCHANGED <<length_enable, vol_period, vol_dir, sweep_period, sweep_dir,
                    sweep_shift, sweep_enabled>>
    BY <2>0 DEF SeqStep, sweepregs
  <2>. QED BY <2>0, <2>1, <2>2, <2>3, <2>4, <2>5, <2>6, <2>7, <2>8, <2>9 DEF TonesTyped
<1>2. CASE ~(frame_seq_timer + k >= FRAME_SEQ_PERIOD)
  <2>1. frame_seq_timer' = frame_seq_timer + k
        /\ UNCHANGED <<master, frame_seq_step, enabled, length_counter, length_enable, volume,
                       vol_period, vol_dir, vol_timer, frequency, sweep_period,
                       sweep_dir, sweep_shift, sweep_timer, sweep_freq, sweep_enabled>>
    BY <1>2 DEF apu_tick, lenvars, volvars, sweepregs, sweepvars
  <2>2. frame_seq_timer' \in 0 .. FRAME_SEQ_PERIOD - 1
    BY <2>1, <1>2, ChannelsAssumption DEF TonesTyped
  <2>. QED BY <2>1, <2>2 DEF TonesTyped
<1>. QED BY <1>1, <1>2

(* So does every step. *)
LEMMA ToneStepTyped == TonesTyped /\ [ToneNext]_tone_vars => TonesTyped'
<1>. SUFFICES ASSUME TonesTyped, [ToneNext]_tone_vars PROVE TonesTyped'
  OBVIOUS
<1>1. ASSUME NEW b \in BOOLEAN, WriteMaster(b) PROVE TonesTyped'
  <2>1. master' \in BOOLEAN
    BY <1>1, Zenon DEF WriteMaster
  <2>2. UNCHANGED <<frame_seq_timer, frame_seq_step>>
    BY <1>1 DEF WriteMaster, seqvars
  <2>3. CASE Silent
    BY <2>1, <2>2, <2>3, SilentTypes DEF TonesTyped
  <2>4. CASE UNCHANGED <<enabled, lenvars, volvars, frequency, sweepregs, sweepvars>>
    BY <2>1, <2>2, <2>4 DEF TonesTyped, lenvars, volvars, sweepregs, sweepvars
  <2>. QED BY <1>1, <2>3, <2>4 DEF WriteMaster
<1>2. ASSUME NEW p \in SweepPeriods, NEW d \in BOOLEAN, NEW s \in Shifts, WriteSweep(p, d, s)
      PROVE  TonesTyped'
  <2>1. sweep_period' \in 0..7 /\ sweep_shift' \in 0..7
    BY <1>2, ChannelsAssumption DEF WriteSweep
  <2>2. sweep_dir' \in BOOLEAN
    BY <1>2, Zenon DEF WriteSweep
  <2>. QED BY <1>2, <2>1, <2>2 DEF WriteSweep, TonesTyped, seqvars, lenvars, volvars, sweepvars
<1>3. ASSUME NEW f \in 0 .. LowFreqs - 1, WriteFreqLow(f) PROVE TonesTyped'
  <2>1. frequency' \in 0..FreqLimit
    BY <1>3, FreqSplit, FreqParts DEF WriteFreqLow, TonesTyped
  <2>. QED BY <1>3, <2>1 DEF WriteFreqLow, TonesTyped, seqvars, lenvars, volvars, sweepregs,
                             sweepvars
<1>4. ASSUME NEW c \in Used, NEW n \in Lengths, WriteLength(c, n) PROVE TonesTyped'
  <2>1. length_counter' \in [Ch -> Nat]
    BY <1>4, ChannelsAssumption DEF WriteLength, TonesTyped
  <2>. QED BY <1>4, <2>1 DEF WriteLength, TonesTyped, seqvars, volvars, sweepregs, sweepvars
<1>5. ASSUME NEW c \in Used, NEW v \in 0..MaxVolume, NEW up \in BOOLEAN,
             NEW p \in EnvPeriods, WriteEnvelope(c, v, up, p)
      PROVE  TonesTyped'
  <2>0. c \in Ch /\ p \in 0..7
    BY ChannelsAssumption
  <2>1. /\ volume' \in [Ch -> 0..MaxVolume]
        /\ vol_period' \in [Ch -> 0..7]
    BY <1>5, <2>0 DEF WriteEnvelope, TonesTyped
  <2>2. vol_dir' \in [Ch -> BOOLEAN]
    BY <1>5, <2>0 DEF WriteEnvelope, TonesTyped
  <2>. QED BY <1>5, <2>1, <2>2 DEF WriteEnvelope, TonesTyped, seqvars, lenvars, sweepregs, sweepvars
<1>6. CASE WriteWaveOff
  <2>1. enabled' \in [Ch -> BOOLEAN]
    BY <1>6 DEF WriteWaveOff, TonesTyped, Ch
  <2>. QED BY <1>6, <2>1 DEF WriteWaveOff, TonesTyped, seqvars, lenvars, volvars, sweepregs,
                             sweepvars
<1>7. ASSUME NEW c \in Used, NEW h \in 0 .. HighFreqs - 1, NEW len \in BOOLEAN,
             NEW trigger \in BOOLEAN, WriteControl(c, h, len, trigger)
      PROVE  TonesTyped'
  BY <1>7, ControlTypeOK
<1>8. ASSUME NEW k \in Slices, apu_tick(k) PROVE TonesTyped'
  BY <1>8, TickTypeOK
<1>9. CASE UNCHANGED tone_vars
  BY <1>9 DEF TonesTyped, tone_vars
<1>. QED BY <1>1, <1>2, <1>3, <1>4, <1>5, <1>6, <1>7, <1>8, <1>9 DEF ToneNext, Program

(* Frequencies, volumes, lengths and the sequencer stay in range, whatever *)
(* the program writes between two ticks (apu_tick, io_write8).             *)
THEOREM ChannelsTypeCorrect == ToneSpec => []TonesTyped
  BY TonesStartTyped, ToneStepTyped, PTL DEF ToneSpec

-----------------------------------------------------------------------------
(* Steps that leave the counters alone and start nothing.                  *)
LEMMA StartsNothing ==
  ASSUME SoundHasTimeLeft, UNCHANGED length_counter,
         \A c \in Ch : enabled'[c] => enabled[c]
  PROVE  SoundHasTimeLeft'
  BY DEF SoundHasTimeLeft

(* A channel that sounds keeps having time left. *)
LEMMA StepTimeLeft ==
  ASSUME TonesTyped, SoundHasTimeLeft, [ToneNext]_tone_vars
  PROVE  SoundHasTimeLeft'
<1>1. ASSUME NEW b \in BOOLEAN, WriteMaster(b) PROVE SoundHasTimeLeft'
  <2>1. CASE Silent
    <3>1. \A c \in Ch : ~enabled'[c]
      BY <2>1, Zenon DEF Silent
    <3>. QED BY <3>1 DEF SoundHasTimeLeft
  <2>2. CASE UNCHANGED <<enabled, lenvars>>
    BY <2>2, StartsNothing DEF lenvars
  <2>. QED BY <1>1, <2>1, <2>2 DEF WriteMaster
<1>2. ASSUME NEW p \in SweepPeriods, NEW d \in BOOLEAN, NEW s \in Shifts, WriteSweep(p, d, s)
      PROVE  SoundHasTimeLeft'
  BY <1>2, StartsNothing DEF WriteSweep, lenvars
<1>3. ASSUME NEW f \in 0 .. LowFreqs - 1, WriteFreqLow(f) PROVE SoundHasTimeLeft'
  BY <1>3, StartsNothing DEF WriteFreqLow, lenvars
<1>4. ASSUME NEW c \in Used, NEW n \in Lengths, WriteLength(c, n) PROVE SoundHasTimeLeft'
  <2>1. c \in Ch /\ n > 0 /\ length_counter \in [Ch -> Nat]
    BY ChannelsAssumption DEF TonesTyped
  <2>2. length_counter' = [length_counter EXCEPT ![c] = n] /\ UNCHANGED enabled
    BY <1>4 DEF WriteLength
  <2>. QED BY <2>1, <2>2 DEF SoundHasTimeLeft
<1>5. ASSUME NEW c \in Used, NEW v \in 0..MaxVolume, NEW up \in BOOLEAN,
             NEW p \in EnvPeriods, WriteEnvelope(c, v, up, p)
      PROVE  SoundHasTimeLeft'
  BY <1>5, StartsNothing DEF WriteEnvelope, lenvars
<1>6. CASE WriteWaveOff
  <2>1. \A c \in Ch : enabled'[c] => enabled[c]
    BY <1>6 DEF WriteWaveOff, TonesTyped
  <2>. QED BY <1>6, <2>1, StartsNothing DEF WriteWaveOff, lenvars
<1>7. ASSUME NEW c \in Used, NEW h \in 0 .. HighFreqs - 1, NEW len \in BOOLEAN,
             NEW trigger \in BOOLEAN, WriteControl(c, h, len, trigger)
      PROVE  SoundHasTimeLeft'
  <2>1. CASE trigger
    <3>1. c \in Ch /\ TriggerLength(c) > 0 /\ length_counter \in [Ch -> Nat]
          /\ enabled \in [Ch -> BOOLEAN]
      BY ChannelsAssumption DEF TonesTyped, TriggerLength
    <3>2. length_counter' = [length_counter EXCEPT ![c] = TriggerLength(c)]
      BY <1>7, <2>1 DEF WriteControl
    <3>3. \A d \in Ch : d # c => enabled'[d] = enabled[d]
      BY <1>7, <2>1, <3>1 DEF WriteControl
    <3>. QED BY <3>1, <3>2, <3>3 DEF SoundHasTimeLeft
  <2>2. CASE ~trigger
    BY <1>7, <2>2, StartsNothing DEF WriteControl
  <2>. QED BY <2>1, <2>2
<1>8. ASSUME NEW k \in Slices, apu_tick(k) PROVE SoundHasTimeLeft'
  <2>1. CASE SeqStep
    <3>. SUFFICES ASSUME NEW c \in Ch, enabled'[c] PROVE length_counter'[c] > 0
      BY DEF SoundHasTimeLeft
    <3>1. enabled[c] /\ ~RunsOut(c)
      BY <2>1, Zenon DEF SeqStep
    <3>2. length_counter[c] > 0 /\ length_counter[c] \in Nat
      BY <3>1 DEF SoundHasTimeLeft, TonesTyped
    <3>3. length_counter'[c] = IF Counting(c) THEN length_counter[c] - 1 ELSE length_counter[c]
      BY <2>1 DEF SeqStep
    <3>. QED BY <3>1, <3>2, <3>3 DEF RunsOut
  <2>2. CASE UNCHANGED <<enabled, lenvars>>
    BY <2>2, StartsNothing DEF lenvars
  <2>. QED BY <1>8, <2>1, <2>2 DEF apu_tick
<1>9. CASE UNCHANGED tone_vars
  BY <1>9, StartsNothing DEF tone_vars
<1>. QED BY <1>1, <1>2, <1>3, <1>4, <1>5, <1>6, <1>7, <1>8, <1>9 DEF ToneNext, Program

(* No order of length writes, triggers, flag changes and master switches   *)
(* leaves a channel sounding with its length counter at zero, where        *)
(* *_channel_length_tick would never end it.                               *)
THEOREM ChannelsHaveTimeLeft == ToneSpec => []SoundHasTimeLeft
<1>1. ToneInit => SoundHasTimeLeft
  BY Zenon DEF ToneInit, SoundHasTimeLeft
<1>2. TonesTyped /\ SoundHasTimeLeft /\ [ToneNext]_tone_vars => SoundHasTimeLeft'
  BY StepTimeLeft
<1>. QED BY <1>1, <1>2, ChannelsTypeCorrect, PTL DEF ToneSpec

-----------------------------------------------------------------------------
(* Nothing sounds after the master switch went off. *)
LEMMA StepMasterOff ==
  ASSUME TonesTyped, MasterOffIsSilent, [ToneNext]_tone_vars
  PROVE  MasterOffIsSilent'
<1>1. ASSUME NEW b \in BOOLEAN, WriteMaster(b) PROVE MasterOffIsSilent'
  <2>1. CASE master /\ ~b
    <3>1. \A c \in Ch : ~enabled'[c]
      BY <1>1, <2>1, Zenon DEF WriteMaster, Silent
    <3>. QED BY <3>1 DEF MasterOffIsSilent
  <2>2. CASE ~(master /\ ~b)
    BY <1>1, <2>2 DEF WriteMaster, MasterOffIsSilent
  <2>. QED BY <2>1, <2>2
<1>2. CASE master' /\ master
  BY <1>2 DEF MasterOffIsSilent
<1>3. CASE UNCHANGED tone_vars
  BY <1>3 DEF MasterOffIsSilent, tone_vars
<1>. QED BY <1>1, <1>2, <1>3 DEF ToneNext, Program, WriteSweep, WriteFreqLow, WriteLength,
            WriteEnvelope, WriteWaveOff, WriteControl, apu_tick

(* With the master switch off nothing sounds and no register write starts  *)
(* anything (io_write8, SOUNDCNT_X).                                       *)
THEOREM ChannelsMasterOff == ToneSpec => []MasterOffIsSilent
<1>1. ToneInit => MasterOffIsSilent
  BY Zenon DEF ToneInit, MasterOffIsSilent
<1>2. TonesTyped /\ MasterOffIsSilent /\ [ToneNext]_tone_vars => MasterOffIsSilent'
  BY StepMasterOff
<1>. QED BY <1>1, <1>2, ChannelsTypeCorrect, PTL DEF ToneSpec

(* Both together, as the run checks them: a channel sounds only with the   *)
(* master on and with time left in its length counter.                     *)
THEOREM ChannelsSoundOnlyWhenAllowed == ToneSpec => []SoundsOnlyWhenAllowed
<1>1. SoundHasTimeLeft /\ MasterOffIsSilent => SoundsOnlyWhenAllowed
  BY DEF SoundsOnlyWhenAllowed
<1>. QED BY <1>1, ChannelsHaveTimeLeft, ChannelsMasterOff, PTL

-----------------------------------------------------------------------------
(* The history only watches. *)
LEMMA TracedNextIsNext == [TracedNext]_traced_vars => [ToneNext]_tone_vars
  BY DEF TracedNext, HTick, traced_vars, ToneNext, Program

(* Steps that leave channel 1's sweep alone and do not switch it on.       *)
LEMMA SweepUntouched ==
  ASSUME NextSweepFits, UNCHANGED <<sweep_dir, sweep_shift, sweep_freq, rewritten>>,
         enabled'[1] => enabled[1]
  PROVE  NextSweepFits'
  BY DEF NextSweepFits, Swept, TooHigh

(* The next frequency of the sweep keeps fitting its register. *)
LEMMA StepSweepFits ==
  ASSUME TonesTyped, NextSweepFits, [TracedNext]_traced_vars
  PROVE  NextSweepFits'
<1>0. 1 \in Ch
  BY DEF Ch
<1>1. ASSUME NEW b \in BOOLEAN, WriteMaster(b), UNCHANGED rewritten PROVE NextSweepFits'
  <2>1. CASE Silent
    <3>1. ~enabled'[1]
      BY <1>0, <2>1, Zenon DEF Silent
    <3>. QED BY <3>1 DEF NextSweepFits
  <2>2. CASE UNCHANGED <<enabled, sweepregs, sweepvars>>
    BY <1>1, <2>2, SweepUntouched DEF sweepregs, sweepvars
  <2>. QED BY <1>1, <2>1, <2>2 DEF WriteMaster
<1>2. CASE rewritten' = TRUE
  BY <1>2 DEF NextSweepFits
<1>3. ASSUME NEW f \in 0 .. LowFreqs - 1, WriteFreqLow(f), UNCHANGED rewritten
      PROVE  NextSweepFits'
  BY <1>3, SweepUntouched DEF WriteFreqLow, sweepregs, sweepvars
<1>4. ASSUME NEW c \in Used, NEW n \in Lengths, WriteLength(c, n), UNCHANGED rewritten
      PROVE  NextSweepFits'
  BY <1>4, SweepUntouched DEF WriteLength, sweepregs, sweepvars
<1>5. ASSUME NEW c \in Used, NEW v \in 0..MaxVolume, NEW up \in BOOLEAN,
             NEW p \in EnvPeriods, WriteEnvelope(c, v, up, p), UNCHANGED rewritten
      PROVE  NextSweepFits'
  BY <1>5, SweepUntouched DEF WriteEnvelope, sweepregs, sweepvars
<1>6. CASE WriteWaveOff /\ UNCHANGED rewritten
  <2>1. enabled'[1] = enabled[1]
    BY <1>0, <1>6 DEF WriteWaveOff, TonesTyped
  <2>. QED BY <1>6, <2>1, SweepUntouched DEF WriteWaveOff, sweepregs, sweepvars
<1>7. ASSUME NEW c \in Used, NEW h \in 0 .. HighFreqs - 1, NEW len \in BOOLEAN,
             NEW trigger \in BOOLEAN, WriteControl(c, h, len, trigger),
             rewritten' = (rewritten /\ ~(c = 1 /\ trigger))
      PROVE  NextSweepFits'
  <2>0. c \in Ch /\ UNCHANGED <<sweep_dir, sweep_shift>>
    BY <1>7, ChannelsAssumption DEF WriteControl, sweepregs
  <2>1. CASE c = 1 /\ trigger
    <3>. DEFINE f == WithHigh(c, h)
    <3>1. enabled' = [enabled EXCEPT ![c] = ComesOn(c, f)] /\ sweep_freq' = f
      BY <1>7, <2>1 DEF WriteControl
    <3>2. enabled'[1] => SweepAllows(f)
      BY <3>1, <2>1, <1>0, Zenon DEF TonesTyped, ComesOn
    <3>. QED BY <2>0, <3>1, <3>2 DEF SweepAllows, NextSweepFits, Swept, TooHigh
  <2>2. CASE ~(c = 1 /\ trigger)
    <3>1. enabled'[1] = enabled[1] /\ UNCHANGED sweep_freq
      BY <1>0, <1>7, <2>0, <2>2 DEF WriteControl, TonesTyped, sweepvars
    <3>2. rewritten => rewritten'
      BY <1>7, <2>2
    <3>. QED BY <2>0, <3>1, <3>2 DEF NextSweepFits, Swept, TooHigh
  <2>. QED BY <2>1, <2>2
<1>8. ASSUME NEW k \in Slices, apu_tick(k), UNCHANGED rewritten PROVE NextSweepFits'
  <2>1. CASE SeqStep
    <3>1. enabled'[1] => enabled[1] /\ ~SweepSilences
      BY <1>0, <2>1, Zenon DEF SeqStep
    <3>2. UNCHANGED <<sweep_dir, sweep_shift>>
      BY <2>1 DEF SeqStep, sweepregs
    <3>3. sweep_freq' = IF SweepTaken THEN NewFreq ELSE sweep_freq
      BY <2>1 DEF SeqStep
    <3>4. CASE SweepTaken
      <4>1. sweep_freq' = NewFreq /\ SweepMoves
        BY <3>3, <3>4 DEF SweepTaken
      <4>. QED BY <4>1, <3>1, <3>2 DEF NextSweepFits, SweepSilences, Swept, TooHigh
    <3>5. CASE ~SweepTaken
      BY <3>1, <3>2, <3>3, <3>5, <1>8, SweepUntouched
    <3>. QED BY <3>4, <3>5
  <2>2. CASE UNCHANGED <<enabled, sweepregs, sweepvars>>
    BY <1>8, <2>2, SweepUntouched DEF sweepregs, sweepvars
  <2>. QED BY <1>8, <2>1, <2>2 DEF apu_tick
<1>9. CASE UNCHANGED traced_vars
  BY <1>9, SweepUntouched DEF traced_vars, tone_vars
<1>. QED BY <1>1, <1>2, <1>3, <1>4, <1>5, <1>6, <1>7, <1>8, <1>9 DEF TracedNext, HTick

(* The overflow checks of square_channel_trigger and square_channel_sweep  *)
(* together look one step ahead: a rising sound that is still on has room  *)
(* for its next step, unless the sweep register was rewritten under it.    *)
THEOREM ChannelsSweepFits == TracedSpec => []NextSweepFits
<1>1. TracedInit => TonesTyped /\ NextSweepFits
  <2>1. TracedInit => ~enabled[1]
    <3>1. 1 \in Ch
      BY DEF Ch
    <3>. QED BY <3>1, Zenon DEF TracedInit, ToneInit
  <2>. QED BY <2>1, TonesStartTyped DEF TracedInit, NextSweepFits
<1>2. TonesTyped /\ NextSweepFits /\ [TracedNext]_traced_vars => (TonesTyped /\ NextSweepFits)'
  BY ToneStepTyped, StepSweepFits, TracedNextIsNext
<1>. QED BY <1>1, <1>2, PTL DEF TracedSpec
=============================================================================
