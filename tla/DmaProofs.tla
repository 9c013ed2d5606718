------------------------------ MODULE DmaProofs -----------------------------
(***************************************************************************)
(* Proofs about module Dma and its history, for any number of channels and any *)
(* set-ups the program or a transfer may write.                            *)
(***************************************************************************)
EXTENDS Dma, SequenceTheorems, TLAPS

Fields == [dest : Dest, dest_latch : Dest, count : Nat, dest_adjust : Adjust,
           repeat : BOOLEAN, timing : Timing, irq_on_done : BOOLEAN, enabled : BOOLEAN]

(* A frame that dma_execute starts with is well formed. *)
LEMMA EnteredType ==
  ASSUME NEW c \in Ch, NEW dc \in Fields
  PROVE  /\ Entered(c, dc) \in Frame
         /\ Entered(c, dc).at = "write" /\ Entered(c, dc).ch = c
BY DmaAssumption DEF Entered, Frame, Fields

(* Loading the internal registers keeps their types. *)
LEMMA LoadedType ==
  ASSUME TypeOK, NEW c \in Ch, NEW s \in Setup
  PROVE  Loaded(c, s) \in Fields
BY DEF TypeOK, Loaded, Setup, Fields

(* The destination stays an address. *)
LEMMA AdjustedType ==
  ASSUME NEW dc \in Fields, NEW f \in BOOLEAN
  PROVE  Adjusted(dc, f) \in Dest
BY DmaAssumption DEF Adjusted, Fields, Dest, Adjust

(* So do reloading and ending. *)
LEMMA EndedType ==
  ASSUME NEW dc \in Fields, NEW f \in BOOLEAN
  PROVE  Ended(Reloaded(dc, f)) \in Fields
<1>1. Reloaded(dc, f) \in Fields  BY DEF Reloaded, Fields
<1> QED BY <1>1 DEF Ended, Fields

(* What the parts of TypeOK say of the stack: its top and the rest of it.  *)
Framed(q) == /\ q \in Seq(Frame)
             /\ \A i \in DOMAIN q : q[i].at = "adjust" => q[i].left > 0

(* The step of the innermost transfer changes no other frame. *)
LEMMA StepFramed ==
  ASSUME TypeOK, stack # <<>>, NEW at \in {"write", "adjust"}, NEW n \in Nat,
         at = "adjust" => n > 0
  PROVE  /\ Framed(Step(at, n)) /\ Len(Step(at, n)) = Len(stack)
         /\ \A i \in 1 .. Len(stack) : Step(at, n)[i].ch = stack[i].ch
<1>1. /\ stack \in Seq(Frame) /\ Len(stack) \in Nat /\ Len(stack) > 0
      /\ DOMAIN stack = 1 .. Len(stack)
      /\ \A i \in DOMAIN stack : stack[i] \in Frame
  BY DEF TypeOK
<1> DEFINE f == [ch |-> Top.ch, left |-> n, fifo |-> Top.fifo, at |-> at]
<1>2. Step(at, n) = [i \in 1 .. Len(stack) |-> IF i = Len(stack) THEN f ELSE stack[i]]
  BY <1>1 DEF Step
<1>3. f \in Frame /\ f.ch = stack[Len(stack)].ch /\ f.at = at /\ f.left = n
  BY <1>1 DEF Frame, Top
<1> HIDE DEF f
<1>4. Step(at, n) \in Seq(Frame) /\ Len(Step(at, n)) = Len(stack)
      /\ DOMAIN Step(at, n) = 1 .. Len(stack)
  <2>1. Step(at, n) = [stack EXCEPT ![Len(stack)] = f]  BY DEF Step, f
  <2> QED BY <1>1, <1>3, <2>1, ExceptSeq
<1> QED BY <1>1, <1>2, <1>3, <1>4 DEF Framed, TypeOK

(* A transfer that begins goes on top of the stack. *)
LEMMA AppendFramed ==
  ASSUME NEW q, Framed(q), NEW f \in Frame, f.at = "write"
  PROVE  /\ Framed(Append(q, f)) /\ Len(Append(q, f)) = Len(q) + 1
         /\ \A i \in 1 .. Len(q) : Append(q, f)[i] = q[i]
         /\ Append(q, f)[Len(q) + 1] = f
<1>1. q \in Seq(Frame) /\ Len(q) \in Nat /\ DOMAIN q = 1 .. Len(q)  BY DEF Framed
<1>2. /\ Append(q, f) \in Seq(Frame) /\ Len(Append(q, f)) = Len(q) + 1
      /\ DOMAIN Append(q, f) = 1 .. Len(q) + 1
      /\ \A i \in 1 .. Len(q) : Append(q, f)[i] = q[i]
      /\ Append(q, f)[Len(q) + 1] = f
  BY <1>1
<1> QED BY <1>1, <1>2 DEF Framed

(* A transfer that ends leaves the frames below as they are. *)
LEMMA BelowFramed ==
  ASSUME TypeOK, stack # <<>>
  PROVE  /\ Framed(Below) /\ Len(Below) = Len(stack) - 1
         /\ \A i \in 1 .. Len(stack) - 1 : Below[i] = stack[i]
<1>1. /\ stack \in Seq(Frame) /\ Len(stack) \in Nat /\ Len(stack) > 0
      /\ DOMAIN stack = 1 .. Len(stack)
  BY DEF TypeOK
<1> DEFINE n == Len(stack) - 1
<1>2. n \in Nat /\ n - 1 + 1 = n /\ \A i \in 1 .. n : stack[i] \in Frame
  BY <1>1
<1>3. /\ SubSeq(stack, 1, n) \in Seq(Frame)
      /\ Len(SubSeq(stack, 1, n)) = IF 1 <= n THEN n - 1 + 1 ELSE 0
      /\ \A i \in 1 .. n - 1 + 1 : SubSeq(stack, 1, n)[i] = stack[1 + i - 1]
  <2> HIDE DEF n
  <2> QED BY <1>2, SubSeqProperties
<1>4. Below \in Seq(Frame) /\ Len(Below) = n
  BY <1>2, <1>3 DEF Below
<1>5. ASSUME NEW i \in 1 .. n PROVE Below[i] = stack[i]
  BY <1>2, <1>3 DEF Below
<1>6. ASSUME NEW i \in DOMAIN Below
      PROVE  Below[i].at = "adjust" => Below[i].left > 0
  <2>1. i \in 1 .. n /\ i \in DOMAIN stack  BY <1>1, <1>2, <1>4
  <2> QED BY <1>5, <2>1 DEF TypeOK
<1> QED BY <1>4, <1>5, <1>6 DEF Framed

(* The innermost transfer. *)
LEMMA TopType ==
  ASSUME TypeOK, stack # <<>>
  PROVE  /\ Top \in Frame /\ (Top.at = "adjust" => Top.left > 0)
         /\ Len(stack) \in DOMAIN stack
BY DEF TypeOK, Top

(* The initial state is of its type. *)
LEMMA DmaInitType == Init => TypeOK
BY DmaAssumption DEF Init, TypeOK, Ch, Dest, Adjust, Timing, None, NoScan

(* A write to a control register, whoever makes it. *)
LEMMA WriteType ==
  ASSUME TypeOK, NEW c \in Ch, NEW s \in Setup, NEW q, Framed(q),
         dma_write_control(c, s, q)
  PROVE  /\ channels' \in [Ch -> Fields] /\ io_enable' \in [Ch -> BOOLEAN]
         /\ active_channel' \in Ch \cup {None} /\ Framed(stack')
<1>1. Loaded(c, s) \in Fields  BY LoadedType
<1>2. /\ Entered(c, Loaded(c, s)) \in Frame
      /\ Entered(c, Loaded(c, s)).at = "write"
  BY <1>1, EnteredType
<1>3. channels' \in [Ch -> Fields]
  BY <1>1 DEF dma_write_control, TypeOK, Fields
<1>4. io_enable' \in [Ch -> BOOLEAN]
  BY DEF dma_write_control, TypeOK, Setup
<1>5. active_channel' \in Ch \cup {None}
  BY DEF dma_write_control, TypeOK
<1>6. Framed(stack')
  BY <1>2, AppendFramed DEF dma_write_control
<1> QED BY <1>3, <1>4, <1>5, <1>6

(* Every step keeps the types. *)
LEMMA DmaNextType ==
  ASSUME TypeOK, [Next]_vars
  PROVE  TypeOK'
<1> USE DmaAssumption
<1>a. /\ channels \in [Ch -> Fields] /\ io_enable \in [Ch -> BOOLEAN]
      /\ active_channel \in Ch \cup {None} /\ irf \subseteq Ch /\ Framed(stack)
      /\ scan \in [kind : {"none", "vblank", "hblank"}, next : 0 .. LastCh + 1]
  BY DEF TypeOK, Fields, Framed
<1>q. SUFFICES /\ channels' \in [Ch -> Fields] /\ io_enable' \in [Ch -> BOOLEAN]
               /\ active_channel' \in Ch \cup {None} /\ irf' \subseteq Ch
               /\ Framed(stack')
               /\ scan' \in [kind : {"none", "vblank", "hblank"}, next : 0 .. LastCh + 1]
  BY DEF TypeOK, Fields, Framed
<1>e. ASSUME NEW c \in Ch, dma_execute(c)
      PROVE  Framed(stack') /\ active_channel' \in Ch \cup {None}
  <2>1. /\ channels[c] \in Fields
        /\ stack' = Append(stack, Entered(c, channels[c])) /\ active_channel' = c
    BY <1>a, <1>e DEF dma_execute
  <2>2. Entered(c, channels[c]) \in Frame /\ Entered(c, channels[c]).at = "write"
    BY <2>1, EnteredType
  <2>3. Framed(Append(stack, Entered(c, channels[c])))
    BY <1>a, <2>2, AppendFramed
  <2> QED BY <2>1, <2>3
<1>1. CASE MoveUnit
  <2>1. Top \in Frame /\ stack # <<>> /\ Top.left > 0
        /\ channels[Top.ch].dest \in Dest
    BY <1>1, <1>a, TopType DEF MoveUnit, Frame, Fields
  <2>2. Framed(Step("adjust", Top.left))  BY <2>1, StepFramed DEF Frame
  <2>3. CASE ~IsControl(channels[Top.ch].dest)
    BY <1>1, <1>a, <2>2, <2>3 DEF MoveUnit
  <2>4. CASE IsControl(channels[Top.ch].dest)
    <3>1. PICK s \in DmaSetups :
            dma_write_control(channels[Top.ch].dest, s, Step("adjust", Top.left))
      BY <1>1, <2>4 DEF MoveUnit
    <3>2. s \in Setup  BY <3>1
    <3> QED BY <1>1, <1>a, <2>2, <2>4, <3>1, <3>2, WriteType DEF MoveUnit, IsControl
  <2> QED BY <2>3, <2>4
<1>2. CASE AdjustAddress
  <2>1. Top \in Frame /\ stack # <<>> /\ Top.left > 0
    BY <1>2, <1>a, TopType DEF AdjustAddress
  <2>2. Framed(stack')
    BY <1>2, <2>1, StepFramed DEF Frame, AdjustAddress
  <2>3. Adjusted(channels[Top.ch], Top.fifo) \in Dest
    BY <1>a, <2>1, AdjustedType DEF Frame
  <2>4. channels' \in [Ch -> Fields]
    BY <1>2, <1>a, <2>1, <2>3 DEF AdjustAddress, Frame, Fields
  <2> QED BY <1>2, <1>a, <2>2, <2>4 DEF AdjustAddress
<1>3. CASE Finish
  <2>1. Top \in Frame /\ stack # <<>>
    BY <1>3, <1>a, TopType DEF Finish
  <2>2. Framed(stack')  BY <1>3, <2>1, BelowFramed DEF Finish
  <2>3. Ended(Reloaded(channels[Top.ch], Top.fifo)) \in Fields
    BY <1>a, <2>1, EndedType DEF Frame
  <2>4. channels' \in [Ch -> Fields] /\ io_enable' \in [Ch -> BOOLEAN] /\ irf' \subseteq Ch
    BY <1>3, <1>a, <2>1, <2>3 DEF Finish, Frame, Fields, Stays
  <2> QED BY <1>3, <1>a, <2>2, <2>4 DEF Finish
<1>4. CASE ScanNext
  <2>1. scan' \in [kind : {"none", "vblank", "hblank"}, next : 0 .. LastCh + 1]
    BY <1>4, <1>a DEF ScanNext, Ch
  <2> QED BY <1>4, <1>a, <1>e, <2>1 DEF ScanNext
<1>5. CASE ScanEnds  BY <1>5, <1>a DEF ScanEnds, NoScan
<1>6. CASE System
  <2>1. CASE \E k \in {"vblank", "hblank"} : Trigger(k)
    BY <1>a, <2>1 DEF Trigger
  <2>2. CASE \E f \in 0..1 : dma_on_fifo(f)
    BY <1>a, <1>e, <2>2 DEF dma_on_fifo
  <2> QED BY <1>6, <2>1, <2>2 DEF System
<1>7. CASE Program
  <2>1. CASE \E c \in Ch : Acknowledge(c)
    BY <1>a, <2>1 DEF Acknowledge
  <2>2. ASSUME NEW c \in Ch, NEW s \in CpuSetups, CpuWrite(c, s)
        PROVE  /\ channels' \in [Ch -> Fields] /\ io_enable' \in [Ch -> BOOLEAN]
               /\ active_channel' \in Ch \cup {None} /\ Framed(stack')
               /\ irf' = irf /\ scan' = scan
    <3>1. s \in Setup  OBVIOUS
    <3> QED BY <1>a, <2>2, <3>1, WriteType DEF CpuWrite
  <2>3. CASE RegisterRamReset
    BY <1>a, <2>3 DEF RegisterRamReset
  <2> QED BY <1>7, <1>a, <2>1, <2>2, <2>3 DEF Program
<1>8. CASE UNCHANGED vars  BY <1>a, <1>8 DEF vars
<1> QED BY <1>1, <1>2, <1>3, <1>4, <1>5, <1>6, <1>7, <1>8 DEF Next, Transfer

-----------------------------------------------------------------------------
(* With the history *)

(* A channel with a frame on the stack is on, unless a write stopped it.   *)
OnOrStopped == \A i \in DOMAIN stack :
                 channels[stack[i].ch].enabled \/ stack[i].ch \in stopped

HInv == TypeOK /\ OnOrStopped /\ EnteredOnce

(* The invariant holds initially. *)
LEMMA HInitInv == HInit => HInv
BY DmaInitType DEF HInit, HInv, OnOrStopped, EnteredOnce, Init

(* A step keeps the channels on the stack, or it ends the last of them and *)
(* touches no other, or it adds one that was off.                          *)
Kept(q) == /\ Len(q) = Len(stack)
           /\ \A i \in 1 .. Len(stack) : q[i].ch = stack[i].ch
Popped(q) == /\ Len(stack) > 0 /\ Len(q) = Len(stack) - 1
             /\ \A i \in 1 .. Len(stack) - 1 : q[i].ch = stack[i].ch
             /\ \A c \in Ch : c # Top.ch => channels'[c] = channels[c]
Added(q) == /\ Len(q) = Len(stack) + 1
            /\ \A i \in 1 .. Len(stack) : q[i].ch = stack[i].ch
            /\ stack = <<>> \/ ~channels[q[Len(q)].ch].enabled
            /\ channels'[q[Len(q)].ch].enabled
Moves(q) == Kept(q) \/ Popped(q) \/ Added(q)

(* A write to a control register starts at most one channel, one that was off. *)
LEMMA WriteMoves ==
  ASSUME TypeOK, NEW c \in Ch, NEW s \in Setup, NEW q, Framed(q),
         Len(q) = Len(stack), \A i \in 1 .. Len(q) : q[i].ch = stack[i].ch,
         dma_write_control(c, s, q)
  PROVE  Moves(stack')
<1>1. /\ stack \in Seq(Frame) /\ Len(stack) \in Nat /\ DOMAIN stack = 1 .. Len(stack)
      /\ DOMAIN q = 1 .. Len(q)
  BY DEF TypeOK, Framed
<1>2. CASE ~Starts(c, s)
  <2>1. stack' = q  BY <1>2 DEF dma_write_control
  <2>2. Kept(stack')  BY <1>1, <2>1 DEF Kept
  <2> QED BY <2>2 DEF Moves
<1>3. CASE Starts(c, s)
  <2>1. Loaded(c, s) \in Fields  BY LoadedType
  <2>2. /\ Entered(c, Loaded(c, s)) \in Frame
        /\ Entered(c, Loaded(c, s)).at = "write" /\ Entered(c, Loaded(c, s)).ch = c
    BY <2>1, EnteredType
  <2>3. /\ Len(stack') = Len(q) + 1 /\ \A i \in 1 .. Len(q) : stack'[i] = q[i]
        /\ stack'[Len(q) + 1].ch = c
    BY <1>3, <2>2, AppendFramed DEF dma_write_control
  <2>4. ~channels[c].enabled /\ channels'[c].enabled
    BY <1>3 DEF Starts, dma_write_control, Loaded, TypeOK
  <2>5. Added(stack')  BY <1>1, <2>3, <2>4 DEF Added
  <2> QED BY <2>5 DEF Moves
<1> QED BY <1>2, <1>3

(* Every step moves the stack in one of the three ways. *)
LEMMA NextMoves ==
  ASSUME TypeOK, Next
  PROVE  Moves(stack')
<1> USE DmaAssumption
<1>a. /\ channels \in [Ch -> Fields] /\ Framed(stack)
      /\ stack \in Seq(Frame) /\ Len(stack) \in Nat /\ DOMAIN stack = 1 .. Len(stack)
  BY DEF TypeOK, Fields, Framed
<1>e. ASSUME NEW c \in Ch, stack = <<>>, channels[c].enabled, channels' = channels,
             dma_execute(c)
      PROVE  Moves(stack')
  <2>1. Entered(c, channels[c]) \in Frame /\ Entered(c, channels[c]).ch = c
        /\ Entered(c, channels[c]).at = "write"
    BY <1>a, EnteredType
  <2>2. Len(stack') = Len(stack) + 1 /\ stack'[Len(stack) + 1].ch = c
    BY <1>a, <1>e, <2>1, AppendFramed DEF dma_execute
  <2>3. Added(stack')  BY <1>e, <2>2 DEF Added
  <2> QED BY <2>3 DEF Moves
<1>u. ASSUME stack' = stack PROVE Moves(stack')
  <2>1. Kept(stack')  BY <1>a, <1>u DEF Kept
  <2> QED BY <2>1 DEF Moves
<1>1. CASE MoveUnit
  <2>1. Top \in Frame /\ stack # <<>> /\ Top.left > 0
        /\ channels[Top.ch].dest \in Dest
    BY <1>1, <1>a, TopType DEF MoveUnit, Frame, Fields
  <2> DEFINE q == Step("adjust", Top.left)
  <2>2. /\ Framed(q) /\ Len(q) = Len(stack)
        /\ \A i \in 1 .. Len(q) : q[i].ch = stack[i].ch
    BY <2>1, StepFramed DEF Frame
  <2>3. CASE ~IsControl(channels[Top.ch].dest)
    <3>1. stack' = q  BY <1>1, <2>3 DEF MoveUnit
    <3> HIDE DEF q
    <3>2. Kept(stack')  BY <1>a, <2>2, <3>1 DEF Kept
    <3> QED BY <3>2 DEF Moves
  <2>4. CASE IsControl(channels[Top.ch].dest)
    <3>1. PICK s \in DmaSetups : dma_write_control(channels[Top.ch].dest, s, q)
      BY <1>1, <2>4 DEF MoveUnit
    <3>2. s \in Setup  BY <3>1
    <3> HIDE DEF q
    <3> QED BY <2>2, <2>4, <3>1, <3>2, WriteMoves DEF IsControl
  <2> QED BY <2>3, <2>4
<1>2. CASE AdjustAddress
  <2>1. Top \in Frame /\ stack # <<>> /\ Top.left > 0
    BY <1>2, <1>a, TopType DEF AdjustAddress
  <2>2. /\ Framed(stack') /\ Len(stack') = Len(stack)
        /\ \A i \in 1 .. Len(stack) : stack'[i].ch = stack[i].ch
    BY <1>2, <2>1, StepFramed DEF Frame, AdjustAddress
  <2>3. Kept(stack')  BY <1>a, <2>2 DEF Kept
  <2> QED BY <2>3 DEF Moves
<1>3. CASE Finish
  <2>1. /\ Framed(stack') /\ Len(stack') = Len(stack) - 1
        /\ \A i \in 1 .. Len(stack) - 1 : stack'[i] = stack[i]
    BY <1>3, BelowFramed DEF Finish
  <2>2. \A c \in Ch : c # Top.ch => channels'[c] = channels[c]
    BY <1>3, <1>a DEF Finish
  <2>3. Len(stack) > 0  BY <1>3, <1>a DEF Finish
  <2>4. Popped(stack')  BY <2>1, <2>2, <2>3 DEF Popped
  <2> QED BY <2>4 DEF Moves
<1>4. CASE ScanNext  BY <1>4, <1>e, <1>u DEF ScanNext
<1>5. CASE ScanEnds  BY <1>5, <1>u DEF ScanEnds
<1>6. CASE System
  BY <1>6, <1>e, <1>u DEF System, Trigger, dma_on_fifo, Resting
<1>7. CASE Program
  <2>1. CASE \E c \in Ch : Acknowledge(c)
    BY <1>u, <2>1 DEF Acknowledge
  <2>2. ASSUME NEW c \in Ch, NEW s \in CpuSetups, CpuWrite(c, s)
        PROVE  Moves(stack')
    <3>1. s \in Setup  OBVIOUS
    <3> QED BY <1>a, <2>2, <3>1, WriteMoves DEF CpuWrite
  <2>3. CASE RegisterRamReset
    BY <1>u, <2>3 DEF RegisterRamReset
  <2> QED BY <1>7, <2>1, <2>2, <2>3 DEF Program
<1> QED BY <1>1, <1>2, <1>3, <1>4, <1>5, <1>6, <1>7 DEF Next, Transfer

(* Every step keeps the invariant. *)
LEMMA HNextInv ==
  ASSUME HInv, [HNext]_hvars
  PROVE  HInv'
<1>1. CASE UNCHANGED hvars
  <2>1. TypeOK'  BY <1>1, DmaNextType DEF HInv, hvars
  <2> QED BY <1>1, <2>1 DEF HInv, OnOrStopped, EnteredOnce, hvars, vars
<1>2. CASE HNext
  <2>a. TypeOK /\ OnOrStopped /\ EnteredOnce /\ Next /\ Record
    BY <1>2 DEF HInv, HNext
  <2>b. TypeOK'  BY <2>a, DmaNextType
  <2>c. /\ Len(stack) \in Nat /\ DOMAIN stack = 1 .. Len(stack)
        /\ Len(stack') \in Nat /\ DOMAIN stack' = 1 .. Len(stack')
        /\ \A i \in DOMAIN stack : stack[i] \in Frame
    BY <2>a, <2>b DEF TypeOK
  <2>d. Moves(stack')  BY <2>a, NextMoves
  <2>e. ASSUME stack' # <<>> PROVE stopped \subseteq stopped'
    BY <2>a, <2>e DEF Record, Stopped
  \* A channel that a step switches off without ending it is noted.
  <2>f. ASSUME NEW i \in DOMAIN stack, stack' # <<>>, Len(stack') >= Len(stack),
               channels[stack[i].ch].enabled, ~channels'[stack[i].ch].enabled
        PROVE  stack[i].ch \in stopped'
    BY <2>a, <2>f DEF Record, Stopped, Running
  <2>3. ASSUME NEW i \in DOMAIN stack'
        PROVE  channels'[stack'[i].ch].enabled \/ stack'[i].ch \in stopped'
    <3>1. stack' # <<>>  BY <2>c, <2>3
    <3>2. ASSUME i \in DOMAIN stack, stack'[i].ch = stack[i].ch, Len(stack') >= Len(stack)
          PROVE  channels'[stack'[i].ch].enabled \/ stack'[i].ch \in stopped'
      BY <2>a, <2>e, <2>f, <3>1, <3>2 DEF OnOrStopped
    <3>3. CASE Kept(stack')  BY <2>c, <3>2, <3>3 DEF Kept
    <3>4. CASE Added(stack')
      <4>1. CASE i = Len(stack')  BY <3>4, <4>1 DEF Added
      <4>2. CASE i # Len(stack')
        <5>1. i \in DOMAIN stack /\ stack'[i].ch = stack[i].ch /\ Len(stack') >= Len(stack)
          BY <2>c, <3>4, <4>2 DEF Added
        <5> QED BY <3>2, <5>1
      <4> QED BY <4>1, <4>2
    <3>5. CASE Popped(stack')
      <4>1. /\ i \in DOMAIN stack /\ i # Len(stack) /\ Len(stack) \in DOMAIN stack
            /\ stack'[i].ch = stack[i].ch
        BY <2>c, <3>5 DEF Popped
      <4>2. stack[i].ch \in Ch  BY <2>c, <4>1 DEF Frame
      <4>3. CASE stack[i].ch = Top.ch
        <5>1. stack[i].ch \in stopped  BY <2>a, <4>1, <4>3 DEF EnteredOnce, Top
        <5> QED BY <2>e, <3>1, <4>1, <5>1
      <4>4. CASE stack[i].ch # Top.ch
        <5>1. channels'[stack[i].ch] = channels[stack[i].ch]
          BY <3>5, <4>2, <4>4 DEF Popped
        <5> QED BY <2>a, <2>e, <3>1, <4>1, <5>1 DEF OnOrStopped
      <4> QED BY <4>3, <4>4
    <3> QED BY <2>d, <3>3, <3>4, <3>5 DEF Moves
  <2>4. ASSUME NEW i \in DOMAIN stack', NEW j \in DOMAIN stack', i < j,
               stack'[i].ch = stack'[j].ch
        PROVE  stack'[i].ch \in stopped'
    <3>1. stack' # <<>>  BY <2>c, <2>4
    <3>2. ASSUME i \in DOMAIN stack, stack'[i].ch = stack[i].ch,
                 j \in DOMAIN stack, stack'[j].ch = stack[j].ch
          PROVE  stack'[i].ch \in stopped'
      <4>1. i # j  BY <2>c, <2>4
      <4>2. stack[i].ch \in stopped  BY <2>a, <2>4, <3>2, <4>1 DEF EnteredOnce
      <4> QED BY <2>e, <3>1, <3>2, <4>2
    <3>3. CASE Kept(stack')  BY <2>c, <3>2, <3>3 DEF Kept
    <3>4. CASE Popped(stack')  BY <2>c, <3>2, <3>4 DEF Popped
    <3>5. CASE Added(stack')
      <4>1. i \in DOMAIN stack /\ stack'[i].ch = stack[i].ch /\ stack # <<>>
        BY <2>c, <2>4, <3>5 DEF Added
      <4>2. CASE j = Len(stack')
        <5>1. ~channels[stack[i].ch].enabled
          BY <2>4, <3>5, <4>1, <4>2 DEF Added
        <5> QED BY <2>a, <2>e, <3>1, <4>1, <5>1 DEF OnOrStopped
      <4>3. CASE j # Len(stack')
        <5>1. j \in DOMAIN stack /\ stack'[j].ch = stack[j].ch
          BY <2>c, <3>5, <4>3 DEF Added
        <5> QED BY <3>2, <4>1, <5>1
      <4> QED BY <4>2, <4>3
    <3> QED BY <2>d, <3>3, <3>4, <3>5 DEF Moves
  <2>5. EnteredOnce'
    <3> SUFFICES ASSUME NEW i \in DOMAIN stack', NEW j \in DOMAIN stack', i # j,
                        stack'[i].ch = stack'[j].ch
                 PROVE  stack'[i].ch \in stopped'
      BY DEF EnteredOnce
    <3>1. i < j \/ j < i  BY <2>c
    <3> QED BY <2>4, <3>1
  <2> QED BY <2>b, <2>3, <2>5 DEF HInv, OnOrStopped
<1> QED BY <1>1, <1>2

-----------------------------------------------------------------------------
(* The fields of the channels and the frames of dma_execute stay in range. *)
THEOREM DmaTypeCorrect == Spec => []TypeOK
BY DmaInitType, DmaNextType, PTL DEF Spec

(* No runaway recursion in dma_execute: a channel is entered twice only    *)
(* after a write has switched it off while it was running.                 *)
THEOREM DmaEnteredOnce == HSpec => []EnteredOnce
<1>1. HInv => EnteredOnce  BY DEF HInv
<1> QED BY <1>1, HInitInv, HNextInv, PTL DEF HSpec

-----------------------------------------------------------------------------
(* The loops of dma_on_vblank and dma_on_hblank *)

(* A channel that is due is still armed for the trigger and ahead of the   *)
(* loop, whatever the transfers already served have written.               *)
DueAhead ==
  scan.kind # "none" =>
    \A c \in due : /\ c \in Ch /\ scan.next <= c
                   /\ channels[c].enabled /\ channels[c].timing = scan.kind

(* What a step does to the trigger's loop. *)
LEMMA NextScan ==
  ASSUME Next
  PROVE  \/ scan' = scan
         \/ \E k \in {"vblank", "hblank"} : Trigger(k)
         \/ ScanNext \/ ScanEnds
<1>1. CASE Transfer
  BY <1>1 DEF Transfer, MoveUnit, AdjustAddress, Finish
<1>2. CASE System
  BY <1>2 DEF System, dma_on_fifo
<1>3. CASE Program
  BY <1>3 DEF Program, Acknowledge, CpuWrite, RegisterRamReset
<1> QED BY <1>1, <1>2, <1>3 DEF Next

(* Every step keeps what is due ahead of the loop. *)
LEMMA StepDueAhead ==
  ASSUME TypeOK, DueAhead, [HNext]_hvars
  PROVE  DueAhead'
<1> USE DmaAssumption
<1>1. CASE UNCHANGED hvars
  BY <1>1 DEF DueAhead, hvars, vars
<1>2. ASSUME NEW k \in {"vblank", "hblank"}, Trigger(k), Record
      PROVE  DueAhead'
  <2>1. /\ scan.kind = "none" /\ scan'.kind = k /\ scan'.next = 0 /\ channels' = channels
    BY <1>2 DEF Trigger, Resting, NoScan
  <2>2. due' = Armed(k)
    BY <1>2, <2>1 DEF Record
  <2>3. \A c \in due' : /\ c \in Ch /\ 0 <= c
                       /\ channels[c].enabled /\ channels[c].timing = k
    BY <2>2 DEF Armed, Ch
  <2> QED BY <2>1, <2>3 DEF DueAhead
<1>3. ASSUME ScanNext, Record
      PROVE  DueAhead'
  <2>1. /\ scan.kind # "none" /\ stack = <<>> /\ scan.next \in Ch /\ channels' = channels
        /\ scan'.kind = scan.kind /\ scan'.next = scan.next + 1
    BY <1>3 DEF ScanNext, TypeOK
  <2>2. due' = (due \ Disarmed) \ {stack'[i].ch : i \in DOMAIN stack'}
    BY <1>3, <2>1 DEF Record
  <2>3. scan.next \notin due'
    <3>1. CASE channels[scan.next].enabled /\ channels[scan.next].timing = scan.kind
      <4>1. stack' = Append(<<>>, Entered(scan.next, channels[scan.next]))
        BY <1>3, <2>1, <3>1 DEF ScanNext, dma_execute
      <4>2. 1 \in DOMAIN stack' /\ stack'[1].ch = scan.next
        BY <4>1 DEF Entered
      <4> QED BY <2>2, <4>2
    <3>2. CASE ~(channels[scan.next].enabled /\ channels[scan.next].timing = scan.kind)
      BY <2>1, <2>2, <3>2 DEF DueAhead
    <3> QED BY <3>1, <3>2
  <2>4. ASSUME NEW c \in due'
        PROVE  /\ c \in Ch /\ scan.next + 1 <= c
               /\ channels[c].enabled /\ channels[c].timing = scan.kind
    <3>1. /\ c \in Ch /\ scan.next <= c /\ c # scan.next
          /\ channels[c].enabled /\ channels[c].timing = scan.kind
      BY <2>1, <2>2, <2>3, <2>4 DEF DueAhead
    <3>2. scan.next + 1 <= c
      BY <2>1, <3>1 DEF Ch
    <3> QED BY <3>1, <3>2
  <2> QED BY <2>1, <2>4 DEF DueAhead
<1>4. ASSUME ScanEnds
      PROVE  DueAhead'
  BY <1>4 DEF ScanEnds, NoScan, DueAhead
<1>5. ASSUME scan' = scan, Record
      PROVE  DueAhead'
  <2> SUFFICES ASSUME scan.kind # "none", NEW c \in due'
               PROVE  /\ c \in Ch /\ scan.next <= c
                      /\ channels'[c].enabled /\ channels'[c].timing = scan.kind
    BY <1>5 DEF DueAhead
  <2>1. c \in due /\ c \notin Disarmed
    BY <1>5 DEF Record
  <2>2. /\ c \in Ch /\ scan.next <= c
        /\ channels[c].enabled /\ channels[c].timing = scan.kind
    BY <2>1 DEF DueAhead
  <2>3. channels'[c].timing = channels[c].timing /\ channels'[c].enabled
    BY <2>1, <2>2 DEF Disarmed
  <2> QED BY <2>2, <2>3
<1>6. CASE HNext
  BY <1>2, <1>3, <1>4, <1>5, <1>6, NextScan DEF HNext
<1> QED BY <1>1, <1>6

(* A trigger serves every channel that was armed when it came, unless a    *)
(* transfer disarmed it meanwhile: for any number of channels and any      *)
(* set-ups, also those that rewrite the channels ahead of the loop.        *)
THEOREM DmaTriggerServesAll == HSpec => []TriggerServesAll
<1>1. HInit => DueAhead
  BY DEF HInit, Init, NoScan, DueAhead
<1>2. TypeOK /\ DueAhead => TriggerServesAll
  <2> SUFFICES ASSUME TypeOK, DueAhead, scan.kind # "none", scan.next \notin Ch,
                      NEW c \in due
               PROVE  FALSE
    BY DEF TriggerServesAll
  <2>1. scan.next \in 0 .. LastCh + 1 /\ c \in Ch /\ scan.next <= c
    BY DEF TypeOK, DueAhead
  <2> QED BY <2>1, DmaAssumption DEF Ch
<1>3. HInv => TypeOK  BY DEF HInv
<1> QED BY <1>1, <1>2, <1>3, HInitInv, HNextInv, StepDueAhead, PTL DEF HSpec
=============================================================================
