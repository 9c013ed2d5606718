-------------------------------- MODULE Dma ---------------------------------
(***************************************************************************)
(* The DMA controller of memory/dma.c.  A transfer runs to its end inside  *)
(* the call that starts it; but each unit it moves is a bus write, and a   *)
(* write to the CNT_H of a channel calls dma_write_control again.  So      *)
(* transfers nest, and the frames of dma_execute are a stack here.         *)
(*                                                                         *)
(* A destination is the control register of a channel, or it is memory     *)
(* (the FIFOs, which a transfer may also feed, are in SoundFifo).  Source  *)
(* addresses and the transfer width only select data and are left out; so  *)
(* are the values of SAD, DAD and CNT_L before CNT_H is written, since     *)
(* nothing reads them until then: a write brings a whole set-up.           *)
(***************************************************************************)
EXTENDS Naturals, Sequences

CONSTANTS LastCh,       \* channels 0 to LastCh (3)
          Units,        \* memory destinations: this many units after the registers
          FullCount,    \* units moved when the count register is 0, by channel
          FifoWords,    \* units of a FIFO transfer (4)
          CpuSetups,    \* the set-ups the program writes
          DmaSetups     \* the set-ups a transfer writes

Ch == 0..LastCh
Timing == {"immediate", "vblank", "hblank", "special"}
Adjust == {"increment", "decrement", "fixed", "reload"}

(* Where a channel writes: c is the CNT_H of channel c, the rest is memory.*)
Dest == 0 .. LastCh + Units
IsControl(d) == d \in Ch

Setup == [dest : Dest, count : Nat, dest_adjust : Adjust, repeat : BOOLEAN,
          timing : Timing, irq_on_done : BOOLEAN, enabled : BOOLEAN]

ASSUME DmaAssumption ==
  /\ LastCh \in Nat /\ Units \in Nat
  /\ FullCount \in [Ch -> Nat] /\ FifoWords \in Nat
  /\ CpuSetups \subseteq Setup /\ DmaSetups \subseteq Setup

VARIABLES channels,        \* the decoded fields of DMAChannel
          io_enable,       \* bit 7 of CNT_H's high byte in io_regs
          active_channel,  \* -1 is None
          irf,             \* the channels whose interrupt is requested
          stack,           \* the activations of dma_execute, innermost last
          scan             \* the loop of dma_on_vblank, dma_on_hblank

vars == <<channels, io_enable, active_channel, irf, stack, scan>>

None == LastCh + 1
Frame == [ch : Ch, left : Nat, fifo : BOOLEAN, at : {"write", "adjust"}]
NoScan == [kind |-> "none", next |-> 0]
Resting == stack = <<>> /\ scan = NoScan

(* dma_init. *)
Init == /\ channels = [c \in Ch |-> [dest |-> 0, dest_latch |-> 0, count |-> 0,
                         dest_adjust |-> "increment", repeat |-> FALSE,
                         timing |-> "immediate", irq_on_done |-> FALSE,
                         enabled |-> FALSE]]
        /\ io_enable = [c \in Ch |-> FALSE]
        /\ active_channel = None
        /\ irf = {} /\ stack = <<>> /\ scan = NoScan

-----------------------------------------------------------------------------
(* dma_execute's prologue, for a channel whose fields are dc: it uses      *)
(* copies of the count and of the FIFO case from here on.                  *)
Entered(c, dc) ==
  LET fifo == dc.timing = "special" /\ c \in {1, 2} IN
  [ch |-> c, fifo |-> fifo, at |-> "write",
   left |-> IF fifo THEN FifoWords
            ELSE IF dc.count = 0 THEN FullCount[c] ELSE dc.count]

(* The new fields of channel c: the destination is taken over on a rising  *)
(* edge of the enable bit only, its latch always.                          *)
Loaded(c, s) ==
  LET rising == ~channels[c].enabled /\ s.enabled IN
  [dest |-> IF rising THEN s.dest ELSE channels[c].dest, dest_latch |-> s.dest,
   count |-> s.count, dest_adjust |-> s.dest_adjust, repeat |-> s.repeat,
   timing |-> s.timing, irq_on_done |-> s.irq_on_done, enabled |-> s.enabled]

\* Mutant: an immediate transfer starts on every write, not on the rising edge.
StartsAlways(c, s) == s.enabled /\ s.timing = "immediate"

(* Whether dma_write_control goes on to dma_execute. *)
Starts(c, s) == /\ ~channels[c].enabled /\ s.enabled
                /\ s.timing = "immediate"

\* Mutant: a transfer counts with the register, which a write sets anew.
dma_write_control_live(c, s, frames) ==
  LET live == [i \in DOMAIN frames |-> IF frames[i].ch = c /\ frames[i].left > 0
                                       THEN [frames[i] EXCEPT !.left = s.count + 1]
                                       ELSE frames[i]] IN
  /\ channels'  = [channels  EXCEPT ![c] = Loaded(c, s)]
  /\ io_enable' = [io_enable EXCEPT ![c] = s.enabled]
  /\ IF Starts(c, s) THEN /\ stack' = Append(live, Entered(c, Loaded(c, s)))
                          /\ active_channel' = c
     ELSE stack' = live /\ UNCHANGED active_channel

(* A write of CNT_H (bus.c) with s in the registers of channel c, made by  *)
(* the innermost of frames or, when there is none, by the program.         *)
dma_write_control(c, s, frames) ==
  /\ channels'  = [channels  EXCEPT ![c] = Loaded(c, s)]
  /\ io_enable' = [io_enable EXCEPT ![c] = s.enabled]
  /\ IF Starts(c, s) THEN /\ stack' = Append(frames, Entered(c, Loaded(c, s)))
                          /\ active_channel' = c
     ELSE stack' = frames /\ UNCHANGED active_channel

-----------------------------------------------------------------------------
(* dma_execute.                                                            *)

Top == stack[Len(stack)]
Below == SubSeq(stack, 1, Len(stack) - 1)
Step(at, left) == [stack EXCEPT ![Len(stack)] =
                     [ch |-> Top.ch, left |-> left, fifo |-> Top.fifo, at |-> at]]

(* One unit is written, to memory or to a control register. *)
MoveUnit ==
  /\ stack # <<>> /\ Top.at = "write" /\ Top.left > 0
  /\ LET d == channels[Top.ch].dest IN
     \/ /\ ~IsControl(d)
        /\ stack' = Step("adjust", Top.left)
        /\ UNCHANGED <<channels, io_enable, active_channel>>
     \/ /\ IsControl(d)
        /\ \E s \in DmaSetups : dma_write_control(d, s, Step("adjust", Top.left))
  /\ UNCHANGED <<irf, scan>>

(* The switches on the adjust fields, after the write has returned; the    *)
(* address space is a ring.                                                *)
Adjusted(dc, fifo) ==
  IF fifo THEN dc.dest
  ELSE CASE dc.dest_adjust \in {"increment", "reload"} ->
              IF dc.dest = LastCh + Units THEN 0 ELSE dc.dest + 1
         [] dc.dest_adjust = "decrement" ->
              IF dc.dest = 0 THEN LastCh + Units ELSE dc.dest - 1
         [] dc.dest_adjust = "fixed" -> dc.dest

AdjustAddress ==
  /\ stack # <<>> /\ Top.at = "adjust"
  /\ channels' = [channels EXCEPT ![Top.ch].dest = Adjusted(channels[Top.ch], Top.fifo)]
  /\ stack' = Step("write", Top.left - 1)
  /\ UNCHANGED <<io_enable, active_channel, irf, scan>>

(* After the last unit: reload, interrupt, and off unless it repeats.      *)
Stays(dc) == dc.repeat /\ dc.timing # "immediate"
Reloaded(dc, fifo) == IF dc.dest_adjust = "reload" /\ ~fifo
                      THEN [dc EXCEPT !.dest = dc.dest_latch] ELSE dc
Ended(dc) == IF Stays(dc) THEN dc ELSE [dc EXCEPT !.enabled = FALSE]

Finish ==
  /\ stack # <<>> /\ Top.at = "write" /\ Top.left = 0
  /\ LET c  == Top.ch
         dc == channels[c]
     IN /\ channels'  = [channels  EXCEPT ![c] = Ended(Reloaded(dc, Top.fifo))]
        /\ io_enable' = [io_enable EXCEPT ![c] = Stays(dc) /\ @]
        /\ irf' = IF dc.irq_on_done THEN irf \cup {c} ELSE irf
  /\ active_channel' = None
  /\ stack' = Below
  /\ UNCHANGED scan

-----------------------------------------------------------------------------
(* The triggers and the program, which run while no transfer does.         *)

(* dma_execute called from a trigger; the channel is enabled there.        *)
dma_execute(c) == /\ stack' = Append(stack, Entered(c, channels[c]))
                  /\ active_channel' = c

(* gba_run_frame calls dma_on_vblank or dma_on_hblank. *)
Trigger(kind) ==
  /\ Resting
  /\ scan' = [kind |-> kind, next |-> 0]
  /\ UNCHANGED <<channels, io_enable, active_channel, irf, stack>>

\* Mutant: the first channel that is served ends the loop.
ScanBreaks ==
  /\ scan.kind # "none" /\ stack = <<>> /\ scan.next \in Ch
  /\ LET c == scan.next IN
     IF channels[c].enabled /\ channels[c].timing = scan.kind
     THEN dma_execute(c) /\ scan' = [scan EXCEPT !.next = LastCh + 1]
     ELSE UNCHANGED <<stack, active_channel>> /\ scan' = [scan EXCEPT !.next = @ + 1]
  /\ UNCHANGED <<channels, io_enable, irf>>

(* One round of the loop over the channels. *)
ScanNext ==
  /\ scan.kind # "none" /\ stack = <<>> /\ scan.next \in Ch
  /\ LET c == scan.next IN
     IF channels[c].enabled /\ channels[c].timing = scan.kind
     THEN dma_execute(c) ELSE UNCHANGED <<stack, active_channel>>
  /\ scan' = [scan EXCEPT !.next = @ + 1]
  /\ UNCHANGED <<channels, io_enable, irf>>

ScanEnds ==
  /\ scan.kind # "none" /\ stack = <<>> /\ scan.next \notin Ch
  /\ scan' = NoScan
  /\ UNCHANGED <<channels, io_enable, active_channel, irf, stack>>

(* A half-empty FIFO asks for more; FIFO f belongs to channel f + 1.       *)
dma_on_fifo(f) ==
  /\ Resting
  /\ f + 1 \in Ch /\ channels[f + 1].enabled /\ channels[f + 1].timing = "special"
  /\ dma_execute(f + 1)
  /\ UNCHANGED <<channels, io_enable, irf, scan>>

CpuWrite(c, s) ==
  /\ Resting
  /\ dma_write_control(c, s, stack)
  /\ UNCHANGED <<irf, scan>>

(* The program acknowledges an interrupt (a write to IF). *)
Acknowledge(c) ==
  /\ Resting /\ c \in irf
  /\ irf' = irf \ {c}
  /\ UNCHANGED <<channels, io_enable, active_channel, stack, scan>>

(* SWI 1, RegisterRamReset with bit 7 (bios_hle.c): io_regs is cleared.    *)
RegisterRamReset ==
  /\ Resting
  /\ io_enable' = [c \in Ch |-> FALSE]
  /\ UNCHANGED <<channels, active_channel, irf, stack, scan>>

Transfer == MoveUnit \/ AdjustAddress \/ Finish
System   == \/ \E k \in {"vblank", "hblank"} : Trigger(k)
            \/ \E f \in 0..1 : dma_on_fifo(f)
Program  == \/ \E c \in Ch : Acknowledge(c) \/ \E s \in CpuSetups : CpuWrite(c, s)
            \/ RegisterRamReset

Next == Transfer \/ ScanNext \/ ScanEnds \/ System \/ Program

Spec == Init /\ [][Next]_vars

-----------------------------------------------------------------------------
(* The fields stay in range: what dma.c may rely on when it indexes        *)
(* channels and the table of CNT_H offsets.                                *)
TypeOK ==
  /\ channels \in [Ch -> [dest : Dest, dest_latch : Dest, count : Nat,
                          dest_adjust : Adjust, repeat : BOOLEAN, timing : Timing,
                          irq_on_done : BOOLEAN, enabled : BOOLEAN]]
  /\ io_enable \in [Ch -> BOOLEAN]
  /\ active_channel \in Ch \cup {None}
  /\ irf \subseteq Ch
  /\ stack \in Seq(Frame)
  /\ scan \in [kind : {"none", "vblank", "hblank"}, next : 0 .. LastCh + 1]
  /\ \A i \in DOMAIN stack : stack[i].at = "adjust" => stack[i].left > 0

(* What dma.h says of active_channel: "-1 if none active", and so the      *)
(* number of a channel while one is.                                       *)
ActiveNamed == active_channel = None => stack = <<>>

(* The comment of dma_execute: the backing store is updated "so reads      *)
(* reflect the cleared bit"; what the program reads in CNT_H is whether    *)
(* the channel is on.                                                      *)
ReadsShowEnable == \A c \in Ch : io_enable[c] = channels[c].enabled

-----------------------------------------------------------------------------
(***************************************************************************)
(* Dma with two history variables: the channels that were switched off by  *)
(* a write while one of their transfers was under way, and the channels a  *)
(* trigger found armed and has not come to yet.                            *)
(***************************************************************************)
VARIABLES stopped, due

hvars == <<vars, stopped, due>>

Running == {stack[i].ch : i \in DOMAIN stack}
Armed(kind) == {c \in Ch : channels[c].enabled /\ channels[c].timing = kind}

HInit == Init /\ stopped = {} /\ due = {}

(* Channels whose registers this step writes: a write sets all fields.     *)
Disarmed == {c \in Ch : channels'[c].timing # channels[c].timing
                        \/ (channels[c].enabled /\ ~channels'[c].enabled)}

(* The running channels this step switches off. *)
Stopped == {c \in Running : Len(stack') >= Len(stack)
                            /\ channels[c].enabled /\ ~channels'[c].enabled}

Record ==
  /\ stopped' = IF stack' = <<>> THEN {} ELSE stopped \cup Stopped
  /\ due' = IF scan.kind = "none" /\ scan'.kind # "none" THEN Armed(scan'.kind)
            ELSE (due \ Disarmed) \ {stack'[i].ch : i \in DOMAIN stack'}

HNext == Next /\ Record

(* A call that has begun runs on to its end.                               *)
HSpec == HInit /\ [][HNext]_hvars /\ WF_hvars((Transfer \/ ScanNext \/ ScanEnds) /\ Record)

(* No runaway recursion: unless a transfer switches off a channel that is  *)
(* still running, no channel is entered twice, so calls nest at most as    *)
(* deep as there are channels (dma_execute has no guard of its own).       *)
EnteredOnce ==
  \A i, j \in DOMAIN stack :
    i # j /\ stack[i].ch = stack[j].ch => stack[i].ch \in stopped

(* No channel is switched off twice while it runs, within one call. *)
StopsOnce == Stopped \cap stopped = {}

(* Every call returns: transfers start, stop, restart and retime one       *)
(* another, and the program gets to run again - as long as they do not     *)
(* stop running channels over and over.  (A transfer that stops and        *)
(* restarts itself each time nests for ever, in dma.c as here.)            *)
DmaReturns == <>[][StopsOnce]_hvars => []<>Resting

(* A trigger reaches every channel that was armed for it when it came,     *)
(* also when transfers it starts rewrite the channels the loop has yet to  *)
(* look at.                                                                *)
TriggerServesAll == scan.kind # "none" /\ scan.next \notin Ch => due = {}
=============================================================================
