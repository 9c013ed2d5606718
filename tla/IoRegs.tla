------------------------------- MODULE IoRegs -------------------------------
(***************************************************************************)
(* The I/O registers as programs see them (io_write8 and io_read8 in       *)
(* memory/bus.c).  A store of any width arrives byte by byte; io_regs      *)
(* keeps a copy of what was stored, the device keeps the register itself.  *)
(* Devices take a byte at once, or wait for the last byte and then take    *)
(* the register from the copy.  The BIOS call RegisterRamReset clears the  *)
(* copies.                                                                 *)
(*                                                                         *)
(* Blocks of registers do not look at each other, so a behaviour follows   *)
(* one block; registers that are handled alike share one.                  *)
(***************************************************************************)
EXTENDS Naturals, Sequences, FiniteSetsExt

CONSTANTS ByteBits,     \* bits in a byte (8)
          FlagBits,     \* read-only bits at the bottom of DISPSTAT (3)
          LengthBits,   \* bits of a tone's length below the duty cycle (6)
          RepeatBit,    \* in the control of a DMA channel (9)
          TimingBit,    \* the lower bit of its timing (12)
          Bytes,        \* the values of the bytes programs store
          MaxDmaStores  \* bound: stores into the registers of a DMA channel

B == 2^ByteBits

VARIABLES block,     \* the block of registers
          io_regs,   \* its bytes in Bus.io_regs
          dev,       \* its device
          meant,     \* history: the byte last stored, 0 after a reset
          told,      \* history: the bytes stored since the last reset
          op         \* history: the last operation

iovars == <<block, io_regs, dev, meant, told, op>>

Size == [dispcnt |-> 4, pair |-> 4, dispstat |-> 4, reference |-> 4, timer |-> 4,
         dma |-> 12, fifo |-> 4, irq |-> 4, keys |-> 4, tone |-> 4, haltcnt |-> 2]
Offset == 0 .. Size[block] - 1

(* Little-endian numbers. *)
ByteAt(x, i)     == (x \div B^i) % B
SetByte(x, i, v) == x - ByteAt(x, i) * B^i + v * B^i
Half(f, base) == f[base] + f[base + 1] * B
Word(f, base) == Half(f, base) + Half(f, base + 2) * B^2
Bit(x, i) == (x \div 2^i) % 2 = 1

(* An operation: the bytes it stored, whether they completed the block, the*)
(* device before, and for a DMA channel how many stores there have been.   *)
NoOp == [kind |-> "none", at |-> {}, whole |-> FALSE, old |-> <<>>, n |-> 0]

-----------------------------------------------------------------------------
(* io_write8 for each block: s is [io, dev], a byte v comes in at o.       *)
Copy(s, o, v) == [s.io EXCEPT ![o] = v]

(* DISPCNT, BGxCNT, scrolling, PA to PD, windows, mosaic, blending, bias,  *)
(* SOUNDCNT_L: each byte goes to its place in the device's register.  The  *)
(* pair is one of those that are read from the copy and SOUNDBIAS, one of  *)
(* those that are read from the device.                                    *)
WritePlain(s, o, v) == [io |-> Copy(s, o, v), dev |-> [s.dev EXCEPT ![o \div 2] = SetByte(@, o % 2, v)]]
(* The halfword after DISPCNT has no device. *)
WriteDispcnt(s, o, v) == IF o < 2 THEN WritePlain(s, o, v) ELSE [s EXCEPT !.io = Copy(s, o, v)]

(* The flags at the bottom of DISPSTAT are the PPU's, VCOUNT is read-only. *)
WriteDispstat(s, o, v) ==
  CASE o = 0 -> LET x == s.dev.dispstat - ByteAt(s.dev.dispstat, 0)
                         + (s.dev.dispstat % 2^FlagBits) + (v \div 2^FlagBits) * 2^FlagBits
                IN  [io |-> Copy(s, o, ByteAt(x, 0)), dev |-> [s.dev EXCEPT !.dispstat = x]]
    [] o = 1 -> [io |-> Copy(s, o, v), dev |-> [s.dev EXCEPT !.dispstat = SetByte(@, 1, v)]]
    [] OTHER -> s

(* Reference points: 28 of 32 bits, with a sign.  Every byte rebuilds both *)
(* the latch and the internal one from the copies.                         *)
SignExtend(x) == LET high == ByteBits \div 2  rest == x % 2^(4 * ByteBits - high)
                 IN  IF Bit(x, 4 * ByteBits - high - 1)
                     THEN rest + 2^(4 * ByteBits) - 2^(4 * ByteBits - high) ELSE rest
WriteReference(s, o, v) ==
  LET full == SignExtend(Word(Copy(s, o, v), 0))
  IN  [io |-> Copy(s, o, v), dev |-> [latch |-> full, ref |-> full]]

timer_write_control(d, c) ==
  LET on == Bit(c, ByteBits - 1) IN
  [d EXCEPT !.control = c, !.enabled = on,
            !.counter = IF on /\ ~d.enabled THEN d.reload ELSE d.counter]

\* Mutant: the register is taken from the copy with its first byte.
TimerActsOnLow(s, o, v) ==
  LET io == Copy(s, o, v) IN
  [io |-> io, dev |-> CASE o = 0 -> [s.dev EXCEPT !.reload = Half(io, 0)]
                        [] o = 2 -> timer_write_control(s.dev, Half(io, 2))
                        [] OTHER -> s.dev]

(* "Only act when the high byte is written (completes the 16-bit value)".  *)
WriteTimer(s, o, v) ==
  LET io == Copy(s, o, v) IN
  [io |-> io, dev |-> CASE o = 1 -> [s.dev EXCEPT !.reload = Half(io, 0)]
                        [] o = 3 -> timer_write_control(s.dev, Half(io, 2))
                        [] OTHER -> s.dev]

(* The control of a DMA channel.  A store that switches the channel on for *)
(* an immediate transfer runs all of it; after its last transfer a channel *)
(* is off, in the device and in the copy.                                  *)
Enabled(c)   == Bit(c, 2 * ByteBits - 1)
Immediate(c) == (c \div 2^TimingBit) % 4 = 0
Runs(c, old) == Enabled(c) /\ ~Enabled(old) /\ Immediate(c)
Ended(c)     == c % 2^(2 * ByteBits - 1)
EndedByte(v) == v % 2^(ByteBits - 1)

(* The high byte of CNT_H latches source, destination and count as well,   *)
(* then dma_write_control takes the control and may call dma_execute.      *)
(* Which bytes a transfer moves, and one that stores into these registers  *)
(* itself, is module Dma's.                                                *)
WriteDma(s, o, v) ==
  LET io == Copy(s, o, v)
      c  == Half(io, 10)
      runs == o = 11 /\ Runs(c, s.dev.control)
  IN  [io  |-> IF runs THEN [io EXCEPT ![11] = EndedByte(v)] ELSE io,
       dev |-> IF o # 11 THEN s.dev
               ELSE [source_latch |-> Word(io, 0), dest_latch |-> Word(io, 4),
                     count |-> Half(io, 8), control |-> IF runs THEN Ended(c) ELSE c]]

(* The fourth byte pushes a word made of the copies. *)
WriteFifo(s, o, v) ==
  LET io == Copy(s, o, v) IN
  [io |-> io, dev |-> IF o = 3 THEN <<Word(io, 0)>> ELSE s.dev]

(* IE, and IF, where a one clears. *)
WriteIrq(s, o, v) ==
  IF o < 2 THEN [io |-> Copy(s, o, v), dev |-> [s.dev EXCEPT !.ie = SetByte(@, o, v)]]
  ELSE [s EXCEPT !.dev.irf = @ \ {i \in @ : i \div ByteBits = o - 2 /\ Bit(v, i % ByteBits)}]

(* KEYINPUT is read-only. *)
WriteKeys(s, o, v) ==
  IF o < 2 THEN s
  ELSE [io |-> Copy(s, o, v), dev |-> [s.dev EXCEPT !.keycnt = SetByte(@, o - 2, v)]]

(* SOUND1CNT_L and _H, for all tone registers: nothing gets through while  *)
(* the sound is off.  The byte at 1 does not exist; the lower part of the  *)
(* byte at 2 is the length, the upper part the duty cycle.                 *)
WriteTone(s, o, v) ==
  IF ~s.dev.master \/ o = 1 THEN s
  ELSE [io |-> Copy(s, o, v),
        dev |-> CASE o = 0 -> [s.dev EXCEPT !.sweep = v % 2^(ByteBits - 1)]
                  [] o = 2 -> [s.dev EXCEPT !.length = 2^LengthBits - (v % 2^LengthBits),
                                            !.duty = v \div 2^LengthBits]
                  [] o = 3 -> [s.dev EXCEPT !.envelope = v]]

(* POSTFLG, and HALTCNT, which stops the processor until an interrupt.     *)
WriteHaltcnt(s, o, v) == [io |-> Copy(s, o, v), dev |-> [halted |-> s.dev.halted \/ o = 1]]

io_write8(s, o, v) ==
  CASE block = "dispcnt"   -> WriteDispcnt(s, o, v)
    [] block = "pair"      -> WritePlain(s, o, v)
    [] block = "dispstat"  -> WriteDispstat(s, o, v)
    [] block = "reference" -> WriteReference(s, o, v)
    [] block = "timer"     -> WriteTimer(s, o, v)
    [] block = "dma"       -> WriteDma(s, o, v)
    [] block = "fifo"      -> WriteFifo(s, o, v)
    [] block = "irq"       -> WriteIrq(s, o, v)
    [] block = "keys"      -> WriteKeys(s, o, v)
    [] block = "tone"      -> WriteTone(s, o, v)
    [] block = "haltcnt"   -> WriteHaltcnt(s, o, v)

(* bus_write16 and bus_write32 in the I/O region: low byte first.  A word  *)
(* for a FIFO passes the copies by.                                        *)
bus_write16(s, o, v) == io_write8(io_write8(s, o, v[1]), o + 1, v[2])
bus_write32(s, o, v) ==
  IF block = "fifo" THEN [s EXCEPT !.dev = <<Word(v, 1)>>]
  ELSE bus_write16(bus_write16(s, o, v), o + 2, <<v[3], v[4]>>)

-----------------------------------------------------------------------------
(* io_read8: from the device, from the copy, or nothing.                   *)
io_read8(o) ==
  CASE block = "dispcnt" /\ o < 2 -> ByteAt(dev[0], o)
    [] block = "pair" /\ o >= 2 -> ByteAt(dev[1], o - 2)
    [] block = "dispstat"  -> IF o < 2 THEN ByteAt(dev.dispstat, o) ELSE ByteAt(dev.vcount, o - 2)
    [] block = "timer"     -> IF o < 2 THEN ByteAt(dev.counter, o) ELSE ByteAt(dev.control, o - 2)
    [] block = "irq"       -> IF o < 2 THEN ByteAt(dev.ie, o)
                              ELSE MapThenSumSet(LAMBDA i : 2^(i % ByteBits),
                                                 {i \in dev.irf : i \div ByteBits = o - 2})
    [] block = "keys"      -> IF o < 2 THEN ByteAt(dev.keyinput, o) ELSE ByteAt(dev.keycnt, o - 2)
    [] block = "fifo"      -> 0
    [] block = "tone" /\ o = 0 -> io_regs[o] % 2^(ByteBits - 1)
    [] block = "tone" /\ o = 1 -> 0
    [] block = "tone" /\ o = 2 -> (io_regs[o] \div 2^LengthBits) * 2^LengthBits
    [] OTHER -> io_regs[o]

-----------------------------------------------------------------------------
Device == [dispcnt |-> [r \in 0..0 |-> 0], pair |-> [r \in 0..1 |-> 0],
           dispstat |-> [dispstat |-> 0, vcount |-> 0],
           reference |-> [latch |-> 0, ref |-> 0],
           timer |-> [reload |-> 0, counter |-> 0, control |-> 0, enabled |-> FALSE],
           dma |-> [source_latch |-> 0, dest_latch |-> 0, count |-> 0, control |-> 0],
           fifo |-> <<>>,
           irq |-> [ie |-> 0, irf |-> {}],
           keys |-> [keyinput |-> B * B - 1, keycnt |-> 0],
           tone |-> [master |-> FALSE, sweep |-> 0, length |-> 0, duty |-> 0, envelope |-> 0],
           haltcnt |-> [halted |-> FALSE]]

IoInit == /\ block \in DOMAIN Size
          /\ io_regs = [o \in Offset |-> 0] /\ dev = Device[block]
          /\ meant = io_regs /\ told = {} /\ op = NoOp

-----------------------------------------------------------------------------
(* Nothing is stored into the registers of a tone while the sound is off.  *)
Refused == block = "tone" /\ ~dev.master

(* The program stores the bytes v at o, which makes s of the block.        *)
Store(s, o, v) ==
  LET at == IF Refused THEN {} ELSE o .. o + Len(v) - 1 IN
  /\ block = "dma" => op.n < MaxDmaStores
  /\ io_regs' = s.io /\ dev' = s.dev
  /\ meant' = [x \in Offset |-> IF x \in at THEN v[x - o + 1] ELSE meant[x]]
  /\ told' = IF block = "fifo" /\ 3 \in at THEN {} ELSE told \cup at
  /\ op' = [kind |-> "store", at |-> at, whole |-> told \cup at = Offset,
            old |-> IF block \in {"timer", "irq", "dma"} THEN dev ELSE <<>>,
            n |-> IF block = "dma" THEN op.n + 1 ELSE 0]
  /\ UNCHANGED block

Now == [io |-> io_regs, dev |-> dev]
Pattern(n) == {[i \in 1..n |-> f[i % 2]] : f \in [0..1 -> Bytes]}

Store8  == \E o \in Offset, v \in Bytes : Store(io_write8(Now, o, v), o, <<v>>)
Store16 == \E o \in {o \in Offset : o % 2 = 0}, v \in Pattern(2) : Store(bus_write16(Now, o, v), o, v)
Store32 == \E o \in {o \in Offset : o % 4 = 0 /\ o + 3 \in Offset}, v \in Pattern(4) :
             Store(bus_write32(Now, o, v), o, v)

(* Anything but a store: what it leaves in the copies and the device.      *)
Becomes(io, d) == /\ io_regs' = io /\ dev' = d
                  /\ op' = [NoOp EXCEPT !.n = op.n]
                  /\ UNCHANGED block
Happens(d) == Becomes(io_regs, d) /\ UNCHANGED <<meant, told>>

(* RegisterRamReset: zeros in the copies, forced blank in that of DISPCNT; *)
(* POSTFLG and HALTCNT are left alone.                                     *)
RegisterRamReset ==
  /\ block # "haltcnt"
  /\ io_regs' = [o \in Offset |-> IF block = "dispcnt" /\ o = 0 THEN 2^(ByteBits - 1) ELSE 0]
  /\ meant' = io_regs' /\ told' = {}
  /\ op' = [NoOp EXCEPT !.kind = "reset", !.n = op.n]
  /\ UNCHANGED <<block, dev>>

(* The BIOS call SoundBias, with SOUNDBIAS as the second register of the   *)
(* block: the level is set in both places, the top bits are kept.          *)
swi_sound_bias(level) ==
  /\ block = "pair"
  /\ LET keep == B^2 \div 4
         bias == (dev[1] \div keep) * keep + level
         io   == [io_regs EXCEPT ![2] = ByteAt(bias, 0), ![3] = ByteAt(bias, 1)]
     IN  /\ Becomes(io, [dev EXCEPT ![1] = bias])
         /\ meant' = [meant EXCEPT ![2] = io[2], ![3] = io[3]]
         /\ told' = told \cup {2, 3}

(* SOUNDCNT_X switches the sound; off clears the channels and the copies.  *)
SwitchSound(on) ==
  /\ block = "tone" /\ on # dev.master
  /\ IF on THEN Happens([dev EXCEPT !.master = TRUE])
     ELSE Becomes([o \in Offset |-> 0], Device.tone) /\ meant' = io_regs' /\ told' = {}

(* What the devices do by themselves. *)
Hardware ==
  \/ block = "dispstat" /\ Happens([dev EXCEPT !.dispstat = IF @ % 2 = 1 THEN @ - 1 ELSE @ + 1,
                                               !.vcount = 1 - @])
  \/ block = "reference" /\ Happens([dev EXCEPT !.ref = 0])
  \/ block = "timer" /\ dev.enabled /\ Happens([dev EXCEPT !.counter = (@ + 1) % B^2])
  \/ block = "irq" /\ \E i \in {0, ByteBits} : Happens([dev EXCEPT !.irf = @ \cup {i}])
  \/ block = "keys" /\ \E k \in {0, B * B - 1} : Happens([dev EXCEPT !.keyinput = k])
  \/ block = "haltcnt" /\ Happens([halted |-> FALSE])
  (* A transfer that was triggered, and is not to be repeated, has ended. *)
  \/ /\ block = "dma" /\ Enabled(dev.control) /\ ~Immediate(dev.control)
     /\ ~Bit(dev.control, RepeatBit)
     /\ Becomes([io_regs EXCEPT ![11] = EndedByte(@)], [dev EXCEPT !.control = Ended(@)])
     /\ UNCHANGED <<meant, told>>

IoNext == \/ Store8 \/ Store16 \/ Store32 \/ RegisterRamReset \/ Hardware
          \/ \E level \in {0, B^2 \div 8} : swi_sound_bias(level)
          \/ \E on \in BOOLEAN : SwitchSound(on)

-----------------------------------------------------------------------------
Shown(x, o) == ByteAt(x, o) = meant[o] /\ io_read8(o) = meant[o]

(* Stores reach the devices whole.  Whatever came before in whatever       *)
(* widths - single bytes, halves of registers, resets of the copies - a    *)
(* store leaves in the device what the program stored: at once where bytes *)
(* are taken one by one, with the last byte where they are collected; a    *)
(* word starts a timer from the reload value it brings; acknowledging      *)
(* takes the interrupts it names and no others; and loads show it.  A DMA  *)
(* channel has the control stored, but when that starts an immediate       *)
(* transfer, the channel is off again before the store returns, and loads  *)
(* say so.  (After a reset the copies are zeros and a program counts on    *)
(* those; that devices are not reset is not a matter of this property.)    *)
StoresReachDevices ==
  CASE block = "dispcnt"   -> \A o \in told \cap {0, 1} : Shown(dev[0], o)
    [] block = "pair"      -> \A o \in told : /\ ByteAt(dev[o \div 2], o % 2) = meant[o]
                                              /\ io_read8(o) = meant[o]
    [] block = "dispstat"  -> /\ 0 \in told => ByteAt(dev.dispstat, 0) \div 2^FlagBits
                                                 = meant[0] \div 2^FlagBits
                              /\ 1 \in told => Shown(dev.dispstat, 1)
    [] block = "reference" -> LET half == 2^(4 * ByteBits - ByteBits \div 2) \div 2 IN
                              op.at # {} =>
                                /\ dev.latch = dev.ref
                                /\ dev.latch % (2 * half) = Word(meant, 0) % (2 * half)
                                /\ dev.latch < half \/ dev.latch >= B^4 - half
    [] block = "timer"     -> /\ 1 \in op.at => dev.reload = Half(meant, 0)
                              /\ 3 \in op.at => /\ dev.control = Half(meant, 2)
                                                /\ io_read8(2) = meant[2] /\ io_read8(3) = meant[3]
                              /\ op.at = Offset /\ dev.enabled /\ ~op.old.enabled
                                   => dev.counter = Half(meant, 0)
    [] block = "dma"       -> /\ 11 \in op.at =>
                                   LET c == Half(meant, 10) IN
                                   dev = [source_latch |-> Word(meant, 0),
                                          dest_latch |-> Word(meant, 4),
                                          count |-> Half(meant, 8),
                                          control |-> IF Runs(c, op.old.control)
                                                      THEN Ended(c) ELSE c]
                              /\ 11 \in told => io_read8(11) = ByteAt(dev.control, 1)
    [] block = "fifo"      -> 3 \in op.at /\ op.whole => dev = <<Word(meant, 0)>>
    [] block = "irq"       -> /\ \A o \in told \cap {0, 1} : Shown(dev.ie, o)
                              /\ op.kind = "store" =>
                                   dev.irf = {i \in op.old.irf :
                                      LET o == 2 + i \div ByteBits
                                      IN  o \in op.at => ~Bit(meant[o], i % ByteBits)}
    [] block = "keys"      -> \A o \in told \cap {2, 3} : ByteAt(dev.keycnt, o - 2) = meant[o]
    [] block = "tone"      -> /\ 0 \in told => dev.sweep = meant[0] % 2^(ByteBits - 1) /\ io_read8(0) = dev.sweep
                              /\ 2 \in told => /\ io_read8(2) = dev.duty * 2^LengthBits
                                               /\ dev.duty = meant[2] \div 2^LengthBits
                                               /\ dev.length + (meant[2] % 2^LengthBits) = 2^LengthBits
                              /\ 3 \in told => dev.envelope = meant[3] /\ io_read8(3) = meant[3]
    [] block = "haltcnt"   -> 1 \in op.at => dev.halted

(* "Set DISPCNT to forced blank" (bios_hle_execute, RegisterRamReset): the *)
(* display is blank when the call has reset the registers.                 *)
ResetBlanksDisplay ==
  block = "dispcnt" /\ op.kind = "reset" => io_read8(0) = 2^(ByteBits - 1) /\ io_read8(1) = 0
=============================================================================
