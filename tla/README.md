# A TLA+ verification of the GBA emulator

TLA+ modules that model the parts of the emulator where control is hard, TLC
configurations that check them on small instances, and TLAPS proofs of what
holds for every value of the constants. `PROJECT.json` maps every definition to
the lines it models and lists the runs, hazards, findings and theorems. All
paths below are relative to the repository's `src/` directory.

To check a run: `tlc -workers 2 -config MCTimers.cfg MCTimers`.
To check the proofs: `tlapm TimersProofs.tla`.

## 1. The system

The emulator is one thread. `main.c` loads a cartridge and then, until the user
quits, calls `gba_run_frame`, hands picture and samples to SDL, and waits for
the audio queue to drain; at the end it writes the save file. There are no
threads, but there is plenty of interleaving: an arbitrary *program* (the game)
runs in slices between the steps of the devices and may write any register at
any moment, devices call each other back (timer -> sound -> DMA -> bus -> DMA),
and the process may die.

| component | state | operations | called by |
|---|---|---|---|
| CPU core `cpu/arm7tdmi.c` | registers, bank array, CPSR/SPSRs, pipeline, halted | step, mode switch, IRQ, SWI, exception return | frame loop |
| instructions `cpu/arm_instr.c`, `thumb_instr.c` | (CPU state, memory) | decode and execute | CPU core |
| BIOS calls `cpu/bios_hle.c` | (CPU state, memory) | halting, arithmetic, copying, decompression, reset | SWI without BIOS image |
| bus `memory/bus.c` | memory, `io_regs` (a copy of what was stored into registers) | read/write in three widths, dispatch to device registers byte by byte | CPU, DMA, BIOS calls |
| DMA `memory/dma.c` | 4 channels, `active_channel` | control write, VBlank/HBlank/FIFO trigger, execute | bus, frame loop, sound |
| timers `timer/timer.c` | counter, reload, prescaler, control | register writes, tick | bus, frame loop |
| interrupts `interrupt/interrupt.c` | IE, IF, IME | request, acknowledge | everyone |
| PPU `ppu/*.c` | VCOUNT, DISPSTAT, reference points, line buffers | render a line, flags | frame loop |
| sound `apu/*.c` | FIFOs, 4 tone channels, sequencer, filter, sample ring | FIFO push/pop, overflow callback, tick, mix | bus, timers, frame loop |
| cartridge `cartridge/*.c` | ROM, SRAM, flash chip | load, detect, read/write, save | bus, main |
| frontend `frontend/frontend.c` | SDL objects | present, push audio, sync | main |
| input `input/input.c` | one bit per key, KEYCNT | press, release | frontend, bus |
| X-Ray `frontend/xray/*.c` | window, layer views, counters | open/close, capture through the live PPU, draw | main |

What is hard here, and what makes each component correct:

* **Re-entrancy.** A DMA transfer is a sequence of bus writes, and a bus write to a
  control register starts a DMA transfer. Nesting must be bounded, every trigger
  must reach the channels armed for it, and every transfer must come back.
* **Ordering.** The frame loop keeps `line`, `vcount`, the blank flags, the
  transfers and the affine reference points in step, while the program writes the
  same registers. They must describe the same beam.
* **Accounting.** Timers are advanced in bursts of 960 and 272 cycles through three
  nested loops and a cascade; no cycle or overflow may be lost or counted twice.
* **Bounded buffers.** A FIFO of 32 samples refilled at 16 by 16, a ring that must
  tell full from empty: no overflow, no starvation, nothing reordered.
* **Protocols.** The flash command machine must act only on unbroken sequences; the
  banked registers must survive any sequence of modes and exceptions; a tone
  channel must end whatever the order of length writes and triggers.
* **Two copies.** A device register exists in the device and as bytes in `io_regs`;
  stores arrive byte by byte, some devices act on each byte and some on the last one, and
  a reset clears only the copy. What a program stores must be what the device gets.
* **Two of the same.** Shifter, flags and transfers are written twice, for ARM and for
  Thumb; instructions compute on numbers wider than a register through flags that
  only the next instruction looks at.
* **Looking without touching.** The X-Ray view renders through the live PPU.
* **Crashes.** The save file is truncated and rewritten at exit.
* **Arithmetic at the limits.** Division, square root, sweep, mixer, blending, decompression.

The complete list, with lines, is "hazards" in `PROJECT.json`.

## 2. Modules

In each family the *component* module has the state, the operations and their
specification; a *history* module, or a last section of the component's, adds ghost variables for
properties that compare a state with an earlier one; `MC*` modules give constants to
TLC; `*Proofs` hold theorems. A definition keeps the name of the C function where it is
one. Definitions marked `Mutant` are plausible mistakes that the properties are tested
against; no specification uses them.

| family | modules | models |
|---|---|---|
| Flash | `NorFlash` (abstract), `Flash`, `FlashHistory`, `MemoryProofs` | `cartridge/flash.c` |
| Memory | `Bus`, `IoRegs`, `MemoryProofs` | `memory/bus.c`, `input.c`, CpuSet, CpuFastSet, register part of RegisterRamReset |
| CPU | `ArmModes`, `RegisterFile` (abstract), `Cpu`, `CpuReturn`, `CpuProofs` | `cpu/arm7tdmi.c` and the instructions that change mode, bank or SPSR |
| Instructions | `Words`, `ArmInstr`, `ThumbInstr`, `Instructions`, `CpuProofs`, `TwinProofs` | `cpu/arm_instr.c`, `cpu/thumb_instr.c` |
| Timers | `Timers`, `TimersProofs` | `timer/timer.c` |
| FIFOs | `SampleQueue` (abstract), `SoundFifo`, `SoundHistory`, `SoundProofs` | `apu_fifo_*`, `apu_on_timer_overflow`, `dma_on_fifo` |
| Frame loop | `FrameLoop`, `FrameProofs` | `gba_run_frame`, PPU status, interrupts, `cpu_run` |
| Saves | `Cartridge` (extends `Flash`), `SaveHistory`, `MemoryProofs` | `cartridge.c`, the save in `main.c` |
| Tone channels | `SoundChannels`, `SoundProofs`, `NoiseGenerator` | `apu/channel.c`, the sequencer of `apu_tick`, sound registers |
| DMA | `Dma`, `DmaProofs` | `memory/dma.c`, DMA part of RegisterRamReset |
| Sound output | `Mixer`, `AudioOut`, `SoundProofs` | `apu_mix_sample` and the sound switch before it, `frontend_push_audio` |
| BIOS calls | `Unpack`, `UnpackBits`, `BiosMath`, `ComputationsProofs` | decompression, square root, division |
| Picture | `Compositor`, `XRay`, `ComputationsProofs` | `ppu_render_scanline`, `effects.c`, `bitmap.c`; `xray_ppu.c`, the window of `xray.c` |

How state and actions correspond to the code:

* **Flash.** `data`, `bank` and `state` are the fields of `FlashChip`; bytes are sets
  of bits, so that programming (`&=`) is intersection. One action, `flash_write`, with
  one operator per state of the switch. `NorFlash` knows only program, erase and bank
  selection; `Flash` implements it under the identity mapping of `data` and `bank`.
* **Cpu.** `regs`, `banked`, `spsr`, `mode`, `thumb`, `irqOff`, `pc` and how full the
  pipeline is. An ordinary instruction writes any value to any data register, so the
  model covers every program. `RegisterFile` gives each mode its own registers; the
  mapping says where in the flat array a register of a mode that is not running is.
* **Words, ArmInstr, ThumbInstr.** A machine is a record of registers, flags, the T bit,
  whether the pipeline is to be flushed, and memory; an instruction is an operator from
  machine and decoded fields to machine, named after its C function. The widths of a
  register and of a byte are parameters, so that every value can be tried; a word has
  four bytes and the T bit, alignment and rotation of unaligned loads are as in the code.
  `ArmPatterns` and `ThumbPatterns` are the chains of tests in `arm_execute` and
  `thumb_execute`: mask and value, in order.
* **Instructions** has small programs as behaviours: arithmetic on register pairs, shifts
  bit by bit, a Thumb instruction beside the ARM instruction it abbreviates, a transfer
  beside its single loads and stores, functions that call each other, and decoding.
* **Bus.** An address is a region and an offset; the bytes of each region are an array.
  A store is one action, CpuSet and CpuFastSet one for each element.
* **IoRegs.** One behaviour follows one block of registers: the bytes in `io_regs` and the
  device behind them. Stores of 1, 2 and 4 bytes, loads, RegisterRamReset and what
  hardware does meanwhile (keys, interrupt requests, the end of a triggered DMA transfer)
  are the actions. A store that switches a DMA channel on for an immediate transfer runs
  it before it returns, so the channel is off again in device and copy; what the transfer
  moves is module `Dma`'s, and so is one that stores into DMA registers itself.
* **Timers.** The three loops of `timer_tick` are steps of their own (`Call`, the
  prescaler loop, the cascade loop). The program writes registers between calls. A FIFO
  refill that nests in `timer_tick` and stores into timer registers, which a DMA set-up
  could make it do, is not modelled.
* **SoundFifo.** A pop, a refill and each word pushed are steps. FIFOs have a
  channel each, and channels may point at another's FIFO. `SampleQueue` is a queue
  that may lose what does not fit and be emptied.
* **FrameLoop.** `phase` is where `gba_run_frame` stands: between frames, or in one
  of its two calls of `cpu_run` per line. `StartHBlank` and `EndLine` are all that
  happens between two calls. Whether a slice's timers or transfers raise their
  own interrupts is a free choice. In its slices the program may write DISPSTAT, DISPCNT,
  the reference points, IE, IF, IME and the I flag, halt, or call VBlankIntrWait.
* **Cartridge.** `file` is a partial function from places to bytes, written byte by
  byte, with crash, failure to open and short write as alternatives at each point. A load
  gets any first part of the file: none of it when `fopen` fails, a part when `fread` gives
  up, which the code does not look at.
* **SoundChannels.** One action per register byte the program writes and one for
  `apu_tick`; the oscillators decide nothing and are left out.
* **Dma.** The activations of `dma_execute` are a stack of frames; `MoveUnit`,
  `AdjustAddress` and `Finish` are the loop. A destination is a control register or
  memory. A write to a control register pushes a frame when it starts a transfer.
* **Compositor.** One pixel: which layer shows there and with which shade is the
  input; the painting passes and the special effect are the steps.
* **XRay.** The PPU state that rendering uses, line by line, for two emulators side by
  side: one with the window and one without. SDL may fail at each of its three objects.
* **UnpackBits.** The Huffman tree is any tree up to a depth, laid out in memory the way
  compressors do; the walk follows the offsets in the node bytes.
* **Unpack, BiosMath, Mixer, AudioOut, NoiseGenerator** follow the loops of their
  functions; the stream a decompressor reads is chosen byte by byte as it goes. In `Mixer`
  the program may switch the sound on and off at any time; while it is off nothing is mixed.
  SDL's queue is external: it takes what it is given and drains at any time.

## 3. Runs

| run | module | shows |
|---|---|---|
| `memory` | `MCMemory` | stores reach device registers whole (`StoresReachDevices`) and are seen at every mirror and nowhere else (`StoresSeenEverywhere`), copies arrive (`CopyArrives`); the flash chip changes only at the end of a full sequence (`OnlyCommandsChangeTheChip`) and then by one operation of a NOR flash (`ImplementsNorFlash`) |
| `cpu` | `MCCpu` | no register of another mode is ever lost (`ImplementsRegisterFile`), and the cases in which returns from IRQ and SWI are exact (`AlignedReturnsResume`), with and without a BIOS image |
| `instructions` | `Instructions` | `WideArithmetic`, `ShiftIsRepeated`, `ThumbIsArm`, `TransfersDecompose`, `MostSpecificFirst`, `CallsReturn` |
| `timers` | `MCTimers` | `NoCycleLost`, `CascadeCountsOverflows`, `TickReturns` |
| `sound_out` | `MCSoundOut` | FIFOs play in order (`ImplementsQueue`), refills neither overflow (`RefillFits`) nor come too late (`NeverStarves`); the mixer stays in range and the ring delivers once and in order (`SoundArrives`); `NoiseHasFullPeriod`, `SilenceSettles` |
| `frame` | `FrameLoop` | `StatusMatchesBeam`, `FrameDelivered`, `RefBehindBeam`, `FramesGoOn`, `SleeperWakes` |
| `cartridge` | `MCCartridge` | `NoMixedSave`, `SaveSurvives` |
| `channels` | `MCChannels` | `SoundsOnlyWhenAllowed`, `NextSweepFits`, `TimedSoundEnds` |
| `dma` | `MCDma` | `EnteredOnce`, `TriggerServesAll`, `DmaReturns` |
| `computations` | `MCComputations` | BIOS calls compute what they were asked for (`CallsCompute`), write nowhere else (`StaysInOutput`) and end (`CallsEnd`); `PixelIsRight`; `XrayOnlyLooks` |
| `cpu_irq_return` | `MCCpu` | a counterexample to `IrqReturnsToInterrupted` (section 4) |
| `register_reset` | `MCMemory` | a counterexample to `ResetBlanksDisplay` (section 4) |

`MCMemory`, `MCSoundOut`, `MCComputations` and `Instructions` put components that share
no state side by side: the first state picks one of them and only that one moves.
`FrameLoop` and `Instructions` need no definitions for TLC and are run as they are.

What the properties of computations are measured against: `ThumbIsArm` compares two translations of two different C
files; `TransfersDecompose` compares an instruction with a sequence of simpler ones;
`WideArithmetic` and `ShiftIsRepeated` compare with integer arithmetic and with
iteration; `CopyArrives` and `StoresSeenEverywhere` compare byte by byte with the set of
addresses of the same byte, which is stated without the offset arithmetic of the code;
`XrayOnlyLooks` compares with an emulator that has no window.

### Bounds, and why they are enough

Sizes are scaled so that the interesting boundary is hit in a few steps; what the
code compares sizes with scales along.

* *flash*: the offsets the command machine compares with (0, 0x2AAA, 0x5555); the bytes
  of all commands but entering and leaving the ID mode (0x90 and 0xF0, which the proofs
  cover); at most one programmed cell at a time (`MaxProgrammed`), which is
  enough to see a cell change without a command.
* *memory, registers*: bytes of two bits, of which two values are stored; every order of
  stores of every width into a block, two of them for the 12 bytes of a DMA channel. *Memory
  map*: a third of VRAM is 4 bytes, blocks of CpuFastSet 2 words; every address twice
  over, copies across every fold and end.
* *instructions*: registers of 3 bits for pairs (every pair of 6-bit numbers), of 4
  bits for shifts by up to 11 and for arithmetic in both instruction sets; 4-bit words with one-bit bytes for transfers, two of them in
  a row (`MaxTransfers`); for calls 8-bit words, two frames and three calls (`MaxFrames`,
  `MaxCalls`), so that a call is made after a return. A bit is a bit in each of these
  operations, and the widths keep apart what the code keeps apart (amount below, at and
  above the width; each alignment).
* *cpu*: one register all modes share, one FIQ banks alone, the stack pointer and
  the link register, which every mode banks; three halfwords of code (`Halfwords`), so that both
  alignments occur; at most two registers or SPSRs away from their start value
  (`MaxTouched`), the least that can be confused with each other. MSR switches to FIQ and
  back and leaves the T bit alone (`MsrModes`, `MsrThumb`); IRQ, SVC, SYS and USR are
  reached through exceptions and returns. The proofs have no such bounds.
* *timers*: 3 timers, so that chains of three occur; counters modulo 2, prescalers 1
  and 2, ticks of 3 cycles: several overflows in one tick with a rest that stays.
  `MaxFed` cycles end a measurement; a register write starts the next.
* *sound_out*: one FIFO of 4 samples with half 2 and bursts of 2, so that a refill fills up
  exactly; its channel may point away from it. The proofs cover any number of FIFOs and
  channels that point at each other's.
* *frame*: 3 lines of which 2 are drawn, 2 instructions per slice, VCount targets
  inside and outside the picture.
* *cartridge*: the flash offsets above, all five save types, any number of sessions,
  reading and writing that ends after any byte.
* *channels*: channel 1 (envelope and sweep) and the wave channel, which
  differ in how length and trigger work; full length 1, volumes up to 1, frequencies up to
  3 instead of 2047, a sequencer period of two slices.
* *dma*: 3 channels, one unit of memory, transfers of one or two units. The transfers
  start, stop, rearm and retime channels, running ones too; in one call each running channel
  is switched off once at most. The theorems on `EnteredOnce` and `TriggerServesAll` have no
  such bound.
* *computations*: 9 bytes of memory, sizes 0, 3 and 5, copies of 1 and 3 bytes at distances
  1 and 2: overlapping copies, odd sizes, copies cut off by the end; every Huffman tree
  with codes of up to 3 bits (of larger ones, those whose values and distances a byte
  holds); BitUnPack from and to every pair of widths; Sqrt of every
  10-bit argument, Div of every pair of 4-bit numbers. For the pixel: 4 backgrounds and 2
  sprites on 2 priorities, every arrangement, all modes, one of them invalid. For X-Ray: 2
  of 3 lines drawn, one register write per frame, five displays.
* *sound_out*, further: every source at its extremes, and small sounds that end in the
  filter's dead zone, both with the least, usual and largest bias; the noise register at its real size; a ring of 6 places with up to 5
  samples a frame, so that it fills up and wraps at every place.

Deadlock is checked in every run that holds except `instructions`, whose programs end.

### Fairness

There is one thread, so weak fairness of the step that is under way is all that is
assumed: of the loops of `timer_tick` (`timers`), of a DMA transfer or trigger
loop (`dma`), of a decoder (`computations`), of `apu_tick` and of the mixer, which
`gba_run_frame` calls in every line whatever the program does (`channels`, `sound_out`) -
the mixer only while the program has the sound on, as `apu_tick` returns before it
otherwise -, and of the whole frame loop (`frame`), which `main` calls until the user quits. No
fairness is assumed of what the program does. `TimedSoundEnds` has its own premise, that
the program stops rewriting the length; `SleeperWakes` that the interrupt is enabled;
`SilenceSettles` that the sound stays on and nothing is heard; `DmaReturns` that transfers
do not go on for ever switching off channels that run: a transfer that stops and restarts
itself each time nests without end, in `dma.c` as in the model, and no guard there or in
the documentation speaks of it.

## 4. Where the code and its comments disagree

Runs `cpu_irq_return` and `register_reset` check the first two statements and find
counterexamples. The modules state those with a name in the same way; put into the
`.cfg` of the run named here, TLC refutes them. The others came up while translating.

| property | statement | what happens |
|---|---|---|
| `IrqReturnsToInterrupted` (`CpuReturn`) | `cpu/arm7tdmi.c:172` "SUBS PC, LR, #4 to return to the correct instruction" | LR is the raw R15, which is two instructions ahead of the next one, or equal to it when the pipeline was just flushed |
| `ResetBlanksDisplay` (`MCMemory`) | `cpu/bios_hle.c:957` "Set DISPCNT to forced blank" | only the copy in `io_regs` is set; the PPU, and loads of DISPCNT, use `ppu->dispcnt`. The same for "Bit 7: Reset all other I/O registers": timers, DMA channels and the PPU keep their state |
| `SwiReturnsAfterCall` (`CpuReturn`, run `cpu`) | `cpu/arm7tdmi.c:194` "address of instruction after the SWI" | MOVS PC, LR aligns to a word (`cpu/arm_instr.c:999`); a Thumb SWI on a word boundary is repeated |
| `WaitsForVBlank` (`FrameLoop`, run `frame`) | `cpu/bios_hle.c:104` "wait for VBlank interrupt" | any enabled interrupt ends the wait |
| `RefAlwaysTicks` (`FrameLoop`, run `frame`) | `ppu/ppu.c:115` "unconditionally for visible lines" | not under forced blank, which returns first |
| `OneBankIn64K` (`Cartridge`, run `cartridge`) | `cartridge/flash.c:70` "128K only" | a 64KB chip switches banks too, and bank 1 is not saved |
| `ActiveNamed` (`Dma`, run `dma`) | `memory/dma.h:30` "-1 if none active" | also -1 when an inner transfer ended and the outer one goes on; nothing reads the field |
| `ReadsShowEnable` (`Dma`, run `dma`) | `memory/dma.c:153` "so reads reflect the cleared bit" | RegisterRamReset (`cpu/bios_hle.c:960`) clears only the readable copy; the channels stay enabled |
| `readAll` (`SaveHistory`, run `cartridge`) | `cartridge/cartridge.c:192` "No save file yet, that's fine" | a save file that exists and cannot be opened is taken for none, and short reads are not noticed; the session starts blank or with a part, and overwrites the file when it ends |
| not in a module | `cpu/bios_hle.c:1034` "8-bit writes work via 16-bit path" | `bus_write16` aligns, so an odd destination is misplaced |
| not in a module | `apu/channel.c:104` "Volume is set from the envelope initial volume on trigger" | `square_channel_trigger` does not write `volume` |
| not in a module | `cpu/arm_instr.c:1090` "catch-all for bits[27:26] = 00" | words with bits[27:26] = 11 other than SWI (coprocessor instructions) fall through to data processing too |
| not in a module | `cpu/arm_instr.c:486` "stored value is PC (= executing_addr + 8)" | R15 + 4 is stored, the address + 12 |
| not in a module | `cpu/thumb_instr.c:885` "cond!=1110/1111" | the decoder takes only 1111 out first; 0xDExx is a branch that is always taken |
| not in a module | `cpu/thumb_instr.c:400` "Use 0", `cpu/arm_instr.c:629` "leave unchanged" | MUL leaves C differently in the two instruction sets; `ThumbIsArm` leaves C out for MUL |
| not in a module | `cpu/bios_hle.c:318` and `:324` "(28 bytes)", "(20 bytes)" | the entries that BgAffineSet reads and writes have 20 and 16 bytes |

## 5. Proofs

Each theorem holds for every value of the constants that satisfies the module's
assumption (sizes are positive, sets of inputs are of their type), so in particular
for the sizes the code has. Bounds that are only for TLC are constants of an `MC`
module, or, like `MaxFed`, a guard on a ghost variable the theorems hold for any value of.

| module | theorem | argument |
|---|---|---|
| `MemoryProofs` | `FlashTypeCorrect`, `FlashImplementsNorFlash` | type invariant; each state of the switch is one abstract step or a stutter |
| | `FlashStateMatchesWrites`, `FlashOnlyCommandsChangeTheChip` | `HInv`: type and the relation of the command state to the last writes, which is inductive |
| | `SaveFileNeverMixes`, `CompleteSaveSurvives` | `SInv`: while saving, the image is the memory, which does not change. A load takes a first part of the file (`FirstPart`), and what it leaves in memory is that part of the image and blanks (`Restored`, `LoadRestores`) |
| | `BusStoresSeenEverywhere`, `BusCopyArrives` | `BusInv`: a store's bytes are in the cells of its address; while CpuSet runs, the elements moved so far have arrived, all other cells are as they were before, and what is still to be read has not been written. The arithmetic is in lemmas on how an aligned unit lies in a memory that repeats itself (`CellSteps`, with VRAM's 64K + 32K + 32K) and on which addresses are the same byte |
| | `IoStoresReachDevices` | `IoInv`: for each block of registers, which bytes of copies and device are those last stored (`OnTimer`, `OnDma`, ...). It is stated for a store under way: `ByteStored` shows that one more byte keeps it, low byte first, whatever the width, and `StoreEnds` that it holds again when the store is complete. The lemmas before them are on registers as two bytes (`MadeOfBytes`, `SetBytes`), on the flags of DISPSTAT and on the sign of a reference point (`Extended`) |
| `CpuProofs` | `CpuTypeCorrect`, `CpuPcAligned` | every write to `pc` goes through an alignment; the T bit changes only with it |
| | `CpuImplementsRegisterFile` | a mode switch changes no abstract register: lemmas on saving and restoring, one per pair of cases FIQ / other banked / user |
| | `CpuReturnsResume` | `EntryInv`, relative to type and `PcAligned`: how the link register of each entry lies to the instruction to resume at |
| | `WideNumbers` | `WideInv`: the program is at its start, or between its two instructions with the low half and the carry done, or has computed. The lemmas are on numbers of two digits to the base 2^width: sum, difference, order, product and halving, digit by digit with a carry, signed and unsigned |
| | `ShiftsCompose` | `ShiftInv`: after n instructions register and carry are what `barrel_shift` makes of the first value in one step of n; for RRX, the rotation of register and carry together. Each special amount (0, the width, above it) is a case of its own; the rest is division by powers of two |
| `TwinProofs` | `ThumbAbbreviatesArm` | `TwinsInv`, `MemoryInv`: the two processors have registers in range and agree on them and on every defined flag; there is one lemma for each Thumb format, which computes both instructions. The bit operations are sums over bits, a recursive function whose equation `FromBitsInWord` justifies by the least counterexample |
| `TimersProofs` | `TimersTypeCorrect`, `TimersLoseNoCycle`, `TimersCascade` | `HInv`: types, ranges of the ghosts and both balance equations, which need each other while a cascade is under way |
| `SoundProofs` | `SoundTypeCorrect`, `SoundRingConsistent`, `SoundRefillFits` | counts and indices; a refill begins at most half full and keeps room for the rest |
| | `SoundImplementsQueue` | the mapping reads the ring from the read index on, `count` samples long; push, pop and reset of the ring are those of the sequence (`RingConsistent`), and the latch is the last sample |
| | `SoundNeverStarves` | `KeptAlive`: a FIFO that has been filled since its reset and is served holds a sample or is being refilled |
| | `MixedSampleFits`, `SoundOutArrives` | the range of each stage of the mixer; `OutInv`: ring and indices, and which number the sample in each slot has |
| | `ChannelsTypeCorrect`, `ChannelsHaveTimeLeft`, `ChannelsMasterOff`, `ChannelsSoundOnlyWhenAllowed`, `ChannelsSweepFits` | relative to the type invariant; the fourth theorem joins the two before it; the sweep needs that its look-ahead was made with the shift in use |
| `FrameProofs` | `FrameTypeCorrect`, `FrameStatusMatchesBeam`, `FrameIsDelivered`, `FrameRefBehindBeam` | the status invariant comes first; the others are inductive relative to it |
| `DmaProofs` | `DmaTypeCorrect`, `DmaEnteredOnce` | `HInv` adds: a channel on the stack is on, unless a write stopped it; only a channel that is off can be pushed |
| | `DmaTriggerServesAll` | `DueAhead`: a channel that is due and not yet served is still ahead of the loop, enabled and with the trigger's timing, whatever the transfers write that the loop starts |
| `ComputationsProofs` | `XrayLeavesNoTrace` | `XInv`: the two emulators agree; each line in the frame buffer is the picture of its line, each reference point its latch and as many steps as lines were drawn; what the window took is that picture, layer by layer |
| | `UnpackDecodes`, `UnpackStaysInOutput` | `UnpackInv`: the ghost text is what has been decoded; memory holds it up to the byte held back, which is the text's last; and there is room for the rest |
| | `PixelPutTogether` | `PixelInv`: top and second place are the front, and the next behind it, of the canvas of what has been painted so far (`Canvas`); an item painted later is in front of everything on the canvas (`LaterIsBefore`), and after the last pass the canvas is all that is present (`CanvasFull`) |
| | `MathIsExact` | `RootInv`: of the root, the digits above a weight s have been found; bit is s squared, the result is the root so far moved up by s, and the rest is what is left of the argument. No sum of a round reaches the width of a word (`DigitNarrow`). `IsQuotient` is inductive: the four cases of signs in `QuotientIs`, and `TwosComplement` on registers and the signed numbers they hold |
| | `BitsAreUnpacked`, `CallsAreRight` | `HuffInv`: the bits read are the codes of the values put out so far, then the code of the node the decoder stands on; `BitsInv`: the words stored and `out_word` are the values in order. That the tree in memory can be walked: a tree is finite, level order is a total order (`PrecedesOrders`), so nodes have different ranks and places (`Places`), and the byte of a node leads to the places of its children (`LaidOutNodes`). `OneCoding`: only one function codes values recursively. The second theorem puts this, `UnpackDecodes` and `MathIsExact` together |

`OneCoding`, and what else needs an induction, goes by the least counterexample, from the
fact that < on the natural numbers is well founded.

The assumptions, beside types and sizes that are not zero:

* `BusAssumption`: `Unit`, a third of VRAM and the unit the sizes of the memories are
  stated in, is a multiple of a word.
* `IoAssumption`: the flags of DISPSTAT and the length of a tone fit into a byte, the
  repeat and timing bits of a DMA control lie below its enable bit, and programs store
  bytes. It states for powers of two that exponents add up, as the provers
  know no rules for powers; TLC evaluates it for the widths of the run.
* `UnpackAssumption`: the output fits into memory, references reach back no further than
  memory does, and destinations are even. The BIOS demands that only for video memory; for
  work memory the code does not do what it says with an odd destination (section 4).
* `OutAssumption`: a frame has fewer samples than the ring has slots (549 and 4096).
* `ScreenAssumption`: there are lines to draw and lines of VBlank after them.
* `MathAssumption`: registers have bits. It also states that 2^k is twice 2^(k-1), and 4^k
  the square of 2^k, up to the width of a register: true of every width, but the provers
  know no rules for powers. TLC evaluates it for the widths of the run.
* `WidthAssumption` (`Instructions`): registers have bits, and the rules for powers of two that the proofs
  on instructions need.
* `BitsAssumption`: a word is made of bytes, a byte has room for two flags, and a width
  that BitUnPack is given divides a word, and a byte unless it is wider. The code does not
  check that; the BIOS documents the widths 1, 2, 4, 8, 16 and 32. Rules for powers as above.

`CopyArrives` says nothing of a copy whose source and destination overlap (through any
mirror): the code moves elements upwards one by one, and so does the BIOS.

Only model-checked:

* Liveness (`TickReturns`, `FramesGoOn`, `SleeperWakes`, `TimedSoundEnds`, `DmaReturns`,
  `CallsEnd`, `SilenceSettles`), which is out of the prover's reach.
* `NoiseHasFullPeriod`: the period of one register of a given size, which the run walks
  through in full.
* `MostSpecificFirst` and `TransfersDecompose`: no constant occurs in them, so the run,
  which tries every case, leaves nothing to prove.
* `CallsReturn` for more than `MaxFrames` nested calls, which the stack of the model would
  not hold.

`ThumbIsArm`, in run and theorem, leaves out branches, high registers, writes to the PC and
empty register lists, which the two instruction sets treat differently; its loads and stores
are on words of four one-bit bytes.

## 6. Not modelled

* ArcTan (a fixed-point polynomial), ArcTan2 and MidiKey2Freq (floating point), BgAffineSet
  and ObjAffineSet (a sine table): what they should compute is a real number and an
  accuracy.
* SoftReset, the clearing of memories in RegisterRamReset, and the sound driver calls,
  which are stubs.
* Cycle counts of instructions, beyond their being positive; WAITCNT and wait states, the
  serial port and open bus, which are not implemented in the code.
* Tile, affine and sprite address arithmetic inside VRAM and OAM; windows and mosaic are
  stubs in the code.
* EEPROM, `sram.c` and RTC (stubs).
* The panels of X-Ray (text, meters, tiles, counters), SDL's window, keys and picture, and
  the debug output: pure output.
* Changes of VRAM, palette and OAM between a picture and the X-Ray views of it: a program
  that redraws them in VBlank sees views of the next picture.
* Huffman trees with paths that never end at a leaf: the code walks them for ever.
* `frontend_frame_sync`, which waits until SDL's queue has drained.

## 7. Plan

Done, in this order: flash, CPU control, timers, FIFOs, frame loop, saves, tone channels,
noise, output, decompression, DMA, square root, mixer, compositor; then the instruction
sets, the I/O registers, the memory map with CpuSet, HuffUnComp, BitUnPack, the
difference filters, Div, input and X-Ray; then the proofs on queue, starvation, mixer,
ring, triggers, returns, memory map, copies, decompression, pixel, X-Ray, square root,
division, I/O registers, arithmetic on register pairs, shifts, Huffman trees, BitUnPack
and Thumb code beside ARM code.
Next:

1. `SoundSystem`: timers, FIFOs and DMA composed, so that FIFO refills nest in
   `timer_tick` and compete with transfers the program starts.
2. Sprite and background addressing: offsets stay inside VRAM for all sizes and flips.
