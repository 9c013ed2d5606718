------------------------------ MODULE MCMemory ------------------------------
(***************************************************************************)
(* What is behind the addresses of a program, for TLC: the memories, the   *)
(* I/O registers and the flash chip of the cartridge.  An access goes to   *)
(* one of the three and they share no state, so a behaviour follows one.   *)
(***************************************************************************)
EXTENDS FlashHistory, FiniteSets

CONSTANTS MaxProgrammed,   \* bound: flash cells that hold something else than 0xFF
          ByteBits, FlagBits, LengthBits, RepeatBit, TimingBit,   \* IoRegs
          Bytes, MaxDmaStores,
          Unit, FastBlock, Counts                                \* Bus

ASSUME BusAssumption == /\ Unit \in Nat \ {0} /\ Unit % 4 = 0
                        /\ FastBlock \in Nat \ {0}
                        /\ Counts \subseteq Nat

(* Bytes hold the flags and the length of a tone; and, for the proofs, what*)
(* powers of two are.                                                      *)
ASSUME IoAssumption ==
  /\ ByteBits \in Nat \ {0} /\ FlagBits \in 1..ByteBits /\ LengthBits \in 0..ByteBits
  /\ RepeatBit \in 0 .. 2 * ByteBits - 2 /\ TimingBit \in 0 .. 2 * ByteBits - 3
  /\ Bytes \subseteq 0 .. 2^ByteBits - 1
  /\ 2^0 = 1 /\ 2^1 = 2
  /\ \A i, j \in 0 .. 4 * ByteBits : 2^i \in Nat \ {0} /\ 2^(i + j) = 2^i * 2^j
  /\ \A i \in 0..4 : (2^ByteBits)^i = 2^(i * ByteBits)

VARIABLES part,
          block, io_regs, dev, meant, told, stored,              \* IoRegs; stored is its op
          mem, last_bios_read, in_bios, call, op, before         \* Bus

iovars  == <<block, io_regs, dev, meant, told, stored>>
busvars == <<mem, last_bios_read, in_bios, call, op, before>>
mvars   == <<part, hvars, iovars, busvars>>

-----------------------------------------------------------------------------
MCOffsets == {0, 10922, 21845}

(* Every write that advances some command, a write that only programs, and *)
(* the two bank numbers' worth of bank selection.                          *)
MCWrites == {<<21845, Unlock1>>, <<10922, Unlock2>>, <<21845, CmdErase>>,
             <<21845, CmdProgram>>, <<21845, CmdBank>>, <<21845, CmdChip>>,
             <<10922, CmdSector>>, <<0, {0}>>}

(* Few cells are programmed, and none where commands are written.          *)
FewProgrammed ==
  /\ Cardinality({c \in Bank \X Offsets : data[c[1]][c[2]] # Erased}) <= MaxProgrammed
  /\ \A b \in Bank : data[b][AddrUnlock1] = Erased

(* Copies start in the ROM, in the BIOS, and unaligned in RAM and at the   *)
(* fold of VRAM; they go to every even offset of two rounds of VRAM, across*)
(* the ends of the other memories, to an odd address and to no memory.     *)
Even(n)   == {2 * i : i \in 0 .. n}
MCSources == {<<"rom", 6>>, <<"vram", 2 * Unit + 1>>, <<"ram", 3>>, <<"bios", 0>>}
MCTargets == ({"vram"} \X Even(4 * Unit - 1)) \cup ({"ram", "palette", "oam"} \X Even(Unit))
             \cup {<<"vram", 3 * Unit - 1>>, <<"rom", 0>>, <<"none", 0>>}

Mem == INSTANCE Bus WITH Sources <- MCSources, Targets <- MCTargets
Io  == INSTANCE IoRegs WITH op <- stored

-----------------------------------------------------------------------------
MInit == /\ part \in {"flash", "io", "memory"}
         /\ HInit /\ Io!IoInit /\ Mem!BusInit
         /\ part # "io" => block = "dispcnt"

MNext == \/ part = "flash"  /\ HNext       /\ UNCHANGED <<part, iovars, busvars>>
         \/ part = "io"     /\ Io!IoNext   /\ UNCHANGED <<part, hvars, busvars>>
         \/ part = "memory" /\ Mem!BusNext /\ UNCHANGED <<part, hvars, iovars>>

MSpec == MInit /\ [][MNext]_mvars

-----------------------------------------------------------------------------
(* A store of any width reaches the register of its device whole, whatever *)
(* was stored or reset in whatever pieces before, and loads show it.       *)
StoresReachDevices == Io!StoresReachDevices

(* "Set DISPCNT to forced blank": RegisterRamReset blanks the display.     *)
ResetBlanksDisplay == Io!ResetBlanksDisplay

(* A store is seen at every mirror of its address and nowhere else, in     *)
(* the 96KB of VRAM and with the regions' own ways with bytes too.         *)
StoresSeenEverywhere == Mem!StoresSeenEverywhere

(* CpuSet and CpuFastSet bring source to destination, and change nothing   *)
(* else, through whichever mirrors and in whichever width they run.        *)
CopyArrives == Mem!CopyArrives
=============================================================================
