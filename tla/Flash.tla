-------------------------------- MODULE Flash -------------------------------
(***************************************************************************)
(* The flash chip of cartridge/flash.c: a command state machine driven by  *)
(* the bytes the game writes to the save region.  One action per arm of    *)
(* the switch in flash_write.                                              *)
(*                                                                         *)
(* A byte is the set of its bits that are 1 (module NorFlash).             *)
(***************************************************************************)
EXTENDS Naturals

CONSTANTS Offsets,   \* the offsets (addr & 0xFFFF) the game uses
          Writes     \* the <<offset, byte>> writes the game may perform

VARIABLES data,      \* FlashChip.data, as two banks of 64KB
          state,     \* FlashChip.state
          bank       \* FlashChip.bank

vars == <<data, state, bank>>

Bit    == 0..7
Byte   == SUBSET Bit
Bank   == {0, 1}
Erased == Bit                      \* 0xFF

ASSUME OffsetsAssumption == \A o \in Offsets : o \in Nat /\ o < 65536
ASSUME WritesAssumption  == Writes \subseteq Offsets \X Byte

-----------------------------------------------------------------------------
(* The command bytes and addresses.                                        *)
AddrUnlock1 == 21845               \* 0x5555
AddrUnlock2 == 10922               \* 0x2AAA
Unlock1     == {1, 3, 5, 7}        \* 0xAA
Unlock2     == {0, 2, 4, 6}        \* 0x55
CmdIdentify == {4, 7}              \* 0x90
CmdReset    == {4, 5, 6, 7}        \* 0xF0
CmdErase    == {7}                 \* 0x80
CmdProgram  == {5, 7}              \* 0xA0
CmdBank     == {4, 5, 7}           \* 0xB0
CmdChip     == {4}                 \* 0x10
CmdSector   == {4, 5}              \* 0x30

FlashState == {"READY", "CMD1", "CMD2", "AUTOSELECT", "ERASE", "ERASE_CMD1",
               "ERASE_CMD2", "WRITE", "BANKSWITCH"}

(* addr & 0xF000: 4KB erase sectors *)
SectorOf(o) == o \div 4096

flash_init == /\ data = [b \in Bank |-> [o \in Offsets |-> Erased]]
              /\ state = "READY"
              /\ bank = 0

(* flash_read: the identification mode shadows offsets 0 and 1; the two    *)
(* identifier bytes depend on the chip and are abstracted to their roles.  *)
flash_read(o) == IF state = "AUTOSELECT"
                 THEN CASE o = 0 -> "manufacturer"
                        [] o = 1 -> "device"
                        [] OTHER -> {}
                 ELSE data[bank][o]

-----------------------------------------------------------------------------
(* flash_write, one arm per state.                                         *)
\* Mutant: the bank register answers without being unlocked.
ReadySwitchesBank(a, v) ==
  /\ state = "READY"
  /\ state' = IF a = AddrUnlock1 /\ v = Unlock1 THEN "CMD1" ELSE "READY"
  /\ bank' = IF a = 0 THEN IF 0 \in v THEN 1 ELSE 0 ELSE bank
  /\ UNCHANGED data

Ready(a, v) == /\ state = "READY"
               /\ state' = IF a = AddrUnlock1 /\ v = Unlock1 THEN "CMD1" ELSE "READY"
               /\ UNCHANGED <<data, bank>>

Cmd1(a, v) == /\ state = "CMD1"
              /\ state' = IF a = AddrUnlock2 /\ v = Unlock2 THEN "CMD2" ELSE "READY"
              /\ UNCHANGED <<data, bank>>

Cmd2(a, v) ==
  /\ state = "CMD2"
  /\ \/ a = AddrUnlock1 /\ v = CmdIdentify /\ state' = "AUTOSELECT"
     \/ a = AddrUnlock1 /\ v = CmdErase    /\ state' = "ERASE"
     \/ a = AddrUnlock1 /\ v = CmdProgram  /\ state' = "WRITE"
     \/ a = AddrUnlock1 /\ v = CmdBank     /\ state' = "BANKSWITCH"
     \/ /\ a # AddrUnlock1 \/ v \notin {CmdIdentify, CmdErase, CmdProgram, CmdBank}
        /\ state' = "READY"
  /\ UNCHANGED <<data, bank>>

(* Identification is left by the reset byte at any address, and by nothing *)
(* else: unlock sequences are ignored while it lasts.                      *)
AutoSelect(a, v) == /\ state = "AUTOSELECT"
                    /\ state' = IF v = CmdReset THEN "READY" ELSE "AUTOSELECT"
                    /\ UNCHANGED <<data, bank>>

Erase(a, v) == /\ state = "ERASE"
               /\ state' = IF a = AddrUnlock1 /\ v = Unlock1 THEN "ERASE_CMD1" ELSE "READY"
               /\ UNCHANGED <<data, bank>>

EraseCmd1(a, v) == /\ state = "ERASE_CMD1"
                   /\ state' = IF a = AddrUnlock2 /\ v = Unlock2 THEN "ERASE_CMD2" ELSE "READY"
                   /\ UNCHANGED <<data, bank>>

(* The chip erase takes both banks whatever the chip; a sector erase takes *)
(* the 4KB sector of the written address in the current bank.              *)
EraseCmd2(a, v) == /\ state = "ERASE_CMD2"
                   /\ state' = "READY"
                   /\ data' = IF a = AddrUnlock1 /\ v = CmdChip
                              THEN [b \in Bank |-> [o \in Offsets |-> Erased]]
                              ELSE IF v = CmdSector
                              THEN [data EXCEPT ![bank] =
                                     [o \in Offsets |-> IF SectorOf(o) = SectorOf(a)
                                                          THEN Erased ELSE @[o]]]
                              ELSE data
                   /\ UNCHANGED bank

\* Mutant: the byte is stored as it comes, setting erased bits again.
ProgramOverwrites(a, v) == /\ state = "WRITE"
                           /\ state' = "READY"
                           /\ data' = [data EXCEPT ![bank][a] = v]
                           /\ UNCHANGED bank

ProgramByte(a, v) == /\ state = "WRITE"
                     /\ state' = "READY"
                     /\ data' = [data EXCEPT ![bank][a] = @ \cap v]
                     /\ UNCHANGED bank

BankSwitch(a, v) == /\ state = "BANKSWITCH"
                    /\ state' = "READY"
                    /\ bank' = IF a = 0 THEN IF 0 \in v THEN 1 ELSE 0 ELSE bank
                    /\ UNCHANGED data

flash_write(a, v) ==
  \/ Ready(a, v)     \/ Cmd1(a, v)      \/ Cmd2(a, v)
  \/ AutoSelect(a, v)
  \/ Erase(a, v)     \/ EraseCmd1(a, v) \/ EraseCmd2(a, v)
  \/ ProgramByte(a, v)
  \/ BankSwitch(a, v)

Init == flash_init
Next == \E w \in Writes : flash_write(w[1], w[2])
Spec == Init /\ [][Next]_vars

-----------------------------------------------------------------------------
(* Type invariant: the chip state, the bank number and every cell stay in  *)
(* range for any sequence of writes to the save region.                    *)
TypeOK == /\ data \in [Bank -> [Offsets -> Byte]]
          /\ state \in FlashState
          /\ bank \in Bank

(* The command state machine implements the abstract chip: whatever the    *)
(* game writes, memory changes only as one program, one erase or one bank  *)
(* selection, and a program never sets a bit.                              *)
Promise == INSTANCE NorFlash
ImplementsNorFlash == Promise!Spec
=============================================================================
