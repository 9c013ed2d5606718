------------------------------ MODULE Cartridge -----------------------------
(***************************************************************************)
(* The save memory of a cartridge over many sessions (cartridge.c, main.c):*)
(* loaded from the save file at start, written by the game, and written    *)
(* back when the user quits.  The process may die at any moment, the file  *)
(* may be impossible to open either time, the disk may fill up and reading *)
(* may fail; the bytes of the file go out and come in one by one.          *)
(***************************************************************************)
EXTENDS Flash

CONSTANT SaveTypes     \* what cartridge_detect_save_type may find

VARIABLES save_type,
          sram,
          file,        \* the save file: what is at each place that was written
          power        \* off, on, or saving (in cartridge_save_to_file)

cvars == <<data, state, bank, save_type, sram, file, power>>

SaveType == {"NONE", "SRAM", "FLASH64", "FLASH128", "EEPROM"}
IsFlash  == save_type \in {"FLASH64", "FLASH128"}

ASSUME SaveTypesAssumption == SaveTypes \subseteq SaveType

SramCell == {o % 32768 : o \in Offsets}          \* offset & 0x7FFF

(* A place in the save memory and in the save file: bank and offset.       *)
Place == (Bank \X Offsets) \cup ({0} \X SramCell)
Before(p, q) == p[1] < q[1] \/ (p[1] = q[1] /\ p[2] < q[2])

(* The places the file of each save type covers: 32KB, 64KB, 128KB.        *)
Area(t) == IF t = "SRAM" THEN {0} \X SramCell
           ELSE IF t = "FLASH64" THEN {0} \X Offsets
           ELSE IF t = "FLASH128" THEN Bank \X Offsets
           ELSE {}

(* The save memory as the file would hold it. *)
Memory == [p \in Area(save_type) |->
             IF save_type = "SRAM" THEN sram[p[2]] ELSE data[p[1]][p[2]]]

NoFile == [p \in {} |-> {}]

-----------------------------------------------------------------------------
CInit == /\ save_type \in SaveTypes
         /\ sram = [o \in SramCell |-> {}]
         /\ flash_init
         /\ file = NoFile
         /\ power = "off"

(* What cartridge_load_save_file may get of the file: all of it; a first   *)
(* part, when fread gives up on the way, which it does not look at; and    *)
(* nothing, when fopen fails, which it takes for no save file yet.         *)
Readable == {got \in SUBSET DOMAIN file :
               \A p \in got, q \in DOMAIN file : Before(q, p) => q \in got}

(* The bytes got are read over what memory held before.                    *)
FromFile(got, p, blank) == IF p \in got THEN file[p] ELSE blank

\* Mutant: only the first 64KB are read back.
LoadFirstBank(got) ==
  /\ power = "off" /\ power' = "on"
  /\ sram' = [o \in SramCell |-> IF save_type = "SRAM" THEN FromFile(got, <<0, o>>, {}) ELSE {}]
  /\ data' = [b \in Bank |-> [o \in Offsets |->
                IF IsFlash /\ b = 0 THEN FromFile(got, <<b, o>>, Erased) ELSE Erased]]
  /\ state' = "READY" /\ bank' = 0
  /\ UNCHANGED <<save_type, file>>

(* gba_init, cartridge_load: memory is cleared, the chip is erased, and    *)
(* cartridge_load_save_file reads what it can.                             *)
cartridge_load(got) ==
  /\ power = "off" /\ power' = "on"
  /\ sram' = [o \in SramCell |-> IF save_type = "SRAM" THEN FromFile(got, <<0, o>>, {}) ELSE {}]
  /\ data' = [b \in Bank |-> [o \in Offsets |->
                IF IsFlash /\ <<b, o>> \in Area(save_type) THEN FromFile(got, <<b, o>>, Erased)
                ELSE Erased]]
  /\ state' = "READY" /\ bank' = 0
  /\ UNCHANGED <<save_type, file>>

cartridge_write8(o, v) ==
  /\ power = "on"
  /\ \/ /\ save_type = "SRAM"
        /\ sram' = [sram EXCEPT ![o % 32768] = v]
        /\ UNCHANGED vars
     \/ /\ IsFlash
        /\ flash_write(o, v)
        /\ UNCHANGED sram
  /\ UNCHANGED <<save_type, file, power>>

-----------------------------------------------------------------------------
(* cartridge_save_to_file, called by main when the loop ends.              *)

(* Nothing to save, or the file cannot be opened. *)
QuitUnsaved ==
  /\ power = "on" /\ power' = "off"
  /\ UNCHANGED <<vars, save_type, sram, file>>

\* Mutant: the old contents are overwritten in place.
OpenInPlace ==
  /\ power = "on" /\ power' = "saving"
  /\ save_type # "NONE"
  /\ UNCHANGED <<vars, save_type, sram, file>>

(* fopen "wb" throws the old contents away. *)
Open ==
  /\ power = "on" /\ power' = "saving"
  /\ save_type # "NONE"
  /\ file' = NoFile
  /\ UNCHANGED <<vars, save_type, sram>>

Unsaved == Area(save_type) \ DOMAIN file

WriteNext(p) ==
  /\ power = "saving"
  /\ p \in Unsaved
  /\ \A q \in Unsaved : ~Before(q, p)
  /\ file' = [q \in DOMAIN file \cup {p} |-> IF q = p THEN Memory[p] ELSE file[q]]
  /\ UNCHANGED <<vars, save_type, sram, power>>

Close ==
  /\ power = "saving" /\ power' = "off"
  /\ Unsaved = {}
  /\ UNCHANGED <<vars, save_type, sram, file>>

(* The process dies, or fwrite gives up. *)
Crash ==
  /\ \/ power = "on"
     \/ power = "saving" /\ Unsaved # {}
  /\ power' = "off"
  /\ UNCHANGED <<vars, save_type, sram, file>>

-----------------------------------------------------------------------------
CNext == \/ \E got \in Readable : cartridge_load(got)
         \/ \E w \in Writes : cartridge_write8(w[1], w[2])
         \/ QuitUnsaved
         \/ Open
         \/ \E p \in Place : WriteNext(p)
         \/ Close
         \/ Crash

CSpec == CInit /\ [][CNext]_cvars

-----------------------------------------------------------------------------
(* "Bank switch (128K only)" (flash_write): a 64KB chip has one bank, and  *)
(* the save file keeps that one only.                                      *)
OneBankIn64K == save_type = "FLASH64" => bank = 0
=============================================================================
