---------------------------- MODULE MemoryProofs ----------------------------
(***************************************************************************)
(* Proofs about what is behind the addresses of a program.  First the      *)
(* flash chip, for every set of offsets and every set of writes; then the  *)
(* save file, for every save type and every sequence of writes, crashes    *)
(* and restarts; then the bus, for memories of every size, every count of  *)
(* CpuSet and every block of CpuFastSet; then the I/O registers, for bytes *)
(* of every size and every sequence of stores, resets and device events.   *)
(***************************************************************************)
EXTENDS MCMemory, SaveHistory, Integers, Sequences, TLAPS

-----------------------------------------------------------------------------
(*                              The flash chip                             *)

(* A write preserves the types, whichever arm of flash_write it takes.     *)
LEMMA WriteTypeOK ==
  ASSUME TypeOK, NEW w \in Writes, flash_write(w[1], w[2])
  PROVE  TypeOK'
<1>0. w[1] \in Offsets /\ w[2] \in Byte
  BY WritesAssumption
<1>1. CASE Ready(w[1], w[2])
  BY <1>1 DEF TypeOK, Ready, FlashState
<1>2. CASE Cmd1(w[1], w[2])
  BY <1>2 DEF TypeOK, Cmd1, FlashState
<1>3. CASE Cmd2(w[1], w[2])
  <2>1. state' \in FlashState
    BY <1>3 DEF Cmd2, FlashState
  <2>. QED BY <2>1, <1>3 DEF TypeOK, Cmd2
<1>4. CASE AutoSelect(w[1], w[2])
  BY <1>4 DEF TypeOK, AutoSelect, FlashState
<1>5. CASE Erase(w[1], w[2])
  BY <1>5 DEF TypeOK, Erase, FlashState
<1>6. CASE EraseCmd1(w[1], w[2])
  BY <1>6 DEF TypeOK, EraseCmd1, FlashState
<1>7. CASE EraseCmd2(w[1], w[2])
  <2>1. Erased \in Byte
    BY DEF Erased, Byte
  <2>2. [o \in Offsets |-> IF SectorOf(o) = SectorOf(w[1]) THEN Erased ELSE data[bank][o]]
           \in [Offsets -> Byte]
    BY <2>1 DEF TypeOK
  <2>3. data' \in [Bank -> [Offsets -> Byte]]
    BY <2>1, <2>2, <1>7 DEF TypeOK, EraseCmd2
  <2>. QED BY <2>3, <1>7 DEF TypeOK, EraseCmd2, FlashState
<1>8. CASE ProgramByte(w[1], w[2])
  <2>1. data[bank][w[1]] \cap w[2] \in Byte
    BY <1>0 DEF TypeOK, Byte
  <2>. QED BY <1>0, <2>1, <1>8 DEF TypeOK, ProgramByte, FlashState
<1>9. CASE BankSwitch(w[1], w[2])
  BY <1>9 DEF TypeOK, BankSwitch, FlashState, Bank
<1>. QED
  BY <1>1, <1>2, <1>3, <1>4, <1>5, <1>6, <1>7, <1>8, <1>9 DEF flash_write

(* The erased chip.                                                        *)
LEMMA InitTypeOK == Init => TypeOK
  BY DEF Init, flash_init, TypeOK, FlashState, Bank, Byte, Erased

(* The chip's state, bank and cells stay in range for every sequence of    *)
(* writes to the save region.                                              *)
THEOREM FlashTypeCorrect == Spec => []TypeOK
<1>1. TypeOK /\ [Next]_vars => TypeOK'
  <2>1. TypeOK /\ Next => TypeOK'
    BY WriteTypeOK DEF Next
  <2>2. TypeOK /\ UNCHANGED vars => TypeOK'
    BY DEF TypeOK, vars
  <2>. QED BY <2>1, <2>2
<1>. QED BY InitTypeOK, <1>1, PTL DEF Spec

-----------------------------------------------------------------------------
(* Each write of the detailed chip is one step of the abstract one, or     *)
(* leaves its memory and bank alone.                                       *)
LEMMA WriteRefines ==
  ASSUME TypeOK, NEW w \in Writes, flash_write(w[1], w[2])
  PROVE  [Promise!Next]_<<data, bank>>
<1>0. w[1] \in Offsets /\ w[2] \in Byte
  BY WritesAssumption
<1>1. CASE EraseCmd2(w[1], w[2])
  <2>1. CASE w[1] = AddrUnlock1 /\ w[2] = CmdChip
    BY <1>1, <2>1 DEF EraseCmd2, Promise!Next, Promise!EraseChip,
       Promise!Bank, Promise!Erased, Promise!Bit, Bank, Erased, Bit
  <2>2. CASE ~(w[1] = AddrUnlock1 /\ w[2] = CmdChip) /\ w[2] = CmdSector
    <3>1. Promise!EraseSector
      BY <1>0, <1>1, <2>2 DEF EraseCmd2, Promise!EraseSector,
         Promise!Erased, Promise!Bit, Erased, Bit
    <3>. QED BY <3>1 DEF Promise!Next
  <2>3. CASE ~(w[1] = AddrUnlock1 /\ w[2] = CmdChip) /\ w[2] # CmdSector
    BY <1>1, <2>3 DEF EraseCmd2
  <2>. QED BY <2>1, <2>2, <2>3
<1>2. CASE ProgramByte(w[1], w[2])
  <2>1. data'[bank][w[1]] = data[bank][w[1]] \cap w[2]
    BY <1>0, <1>2 DEF ProgramByte, TypeOK
  <2>2. Promise!Program
    BY <1>0, <1>2, <2>1 DEF ProgramByte, Promise!Program
  <2>. QED BY <2>2 DEF Promise!Next
<1>3. CASE BankSwitch(w[1], w[2])
  <2>1. Promise!SelectBank
    BY <1>3 DEF BankSwitch, Promise!SelectBank, TypeOK, Bank, Promise!Bank
  <2>. QED BY <2>1 DEF Promise!Next
<1>4. CASE ~EraseCmd2(w[1], w[2]) /\ ~ProgramByte(w[1], w[2]) /\ ~BankSwitch(w[1], w[2])
  BY <1>4 DEF flash_write, Ready, Cmd1, Cmd2, AutoSelect, Erase, EraseCmd1
<1>. QED BY <1>1, <1>2, <1>3, <1>4

(* The command state machine implements the abstract chip: a write to the  *)
(* save region programs, erases or selects a bank as a whole, or changes   *)
(* nothing the game can store data in.                                     *)
THEOREM FlashImplementsNorFlash == Spec => ImplementsNorFlash
<1>1. Init => Promise!Init
  BY DEF Init, flash_init, Promise!Init, Promise!Bank, Promise!Erased,
     Promise!Bit, Bank, Erased, Bit
<1>2. TypeOK /\ [Next]_vars => [Promise!Next]_<<data, bank>>
  <2>1. TypeOK /\ Next => [Promise!Next]_<<data, bank>>
    BY WriteRefines DEF Next
  <2>2. UNCHANGED vars => UNCHANGED <<data, bank>>
    BY DEF vars
  <2>. QED BY <2>1, <2>2
<1>. QED
  BY <1>1, <1>2, FlashTypeCorrect, PTL DEF Spec, Promise!Spec, ImplementsNorFlash

-----------------------------------------------------------------------------
(* The inductive invariant of the history specification. *)
HInv == /\ TypeOK
        /\ recent \in [Window -> Writes \cup {NoWrite}]
        /\ StateMatchesWrites

(* The command state stays that of the last writes.                        *)
LEMMA HistoryInductive == HInv /\ [HNext]_hvars => HInv'
<1>1. ASSUME HInv, NEW w \in Writes, HWrite(w)
      PROVE  HInv'
  <2>1. TypeOK'
    BY <1>1, WriteTypeOK DEF HInv, HWrite
  <2>2. recent' \in [Window -> Writes \cup {NoWrite}]
    BY <1>1 DEF HInv, HWrite, Window
  <2>3. /\ recent'[1] = recent[2] /\ recent'[2] = recent[3]
        /\ recent'[3] = recent[4] /\ recent'[4] = recent[5]
        /\ recent'[5] = w
    BY <1>1 DEF HWrite, Window
  <2>4. w = <<w[1], w[2]>>
    BY WritesAssumption
  <2>5. flash_write(w[1], w[2])
    BY <1>1 DEF HWrite
  <2>6. StateMatchesWrites'
    <3>. USE DEF StateMatchesWrites, UnlockAt, Armed, EraseArmed
    <3>. StateMatchesWrites
      BY <1>1 DEF HInv
    <3>1. CASE Ready(w[1], w[2])
      BY <2>3, <2>4, <3>1 DEF Ready
    <3>2. CASE Cmd1(w[1], w[2])
      BY <2>3, <2>4, <3>2 DEF Cmd1
    <3>3. CASE Cmd2(w[1], w[2])
      BY <2>3, <2>4, <3>3 DEF Cmd2
    <3>4. CASE AutoSelect(w[1], w[2])
      BY <3>4 DEF AutoSelect
    <3>5. CASE Erase(w[1], w[2])
      BY <2>3, <2>4, <3>5 DEF Erase
    <3>6. CASE EraseCmd1(w[1], w[2])
      BY <2>3, <2>4, <3>6 DEF EraseCmd1
    <3>7. CASE EraseCmd2(w[1], w[2])
      BY <3>7 DEF EraseCmd2
    <3>8. CASE ProgramByte(w[1], w[2])
      BY <3>8 DEF ProgramByte
    <3>9. CASE BankSwitch(w[1], w[2])
      BY <3>9 DEF BankSwitch
    <3>. QED
      BY <2>5, <3>1, <3>2, <3>3, <3>4, <3>5, <3>6, <3>7, <3>8, <3>9 DEF flash_write
  <2>. QED BY <2>1, <2>2, <2>6 DEF HInv
<1>2. HInv /\ UNCHANGED hvars => HInv'
  BY DEF HInv, hvars, TypeOK, StateMatchesWrites, UnlockAt, Armed, EraseArmed
<1>. QED BY <1>1, <1>2 DEF HNext

(* HInv holds always.                                                      *)
LEMMA HistoryInvariant == HSpec => []HInv
<1>1. HInit => HInv
  <2>1. HInit => StateMatchesWrites
    BY DEF HInit, Init, flash_init, StateMatchesWrites
  <2>2. HInit => recent \in [Window -> Writes \cup {NoWrite}]
    BY DEF HInit
  <2>. QED BY <2>1, <2>2, InitTypeOK DEF HInit, HInv
<1>. QED BY <1>1, HistoryInductive, PTL DEF HSpec

(* The machine's state is what the last writes say it is.                  *)
THEOREM FlashStateMatchesWrites == HSpec => []StateMatchesWrites
  BY HistoryInvariant, PTL DEF HInv

(* Whatever the game writes, in any order, the cells of flash.data change  *)
(* only right after the complete unlock sequence of a program or an erase, *)
(* and the bank only after that of a bank switch.                          *)
THEOREM FlashOnlyCommandsChangeTheChip == HSpec => OnlyCommandsChangeTheChip
<1>1. ASSUME HInv, [HNext]_hvars
      PROVE  [ /\ data' # data => Armed(CmdProgram) \/ EraseArmed
               /\ bank' # bank => Armed(CmdBank) ]_hvars
  <2>1. ASSUME NEW w \in Writes, HWrite(w)
        PROVE  /\ data' # data => state \in {"WRITE", "ERASE_CMD2"}
               /\ bank' # bank => state = "BANKSWITCH"
    BY <2>1 DEF HWrite, flash_write, Ready, Cmd1, Cmd2, AutoSelect, Erase,
       EraseCmd1, EraseCmd2, ProgramByte, BankSwitch
  <2>2. StateMatchesWrites
    BY <1>1 DEF HInv
  <2>3. CASE HNext
    BY <2>1, <2>2, <2>3 DEF HNext, StateMatchesWrites
  <2>. QED BY <1>1, <2>3
<1>. QED BY <1>1, HistoryInvariant, PTL DEF HSpec, OnlyCommandsChangeTheChip

-----------------------------------------------------------------------------
(*                              The save file                              *)

(* While the file is being written, what the save is about is still the    *)
(* memory the bytes are taken from: nothing runs between Open and Close.   *)
SavingImage == power = "saving" => image = Memory /\ ~complete

ImageIsFunction == image = [p \in DOMAIN image |-> image[p]]

SInv == /\ save_type \in SaveType
        /\ power \in {"off", "on", "saving"}
        /\ NoMixedSave
        /\ SavingImage
        /\ ImageIsFunction

-----------------------------------------------------------------------------
(* The save memory has the size of its type.                               *)
LEMMA MemoryDomain == DOMAIN Memory = Area(save_type)
  BY DEF Memory

(* Steps that leave the file and its history alone.                        *)
LEMMA FileUntouched ==
  ASSUME NoMixedSave, ImageIsFunction, UNCHANGED <<save_type, file, image, complete>>
  PROVE  NoMixedSave' /\ ImageIsFunction'
  BY DEF NoMixedSave, ImageIsFunction, Area, Before

(* Before the first session.                                               *)
LEMMA SInitInv == SInit => SInv
<1>. SUFFICES ASSUME SInit PROVE SInv
  OBVIOUS
<1>1. save_type \in SaveType /\ power = "off" /\ file = NoFile /\ image = NoFile
      /\ complete = FALSE
  BY SaveTypesAssumption DEF SInit, CInit
<1>2. DOMAIN NoFile = {}
  BY DEF NoFile
<1>3. NoMixedSave
  BY <1>1, <1>2 DEF NoMixedSave
<1>4. ImageIsFunction
  BY <1>1 DEF ImageIsFunction, NoFile
<1>. QED BY <1>1, <1>3, <1>4 DEF SInv, SavingImage

(* Any step of a session, a save, a crash or a restart.                    *)
LEMMA SNextInv == SInv /\ [SNext]_svars => SInv'
<1>. SUFFICES ASSUME SInv, [SNext]_svars PROVE SInv'
  OBVIOUS
<1>. USE DEF SInv
<1>1. ASSUME NEW got \in Readable, SLoad(got) PROVE SInv'
  <2>1. UNCHANGED <<save_type, file, image, complete>> /\ power' = "on"
    BY <1>1 DEF SLoad, cartridge_load
  <2>. QED BY <2>1, FileUntouched DEF SavingImage
<1>2. ASSUME NEW w \in Writes, cartridge_write8(w[1], w[2]), UNCHANGED <<image, complete>>
      PROVE  SInv'
  <2>1. UNCHANGED <<save_type, file, image, complete, power>> /\ power = "on"
    BY <1>2 DEF cartridge_write8
  <2>. QED BY <2>1, FileUntouched DEF SavingImage
<1>3. CASE (QuitUnsaved \/ Crash) /\ UNCHANGED <<image, complete>>
  <2>1. UNCHANGED <<save_type, file, image, complete>> /\ power' = "off"
    BY <1>3 DEF QuitUnsaved, Crash
  <2>. QED BY <2>1, FileUntouched DEF SavingImage
<1>4. CASE Open /\ image' = Memory /\ complete' = FALSE
  <2>1. file' = NoFile /\ power' = "saving" /\ UNCHANGED <<save_type, sram, data>>
    BY <1>4 DEF Open, vars
  <2>2. Memory' = Memory
    BY <2>1 DEF Memory, Area
  <2>3. DOMAIN file' = {}
    BY <2>1 DEF NoFile
  <2>4. NoMixedSave'
    BY <2>3, <1>4 DEF NoMixedSave
  <2>5. ImageIsFunction'
    BY <1>4 DEF ImageIsFunction, Memory
  <2>. QED BY <2>1, <2>2, <2>4, <2>5, <1>4 DEF SavingImage
<1>5. ASSUME NEW p \in Place, WriteNext(p), UNCHANGED <<image, complete>>
      PROVE  SInv'
  <2>1. /\ power = "saving" /\ power' = "saving" /\ UNCHANGED <<save_type, sram, data>>
        /\ p \in Area(save_type) /\ p \notin DOMAIN file
        /\ \A q \in Area(save_type) : q \notin DOMAIN file => ~Before(q, p)
        /\ file' = [q \in DOMAIN file \cup {p} |-> IF q = p THEN Memory[p] ELSE file[q]]
    BY <1>5 DEF WriteNext, vars, Unsaved
  <2>2. Memory' = Memory /\ Area(save_type)' = Area(save_type)
    BY <2>1 DEF Memory, Area
  <2>3. image = Memory /\ ~complete /\ DOMAIN image = Area(save_type)
    BY <2>1, MemoryDomain DEF SavingImage
  <2>4. DOMAIN file' = DOMAIN file \cup {p}
    BY <2>1
  <2>5. \A q \in DOMAIN file' : q \in DOMAIN image' /\ file'[q] = image'[q]
    BY <2>1, <2>3, <2>4, <1>5 DEF NoMixedSave
  <2>6. \A r \in DOMAIN file', q \in Area(save_type)' : Before(q, r) => q \in DOMAIN file'
    BY <2>1, <2>2, <2>4 DEF NoMixedSave
  <2>7. NoMixedSave'
    BY <2>1, <2>2, <2>3, <2>4, <2>5, <2>6, <1>5 DEF NoMixedSave
  <2>8. ImageIsFunction'
    BY <1>5 DEF ImageIsFunction
  <2>. QED BY <2>1, <2>2, <2>3, <2>7, <2>8, <1>5 DEF SavingImage
<1>6. CASE Close /\ complete' = TRUE /\ UNCHANGED image
  <2>1. /\ power = "saving" /\ power' = "off" /\ UNCHANGED <<save_type, file, image>>
        /\ Area(save_type) \subseteq DOMAIN file
    BY <1>6 DEF Close, Unsaved
  <2>2. Area(save_type)' = Area(save_type)
    BY <2>1 DEF Area
  <2>3. DOMAIN image = Area(save_type)
    BY <2>1, MemoryDomain DEF SavingImage
  <2>4. NoMixedSave'
    BY <2>1, <2>2, <2>3 DEF NoMixedSave
  <2>. QED BY <2>1, <2>4 DEF SavingImage, ImageIsFunction
<1>7. CASE UNCHANGED svars
  <2>1. Memory' = Memory
    BY <1>7 DEF svars, Memory, Area
  <2>2. UNCHANGED <<save_type, file, image, complete, power>>
    BY <1>7 DEF svars
  <2>. QED BY <2>1, <2>2, FileUntouched DEF SavingImage
<1>. QED BY <1>1, <1>2, <1>3, <1>4, <1>5, <1>6, <1>7 DEF SNext, SNotLoad

(* Wherever the process dies (between any two bytes of the file), the save *)
(* file is an initial piece of one save, never a mixture of two            *)
(* (cartridge_save_to_file truncates before it writes).                    *)
THEOREM SaveFileNeverMixes == SSpec => []NoMixedSave
<1>1. SInv => NoMixedSave
  BY DEF SInv
<1>. QED BY <1>1, SInitInv, SNextInv, PTL DEF SSpec

-----------------------------------------------------------------------------
(* A first part of the save memory, and what a session finds that got it.  *)
FirstPart(got) == /\ got \subseteq Area(save_type)
                  /\ \A p \in got, q \in Area(save_type) : Before(q, p) => q \in got
Restored(got) == [p \in Area(save_type) |-> IF p \in got THEN image[p] ELSE Blank]

(* What cartridge_load_save_file puts in memory after a complete save.     *)
LEMMA LoadRestores ==
  ASSUME SInv, complete, NEW got \in Readable, cartridge_load(got)
  PROVE  FirstPart(got) /\ DOMAIN file = Area(save_type) /\ Memory' = Restored(got)
<1>. USE DEF SInv
<1>1. /\ UNCHANGED <<save_type, file>>
      /\ sram' = [o \in SramCell |-> IF save_type = "SRAM" THEN FromFile(got, <<0, o>>, {}) ELSE {}]
      /\ data' = [b \in Bank |-> [o \in Offsets |->
                    IF IsFlash /\ <<b, o>> \in Area(save_type) THEN FromFile(got, <<b, o>>, Erased)
                    ELSE Erased]]
  BY DEF cartridge_load
<1>2. /\ DOMAIN image = Area(save_type) /\ DOMAIN file = Area(save_type)
      /\ \A p \in Area(save_type) : file[p] = image[p]
  BY DEF NoMixedSave
<1>3. FirstPart(got)
  BY <1>2 DEF Readable, FirstPart
<1>4. \A p \in Area(save_type) :
         (IF save_type = "SRAM" THEN sram'[p[2]] ELSE data'[p[1]][p[2]])
           = IF p \in got THEN image[p] ELSE Blank
  <2>. SUFFICES ASSUME NEW p \in Area(save_type)
                PROVE  (IF save_type = "SRAM" THEN sram'[p[2]] ELSE data'[p[1]][p[2]])
                         = IF p \in got THEN image[p] ELSE Blank
    OBVIOUS
  <2>1. CASE save_type = "SRAM"
    <3>1. p[2] \in SramCell /\ p = <<0, p[2]>>
      BY <2>1 DEF Area
    <3>2. sram'[p[2]] = FromFile(got, <<0, p[2]>>, {}) /\ Blank = {}
      BY <3>1, <2>1, <1>1 DEF Blank, IsFlash
    <3>. QED BY <3>1, <3>2, <2>1, <1>2 DEF FromFile
  <2>2. CASE save_type # "SRAM"
    <3>1. IsFlash /\ Blank = Erased
      BY <2>2 DEF IsFlash, Area, SaveType, Blank
    <3>2. p[1] \in Bank /\ p[2] \in Offsets /\ p = <<p[1], p[2]>>
      BY <2>2, <3>1 DEF Area, Bank, IsFlash
    <3>3. data'[p[1]][p[2]] = FromFile(got, <<p[1], p[2]>>, Erased)
      BY <3>1, <3>2, <1>1
    <3>. QED BY <3>1, <3>2, <3>3, <2>2, <1>2 DEF FromFile
  <2>. QED BY <2>1, <2>2
<1>5. Memory' = [p \in Area(save_type) |->
                   IF save_type = "SRAM" THEN sram'[p[2]] ELSE data'[p[1]][p[2]]]
  BY <1>1 DEF Memory, Area
<1>. QED BY <1>2, <1>3, <1>4, <1>5 DEF Restored

(* A session that starts after a complete save begins with the save memory *)
(* that was saved (cartridge_load after cartridge_save_to_file), whatever  *)
(* sessions failed in between: all of it when the file can be opened and   *)
(* read to its end, else a first part of it and the rest blank.            *)
THEOREM CompleteSaveSurvives == SSpec => SaveSurvives
<1>. DEFINE Kept == \E got \in SUBSET Area(save_type) :
                      /\ \A p \in got, q \in Area(save_type) : Before(q, p) => q \in got
                      /\ readAll' => got = Area(save_type)
                      /\ Memory' = [p \in Area(save_type) |-> IF p \in got THEN image[p] ELSE Blank]
<1>1. SInv /\ [SNext]_svars => [power = "off" /\ power' = "on" /\ complete => Kept]_svars
  <2>. SUFFICES ASSUME SInv, SNext, power = "off", power' = "on", complete
                PROVE  Kept
    BY DEF svars
  <2>1. PICK got \in Readable : SLoad(got)
    BY DEF SNext, SNotLoad, cartridge_write8, QuitUnsaved, Open, WriteNext, Close, Crash
  <2>2. FirstPart(got) /\ DOMAIN file = Area(save_type) /\ Memory' = Restored(got)
    BY <2>1, LoadRestores DEF SLoad
  <2>3. readAll' => got = Area(save_type)
    BY <2>1, <2>2 DEF SLoad
  <2>. QED BY <2>2, <2>3 DEF FirstPart, Restored
<1>. QED BY <1>1, SInitInv, SNextInv, PTL DEF SSpec, SaveSurvives

-----------------------------------------------------------------------------
(*                                 The bus                                 *)

(* Division with remainder, and that there is only one.                    *)
LEMMA Division ==
  ASSUME NEW n \in Nat \ {0}, NEW a \in Nat
  PROVE  /\ a \div n \in Nat /\ a % n \in Nat /\ a % n < n
         /\ a = n * (a \div n) + (a % n)
  OBVIOUS

(* A quotient and a remainder are unique.                                  *)
LEMMA OneRemainder ==
  ASSUME NEW n \in Nat \ {0}, NEW a \in Nat, NEW q \in Nat, NEW r \in Nat, r < n, a = n * q + r
  PROVE  a % n = r /\ a \div n = q
<1>. DEFINE p == a \div n
            s == a % n
<1>1. p \in Nat /\ s \in Nat /\ s < n /\ a = n * p + s
  BY Division
<1>. HIDE DEF p, s
<1>2. ASSUME p < q PROVE FALSE
  <2>1. n * (p + 1) <= n * q
    BY <1>1, <1>2
  <2>. QED BY <1>1, <2>1
<1>3. ASSUME q < p PROVE FALSE
  <2>1. n * (q + 1) <= n * p
    BY <1>1, <1>3
  <2>. QED BY <1>1, <2>1
<1>4. p = q
  BY <1>1, <1>2, <1>3
<1>. QED BY <1>1, <1>4 DEF p, s

(* A memory whose size is a multiple of 4 repeats itself without cutting   *)
(* an aligned halfword or word in two.                                     *)
Stays(n, w, o, i) == /\ o % n \in Nat /\ (o % n) % w = 0
                     /\ (o + i) % n = (o % n) + i /\ (o % n) + i < n

(* The bytes of an aligned unit stay together where a memory repeats.      *)
LEMMA Repeats ==
  ASSUME NEW n \in Nat \ {0}, n % 4 = 0, NEW w \in {1, 2, 4}, NEW o \in Nat, o % w = 0,
         NEW i \in 0 .. w - 1
  PROVE  Stays(n, w, o, i)
<1>. DEFINE q == o \div n
            r == o % n
<1>0. PICK s \in Nat \ {0}, k \in Nat : n = 4 * s /\ o = w * k
  <2>1. n \div 4 \in Nat \ {0} /\ n = 4 * (n \div 4)
    OBVIOUS
  <2>2. o \div w \in Nat /\ o = w * (o \div w)
    OBVIOUS
  <2>. QED BY <2>1, <2>2
<1>1. q \in Nat /\ r \in Nat /\ r < n /\ o = n * q + r
  BY Division
<1>. HIDE DEF q, r
<1>2. s * q \in Nat /\ o = 4 * (s * q) + r
  BY <1>0, <1>1
<1>3. r % w = 0 /\ r + i < n
  BY <1>0, <1>1, <1>2
<1>4. o + i = n * q + (r + i) /\ r + i \in Nat /\ o + i \in Nat
  BY <1>1
<1>5. (o + i) % n = r + i
  BY <1>1, <1>3, <1>4, OneRemainder
<1>. QED BY <1>1, <1>3, <1>5 DEF r, Stays

-----------------------------------------------------------------------------
(* The memories that take stores have a multiple of four bytes.            *)
LEMMA Sizes ==
  /\ Mem!Regions = {"bios", "ram", "palette", "vram", "oam", "rom", "none"}
  /\ Mem!Writable = {"ram", "palette", "vram", "oam"}
  /\ \A r \in Mem!Writable : Mem!Size[r] \in Nat \ {0} /\ Mem!Size[r] % 4 = 0
  /\ Mem!Size["vram"] = 3 * Unit
  /\ \A r \in Mem!Regions : Mem!Size[r] \in Nat \ {0}
<1>1. PICK u \in Nat \ {0} : Unit = 4 * u
  BY BusAssumption
<1>2. /\ Mem!Regions = {"bios", "ram", "palette", "vram", "oam", "rom", "none"}
      /\ Mem!Writable = {"ram", "palette", "vram", "oam"}
  BY DEF Mem!Regions, Mem!Size, Mem!Writable, Mem!Video
<1>3. /\ Mem!Size["ram"] = 2 * Unit /\ Mem!Size["palette"] = Unit /\ Mem!Size["oam"] = Unit
      /\ Mem!Size["vram"] = 3 * Unit /\ Mem!Size["bios"] = Unit /\ Mem!Size["rom"] = 2 * Unit
      /\ Mem!Size["none"] = 1
  BY DEF Mem!Size
<1>4. \A r \in Mem!Writable : Mem!Size[r] \in Nat \ {0} /\ Mem!Size[r] % 4 = 0
  BY <1>1, <1>2, <1>3
<1>5. \A r \in Mem!Regions : Mem!Size[r] \in Nat \ {0}
  BY <1>1, <1>2, <1>3
<1>. QED BY <1>2, <1>3, <1>4, <1>5

(* The bytes of an aligned halfword or word lie next to each other,        *)
(* whatever mirror they are stored through.                                *)
Adjacent(r, w, o, i) == /\ Mem!Cell(<<r, o>>) \in Nat /\ Mem!Cell(<<r, o>>) % w = 0
                        /\ Mem!Cell(<<r, o + i>>) = Mem!Cell(<<r, o>>) + i
                        /\ Mem!Cell(<<r, o>>) + i < Mem!Size[r]

(* The cells of neighbouring addresses in an aligned unit are neighbours. *)
LEMMA CellSteps ==
  ASSUME NEW r \in Mem!Writable, NEW w \in {1, 2, 4}, NEW o \in Nat, o % w = 0,
         NEW i \in 0 .. w - 1
  PROVE  Adjacent(r, w, o, i)
<1>0. PICK u \in Nat \ {0} : Unit = 4 * u
  BY BusAssumption
<1>1. CASE r # "vram"
  <2>. DEFINE n == Mem!Size[r]
  <2>1. n \in Nat \ {0} /\ n % 4 = 0
    BY Sizes
  <2>2. \A x \in Nat : Mem!Cell(<<r, x>>) = x % n
    BY <1>1 DEF Mem!Cell
  <2>. HIDE DEF n
  <2>3. Mem!Cell(<<r, o>>) = o % n /\ Mem!Cell(<<r, o + i>>) = (o + i) % n
    BY <2>2
  <2>4. Stays(n, w, o, i)
    BY <2>1, Repeats
  <2>. QED BY <2>3, <2>4 DEF n, Stays, Adjacent
<1>2. CASE r = "vram"
  <2>. DEFINE n == 4 * Unit
              x == o % n
              y == (o + i) % n
  <2>1. n \in Nat \ {0} /\ n % 4 = 0 /\ n = 4 * Unit
    BY BusAssumption
  <2>2. /\ Mem!Cell(<<r, o>>) = IF x >= 3 * Unit THEN x - Unit ELSE x
        /\ Mem!Cell(<<r, o + i>>) = IF y >= 3 * Unit THEN y - Unit ELSE y
    BY <1>2 DEF Mem!Cell, Mem!vram_offset
  <2>. HIDE DEF n
  <2>3. x \in Nat /\ y = x + i /\ y < n /\ x % w = 0
    <3>1. Stays(n, w, o, i)
      BY <2>1, Repeats
    <3>. QED BY <3>1 DEF Stays
  <2>. HIDE DEF x, y
  <2>4. y >= 3 * Unit <=> x >= 3 * Unit
    BY <1>0, <2>1, <2>3
  <2>5. x >= 3 * Unit => (x - Unit) % w = 0 /\ x - Unit \in Nat
    BY <1>0, <2>1, <2>3
  <2>6. x < 3 * Unit => x + i < 3 * Unit
    BY <1>0, <2>1, <2>3
  <2>. QED BY <1>0, <1>2, <2>1, <2>2, <2>3, <2>4, <2>5, <2>6, Sizes DEF Adjacent
<1>. QED BY <1>1, <1>2

(* A byte of VRAM: in which quarter of 128KB, and where in it.             *)
LEMMA Quarters ==
  ASSUME NEW o \in Nat
  PROVE  \E d \in {0, 1, 2, 3}, e \in Nat :
           /\ e < Unit /\ o % (4 * Unit) = Unit * d + e
           /\ o % Unit = e /\ (o \div Unit) % 4 = d
<1>0. Unit \in Nat \ {0}
  BY BusAssumption
<1>. DEFINE q == o \div (4 * Unit)
            off == o % (4 * Unit)
            d == off \div Unit
            e == off % Unit
<1>1. q \in Nat /\ off \in Nat /\ off < 4 * Unit /\ o = (4 * Unit) * q + off
  <2>1. 4 * Unit \in Nat \ {0}
    BY <1>0
  <2>. QED BY <2>1, Division
<1>. HIDE DEF q, off
<1>2. d \in Nat /\ e \in Nat /\ e < Unit /\ off = Unit * d + e
  BY <1>0, <1>1, Division
<1>. HIDE DEF d, e
<1>3. d < 4
  <2>1. d >= 4 => Unit * d >= Unit * 4
    BY <1>0, <1>2
  <2>. QED BY <1>0, <1>1, <1>2, <2>1
<1>4. o = Unit * (4 * q + d) + e /\ 4 * q + d \in Nat
  BY <1>0, <1>1, <1>2
<1>5. o % Unit = e /\ o \div Unit = 4 * q + d
  BY <1>0, <1>2, <1>4, OneRemainder
<1>6. (4 * q + d) % 4 = d
  BY <1>1, <1>2, <1>3
<1>. QED BY <1>2, <1>3, <1>5, <1>6 DEF off

(* Two addresses mirror each other exactly when they reach one cell.       *)
LEMMA SameCell ==
  ASSUME NEW r \in Mem!Writable, NEW o \in Nat, NEW p \in Nat
  PROVE  Mem!SameByte(<<r, o>>, <<r, p>>) <=> Mem!Cell(<<r, o>>) = Mem!Cell(<<r, p>>)
<1>1. CASE r # "vram"
  BY <1>1 DEF Mem!SameByte, Mem!Cell
<1>2. CASE r = "vram"
  <2>0. Unit \in Nat \ {0}
    BY BusAssumption
  <2>1. PICK d \in {0, 1, 2, 3}, e \in Nat :
           /\ e < Unit /\ o % (4 * Unit) = Unit * d + e
           /\ o % Unit = e /\ (o \div Unit) % 4 = d
    BY Quarters
  <2>2. PICK f \in {0, 1, 2, 3}, g \in Nat :
           /\ g < Unit /\ p % (4 * Unit) = Unit * f + g
           /\ p % Unit = g /\ (p \div Unit) % 4 = f
    BY Quarters
  <2>3. Mem!SameByte(<<r, o>>, <<r, p>>) <=>
          Unit * d + e = Unit * f + g \/ (d \in {2, 3} /\ f \in {2, 3} /\ e = g)
    BY <1>2, <2>1, <2>2 DEF Mem!SameByte
  <2>4. /\ Mem!Cell(<<r, o>>) = IF Unit * d + e >= 3 * Unit THEN Unit * d + e - Unit ELSE Unit * d + e
        /\ Mem!Cell(<<r, p>>) = IF Unit * f + g >= 3 * Unit THEN Unit * f + g - Unit ELSE Unit * f + g
    <3>1. \A x \in Nat : Mem!Cell(<<r, x>>) = IF x % (4 * Unit) >= 3 * Unit
                                              THEN (x % (4 * Unit)) - Unit ELSE x % (4 * Unit)
      BY <1>2 DEF Mem!Cell, Mem!vram_offset
    <3>. DEFINE x == o % (4 * Unit)
                y == p % (4 * Unit)
    <3>2. /\ Mem!Cell(<<r, o>>) = IF x >= 3 * Unit THEN x - Unit ELSE x
          /\ Mem!Cell(<<r, p>>) = IF y >= 3 * Unit THEN y - Unit ELSE y
      BY <3>1
    <3>3. x = Unit * d + e /\ y = Unit * f + g /\ x \in Nat /\ y \in Nat
      BY <2>0, <2>1, <2>2
    <3>. HIDE DEF x, y
    <3>. QED BY <2>0, <3>2, <3>3
  <2>. QED BY <2>0, <2>1, <2>2, <2>3, <2>4
<1>. QED BY <1>1, <1>2

-----------------------------------------------------------------------------
(* Memories: every region has all of its bytes.                            *)
IsMemory(m) == /\ DOMAIN m = Mem!Regions
               /\ \A r \in Mem!Regions : DOMAIN m[r] = 0 .. Mem!Size[r] - 1

(* m2 is m1 with the n bytes v in the cells from c of region r.            *)
Wrote(m1, m2, r, c, n, v) ==
  /\ IsMemory(m2)
  /\ \A q \in Mem!Regions \ {r} : m2[q] = m1[q]
  /\ \A x \in 0 .. Mem!Size[r] - 1 :
       m2[r][x] = IF c <= x /\ x < c + n THEN v[x - c + 1] ELSE m1[r][x]

(* One byte in the RAM. *)
LEMMA ByteInRam ==
  ASSUME NEW m, IsMemory(m), NEW o \in Nat, NEW v
  PROVE  LET m2 == Mem!bus_write8(m, <<"ram", o>>, v)
         IN  /\ IsMemory(m2)
             /\ \A q \in Mem!Regions \ {"ram"} : m2[q] = m[q]
             /\ \A x \in 0 .. Mem!Size["ram"] - 1 :
                  m2["ram"][x] = IF x = Mem!Cell(<<"ram", o>>) THEN v ELSE m["ram"][x]
<1>. DEFINE m2 == Mem!bus_write8(m, <<"ram", o>>, v)
            c == Mem!Cell(<<"ram", o>>)
<1>1. m2 = [m EXCEPT !["ram"] = [@ EXCEPT ![c] = v]]
  BY DEF Mem!bus_write8
<1>2. "ram" \in Mem!Regions
  BY Sizes
<1>. HIDE DEF m2, c
<1>3. /\ DOMAIN m2 = Mem!Regions /\ \A q \in Mem!Regions \ {"ram"} : m2[q] = m[q]
      /\ m2["ram"] = [m["ram"] EXCEPT ![c] = v]
  BY <1>1, <1>2 DEF IsMemory
<1>4. DOMAIN m2["ram"] = 0 .. Mem!Size["ram"] - 1
  BY <1>2, <1>3 DEF IsMemory
<1>5. \A x \in 0 .. Mem!Size["ram"] - 1 : m2["ram"][x] = IF x = c THEN v ELSE m["ram"][x]
  BY <1>2, <1>3 DEF IsMemory
<1>6. IsMemory(m2)
  BY <1>3, <1>4 DEF IsMemory
<1>. QED BY <1>3, <1>5, <1>6 DEF m2, c

(* A byte goes into the RAM as it is, and into palette and VRAM twice.     *)
LEMMA WroteByte ==
  ASSUME NEW m, IsMemory(m), NEW r \in {"ram", "palette", "vram"}, NEW o \in Nat, NEW v
  PROVE  LET m2 == Mem!bus_write8(m, <<r, o>>, v)
             c == Mem!Cell(<<r, 2 * (o \div 2)>>)
         IN  IF r = "ram" THEN Wrote(m, m2, r, Mem!Cell(<<r, o>>), 1, <<v>>)
             ELSE Wrote(m, m2, r, c, 2, <<v, v>>)
<1>. DEFINE m2 == Mem!bus_write8(m, <<r, o>>, v)
            c == Mem!Cell(<<r, 2 * (o \div 2)>>)
            h == Mem!Cell(<<r, o>>)
<1>0. r \in Mem!Writable /\ r \in Mem!Regions
  BY Sizes
<1>1. CASE r = "ram"
  <2>1. h \in Nat
    <3>1. o % 1 = 0 /\ 0 \in 0 .. 1 - 1
      OBVIOUS
    <3>2. Adjacent(r, 1, o, 0)
      BY <1>0, <3>1, CellSteps
    <3>. QED BY <3>2 DEF Adjacent
  <2>. HIDE DEF h
  <2>2. /\ IsMemory(m2)
        /\ \A q \in Mem!Regions \ {r} : m2[q] = m[q]
        /\ \A x \in 0 .. Mem!Size[r] - 1 : m2[r][x] = IF x = h THEN v ELSE m[r][x]
    BY <1>1, ByteInRam DEF h
  <2>. HIDE DEF m2
  <2>3. Wrote(m, m2, r, h, 1, <<v>>)
    BY <2>1, <2>2, Sizes, <1>0 DEF Wrote
  <2>. QED BY <1>1, <2>3 DEF m2, h
<1>2. CASE r # "ram"
  <2>. DEFINE b == 2 * (o \div 2)
              i == o % 2
              half == 2 * (h \div 2)
              row == [m[r] EXCEPT ![half] = v, ![half + 1] = v]
  <2>1. b \in Nat /\ i \in 0 .. 2 - 1 /\ b + i = o /\ b % 2 = 0 /\ 1 \in 0 .. 2 - 1
    OBVIOUS
  <2>2. c \in Nat /\ c % 2 = 0 /\ c + 1 < Mem!Size[r] /\ h = c + i
    <3>. HIDE DEF b, i
    <3>1. Adjacent(r, 2, b, 1) /\ Adjacent(r, 2, b, i)
      BY <1>0, <2>1, CellSteps
    <3>. QED BY <2>1, <3>1 DEF b, Adjacent
  <2>. HIDE DEF c, h
  <2>3. half = c
    BY <2>1, <2>2
  <2>4. m2 = [m EXCEPT ![r] = row]
    BY <1>2 DEF Mem!bus_write8, h
  <2>. HIDE DEF m2, half
  <2>5. /\ DOMAIN row = 0 .. Mem!Size[r] - 1
        /\ \A x \in 0 .. Mem!Size[r] - 1 : row[x] = IF c <= x /\ x < c + 2 THEN <<v, v>>[x - c + 1] ELSE m[r][x]
    <3>1. DOMAIN row = 0 .. Mem!Size[r] - 1
      BY <1>0 DEF IsMemory
    <3>2. \A x \in 0 .. Mem!Size[r] - 1 : row[x] = IF x = c \/ x = c + 1 THEN v ELSE m[r][x]
      BY <1>0, <2>2, <2>3, Sizes DEF IsMemory
    <3>3. <<v, v>>[1] = v /\ <<v, v>>[2] = v
      OBVIOUS
    <3>4. ASSUME NEW x \in 0 .. Mem!Size[r] - 1, c <= x, x < c + 2
          PROVE  (x = c \/ x = c + 1) /\ <<v, v>>[x - c + 1] = v
      <4>1. x = c \/ x = c + 1
        BY <1>0, <2>2, <3>4, Sizes
      <4>2. x - c + 1 = 1 \/ x - c + 1 = 2
        BY <4>1, <2>2
      <4>. QED BY <4>1, <4>2, <3>3
    <3>5. ASSUME NEW x \in 0 .. Mem!Size[r] - 1, x = c \/ x = c + 1
          PROVE  c <= x /\ x < c + 2
      BY <2>2, <3>5
    <3>. HIDE DEF row
    <3>. QED BY <3>1, <3>2, <3>4, <3>5
  <2>. HIDE DEF row
  <2>6. IsMemory(m2) /\ m2[r] = row /\ \A q \in Mem!Regions \ {r} : m2[q] = m[q]
    BY <1>0, <2>4, <2>5 DEF IsMemory
  <2>7. Wrote(m, m2, r, c, 2, <<v, v>>)
    BY <2>5, <2>6 DEF Wrote
  <2>. QED BY <1>2, <2>7 DEF m2, c
<1>. QED BY <1>1, <1>2

(* What each cell holds after a write of bytes.                            *)
LEMMA WroteEach ==
  ASSUME NEW m1, NEW m2, NEW r \in Mem!Regions, NEW c \in Nat, NEW n \in Nat, NEW v,
         IsMemory(m2), \A q \in Mem!Regions \ {r} : m2[q] = m1[q],
         \A i \in 0 .. n - 1 : m2[r][c + i] = v[i + 1],
         \A x \in 0 .. Mem!Size[r] - 1 : x < c \/ x >= c + n => m2[r][x] = m1[r][x]
  PROVE  Wrote(m1, m2, r, c, n, v)
<1>1. ASSUME NEW x \in 0 .. Mem!Size[r] - 1
      PROVE  m2[r][x] = IF c <= x /\ x < c + n THEN v[x - c + 1] ELSE m1[r][x]
  <2>0. x \in Nat
    BY Sizes
  <2>1. CASE c <= x /\ x < c + n
    <3>. DEFINE i == x - c
    <3>1. i \in 0 .. n - 1 /\ c + i = x
      BY <2>0, <2>1
    <3>. QED BY <2>1, <3>1
  <2>2. CASE ~(c <= x /\ x < c + n)
    BY <2>0, <2>2
  <2>. QED BY <2>1, <2>2
<1>. QED BY <1>1 DEF Wrote

(* Halfwords and words go into their memory as they are, from the address  *)
(* forced to alignment.                                                    *)
LEMMA WroteWide ==
  ASSUME NEW m, IsMemory(m), NEW r \in Mem!Writable, NEW o \in Nat, NEW n \in {2, 4},
         NEW v, Len(v) = n
  PROVE  Wrote(m, Mem!bus_write(m, <<r, o>>, v), r, Mem!Cell(<<r, n * (o \div n)>>), n, v)
<1>. DEFINE b == n * (o \div n)
            c == Mem!Cell(<<r, b>>)
            m2 == Mem!bus_write(m, <<r, o>>, v)
<1>0. r \in Mem!Regions /\ Mem!Size[r] \in Nat
  BY Sizes
<1>1. b \in Nat /\ b % n = 0
  OBVIOUS
<1>2. \A i \in 0 .. n - 1 : Mem!Cell(<<r, b + i>>) = c + i /\ c + i < Mem!Size[r] /\ c \in Nat
  <2>. HIDE DEF b
  <2>1. n \in {1, 2, 4}
    OBVIOUS
  <2>2. \A i \in 0 .. n - 1 : Adjacent(r, n, b, i)
    BY <1>1, <2>1, CellSteps
  <2>. QED BY <2>2 DEF Adjacent
<1>3. c \in Nat
  BY <1>2
<1>4. CASE r = "ram" /\ n = 2
  <2>. DEFINE ma == Mem!bus_write8(m, <<r, b>>, v[1])
              mb == Mem!bus_write8(ma, <<r, b + 1>>, v[2])
  <2>0. m2 = mb
    BY <1>4 DEF Mem!bus_write, Mem!bus_write16, Mem!Aligned, Mem!Plus, Mem!Video
  <2>c. Mem!Cell(<<r, b + 1>>) = c + 1 /\ c + 1 < Mem!Size[r]
    BY <1>2, <1>4
  <2>. HIDE DEF b, m2
  <2>1. /\ IsMemory(ma)
        /\ \A q \in Mem!Regions \ {r} : ma[q] = m[q]
        /\ \A x \in 0 .. Mem!Size[r] - 1 : ma[r][x] = IF x = c THEN v[1] ELSE m[r][x]
    BY <1>1, <1>4, ByteInRam
  <2>. HIDE DEF ma, c
  <2>2. /\ IsMemory(mb)
        /\ \A q \in Mem!Regions \ {r} : mb[q] = ma[q]
        /\ \A x \in 0 .. Mem!Size[r] - 1 : mb[r][x] = IF x = c + 1 THEN v[2] ELSE ma[r][x]
    <3>1. b + 1 \in Nat
      BY <1>1
    <3>. QED BY <3>1, <1>4, <2>1, <2>c, ByteInRam
  <2>. HIDE DEF mb
  <2>3. \A i \in 0 .. n - 1 : mb[r][c + i] = v[i + 1]
    <3>1. mb[r][c] = v[1] /\ mb[r][c + 1] = v[2]
      BY <1>0, <1>3, <2>1, <2>2, <2>c
    <3>2. 0 .. n - 1 = {0, 1} /\ c + 0 = c
      BY <1>3, <1>4
    <3>. QED BY <3>1, <3>2
  <2>4. \A x \in 0 .. Mem!Size[r] - 1 : x < c \/ x >= c + n => mb[r][x] = m[r][x]
    BY <1>0, <1>3, <1>4, <2>1, <2>2
  <2>5. Wrote(m, mb, r, c, n, v)
    <3>1. IsMemory(mb) /\ \A q \in Mem!Regions \ {r} : mb[q] = m[q]
      BY <2>1, <2>2
    <3>2. n \in Nat
      OBVIOUS
    <3>. QED BY <1>0, <1>3, <2>3, <2>4, <3>1, <3>2, WroteEach
  <2>. QED BY <2>0, <2>5 DEF m2, c, b
<1>5. CASE r = "ram" /\ n = 4
  <2>. DEFINE ma == Mem!bus_write8(m, <<r, b>>, v[1])
              mb == Mem!bus_write8(ma, <<r, b + 1>>, v[2])
              mc == Mem!bus_write8(mb, <<r, b + 2>>, v[3])
              md == Mem!bus_write8(mc, <<r, b + 3>>, v[4])
  <2>0. m2 = md
    BY <1>5 DEF Mem!bus_write, Mem!bus_write32, Mem!Aligned, Mem!Plus, Mem!Video
  <2>c. /\ Mem!Cell(<<r, b + 1>>) = c + 1 /\ Mem!Cell(<<r, b + 2>>) = c + 2
        /\ Mem!Cell(<<r, b + 3>>) = c + 3 /\ c + 3 < Mem!Size[r]
    BY <1>2, <1>5
  <2>b. b + 1 \in Nat /\ b + 2 \in Nat /\ b + 3 \in Nat
    BY <1>1
  <2>. HIDE DEF b, m2
  <2>1. /\ IsMemory(ma)
        /\ \A q \in Mem!Regions \ {r} : ma[q] = m[q]
        /\ \A x \in 0 .. Mem!Size[r] - 1 : ma[r][x] = IF x = c THEN v[1] ELSE m[r][x]
    BY <1>1, <1>5, ByteInRam
  <2>. HIDE DEF ma, c
  <2>2. /\ IsMemory(mb)
        /\ \A q \in Mem!Regions \ {r} : mb[q] = ma[q]
        /\ \A x \in 0 .. Mem!Size[r] - 1 : mb[r][x] = IF x = c + 1 THEN v[2] ELSE ma[r][x]
    BY <2>b, <1>5, <2>1, <2>c, ByteInRam
  <2>. HIDE DEF mb
  <2>3. /\ IsMemory(mc)
        /\ \A q \in Mem!Regions \ {r} : mc[q] = mb[q]
        /\ \A x \in 0 .. Mem!Size[r] - 1 : mc[r][x] = IF x = c + 2 THEN v[3] ELSE mb[r][x]
    BY <2>b, <1>5, <2>2, <2>c, ByteInRam
  <2>. HIDE DEF mc
  <2>4. /\ IsMemory(md)
        /\ \A q \in Mem!Regions \ {r} : md[q] = mc[q]
        /\ \A x \in 0 .. Mem!Size[r] - 1 : md[r][x] = IF x = c + 3 THEN v[4] ELSE mc[r][x]
    BY <2>b, <1>5, <2>3, <2>c, ByteInRam
  <2>. HIDE DEF md
  <2>5. \A i \in 0 .. n - 1 : md[r][c + i] = v[i + 1]
    <3>1. md[r][c] = v[1] /\ md[r][c + 1] = v[2] /\ md[r][c + 2] = v[3] /\ md[r][c + 3] = v[4]
      <4>1. /\ c \in 0 .. Mem!Size[r] - 1 /\ c + 1 \in 0 .. Mem!Size[r] - 1
            /\ c + 2 \in 0 .. Mem!Size[r] - 1 /\ c + 3 \in 0 .. Mem!Size[r] - 1
        BY <1>0, <1>3, <2>c
      <4>2. md[r][c + 3] = v[4]
        BY <4>1, <2>4
      <4>3. md[r][c + 2] = v[3]
        BY <4>1, <1>3, <2>3, <2>4
      <4>4. md[r][c + 1] = v[2]
        BY <4>1, <1>3, <2>2, <2>3, <2>4
      <4>5. md[r][c] = v[1]
        BY <4>1, <1>3, <2>1, <2>2, <2>3, <2>4
      <4>. QED BY <4>2, <4>3, <4>4, <4>5
    <3>2. 0 .. n - 1 = {0, 1, 2, 3} /\ c + 0 = c
      BY <1>3, <1>5
    <3>. QED BY <3>1, <3>2
  <2>6. \A x \in 0 .. Mem!Size[r] - 1 : x < c \/ x >= c + n => md[r][x] = m[r][x]
    BY <1>0, <1>3, <1>5, <2>1, <2>2, <2>3, <2>4
  <2>7. Wrote(m, md, r, c, n, v)
    <3>1. IsMemory(md) /\ \A q \in Mem!Regions \ {r} : md[q] = m[q]
      BY <2>1, <2>2, <2>3, <2>4
    <3>2. n \in Nat
      OBVIOUS
    <3>. QED BY <1>0, <1>3, <2>5, <2>6, <3>1, <3>2, WroteEach
  <2>. QED BY <2>0, <2>7 DEF m2, c, b
<1>6. CASE r # "ram"
  <2>. DEFINE row2 == [m[r] EXCEPT ![c] = v[1], ![c + 1] = v[2]]
              row4 == [m[r] EXCEPT ![c] = v[1], ![Mem!Cell(<<r, b + 1>>)] = v[2],
                                   ![Mem!Cell(<<r, b + 2>>)] = v[3], ![Mem!Cell(<<r, b + 3>>)] = v[4]]
              row == IF n = 2 THEN row2 ELSE row4
  <2>v. r \in Mem!Video
    BY <1>6 DEF Mem!Writable
  <2>0. m2 = [m EXCEPT ![r] = row]
    <3>1. CASE n = 2
      BY <2>v, <3>1 DEF Mem!bus_write, Mem!bus_write16, Mem!Aligned
    <3>2. CASE n = 4
      BY <2>v, <3>2 DEF Mem!bus_write, Mem!bus_write32, Mem!Aligned, Mem!Plus
    <3>. QED BY <3>1, <3>2
  <2>1. c + n - 1 < Mem!Size[r] /\ n \in Nat
    <3>1. n - 1 \in 0 .. n - 1
      OBVIOUS
    <3>2. c + (n - 1) < Mem!Size[r]
      BY <1>2, <3>1
    <3>. HIDE DEF c
    <3>. QED BY <1>0, <1>3, <3>2
  <2>2. /\ DOMAIN row = 0 .. Mem!Size[r] - 1
        /\ \A i \in 0 .. n - 1 : row[c + i] = v[i + 1]
        /\ \A x \in 0 .. Mem!Size[r] - 1 : x < c \/ x >= c + n => row[x] = m[r][x]
    <3>1. CASE n = 2
      <4>. HIDE DEF b, c
      <4>1. DOMAIN row2 = 0 .. Mem!Size[r] - 1
        BY <1>0 DEF IsMemory
      <4>2. row2[c] = v[1] /\ row2[c + 1] = v[2]
        BY <1>0, <1>3, <2>1, <3>1 DEF IsMemory
      <4>3. \A x \in 0 .. Mem!Size[r] - 1 : x < c \/ x >= c + n => row2[x] = m[r][x]
        BY <1>0, <1>3, <3>1 DEF IsMemory
      <4>4. 0 .. n - 1 = {0, 1} /\ c + 0 = c /\ row = row2
        BY <1>3, <3>1
      <4>. HIDE DEF row, row2
      <4>. QED BY <4>1, <4>2, <4>3, <4>4
    <3>2. CASE n = 4
      <4>. DEFINE row5 == [m[r] EXCEPT ![c] = v[1], ![c + 1] = v[2], ![c + 2] = v[3], ![c + 3] = v[4]]
      <4>0. row = row5
        <5>. HIDE DEF b
        <5>1. /\ Mem!Cell(<<r, b + 1>>) = c + 1 /\ Mem!Cell(<<r, b + 2>>) = c + 2
              /\ Mem!Cell(<<r, b + 3>>) = c + 3
          BY <1>2, <3>2
        <5>. QED BY <5>1, <3>2
      <4>. HIDE DEF b, c, row
      <4>1. DOMAIN row5 = 0 .. Mem!Size[r] - 1
        BY <1>0 DEF IsMemory
      <4>2. row5[c] = v[1] /\ row5[c + 1] = v[2] /\ row5[c + 2] = v[3] /\ row5[c + 3] = v[4]
        BY <1>0, <1>3, <2>1, <3>2 DEF IsMemory
      <4>3. \A x \in 0 .. Mem!Size[r] - 1 : x < c \/ x >= c + n => row5[x] = m[r][x]
        BY <1>0, <1>3, <3>2 DEF IsMemory
      <4>4. 0 .. n - 1 = {0, 1, 2, 3} /\ c + 0 = c
        BY <1>3, <3>2
      <4>. HIDE DEF row5
      <4>. QED BY <4>0, <4>1, <4>2, <4>3, <4>4
    <3>. QED BY <3>1, <3>2
  <2>. HIDE DEF row, m2
  <2>3. IsMemory(m2) /\ m2[r] = row /\ \A q \in Mem!Regions \ {r} : m2[q] = m[q]
    BY <1>0, <2>0, <2>2 DEF IsMemory
  <2>. HIDE DEF c
  <2>4. Wrote(m, m2, r, c, n, v)
    BY <1>0, <1>3, <2>1, <2>2, <2>3, WroteEach
  <2>. QED BY <2>4 DEF m2, c, b
<1>. QED BY <1>4, <1>5, <1>6

-----------------------------------------------------------------------------
(* The n bytes v, stored from offset o of region r, are in m2 at all of    *)
(* their mirrors, and every other address holds what it held in m1.        *)
Hits(q, p, r, o) == r \in Mem!Writable /\ Mem!SameByte(<<q, p>>, <<r, o>>)

Landed(m1, m2, r, o, n, v) ==
  \A q \in Mem!Regions, p \in Nat :
    /\ (\A i \in 1..n : ~Hits(q, p, r, o + (i - 1)))
          => m2[q][Mem!Cell(<<q, p>>)] = m1[q][Mem!Cell(<<q, p>>)]
    /\ (\E i \in 1..n : Hits(q, p, r, o + (i - 1)))
          => \E i \in 1..n : Hits(q, p, r, o + (i - 1)) /\ m2[q][Mem!Cell(<<q, p>>)] = v[i]

(* Written bytes are read back through every mirror.                       *)
LEMMA WroteLands ==
  ASSUME NEW m1, NEW m2, NEW r \in Mem!Writable, NEW n \in {1, 2, 4}, NEW o \in Nat, o % n = 0,
         NEW v, Wrote(m1, m2, r, Mem!Cell(<<r, o>>), n, v)
  PROVE  Landed(m1, m2, r, o, n, v)
<1>. DEFINE c == Mem!Cell(<<r, o>>)
<1>1. \A i \in 1..n : o + (i - 1) \in Nat /\ Mem!Cell(<<r, o + (i - 1)>>) = c + (i - 1) /\ c \in Nat
  <2>1. \A i \in 0 .. n - 1 : Adjacent(r, n, o, i)
    BY CellSteps
  <2>2. \A i \in 1..n : i - 1 \in 0 .. n - 1
    OBVIOUS
  <2>. QED BY <2>1, <2>2 DEF Adjacent
<1>2. c \in Nat /\ 1 \in 1..n
  BY <1>1
<1>. HIDE DEF c
<1>3. SUFFICES ASSUME NEW q \in Mem!Regions, NEW p \in Nat
      PROVE  /\ (\A i \in 1..n : ~Hits(q, p, r, o + (i - 1)))
                   => m2[q][Mem!Cell(<<q, p>>)] = m1[q][Mem!Cell(<<q, p>>)]
             /\ (\E i \in 1..n : Hits(q, p, r, o + (i - 1)))
                   => \E i \in 1..n : Hits(q, p, r, o + (i - 1)) /\ m2[q][Mem!Cell(<<q, p>>)] = v[i]
  BY DEF Landed
<1>. DEFINE z == Mem!Cell(<<q, p>>)
<1>4. CASE q # r
  <2>1. \A i \in 1..n : ~Hits(q, p, r, o + (i - 1))
    BY <1>4 DEF Hits, Mem!SameByte
  <2>. QED BY <2>1, <1>4 DEF Wrote
<1>5. CASE q = r
  <2>1. z \in 0 .. Mem!Size[r] - 1
    <3>1. p % 1 = 0 /\ 0 \in 0 .. 1 - 1 /\ Mem!Size[r] \in Nat
      BY Sizes
    <3>2. Adjacent(r, 1, p, 0)
      BY <3>1, CellSteps
    <3>. QED BY <1>5, <3>1, <3>2 DEF Adjacent
  <2>2. \A i \in 1..n : Hits(q, p, r, o + (i - 1)) <=> z = c + (i - 1)
    BY <1>1, <1>5, SameCell DEF Hits
  <2>. HIDE DEF z
  <2>3. m2[r][z] = IF c <= z /\ z < c + n THEN v[z - c + 1] ELSE m1[r][z]
    BY <2>1 DEF Wrote, c
  <2>4. (\A i \in 1..n : z # c + (i - 1)) => ~(c <= z /\ z < c + n)
    <3>1. SUFFICES ASSUME c <= z, z < c + n PROVE \E i \in 1..n : z = c + (i - 1)
      OBVIOUS
    <3>2. z - c + 1 \in 1..n /\ z = c + ((z - c + 1) - 1)
      BY <1>2, <2>1, <3>1, Sizes
    <3>. QED BY <3>2
  <2>5. \A i \in 1..n : z = c + (i - 1) => c <= z /\ z < c + n /\ z - c + 1 = i
    BY <1>2
  <2>. QED BY <1>5, <2>2, <2>3, <2>4, <2>5 DEF z
<1>. QED BY <1>4, <1>5

(* Whatever is stored wherever lands there; stores to the BIOS, to the ROM *)
(* and to no memory at all leave everything as it was.                     *)
LEMMA StoreLands ==
  ASSUME NEW m, IsMemory(m), NEW r \in Mem!Regions, NEW o \in Nat, NEW n \in {2, 4},
         NEW v, Len(v) = n
  PROVE  LET m2 == Mem!bus_write(m, <<r, o>>, v)
         IN  IsMemory(m2) /\ Landed(m, m2, r, n * (o \div n), n, v)
<1>. DEFINE m2 == Mem!bus_write(m, <<r, o>>, v)
            b == n * (o \div n)
<1>1. b \in Nat /\ b % n = 0 /\ n \in {1, 2, 4}
  OBVIOUS
<1>2. CASE r \in Mem!Writable
  <2>1. Wrote(m, m2, r, Mem!Cell(<<r, b>>), n, v)
    BY <1>2, WroteWide
  <2>. HIDE DEF m2, b
  <2>2. Landed(m, m2, r, b, n, v)
    BY <1>1, <1>2, <2>1, WroteLands
  <2>3. IsMemory(m2)
    BY <2>1 DEF Wrote
  <2>. QED BY <2>2, <2>3 DEF m2, b
<1>3. CASE r \notin Mem!Writable
  <2>0. r \in {"bios", "rom", "none"}
    BY <1>3, Sizes
  <2>1. \A x, y : Mem!bus_write8(m, <<r, x>>, y) = m
    BY <2>0 DEF Mem!bus_write8
  <2>2. m2 = m
    <3>1. CASE n = 2
      BY <2>0, <2>1, <3>1 DEF Mem!bus_write, Mem!bus_write16, Mem!Aligned, Mem!Plus, Mem!Video
    <3>2. CASE n = 4
      BY <2>0, <2>1, <3>2 DEF Mem!bus_write, Mem!bus_write32, Mem!Aligned, Mem!Plus, Mem!Video
    <3>. QED BY <3>1, <3>2
  <2>. HIDE DEF m2
  <2>. QED BY <1>3, <2>2 DEF Landed, Hits, m2
<1>. QED BY <1>2, <1>3

(* An address is a region and an offset.                                   *)
LEMMA AddressIs ==
  ASSUME NEW x \in Mem!Address
  PROVE  x[1] \in Mem!Regions /\ x[2] \in Nat /\ x = <<x[1], x[2]>>
<1>1. PICK q \in Mem!Regions :
        x \in {q} \X (0 .. 2 * (IF q = "vram" THEN 4 * Unit ELSE Mem!Size[q]) - 1)
  BY DEF Mem!Address
<1>2. (IF q = "vram" THEN 4 * Unit ELSE Mem!Size[q]) \in Nat
  BY Sizes, BusAssumption
<1>. QED BY <1>1, <1>2

(* What landed is what programs read.                                      *)
LEMMA LandedArrives ==
  ASSUME NEW m1, NEW m2, NEW r \in Mem!Regions, NEW o \in Nat, NEW n \in Nat, NEW v, Len(v) = n,
         Landed(m1, m2, r, o, n, v)
  PROVE  Mem!Arrived(m1, m2, <<r, o>>, v)
<1>2. SUFFICES ASSUME NEW x \in Mem!Address
      PROVE  LET hit == {i \in 1 .. Len(v) : r \in Mem!Writable
                                             /\ Mem!SameByte(x, Mem!Plus(<<r, o>>, i - 1))}
             IN  IF hit = {} THEN Mem!bus_read8(m2, x) = Mem!bus_read8(m1, x)
                 ELSE \E i \in hit : Mem!bus_read8(m2, x) = v[i]
  BY DEF Mem!Arrived
<1>. DEFINE q == x[1]
            p == x[2]
            hit == {i \in 1 .. Len(v) : r \in Mem!Writable
                                         /\ Mem!SameByte(x, Mem!Plus(<<r, o>>, i - 1))}
            H(i) == Hits(q, p, r, o + (i - 1))
<1>3. q \in Mem!Regions /\ p \in Nat /\ x = <<q, p>>
  BY AddressIs
<1>4. hit = {i \in 1..n : H(i)}
  BY <1>3 DEF Hits, Mem!Plus
<1>. HIDE DEF q, p
<1>5. /\ (\A i \in 1..n : ~H(i)) => m2[q][Mem!Cell(<<q, p>>)] = m1[q][Mem!Cell(<<q, p>>)]
      /\ (\E i \in 1..n : H(i)) => \E i \in 1..n : H(i) /\ m2[q][Mem!Cell(<<q, p>>)] = v[i]
  BY <1>3 DEF Landed
<1>6. ASSUME NEW i \in 1..n, H(i) PROVE q \in Mem!Writable
  BY <1>6, <1>3 DEF Hits, Mem!SameByte
<1>7. q \in Mem!Writable => Mem!bus_read8(m2, x) = m2[q][Mem!Cell(<<q, p>>)]
  BY <1>3, Sizes DEF Mem!bus_read8
<1>8. m2[q][Mem!Cell(<<q, p>>)] = m1[q][Mem!Cell(<<q, p>>)] => Mem!bus_read8(m2, x) = Mem!bus_read8(m1, x)
  BY <1>3 DEF Mem!bus_read8
<1>. HIDE DEF hit, H
<1>9. CASE hit = {}
  BY <1>4, <1>5, <1>8, <1>9 DEF hit
<1>10. CASE hit # {}
  <2>1. PICK i \in 1..n : H(i) /\ m2[q][Mem!Cell(<<q, p>>)] = v[i]
    BY <1>4, <1>5, <1>10
  <2>2. i \in hit /\ Mem!bus_read8(m2, x) = v[i]
    BY <1>4, <1>6, <1>7, <2>1
  <2>. QED BY <1>10, <2>2 DEF hit
<1>. QED BY <1>9, <1>10

(* The same for a byte: double in palette and VRAM, nowhere in OAM.        *)
LEMMA ByteLands ==
  ASSUME NEW m, IsMemory(m), NEW r \in Mem!Regions, NEW o \in Nat, NEW v
  PROVE  LET m2 == Mem!bus_write8(m, <<r, o>>, v)
         IN  /\ IsMemory(m2)
             /\ r = "oam" => m2 = m
             /\ r \in {"palette", "vram"} => Landed(m, m2, r, 2 * (o \div 2), 2, <<v, v>>)
             /\ r \notin {"palette", "vram", "oam"} => Landed(m, m2, r, o, 1, <<v>>)
<1>. DEFINE m2 == Mem!bus_write8(m, <<r, o>>, v)
            b == 2 * (o \div 2)
<1>1. CASE r = "ram"
  <2>1. Wrote(m, m2, r, Mem!Cell(<<r, o>>), 1, <<v>>)
    BY <1>1, WroteByte
  <2>. HIDE DEF m2
  <2>2. o % 1 = 0 /\ r \in Mem!Writable
    BY <1>1, Sizes
  <2>3. Landed(m, m2, r, o, 1, <<v>>)
    BY <2>1, <2>2, WroteLands
  <2>4. IsMemory(m2)
    BY <2>1 DEF Wrote
  <2>. QED BY <1>1, <2>3, <2>4 DEF m2
<1>2. CASE r \in {"palette", "vram"}
  <2>1. Wrote(m, m2, r, Mem!Cell(<<r, b>>), 2, <<v, v>>)
    BY <1>2, WroteByte
  <2>2. b \in Nat /\ b % 2 = 0
    OBVIOUS
  <2>. HIDE DEF m2, b
  <2>3. r \in Mem!Writable
    BY <1>2, Sizes
  <2>4. Landed(m, m2, r, b, 2, <<v, v>>)
    BY <2>1, <2>2, <2>3, WroteLands
  <2>5. IsMemory(m2)
    BY <2>1 DEF Wrote
  <2>. QED BY <1>2, <2>4, <2>5 DEF m2, b
<1>3. CASE r \notin {"ram", "palette", "vram"}
  <2>1. m2 = m
    BY <1>3 DEF Mem!bus_write8
  <2>. HIDE DEF m2
  <2>2. r \notin {"palette", "vram", "oam"} => r \notin Mem!Writable
    BY <1>3, Sizes
  <2>3. r \notin {"palette", "vram", "oam"} => Landed(m, m2, r, o, 1, <<v>>)
    BY <2>1, <2>2 DEF Landed, Hits
  <2>. QED BY <1>3, <2>1, <2>3 DEF m2
<1>. QED BY <1>1, <1>2, <1>3

-----------------------------------------------------------------------------
(* An invariant of the bus: what a store did, until the program sets its   *)
(* memory up again.                                                        *)
Stored == op.kind = "store" =>
            /\ call = Mem!Idle
            /\ \E r \in Mem!Regions, o \in Nat, n \in {1, 2, 4} :
                 /\ op.to = <<r, o>> /\ op.bytes = [i \in 1..n |-> 200 + i]
                 /\ mem = Mem!bus_write(before, op.to, op.bytes)
BusMemory == IsMemory(mem) /\ IsMemory(before)

(* The invariant of stores gives the property.                             *)
LEMMA StoredIsSeen == BusMemory /\ Stored => StoresSeenEverywhere
<1>1. SUFFICES ASSUME BusMemory, Stored, op.kind = "store" PROVE StoresSeenEverywhere
  BY DEF StoresSeenEverywhere, Mem!StoresSeenEverywhere
<1>2. PICK r \in Mem!Regions, o \in Nat, n \in {1, 2, 4} :
        /\ op.to = <<r, o>> /\ op.bytes = [i \in 1..n |-> 200 + i]
        /\ mem = Mem!bus_write(before, op.to, op.bytes)
  BY <1>1 DEF Stored
<1>. DEFINE v == op.bytes
<1>3. Len(v) = n
  BY <1>2
<1>4. CASE n \in {2, 4}
  <2>. DEFINE b == n * (o \div n)
  <2>1. b \in Nat /\ n \in Nat /\ Mem!Aligned(<<r, o>>, n) = <<r, b>>
    BY DEF Mem!Aligned
  <2>a. mem = Mem!bus_write(before, <<r, o>>, v) /\ op.to = <<r, o>> /\ Len(op.bytes) = n /\ n # 1
    BY <1>2, <1>3, <1>4
  <2>. HIDE DEF v
  <2>2. Landed(before, mem, r, b, n, v)
    BY <1>1, <1>3, <1>4, <2>a, StoreLands DEF BusMemory
  <2>. HIDE DEF b
  <2>3. Mem!Arrived(before, mem, <<r, b>>, v)
    BY <1>3, <2>1, <2>2, LandedArrives
  <2>. QED BY <2>a, <2>1, <2>3 DEF StoresSeenEverywhere, Mem!StoresSeenEverywhere, v
<1>5. CASE n = 1
  <2>1. mem = Mem!bus_write8(before, <<r, o>>, v[1])
    BY <1>2, <1>3, <1>5 DEF Mem!bus_write
  <2>v. v = <<v[1]>>
    BY <1>2, <1>5
  <2>. HIDE DEF v
  <2>2. /\ r = "oam" => mem = before
        /\ r \in {"palette", "vram"} => Landed(before, mem, r, 2 * (o \div 2), 2, <<v[1], v[1]>>)
        /\ r \notin {"palette", "vram", "oam"} => Landed(before, mem, r, o, 1, <<v[1]>>)
    BY <1>1, <2>1, ByteLands DEF BusMemory
  <2>3. CASE r \in {"palette", "vram"}
    <3>. DEFINE b == 2 * (o \div 2)
                v2 == <<v[1], v[1]>>
    <3>1. b \in Nat /\ Mem!Aligned(<<r, o>>, 2) = <<r, b>> /\ Len(v2) = 2
      BY DEF Mem!Aligned
    <3>2. Landed(before, mem, r, b, 2, v2)
      BY <2>2, <2>3
    <3>. HIDE DEF b, v2
    <3>3. Mem!Arrived(before, mem, <<r, b>>, v2)
      BY <3>1, <3>2, LandedArrives
    <3>. QED BY <1>2, <1>3, <1>5, <2>3, <3>1, <3>3 DEF StoresSeenEverywhere, Mem!StoresSeenEverywhere, v, v2
  <2>4. CASE r \notin {"palette", "vram", "oam"}
    <3>1. Mem!Aligned(<<r, o>>, 1) = <<r, o>>
      BY DEF Mem!Aligned
    <3>2. Landed(before, mem, r, o, 1, v)
      BY <2>2, <2>4, <2>v
    <3>3. Mem!Arrived(before, mem, <<r, o>>, v)
      BY <1>3, <1>5, <3>2, LandedArrives
    <3>. QED BY <1>2, <1>3, <1>5, <2>4, <3>1, <3>3 DEF StoresSeenEverywhere, Mem!StoresSeenEverywhere, v
  <2>5. CASE r = "oam"
    BY <1>2, <1>3, <1>5, <2>2, <2>5 DEF StoresSeenEverywhere, Mem!StoresSeenEverywhere, v
  <2>. QED BY <2>3, <2>4, <2>5
<1>. QED BY <1>4, <1>5

-----------------------------------------------------------------------------
(* Stores that follow each other land as one.                              *)
LEMMA LandedNext ==
  ASSUME NEW m1, NEW m2, NEW m3, NEW r \in Mem!Regions, NEW b \in Nat, NEW k \in Nat, NEW w \in Nat,
         NEW u, NEW val, NEW v, Landed(m1, m2, r, b, k, u), Landed(m2, m3, r, b + k, w, val),
         \A i \in 1..k : v[i] = u[i], \A j \in 1..w : v[k + j] = val[j]
  PROVE  Landed(m1, m3, r, b, k + w, v)
<1>1. SUFFICES ASSUME NEW q \in Mem!Regions, NEW p \in Nat
      PROVE  /\ (\A i \in 1 .. k + w : ~Hits(q, p, r, b + (i - 1)))
                   => m3[q][Mem!Cell(<<q, p>>)] = m1[q][Mem!Cell(<<q, p>>)]
             /\ (\E i \in 1 .. k + w : Hits(q, p, r, b + (i - 1)))
                   => \E i \in 1 .. k + w : Hits(q, p, r, b + (i - 1)) /\ m3[q][Mem!Cell(<<q, p>>)] = v[i]
  BY DEF Landed
<1>. DEFINE At(m) == m[q][Mem!Cell(<<q, p>>)]
            H(i) == Hits(q, p, r, b + (i - 1))
            G(j) == Hits(q, p, r, (b + k) + (j - 1))
<1>2. /\ (\A i \in 1..k : ~H(i)) => At(m2) = At(m1)
      /\ (\E i \in 1..k : H(i)) => \E i \in 1..k : H(i) /\ At(m2) = u[i]
  BY DEF Landed
<1>3. /\ (\A j \in 1..w : ~G(j)) => At(m3) = At(m2)
      /\ (\E j \in 1..w : G(j)) => \E j \in 1..w : G(j) /\ At(m3) = val[j]
  BY DEF Landed
<1>4. ASSUME NEW j \in 1..w PROVE k + j \in 1 .. k + w /\ (G(j) <=> H(k + j))
  <2>1. b + ((k + j) - 1) = (b + k) + (j - 1)
    OBVIOUS
  <2>. QED BY <2>1
<1>5. ASSUME NEW i \in 1 .. k + w, i \notin 1..k PROVE i - k \in 1..w /\ i = k + (i - k)
  BY <1>5
<1>6. \A i \in 1..k : i \in 1 .. k + w
  OBVIOUS
<1>. HIDE DEF At, H, G
<1>7. CASE \E j \in 1..w : G(j)
  <2>1. PICK j \in 1..w : G(j) /\ At(m3) = val[j]
    BY <1>3, <1>7
  <2>2. k + j \in 1 .. k + w /\ H(k + j) /\ At(m3) = v[k + j]
    BY <1>4, <2>1
  <2>. QED BY <2>2 DEF At, H
<1>8. CASE \A j \in 1..w : ~G(j)
  <2>1. At(m3) = At(m2)
    BY <1>3, <1>8
  <2>2. ASSUME NEW i \in 1 .. k + w, H(i) PROVE i \in 1..k
    <3>1. ASSUME i \notin 1..k PROVE FALSE
      <4>1. i - k \in 1..w /\ i = k + (i - k)
        BY <1>5, <3>1
      <4>2. G(i - k)
        BY <1>4, <2>2, <4>1
      <4>. QED BY <1>8, <4>1, <4>2
    <3>. QED BY <3>1
  <2>3. CASE \E i \in 1 .. k + w : H(i)
    <3>1. PICK i \in 1..k : H(i) /\ At(m2) = u[i]
      BY <1>2, <2>2, <2>3
    <3>2. i \in 1 .. k + w /\ H(i) /\ At(m3) = v[i]
      BY <1>6, <2>1, <3>1
    <3>. QED BY <3>2 DEF At, H
  <2>4. CASE \A i \in 1 .. k + w : ~H(i)
    <3>1. At(m3) = At(m1)
      BY <1>2, <1>6, <2>1, <2>4
    <3>. QED BY <2>4, <3>1 DEF At, H
  <2>. QED BY <2>3, <2>4
<1>. QED BY <1>7, <1>8

(* CpuFastSet rounds up to the next whole block.                           *)
LEMMA RoundsUp ==
  ASSUME NEW count \in Nat
  PROVE  LET n == Mem!RoundUp(count)
         IN  n \in Nat /\ n % FastBlock = 0 /\ count <= n /\ n <= count + FastBlock - 1
<1>. DEFINE q == (count + FastBlock - 1) \div FastBlock
            s == (count + FastBlock - 1) % FastBlock
            n == FastBlock * q
<1>0. FastBlock \in Nat \ {0} /\ count + FastBlock - 1 \in Nat
  BY BusAssumption
<1>1. q \in Nat /\ s \in Nat /\ s < FastBlock /\ count + FastBlock - 1 = FastBlock * q + s
  BY <1>0, Division
<1>2. Mem!RoundUp(count) = n
  BY DEF Mem!RoundUp
<1>. HIDE DEF q, s
<1>3. n \in Nat /\ n = FastBlock * q + 0 /\ 0 < FastBlock
  BY <1>0, <1>1
<1>4. n % FastBlock = 0
  BY <1>0, <1>1, <1>3, OneRemainder
<1>5. count <= n /\ n <= count + FastBlock - 1
  BY <1>0, <1>1, <1>3
<1>. QED BY <1>2, <1>3, <1>4, <1>5

-----------------------------------------------------------------------------
(* A running CpuSet or CpuFastSet: where its bytes come from, where they   *)
(* go, and that the first of them have landed - as long as the source is   *)
(* not among what it overwrites.                                           *)
Origin == op.width * (op.from[2] \div op.width)
Base   == op.width * (op.to[2] \div op.width)
From(i)  == <<op.from[1], Origin + (IF op.fill THEN i % op.width ELSE i)>>
Moved(n) == [i \in 1..n |-> Mem!bus_read8(before, From(i - 1))]
Apart(n) == \A i, j \in 0 .. n - 1 : ~Mem!SameByte(<<op.to[1], Base + i>>, From(j))

Asked == /\ op.kind = "set"
         /\ op.from[1] \in Mem!Regions /\ op.from[2] \in Nat /\ op.from = <<op.from[1], op.from[2]>>
         /\ op.to[1] \in Mem!Regions /\ op.to[2] \in Nat /\ op.to = <<op.to[1], op.to[2]>>
         /\ op.width \in {2, 4} /\ op.fill \in BOOLEAN
         /\ op.least \in Nat /\ op.block \in Nat \ {0}

Running(done, left) ==
  /\ call = [kind |-> "set",
              src |-> <<op.from[1], Origin + (IF op.fill THEN 0 ELSE op.width * done)>>,
              dst |-> <<op.to[1], Base + op.width * done>>, width |-> op.width, fill |-> op.fill,
              val |-> Mem!bus_read(before, <<op.from[1], Origin>>, op.width), left |-> left]
  /\ (done + left) % op.block = 0
  /\ op.least <= done + left /\ done + left <= op.least + op.block - 1
  /\ Apart(op.width * (done + left)) =>
       Landed(before, mem, op.to[1], Base, op.width * done, Moved(op.width * done))

Copying == call # Mem!Idle => Asked /\ \E done, left \in Nat : Running(done, left)

BusInv == BusMemory /\ Stored /\ Copying

(* What one round of the loops stores is what was at the source when the   *)
(* call began.                                                             *)
LEMMA SourceKept ==
  ASSUME Asked, NEW done \in Nat, NEW left \in Nat, left > 0, Running(done, left),
         Apart(op.width * (done + left)), NEW j \in 1 .. op.width
  PROVE  (IF call.fill THEN call.val ELSE Mem!bus_read(mem, call.src, call.width))[j]
           = Mem!bus_read8(before, From(op.width * done + j - 1))
<1>. DEFINE w == op.width
            k == w * done
            o == Origin
<1>1. /\ w \in {2, 4} /\ k \in Nat /\ k % w = 0 /\ o \in Nat /\ o % w = 0
      /\ w * (done + left) \in Nat /\ k + w <= w * (done + left)
  BY DEF Asked, Origin
<1>2. /\ call.fill = op.fill /\ call.width = w
      /\ call.val = Mem!bus_read(before, <<op.from[1], o>>, w)
      /\ ~op.fill => call.src = <<op.from[1], o + k>>
  BY DEF Running
<1>a. \A x \in Nat : x % w = 0 => Mem!Aligned(<<op.from[1], x>>, w) = <<op.from[1], x>>
  <2>1. w = 2 => \A x \in Nat : x % 2 = 0 => 2 * (x \div 2) = x
    OBVIOUS
  <2>2. w = 4 => \A x \in Nat : x % 4 = 0 => 4 * (x \div 4) = x
    OBVIOUS
  <2>. QED BY <1>1, <2>1, <2>2 DEF Mem!Aligned
<1>. HIDE DEF o, k
<1>3. CASE op.fill
  <2>1. (k + j - 1) % w = j - 1
    <3>1. CASE w = 2
      BY <1>1, <3>1
    <3>2. CASE w = 4
      BY <1>1, <3>2
    <3>. QED BY <1>1, <3>1, <3>2
  <2>2. From(k + j - 1) = <<op.from[1], o + (j - 1)>>
    BY <1>3, <2>1 DEF From, o
  <2>3. call.val[j] = Mem!bus_read8(before, <<op.from[1], o + (j - 1)>>)
    BY <1>1, <1>2, <1>a DEF Mem!bus_read, Mem!Plus
  <2>. QED BY <1>2, <1>3, <2>2, <2>3 DEF k
<1>4. CASE ~op.fill
  <2>. DEFINE p == (o + k) + (j - 1)
  <2>1. o + k \in Nat /\ (o + k) % w = 0 /\ p \in Nat /\ k + j - 1 \in 0 .. w * (done + left) - 1
    BY <1>1
  <2>2. From(k + j - 1) = <<op.from[1], p>>
    <3>1. o + (k + j - 1) = p
      BY <1>1
    <3>. QED BY <1>4, <3>1 DEF From, o
  <2>3. Mem!bus_read(mem, call.src, call.width)[j] = Mem!bus_read8(mem, <<op.from[1], p>>)
    <3>. DEFINE a == <<op.from[1], o + k>>
    <3>1. call.src = a /\ call.width = w /\ Mem!Aligned(a, w) = a
      BY <1>2, <1>4, <1>a, <2>1
    <3>2. Mem!Plus(a, j - 1) = <<op.from[1], p>>
      BY DEF Mem!Plus
    <3>. HIDE DEF a
    <3>. QED BY <1>1, <3>1, <3>2 DEF Mem!bus_read
  <2>. HIDE DEF p
  <2>4. ASSUME NEW i \in 1..k PROVE ~Hits(op.from[1], p, op.to[1], Base + (i - 1))
    <3>1. i - 1 \in 0 .. w * (done + left) - 1
      BY <1>1
    <3>2. ~Mem!SameByte(<<op.to[1], Base + (i - 1)>>, <<op.from[1], p>>)
      BY <2>1, <2>2, <3>1 DEF Apart
    <3>. QED BY <3>2 DEF Hits, Mem!SameByte
  <2>5. mem[op.from[1]][Mem!Cell(<<op.from[1], p>>)] = before[op.from[1]][Mem!Cell(<<op.from[1], p>>)]
    BY <2>1, <2>4 DEF Running, Landed, Asked, k
  <2>6. Mem!bus_read8(mem, <<op.from[1], p>>) = Mem!bus_read8(before, <<op.from[1], p>>)
    BY <2>5 DEF Mem!bus_read8
  <2>. QED BY <1>2, <1>4, <2>2, <2>3, <2>6 DEF k
<1>. QED BY <1>3, <1>4 DEF Asked

(* One round of the loops preserves the invariant.                         *)
LEMMA TransferKeeps ==
  ASSUME BusInv, Mem!Transfer
  PROVE  BusInv'
<1>1. call # Mem!Idle /\ call.left > 0
  BY DEF Mem!Transfer, Mem!Idle
<1>2. Asked
  BY <1>1 DEF BusInv, Copying
<1>3. PICK done \in Nat, left \in Nat : Running(done, left)
  BY <1>1 DEF BusInv, Copying
<1>. DEFINE w == op.width
            k == w * done
            val == IF call.fill THEN call.val ELSE Mem!bus_read(mem, call.src, call.width)
            r == op.to[1]
<1>4. /\ call.left = left /\ call.width = w /\ call.fill = op.fill
      /\ call.dst = <<r, Base + k>>
      /\ call.src = <<op.from[1], Origin + (IF op.fill THEN 0 ELSE w * done)>>
      /\ call.val = Mem!bus_read(before, <<op.from[1], Origin>>, op.width)
  BY <1>3 DEF Running
<1>5. left > 0
  BY <1>1, <1>4
<1>6. UNCHANGED <<last_bios_read, in_bios, op, before>> /\ mem' = Mem!bus_write(mem, <<r, Base + k>>, val)
  BY <1>4 DEF Mem!Transfer
<1>7. /\ w \in {2, 4} /\ w \in Nat /\ r \in Mem!Regions /\ Base \in Nat /\ k \in Nat /\ Base + k \in Nat
      /\ w * ((Base + k) \div w) = Base + k
  <2>1. w \in {2, 4} /\ op.to[2] \in Nat /\ r \in Mem!Regions
    BY <1>2 DEF Asked
  <2>2. CASE w = 2
    BY <2>1, <2>2 DEF Base
  <2>3. CASE w = 4
    BY <2>1, <2>3 DEF Base
  <2>. QED BY <2>1, <2>2, <2>3
<1>8. Len(val) = w
  BY <1>4, <1>7 DEF Mem!bus_read
<1>. HIDE DEF val, k
<1>9. IsMemory(mem') /\ Landed(mem, mem', r, Base + k, w, val)
  BY <1>6, <1>7, <1>8, StoreLands DEF BusInv, BusMemory
<1>10. BusMemory'
  BY <1>6, <1>9 DEF BusInv, BusMemory
<1>11. Stored'
  BY <1>2, <1>6 DEF Stored, Asked
<1>12. Asked'
  BY <1>2, <1>6 DEF Asked
<1>13. Running(done + 1, left - 1)'
  <2>1. (done + 1) + (left - 1) = done + left /\ w * (done + 1) = k + w
    BY <1>5, <1>7 DEF k
  <2>2. call' = [kind |-> "set",
              src |-> <<op.from[1], Origin + (IF op.fill THEN 0 ELSE op.width * (done + 1))>>,
              dst |-> <<op.to[1], Base + op.width * (done + 1)>>, width |-> op.width, fill |-> op.fill,
              val |-> Mem!bus_read(before, <<op.from[1], Origin>>, op.width), left |-> left - 1]
    <3>. DEFINE src == IF call.fill THEN call.src ELSE Mem!Plus(call.src, call.width)
                dst == Mem!Plus(call.dst, call.width)
    <3>1. call' = [call EXCEPT !.src = src, !.dst = dst, !.left = call.left - 1]
      BY DEF Mem!Transfer
    <3>2. dst = <<op.to[1], Base + op.width * (done + 1)>>
      BY <1>4, <1>7, <2>1 DEF Mem!Plus
    <3>3. src = <<op.from[1], Origin + (IF op.fill THEN 0 ELSE op.width * (done + 1))>>
      <4>1. Origin \in Nat
        BY <1>2, <1>7 DEF Origin, Asked
      <4>2. CASE op.fill
        BY <1>4, <4>2
      <4>3. CASE ~op.fill
        BY <1>4, <1>7, <2>1, <4>1, <4>3 DEF Mem!Plus, k
      <4>. QED BY <4>2, <4>3
    <3>. DEFINE V == Mem!bus_read(before, <<op.from[1], Origin>>, op.width)
                C(a, b, l) == [kind |-> "set", src |-> a, dst |-> b, width |-> op.width,
                               fill |-> op.fill, val |-> V, left |-> l]
    <3>4. call = C(call.src, call.dst, left) /\ call.left - 1 = left - 1
      BY <1>3, <1>4 DEF Running
    <3>. HIDE DEF V, src, dst
    <3>5. [C(call.src, call.dst, left) EXCEPT !.src = src] = C(src, call.dst, left)
      OBVIOUS
    <3>6. [C(src, call.dst, left) EXCEPT !.dst = dst] = C(src, dst, left)
      OBVIOUS
    <3>7. [C(src, dst, left) EXCEPT !.left = left - 1] = C(src, dst, left - 1)
      OBVIOUS
    <3>. HIDE DEF C
    <3>8. call' = C(src, dst, left - 1)
      BY <3>1, <3>4, <3>5, <3>6, <3>7, Zenon
    <3>. QED BY <3>2, <3>3, <3>8 DEF V, C
  <2>3. Apart(op.width * (done + left)) =>
           Landed(before, mem', op.to[1], Base, w * (done + 1), Moved(w * (done + 1)))
    <3>1. SUFFICES ASSUME Apart(op.width * (done + left))
          PROVE  Landed(before, mem', r, Base, k + w, Moved(k + w))
      BY <2>1
    <3>2. Landed(before, mem, r, Base, k, Moved(k))
      BY <1>3, <3>1 DEF Running, k
    <3>. DEFINE u == Moved(k)
                v == Moved(k + w)
    <3>m. \A n \in Nat : \A i \in 1..n : Moved(n)[i] = Mem!bus_read8(before, From(i - 1))
      BY DEF Moved
    <3>3. \A i \in 1..k : v[i] = u[i]
      BY <1>7, <3>m
    <3>4. ASSUME NEW j \in 1..w PROVE v[k + j] = val[j]
      <4>1. val[j] = Mem!bus_read8(before, From(k + j - 1))
        BY <1>2, <1>3, <1>5, <3>1, SourceKept DEF k, val
      <4>2. k + j \in 1 .. k + w /\ k + w \in Nat /\ (k + j) - 1 = k + j - 1
        BY <1>7
      <4>3. v[k + j] = Mem!bus_read8(before, From((k + j) - 1))
        BY <4>2, <3>m
      <4>. HIDE DEF v
      <4>. QED BY <4>1, <4>2, <4>3
    <3>. HIDE DEF u, v, w, r
    <3>5. Landed(before, mem, r, Base, k, u)
      BY <3>2 DEF u
    <3>6. Landed(before, mem', r, Base, k + w, v)
      BY <1>7, <1>9, <3>3, <3>4, <3>5, LandedNext
    <3>. QED BY <3>6 DEF v
  <2>4. Origin' = Origin /\ Base' = Base
    BY <1>6 DEF Origin, Base
  <2>5. Apart(op.width * ((done + 1) + (left - 1)))' = Apart(op.width * (done + left))
    BY <1>6, <2>1, <2>4 DEF Apart, From
  <2>6. Moved(op.width * (done + 1))' = Moved(op.width * (done + 1))
    BY <1>6, <2>4 DEF Moved, From, Mem!bus_read8
  <2>7. Mem!bus_read(before, <<op.from[1], Origin>>, op.width)' = Mem!bus_read(before, <<op.from[1], Origin>>, op.width)
    BY <1>6, <2>4 DEF Mem!bus_read, Mem!bus_read8
  <2>8. op' = op /\ before' = before
    BY <1>6
  <2>. QED BY <1>3, <2>1, <2>2, <2>3, <2>4, <2>5, <2>6, <2>7, <2>8 DEF Running
<1>14. Copying'
  <2>1. done + 1 \in Nat /\ left - 1 \in Nat
    BY <1>5
  <2>. QED BY <1>12, <1>13, <2>1 DEF Copying
<1>. QED BY <1>10, <1>11, <1>14 DEF BusInv

(* The initial content fills every region.                                 *)
LEMMA ContentIsMemory == IsMemory(Mem!Content)
  BY DEF IsMemory, Mem!Content

(* A store of the program.                                                 *)
LEMMA StoreKeeps ==
  ASSUME BusInv, NEW a \in Mem!Address, NEW n \in {1, 2, 4}, Mem!Store(a, n)
  PROVE  BusInv'
<1>. DEFINE v == [i \in 1..n |-> 200 + i]
<1>1. a[1] \in Mem!Regions /\ a[2] \in Nat /\ a = <<a[1], a[2]>>
  BY AddressIs
<1>2. /\ call = Mem!Idle /\ call' = call /\ before' = mem
      /\ mem' = Mem!bus_write(mem, a, v) /\ op' = [kind |-> "store", to |-> a, bytes |-> v]
  BY DEF Mem!Store
<1>3. Len(v) = n
  OBVIOUS
<1>. HIDE DEF v
<1>4. IsMemory(mem')
  <2>1. CASE n = 1
    <3>1. mem' = Mem!bus_write8(mem, <<a[1], a[2]>>, v[1])
      BY <1>1, <1>2, <1>3, <2>1 DEF Mem!bus_write
    <3>. QED BY <1>1, <3>1, ByteLands DEF BusInv, BusMemory
  <2>2. CASE n \in {2, 4}
    BY <1>1, <1>2, <1>3, <2>2, StoreLands DEF BusInv, BusMemory
  <2>. QED BY <2>1, <2>2
<1>5. BusMemory'
  BY <1>2, <1>4 DEF BusInv, BusMemory
<1>6. Stored'
  BY <1>1, <1>2 DEF Stored, v
<1>7. Copying'
  BY <1>2 DEF Copying
<1>. QED BY <1>5, <1>6, <1>7 DEF BusInv

(* A call of CpuSet or CpuFastSet begins.                                  *)
LEMMA CpuSetKeeps ==
  ASSUME BusInv, NEW s \in MCSources, NEW d \in MCTargets, NEW width \in {2, 4},
         NEW fill \in BOOLEAN, NEW fast \in BOOLEAN, NEW count \in Counts,
         Mem!CpuSet(s, d, width, fill, fast, count)
  PROVE  BusInv'
<1>1. /\ s[1] \in Mem!Regions /\ s[2] \in Nat /\ s = <<s[1], s[2]>>
      /\ d[1] \in Mem!Regions /\ d[2] \in Nat /\ d = <<d[1], d[2]>>
  <2>1. Unit \in Nat \ {0} /\ \A n \in Nat : \A x \in Even(n) : x \in Nat
    BY BusAssumption DEF Even
  <2>2. s[1] \in Mem!Regions /\ s[2] \in Nat /\ s = <<s[1], s[2]>>
    BY <2>1, Sizes DEF MCSources
  <2>3. 4 * Unit - 1 \in Nat /\ 3 * Unit - 1 \in Nat
    BY <2>1
  <2>4. d \in Mem!Regions \X Nat
    BY <2>1, <2>3, Sizes DEF MCTargets
  <2>. QED BY <2>2, <2>4
<1>2. count \in Nat /\ FastBlock \in Nat \ {0}
  BY BusAssumption
<1>. DEFINE left == IF fast THEN Mem!RoundUp(count) ELSE count
            src == Mem!Aligned(s, width)
            dst == Mem!Aligned(d, width)
            val == Mem!bus_read(mem, src, width)
            unit == IF fast THEN FastBlock ELSE 1
<1>3. /\ call' = [kind |-> "set", src |-> src, dst |-> dst, width |-> width, fill |-> fill,
                  val |-> val, left |-> left]
      /\ op' = [kind |-> "set", from |-> s, to |-> d, width |-> width, fill |-> fill,
                least |-> count, block |-> unit]
      /\ before' = mem /\ mem' = mem /\ in_bios' = in_bios /\ last_bios_read' = last_bios_read
  BY DEF Mem!CpuSet
<1>4. left \in Nat /\ left % unit = 0 /\ count <= left /\ left <= count + unit - 1
  <2>1. CASE fast
    BY <1>2, <2>1, RoundsUp
  <2>2. CASE ~fast
    BY <1>2, <2>2
  <2>. QED BY <2>1, <2>2
<1>5. unit \in Nat \ {0}
  BY <1>2
<1>6. /\ src = <<s[1], width * (s[2] \div width)>> /\ dst = <<d[1], width * (d[2] \div width)>>
      /\ width * (s[2] \div width) \in Nat /\ width * (d[2] \div width) \in Nat
  BY <1>1 DEF Mem!Aligned
<1>. HIDE DEF left, unit, src, dst, val
<1>7. Asked'
  BY <1>1, <1>2, <1>3, <1>5 DEF Asked
<1>8. Running(0, left)'
  <2>1. /\ Origin' = width * (s[2] \div width) /\ Base' = width * (d[2] \div width)
        /\ op'.from[1] = s[1] /\ op'.to[1] = d[1] /\ op'.width = width /\ op'.fill = fill
        /\ op'.least = count /\ op'.block = unit
    BY <1>3 DEF Origin, Base
  <2>2. val = Mem!bus_read(before, <<op.from[1], Origin>>, op.width)'
    BY <1>3, <1>6, <2>1 DEF val, Mem!bus_read, Mem!bus_read8
  <2>3. /\ src = <<op.from[1], Origin + (IF op.fill THEN 0 ELSE op.width * 0)>>'
        /\ dst = <<op.to[1], Base + op.width * 0>>'
    BY <1>6, <2>1
  <2>4. (0 + left) = left /\ op'.width * 0 = 0
    BY <1>4, <2>1
  <2>5. \A v : Landed(mem, mem, d[1], width * (d[2] \div width), 0, v)
    BY DEF Landed
  <2>6. Landed(before, mem, op.to[1], Base, op.width * 0, Moved(op.width * 0))'
    BY <1>3, <2>1, <2>4, <2>5
  <2>. QED BY <1>3, <1>4, <2>1, <2>2, <2>3, <2>4, <2>6 DEF Running
<1>9. Copying'
  BY <1>4, <1>7, <1>8 DEF Copying
<1>10. BusMemory' /\ Stored'
  BY <1>3 DEF BusInv, BusMemory, Stored
<1>. QED BY <1>9, <1>10 DEF BusInv

(* Before the first access.                                                *)
LEMMA BusInitInv == MInit => BusInv
<1>1. SUFFICES ASSUME Mem!BusInit PROVE BusInv
  BY DEF MInit
<1>2. mem = Mem!Content /\ before = mem /\ call = Mem!Idle /\ op = Mem!Idle
  BY <1>1 DEF Mem!BusInit
<1>3. op.kind # "store"
  BY <1>2 DEF Mem!Idle
<1>. QED BY <1>2, <1>3, ContentIsMemory DEF BusInv, BusMemory, Stored, Copying

(* An access to another part.                                              *)
LEMMA BusInvUnchanged ==
  ASSUME BusInv, UNCHANGED <<mem, call, op, before>>,
         call = Mem!Idle \/ UNCHANGED <<in_bios, last_bios_read>>
  PROVE  BusInv'
<1>1. BusMemory' /\ Stored'
  BY DEF BusInv, BusMemory, Stored
<1>2. Copying'
  <2>1. CASE call = Mem!Idle
    BY <2>1 DEF Copying
  <2>2. CASE UNCHANGED <<in_bios, last_bios_read>>
    <3>1. Origin' = Origin /\ Base' = Base /\ Asked' = Asked
      BY DEF Origin, Base, Asked
    <3>2. ASSUME NEW done \in Nat, NEW left \in Nat, Running(done, left)
          PROVE  Running(done, left)'
      <4>1. Apart(op.width * (done + left))' = Apart(op.width * (done + left))
        BY <3>1 DEF Apart, From
      <4>2. Moved(op.width * done)' = Moved(op.width * done)
        BY <2>2, <3>1 DEF Moved, From, Mem!bus_read8
      <4>3. Mem!bus_read(before, <<op.from[1], Origin>>, op.width)'
              = Mem!bus_read(before, <<op.from[1], Origin>>, op.width)
        BY <2>2, <3>1 DEF Mem!bus_read, Mem!bus_read8
      <4>. QED BY <3>1, <3>2, <4>1, <4>2, <4>3 DEF Running
    <3>3. call # Mem!Idle => Asked /\ \E done, left \in Nat : Running(done, left)
      BY DEF BusInv, Copying
    <3>. QED BY <3>1, <3>2, <3>3 DEF Copying
  <2>. QED BY <2>1, <2>2
<1>. QED BY <1>1, <1>2 DEF BusInv

(* Any access.                                                             *)
LEMMA BusStep == BusInv /\ [MNext]_mvars => BusInv'
<1>. SUFFICES ASSUME BusInv, [MNext]_mvars PROVE BusInv'
  OBVIOUS
<1>1. CASE UNCHANGED busvars
  BY <1>1, BusInvUnchanged DEF busvars
<1>2. CASE Mem!BusNext
  <2>1. CASE Mem!Jump
    BY <2>1, BusInvUnchanged DEF Mem!Jump
  <2>2. ASSUME NEW a, Mem!LoadBios(a) PROVE BusInv'
    BY <2>2, BusInvUnchanged DEF Mem!LoadBios
  <2>3. CASE Mem!SetUp
    <3>1. /\ call' = Mem!Idle /\ op' = Mem!Idle /\ mem' = Mem!Content /\ before' = Mem!Content
          /\ op'.kind # "store"
      BY <2>3 DEF Mem!SetUp, Mem!Idle
    <3>. QED BY <3>1, ContentIsMemory DEF BusInv, BusMemory, Stored, Copying
  <2>4. CASE Mem!Transfer
    BY <2>4, TransferKeeps
  <2>5. ASSUME NEW a \in Mem!Address, NEW n \in {1, 2, 4}, Mem!Store(a, n) PROVE BusInv'
    BY <2>5, StoreKeeps
  <2>6. ASSUME NEW s \in MCSources, NEW d \in MCTargets, NEW fill \in BOOLEAN, NEW count \in Counts,
               \/ \E width \in {2, 4} : Mem!CpuSet(s, d, width, fill, FALSE, count)
               \/ Mem!CpuSet(s, d, 4, fill, TRUE, count)
        PROVE  BusInv'
    <3>1. 4 \in {2, 4} /\ FALSE \in BOOLEAN /\ TRUE \in BOOLEAN
      OBVIOUS
    <3>2. CASE \E width \in {2, 4} : Mem!CpuSet(s, d, width, fill, FALSE, count)
      BY <3>1, <3>2, CpuSetKeeps
    <3>3. CASE Mem!CpuSet(s, d, 4, fill, TRUE, count)
      BY <3>1, <3>3, CpuSetKeeps
    <3>. QED BY <2>6, <3>2, <3>3
  <2>. QED BY <1>2, <2>1, <2>2, <2>3, <2>4, <2>5, <2>6 DEF Mem!BusNext
<1>. QED BY <1>1, <1>2 DEF MNext, mvars

(* The invariant of the bus holds always.                                  *)
LEMMA BusInvariant == MSpec => []BusInv
  BY BusInitInv, BusStep, PTL DEF MSpec

(* A store of 1, 2 or 4 bytes through bus_write8, bus_write16 or           *)
(* bus_write32 is seen at every mirror of its address - in the folded 96KB *)
(* of VRAM too - and at no other address, for memories of every size.      *)
THEOREM BusStoresSeenEverywhere == MSpec => []StoresSeenEverywhere
<1>1. BusInv => StoresSeenEverywhere
  BY StoredIsSeen DEF BusInv
<1>. QED BY <1>1, BusInvariant, PTL

(* swi_cpu_set and swi_cpu_fast_set bring the source to the destination    *)
(* and change nothing else, through whichever mirrors they run, for every  *)
(* count, block and size of the memories.                                  *)
THEOREM BusCopyArrives == MSpec => []CopyArrives
<1>1. BusInv => CopyArrives
  <2>1. SUFFICES ASSUME BusInv, call # Mem!Idle, call.left = 0 PROVE Mem!CopyArrives
    BY DEF CopyArrives, Mem!CopyArrives
  <2>2. Asked
    BY <2>1 DEF BusInv, Copying
  <2>3. PICK n \in Nat, left \in Nat : Running(n, left)
    BY <2>1 DEF BusInv, Copying
  <2>. DEFINE w == op.width
              to == Mem!Aligned(op.to, w)
              from(i) == Mem!Plus(Mem!Aligned(op.from, w), IF op.fill THEN i % w ELSE i)
              v == [i \in 1 .. n * w |-> Mem!bus_read8(before, from(i - 1))]
  <2>4. left = 0 /\ n + left = n /\ w * n = n * w /\ n * w \in Nat
    BY <2>1, <2>2, <2>3 DEF Running, Asked
  <2>5. n \in op.least .. op.least + op.block - 1 /\ n % op.block = 0
    BY <2>2, <2>3, <2>4 DEF Running, Asked
  <2>6. to = <<op.to[1], Base>> /\ Base \in Nat /\ op.to[1] \in Mem!Regions
    BY <2>2 DEF Asked, Base, Mem!Aligned
  <2>7. \A i : from(i) = From(i)
    BY <2>2 DEF Asked, From, Origin, Mem!Aligned, Mem!Plus
  <2>8. v = Moved(n * w) /\ Len(v) = n * w
    BY <2>4, <2>7 DEF Moved
  <2>9. ASSUME \A i, j \in 0 .. n * w - 1 : ~Mem!SameByte(Mem!Plus(to, i), from(j))
        PROVE  Mem!Arrived(before, mem, to, v)
    <3>1. Apart(n * w)
      BY <2>6, <2>7, <2>9 DEF Apart, Mem!Plus
    <3>2. Landed(before, mem, op.to[1], Base, n * w, v)
      BY <2>3, <2>4, <2>8, <3>1 DEF Running
    <3>. HIDE DEF v
    <3>. QED BY <2>4, <2>6, <2>8, <3>2, LandedArrives
  <2>. QED BY <2>5, <2>9 DEF Mem!CopyArrives
<1>. QED BY <1>1, BusInvariant, PTL

-----------------------------------------------------------------------------
(*                             I/O registers                               *)

(* Bytes, and registers of two bytes. *)
OneByte == 0 .. Io!B - 1
TwoBytes == 0 .. Io!B * Io!B - 1

(* Powers of two, as far as the registers need them.                       *)
LEMMA IoPowers ==
  /\ Io!B \in Nat \ {0} /\ Io!B^0 = 1 /\ Io!B^1 = Io!B /\ Io!B^2 = Io!B * Io!B
  /\ 2^(ByteBits - 1) \in Nat \ {0} /\ Io!B = 2 * 2^(ByteBits - 1)
  /\ 2^(2 * ByteBits - 1) = Io!B * 2^(ByteBits - 1)
  /\ 2^LengthBits \in Nat \ {0}
  /\ 2^FlagBits \in Nat \ {0} /\ 2^(FlagBits - 1) \in Nat \ {0}
  /\ 2^FlagBits = 2 * 2^(FlagBits - 1)
  /\ 2^(ByteBits - FlagBits) \in Nat \ {0} /\ Io!B = 2^FlagBits * 2^(ByteBits - FlagBits)
<1>. DEFINE p(k) == 2^k
            N == 4 * ByteBits
<1>1. /\ ByteBits \in Nat \ {0} /\ FlagBits \in 1..ByteBits /\ LengthBits \in 0..ByteBits
      /\ p(0) = 1 /\ p(1) = 2
      /\ \A k, j \in 0 .. N : p(k) \in Nat \ {0} /\ p(k + j) = p(k) * p(j)
      /\ \A k \in 0..4 : Io!B^k = p(k * ByteBits)
  BY IoAssumption DEF Io!B
<1>2. Io!B = p(ByteBits)
  BY DEF Io!B
<1>. HIDE DEF p
<1>3. /\ 0 \in 0..N /\ 1 \in 0..N /\ ByteBits \in 0..N /\ ByteBits - 1 \in 0..N
      /\ LengthBits \in 0..N /\ FlagBits \in 0..N /\ FlagBits - 1 \in 0..N
      /\ ByteBits - FlagBits \in 0..N
  BY <1>1
<1>4. Io!B^0 = p(0) /\ Io!B^1 = p(ByteBits) /\ Io!B^2 = p(ByteBits + ByteBits)
  <2>1. 0 * ByteBits = 0 /\ 1 * ByteBits = ByteBits /\ 2 * ByteBits = ByteBits + ByteBits
    BY <1>1
  <2>2. 0 \in 0..4 /\ 1 \in 0..4 /\ 2 \in 0..4
    OBVIOUS
  <2>. QED BY <1>1, <2>1, <2>2
<1>5. /\ ByteBits = 1 + (ByteBits - 1) /\ 2 * ByteBits - 1 = ByteBits + (ByteBits - 1)
      /\ FlagBits = 1 + (FlagBits - 1) /\ ByteBits = FlagBits + (ByteBits - FlagBits)
  BY <1>1
<1>. HIDE DEF N
<1>6. p(1 + (ByteBits - 1)) = p(1) * p(ByteBits - 1) /\ p(ByteBits + ByteBits) = p(ByteBits) * p(ByteBits)
  BY <1>1, <1>3
<1>7. p(ByteBits + (ByteBits - 1)) = p(ByteBits) * p(ByteBits - 1)
  BY <1>1, <1>3
<1>8. /\ p(1 + (FlagBits - 1)) = p(1) * p(FlagBits - 1)
      /\ p(FlagBits + (ByteBits - FlagBits)) = p(FlagBits) * p(ByteBits - FlagBits)
  BY <1>1, <1>3
<1>9. /\ p(ByteBits) \in Nat \ {0} /\ p(ByteBits - 1) \in Nat \ {0} /\ p(LengthBits) \in Nat \ {0}
      /\ p(FlagBits) \in Nat \ {0} /\ p(FlagBits - 1) \in Nat \ {0} /\ p(ByteBits - FlagBits) \in Nat \ {0}
  BY <1>1, <1>3
<1>10. /\ p(ByteBits) = p(1) * p(ByteBits - 1)
       /\ p(2 * ByteBits - 1) = p(ByteBits) * p(ByteBits - 1)
       /\ p(FlagBits) = p(1) * p(FlagBits - 1)
       /\ p(ByteBits) = p(FlagBits) * p(ByteBits - FlagBits)
  BY <1>5, <1>6, <1>7, <1>8
<1>. QED BY <1>1, <1>2, <1>4, <1>6, <1>9, <1>10 DEF p

(* A number of two digits, the lower one to base b. *)
LEMMA TwoDigits ==
  ASSUME NEW b \in Nat \ {0}, NEW c \in Nat \ {0}, NEW lo \in Nat, NEW hi \in Nat, lo < b, hi < c
  PROVE  /\ lo + hi * b \in Nat /\ lo + hi * b < b * c
         /\ (lo + hi * b) % b = lo /\ (lo + hi * b) \div b = hi
<1>. DEFINE x == lo + hi * b
<1>1. x \in Nat /\ x = b * hi + lo
  OBVIOUS
<1>2. hi * b <= (c - 1) * b /\ (c - 1) * b = b * c - b /\ hi * b \in Nat /\ b * c \in Nat
  OBVIOUS
<1>3. x < b * c
  BY <1>2
<1>. HIDE DEF x
<1>4. x \div b = hi /\ x % b = lo
  BY <1>1, OneRemainder
<1>. QED BY <1>1, <1>3, <1>4 DEF x

(* And back. *)
LEMMA DigitsOf ==
  ASSUME NEW b \in Nat \ {0}, NEW c \in Nat \ {0}, NEW x \in Nat, x < b * c
  PROVE  /\ x % b \in Nat /\ x \div b \in Nat /\ x % b < b /\ x \div b < c
         /\ x = (x % b) + (x \div b) * b
<1>. DEFINE q == x \div b
            r == x % b
<1>1. q \in Nat /\ r \in Nat /\ r < b /\ x = b * q + r
  BY Division
<1>. HIDE DEF q, r
<1>2. q < c
  <2>. SUFFICES ASSUME q >= c PROVE FALSE
    BY <1>1
  <2>1. b * q >= b * c
    BY <1>1
  <2>2. b * q \in Nat /\ b * c \in Nat
    BY <1>1
  <2>. QED BY <1>1, <2>1, <2>2
<1>3. b * q = q * b
  BY <1>1
<1>4. x = r + q * b
  BY <1>1, <1>3
<1>. QED BY <1>1, <1>2, <1>4 DEF q, r

(* The bytes of a register, and what storing one of them does.             *)
HasBytes(x, lo, hi) == x \in TwoBytes /\ Io!ByteAt(x, 0) = lo /\ Io!ByteAt(x, 1) = hi

(* A register put together from two bytes has these bytes. *)
LEMMA MadeOfBytes ==
  ASSUME NEW lo \in OneByte, NEW hi \in OneByte
  PROVE  HasBytes(lo + hi * Io!B, lo, hi)
<1>. DEFINE b == Io!B
            x == lo + hi * b
<1>1. b \in Nat \ {0} /\ Io!B^0 = 1 /\ Io!B^1 = b
  BY IoPowers
<1>2. lo \in Nat /\ hi \in Nat /\ lo < b /\ hi < b
  BY <1>1 DEF OneByte
<1>. HIDE DEF b
<1>3. x \in Nat /\ x < b * b /\ x % b = lo /\ x \div b = hi
  BY <1>1, <1>2, TwoDigits
<1>4. x \div 1 = x /\ hi % b = hi
  <2>. HIDE DEF x
  <2>. QED BY <1>1, <1>2, <1>3
<1>5. Io!ByteAt(x, 0) = lo /\ Io!ByteAt(x, 1) = hi
  <2>. HIDE DEF x
  <2>. QED BY <1>1, <1>3, <1>4 DEF Io!ByteAt, b
<1>6. x \in TwoBytes
  <2>1. b * b \in Nat
    BY <1>1
  <2>. HIDE DEF x
  <2>. QED BY <1>3, <2>1 DEF TwoBytes, b
<1>. QED BY <1>5, <1>6 DEF HasBytes, b

(* A register is put together from its two bytes. *)
LEMMA ItsBytes ==
  ASSUME NEW x \in TwoBytes
  PROVE  /\ Io!ByteAt(x, 0) \in OneByte /\ Io!ByteAt(x, 1) \in OneByte
         /\ x = Io!ByteAt(x, 0) + Io!ByteAt(x, 1) * Io!B
<1>. DEFINE b == Io!B
            lo == x % b
            hi == x \div b
<1>1. b \in Nat \ {0} /\ Io!B^0 = 1 /\ Io!B^1 = b
  BY IoPowers
<1>2. x \in Nat /\ x < b * b
  <2>1. b * b \in Nat
    BY <1>1
  <2>. QED BY <2>1 DEF TwoBytes
<1>. HIDE DEF b
<1>3. lo \in Nat /\ hi \in Nat /\ lo < b /\ hi < b /\ x = lo + hi * b
  BY <1>1, <1>2, DigitsOf
<1>4. x \div 1 = x /\ hi % b = hi
  <2>. HIDE DEF hi
  <2>. QED BY <1>1, <1>2, <1>3
<1>5. Io!ByteAt(x, 0) = lo /\ Io!ByteAt(x, 1) = hi
  BY <1>1, <1>4 DEF Io!ByteAt, b
<1>6. lo \in OneByte /\ hi \in OneByte
  <2>. HIDE DEF lo, hi
  <2>. QED BY <1>1, <1>3 DEF OneByte, b
<1>. QED BY <1>3, <1>5, <1>6 DEF b

(* SetByte replaces one byte and leaves the other. *)
LEMMA SetBytes ==
  ASSUME NEW x \in TwoBytes, NEW v \in OneByte
  PROVE  /\ HasBytes(Io!SetByte(x, 0, v), v, Io!ByteAt(x, 1))
         /\ HasBytes(Io!SetByte(x, 1, v), Io!ByteAt(x, 0), v)
<1>. DEFINE b == Io!B
            lo == Io!ByteAt(x, 0)
            hi == Io!ByteAt(x, 1)
            q == hi * b
            u == v * b
<1>1. b \in Nat \ {0} /\ Io!B^0 = 1 /\ Io!B^1 = b
  BY IoPowers
<1>2. lo \in OneByte /\ hi \in OneByte /\ x = lo + q
  BY ItsBytes
<1>3. lo \in Nat /\ hi \in Nat /\ v \in Nat
  BY <1>1, <1>2 DEF OneByte
<1>4. q \in Nat /\ u \in Nat /\ lo * 1 = lo /\ v * 1 = v
  <2>. HIDE DEF b, lo, hi
  <2>. QED BY <1>1, <1>3
<1>5. Io!SetByte(x, 0, v) = x - lo * 1 + v * 1 /\ Io!SetByte(x, 1, v) = x - q + u
  BY <1>1 DEF Io!SetByte
<1>6. HasBytes(v + hi * b, v, hi) /\ HasBytes(lo + v * b, lo, v)
  BY <1>2, MadeOfBytes
<1>7. x - lo * 1 + v * 1 = v + q /\ x - q + u = lo + u
  <2>. HIDE DEF q, u, lo
  <2>. QED BY <1>2, <1>3, <1>4
<1>. HIDE DEF b, lo, hi
<1>. QED BY <1>5, <1>6, <1>7 DEF lo, hi

(* A byte whose lowest bits are flags. *)
LEMMA FlagsOf ==
  ASSUME NEW x \in OneByte
  PROVE  /\ x % 2^FlagBits \in Nat /\ x % 2^FlagBits < 2^FlagBits
         /\ x \div 2^FlagBits \in Nat /\ x \div 2^FlagBits < 2^(ByteBits - FlagBits)
         /\ x = (x % 2^FlagBits) + (x \div 2^FlagBits) * 2^FlagBits
<1>. DEFINE f == 2^FlagBits
            g == 2^(ByteBits - FlagBits)
<1>1. f \in Nat \ {0} /\ g \in Nat \ {0} /\ Io!B = f * g /\ Io!B \in Nat
  BY IoPowers
<1>. HIDE DEF f, g
<1>2. x \in Nat /\ x < f * g
  BY <1>1 DEF OneByte
<1>3. /\ x % f \in Nat /\ x \div f \in Nat /\ x % f < f /\ x \div f < g
      /\ x = (x % f) + (x \div f) * f
  BY <1>1, <1>2, DigitsOf
<1>. QED BY <1>3 DEF f, g

(* And one that is put together. *)
LEMMA FlagsPut ==
  ASSUME NEW r \in Nat, NEW k \in Nat, r < 2^FlagBits, k < 2^(ByteBits - FlagBits)
  PROVE  r + k * 2^FlagBits \in OneByte /\ (r + k * 2^FlagBits) \div 2^FlagBits = k
<1>. DEFINE f == 2^FlagBits
            g == 2^(ByteBits - FlagBits)
            z == r + k * f
<1>1. f \in Nat \ {0} /\ g \in Nat \ {0} /\ Io!B = f * g /\ Io!B \in Nat
  BY IoPowers
<1>2. r < f /\ k < g
  OBVIOUS
<1>. HIDE DEF f, g
<1>3. z \in Nat /\ z < f * g /\ z \div f = k
  BY <1>1, <1>2, TwoDigits
<1>4. z \in OneByte
  <2>. HIDE DEF z
  <2>. QED BY <1>1, <1>3 DEF OneByte
<1>. QED BY <1>3, <1>4 DEF f

(* DISPSTAT: a store keeps the flags and the high byte.                    *)
LEMMA FlagsKept ==
  ASSUME NEW x \in TwoBytes, NEW v \in OneByte
  PROVE  \E z \in OneByte :
           /\ z \div 2^FlagBits = v \div 2^FlagBits
           /\ HasBytes(x - Io!ByteAt(x, 0) + (x % 2^FlagBits) + (v \div 2^FlagBits) * 2^FlagBits,
                       z, Io!ByteAt(x, 1))
<1>. DEFINE b == Io!B
            f == 2^FlagBits
            g == 2^(ByteBits - FlagBits)
            lo == Io!ByteAt(x, 0)
            hi == Io!ByteAt(x, 1)
            r == lo % f
            q == lo \div f
            k == v \div f
            z == r + k * f
            y == x - lo + (x % f) + k * f
<1>1. f \in Nat \ {0} /\ g \in Nat \ {0} /\ b = f * g /\ b \in Nat
  BY IoPowers
<1>2. lo \in OneByte /\ hi \in OneByte /\ x = lo + hi * b
  BY ItsBytes
<1>3. r \in Nat /\ r < f /\ q \in Nat /\ lo = r + q * f
  BY <1>2, FlagsOf
<1>4. k \in Nat /\ k < g
  BY FlagsOf
<1>5. z \in OneByte /\ z \div f = k
  BY <1>3, <1>4, FlagsPut
<1>6. lo \in Nat /\ hi \in Nat
  BY <1>1, <1>2 DEF OneByte
<1>. HIDE DEF b, f, g, lo, hi, r, q, k
<1>7. x % f = r
  <2>. DEFINE w == q + hi * g
  <2>1. w \in Nat
    BY <1>1, <1>3, <1>6
  <2>2. f * w = q * f + hi * (f * g)
    BY <1>1, <1>3, <1>6
  <2>3. hi * (f * g) \in Nat /\ q * f \in Nat /\ hi * b = hi * (f * g)
    BY <1>1, <1>3, <1>6
  <2>. HIDE DEF w
  <2>4. x \in Nat /\ x = f * w + r
    <3>1. f * w \in Nat
      BY <1>1, <2>1
    <3>. QED BY <1>2, <1>3, <2>2, <2>3, <3>1
  <2>. QED BY <1>1, <1>3, <2>1, <2>4, OneRemainder
<1>8. y = z + hi * b
  <2>1. hi * b \in Nat /\ k * f \in Nat
    BY <1>1, <1>4, <1>6
  <2>. QED BY <1>2, <1>3, <1>6, <1>7, <2>1
<1>9. HasBytes(z + hi * b, z, hi)
  BY <1>2, <1>5, MadeOfBytes DEF b
<1>. HIDE DEF z, y
<1>. QED BY <1>5, <1>8, <1>9 DEF y, f, lo, hi, k

(* The PPU's flags change nothing of the rest.                             *)
LEMMA FlagToggled ==
  ASSUME NEW x \in TwoBytes
  PROVE  \E z \in OneByte :
           /\ z \div 2^FlagBits = Io!ByteAt(x, 0) \div 2^FlagBits
           /\ HasBytes(IF x % 2 = 1 THEN x - 1 ELSE x + 1, z, Io!ByteAt(x, 1))
<1>. DEFINE b == Io!B
            f == 2^FlagBits
            e == 2^(FlagBits - 1)
            g == 2^(ByteBits - FlagBits)
            h == 2^(ByteBits - 1)
            lo == Io!ByteAt(x, 0)
            hi == Io!ByteAt(x, 1)
            r == lo % f
            k == lo \div f
            s == IF r % 2 = 1 THEN r - 1 ELSE r + 1
            z == s + k * f
            y == IF x % 2 = 1 THEN x - 1 ELSE x + 1
<1>1. f \in Nat \ {0} /\ g \in Nat \ {0} /\ e \in Nat /\ h \in Nat /\ f = 2 * e /\ b = 2 * h
  BY IoPowers
<1>2. lo \in OneByte /\ hi \in OneByte /\ x = lo + hi * b
  BY ItsBytes
<1>3. r \in Nat /\ r < f /\ k \in Nat /\ k < g /\ lo = r + k * f
  BY <1>2, FlagsOf
<1>4. hi \in Nat
  BY <1>1, <1>2 DEF OneByte
<1>. HIDE DEF b, f, e, g, h, lo, hi, r, k
<1>5. s \in Nat /\ s < f
  BY <1>1, <1>3
<1>6. z \in OneByte /\ z \div f = k
  <2>. HIDE DEF s
  <2>. QED BY <1>3, <1>5, FlagsPut DEF f, g
<1>7. x % 2 = r % 2
  <2>. DEFINE ke == k * e
              hh == hi * h
  <2>1. ke \in Nat /\ hh \in Nat
    BY <1>1, <1>3, <1>4
  <2>2. k * f = 2 * ke /\ hi * b = 2 * hh
    BY <1>1, <1>3, <1>4
  <2>. HIDE DEF ke, hh
  <2>. QED BY <1>2, <1>3, <2>1, <2>2
<1>8. y = z + hi * b
  <2>1. hi * b \in Nat /\ k * f \in Nat
    BY <1>1, <1>3, <1>4
  <2>. QED BY <1>2, <1>3, <1>7, <2>1
<1>9. HasBytes(z + hi * b, z, hi)
  BY <1>2, <1>6, MadeOfBytes DEF b
<1>. HIDE DEF z, y
<1>. QED BY <1>6, <1>8, <1>9 DEF y, f, lo, hi, k

(* A DMA channel whose transfer has ended: the enable bit is gone from the *)
(* device and from the copy.                                               *)
LEMMA EnableCleared ==
  ASSUME NEW x \in TwoBytes
  PROVE  HasBytes(Io!Ended(x), Io!ByteAt(x, 0), Io!EndedByte(Io!ByteAt(x, 1)))
<1>. SUFFICES HasBytes(x % 2^(2 * ByteBits - 1), Io!ByteAt(x, 0), Io!ByteAt(x, 1) % 2^(ByteBits - 1))
  BY DEF Io!Ended, Io!EndedByte
<1>. DEFINE b == Io!B
            h == 2^(ByteBits - 1)
            lo == Io!ByteAt(x, 0)
            hi == Io!ByteAt(x, 1)
            r == hi % h
            k == hi \div h
            y == lo + r * b
<1>1. b \in Nat \ {0} /\ h \in Nat \ {0} /\ b = h * 2 /\ 2^(2 * ByteBits - 1) = b * h
  BY IoPowers
<1>2. lo \in OneByte /\ hi \in OneByte /\ x = lo + hi * b
  BY ItsBytes
<1>3. lo \in Nat /\ hi \in Nat /\ lo < b /\ hi < h * 2
  BY <1>1, <1>2 DEF OneByte
<1>. HIDE DEF b, h, lo, hi
<1>4. r \in Nat /\ r < h /\ k \in Nat /\ hi = r + k * h
  BY <1>1, <1>3, DigitsOf, 2 \in Nat \ {0}
<1>. HIDE DEF r, k
<1>5. y \in Nat /\ y < b * h
  BY <1>1, <1>3, <1>4, TwoDigits
<1>6. x = (b * h) * k + y
  <2>1. hi * b = r * b + (k * h) * b
    BY <1>1, <1>4
  <2>2. (k * h) * b = (b * h) * k
    BY <1>1, <1>4
  <2>3. r * b \in Nat /\ (b * h) * k \in Nat
    BY <1>1, <1>4
  <2>. QED BY <1>2, <1>3, <2>1, <2>2, <2>3
<1>7. x % (b * h) = y
  <2>. DEFINE n == b * h
  <2>1. n \in Nat \ {0} /\ n * k \in Nat
    BY <1>1, <1>4
  <2>2. x = n * k + y /\ y < n
    BY <1>5, <1>6
  <2>. HIDE DEF n, y
  <2>3. x \in Nat
    BY <1>5, <2>1, <2>2
  <2>4. x % n = y
    BY <1>4, <1>5, <2>1, <2>2, <2>3, OneRemainder
  <2>. QED BY <2>4 DEF n
<1>8. r \in OneByte
  BY <1>1, <1>4 DEF OneByte, b
<1>9. HasBytes(y, lo, r)
  BY <1>2, <1>8, MadeOfBytes DEF b
<1>. HIDE DEF y
<1>. QED BY <1>1, <1>7, <1>9 DEF lo, hi, r, h

(* Sign extension: the lower bits are those of the number, and what is     *)
(* above them is all zeros or all ones; 2h is the span of the lower bits.  *)
SignRepeated(full, h, g, x) == full = IF (x \div h) % 2 = 1 THEN (x % (2 * h)) + g * (2 * h) - 2 * h
                                      ELSE x % (2 * h)
SignedNumber(full, h, g, x) == /\ full % (2 * h) = x % (2 * h)
                               /\ full < h \/ full >= g * (2 * h) - h

(* Repeating the sign makes a signed number. *)
LEMMA Extended ==
  ASSUME NEW h \in Nat \ {0}, NEW g \in Nat \ {0}, NEW x \in Nat, NEW full,
         SignRepeated(full, h, g, x)
  PROVE  SignedNumber(full, h, g, x)
<1>. DEFINE m == 2 * h
            q == x \div m
            rest == x % m
            gm == g * m
<1>1. m \in Nat \ {0} /\ q \in Nat /\ rest \in Nat /\ rest < m /\ x = m * q + rest
  <2>1. m \in Nat \ {0}
    OBVIOUS
  <2>. HIDE DEF m
  <2>. QED BY <2>1, Division
<1>2. gm \in Nat
  OBVIOUS
<1>3. full = IF (x \div h) % 2 = 1 THEN rest + gm - m ELSE rest
  BY DEF SignRepeated
<1>4. m * q = h * (2 * q)
  <2>. HIDE DEF q
  <2>. QED BY <1>1
<1>. HIDE DEF q, rest
<1>5. CASE rest < h
  <2>. DEFINE p == 2 * q
  <2>1. x \div h = p
    <3>1. p \in Nat /\ x = h * p + rest
      BY <1>1, <1>4
    <3>. HIDE DEF p
    <3>. QED BY <1>1, <1>5, <3>1, OneRemainder
  <2>2. (x \div h) % 2 # 1
    BY <1>1, <2>1
  <2>3. full = rest
    BY <1>3, <2>2
  <2>4. rest % m = rest
    BY <1>1
  <2>. QED BY <1>5, <2>3, <2>4 DEF rest, SignedNumber
<1>6. CASE ~(rest < h)
  <2>. DEFINE p == 2 * q + 1
  <2>1. h * p = h * (2 * q) + h /\ p \in Nat /\ rest - h \in Nat /\ rest - h < h
    BY <1>1, <1>6
  <2>2. x = h * p + (rest - h)
    <3>1. h * (2 * q) \in Nat
      BY <1>1
    <3>. HIDE DEF p
    <3>. QED BY <1>1, <1>4, <2>1, <3>1
  <2>3. x \div h = p
    <3>. HIDE DEF p
    <3>. QED BY <2>1, <2>2, OneRemainder
  <2>4. (x \div h) % 2 = 1
    BY <1>1, <2>3
  <2>5. full = rest + gm - m
    BY <1>3, <2>4
  <2>6. gm - m = m * (g - 1) /\ g - 1 \in Nat
    BY <1>1
  <2>7. full \in Nat /\ full = m * (g - 1) + rest
    <3>1. m * (g - 1) \in Nat
      BY <1>1, <2>6
    <3>. HIDE DEF gm, m
    <3>. QED BY <1>1, <1>2, <2>5, <2>6, <3>1
  <2>8. full % m = rest
    <3>. HIDE DEF m
    <3>. QED BY <1>1, <2>6, <2>7, OneRemainder
  <2>9. full >= gm - h
    BY <1>1, <1>2, <1>6, <2>5
  <2>. QED BY <2>8, <2>9 DEF rest, SignedNumber
<1>. QED BY <1>5, <1>6

(* What a reference point is in the device.                                *)
LEMMA ReferenceIs ==
  ASSUME NEW x \in Nat
  PROVE  LET half == 2^(4 * ByteBits - ByteBits \div 2) \div 2
         IN  /\ Io!SignExtend(x) % (2 * half) = x % (2 * half)
             /\ Io!SignExtend(x) < half \/ Io!SignExtend(x) >= Io!B^4 - half
<1>. DEFINE high == ByteBits \div 2
            p(k) == 2^k
            N == 4 * ByteBits
            h == p(N - high - 1)
            g == p(high)
            full == Io!SignExtend(x)
<1>1. /\ ByteBits \in Nat \ {0} /\ p(0) = 1 /\ p(1) = 2
      /\ \A k, j \in 0 .. N : p(k) \in Nat \ {0} /\ p(k + j) = p(k) * p(j)
      /\ Io!B^4 = p(N)
  BY IoAssumption DEF Io!B
<1>2. /\ full = IF (x \div h) % 2 = 1 THEN (x % p(N - high)) + p(N) - p(N - high)
                ELSE x % p(N - high)
  BY DEF Io!SignExtend, Io!Bit
<1>. HIDE DEF p, full
<1>3. /\ high \in 0..N /\ N - high \in 0..N /\ N - high - 1 \in 0..N /\ 1 \in 0..N
      /\ N - high = 1 + (N - high - 1) /\ N = high + (N - high)
  <2>1. ByteBits \in Nat /\ ByteBits > 0
    BY <1>1
  <2>2. high \in Nat /\ 2 * high <= ByteBits /\ N = 4 * ByteBits
    BY <2>1
  <2>. HIDE DEF high, N
  <2>. QED BY <2>1, <2>2
<1>. HIDE DEF N, high
<1>4. h \in Nat \ {0} /\ g \in Nat \ {0} /\ p(N - high) = 2 * h /\ p(N) = g * p(N - high)
  BY <1>1, <1>3
<1>. HIDE DEF h, g
<1>5. SignRepeated(full, h, g, x)
  BY <1>2, <1>4, Zenon DEF SignRepeated
<1>6. SignedNumber(full, h, g, x)
  BY <1>4, <1>5, Extended
<1>7. p(N - high) \div 2 = h /\ Io!B^4 = g * (2 * h)
  BY <1>1, <1>4
<1>. QED BY <1>6, <1>7 DEF SignedNumber, full, p, N, high

(* Which handler a byte goes to. *)
LEMMA WhichWrite ==
  ASSUME NEW s, NEW o, NEW v
  PROVE  /\ block = "dispcnt"   => Io!io_write8(s, o, v) = Io!WriteDispcnt(s, o, v)
         /\ block = "pair"      => Io!io_write8(s, o, v) = Io!WritePlain(s, o, v)
         /\ block = "dispstat"  => Io!io_write8(s, o, v) = Io!WriteDispstat(s, o, v)
         /\ block = "reference" => Io!io_write8(s, o, v) = Io!WriteReference(s, o, v)
         /\ block = "timer"     => Io!io_write8(s, o, v) = Io!WriteTimer(s, o, v)
         /\ block = "dma"       => Io!io_write8(s, o, v) = Io!WriteDma(s, o, v)
         /\ block = "fifo"      => Io!io_write8(s, o, v) = Io!WriteFifo(s, o, v)
         /\ block = "irq"       => Io!io_write8(s, o, v) = Io!WriteIrq(s, o, v)
         /\ block = "keys"      => Io!io_write8(s, o, v) = Io!WriteKeys(s, o, v)
         /\ block = "tone"      => Io!io_write8(s, o, v) = Io!WriteTone(s, o, v)
         /\ block = "haltcnt"   => Io!io_write8(s, o, v) = Io!WriteHaltcnt(s, o, v)
  BY Zenon DEF Io!io_write8

(* Where a byte is read from. *)
LEMMA WhichRead ==
  ASSUME NEW o
  PROVE  /\ block = "dispcnt" /\ o < 2 => Io!io_read8(o) = Io!ByteAt(dev[0], o)
         /\ block = "pair" /\ o >= 2 => Io!io_read8(o) = Io!ByteAt(dev[1], o - 2)
         /\ block = "pair" /\ ~(o >= 2) => Io!io_read8(o) = io_regs[o]
         /\ block = "dispstat" /\ o < 2 => Io!io_read8(o) = Io!ByteAt(dev.dispstat, o)
         /\ block = "timer" /\ ~(o < 2) => Io!io_read8(o) = Io!ByteAt(dev.control, o - 2)
         /\ block = "irq" /\ o < 2 => Io!io_read8(o) = Io!ByteAt(dev.ie, o)
         /\ block = "dma" => Io!io_read8(o) = io_regs[o]
  BY Zenon DEF Io!io_read8

(* A tone's registers show what the device makes of them. *)
LEMMA ToneRead ==
  ASSUME block = "tone"
  PROVE  /\ Io!io_read8(0) = io_regs[0] % 2^(ByteBits - 1)
         /\ Io!io_read8(2) = (io_regs[2] \div 2^LengthBits) * 2^LengthBits
         /\ Io!io_read8(3) = io_regs[3]
<1>1. 2 # 0 /\ 2 # 1 /\ 3 # 0 /\ 3 # 1 /\ 3 # 2
  OBVIOUS
<1>. QED BY <1>1, Zenon DEF Io!io_read8

(* The offsets of a block's bytes. *)
LEMMA OffsetsAre ==
  /\ block \in {"dispcnt", "pair", "dispstat", "reference", "timer", "fifo", "irq", "keys", "tone"}
       => Io!Offset = 0..3
  /\ block = "dma" => Io!Offset = 0..11
  /\ block = "haltcnt" => Io!Offset = 0..1
<1>1. /\ Io!Size["dispcnt"] = 4 /\ Io!Size["pair"] = 4 /\ Io!Size["dispstat"] = 4
      /\ Io!Size["reference"] = 4 /\ Io!Size["timer"] = 4 /\ Io!Size["fifo"] = 4
      /\ Io!Size["irq"] = 4 /\ Io!Size["keys"] = 4 /\ Io!Size["tone"] = 4
      /\ Io!Size["dma"] = 12 /\ Io!Size["haltcnt"] = 2
  BY DEF Io!Size
<1>2. 4 - 1 = 3 /\ 12 - 1 = 11 /\ 2 - 1 = 1
  OBVIOUS
<1>. QED BY <1>1, <1>2, Zenon DEF Io!Offset

(* Copies and device, and the bytes of a block.                            *)
St(io, dv) == [io |-> io, dev |-> dv]
IsBytes(f) == f \in [Io!Offset -> OneByte]
With(f, o, v) == [f EXCEPT ![o] = v]
Add(T, o) == T \cup {o}

(* Storing a byte. *)
LEMMA WithByte ==
  ASSUME NEW f, IsBytes(f), NEW o \in Io!Offset, NEW v \in OneByte
  PROVE  /\ IsBytes(With(f, o, v)) /\ With(f, o, v)[o] = v
         /\ \A x \in Io!Offset : x # o => With(f, o, v)[x] = f[x]
  BY DEF IsBytes, With

(* The parts of a state. *)
LEMMA StIs ==
  ASSUME NEW io, NEW dv
  PROVE  /\ St(io, dv).io = io /\ St(io, dv).dev = dv
         /\ \A o, v : Io!Copy(St(io, dv), o, v) = With(io, o, v)
  BY DEF St, Io!Copy, With

(* For each block: what holds of its copies io and device dv while a store *)
(* is under way; m is what the program stored last at each offset, T where *)
(* it has stored since the copies were reset, A where this store has       *)
(* stored, and d the device before it.                                     *)
OnDispcnt(dv, m, T) ==
  dv \in [0..0 -> TwoBytes] /\ \A o \in T \cap {0, 1} : Io!ByteAt(dv[0], o) = m[o]
OnPair(io, dv, m, T) ==
  /\ io = m /\ dv \in [0..1 -> TwoBytes]
  /\ \A o \in T : Io!ByteAt(dv[o \div 2], o % 2) = m[o]
OnDispstat(dv, m, T) ==
  /\ dv \in [dispstat : TwoBytes, vcount : {0, 1}]
  /\ 0 \in T => Io!ByteAt(dv.dispstat, 0) \div 2^FlagBits = m[0] \div 2^FlagBits
  /\ 1 \in T => Io!ByteAt(dv.dispstat, 1) = m[1]
OnReference(io, dv, m, A) ==
  /\ io = m
  /\ A # {} => dv = [latch |-> Io!SignExtend(Io!Word(m, 0)), ref |-> Io!SignExtend(Io!Word(m, 0))]
OnTimer(io, dv, m, A, d) ==
  /\ io = m
  /\ dv \in [reload : TwoBytes, counter : TwoBytes, control : TwoBytes, enabled : BOOLEAN]
  /\ 1 \in A => dv.reload = Io!Half(m, 0)
  /\ 3 \in A => dv.control = Io!Half(m, 2)
  /\ 3 \notin A => dv.enabled = d.enabled
  /\ 3 \in A /\ dv.enabled /\ ~d.enabled => dv.counter = dv.reload
(* A DMA channel off or on before the store, d, takes the registers m.     *)
DmaControl(c, d) == IF Io!Runs(c, d.control) THEN Io!Ended(c) ELSE c
DmaTaken(m, d) == [source_latch |-> Io!Word(m, 0), dest_latch |-> Io!Word(m, 4),
                   count |-> Io!Half(m, 8), control |-> DmaControl(Io!Half(m, 10), d)]
OnDma(io, dv, m, T, A, d) ==
  /\ \A y \in 0..10 : io[y] = m[y]
  /\ dv \in [source_latch : Nat, dest_latch : Nat, count : TwoBytes, control : TwoBytes]
  /\ 11 \in T => io[11] = Io!ByteAt(dv.control, 1)
  /\ 11 \notin A => dv.control = d.control
  /\ 11 \in A => dv = DmaTaken(m, d)
OnFifo(io, m, T) == \A o \in T : io[o] = m[o]
OnIrq(dv, m, T, A, d) ==
  /\ dv \in [ie : TwoBytes, irf : SUBSET Nat] /\ d.irf \subseteq Nat
  /\ \A o \in T \cap {0, 1} : Io!ByteAt(dv.ie, o) = m[o]
  /\ dv.irf = {i \in d.irf : 2 + i \div ByteBits \in A
                               => ~Io!Bit(m[2 + i \div ByteBits], i % ByteBits)}
OnKeys(dv, m, T) ==
  /\ dv \in [keyinput : Nat, keycnt : TwoBytes]
  /\ \A o \in T \cap {2, 3} : Io!ByteAt(dv.keycnt, o - 2) = m[o]
OnTone(io, dv, m, T) ==
  /\ dv \in [master : BOOLEAN, sweep : Int, length : Int, duty : Int, envelope : Int]
  /\ 0 \in T => io[0] = m[0] /\ dv.sweep = m[0] % 2^(ByteBits - 1)
  /\ 2 \in T => /\ io[2] = m[2] /\ dv.duty = m[2] \div 2^LengthBits
                /\ dv.length = 2^LengthBits - (m[2] % 2^LengthBits)
  /\ 3 \in T => io[3] = m[3] /\ dv.envelope = m[3]
OnHaltcnt(dv, A) == dv \in [halted : BOOLEAN] /\ (1 \in A => dv.halted)

(* DISPCNT takes its two bytes one by one.                                 *)
LEMMA DispcntByte ==
  ASSUME block = "dispcnt", NEW io, NEW dv, NEW m, NEW T, IsBytes(io), IsBytes(m),
         OnDispcnt(dv, m, T), NEW o \in Io!Offset, NEW v \in OneByte
  PROVE  \E io1, dv1 : /\ Io!io_write8(St(io, dv), o, v) = St(io1, dv1)
                       /\ IsBytes(io1) /\ OnDispcnt(dv1, With(m, o, v), Add(T, o))
<1>. USE DEF Add
<1>1. Io!Offset = 0..3
  BY OffsetsAre
<1>. DEFINE io1 == With(io, o, v)
            x == dv[0]
            m1 == With(m, o, v)
<1>2. IsBytes(io1) /\ m1[o] = v /\ \A y \in Io!Offset : y # o => m1[y] = m[y]
  BY WithByte
<1>3. Io!io_write8(St(io, dv), o, v) = Io!WriteDispcnt(St(io, dv), o, v)
  BY WhichWrite
<1>4. x \in TwoBytes /\ dv \in [0..0 -> TwoBytes]
  BY DEF OnDispcnt
<1>5. /\ HasBytes(Io!SetByte(x, 0, v), v, Io!ByteAt(x, 1))
      /\ HasBytes(Io!SetByte(x, 1, v), Io!ByteAt(x, 0), v)
  BY <1>4, SetBytes
<1>6. CASE o \in {0, 1}
  <2>. DEFINE dv1 == [dv EXCEPT ![0] = Io!SetByte(x, o, v)]
  <2>1. o < 2 /\ o \div 2 = 0 /\ o % 2 = o
    BY <1>6
  <2>2. Io!WriteDispcnt(St(io, dv), o, v) = St(io1, dv1)
    BY <2>1, StIs DEF Io!WriteDispcnt, Io!WritePlain, St
  <2>3. dv1 \in [0..0 -> TwoBytes] /\ dv1[0] = Io!SetByte(x, o, v)
    BY <1>4, <1>5, <1>6 DEF HasBytes
  <2>4. ASSUME NEW y \in (T \cup {o}) \cap {0, 1} PROVE Io!ByteAt(dv1[0], y) = m1[y]
    <3>1. CASE y = o
      BY <1>2, <1>5, <1>6, <2>3, <3>1 DEF HasBytes
    <3>2. CASE y # o
      <4>1. y \in Io!Offset /\ m1[y] = m[y] /\ Io!ByteAt(x, y) = m[y]
        BY <1>1, <1>2, <2>4, <3>2 DEF OnDispcnt
      <4>. QED BY <1>5, <1>6, <2>3, <3>2, <4>1 DEF HasBytes
    <3>. QED BY <3>1, <3>2
  <2>. HIDE DEF dv1, m1, io1
  <2>5. OnDispcnt(dv1, m1, T \cup {o})
    BY <2>3, <2>4 DEF OnDispcnt
  <2>. QED BY <1>2, <1>3, <2>2, <2>5 DEF m1
<1>7. CASE o \notin {0, 1}
  <2>1. ~(o < 2) /\ o # 0 /\ o # 1
    BY <1>1, <1>7
  <2>2. Io!WriteDispcnt(St(io, dv), o, v) = St(io1, dv)
    BY <2>1, StIs DEF Io!WriteDispcnt, St
  <2>3. ASSUME NEW y \in (T \cup {o}) \cap {0, 1} PROVE Io!ByteAt(dv[0], y) = m1[y]
    BY <1>1, <1>2, <1>7, <2>3 DEF OnDispcnt
  <2>. HIDE DEF m1, io1
  <2>4. OnDispcnt(dv, m1, T \cup {o})
    BY <1>4, <2>3 DEF OnDispcnt
  <2>. QED BY <1>2, <1>3, <2>2, <2>4 DEF m1
<1>. QED BY <1>6, <1>7

(* So do the registers of a pair. *)
LEMMA PairByte ==
  ASSUME block = "pair", NEW io, NEW dv, NEW m, NEW T, IsBytes(io), IsBytes(m),
         T \subseteq Io!Offset, OnPair(io, dv, m, T), NEW o \in Io!Offset, NEW v \in OneByte
  PROVE  \E io1, dv1 : /\ Io!io_write8(St(io, dv), o, v) = St(io1, dv1)
                       /\ IsBytes(io1) /\ OnPair(io1, dv1, With(m, o, v), Add(T, o))
<1>. USE DEF Add
<1>1. Io!Offset = 0..3
  BY OffsetsAre
<1>. DEFINE io1 == With(io, o, v)
            m1 == With(m, o, v)
            r == o \div 2
            j == o % 2
            x == dv[r]
            dv1 == [dv EXCEPT ![r] = Io!SetByte(x, j, v)]
<1>2. IsBytes(io1) /\ m1[o] = v /\ \A y \in Io!Offset : y # o => m1[y] = m[y]
  BY WithByte
<1>3. Io!io_write8(St(io, dv), o, v) = St(io1, dv1)
  BY WhichWrite, StIs DEF Io!WritePlain, St
<1>4. r \in {0, 1} /\ j \in {0, 1} /\ o = 2 * r + j
  BY <1>1
<1>5. dv \in [0..1 -> TwoBytes] /\ x \in TwoBytes /\ io = m
  BY <1>4 DEF OnPair
<1>6. /\ HasBytes(Io!SetByte(x, 0, v), v, Io!ByteAt(x, 1))
      /\ HasBytes(Io!SetByte(x, 1, v), Io!ByteAt(x, 0), v)
  BY <1>5, SetBytes
<1>. HIDE DEF r, j, x, m1, io1
<1>7. /\ dv1 \in [0..1 -> TwoBytes] /\ dv1[r] = Io!SetByte(x, j, v)
      /\ \A y \in {0, 1} : y # r => dv1[y] = dv[y]
  BY <1>4, <1>5, <1>6 DEF HasBytes
<1>. HIDE DEF dv1
<1>8. ASSUME NEW y \in T \cup {o} PROVE Io!ByteAt(dv1[y \div 2], y % 2) = m1[y]
  <2>1. CASE y = o
    BY <1>2, <1>4, <1>6, <1>7, <2>1 DEF HasBytes, r, j
  <2>2. CASE y # o
    <3>. DEFINE q == y \div 2
                k == y % 2
    <3>1. y \in 0..3 /\ y \in T
      BY <1>1, <1>8, <2>2
    <3>2. q \in {0, 1} /\ k \in {0, 1} /\ y = 2 * q + k
      BY <3>1
    <3>3. m1[y] = m[y] /\ Io!ByteAt(dv[q], k) = m[y]
      BY <1>1, <1>2, <2>2, <3>1 DEF OnPair
    <3>. HIDE DEF q, k
    <3>4. CASE q = r
      <4>1. k # j
        BY <1>4, <2>2, <3>2, <3>4
      <4>2. Io!ByteAt(Io!SetByte(x, j, v), k) = Io!ByteAt(x, k)
        BY <1>4, <1>6, <3>2, <4>1 DEF HasBytes
      <4>. QED BY <1>7, <3>3, <3>4, <4>2 DEF q, k, x
    <3>5. CASE q # r
      BY <1>7, <3>2, <3>3, <3>5 DEF q, k
    <3>. QED BY <3>4, <3>5
  <2>. QED BY <2>1, <2>2
<1>9. OnPair(io1, dv1, m1, T \cup {o})
  BY <1>5, <1>7, <1>8 DEF OnPair, io1, m1
<1>. QED BY <1>2, <1>3, <1>9 DEF m1

(* Registers made of copies. *)
LEMMA HalfIs ==
  ASSUME NEW f, IsBytes(f), NEW k \in Io!Offset, k + 1 \in Io!Offset
  PROVE  HasBytes(Io!Half(f, k), f[k], f[k + 1])
<1>1. f[k] \in OneByte /\ f[k + 1] \in OneByte
  BY DEF IsBytes
<1>. QED BY <1>1, MadeOfBytes DEF Io!Half

(* Four copies make a number. *)
LEMMA WordIs ==
  ASSUME NEW f, IsBytes(f), NEW k \in Io!Offset, k + 1 \in Io!Offset,
         k + 2 \in Io!Offset, k + 2 + 1 \in Io!Offset
  PROVE  Io!Word(f, k) \in Nat
<1>. DEFINE x == Io!Half(f, k)
            y == Io!Half(f, k + 2)
            b == Io!B * Io!B
<1>1. x \in TwoBytes /\ y \in TwoBytes
  BY HalfIs DEF HasBytes
<1>2. b \in Nat /\ Io!B^2 = b
  BY IoPowers
<1>3. x \in Nat /\ y \in Nat
  BY <1>1, <1>2 DEF TwoBytes
<1>4. Io!Word(f, k) = x + y * b
  BY <1>2 DEF Io!Word
<1>. HIDE DEF x, y, b
<1>. QED BY <1>2, <1>3, <1>4

(* DISPSTAT. *)
LEMMA DispstatByte ==
  ASSUME block = "dispstat", NEW io, NEW dv, NEW m, NEW T, IsBytes(io), IsBytes(m),
         OnDispstat(dv, m, T), NEW o \in Io!Offset, NEW v \in OneByte
  PROVE  \E io1, dv1 : /\ Io!io_write8(St(io, dv), o, v) = St(io1, dv1)
                       /\ IsBytes(io1) /\ OnDispstat(dv1, With(m, o, v), Add(T, o))
<1>. USE DEF Add
<1>1. Io!Offset = 0..3
  BY OffsetsAre
<1>. DEFINE s == St(io, dv)
            x == dv.dispstat
            m1 == With(m, o, v)
            lo == Io!ByteAt(x, 0)
            hi == Io!ByteAt(x, 1)
            f == 2^FlagBits
<1>2. m1[o] = v /\ \A y \in Io!Offset : y # o => m1[y] = m[y]
  BY WithByte
<1>3. Io!io_write8(s, o, v) = Io!WriteDispstat(s, o, v) /\ s.dev = dv /\ s.io = io
  BY WhichWrite, StIs
<1>4. dv \in [dispstat : TwoBytes, vcount : {0, 1}] /\ x \in TwoBytes
  BY DEF OnDispstat
<1>5. CASE o = 0
  <2>. DEFINE y == x - lo + (x % f) + (v \div f) * f
  <2>1. PICK z \in OneByte : z \div f = v \div f /\ HasBytes(y, z, hi)
    BY <1>4, FlagsKept
  <2>. DEFINE io1 == With(io, 0, Io!ByteAt(y, 0))
              dv1 == [dv EXCEPT !.dispstat = y]
  <2>2. Io!WriteDispstat(s, o, v) = [io |-> Io!Copy(s, 0, Io!ByteAt(y, 0)), dev |-> dv1]
    <3>1. 0 # 1
      OBVIOUS
    <3>. HIDE DEF s
    <3>2. Io!WriteDispstat(s, 0, v) =
            LET u == s.dev.dispstat - Io!ByteAt(s.dev.dispstat, 0)
                       + (s.dev.dispstat % 2^FlagBits) + (v \div 2^FlagBits) * 2^FlagBits
            IN  [io |-> Io!Copy(s, 0, Io!ByteAt(u, 0)), dev |-> [s.dev EXCEPT !.dispstat = u]]
      BY <3>1, Zenon DEF Io!WriteDispstat
    <3>. QED BY <1>3, <1>5, <3>2
  <2>. HIDE DEF y, lo, hi, f
  <2>3. Io!ByteAt(y, 0) = z /\ Io!ByteAt(y, 1) = hi /\ y \in TwoBytes
    BY <2>1 DEF HasBytes
  <2>4. IsBytes(io1)
    BY <1>1, <2>3, WithByte
  <2>5. dv1 \in [dispstat : TwoBytes, vcount : {0, 1}] /\ dv1.dispstat = y
    BY <1>4, <2>3
  <2>6. Io!io_write8(s, o, v) = St(io1, dv1)
    BY <1>3, <2>2, StIs DEF St
  <2>. HIDE DEF dv1, io1, m1, x
  <2>7. 1 \in T => hi = m1[1]
    BY <1>1, <1>2, <1>5 DEF OnDispstat, hi, x
  <2>8. OnDispstat(dv1, m1, T \cup {o})
    BY <1>2, <1>5, <2>1, <2>3, <2>5, <2>7 DEF OnDispstat, f
  <2>. QED BY <2>4, <2>6, <2>8 DEF m1
<1>6. CASE o = 1
  <2>. DEFINE y == Io!SetByte(x, 1, v)
              io1 == With(io, o, v)
              dv1 == [dv EXCEPT !.dispstat = y]
  <2>1. HasBytes(y, lo, v)
    BY <1>4, SetBytes
  <2>2. Io!WriteDispstat(s, o, v) = [io |-> Io!Copy(s, o, v), dev |-> dv1]
    <3>1. 1 # 0
      OBVIOUS
    <3>. HIDE DEF s
    <3>2. Io!WriteDispstat(s, 1, v) =
            [io |-> Io!Copy(s, 1, v),
             dev |-> [s.dev EXCEPT !.dispstat = Io!SetByte(@, 1, v)]]
      BY <3>1, Zenon DEF Io!WriteDispstat
    <3>. QED BY <1>3, <1>6, <3>2
  <2>3. IsBytes(io1)
    BY WithByte
  <2>. HIDE DEF y, lo
  <2>4. Io!ByteAt(y, 0) = lo /\ Io!ByteAt(y, 1) = v /\ y \in TwoBytes
    BY <2>1 DEF HasBytes
  <2>5. dv1 \in [dispstat : TwoBytes, vcount : {0, 1}] /\ dv1.dispstat = y
    BY <1>4, <2>4
  <2>6. Io!io_write8(s, o, v) = St(io1, dv1)
    BY <1>3, <2>2, StIs DEF St
  <2>. HIDE DEF dv1, io1, m1, x
  <2>7. 0 \in T => lo \div f = m1[0] \div f
    BY <1>1, <1>2, <1>6 DEF OnDispstat, lo, x
  <2>8. OnDispstat(dv1, m1, T \cup {o})
    BY <1>2, <1>6, <2>4, <2>5, <2>7 DEF OnDispstat
  <2>. QED BY <2>3, <2>6, <2>8 DEF m1
<1>7. CASE o # 0 /\ o # 1
  <2>1. Io!WriteDispstat(s, o, v) = s
    BY <1>7, Zenon DEF Io!WriteDispstat
  <2>2. (0 \in T => m1[0] = m[0]) /\ (1 \in T => m1[1] = m[1])
    BY <1>1, <1>2, <1>7
  <2>. HIDE DEF m1, s
  <2>3. OnDispstat(dv, m1, T \cup {o})
    BY <1>7, <2>2 DEF OnDispstat
  <2>. QED BY <1>3, <2>1, <2>3 DEF m1, s
<1>. QED BY <1>5, <1>6, <1>7

(* A reference point is rebuilt with every byte. *)
LEMMA ReferenceByte ==
  ASSUME block = "reference", NEW io, NEW dv, NEW m, NEW A, IsBytes(io), IsBytes(m),
         OnReference(io, dv, m, A), NEW o \in Io!Offset, NEW v \in OneByte
  PROVE  \E io1, dv1 : /\ Io!io_write8(St(io, dv), o, v) = St(io1, dv1)
                       /\ IsBytes(io1) /\ OnReference(io1, dv1, With(m, o, v), Add(A, o))
<1>. USE DEF Add
<1>. DEFINE io1 == With(io, o, v)
            full == Io!SignExtend(Io!Word(io1, 0))
            dv1 == [latch |-> full, ref |-> full]
<1>1. io = m /\ IsBytes(io1)
  BY WithByte DEF OnReference
<1>2. Io!io_write8(St(io, dv), o, v) = St(io1, dv1)
  BY WhichWrite, StIs DEF Io!WriteReference, St
<1>3. OnReference(io1, dv1, With(m, o, v), A \cup {o})
  BY <1>1 DEF OnReference
<1>. QED BY <1>1, <1>2, <1>3

(* A timer waits for the high bytes. *)
LEMMA TimerByte ==
  ASSUME block = "timer", NEW io, NEW dv, NEW m, NEW A, NEW d, IsBytes(io), IsBytes(m),
         OnTimer(io, dv, m, A, d), NEW o \in Io!Offset, NEW v \in OneByte, \A a \in A : a < o
  PROVE  \E io1, dv1 : /\ Io!io_write8(St(io, dv), o, v) = St(io1, dv1)
                       /\ IsBytes(io1) /\ OnTimer(io1, dv1, With(m, o, v), Add(A, o), d)
<1>. USE DEF Add
<1>. DEFINE s == St(io, dv)
            io1 == With(io, o, v)
            R == [reload : TwoBytes, counter : TwoBytes, control : TwoBytes, enabled : BOOLEAN]
            lo == Io!Half(io1, 0)
            hi == Io!Half(io1, 2)
<1>1. Io!Offset = 0..3
  BY OffsetsAre
<1>2. io = m /\ IsBytes(io1) /\ dv \in R
  BY WithByte DEF OnTimer
<1>3. Io!io_write8(s, o, v) = Io!WriteTimer(s, o, v) /\ s.dev = dv /\ Io!Copy(s, o, v) = io1
  BY WhichWrite, StIs
<1>4. lo \in TwoBytes /\ hi \in TwoBytes
  <2>1. /\ 0 \in Io!Offset /\ 0 + 1 \in Io!Offset
        /\ 2 \in Io!Offset /\ 2 + 1 \in Io!Offset
    BY <1>1
  <2>. HIDE DEF io1
  <2>. QED BY <1>2, <2>1, HalfIs DEF HasBytes
<1>5. /\ o > 1 => lo = Io!Half(m, 0)
      /\ \A y \in Io!Offset : y # o => io1[y] = io[y]
  <2>1. \A y \in Io!Offset : y # o => io1[y] = io[y]
    BY WithByte
  <2>2. o > 1 => io1[0] = m[0] /\ io1[0 + 1] = m[0 + 1]
    BY <1>1, <1>2, <2>1
  <2>. QED BY <2>1, <2>2 DEF Io!Half
<1>6. CASE o = 1
  <2>. DEFINE dv1 == [dv EXCEPT !.reload = lo]
  <2>1. Io!WriteTimer(s, o, v) = [io |-> io1, dev |-> dv1]
    <3>1. 1 # 3
      OBVIOUS
    <3>. HIDE DEF s, io1
    <3>2. Io!WriteTimer(s, 1, v) = [io |-> Io!Copy(s, 1, v),
                                    dev |-> [s.dev EXCEPT !.reload = Io!Half(Io!Copy(s, 1, v), 0)]]
      BY <3>1, Zenon DEF Io!WriteTimer
    <3>. QED BY <1>3, <1>6, <3>2
  <2>2. 3 \notin A /\ 3 \notin A \cup {o} /\ 1 \notin A
    BY <1>6
  <2>. HIDE DEF lo
  <2>3. dv1 \in R /\ dv1.reload = lo /\ dv1.enabled = dv.enabled
    BY <1>2, <1>4
  <2>4. OnTimer(io1, dv1, With(m, o, v), A \cup {o}, d)
    <3>. HIDE DEF dv1, io1
    <3>. QED BY <1>2, <2>2, <2>3 DEF OnTimer, io1, lo
  <2>. QED BY <1>2, <1>3, <2>1, <2>4 DEF St
<1>7. CASE o = 3
  <2>. DEFINE dv1 == Io!timer_write_control(dv, hi)
  <2>1. Io!WriteTimer(s, o, v) = [io |-> io1, dev |-> dv1]
    <3>1. 3 # 1
      OBVIOUS
    <3>. HIDE DEF s, io1
    <3>2. Io!WriteTimer(s, 3, v) = [io |-> Io!Copy(s, 3, v),
                                    dev |-> Io!timer_write_control(s.dev, Io!Half(Io!Copy(s, 3, v), 2))]
      BY <3>1, Zenon DEF Io!WriteTimer
    <3>. QED BY <1>3, <1>7, <3>2
  <2>. HIDE DEF hi
  <2>2. /\ dv1 \in R /\ dv1.control = hi /\ dv1.reload = dv.reload
        /\ dv1.enabled /\ ~dv.enabled => dv1.counter = dv1.reload
    <3>. DEFINE on == Io!Bit(hi, ByteBits - 1)
    <3>1. on \in BOOLEAN
      BY DEF Io!Bit
    <3>. HIDE DEF on
    <3>2. dv1 = [dv EXCEPT !.control = hi, !.enabled = on,
                           !.counter = IF on /\ ~dv.enabled THEN dv.reload ELSE dv.counter]
      BY DEF Io!timer_write_control, on
    <3>. HIDE DEF dv1
    <3>. QED BY <1>2, <1>4, <3>1, <3>2
  <2>3. 3 \notin A /\ dv.enabled = d.enabled
    BY <1>7 DEF OnTimer
  <2>4. 1 \in A => dv.reload = lo
    BY <1>5, <1>7 DEF OnTimer
  <2>5. OnTimer(io1, dv1, With(m, o, v), A \cup {o}, d)
    <3>. HIDE DEF dv1, io1, lo
    <3>. QED BY <1>2, <1>7, <2>2, <2>3, <2>4 DEF OnTimer, io1, lo, hi
  <2>. QED BY <1>2, <1>3, <2>1, <2>5 DEF St
<1>8. CASE o # 1 /\ o # 3
  <2>1. Io!WriteTimer(s, o, v) = [io |-> io1, dev |-> dv]
    <3>. HIDE DEF s, io1
    <3>2. Io!WriteTimer(s, o, v) = [io |-> Io!Copy(s, o, v), dev |-> s.dev]
      BY <1>8, Zenon DEF Io!WriteTimer
    <3>. QED BY <1>3, <3>2
  <2>2. 3 \notin A /\ 3 \notin A \cup {o} /\ (1 \in A => o > 1)
    BY <1>1, <1>8
  <2>3. 1 \in A => dv.reload = lo
    BY <1>5, <2>2 DEF OnTimer
  <2>4. OnTimer(io1, dv, With(m, o, v), A \cup {o}, d)
    <3>. HIDE DEF io1, lo
    <3>. QED BY <1>2, <1>8, <2>2, <2>3 DEF OnTimer, io1, lo
  <2>. QED BY <1>2, <1>3, <2>1, <2>4 DEF St
<1>. QED BY <1>6, <1>7, <1>8

(* What is left of a byte without its top bit is a byte. *)
LEMMA EndedIsByte ==
  ASSUME NEW x \in OneByte
  PROVE  Io!EndedByte(x) \in OneByte
<1>. DEFINE b == Io!B
            h == 2^(ByteBits - 1)
<1>1. h \in Nat \ {0} /\ b = 2 * h
  BY IoPowers
<1>2. x \in 0 .. b - 1
  BY DEF OneByte
<1>. HIDE DEF h, b
<1>3. x % h \in 0 .. b - 1
  BY <1>1, <1>2
<1>. QED BY <1>3 DEF OneByte, b, h, Io!EndedByte

(* A DMA channel waits for the last byte of all, and then may run.         *)
LEMMA DmaByte ==
  ASSUME block = "dma", NEW io, NEW dv, NEW m, NEW T, NEW A, NEW d, IsBytes(io), IsBytes(m),
         OnDma(io, dv, m, T, A, d), NEW o \in Io!Offset, NEW v \in OneByte, \A a \in A : a < o
  PROVE  \E io1, dv1 : /\ Io!io_write8(St(io, dv), o, v) = St(io1, dv1)
                       /\ IsBytes(io1) /\ OnDma(io1, dv1, With(m, o, v), Add(T, o), Add(A, o), d)
<1>. USE DEF Add
<1>. DEFINE s == St(io, dv)
            io1 == With(io, o, v)
            m1 == With(m, o, v)
            R == [source_latch : Nat, dest_latch : Nat, count : TwoBytes, control : TwoBytes]
<1>1. Io!Offset = 0..11 /\ 11 \notin A
  BY OffsetsAre
<1>2. /\ IsBytes(io1) /\ io1[o] = v /\ \A y \in Io!Offset : y # o => io1[y] = io[y]
      /\ m1[o] = v /\ \A y \in Io!Offset : y # o => m1[y] = m[y]
  BY WithByte
<1>3. /\ \A y \in 0..10 : io[y] = m[y]
      /\ dv \in R /\ dv.control = d.control /\ (11 \in T => io[11] = Io!ByteAt(dv.control, 1))
  BY <1>1 DEF OnDma
<1>4. \A y \in 0..10 : io1[y] = m1[y]
  BY <1>1, <1>2, <1>3
<1>5. Io!io_write8(s, o, v) = Io!WriteDma(s, o, v)
  BY WhichWrite
<1>6. CASE o # 11
  <2>1. Io!WriteDma(s, o, v) = St(io1, dv)
    BY <1>6, StIs DEF Io!WriteDma, St
  <2>2. 11 \in T \cup {o} => io1[11] = Io!ByteAt(dv.control, 1)
    BY <1>1, <1>2, <1>3, <1>6
  <2>. HIDE DEF io1, m1
  <2>3. OnDma(io1, dv, m1, T \cup {o}, A \cup {o}, d)
    BY <1>1, <1>3, <1>4, <1>6, <2>2 DEF OnDma
  <2>. QED BY <1>2, <1>5, <2>1, <2>3 DEF m1
<1>7. CASE o = 11
  <2>. DEFINE c == Io!Half(io1, 10)
              runs == Io!Runs(c, dv.control)
              io2 == IF runs THEN [io1 EXCEPT ![11] = Io!EndedByte(v)] ELSE io1
              x == IF runs THEN Io!Ended(c) ELSE c
              dv2 == [source_latch |-> Io!Word(io1, 0), dest_latch |-> Io!Word(io1, 4),
                      count |-> Io!Half(io1, 8), control |-> x]
  <2>1. Io!WriteDma(s, o, v) = St(io2, dv2)
    BY <1>7, StIs DEF Io!WriteDma, St
  <2>. HIDE DEF io1, m1
  <2>2. /\ 0 \in Io!Offset /\ 0 + 1 \in Io!Offset /\ 0 + 2 \in Io!Offset /\ 0 + 2 + 1 \in Io!Offset
        /\ 4 \in Io!Offset /\ 4 + 1 \in Io!Offset /\ 4 + 2 \in Io!Offset /\ 4 + 2 + 1 \in Io!Offset
        /\ 8 \in Io!Offset /\ 8 + 1 \in Io!Offset /\ 10 \in Io!Offset /\ 10 + 1 \in Io!Offset
    BY <1>1
  <2>3. Io!Word(io1, 0) \in Nat /\ Io!Word(io1, 4) \in Nat
    BY <1>2, <2>2, WordIs
  <2>4. Io!Half(io1, 8) \in TwoBytes /\ c \in TwoBytes /\ Io!ByteAt(c, 1) = v
    BY <1>2, <1>7, <2>2, HalfIs DEF HasBytes
  <2>5. \A y \in Io!Offset : io1[y] = m1[y]
    <3>. SUFFICES ASSUME NEW y \in 0..11 PROVE io1[y] = m1[y]
      BY <1>1
    <3>. QED BY <1>2, <1>4, <1>7
  <2>6. /\ Io!Word(io1, 0) = Io!Word(m1, 0) /\ Io!Word(io1, 4) = Io!Word(m1, 4)
        /\ Io!Half(io1, 8) = Io!Half(m1, 8) /\ c = Io!Half(m1, 10)
    BY <2>2, <2>5 DEF Io!Word, Io!Half
  <2>. HIDE DEF c
  <2>7. /\ Io!Ended(c) \in TwoBytes /\ Io!ByteAt(Io!Ended(c), 1) = Io!EndedByte(v)
        /\ Io!EndedByte(v) \in OneByte
    BY <2>4, EnableCleared, EndedIsByte DEF HasBytes
  <2>8. /\ IsBytes(io2) /\ io2[11] = Io!ByteAt(x, 1) /\ x \in TwoBytes
        /\ \A y \in 0..10 : io2[y] = io1[y]
    <3>. HIDE DEF runs
    <3>1. DOMAIN io1 = Io!Offset /\ 11 \in Io!Offset /\ io1[11] = v
      BY <1>1, <1>2, <1>7 DEF IsBytes
    <3>. QED BY <1>1, <1>2, <2>4, <2>7, <3>1 DEF IsBytes
  <2>9. dv2 = DmaTaken(m1, d)
    BY <1>3, <2>6 DEF DmaTaken, DmaControl
  <2>10. dv2 \in R /\ dv2.control = x
    BY <2>3, <2>4, <2>8
  <2>. HIDE DEF io2, dv2, x
  <2>11. OnDma(io2, dv2, m1, T \cup {o}, A \cup {o}, d)
    BY <1>4, <1>7, <2>8, <2>9, <2>10 DEF OnDma
  <2>. QED BY <1>5, <2>1, <2>8, <2>11 DEF m1
<1>. QED BY <1>6, <1>7

(* A FIFO's fourth byte pushes the word of the copies. *)
Pushed(io, dv, o) == o = 3 => dv = <<Io!Word(io, 0)>>

(* The four bytes of a FIFO. *)
LEMMA FifoByte ==
  ASSUME block = "fifo", NEW io, NEW dv, NEW m, NEW T, IsBytes(io), IsBytes(m),
         T \subseteq Io!Offset, OnFifo(io, m, T), NEW o \in Io!Offset, NEW v \in OneByte
  PROVE  \E io1, dv1 : /\ Io!io_write8(St(io, dv), o, v) = St(io1, dv1)
                       /\ IsBytes(io1) /\ OnFifo(io1, With(m, o, v), Add(T, o))
                       /\ Pushed(io1, dv1, o)
<1>. USE DEF Add
<1>. DEFINE io1 == With(io, o, v)
            dv1 == IF o = 3 THEN <<Io!Word(io1, 0)>> ELSE dv
<1>1. /\ IsBytes(io1) /\ io1[o] = v /\ With(m, o, v)[o] = v
      /\ \A y \in Io!Offset : y # o => io1[y] = io[y] /\ With(m, o, v)[y] = m[y]
  BY WithByte
<1>2. Io!io_write8(St(io, dv), o, v) = St(io1, dv1)
  BY WhichWrite, StIs DEF Io!WriteFifo, St
<1>3. OnFifo(io1, With(m, o, v), T \cup {o})
  <2>. HIDE DEF io1
  <2>. QED BY <1>1 DEF OnFifo
<1>4. Pushed(io1, dv1, o)
  BY DEF Pushed
<1>. QED BY <1>1, <1>2, <1>3, <1>4

(* IE takes its bytes one by one; a one in IF clears. *)
LEMMA IrqByte ==
  ASSUME block = "irq", NEW io, NEW dv, NEW m, NEW T, NEW A, NEW d, IsBytes(io), IsBytes(m),
         OnIrq(dv, m, T, A, d),
         NEW o \in Io!Offset, NEW v \in OneByte, \A a \in A : a < o
  PROVE  \E io1, dv1 : /\ Io!io_write8(St(io, dv), o, v) = St(io1, dv1)
                       /\ IsBytes(io1) /\ OnIrq(dv1, With(m, o, v), Add(T, o), Add(A, o), d)
<1>. USE DEF Add
<1>. DEFINE s == St(io, dv)
            m1 == With(m, o, v)
            x == dv.ie
            R == [ie : TwoBytes, irf : SUBSET Nat]
            at(i) == 2 + i \div ByteBits
<1>1. Io!Offset = 0..3
  BY OffsetsAre
<1>2. m1[o] = v /\ o \notin A
  <2>1. m1[o] = v
    BY WithByte
  <2>2. o \in Nat
    BY <1>1
  <2>. HIDE DEF m1
  <2>. QED BY <2>1, <2>2
<1>3. Io!io_write8(s, o, v) = Io!WriteIrq(s, o, v) /\ s.dev = dv /\ s.io = io
  BY WhichWrite, StIs
<1>4. dv \in R /\ x \in TwoBytes /\ dv.irf \subseteq Nat /\ d.irf \subseteq Nat
  BY DEF OnIrq
<1>5. \A i \in Nat : at(i) \in Nat /\ at(i) >= 2 /\ i \div ByteBits \in Nat
  BY IoAssumption
<1>6. \A y : y # o => m1[y] = m[y]
  <2>1. DOMAIN m = Io!Offset
    BY DEF IsBytes
  <2>. QED BY DEF With
<1>7. CASE o < 2
  <2>. DEFINE y == Io!SetByte(x, o, v)
              io1 == With(io, o, v)
              dv1 == [dv EXCEPT !.ie = y]
  <2>1. o \in {0, 1}
    BY <1>1, <1>7
  <2>2. y \in TwoBytes /\ Io!ByteAt(y, o) = v /\ \A k \in {0, 1} : k # o => Io!ByteAt(y, k) = Io!ByteAt(x, k)
    <3>1. /\ HasBytes(Io!SetByte(x, 0, v), v, Io!ByteAt(x, 1))
          /\ HasBytes(Io!SetByte(x, 1, v), Io!ByteAt(x, 0), v)
      BY <1>4, SetBytes
    <3>. HIDE DEF x
    <3>. QED BY <2>1, <3>1 DEF HasBytes
  <2>3. Io!WriteIrq(s, o, v) = St(io1, dv1)
    BY <1>3, <1>7, StIs DEF Io!WriteIrq, St
  <2>4. IsBytes(io1)
    BY WithByte
  <2>. HIDE DEF y
  <2>5. dv1 \in R /\ dv1.ie = y /\ dv1.irf = dv.irf
    BY <1>4, <2>2
  <2>. HIDE DEF dv1, m1
  <2>6. \A k \in (T \cup {o}) \cap {0, 1} : Io!ByteAt(dv1.ie, k) = m1[k]
    BY <1>2, <1>6, <2>2, <2>5 DEF OnIrq, x
  <2>7. \A i \in Nat : at(i) # o
    BY <1>5, <2>1
  <2>8. dv.irf = {i \in d.irf : at(i) \in A \cup {o} => ~Io!Bit(m1[at(i)], i % ByteBits)}
    <3>1. \A i \in d.irf : (at(i) \in A => ~Io!Bit(m[at(i)], i % ByteBits))
                        <=> (at(i) \in A \cup {o} => ~Io!Bit(m1[at(i)], i % ByteBits))
      <4>. HIDE DEF at
      <4>. QED BY <1>4, <1>6, <2>7
    <3>. HIDE DEF at
    <3>. QED BY <3>1 DEF OnIrq, at
  <2>. QED BY <1>3, <2>3, <2>4, <2>5, <2>6, <2>8, <1>4 DEF OnIrq, m1
<1>8. CASE ~(o < 2)
  <2>. DEFINE gone == {i \in dv.irf : i \div ByteBits = o - 2 /\ Io!Bit(v, i % ByteBits)}
              dv1 == [dv EXCEPT !.irf = @ \ gone]
  <2>1. o \in {2, 3}
    BY <1>1, <1>8
  <2>2. Io!WriteIrq(s, o, v) = St(io, dv1)
    BY <1>3, <1>8 DEF Io!WriteIrq, St
  <2>3. dv1 \in R /\ dv1.ie = x /\ dv1.irf = dv.irf \ gone
    <3>. HIDE DEF gone
    <3>. QED BY <1>4
  <2>4. \A i \in Nat : (i \div ByteBits = o - 2) <=> (at(i) = o)
    BY <1>5, <2>1
  <2>. HIDE DEF dv1, m1
  <2>5. \A k \in (T \cup {o}) \cap {0, 1} : Io!ByteAt(dv1.ie, k) = m1[k]
    BY <1>6, <2>1, <2>3 DEF OnIrq, x
  <2>6. dv1.irf = {i \in d.irf : at(i) \in A \cup {o} => ~Io!Bit(m1[at(i)], i % ByteBits)}
    <3>1. dv.irf = {i \in d.irf : at(i) \in A => ~Io!Bit(m[at(i)], i % ByteBits)}
      BY DEF OnIrq
    <3>2. gone = {i \in dv.irf : at(i) = o /\ Io!Bit(v, i % ByteBits)}
      BY <1>4, <2>4
    <3>. HIDE DEF at, gone
    <3>3. \A i \in d.irf :
            ((at(i) \in A => ~Io!Bit(m[at(i)], i % ByteBits)) /\ ~(at(i) = o /\ Io!Bit(v, i % ByteBits)))
              <=> (at(i) \in A \cup {o} => ~Io!Bit(m1[at(i)], i % ByteBits))
      <4>. SUFFICES ASSUME NEW i \in d.irf
                    PROVE ((at(i) \in A => ~Io!Bit(m[at(i)], i % ByteBits))
                             /\ ~(at(i) = o /\ Io!Bit(v, i % ByteBits)))
                           <=> (at(i) \in A \cup {o} => ~Io!Bit(m1[at(i)], i % ByteBits))
        OBVIOUS
      <4>1. CASE at(i) = o
        BY <1>2, <4>1, Zenon
      <4>2. CASE at(i) # o
        BY <1>6, <4>2, Zenon
      <4>. QED BY <4>1, <4>2
    <3>. QED BY <2>3, <3>1, <3>2, <3>3
  <2>. QED BY <1>3, <2>2, <2>3, <2>5, <2>6, <1>4 DEF OnIrq, m1
<1>. QED BY <1>7, <1>8

(* KEYCNT. *)
LEMMA KeysByte ==
  ASSUME block = "keys", NEW io, NEW dv, NEW m, NEW T, IsBytes(io), IsBytes(m),
         OnKeys(dv, m, T), NEW o \in Io!Offset, NEW v \in OneByte
  PROVE  \E io1, dv1 : /\ Io!io_write8(St(io, dv), o, v) = St(io1, dv1)
                       /\ IsBytes(io1) /\ OnKeys(dv1, With(m, o, v), Add(T, o))
<1>. USE DEF Add
<1>. DEFINE s == St(io, dv)
            m1 == With(m, o, v)
            x == dv.keycnt
            R == [keyinput : Nat, keycnt : TwoBytes]
<1>1. Io!Offset = 0..3
  BY OffsetsAre
<1>2. m1[o] = v /\ \A y \in Io!Offset : y # o => m1[y] = m[y]
  BY WithByte
<1>3. Io!io_write8(s, o, v) = Io!WriteKeys(s, o, v) /\ s.dev = dv /\ s.io = io
  BY WhichWrite, StIs
<1>4. dv \in R /\ x \in TwoBytes
  BY DEF OnKeys
<1>5. CASE o < 2
  <2>1. Io!WriteKeys(s, o, v) = s
    BY <1>5 DEF Io!WriteKeys
  <2>2. \A k \in (T \cup {o}) \cap {2, 3} : k \in T \cap {2, 3} /\ m1[k] = m[k]
    BY <1>1, <1>2, <1>5
  <2>. HIDE DEF m1, s
  <2>3. OnKeys(dv, m1, T \cup {o})
    BY <2>2 DEF OnKeys
  <2>. QED BY <1>3, <2>1, <2>3 DEF m1, s
<1>6. CASE ~(o < 2)
  <2>. DEFINE j == o - 2
              y == Io!SetByte(x, j, v)
              io1 == With(io, o, v)
              dv1 == [dv EXCEPT !.keycnt = y]
  <2>1. j \in {0, 1} /\ o = j + 2
    BY <1>1, <1>6
  <2>2. y \in TwoBytes /\ Io!ByteAt(y, j) = v /\ \A k \in {0, 1} : k # j => Io!ByteAt(y, k) = Io!ByteAt(x, k)
    <3>1. /\ HasBytes(Io!SetByte(x, 0, v), v, Io!ByteAt(x, 1))
          /\ HasBytes(Io!SetByte(x, 1, v), Io!ByteAt(x, 0), v)
      BY <1>4, SetBytes
    <3>. HIDE DEF x, j
    <3>. QED BY <2>1, <3>1 DEF HasBytes
  <2>3. Io!WriteKeys(s, o, v) = St(io1, dv1)
    BY <1>3, <1>6, StIs DEF Io!WriteKeys, St
  <2>4. IsBytes(io1)
    BY WithByte
  <2>. HIDE DEF y
  <2>5. dv1 \in R /\ dv1.keycnt = y
    BY <1>4, <2>2
  <2>. HIDE DEF dv1, m1
  <2>6. ASSUME NEW k \in (T \cup {o}) \cap {2, 3} PROVE Io!ByteAt(dv1.keycnt, k - 2) = m1[k]
    <3>1. CASE k = o
      BY <1>2, <2>2, <2>5, <3>1
    <3>2. CASE k # o
      <4>1. k \in T \cap {2, 3} /\ m1[k] = m[k] /\ k - 2 \in {0, 1} /\ k - 2 # j
        BY <1>1, <1>2, <2>1, <2>6, <3>2
      <4>. QED BY <2>2, <2>5, <4>1 DEF OnKeys, x
    <3>. QED BY <3>1, <3>2
  <2>. QED BY <1>3, <2>3, <2>4, <2>5, <2>6 DEF OnKeys, m1
<1>. QED BY <1>5, <1>6

(* A tone's registers, while the sound is on. *)
LEMMA ToneByte ==
  ASSUME block = "tone", NEW io, NEW dv, NEW m, NEW T, IsBytes(io), IsBytes(m), dv.master,
         OnTone(io, dv, m, T), NEW o \in Io!Offset, NEW v \in OneByte
  PROVE  \E io1, dv1 : /\ Io!io_write8(St(io, dv), o, v) = St(io1, dv1) /\ dv1.master
                       /\ IsBytes(io1) /\ OnTone(io1, dv1, With(m, o, v), Add(T, o))
<1>. USE DEF Add
<1>. DEFINE s == St(io, dv)
            io1 == With(io, o, v)
            m1 == With(m, o, v)
            R == [master : BOOLEAN, sweep : Int, length : Int, duty : Int, envelope : Int]
            l == 2^LengthBits
            h == 2^(ByteBits - 1)
<1>1. Io!Offset = 0..3
  BY OffsetsAre
<1>2. /\ m1[o] = v /\ io1[o] = v /\ IsBytes(io1)
      /\ \A y \in Io!Offset : y # o => m1[y] = m[y] /\ io1[y] = io[y]
  BY WithByte
<1>3. Io!io_write8(s, o, v) = Io!WriteTone(s, o, v) /\ s.dev = dv /\ Io!Copy(s, o, v) = io1
  BY WhichWrite, StIs
<1>4. dv \in R
  BY DEF OnTone
<1>5. l \in Nat \ {0} /\ h \in Nat \ {0} /\ v \in Nat
  BY IoPowers DEF OneByte
<1>6. v % h \in Int /\ v % l \in Int /\ v \div l \in Int /\ l - (v % l) \in Int
  <2>. HIDE DEF l, h
  <2>. QED BY <1>5
<1>7. CASE o = 1
  <2>1. Io!WriteTone(s, o, v) = s
    BY <1>7 DEF Io!WriteTone
  <2>2. m1[0] = m[0] /\ m1[2] = m[2] /\ m1[3] = m[3]
    BY <1>1, <1>2, <1>7
  <2>. HIDE DEF m1, s
  <2>3. OnTone(io, dv, m1, T \cup {o})
    BY <1>7, <2>2 DEF OnTone
  <2>. QED BY <1>3, <2>1, <2>3 DEF m1, s
<1>8. CASE o = 0
  <2>. DEFINE dv1 == [dv EXCEPT !.sweep = v % h]
  <2>1. Io!WriteTone(s, o, v) = [io |-> io1, dev |-> dv1]
    <3>1. 0 # 1 /\ 0 # 2 /\ 0 # 3
      OBVIOUS
    <3>. HIDE DEF s, io1
    <3>2. Io!WriteTone(s, 0, v) = IF ~s.dev.master \/ 0 = 1 THEN s
                                  ELSE [io |-> Io!Copy(s, 0, v),
                                        dev |-> [s.dev EXCEPT !.sweep = v % 2^(ByteBits - 1)]]
      BY <3>1, Zenon DEF Io!WriteTone
    <3>. QED BY <1>3, <1>8, <3>1, <3>2
  <2>2. m1[2] = m[2] /\ m1[3] = m[3] /\ io1[2] = io[2] /\ io1[3] = io[3]
    BY <1>1, <1>2, <1>8
  <2>. HIDE DEF h
  <2>3. /\ dv1 \in R /\ dv1.master /\ dv1.sweep = v % h /\ dv1.length = dv.length
        /\ dv1.duty = dv.duty /\ dv1.envelope = dv.envelope
    BY <1>4, <1>6
  <2>. HIDE DEF dv1, m1, io1
  <2>4. OnTone(io1, dv1, m1, T \cup {o})
    BY <1>2, <1>8, <2>2, <2>3 DEF OnTone, h
  <2>. QED BY <1>2, <1>3, <2>1, <2>3, <2>4 DEF m1, St
<1>9. CASE o = 2
  <2>. DEFINE dv1 == [dv EXCEPT !.length = l - (v % l), !.duty = v \div l]
  <2>1. Io!WriteTone(s, o, v) = [io |-> io1, dev |-> dv1]
    <3>1. 2 # 1 /\ 2 # 0 /\ 2 # 3
      OBVIOUS
    <3>. HIDE DEF s, io1
    <3>2. Io!WriteTone(s, 2, v) = IF ~s.dev.master \/ 2 = 1 THEN s
                                  ELSE [io |-> Io!Copy(s, 2, v),
                                        dev |-> [s.dev EXCEPT !.length = 2^LengthBits - (v % 2^LengthBits),
                                                              !.duty = v \div 2^LengthBits]]
      BY <3>1, Zenon DEF Io!WriteTone
    <3>. QED BY <1>3, <1>9, <3>1, <3>2
  <2>2. m1[0] = m[0] /\ m1[3] = m[3] /\ io1[0] = io[0] /\ io1[3] = io[3]
    BY <1>1, <1>2, <1>9
  <2>. HIDE DEF l
  <2>3. /\ dv1 \in R /\ dv1.master /\ dv1.sweep = dv.sweep /\ dv1.length = l - (v % l)
        /\ dv1.duty = v \div l /\ dv1.envelope = dv.envelope
    BY <1>4, <1>6
  <2>. HIDE DEF dv1, m1, io1
  <2>4. OnTone(io1, dv1, m1, T \cup {o})
    BY <1>2, <1>9, <2>2, <2>3 DEF OnTone, l
  <2>. QED BY <1>2, <1>3, <2>1, <2>3, <2>4 DEF m1, St
<1>10. CASE o = 3
  <2>. DEFINE dv1 == [dv EXCEPT !.envelope = v]
  <2>1. Io!WriteTone(s, o, v) = [io |-> io1, dev |-> dv1]
    <3>1. 3 # 1 /\ 3 # 0 /\ 3 # 2
      OBVIOUS
    <3>. HIDE DEF s, io1
    <3>2. Io!WriteTone(s, 3, v) = IF ~s.dev.master \/ 3 = 1 THEN s
                                  ELSE [io |-> Io!Copy(s, 3, v), dev |-> [s.dev EXCEPT !.envelope = v]]
      BY <3>1, Zenon DEF Io!WriteTone
    <3>. QED BY <1>3, <1>10, <3>1, <3>2
  <2>2. m1[0] = m[0] /\ m1[2] = m[2] /\ io1[0] = io[0] /\ io1[2] = io[2]
    BY <1>1, <1>2, <1>10
  <2>3. /\ dv1 \in R /\ dv1.master /\ dv1.sweep = dv.sweep /\ dv1.length = dv.length
        /\ dv1.duty = dv.duty /\ dv1.envelope = v
    BY <1>4, <1>5
  <2>. HIDE DEF dv1, m1, io1
  <2>4. OnTone(io1, dv1, m1, T \cup {o})
    BY <1>2, <1>10, <2>2, <2>3 DEF OnTone
  <2>. QED BY <1>2, <1>3, <2>1, <2>3, <2>4 DEF m1, St
<1>. QED BY <1>1, <1>7, <1>8, <1>9, <1>10

(* HALTCNT. *)
LEMMA HaltcntByte ==
  ASSUME block = "haltcnt", NEW io, NEW dv, NEW m, NEW A, IsBytes(io), IsBytes(m),
         OnHaltcnt(dv, A), NEW o \in Io!Offset, NEW v \in OneByte
  PROVE  \E io1, dv1 : /\ Io!io_write8(St(io, dv), o, v) = St(io1, dv1)
                       /\ IsBytes(io1) /\ OnHaltcnt(dv1, Add(A, o))
<1>. USE DEF Add
<1>. DEFINE io1 == With(io, o, v)
            on == dv.halted \/ o = 1
            dv1 == [halted |-> on]
<1>1. IsBytes(io1)
  BY WithByte
<1>2. Io!io_write8(St(io, dv), o, v) = St(io1, dv1)
  BY WhichWrite, StIs DEF Io!WriteHaltcnt, St
<1>3. on \in BOOLEAN /\ (1 \in A \cup {o} => on)
  BY DEF OnHaltcnt
<1>. HIDE DEF on
<1>4. OnHaltcnt(dv1, A \cup {o})
  BY <1>3 DEF OnHaltcnt
<1>. QED BY <1>1, <1>2, <1>4

-----------------------------------------------------------------------------
(* All blocks. *)
Blocks == {"dispcnt", "pair", "dispstat", "reference", "timer", "dma", "fifo", "irq", "keys",
           "tone", "haltcnt"}

On(io, dv, m, T, A, d) ==
  /\ block = "dispcnt"   => OnDispcnt(dv, m, T)
  /\ block = "pair"      => OnPair(io, dv, m, T)
  /\ block = "dispstat"  => OnDispstat(dv, m, T)
  /\ block = "reference" => OnReference(io, dv, m, A)
  /\ block = "timer"     => OnTimer(io, dv, m, A, d)
  /\ block = "dma"       => OnDma(io, dv, m, T, A, d)
  /\ block = "fifo"      => OnFifo(io, m, T)
  /\ block = "irq"       => OnIrq(dv, m, T, A, d)
  /\ block = "keys"      => OnKeys(dv, m, T)
  /\ block = "tone"      => OnTone(io, dv, m, T)
  /\ block = "haltcnt"   => OnHaltcnt(dv, A)

InStep(io, dv, m, T, A, d) ==
  /\ IsBytes(io) /\ IsBytes(m) /\ T \subseteq Io!Offset /\ A \subseteq Io!Offset
  /\ On(io, dv, m, T, A, d)

(* What a byte leaves behind: the sound is still on, and a FIFO has taken  *)
(* the word that is complete.                                              *)
Aftermath(io, dv, o) == /\ block = "tone" => dv.master
                        /\ block = "fifo" => Pushed(io, dv, o)

(* One byte of a store, in any block. *)
LEMMA ByteStored ==
  ASSUME block \in Blocks, NEW io, NEW dv, NEW m, NEW T, NEW A, NEW d,
         InStep(io, dv, m, T, A, d), block = "tone" => dv.master,
         NEW o \in Io!Offset, NEW v \in OneByte, \A a \in A : a < o
  PROVE  \E io1, dv1 : /\ Io!io_write8(St(io, dv), o, v) = St(io1, dv1)
                       /\ InStep(io1, dv1, With(m, o, v), Add(T, o), Add(A, o), d)
                       /\ Aftermath(io1, dv1, o)
<1>. DEFINE m1 == With(m, o, v)
            s1 == Io!io_write8(St(io, dv), o, v)
<1>1. /\ IsBytes(io) /\ IsBytes(m) /\ IsBytes(m1) /\ T \subseteq Io!Offset
      /\ Add(T, o) \subseteq Io!Offset /\ Add(A, o) \subseteq Io!Offset /\ On(io, dv, m, T, A, d)
  BY WithByte DEF InStep, Add
<1>. SUFFICES \E io1, dv1 : /\ s1 = St(io1, dv1) /\ IsBytes(io1)
                            /\ On(io1, dv1, m1, Add(T, o), Add(A, o), d) /\ Aftermath(io1, dv1, o)
  BY <1>1 DEF InStep
<1>2. CASE block = "dispcnt"
  <2>1. OnDispcnt(dv, m, T)
    BY <1>1, <1>2, Zenon DEF On
  <2>2. PICK io1, dv1 : s1 = St(io1, dv1) /\ IsBytes(io1) /\ OnDispcnt(dv1, m1, Add(T, o))
    BY <1>1, <1>2, <2>1, DispcntByte
  <2>. QED BY <1>2, <2>2, Zenon DEF On, Aftermath
<1>3. CASE block = "pair"
  <2>1. OnPair(io, dv, m, T)
    BY <1>1, <1>3, Zenon DEF On
  <2>2. PICK io1, dv1 : s1 = St(io1, dv1) /\ IsBytes(io1) /\ OnPair(io1, dv1, m1, Add(T, o))
    BY <1>1, <1>3, <2>1, PairByte
  <2>. QED BY <1>3, <2>2, Zenon DEF On, Aftermath
<1>4. CASE block = "dispstat"
  <2>1. OnDispstat(dv, m, T)
    BY <1>1, <1>4, Zenon DEF On
  <2>2. PICK io1, dv1 : s1 = St(io1, dv1) /\ IsBytes(io1) /\ OnDispstat(dv1, m1, Add(T, o))
    BY <1>1, <1>4, <2>1, DispstatByte
  <2>. QED BY <1>4, <2>2, Zenon DEF On, Aftermath
<1>5. CASE block = "reference"
  <2>1. OnReference(io, dv, m, A)
    BY <1>1, <1>5, Zenon DEF On
  <2>2. PICK io1, dv1 : s1 = St(io1, dv1) /\ IsBytes(io1) /\ OnReference(io1, dv1, m1, Add(A, o))
    BY <1>1, <1>5, <2>1, ReferenceByte
  <2>. QED BY <1>5, <2>2, Zenon DEF On, Aftermath
<1>6. CASE block = "timer"
  <2>1. OnTimer(io, dv, m, A, d)
    BY <1>1, <1>6, Zenon DEF On
  <2>2. PICK io1, dv1 : s1 = St(io1, dv1) /\ IsBytes(io1) /\ OnTimer(io1, dv1, m1, Add(A, o), d)
    BY <1>1, <1>6, <2>1, TimerByte
  <2>. QED BY <1>6, <2>2, Zenon DEF On, Aftermath
<1>7. CASE block = "dma"
  <2>1. OnDma(io, dv, m, T, A, d)
    BY <1>1, <1>7, Zenon DEF On
  <2>2. PICK io1, dv1 : /\ s1 = St(io1, dv1) /\ IsBytes(io1)
                        /\ OnDma(io1, dv1, m1, Add(T, o), Add(A, o), d)
    BY <1>1, <1>7, <2>1, DmaByte
  <2>. QED BY <1>7, <2>2, Zenon DEF On, Aftermath
<1>8. CASE block = "fifo"
  <2>1. OnFifo(io, m, T)
    BY <1>1, <1>8, Zenon DEF On
  <2>2. PICK io1, dv1 : /\ s1 = St(io1, dv1) /\ IsBytes(io1) /\ OnFifo(io1, m1, Add(T, o))
                        /\ Pushed(io1, dv1, o)
    BY <1>1, <1>8, <2>1, FifoByte
  <2>. QED BY <1>8, <2>2, Zenon DEF On, Aftermath
<1>9. CASE block = "irq"
  <2>1. OnIrq(dv, m, T, A, d)
    BY <1>1, <1>9, Zenon DEF On
  <2>2. PICK io1, dv1 : /\ s1 = St(io1, dv1) /\ IsBytes(io1)
                        /\ OnIrq(dv1, m1, Add(T, o), Add(A, o), d)
    BY <1>1, <1>9, <2>1, IrqByte
  <2>. QED BY <1>9, <2>2, Zenon DEF On, Aftermath
<1>10. CASE block = "keys"
  <2>1. OnKeys(dv, m, T)
    BY <1>1, <1>10, Zenon DEF On
  <2>2. PICK io1, dv1 : s1 = St(io1, dv1) /\ IsBytes(io1) /\ OnKeys(dv1, m1, Add(T, o))
    BY <1>1, <1>10, <2>1, KeysByte
  <2>. QED BY <1>10, <2>2, Zenon DEF On, Aftermath
<1>11. CASE block = "tone"
  <2>1. OnTone(io, dv, m, T)
    BY <1>1, <1>11, Zenon DEF On
  <2>2. PICK io1, dv1 : /\ s1 = St(io1, dv1) /\ IsBytes(io1) /\ dv1.master
                        /\ OnTone(io1, dv1, m1, Add(T, o))
    BY <1>1, <1>11, <2>1, ToneByte
  <2>. QED BY <1>11, <2>2, Zenon DEF On, Aftermath
<1>12. CASE block = "haltcnt"
  <2>1. OnHaltcnt(dv, A)
    BY <1>1, <1>12, Zenon DEF On
  <2>2. PICK io1, dv1 : s1 = St(io1, dv1) /\ IsBytes(io1) /\ OnHaltcnt(dv1, Add(A, o))
    BY <1>1, <1>12, <2>1, HaltcntByte
  <2>. QED BY <1>12, <2>2, Zenon DEF On, Aftermath
<1>. QED BY <1>2, <1>3, <1>4, <1>5, <1>6, <1>7, <1>8, <1>9, <1>10, <1>11, <1>12 DEF Blocks

(* After the first k bytes of v, stored from o on, s is the state.         *)
MeantWith(at, o, v) == [x \in Io!Offset |-> IF x \in at THEN v[x - o + 1] ELSE meant[x]]
After(s, o, k, v) ==
  \E io1, dv1 :
    /\ s = St(io1, dv1)
    /\ InStep(io1, dv1, MeantWith(o .. o + k - 1, o, v), told \cup (o .. o + k - 1),
              o .. o + k - 1, dev)
    /\ block = "tone" => dv1.master
    /\ block = "fifo" /\ 3 \in o .. o + k - 1 => dv1 = <<Io!Word(io1, 0)>>

(* And after one more. *)
LEMMA AfterNext ==
  ASSUME block \in Blocks, NEW s, NEW o \in Nat, NEW k \in Nat, NEW v,
         After(s, o, k, v), o + k \in Io!Offset, v[k + 1] \in OneByte
  PROVE  After(Io!io_write8(s, o + k, v[k + 1]), o, k + 1, v)
<1>. DEFINE A == o .. o + k - 1
            B == o .. o + (k + 1) - 1
            p == o + k
            m == MeantWith(A, o, v)
<1>1. PICK io, dv : /\ s = St(io, dv) /\ InStep(io, dv, m, told \cup A, A, dev)
                    /\ block = "tone" => dv.master
  BY DEF After
<1>2. p \in Nat /\ B = Add(A, p) /\ \A a \in A : a < p
  BY DEF Add
<1>3. told \cup B = Add(told \cup A, p) /\ p - o + 1 = k + 1
  BY <1>2 DEF Add
<1>4. With(m, p, v[k + 1]) = MeantWith(B, o, v)
  <2>1. \A x \in Io!Offset : With(m, p, v[k + 1])[x] = MeantWith(B, o, v)[x]
    <3>. HIDE DEF A, B, p
    <3>. QED BY <1>2, <1>3 DEF With, MeantWith, Add
  <2>2. \A f, x, y : DOMAIN With(f, x, y) = DOMAIN f
    BY DEF With
  <2>. QED BY <2>1, <2>2 DEF With, MeantWith
<1>. HIDE DEF A, B, p, m
<1>5. PICK io1, dv1 : /\ Io!io_write8(St(io, dv), p, v[k + 1]) = St(io1, dv1)
                      /\ InStep(io1, dv1, With(m, p, v[k + 1]), Add(told \cup A, p), Add(A, p), dev)
                      /\ Aftermath(io1, dv1, p)
  BY <1>1, <1>2, ByteStored DEF p
<1>6. block = "fifo" /\ 3 \in B => p = 3
  <2>. SUFFICES ASSUME block = "fifo", 3 \in A PROVE FALSE
    BY <1>2 DEF Add
  <2>. QED BY <1>2, OffsetsAre DEF p
<1>7. InStep(io1, dv1, MeantWith(B, o, v), told \cup B, B, dev)
  BY <1>2, <1>3, <1>4, <1>5
<1>. QED BY <1>1, <1>5, <1>6, <1>7 DEF After, Aftermath, Pushed, B, p

(* What holds between two operations; d is only looked at where a device   *)
(* remembers what it was.                                                  *)
Old == IF stored.kind = "store" THEN stored.old ELSE dev
IoInv == /\ block \in Blocks
         /\ InStep(io_regs, dev, meant, told, stored.at, Old)
         /\ stored.kind # "store" => stored.at = {}
         /\ block = "fifo" /\ 3 \in stored.at /\ stored.whole => dev = <<Io!Word(meant, 0)>>

(* The invariant of the next state, from what has been found of its parts. *)
LEMMA IoInvNext ==
  ASSUME block \in Blocks, block' = block, NEW d,
         InStep(io_regs', dev', meant', told', stored'.at, d),
         block \in {"timer", "irq", "dma"} => d = Old', stored'.kind # "store" => stored'.at = {},
         block = "fifo" /\ 3 \in stored'.at /\ stored'.whole => dev' = <<Io!Word(meant', 0)>>
  PROVE  IoInv'
<1>. DEFINE e == Old'
<1>1. /\ IsBytes(io_regs)' /\ IsBytes(meant)' /\ told' \subseteq Io!Offset'
      /\ stored'.at \subseteq Io!Offset'
  BY DEF InStep, IsBytes, Io!Offset
<1>2. On(io_regs', dev', meant', told', stored'.at, e)
  <2>1. On(io_regs', dev', meant', told', stored'.at, d)
    BY DEF InStep
  <2>2. CASE block \in {"timer", "irq", "dma"}
    BY <2>1, <2>2
  <2>3. CASE block \notin {"timer", "irq", "dma"}
    <3>1. block # "timer" /\ block # "irq" /\ block # "dma"
      BY <2>3
    <3>. HIDE DEF e
    <3>. QED BY <2>1, <3>1, Zenon DEF On
  <2>. QED BY <2>2, <2>3
<1>3. InStep(io_regs, dev, meant, told, stored.at, Old)'
  BY <1>1, <1>2 DEF InStep, On
<1>. QED BY <1>3 DEF IoInv

(* A store begins. *)
LEMMA StoreBegins ==
  ASSUME NEW io, NEW dv, NEW m, NEW T, NEW A, NEW d, InStep(io, dv, m, T, A, d)
  PROVE  InStep(io, dv, m, T, {}, dv)
<1>1. block = "irq" => OnIrq(dv, m, T, {}, dv)
  <2>. SUFFICES ASSUME block = "irq" PROVE OnIrq(dv, m, T, {}, dv)
    OBVIOUS
  <2>1. OnIrq(dv, m, T, A, d)
    BY Zenon DEF InStep, On
  <2>2. dv.irf \subseteq Nat
    BY <2>1 DEF OnIrq
  <2>3. dv.irf = {i \in dv.irf : 2 + i \div ByteBits \in {}
                                   => ~Io!Bit(m[2 + i \div ByteBits], i % ByteBits)}
    OBVIOUS
  <2>. QED BY <2>1, <2>2, <2>3, Zenon DEF OnIrq
<1>2. block = "timer" => OnTimer(io, dv, m, {}, dv)
  BY DEF InStep, On, OnTimer
<1>3. block = "reference" => OnReference(io, dv, m, {})
  BY DEF InStep, On, OnReference
<1>4. block = "dma" => OnDma(io, dv, m, T, {}, dv)
  BY DEF InStep, On, OnDma
<1>5. block = "haltcnt" => OnHaltcnt(dv, {})
  BY DEF InStep, On, OnHaltcnt
<1>6. On(io, dv, m, T, {}, dv)
  BY <1>1, <1>2, <1>3, <1>4, <1>5, Zenon DEF InStep, On
<1>. QED BY <1>6 DEF InStep

(* A store that has not stored anything yet changed nothing. *)
LEMMA AfterNone ==
  ASSUME IoInv, ~Io!Refused, NEW o \in Nat, NEW v
  PROVE  After(Io!Now, o, 0, v)
<1>1. o .. o + 0 - 1 = {}
  OBVIOUS
<1>2. InStep(io_regs, dev, meant, told, {}, dev)
  BY StoreBegins DEF IoInv
<1>3. MeantWith({}, o, v) = meant
  BY <1>2 DEF InStep, IsBytes, MeantWith
<1>4. told \cup {} = told
  OBVIOUS
<1>5. Io!Now = St(io_regs, dev) /\ (block = "tone" => dev.master)
  BY DEF Io!Now, St, Io!Refused
<1>. QED BY <1>1, <1>2, <1>3, <1>4, <1>5 DEF After

(* A store ends. *)
LEMMA StoreEnds ==
  ASSUME IoInv, ~Io!Refused, NEW s, NEW o \in Nat, NEW n \in Nat, NEW v, Len(v) = n,
         After(s, o, n, v), Io!Store(s, o, v)
  PROVE  IoInv'
<1>. DEFINE A == o .. o + n - 1
            T == told \cup A
            m == MeantWith(A, o, v)
<1>1. PICK io1, dv1 : /\ s = St(io1, dv1) /\ InStep(io1, dv1, m, T, A, dev)
                      /\ block = "fifo" /\ 3 \in A => dv1 = <<Io!Word(io1, 0)>>
  BY DEF After
<1>2. /\ io_regs' = io1 /\ dev' = dv1 /\ block' = block /\ meant' = m
      /\ told' = IF block = "fifo" /\ 3 \in A THEN {} ELSE T
      /\ stored'.at = A /\ stored'.kind = "store"
      /\ stored'.whole = (T = Io!Offset)
      /\ stored'.old = IF block \in {"timer", "irq", "dma"} THEN dev ELSE <<>>
  BY <1>1, StIs DEF Io!Store, MeantWith
<1>3. InStep(io1, dv1, m, T, A, dev)
  BY <1>1
<1>. HIDE DEF T, m, A
<1>4. block = "fifo" /\ 3 \in A /\ stored'.whole => dv1 = <<Io!Word(m, 0)>>
  <2>. SUFFICES ASSUME block = "fifo", 3 \in A, T = Io!Offset PROVE dv1 = <<Io!Word(m, 0)>>
    BY <1>2
  <2>1. OnFifo(io1, m, T) /\ Io!Offset = 0..3
    BY <1>3, OffsetsAre DEF InStep, On
  <2>2. /\ io1[0] = m[0] /\ io1[0 + 1] = m[0 + 1] /\ io1[0 + 2] = m[0 + 2]
        /\ io1[0 + 2 + 1] = m[0 + 2 + 1]
    BY <2>1 DEF OnFifo
  <2>3. Io!Word(io1, 0) = Io!Word(m, 0)
    BY <2>2 DEF Io!Word, Io!Half
  <2>. QED BY <1>1, <2>3
<1>5. InStep(io1, dv1, m, told', A, dev)
  <2>1. CASE block = "fifo" /\ 3 \in A
    <3>1. told' = {} /\ OnFifo(io1, m, {})
      BY <1>2, <2>1 DEF OnFifo
    <3>2. On(io1, dv1, m, {}, A, dev)
      BY <2>1, <3>1 DEF On
    <3>. QED BY <1>3, <3>1, <3>2 DEF InStep
  <2>2. CASE ~(block = "fifo" /\ 3 \in A)
    BY <1>2, <1>3, <2>2
  <2>. QED BY <2>1, <2>2
<1>6. block \in {"timer", "irq", "dma"} => dev = Old'
  BY <1>2 DEF Old
<1>. QED BY <1>2, <1>4, <1>5, <1>6, IoInvNext DEF IoInv

(* What programs store. *)
LEMMA Stores ==
  /\ Bytes \subseteq OneByte
  /\ \A v \in Bytes : <<v>>[1] = v /\ Len(<<v>>) = 1
  /\ \A n \in {2, 4} : \A v \in Io!Pattern(n) :
        /\ DOMAIN v = 1..n /\ Len(v) = n /\ \A i \in 1..n : v[i] \in OneByte
<1>1. Bytes \subseteq OneByte
  BY IoAssumption DEF OneByte, Io!B
<1>2. ASSUME NEW n \in {2, 4}, NEW v \in Io!Pattern(n)
      PROVE  /\ DOMAIN v = 1..n /\ Len(v) = n /\ \A i \in 1..n : v[i] \in OneByte
  <2>1. PICK f \in [0..1 -> Bytes] : v = [i \in 1..n |-> f[i % 2]]
    BY <1>2 DEF Io!Pattern
  <2>2. \A i \in 1..n : i % 2 \in 0..1
    BY <1>2
  <2>3. v \in [1..n -> OneByte] /\ n \in Nat
    BY <1>1, <1>2, <2>1, <2>2
  <2>4. v \in Seq(OneByte) /\ Len(v) = n
    BY <2>3
  <2>. QED BY <2>3, <2>4
<1>. QED BY <1>1, <1>2

(* While the sound is off a store to a tone changes nothing. *)
LEMMA RefusedStore ==
  ASSUME IoInv, Io!Refused, NEW s, NEW o, NEW v, s = Io!Now, Io!Store(s, o, v)
  PROVE  IoInv'
<1>1. block = "tone" /\ block \in Blocks /\ InStep(io_regs, dev, meant, told, {}, dev)
  BY StoreBegins DEF IoInv, Io!Refused
<1>2. block' = block /\ io_regs' = io_regs /\ dev' = dev /\ told' = told /\ stored'.at = {}
      /\ stored'.kind = "store"
  BY <1>1 DEF Io!Store, Io!Now
<1>3. meant' = meant
  BY <1>1 DEF Io!Store, InStep, IsBytes
<1>. QED BY <1>1, <1>2, <1>3, IoInvNext

(* ... nor does a byte. *)
LEMMA RefusedByte ==
  ASSUME Io!Refused, NEW o, NEW v
  PROVE  Io!io_write8(Io!Now, o, v) = Io!Now
<1>1. block = "tone" /\ ~Io!Now.dev.master
  BY DEF Io!Refused, Io!Now
<1>2. Io!WriteTone(Io!Now, o, v) = Io!Now
  BY <1>1 DEF Io!WriteTone
<1>. QED BY <1>1, <1>2, WhichWrite

(* Stores of every width. *)
LEMMA Store8Keeps == IoInv /\ Io!Store8 => IoInv'
<1>. SUFFICES ASSUME IoInv, NEW o \in Io!Offset, NEW b \in Bytes,
                     Io!Store(Io!io_write8(Io!Now, o, b), o, <<b>>)
              PROVE  IoInv'
  BY DEF Io!Store8
<1>1. CASE Io!Refused
  BY <1>1, RefusedByte, RefusedStore
<1>2. CASE ~Io!Refused
  <2>. DEFINE v == <<b>>
  <2>1. v[0 + 1] = b /\ v[0 + 1] \in OneByte /\ Len(v) = 0 + 1 /\ block \in Blocks
    BY Stores DEF IoInv
  <2>2. o \in Nat /\ o + 0 = o
    BY <2>1, OffsetsAre DEF Blocks
  <2>. HIDE DEF v
  <2>3. After(Io!Now, o, 0, v)
    BY <1>2, <2>2, AfterNone
  <2>4. After(Io!io_write8(Io!Now, o, b), o, 0 + 1, v)
    BY <2>1, <2>2, <2>3, AfterNext, 0 \in Nat
  <2>. QED BY <1>2, <2>1, <2>2, <2>4, StoreEnds, 0 + 1 \in Nat DEF v
<1>. QED BY <1>1, <1>2

(* A halfword is two bytes, low byte first. *)
LEMMA Store16Keeps == IoInv /\ Io!Store16 => IoInv'
<1>. SUFFICES ASSUME IoInv, NEW o \in Io!Offset, o % 2 = 0, NEW v \in Io!Pattern(2),
                     Io!Store(Io!bus_write16(Io!Now, o, v), o, v)
              PROVE  IoInv'
  BY DEF Io!Store16
<1>. DEFINE s1 == Io!io_write8(Io!Now, o, v[1])
            s2 == Io!io_write8(s1, o + 1, v[2])
<1>1. Io!bus_write16(Io!Now, o, v) = s2
  BY DEF Io!bus_write16
<1>2. CASE Io!Refused
  <2>1. s2 = Io!Now
    BY <1>2, RefusedByte
  <2>. QED BY <1>1, <1>2, <2>1, RefusedStore
<1>3. CASE ~Io!Refused
  <2>1. v[1] \in OneByte /\ v[2] \in OneByte /\ Len(v) = 2 /\ block \in Blocks
    BY Stores DEF IoInv
  <2>2. o \in Nat /\ o + 0 = o /\ o + 1 \in Io!Offset
    BY <2>1, OffsetsAre DEF Blocks
  <2>3. After(Io!Now, o, 0, v)
    BY <1>3, <2>2, AfterNone
  <2>4. After(s1, o, 1, v)
    BY <2>1, <2>2, <2>3, AfterNext, 0 \in Nat, 0 + 1 = 1
  <2>. HIDE DEF s1
  <2>5. After(s2, o, 2, v)
    BY <2>1, <2>2, <2>4, AfterNext, 1 \in Nat, 1 + 1 = 2
  <2>. HIDE DEF s2
  <2>. QED BY <1>1, <1>3, <2>1, <2>2, <2>5, StoreEnds, 2 \in Nat
<1>. QED BY <1>2, <1>3

(* A word for a FIFO passes the copies by. *)
LEMMA FifoWordKeeps ==
  ASSUME IoInv, block = "fifo", NEW o \in Io!Offset, o % 4 = 0, o + 3 \in Io!Offset,
         NEW v \in Io!Pattern(4), Io!Store(Io!bus_write32(Io!Now, o, v), o, v)
  PROVE  IoInv'
<1>. DEFINE word == <<Io!Word(v, 1)>>
<1>1. o = 0 /\ Io!Offset = 0..3
  BY OffsetsAre
<1>2. Io!bus_write32(Io!Now, o, v) = St(io_regs, word)
  BY DEF Io!bus_write32, Io!Now, St
<1>3. Len(v) = 4 /\ \A i \in 1..4 : v[i] \in OneByte
  BY Stores
<1>4. 3 \in o .. o + Len(v) - 1 /\ o .. o + Len(v) - 1 = 0..3
  BY <1>1, <1>3
<1>. HIDE DEF word
<1>5. /\ block' = block /\ io_regs' = io_regs /\ dev' = word /\ told' = {} /\ stored'.at = 0..3
      /\ stored'.kind = "store"
      /\ meant' = [x \in Io!Offset |-> IF x \in 0..3 THEN v[x - o + 1] ELSE meant[x]]
  BY <1>2, <1>4, StIs DEF Io!Store, Io!Refused
<1>6. IsBytes(meant') /\ meant'[0] = v[1] /\ meant'[1] = v[2] /\ meant'[2] = v[3] /\ meant'[3] = v[4]
  BY <1>1, <1>3, <1>5 DEF IsBytes
<1>7. Io!Word(meant', 0) = Io!Word(v, 1)
  <2>1. 0 + 1 = 1 /\ 0 + 2 = 2 /\ 2 + 1 = 3 /\ 1 + 1 = 2 /\ 1 + 2 = 3 /\ 3 + 1 = 4
    OBVIOUS
  <2>. QED BY <1>6, <2>1 DEF Io!Word, Io!Half
<1>8. On(io_regs, word, meant', {}, 0..3, dev)
  BY DEF On, OnFifo
<1>9. InStep(io_regs', dev', meant', told', stored'.at, dev)
  BY <1>1, <1>5, <1>6, <1>8 DEF InStep, IoInv
<1>. QED BY <1>5, <1>7, <1>9, IoInvNext DEF word, IoInv

(* A word is two halfwords, or goes to a FIFO. *)
LEMMA Store32Keeps == IoInv /\ Io!Store32 => IoInv'
<1>. SUFFICES ASSUME IoInv, NEW o \in Io!Offset, o % 4 = 0, o + 3 \in Io!Offset,
                     NEW v \in Io!Pattern(4), Io!Store(Io!bus_write32(Io!Now, o, v), o, v)
              PROVE  IoInv'
  BY DEF Io!Store32
<1>1. CASE block = "fifo"
  BY <1>1, FifoWordKeeps
<1>2. CASE block # "fifo"
  <2>. DEFINE s1 == Io!io_write8(Io!Now, o, v[1])
              s2 == Io!io_write8(s1, o + 1, v[2])
              s3 == Io!io_write8(s2, o + 2, v[3])
              s4 == Io!io_write8(s3, o + 3, v[4])
  <2>1. /\ v[1] \in OneByte /\ v[2] \in OneByte /\ v[3] \in OneByte /\ v[4] \in OneByte
        /\ Len(v) = 4 /\ block \in Blocks
    BY Stores DEF IoInv
  <2>2. /\ o \in Nat /\ o + 0 = o /\ o + 1 \in Io!Offset /\ o + 2 \in Io!Offset
        /\ o + 2 + 1 = o + 3
    BY <2>1, OffsetsAre DEF Blocks
  <2>3. Io!bus_write32(Io!Now, o, v) = s4
    BY <1>2, <2>2 DEF Io!bus_write32, Io!bus_write16
  <2>4. CASE Io!Refused
    <3>1. s4 = Io!Now
      BY <2>4, RefusedByte
    <3>. QED BY <2>3, <2>4, <3>1, RefusedStore
  <2>5. CASE ~Io!Refused
    <3>1. After(Io!Now, o, 0, v)
      BY <2>2, <2>5, AfterNone
    <3>2. After(s1, o, 1, v)
      BY <2>1, <2>2, <3>1, AfterNext, 0 \in Nat, 0 + 1 = 1
    <3>. HIDE DEF s1
    <3>3. After(s2, o, 2, v)
      BY <2>1, <2>2, <3>2, AfterNext, 1 \in Nat, 1 + 1 = 2
    <3>. HIDE DEF s2
    <3>4. After(s3, o, 3, v)
      BY <2>1, <2>2, <3>3, AfterNext, 2 \in Nat, 2 + 1 = 3
    <3>. HIDE DEF s3
    <3>5. After(s4, o, 4, v)
      BY <2>1, <2>2, <3>4, AfterNext, 3 \in Nat, 3 + 1 = 4
    <3>. HIDE DEF s4
    <3>. QED BY <2>1, <2>2, <2>3, <2>5, <3>5, StoreEnds, 4 \in Nat
  <2>. QED BY <2>4, <2>5
<1>. QED BY <1>1, <1>2

-----------------------------------------------------------------------------
(* What follows from the invariant, block by block. *)
LEMMA ReachedBytes ==
  ASSUME IoInv
  PROVE  /\ block = "dispcnt" => \A o \in told \cap {0, 1} : Io!Shown(dev[0], o)
         /\ block = "pair" => \A o \in told : /\ Io!ByteAt(dev[o \div 2], o % 2) = meant[o]
                                              /\ Io!io_read8(o) = meant[o]
         /\ block = "dispstat" =>
              /\ 0 \in told => Io!ByteAt(dev.dispstat, 0) \div 2^FlagBits = meant[0] \div 2^FlagBits
              /\ 1 \in told => Io!Shown(dev.dispstat, 1)
         /\ block = "keys" => \A o \in told \cap {2, 3} : Io!ByteAt(dev.keycnt, o - 2) = meant[o]
         /\ block = "haltcnt" => (1 \in stored.at => dev.halted)
<1>1. /\ On(io_regs, dev, meant, told, stored.at, Old) /\ told \subseteq Io!Offset
  BY DEF IoInv, InStep
<1>2. block = "dispcnt" => \A o \in told \cap {0, 1} : Io!Shown(dev[0], o)
  <2>. SUFFICES ASSUME block = "dispcnt", NEW o \in told \cap {0, 1} PROVE Io!Shown(dev[0], o)
    OBVIOUS
  <2>1. OnDispcnt(dev, meant, told)
    BY <1>1, Zenon DEF On
  <2>2. Io!ByteAt(dev[0], o) = meant[o] /\ o < 2
    BY <2>1 DEF OnDispcnt
  <2>. QED BY <2>2, WhichRead DEF Io!Shown
<1>3. block = "pair" => \A o \in told : /\ Io!ByteAt(dev[o \div 2], o % 2) = meant[o]
                                        /\ Io!io_read8(o) = meant[o]
  <2>. SUFFICES ASSUME block = "pair", NEW o \in told
                PROVE  /\ Io!ByteAt(dev[o \div 2], o % 2) = meant[o]
                       /\ Io!io_read8(o) = meant[o]
    OBVIOUS
  <2>1. OnPair(io_regs, dev, meant, told) /\ o \in 0..3
    BY <1>1, OffsetsAre DEF On
  <2>2. Io!ByteAt(dev[o \div 2], o % 2) = meant[o] /\ io_regs = meant
    BY <2>1 DEF OnPair
  <2>3. o >= 2 => o \div 2 = 1 /\ o % 2 = o - 2
    BY <2>1
  <2>4. Io!io_read8(o) = meant[o]
    <3>1. CASE o >= 2
      BY <2>2, <2>3, <3>1, WhichRead
    <3>2. CASE ~(o >= 2)
      BY <2>2, <3>2, WhichRead
    <3>. QED BY <3>1, <3>2
  <2>. QED BY <2>2, <2>4
<1>4. block = "dispstat" =>
        /\ 0 \in told => Io!ByteAt(dev.dispstat, 0) \div 2^FlagBits = meant[0] \div 2^FlagBits
        /\ 1 \in told => Io!Shown(dev.dispstat, 1)
  <2>1. 1 < 2
    OBVIOUS
  <2>. QED BY <1>1, <2>1, WhichRead, Zenon DEF On, OnDispstat, Io!Shown
<1>5. block = "keys" => \A o \in told \cap {2, 3} : Io!ByteAt(dev.keycnt, o - 2) = meant[o]
  BY <1>1, Zenon DEF On, OnKeys
<1>6. block = "haltcnt" => (1 \in stored.at => dev.halted)
  BY <1>1, Zenon DEF On, OnHaltcnt
<1>. QED BY <1>2, <1>3, <1>4, <1>5, <1>6

(* A reference point has the 28 bits stored, and their sign. *)
LEMMA ReachedReference ==
  ASSUME IoInv, block = "reference", stored.at # {}
  PROVE  LET half == 2^(4 * ByteBits - ByteBits \div 2) \div 2 IN
         /\ dev.latch = dev.ref
         /\ dev.latch % (2 * half) = Io!Word(meant, 0) % (2 * half)
         /\ dev.latch < half \/ dev.latch >= Io!B^4 - half
<1>. DEFINE full == Io!SignExtend(Io!Word(meant, 0))
<1>1. OnReference(io_regs, dev, meant, stored.at) /\ IsBytes(meant)
  BY DEF IoInv, InStep, On
<1>2. dev = [latch |-> full, ref |-> full]
  BY <1>1 DEF OnReference
<1>3. /\ 0 \in Io!Offset /\ 0 + 1 \in Io!Offset
      /\ 0 + 2 \in Io!Offset /\ 0 + 2 + 1 \in Io!Offset
  BY OffsetsAre
<1>4. Io!Word(meant, 0) \in Nat
  BY <1>1, <1>3, WordIs
<1>. HIDE DEF full
<1>5. dev.latch = full /\ dev.ref = full
  BY <1>2
<1>. QED BY <1>4, <1>5, ReferenceIs DEF full

(* A timer has the reload value and control stored, and starts from it. *)
LEMMA ReachedTimer ==
  ASSUME IoInv, block = "timer"
  PROVE  /\ 1 \in stored.at => dev.reload = Io!Half(meant, 0)
         /\ 3 \in stored.at => /\ dev.control = Io!Half(meant, 2)
                               /\ Io!io_read8(2) = meant[2] /\ Io!io_read8(3) = meant[3]
         /\ stored.at = Io!Offset /\ dev.enabled /\ ~stored.old.enabled
              => dev.counter = Io!Half(meant, 0)
<1>1. /\ OnTimer(io_regs, dev, meant, stored.at, Old) /\ IsBytes(meant) /\ Io!Offset = 0..3
  BY OffsetsAre DEF IoInv, InStep, On
<1>2. 1 \in stored.at => dev.reload = Io!Half(meant, 0)
  BY <1>1 DEF OnTimer
<1>3. ASSUME 3 \in stored.at
      PROVE  /\ dev.control = Io!Half(meant, 2)
             /\ Io!io_read8(2) = meant[2] /\ Io!io_read8(3) = meant[3]
  <2>1. dev.control = Io!Half(meant, 2)
    BY <1>1, <1>3 DEF OnTimer
  <2>2. 2 \in Io!Offset /\ 2 + 1 \in Io!Offset /\ 2 + 1 = 3 /\ 2 - 2 = 0 /\ 3 - 2 = 1
        /\ ~(2 < 2) /\ ~(3 < 2)
    BY <1>1
  <2>3. Io!ByteAt(dev.control, 0) = meant[2] /\ Io!ByteAt(dev.control, 1) = meant[3]
    BY <1>1, <2>1, <2>2, HalfIs DEF HasBytes
  <2>. QED BY <2>1, <2>2, <2>3, WhichRead
<1>4. ASSUME stored.at = Io!Offset, dev.enabled, ~stored.old.enabled
      PROVE  dev.counter = Io!Half(meant, 0)
  <2>1. 1 \in stored.at /\ 3 \in stored.at
    BY <1>1, <1>4
  <2>2. ~Old.enabled
    BY <1>4, <2>1 DEF Old, IoInv
  <2>. QED BY <1>1, <1>2, <1>4, <2>1, <2>2 DEF OnTimer
<1>. QED BY <1>2, <1>3, <1>4

(* The last byte of a DMA channel's registers hands them all over. *)
LEMMA ReachedDma ==
  ASSUME IoInv, block = "dma"
  PROVE  /\ 11 \in stored.at => dev = DmaTaken(meant, stored.old)
         /\ 11 \in told => Io!io_read8(11) = Io!ByteAt(dev.control, 1)
<1>1. OnDma(io_regs, dev, meant, told, stored.at, Old)
  BY DEF IoInv, InStep, On
<1>2. 11 \in stored.at => Old = stored.old
  BY DEF IoInv, Old
<1>. QED BY <1>1, <1>2, WhichRead DEF OnDma

(* IE takes its bytes one by one; ones acknowledge requests. *)
LEMMA ReachedIrq ==
  ASSUME IoInv, block = "irq"
  PROVE  /\ \A o \in told \cap {0, 1} : Io!Shown(dev.ie, o)
         /\ stored.kind = "store" =>
              dev.irf = {i \in stored.old.irf : 2 + i \div ByteBits \in stored.at
                                  => ~Io!Bit(meant[2 + i \div ByteBits], i % ByteBits)}
<1>1. OnIrq(dev, meant, told, stored.at, Old)
  BY DEF IoInv, InStep, On
<1>2. ASSUME NEW o \in told \cap {0, 1} PROVE Io!Shown(dev.ie, o)
  <2>1. Io!ByteAt(dev.ie, o) = meant[o] /\ o < 2
    BY <1>1 DEF OnIrq
  <2>. QED BY <2>1, WhichRead DEF Io!Shown
<1>. QED BY <1>1, <1>2, Zenon DEF OnIrq, Old

(* A tone's length, duty cycle, envelope and sweep are those stored. *)
LEMMA ReachedTone ==
  ASSUME IoInv, block = "tone"
  PROVE  /\ 0 \in told => /\ dev.sweep = meant[0] % 2^(ByteBits - 1)
                          /\ Io!io_read8(0) = dev.sweep
         /\ 2 \in told => /\ Io!io_read8(2) = dev.duty * 2^LengthBits
                          /\ dev.duty = meant[2] \div 2^LengthBits
                          /\ dev.length + (meant[2] % 2^LengthBits) = 2^LengthBits
         /\ 3 \in told => dev.envelope = meant[3] /\ Io!io_read8(3) = meant[3]
<1>. DEFINE l == 2^LengthBits
            r == meant[2] % l
<1>1. OnTone(io_regs, dev, meant, told) /\ IsBytes(meant) /\ Io!Offset = 0..3
  BY OffsetsAre DEF IoInv, InStep, On
<1>2. l \in Nat \ {0} /\ meant[2] \in Nat
  BY <1>1, IoPowers DEF IsBytes, OneByte
<1>3. r \in Int
  <2>. DEFINE x == meant[2]
  <2>1. x \in Nat
    BY <1>2
  <2>. HIDE DEF x, l
  <2>. QED BY <1>2, <2>1 DEF x
<1>4. 2 \in told => dev.length = l - r /\ dev.duty = meant[2] \div l /\ io_regs[2] = meant[2]
  BY <1>1 DEF OnTone
<1>5. 2 \in told => dev.length + r = l
  <2>. HIDE DEF r, l
  <2>. QED BY <1>2, <1>3, <1>4
<1>6. 0 \in told => dev.sweep = meant[0] % 2^(ByteBits - 1) /\ io_regs[0] = meant[0]
  BY <1>1, Zenon DEF OnTone
<1>7. 3 \in told => dev.envelope = meant[3] /\ io_regs[3] = meant[3]
  BY <1>1, Zenon DEF OnTone
<1>. QED BY <1>4, <1>5, <1>6, <1>7, ToneRead, Zenon DEF l, r

(* The invariant says what programs were promised. *)
LEMMA IoInvReaches == IoInv => StoresReachDevices
<1>. SUFFICES ASSUME IoInv PROVE Io!StoresReachDevices
  BY DEF StoresReachDevices
<1>1. CASE block \in {"dispcnt", "pair", "dispstat", "keys", "haltcnt"}
  BY <1>1, ReachedBytes, Zenon DEF Io!StoresReachDevices
<1>2. CASE block = "reference"
  <2>. DEFINE half == 2^(4 * ByteBits - ByteBits \div 2) \div 2
  <2>1. stored.at # {} => /\ dev.latch = dev.ref
                          /\ dev.latch % (2 * half) = Io!Word(meant, 0) % (2 * half)
                          /\ dev.latch < half \/ dev.latch >= Io!B^4 - half
    BY <1>2, ReachedReference
  <2>. QED BY <1>2, <2>1, Zenon DEF Io!StoresReachDevices
<1>3. CASE block = "timer"
  BY <1>3, ReachedTimer, Zenon DEF Io!StoresReachDevices
<1>4. CASE block = "dma"
  BY <1>4, ReachedDma, Zenon DEF Io!StoresReachDevices, DmaTaken, DmaControl
<1>5. CASE block = "fifo"
  BY <1>5, Zenon DEF Io!StoresReachDevices, IoInv
<1>6. CASE block = "irq"
  BY <1>6, ReachedIrq, Zenon DEF Io!StoresReachDevices
<1>7. CASE block = "tone"
  BY <1>7, ReachedTone, Zenon DEF Io!StoresReachDevices
<1>. QED BY <1>1, <1>2, <1>3, <1>4, <1>5, <1>6, <1>7, Zenon DEF IoInv, Blocks

-----------------------------------------------------------------------------
(* Anything but a store leaves no byte under way. *)
LEMMA NotAStore ==
  ASSUME IoInv, block' = block, stored'.at = {}, stored'.kind # "store",
         IsBytes(io_regs'), IsBytes(meant'), told' \subseteq Io!Offset,
         On(io_regs', dev', meant', told', {}, dev')
  PROVE  IoInv'
<1>1. InStep(io_regs', dev', meant', told', stored'.at, dev')
  BY DEF InStep
<1>2. dev' = Old' /\ block \in Blocks
  BY DEF Old, IoInv
<1>. QED BY <1>1, <1>2, IoInvNext

(* What a device's registers can hold. *)
DeviceOK(dv) ==
  /\ block = "dispcnt"  => dv \in [0..0 -> TwoBytes]
  /\ block = "pair"     => dv \in [0..1 -> TwoBytes]
  /\ block = "dispstat" => dv \in [dispstat : TwoBytes, vcount : {0, 1}]
  /\ block = "timer"    => dv \in [reload : TwoBytes, counter : TwoBytes, control : TwoBytes,
                                   enabled : BOOLEAN]
  /\ block = "dma"      => dv \in [source_latch : Nat, dest_latch : Nat, count : TwoBytes,
                                   control : TwoBytes]
  /\ block = "irq"      => dv \in [ie : TwoBytes, irf : SUBSET Nat]
  /\ block = "keys"     => dv \in [keyinput : Nat, keycnt : TwoBytes]
  /\ block = "tone"     => dv \in [master : BOOLEAN, sweep : Int, length : Int, duty : Int,
                                   envelope : Int]
  /\ block = "haltcnt"  => dv \in [halted : BOOLEAN]

(* Nothing has been stored since the copies were reset. *)
LEMMA FreshOn ==
  ASSUME NEW io, NEW dv, DeviceOK(dv)
  PROVE  On(io, dv, io, {}, {}, dv)
<1>1. block = "irq" => OnIrq(dv, io, {}, {}, dv)
  <2>. SUFFICES ASSUME block = "irq" PROVE OnIrq(dv, io, {}, {}, dv)
    OBVIOUS
  <2>1. dv \in [ie : TwoBytes, irf : SUBSET Nat]
    BY DEF DeviceOK
  <2>2. dv.irf = {i \in dv.irf : 2 + i \div ByteBits \in {}
                                   => ~Io!Bit(io[2 + i \div ByteBits], i % ByteBits)}
    OBVIOUS
  <2>3. dv.irf \subseteq Nat /\ {} \cap {0, 1} = {}
    BY <2>1
  <2>. QED BY <2>1, <2>2, <2>3 DEF OnIrq
<1>2. /\ block = "dispcnt"  => OnDispcnt(dv, io, {})
      /\ block = "pair"     => OnPair(io, dv, io, {})
      /\ block = "dispstat" => OnDispstat(dv, io, {})
  BY DEF DeviceOK, OnDispcnt, OnPair, OnDispstat
<1>3. /\ block = "timer"    => OnTimer(io, dv, io, {}, dv)
      /\ block = "dma"      => OnDma(io, dv, io, {}, {}, dv)
      /\ block = "keys"     => OnKeys(dv, io, {})
      /\ block = "tone"     => OnTone(io, dv, io, {})
      /\ block = "haltcnt"  => OnHaltcnt(dv, {})
  BY DEF DeviceOK, OnTimer, OnDma, OnKeys, OnTone, OnHaltcnt
<1>4. OnReference(io, dv, io, {}) /\ OnFifo(io, io, {})
  BY DEF OnReference, OnFifo
<1>. QED BY <1>1, <1>2, <1>3, <1>4, Zenon DEF On

(* The invariant says at least what the registers can hold. *)
LEMMA OnDevice ==
  ASSUME IoInv
  PROVE  DeviceOK(dev)
<1>1. On(io_regs, dev, meant, told, stored.at, Old)
  BY DEF IoInv, InStep
<1>. QED BY <1>1, Zenon DEF On, DeviceOK, OnDispcnt, OnPair, OnDispstat, OnTimer, OnDma, OnIrq,
                            OnKeys, OnTone, OnHaltcnt

(* The devices when the machine starts. *)
LEMMA DeviceStarts ==
  /\ block \in Blocks => DeviceOK(Io!Device[block])
  /\ block = "tone" => DeviceOK(Io!Device.tone)
<1>1. 0 \in TwoBytes /\ 0 \in Nat /\ 0 \in Int /\ Io!B * Io!B - 1 \in Nat
  <2>. DEFINE b == Io!B
  <2>1. b \in Nat \ {0}
    BY IoPowers
  <2>. HIDE DEF b
  <2>2. b * b - 1 \in Nat
    BY <2>1
  <2>. QED BY <2>2 DEF TwoBytes, b
<1>2. block \in Blocks => DeviceOK(Io!Device[block])
  <2>1. Io!Device["keys"] \in [keyinput : Nat, keycnt : TwoBytes]
    BY <1>1 DEF Io!Device
  <2>2. Io!Device["tone"] \in [master : BOOLEAN, sweep : Int, length : Int, duty : Int, envelope : Int]
    BY DEF Io!Device
  <2>3. /\ Io!Device["dispcnt"] \in [0..0 -> TwoBytes] /\ Io!Device["pair"] \in [0..1 -> TwoBytes]
        /\ Io!Device["dispstat"] \in [dispstat : TwoBytes, vcount : {0, 1}]
    BY <1>1 DEF Io!Device
  <2>4. /\ Io!Device["timer"] \in [reload : TwoBytes, counter : TwoBytes, control : TwoBytes,
                                   enabled : BOOLEAN]
        /\ Io!Device["dma"] \in [source_latch : Nat, dest_latch : Nat, count : TwoBytes,
                                 control : TwoBytes]
    BY <1>1 DEF Io!Device
  <2>5. Io!Device["irq"] \in [ie : TwoBytes, irf : SUBSET Nat] /\ Io!Device["haltcnt"] \in [halted : BOOLEAN]
    BY <1>1 DEF Io!Device
  <2>. QED BY <2>1, <2>2, <2>3, <2>4, <2>5, Zenon DEF DeviceOK
<1>3. Io!Device.tone = Io!Device["tone"] /\ "tone" \in Blocks
  BY DEF Blocks
<1>. QED BY <1>2, <1>3

(* The copies are zeros and nothing is stored when the machine starts. *)
LEMMA IoInitInv == MInit => IoInv
<1>. SUFFICES ASSUME Io!IoInit PROVE IoInv
  BY DEF MInit
<1>1. block \in Blocks
  BY DEF Io!IoInit, Io!Size, Blocks
<1>2. /\ meant = io_regs /\ told = {} /\ stored.at = {} /\ stored.kind = "none"
      /\ dev = Io!Device[block] /\ io_regs = [o \in Io!Offset |-> 0]
  BY DEF Io!IoInit, Io!NoOp
<1>3. IsBytes(io_regs)
  <2>1. 0 \in OneByte
    BY IoPowers DEF OneByte
  <2>. QED BY <1>2, <2>1 DEF IsBytes
<1>4. On(io_regs, dev, meant, told, {}, dev)
  BY <1>1, <1>2, DeviceStarts, FreshOn
<1>. QED BY <1>1, <1>2, <1>3, <1>4 DEF IoInv, InStep, Old

(* RegisterRamReset clears the copies; the devices keep what they have. *)
LEMMA ResetKeeps == IoInv /\ Io!RegisterRamReset => IoInv'
<1>. SUFFICES ASSUME IoInv, Io!RegisterRamReset PROVE IoInv'
  OBVIOUS
<1>. DEFINE h == 2^(ByteBits - 1)
<1>1. /\ block' = block /\ dev' = dev /\ told' = {} /\ meant' = io_regs'
      /\ stored'.at = {} /\ stored'.kind = "reset"
      /\ io_regs' = [o \in Io!Offset |-> IF block = "dispcnt" /\ o = 0 THEN h ELSE 0]
  BY DEF Io!RegisterRamReset, Io!NoOp
<1>2. h \in OneByte /\ 0 \in OneByte
  <2>1. h \in Nat \ {0} /\ Io!B = 2 * h
    BY IoPowers
  <2>. HIDE DEF h
  <2>. QED BY <2>1 DEF OneByte
<1>. HIDE DEF h
<1>3. IsBytes(io_regs')
  BY <1>1, <1>2 DEF IsBytes
<1>4. On(io_regs', dev', meant', told', {}, dev')
  BY <1>1, OnDevice, FreshOn
<1>. QED BY <1>1, <1>3, <1>4, NotAStore

(* Between two operations, for an operation that is not a store. *)
LEMMA Quiet ==
  ASSUME IoInv
  PROVE  /\ IsBytes(io_regs) /\ IsBytes(meant) /\ told \subseteq Io!Offset
         /\ On(io_regs, dev, meant, told, {}, dev)
  BY StoreBegins DEF IoInv, InStep

(* What Becomes leaves behind. *)
LEMMA BecomesIs ==
  ASSUME NEW io, NEW dv, Io!Becomes(io, dv)
  PROVE  /\ io_regs' = io /\ dev' = dv /\ block' = block
         /\ stored'.at = {} /\ stored'.kind # "store"
  BY DEF Io!Becomes, Io!NoOp

(* SWI SoundBias stays within the register, and copy and device agree. *)
LEMMA BiasKeeps ==
  ASSUME IoInv, NEW level \in {0, Io!B^2 \div 8}, Io!swi_sound_bias(level)
  PROVE  IoInv'
<1>. DEFINE keep == Io!B^2 \div 4
            bias == (dev[1] \div keep) * keep + level
            io   == [io_regs EXCEPT ![2] = Io!ByteAt(bias, 0), ![3] = Io!ByteAt(bias, 1)]
            dv   == [dev EXCEPT ![1] = bias]
<1>1. /\ block = "pair" /\ Io!Becomes(io, dv)
      /\ meant' = [meant EXCEPT ![2] = io[2], ![3] = io[3]] /\ told' = told \cup {2, 3}
  BY DEF Io!swi_sound_bias
<1>2. Io!Offset = 0..3 /\ OnPair(io_regs, dev, meant, told) /\ IsBytes(io_regs) /\ told \subseteq 0..3
  BY <1>1, OffsetsAre, Quiet DEF On
<1>3. dev \in [0..1 -> TwoBytes] /\ io_regs = meant
  BY <1>2 DEF OnPair
<1>4. bias \in TwoBytes
  <2>. DEFINE h == 2^(ByteBits - 1)
              k == h * h
              x == dev[1]
              q == x \div k
  <2>1. h \in Nat \ {0} /\ Io!B = 2 * h /\ Io!B^2 = Io!B * Io!B
    BY IoPowers
  <2>. HIDE DEF h
  <2>2. k \in Nat \ {0} /\ Io!B * Io!B = 4 * k /\ Io!B^2 = 4 * k
    BY <2>1
  <2>3. x \in TwoBytes
    BY <1>3
  <2>. HIDE DEF k, x
  <2>4. keep = k /\ level \in Nat /\ level < k
    BY <2>2
  <2>5. x \in Nat /\ x < k * 4
    BY <2>2, <2>3 DEF TwoBytes
  <2>6. q \in Nat /\ q < 4
    BY <2>2, <2>5, DigitsOf, 4 \in Nat \ {0}
  <2>7. bias = q * k + level
    BY <2>4 DEF x
  <2>. HIDE DEF q, bias
  <2>8. q * k <= 3 * k /\ q * k \in Nat
    BY <2>2, <2>6
  <2>9. bias \in Nat /\ bias < 4 * k
    BY <2>2, <2>4, <2>7, <2>8
  <2>. QED BY <2>2, <2>9 DEF TwoBytes
<1>. HIDE DEF bias, keep
<1>5. Io!ByteAt(bias, 0) \in OneByte /\ Io!ByteAt(bias, 1) \in OneByte
  BY <1>4, ItsBytes
<1>6. /\ IsBytes(io) /\ io[2] = Io!ByteAt(bias, 0) /\ io[3] = Io!ByteAt(bias, 1)
      /\ \A o \in {0, 1} : io[o] = io_regs[o]
  BY <1>2, <1>5 DEF IsBytes
<1>7. meant' = io
  BY <1>1, <1>2, <1>3, <1>6 DEF IsBytes
<1>8. dv \in [0..1 -> TwoBytes] /\ dv[1] = bias /\ dv[0] = dev[0]
  BY <1>3, <1>4
<1>. HIDE DEF io, dv
<1>9. ASSUME NEW o \in told' PROVE Io!ByteAt(dv[o \div 2], o % 2) = io[o]
  <2>1. o \in 0..3
    BY <1>1, <1>2
  <2>2. CASE o \in {2, 3}
    <3>1. (2 \div 2 = 1 /\ 2 % 2 = 0) /\ (3 \div 2 = 1 /\ 3 % 2 = 1)
      OBVIOUS
    <3>. QED BY <1>6, <1>8, <2>2, <3>1
  <2>3. CASE o \notin {2, 3}
    <3>1. o \in told /\ o \in {0, 1} /\ o \div 2 = 0
      BY <1>1, <2>1, <2>3
    <3>2. Io!ByteAt(dev[o \div 2], o % 2) = meant[o]
      BY <1>2, <3>1 DEF OnPair
    <3>. QED BY <1>3, <1>6, <1>8, <3>1, <3>2
  <2>. QED BY <2>2, <2>3
<1>10. On(io, dv, meant', told', {}, dv)
  <2>1. OnPair(io, dv, meant', told')
    BY <1>7, <1>8, <1>9 DEF OnPair
  <2>. QED BY <1>1, <2>1 DEF On
<1>11. told' \subseteq Io!Offset
  BY <1>1, <1>2
<1>. QED BY <1>1, <1>6, <1>7, <1>10, <1>11, BecomesIs, NotAStore

(* The sound is switched on, or off with all that was stored.              *)
LEMMA SwitchKeeps ==
  ASSUME IoInv, NEW on \in BOOLEAN, Io!SwitchSound(on)
  PROVE  IoInv'
<1>1. block = "tone"
  BY DEF Io!SwitchSound
<1>2. CASE on
  <2>. DEFINE dv == [dev EXCEPT !.master = TRUE]
  <2>1. Io!Becomes(io_regs, dv) /\ meant' = meant /\ told' = told
    BY <1>2 DEF Io!SwitchSound, Io!Happens
  <2>2. OnTone(io_regs, dev, meant, told)
    BY <1>1, Quiet, Zenon DEF On
  <2>3. OnTone(io_regs, dv, meant, told)
    BY <2>2 DEF OnTone
  <2>. HIDE DEF dv
  <2>4. On(io_regs, dv, meant, told, {}, dv)
    BY <1>1, <2>3 DEF On
  <2>. QED BY <2>1, <2>4, Quiet, BecomesIs, NotAStore
<1>3. CASE ~on
  <2>. DEFINE z == [o \in Io!Offset |-> 0]
  <2>1. Io!Becomes(z, Io!Device.tone) /\ meant' = io_regs' /\ told' = {}
    BY <1>3 DEF Io!SwitchSound
  <2>2. IsBytes(z)
    <3>1. 0 \in OneByte
      BY IoPowers DEF OneByte
    <3>. QED BY <3>1 DEF IsBytes
  <2>. HIDE DEF z
  <2>3. On(z, Io!Device.tone, z, {}, {}, Io!Device.tone)
    BY <1>1, DeviceStarts, FreshOn
  <2>. QED BY <2>1, <2>2, <2>3, BecomesIs, NotAStore
<1>. QED BY <1>2, <1>3

(* A device changes and nothing is stored. *)
LEMMA HappensKeeps ==
  ASSUME IoInv, NEW dv, Io!Happens(dv), On(io_regs, dv, meant, told, {}, dv)
  PROVE  IoInv'
<1>1. Io!Becomes(io_regs, dv) /\ meant' = meant /\ told' = told
  BY DEF Io!Happens
<1>. QED BY <1>1, Quiet, BecomesIs, NotAStore

(* The display goes on to the next line. *)
LEMMA DisplayKeeps ==
  ASSUME IoInv, block = "dispstat",
         Io!Happens([dev EXCEPT !.dispstat = IF @ % 2 = 1 THEN @ - 1 ELSE @ + 1, !.vcount = 1 - @])
  PROVE  IoInv'
<1>. DEFINE x == dev.dispstat
            y == IF x % 2 = 1 THEN x - 1 ELSE x + 1
            dv == [dev EXCEPT !.dispstat = IF @ % 2 = 1 THEN @ - 1 ELSE @ + 1, !.vcount = 1 - @]
<1>1. OnDispstat(dev, meant, told)
  BY Quiet, Zenon DEF On
<1>2. x \in TwoBytes /\ dev \in [dispstat : TwoBytes, vcount : {0, 1}]
  BY <1>1 DEF OnDispstat
<1>. HIDE DEF x
<1>3. PICK z \in OneByte : /\ z \div 2^FlagBits = Io!ByteAt(x, 0) \div 2^FlagBits
                           /\ HasBytes(y, z, Io!ByteAt(x, 1))
  BY <1>2, FlagToggled
<1>. HIDE DEF y
<1>4. /\ y \in TwoBytes /\ Io!ByteAt(y, 1) = Io!ByteAt(x, 1)
      /\ Io!ByteAt(y, 0) \div 2^FlagBits = Io!ByteAt(x, 0) \div 2^FlagBits
  BY <1>3 DEF HasBytes
<1>5. dv \in [dispstat : TwoBytes, vcount : {0, 1}] /\ dv.dispstat = y
  <2>1. dv = [dev EXCEPT !.dispstat = y, !.vcount = 1 - dev.vcount]
    BY <1>2 DEF x, y
  <2>2. 1 - dev.vcount \in {0, 1}
    BY <1>2
  <2>. HIDE DEF dv
  <2>. QED BY <1>2, <1>4, <2>1, <2>2
<1>. HIDE DEF dv
<1>6. OnDispstat(dv, meant, told)
  BY <1>1, <1>4, <1>5, Zenon DEF OnDispstat, x
<1>7. On(io_regs, dv, meant, told, {}, dv)
  BY <1>6 DEF On
<1>. QED BY <1>7, HappensKeeps DEF dv

(* A timer counts. *)
LEMMA CountingKeeps ==
  ASSUME IoInv, block = "timer", Io!Happens([dev EXCEPT !.counter = (@ + 1) % Io!B^2])
  PROVE  IoInv'
<1>. DEFINE c == (dev.counter + 1) % Io!B^2
            dv == [dev EXCEPT !.counter = c]
            R == [reload : TwoBytes, counter : TwoBytes, control : TwoBytes, enabled : BOOLEAN]
<1>1. OnTimer(io_regs, dev, meant, {}, dev)
  BY Quiet, Zenon DEF On
<1>2. c \in TwoBytes
  <2>. DEFINE b == Io!B
              n == b * b
  <2>1. b \in Nat \ {0} /\ Io!B^2 = n
    BY IoPowers
  <2>. HIDE DEF b
  <2>2. n \in Nat \ {0}
    BY <2>1
  <2>. HIDE DEF n
  <2>3. dev.counter \in Nat
    BY <1>1, <2>2 DEF OnTimer, TwoBytes, n, b
  <2>4. (dev.counter + 1) % n \in Nat /\ (dev.counter + 1) % n < n
    BY <2>2, <2>3
  <2>. QED BY <2>1, <2>2, <2>4 DEF TwoBytes, n, b
<1>. HIDE DEF c
<1>3. dv \in R /\ io_regs = meant
  BY <1>1, <1>2 DEF OnTimer
<1>. HIDE DEF dv
<1>4. OnTimer(io_regs, dv, meant, {}, dv)
  BY <1>3 DEF OnTimer
<1>5. On(io_regs, dv, meant, told, {}, dv)
  BY <1>4 DEF On
<1>. QED BY <1>5, HappensKeeps DEF dv, c

(* An interrupt is requested. *)
LEMMA RequestKeeps ==
  ASSUME IoInv, block = "irq", NEW i \in {0, ByteBits}, Io!Happens([dev EXCEPT !.irf = @ \cup {i}])
  PROVE  IoInv'
<1>. DEFINE dv == [dev EXCEPT !.irf = @ \cup {i}]
<1>1. OnIrq(dev, meant, told, {}, dev)
  BY Quiet, Zenon DEF On
<1>2. i \in Nat
  BY IoAssumption
<1>3. dv \in [ie : TwoBytes, irf : SUBSET Nat] /\ dv.irf \subseteq Nat /\ dv.ie = dev.ie
  BY <1>1, <1>2 DEF OnIrq
<1>. HIDE DEF dv
<1>4. dv.irf = {j \in dv.irf : 2 + j \div ByteBits \in {}
                                 => ~Io!Bit(meant[2 + j \div ByteBits], j % ByteBits)}
  OBVIOUS
<1>5. \A o \in told \cap {0, 1} : Io!ByteAt(dv.ie, o) = meant[o]
  BY <1>1, <1>3 DEF OnIrq
<1>6. OnIrq(dv, meant, told, {}, dv)
  BY <1>3, <1>4, <1>5, Zenon DEF OnIrq
<1>7. On(io_regs, dv, meant, told, {}, dv)
  BY <1>6 DEF On
<1>. QED BY <1>7, HappensKeeps DEF dv

(* A transfer that was triggered has ended. *)
LEMMA EndKeeps ==
  ASSUME IoInv, block = "dma",
         Io!Becomes([io_regs EXCEPT ![11] = Io!EndedByte(@)], [dev EXCEPT !.control = Io!Ended(@)]),
         meant' = meant, told' = told
  PROVE  IoInv'
<1>. DEFINE y == Io!Ended(dev.control)
            io == [io_regs EXCEPT ![11] = Io!EndedByte(@)]
            dv == [dev EXCEPT !.control = y]
            R == [source_latch : Nat, dest_latch : Nat, count : TwoBytes, control : TwoBytes]
<1>1. OnDma(io_regs, dev, meant, told, {}, dev) /\ Io!Offset = 0..11
  BY Quiet, OffsetsAre, Zenon DEF On
<1>2. dev \in R /\ dev.control \in TwoBytes /\ IsBytes(io_regs) /\ io_regs[11] \in OneByte
  BY <1>1, Quiet DEF OnDma, IsBytes
<1>3. HasBytes(y, Io!ByteAt(dev.control, 0), Io!EndedByte(Io!ByteAt(dev.control, 1)))
  BY <1>2, EnableCleared
<1>4. Io!EndedByte(io_regs[11]) \in OneByte
  BY <1>2, EndedIsByte
<1>5. y \in TwoBytes /\ Io!ByteAt(y, 1) = Io!EndedByte(Io!ByteAt(dev.control, 1))
  BY <1>3 DEF HasBytes
<1>. HIDE DEF y
<1>6. /\ IsBytes(io) /\ io[11] = Io!EndedByte(io_regs[11])
      /\ \A x \in 0..10 : io[x] = io_regs[x]
  BY <1>1, <1>2, <1>4 DEF IsBytes
<1>7. dv \in R /\ dv.control = y
  BY <1>2, <1>5
<1>8. Io!Becomes(io, dv)
  BY DEF y
<1>. HIDE DEF io, dv
<1>9. OnDma(io, dv, meant, told, {}, dv)
  BY <1>1, <1>5, <1>6, <1>7 DEF OnDma
<1>10. On(io, dv, meant, told, {}, dv)
  BY <1>9 DEF On
<1>. QED BY <1>6, <1>8, <1>10, Quiet, BecomesIs, NotAStore

(* What the devices do by themselves. *)
LEMMA HardwareKeeps == IoInv /\ Io!Hardware => IoInv'
<1>. SUFFICES ASSUME IoInv, Io!Hardware PROVE IoInv'
  OBVIOUS
<1>1. ASSUME block = "reference", Io!Happens([dev EXCEPT !.ref = 0]) PROVE IoInv'
  <2>. DEFINE dv == [dev EXCEPT !.ref = 0]
  <2>1. OnReference(io_regs, dv, meant, {})
    BY <1>1, Quiet DEF On, OnReference
  <2>. HIDE DEF dv
  <2>2. On(io_regs, dv, meant, told, {}, dv)
    BY <1>1, <2>1 DEF On
  <2>. QED BY <1>1, <2>2, HappensKeeps DEF dv
<1>2. ASSUME block = "keys", NEW k \in {0, Io!B * Io!B - 1}, Io!Happens([dev EXCEPT !.keyinput = k])
      PROVE  IoInv'
  <2>. DEFINE dv == [dev EXCEPT !.keyinput = k]
  <2>1. k \in Nat
    <3>. DEFINE b == Io!B
    <3>1. b \in Nat \ {0}
      BY IoPowers
    <3>. HIDE DEF b
    <3>2. b * b - 1 \in Nat
      BY <3>1
    <3>. QED BY <1>2, <3>2 DEF b
  <2>2. OnKeys(dev, meant, told)
    BY <1>2, Quiet, Zenon DEF On
  <2>3. OnKeys(dv, meant, told)
    BY <2>1, <2>2 DEF OnKeys
  <2>. HIDE DEF dv
  <2>4. On(io_regs, dv, meant, told, {}, dv)
    BY <1>2, <2>3 DEF On
  <2>. QED BY <1>2, <2>4, HappensKeeps DEF dv
<1>3. ASSUME block = "haltcnt", Io!Happens([halted |-> FALSE]) PROVE IoInv'
  <2>1. OnHaltcnt([halted |-> FALSE], {})
    BY DEF OnHaltcnt
  <2>2. On(io_regs, [halted |-> FALSE], meant, told, {}, [halted |-> FALSE])
    BY <1>3, <2>1 DEF On
  <2>. QED BY <1>3, <2>2, HappensKeeps
<1>4. ASSUME block = "irq", NEW i \in {0, ByteBits}, Io!Happens([dev EXCEPT !.irf = @ \cup {i}])
      PROVE  IoInv'
  BY <1>4, RequestKeeps
<1>. QED BY <1>1, <1>2, <1>3, <1>4, DisplayKeeps, CountingKeeps, EndKeeps, Zenon DEF Io!Hardware

(* Every operation on the registers. *)
LEMMA IoStep == IoInv /\ [MNext]_mvars => IoInv'
<1>. SUFFICES ASSUME IoInv, [MNext]_mvars PROVE IoInv'
  OBVIOUS
<1>1. CASE UNCHANGED iovars
  BY <1>1 DEF iovars, IoInv, InStep, IsBytes, Io!Offset, On, Old
<1>2. CASE Io!IoNext
  <2>1. ASSUME NEW level \in {0, Io!B^2 \div 8}, Io!swi_sound_bias(level) PROVE IoInv'
    BY <2>1, BiasKeeps
  <2>2. ASSUME NEW on \in BOOLEAN, Io!SwitchSound(on) PROVE IoInv'
    BY <2>2, SwitchKeeps
  <2>. QED BY <1>2, <2>1, <2>2, Store8Keeps, Store16Keeps, Store32Keeps, ResetKeeps, HardwareKeeps
              DEF Io!IoNext
<1>. QED BY <1>1, <1>2 DEF MNext, mvars

(* A store of any width through io_write8 reaches the register of its      *)
(* device whole, whatever was stored or reset in whatever pieces before,   *)
(* and loads through io_read8 show it: for bytes of every size.            *)
THEOREM IoStoresReachDevices == MSpec => []StoresReachDevices
  BY IoInitInv, IoStep, IoInvReaches, PTL DEF MSpec
=============================================================================
