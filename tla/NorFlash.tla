------------------------------ MODULE NorFlash ------------------------------
(***************************************************************************)
(* What a save-memory flash chip promises to the game, with its command    *)
(* interface hidden: cells hold bytes, programming a cell can only clear   *)
(* bits, erasing a sector or the chip sets every bit again, and a bank     *)
(* register selects which half of the chip is addressed.  Every step       *)
(* changes memory in exactly one of these ways.                            *)
(*                                                                         *)
(* A byte is the set of its bits that are 1, so that "AND" is              *)
(* intersection and the erased byte 0xFF is the full set.                  *)
(***************************************************************************)
EXTENDS Naturals

CONSTANTS Offsets,      \* the 16-bit offsets inside a bank that are modelled
          SectorOf(_)   \* the erase sector an offset belongs to

VARIABLES data,         \* data[b][o]: the byte at offset o of bank b
          bank          \* the bank the chip addresses

Bit    == 0..7
Byte   == SUBSET Bit
Erased == Bit
Bank   == {0, 1}

Init == /\ data = [b \in Bank |-> [o \in Offsets |-> Erased]]
        /\ bank = 0

(* Programming changes one cell of the current bank, and only clears bits. *)
Program == \E o \in Offsets :
             /\ data'[bank][o] \subseteq data[bank][o]
             /\ data' = [data EXCEPT ![bank][o] = data'[bank][o]]
             /\ UNCHANGED bank

EraseSector == \E s \in Offsets :
                 /\ data' = [data EXCEPT ![bank] =
                       [o \in Offsets |-> IF SectorOf(o) = SectorOf(s)
                                            THEN Erased ELSE @[o]]]
                 /\ UNCHANGED bank

EraseChip == /\ data' = [b \in Bank |-> [o \in Offsets |-> Erased]]
             /\ UNCHANGED bank

SelectBank == bank' \in Bank /\ UNCHANGED data

Next == Program \/ EraseSector \/ EraseChip \/ SelectBank

Spec == Init /\ [][Next]_<<data, bank>>
=============================================================================
