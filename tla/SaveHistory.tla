----------------------------- MODULE SaveHistory ----------------------------
(***************************************************************************)
(* The cartridge with a memory of what the last attempt to save was about, *)
(* and whether the last load got the whole file, to say what a later       *)
(* session finds.                                                          *)
(***************************************************************************)
EXTENDS Cartridge

VARIABLES image,      \* the save memory when the file was last opened
          complete,   \* that save came to its end
          readAll     \* the session began by reading all that the file holds

svars == <<data, state, bank, save_type, sram, file, power, image, complete, readAll>>

SInit == CInit /\ image = NoFile /\ complete = FALSE /\ readAll = FALSE

SLoad(got) == /\ cartridge_load(got) /\ readAll' = (got = DOMAIN file)
              /\ UNCHANGED <<image, complete>>

(* What a session does, and how it ends. *)
SNotLoad ==
  \/ \E w \in Writes : cartridge_write8(w[1], w[2]) /\ UNCHANGED <<image, complete>>
  \/ QuitUnsaved /\ UNCHANGED <<image, complete>>
  \/ Open /\ image' = Memory /\ complete' = FALSE
  \/ \E p \in Place : WriteNext(p) /\ UNCHANGED <<image, complete>>
  \/ Close /\ complete' = TRUE /\ UNCHANGED image
  \/ Crash /\ UNCHANGED <<image, complete>>

SNext == \/ \E got \in Readable : SLoad(got)
         \/ SNotLoad /\ UNCHANGED readAll

SSpec == SInit /\ [][SNext]_svars

-----------------------------------------------------------------------------
(* The save file never mixes two saves: wherever the process dies and      *)
(* however often it is restarted, the file is an initial piece of the save *)
(* last attempted - all of it if that save came to its end.                *)
NoMixedSave ==
  /\ DOMAIN file \subseteq Area(save_type)
  /\ \A p \in DOMAIN file : p \in DOMAIN image /\ file[p] = image[p]
  /\ \A p \in DOMAIN file, q \in Area(save_type) : Before(q, p) => q \in DOMAIN file
  /\ complete => DOMAIN file = Area(save_type) /\ DOMAIN image = Area(save_type)

(* Erased flash, cleared SRAM. *)
Blank == IF IsFlash THEN Erased ELSE {}

(* Progress survives: a session that starts after a complete save begins   *)
(* with the save memory the saving session ended with, also when sessions  *)
(* in between died, could not read the file or could not open it to save.  *)
(* If it cannot read the whole file itself, it begins with a first part of *)
(* that save memory and a blank rest - never with bytes at other places -  *)
(* and the file is still there for the session after it, unless this one   *)
(* saves.                                                                  *)
SaveSurvives ==
  [][power = "off" /\ power' = "on" /\ complete =>
       \E got \in SUBSET Area(save_type) :
          /\ \A p \in got, q \in Area(save_type) : Before(q, p) => q \in got
          /\ readAll' => got = Area(save_type)
          /\ Memory' = [p \in Area(save_type) |-> IF p \in got THEN image[p] ELSE Blank]]_svars
=============================================================================
