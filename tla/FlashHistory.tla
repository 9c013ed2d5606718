---------------------------- MODULE FlashHistory ----------------------------
(***************************************************************************)
(* The flash chip together with the writes the game has just made, to say  *)
(* what it takes to change the save memory: whole command sequences, byte  *)
(* by byte and in order.  The window knows nothing of the chip's state.    *)
(***************************************************************************)
EXTENDS Flash

VARIABLE recent       \* the five writes before the next one, oldest first

hvars == <<data, state, bank, recent>>

Window == 1..5
NoWrite == <<>>       \* before the first writes

HInit == Init /\ recent = [i \in Window |-> NoWrite]

HWrite(w) == /\ flash_write(w[1], w[2])
             /\ recent' = [i \in Window |-> IF i = 5 THEN w ELSE recent[i + 1]]

HNext == \E w \in Writes : HWrite(w)

HSpec == HInit /\ [][HNext]_hvars

-----------------------------------------------------------------------------
UnlockAt(i) == /\ recent[i]     = <<AddrUnlock1, Unlock1>>
               /\ recent[i + 1] = <<AddrUnlock2, Unlock2>>

(* The three writes that arm a one-write command, just made. *)
Armed(cmd) == UnlockAt(3) /\ recent[5] = <<AddrUnlock1, cmd>>

(* The five writes that arm an erase, just made. *)
EraseArmed == /\ UnlockAt(1)
              /\ recent[3] = <<AddrUnlock1, CmdErase>>
              /\ UnlockAt(4)

(* Safety of the save data: a write changes a cell of flash.data only when *)
(* the writes right before it were the whole unlock sequence of a program  *)
(* or of an erase, and it changes the bank only after the whole sequence   *)
(* of a bank switch.  A stray or interrupted command never touches a save. *)
OnlyCommandsChangeTheChip ==
  [][ /\ data' # data => Armed(CmdProgram) \/ EraseArmed
      /\ bank' # bank => Armed(CmdBank) ]_hvars

(* The state of the machine is exactly what the last writes say it is: the *)
(* inductive strengthening behind the property above.                      *)
StateMatchesWrites ==
  /\ state = "CMD1"       => recent[5] = <<AddrUnlock1, Unlock1>>
  /\ state = "CMD2"       => UnlockAt(4)
  /\ state = "WRITE"      => Armed(CmdProgram)
  /\ state = "BANKSWITCH" => Armed(CmdBank)
  /\ state = "ERASE"      => Armed(CmdErase)
  /\ state = "ERASE_CMD1" =>
       /\ UnlockAt(2)
       /\ recent[4] = <<AddrUnlock1, CmdErase>>
       /\ recent[5] = <<AddrUnlock1, Unlock1>>
  /\ state = "ERASE_CMD2" => EraseArmed
=============================================================================
