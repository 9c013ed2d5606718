----------------------------- MODULE MCCartridge ----------------------------
(* Instances of the cartridge's save memory for TLC. *)
EXTENDS SaveHistory, FiniteSets

CONSTANT MaxProgrammed   \* bound: flash cells that hold something else than 0xFF

(* The unlock addresses; in SRAM the second one folds onto 0x5555's bank.  *)
MCOffsets == {0, 10922, 21845}
MCTypes   == {"NONE", "SRAM", "EEPROM", "FLASH64", "FLASH128"}

(* The writes of a program and of a bank switch. *)
MCWrites == {<<21845, Unlock1>>, <<10922, Unlock2>>, <<21845, CmdProgram>>,
             <<21845, CmdBank>>, <<0, {0}>>}

FewProgrammed ==
  Cardinality({c \in Bank \X Offsets : IsFlash /\ data[c[1]][c[2]] # Erased}) <= MaxProgrammed
=============================================================================
