SPECIFICATION SSpec
CONSTANTS
  Offsets <- MCOffsets
  Writes  <- MCWrites
  SaveTypes <- MCTypes
  MaxProgrammed = 2
CONSTRAINT FewProgrammed
INVARIANT NoMixedSave
PROPERTY SaveSurvives
