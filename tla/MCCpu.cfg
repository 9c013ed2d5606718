SPECIFICATION RSpec
CONSTANTS
  Code <- RomCode
  DataRegs = {0}
  Words = {1}
  MsrModes = {"FIQ"}
  MsrThumb = {FALSE}
  RegLists <- MCRegLists
  IsaBits = {0, 1}
  Links = {FALSE}
  Halfwords = 3
  MaxTouched = 2
CONSTRAINT FewTouched
PROPERTY ImplementsRegisterFile
PROPERTY AlignedReturnsResume
