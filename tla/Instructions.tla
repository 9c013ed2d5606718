----------------------------- MODULE Instructions ---------------------------
(***************************************************************************)
(* Small programs for both instruction sets, each with what it has to      *)
(* compute: arithmetic on pairs of registers, repeated shifts, the same    *)
(* Thumb instruction on two processors, nested calls.  They share no       *)
(* state, so a behaviour runs one of them; a last kind of behaviour only   *)
(* decodes one instruction.                                                *)
(***************************************************************************)
EXTENDS Integers, Sequences, FiniteSets, Functions

CONSTANTS WideBits,    \* bound: width of a register in the arithmetic on pairs
          AluBits,     \* bound: width of a register that is shifted, and of the twins'
          MaxShift,    \* bound: largest shift amount
          MaxTransfers, \* bound: loads and stores in a row
          MaxFrames,   \* bound: nested calls
          MaxCalls     \* bound: calls in a program

(* Registers have bits; and, for the proofs, what powers of two are.       *)
ASSUME WidthAssumption ==
  /\ WideBits \in Nat \ {0} /\ AluBits \in Nat \ {0} /\ MaxShift \in Nat
  /\ 2^0 = 1 /\ 2^1 = 2
  /\ 2^(WideBits - 1) \in Nat \ {0} /\ 2^WideBits = 2 * 2^(WideBits - 1)
  /\ 4^WideBits = 2^WideBits * 2^WideBits
  /\ 2^(2 * WideBits - 1) = 2^WideBits * 2^(WideBits - 1)
  /\ \A i, j \in 0 .. AluBits + 1 : 2^i \in Nat \ {0} /\ 2^(i + j) = 2^i * 2^j
  /\ \A i \in 0 .. 2^AluBits : 2^i \in Nat \ {0} /\ 2^(AluBits + i) = 2^AluBits * 2^i
  /\ 2^2 = 4 /\ 2^3 = 8 /\ 2^4 = 16

VARIABLES part,    \* the program: "wide", "shift", "twins", "memory", "expand", "calls", "decode"
          cpu,     \* the machine it runs on
          twin,    \* the ARM processor that runs beside it
          todo,    \* instructions it still has to execute
          spec     \* what it has to compute, or who it has to return to

ivars == <<part, cpu, twin, todo, spec>>

Wide  == INSTANCE ArmInstr WITH W <- WideBits, AmountBits <- WideBits
ArmAlu   == INSTANCE ArmInstr WITH W <- AluBits, AmountBits <- AluBits
ThumbAlu == INSTANCE ThumbInstr WITH W <- AluBits, AmountBits <- AluBits, LinkBits <- 1
(* A processor of four-bit words and one-bit bytes: sixteen addresses.     *)
Arm   == INSTANCE ArmInstr WITH W <- 4, AmountBits <- 3
Thumb == INSTANCE ThumbInstr WITH W <- 4, AmountBits <- 3, LinkBits <- 1
(* One of two-bit bytes, for the calls.                                    *)
ArmFn   == INSTANCE ArmInstr WITH W <- 8, AmountBits <- 8
ThumbFn == INSTANCE ThumbInstr WITH W <- 8, AmountBits <- 8, LinkBits <- 3

R13 == 13
R14 == 14
PC == 15

Machine(regs, n, z, c, v) ==
  [r |-> regs, n |-> n, z |-> z, c |-> c, v |-> v, t |-> FALSE, flush |-> FALSE, mem |-> <<>>]
NoMachine == Machine(<<>>, FALSE, FALSE, FALSE, FALSE)

RegOp(rm)         == [kind |-> "reg", rm |-> rm, type |-> "LSL", amount |-> 0]
Shifted(rm, ty, n) == [kind |-> "reg", rm |-> rm, type |-> ty, amount |-> n]
ImmOp(x)          == [kind |-> "imm", imm |-> x, rotate |-> 0]
Dp(op, s, rd, rn, op2) ==
  [kind |-> "dp", opcode |-> op, s |-> s, rd |-> rd, rn |-> rn, op2 |-> op2]

-----------------------------------------------------------------------------
(* Pairs of registers: the number X in R1:R0 and the number Y in R3:R2.    *)
(* An item is [cond, instr].                                               *)
Always(i)  == [cond |-> "AL", instr |-> i]
Long(signed, acc) == [kind |-> "long", signed |-> signed, accumulate |-> acc, s |-> TRUE,
                      hi |-> 1, lo |-> 0, rm |-> IF acc THEN 3 ELSE 0, rs |-> 2]
Pairs == {"order", "add", "sub", "rsb", "cmp", "double", "half", "half_signed",
          "umull", "smull", "umlal", "smlal"}
Program(p) ==
  CASE p = "order" -> <<Always(Dp("CMP", TRUE, 0, 0, RegOp(2)))>>
    [] p = "add" -> <<Always(Dp("ADD", TRUE, 0, 0, RegOp(2))), Always(Dp("ADC", TRUE, 1, 1, RegOp(3)))>>
    [] p = "sub" -> <<Always(Dp("SUB", TRUE, 0, 0, RegOp(2))), Always(Dp("SBC", TRUE, 1, 1, RegOp(3)))>>
    [] p = "rsb" -> <<Always(Dp("RSB", TRUE, 0, 0, RegOp(2))), Always(Dp("RSC", TRUE, 1, 1, RegOp(3)))>>
    [] p = "cmp" -> <<Always(Dp("CMP", TRUE, 1, 1, RegOp(3))),
                      [cond |-> "EQ", instr |-> Dp("CMP", TRUE, 0, 0, RegOp(2))]>>
    [] p = "double" -> <<Always(Dp("ADD", TRUE, 0, 0, RegOp(0))), Always(Dp("ADC", TRUE, 1, 1, RegOp(1)))>>
    [] p = "half" -> <<Always(Dp("MOV", TRUE, 1, 1, Shifted(1, "LSR", 1))),
                       Always(Dp("MOV", TRUE, 0, 0, Shifted(0, "ROR", 0)))>>
    [] p = "half_signed" -> <<Always(Dp("MOV", TRUE, 1, 1, Shifted(1, "ASR", 1))),
                              Always(Dp("MOV", TRUE, 0, 0, Shifted(0, "ROR", 0)))>>
    [] p = "umull" -> <<Always(Long(FALSE, FALSE))>>
    [] p = "smull" -> <<Always(Long(TRUE, FALSE))>>
    [] p = "umlal" -> <<Always(Long(FALSE, TRUE))>>
    [] p = "smlal" -> <<Always(Long(TRUE, TRUE))>>

(* The mathematics: numbers of 2 * WideBits bits, and the conditions that  *)
(* must hold at the end.                                                   *)
Range2 == 4^WideBits
Neg2(x) == IF x >= Range2 \div 2 THEN x - Range2 ELSE x
Neg1(x) == Wide!Signed(x)
Fits2(x) == x \in -(Range2 \div 2) .. (Range2 \div 2) - 1

(* What the conditions say of two numbers x, y without sign, sx, sy with.  *)
Order(x, y, sx, sy) ==
  [c \in {"EQ", "NE", "CS", "CC", "HI", "LS", "GE", "LT", "GT", "LE"} |->
     CASE c = "EQ" -> x = y    [] c = "NE" -> x # y
       [] c = "CS" -> x >= y   [] c = "CC" -> x < y
       [] c = "HI" -> x > y    [] c = "LS" -> x <= y
       [] c = "GE" -> sx >= sy [] c = "LT" -> sx < sy
       [] c = "GT" -> sx > sy  [] c = "LE" -> sx <= sy]

Sum(x) == [value |-> x % Range2, holds |-> <<>>]
Difference(x, y) ==
  [value |-> (x - y) % Range2,
   holds |-> [c \in {"CS", "CC", "GE", "LT", "VS", "MI"} |->
                CASE c = "CS" -> x >= y             [] c = "CC" -> x < y
                  [] c = "GE" -> Neg2(x) >= Neg2(y) [] c = "LT" -> Neg2(x) < Neg2(y)
                  [] c = "VS" -> ~Fits2(Neg2(x) - Neg2(y))
                  [] c = "MI" -> (x - y) % Range2 >= Range2 \div 2]]
Result(p, x, y) ==
  LET x0 == x % 2^WideBits  y0 == y % 2^WideBits  y1 == y \div 2^WideBits
  IN CASE p = "order" -> [value |-> x, holds |-> Order(x0, y0, Neg1(x0), Neg1(y0))]
       [] p = "add" -> [value |-> (x + y) % Range2,
                        holds |-> [c \in {"CS", "VS", "PL"} |->
                          CASE c = "CS" -> x + y >= Range2
                            [] c = "VS" -> ~Fits2(Neg2(x) + Neg2(y))
                            [] c = "PL" -> (x + y) % Range2 < Range2 \div 2]]
       [] p = "sub" -> Difference(x, y)
       [] p = "rsb" -> Difference(y, x)
       [] p = "cmp" -> [value |-> x,
                        holds |-> Restrict(Order(x, y, x, y), {"EQ", "NE", "CS", "CC", "HI", "LS"})]
       [] p = "double" -> Sum(2 * x)
       [] p = "half" -> [value |-> x \div 2, holds |-> [c \in {"CS"} |-> x % 2 = 1]]
       [] p = "half_signed" -> [value |-> (Neg2(x) \div 2) % Range2, holds |-> <<>>]
       [] p = "umull" -> [value |-> x0 * y0, holds |-> [c \in {"EQ"} |-> x0 * y0 = 0]]
       [] p = "smull" -> [value |-> (Neg1(x0) * Neg1(y0)) % Range2,
                          holds |-> [c \in {"MI"} |-> Neg1(x0) * Neg1(y0) < 0]]
       [] p = "umlal" -> Sum(x + y1 * y0)
       [] p = "smlal" -> Sum(x + Neg1(y1) * Neg1(y0))

(* The registers before the first instruction. *)
Operands(x, y) == [i \in 0..3 |-> LET z == IF i < 2 THEN x ELSE y
                                  IN  IF i % 2 = 0 THEN z % 2^WideBits ELSE z \div 2^WideBits]
Execute(x, item) ==
  IF ~Wide!cpu_condition_passed(x, item.cond) THEN x
  ELSE IF item.instr.kind = "long" THEN Wide!arm_multiply_long(x, item.instr)
  ELSE Wide!arm_data_processing(x, item.instr)

WideInit ==
  /\ part = "wide"
  /\ \E x \in 0 .. Range2 - 1, y \in 0 .. Range2 - 1, p \in Pairs, c \in BOOLEAN :
       /\ cpu = Machine(Operands(x, y), FALSE, FALSE, c, FALSE)
       /\ todo = Program(p) /\ spec = Result(p, x, y)
  /\ twin = NoMachine

WideStep ==
  /\ part = "wide" /\ todo # <<>>
  /\ cpu' = Execute(cpu, Head(todo))
  /\ todo' = Tail(todo)
  /\ UNCHANGED <<part, twin, spec>>

(* Numbers wider than a register: flags carry from one instruction to the  *)
(* next so that ADDS/ADC, SUBS/SBC, RSBS/RSC, CMP/CMPEQ, a shift into RRX  *)
(* and the long multiplications compute on two registers as on one, and    *)
(* the conditions then tell the order of the numbers, signed and unsigned. *)
WideArithmetic ==
  part = "wide" /\ todo = <<>> =>
    /\ cpu.r[1] * 2^WideBits + cpu.r[0] = spec.value
    /\ \A c \in DOMAIN spec.holds : Wide!cpu_condition_passed(cpu, c) <=> spec.holds[c]

-----------------------------------------------------------------------------
(* Shifts, one bit at a time.  spec: the operand, the carry before, the    *)
(* kind of shift and how many bits so far.                                 *)
ShiftInit ==
  /\ part = "shift"
  /\ \E v \in 0 .. 2^AluBits - 1, c \in BOOLEAN, ty \in ArmAlu!Shift \cup {"RRX"} :
       /\ cpu = Machine([i \in {0} |-> v], FALSE, FALSE, c, FALSE)
       /\ spec = [v |-> v, c |-> c, type |-> ty, n |-> 0]
  /\ twin = NoMachine /\ todo = <<>>

ShiftStep ==
  /\ part = "shift" /\ spec.n < MaxShift
  /\ LET y == IF spec.type = "RRX" THEN ArmAlu!barrel_shift(cpu.r[0], "ROR", 0, cpu.c, FALSE)
              ELSE ArmAlu!barrel_shift(cpu.r[0], spec.type, 1, cpu.c, TRUE)
     IN  cpu' = [cpu EXCEPT !.r[0] = y.v, !.c = y.c]
  /\ spec' = [spec EXCEPT !.n = @ + 1]
  /\ UNCHANGED <<part, twin, todo>>

(* A shift by n is n shifts by one bit, carry included, for amounts below, *)
(* at and beyond the width; the immediate amount 0 stands for the width;   *)
(* and a rotation through the carry comes back after width + 1 steps.      *)
ShiftIsRepeated ==
  part = "shift" =>
    LET now == [v |-> cpu.r[0], c |-> cpu.c]
        start == [v |-> spec.v, c |-> spec.c]
        by(n, reg) == ArmAlu!barrel_shift(spec.v, spec.type, n, spec.c, reg)
    IN  IF spec.type = "RRX" THEN spec.n = AluBits + 1 => now = start
        ELSE /\ now = by(spec.n, TRUE)
             /\ spec.n \in 1 .. AluBits - 1 => now = by(spec.n, FALSE)
             /\ spec.n = AluBits /\ spec.type \in {"LSR", "ASR"} => now = by(0, FALSE)

-----------------------------------------------------------------------------
(* Twins: a Thumb instruction and the ARM instruction it abbreviates, on   *)
(* two processors.  thumb_instr.c keeps its own copies of the shifter, the *)
(* flags and the transfers.                                                *)
Twin(fmt, i, a) == [fmt |-> fmt, i |-> i, a |-> a]
Low == {0, 1}

ShiftTwin(o, n, s, d) ==
  Twin("move_shifted", [op |-> o, offset5 |-> n, rs |-> s, rd |-> d],
       Dp("MOV", TRUE, d, d, Shifted(s, o, n)))
AddTwin(o, b, x, s, d) ==
  Twin("add_subtract", [op |-> o, is_imm |-> b, arg |-> x, rs |-> s, rd |-> d],
       Dp(o, TRUE, d, s, IF b THEN ImmOp(x) ELSE RegOp(x)))
ImmTwin(o, d, x) ==
  Twin("mov_cmp_add_sub_imm", [op |-> o, rd |-> d, imm8 |-> x], Dp(o, TRUE, d, d, ImmOp(x)))
AluOf(o, s, d) == CASE o \in ThumbAlu!ShiftOps ->
                         Dp("MOV", TRUE, d, d, [kind |-> "shift", rm |-> d, type |-> o, rs |-> s])
                    [] o = "NEG" -> Dp("RSB", TRUE, d, s, ImmOp(0))
                    [] o = "MUL" -> [kind |-> "mul", accumulate |-> FALSE, s |-> TRUE,
                                     rd |-> d, rn |-> d, rs |-> s, rm |-> d]
                    [] OTHER -> Dp(o, TRUE, d, d, RegOp(s))
AluTwin(o, s, d) == Twin("alu", [op |-> o, rs |-> s, rd |-> d], AluOf(o, s, d))
HiTwin(o, s, d)  == Twin("hi_reg_bx", [op |-> o, rs |-> s, rd |-> d], Dp(o, FALSE, d, d, RegOp(s)))

MoveShifted  == {ShiftTwin(o, n, s, d) :
                   o \in {"LSL", "LSR", "ASR"}, n \in 0 .. AluBits - 1, s \in Low, d \in Low}
AddSubtract  == {AddTwin(o, b, x, s, d) :
                   o \in {"ADD", "SUB"}, b \in BOOLEAN, x \in Low, s \in Low, d \in Low}
MovCmpAddSub == {ImmTwin(o, d, x) :
                   o \in {"MOV", "CMP", "ADD", "SUB"}, d \in Low, x \in ArmAlu!Word}
Alu          == {AluTwin(o, s, d) : o \in ThumbAlu!AluOps, s \in Low, d \in Low}
HiReg        == {HiTwin(o, s, d) : o \in {"ADD", "CMP", "MOV"}, s \in Low, d \in Low}

Single(load, byte, rd, rn, op2) ==
  [kind |-> "single", load |-> load, byte |-> byte, rd |-> rd, rn |-> rn, op2 |-> op2,
   pre |-> TRUE, up |-> TRUE, writeback |-> FALSE]
Half(load, sh, rd, rn, op2) ==
  [kind |-> "half", load |-> load, sh |-> sh, rd |-> rd, rn |-> rn, op2 |-> op2,
   pre |-> TRUE, up |-> TRUE, writeback |-> FALSE]
Block(load, pre, up, rn, list) ==
  [kind |-> "block", load |-> load, pre |-> pre, up |-> up, rn |-> rn, rlist |-> list,
   writeback |-> TRUE]

PcLoadTwin(x)         == Twin("pc_relative_load", [rd |-> 0, imm8 |-> x],
                              Single(TRUE, FALSE, 0, PC, ImmOp(4 * x)))
RegTwin(l, b, o, d)   == Twin("load_store_reg", [load |-> l, byte |-> b, rb |-> 0, ro |-> o, rd |-> d],
                              Single(l, b, d, 0, RegOp(o)))
SignTwin(o, r, d) ==
  Twin("load_store_sign_ext", [op |-> o, rb |-> 0, ro |-> r, rd |-> d],
       Half(o # "STRH", CASE o \in {"STRH", "LDRH"} -> "H" [] o = "LDSB" -> "SB" [] o = "LDSH" -> "SH",
            d, 0, RegOp(r)))
OffsetTwin(l, b, n, d) ==
  Twin("load_store_imm", [load |-> l, byte |-> b, offset5 |-> n, rb |-> 0, rd |-> d],
       Single(l, b, d, 0, ImmOp(IF b THEN n ELSE 4 * n)))
HalfTwin(l, n, d) == Twin("load_store_halfword", [load |-> l, offset5 |-> n, rb |-> 0, rd |-> d],
                          Half(l, "H", d, 0, ImmOp(2 * n)))
SpTwin(l, n)      == Twin("sp_relative_load_store", [load |-> l, imm8 |-> n, rd |-> 0],
                          Single(l, FALSE, 0, R13, ImmOp(4 * n)))
AddressTwin(b, n) == Twin("load_address", [sp |-> b, imm8 |-> n, rd |-> 0],
                          Dp("ADD", FALSE, 0, IF b THEN R13 ELSE PC, ImmOp(4 * n)))
SpOffsetTwin(b, n) == Twin("add_sp_offset", [negative |-> b, imm7 |-> n],
                           Dp(IF b THEN "SUB" ELSE "ADD", FALSE, R13, R13, ImmOp(4 * n)))
PushPopTwin(l, r, s)  == Twin("push_pop", [load |-> l, r_bit |-> r, rlist |-> s],
                              Block(l, ~l, l, R13, IF r THEN s \cup {R14} ELSE s))
MultipleTwin(l, b, s) == Twin("multiple_load_store", [load |-> l, rb |-> b, rlist |-> s],
                              Block(l, FALSE, TRUE, b, s))

Lists         == (SUBSET (0..2)) \ {{}}
PcLoad        == {PcLoadTwin(x) : x \in 0..1}
RegLoadStore  == {RegTwin(l, b, o, d) : l \in BOOLEAN, b \in BOOLEAN, o \in Low, d \in 0..2}
SignExt       == {SignTwin(o, r, d) :
                    o \in {"STRH", "LDRH", "LDSB", "LDSH"}, r \in Low, d \in 0..2}
ImmLoadStore  == {OffsetTwin(l, b, n, d) : l \in BOOLEAN, b \in BOOLEAN, n \in {0, 1, 3}, d \in Low}
HalfLoadStore == {HalfTwin(l, n, d) : l \in BOOLEAN, n \in {0, 3}, d \in Low}
SpLoadStore   == {SpTwin(l, n) : l \in BOOLEAN, n \in 0..2}
Address       == {AddressTwin(b, n) : b \in BOOLEAN, n \in 0..2}
SpOffset      == {SpOffsetTwin(b, n) : b \in BOOLEAN, n \in 0..2}
(* Not POP {PC}: where it goes is in the calls.                            *)
PushPop       == {PushPopTwin(l, ~l /\ r, s) : l \in BOOLEAN, r \in BOOLEAN, s \in Lists}
Multiple      == {MultipleTwin(l, b, s) : l \in BOOLEAN, b \in Low, s \in Lists}

AluTwins    == MoveShifted \cup AddSubtract \cup MovCmpAddSub \cup Alu \cup HiReg
MemoryTwins == PcLoad \cup RegLoadStore \cup SignExt \cup ImmLoadStore \cup HalfLoadStore
               \cup SpLoadStore \cup Address \cup SpOffset \cup PushPop \cup Multiple

RunThumbAlu(x) ==
  CASE x.fmt = "move_shifted"           -> ThumbAlu!thumb_move_shifted(cpu, x.i)
    [] x.fmt = "add_subtract"           -> ThumbAlu!thumb_add_subtract(cpu, x.i)
    [] x.fmt = "mov_cmp_add_sub_imm"    -> ThumbAlu!thumb_mov_cmp_add_sub_imm(cpu, x.i)
    [] x.fmt = "alu"                    -> ThumbAlu!thumb_alu(cpu, x.i)
    [] x.fmt = "hi_reg_bx"              -> ThumbAlu!thumb_hi_reg_bx(cpu, x.i)
RunThumb(x) ==
  CASE x.fmt = "pc_relative_load"       -> Thumb!thumb_pc_relative_load(cpu, x.i)
    [] x.fmt = "load_store_reg"         -> Thumb!thumb_load_store_reg(cpu, x.i)
    [] x.fmt = "load_store_sign_ext"    -> Thumb!thumb_load_store_sign_ext(cpu, x.i)
    [] x.fmt = "load_store_imm"         -> Thumb!thumb_load_store_imm(cpu, x.i)
    [] x.fmt = "load_store_halfword"    -> Thumb!thumb_load_store_halfword(cpu, x.i)
    [] x.fmt = "sp_relative_load_store" -> Thumb!thumb_sp_relative_load_store(cpu, x.i)
    [] x.fmt = "load_address"           -> Thumb!thumb_load_address(cpu, x.i)
    [] x.fmt = "add_sp_offset"          -> Thumb!thumb_add_sp_offset(cpu, x.i)
    [] x.fmt = "push_pop"               -> Thumb!thumb_push_pop(cpu, x.i)
    [] x.fmt = "multiple_load_store"    -> Thumb!thumb_multiple_load_store(cpu, x.i)

RunArmAlu(a) == CASE a.kind = "dp"  -> ArmAlu!arm_data_processing(twin, a)
                  [] a.kind = "mul" -> ArmAlu!arm_multiply(twin, a)
RunArm(a) == CASE a.kind = "dp"     -> Arm!arm_data_processing(twin, a)
               [] a.kind = "single" -> Arm!arm_single_transfer(twin, a)
               [] a.kind = "half"   -> Arm!arm_halfword_transfer(twin, a)
               [] a.kind = "block"  -> Arm!arm_block_transfer(twin, a)

(* MUL leaves the carry undefined (the two sets differ), so that no        *)
(* program reads it before it is set again.  spec: the carry is defined.   *)
ReadsCarry(x) == x.fmt = "alu" /\ x.i.op \in {"ADC", "SBC"}
SetsCarry(x)  == x.a.kind = "dp" /\ x.a.s /\ x.a.opcode \notin ArmAlu!LogicalOps
IsMul(x)      == x.a.kind = "mul"

TwinsInit ==
  /\ part = "twins"
  /\ cpu = Machine([i \in Low |-> 0], FALSE, FALSE, FALSE, FALSE) /\ twin = cpu
  /\ todo = <<>> /\ spec = TRUE

TwinsStep ==
  /\ part = "twins"
  /\ \E x \in AluTwins :
       /\ ReadsCarry(x) => spec
       /\ cpu' = RunThumbAlu(x) /\ twin' = RunArmAlu(x.a)
       /\ spec' = (~IsMul(x) /\ (spec \/ SetsCarry(x)))
  /\ UNCHANGED <<part, todo>>

(* Sixteen one-bit bytes in which every four in a row differ. *)
Ram == [a \in 0..15 |-> IF a \in {0, 3, 4, 6, 8, 9, 10, 11} THEN 1 ELSE 0]

MemoryInit ==
  /\ part = "memory"
  /\ \E r0 \in 0..15, r1 \in {1, 7, 12}, sp \in {6, 8} :
       cpu = [Machine([i \in {0, 1, 2, R13, R14, PC} |->
                       CASE i = 0 -> r0 [] i = 1 -> r1 [] i = 2 -> 10
                         [] i = R13 -> sp [] i = R14 -> 5 [] i = PC -> 6],
                    FALSE, FALSE, FALSE, FALSE) EXCEPT !.mem = Ram]
  /\ twin = [cpu EXCEPT !.r[PC] = 4]                  \* an ARM PC is word-aligned
  /\ todo = [k \in 1..MaxTransfers |-> k] /\ spec = TRUE

MemoryStep ==
  /\ part = "memory" /\ todo # <<>>
  /\ \E x \in MemoryTwins : cpu' = RunThumb(x) /\ twin' = RunArm(x.a)
  /\ todo' = Tail(todo)
  /\ UNCHANGED <<part, spec>>

(* Thumb code is short for ARM code: after any sequence of the Thumb       *)
(* instructions above the registers, the memory and every defined flag are *)
(* those of a processor that ran the ARM instructions they abbreviate.     *)
(* (Branches, writes to the PC and empty register lists, which the two     *)
(* sets treat differently, are not among them.)                            *)
ThumbIsArm ==
  part \in {"twins", "memory"} =>
    /\ \A i \in DOMAIN cpu.r \ {PC} : cpu.r[i] = twin.r[i]
    /\ cpu.mem = twin.mem
    /\ cpu.n = twin.n /\ cpu.z = twin.z /\ cpu.v = twin.v
    /\ spec => cpu.c = twin.c

-----------------------------------------------------------------------------
(* Transfers with a writeback, SWP and the block transfers beside the      *)
(* plain loads, stores and additions they are made of.  R2 is scratch.     *)
Offset(rn, op2, up) == Dp(IF up THEN "ADD" ELSE "SUB", FALSE, rn, rn, op2)
Plain(x) == [x EXCEPT !.op2 = ImmOp(0), !.writeback = FALSE, !.pre = TRUE, !.up = TRUE]
Indexed == {[x EXCEPT !.pre = p, !.up = u, !.writeback = TRUE] :
              x \in {Single(l, b, 1, 0, o) : l \in BOOLEAN, b \in BOOLEAN,
                                             o \in {ImmOp(3), Shifted(2, "LSR", 1)}}
                   \cup {Half(l, "H", 1, 0, o) : l \in BOOLEAN, o \in {ImmOp(3), RegOp(2)}}
                   \cup {Half(TRUE, h, 1, 0, ImmOp(1)) : h \in {"SB", "SH"}},
              p \in BOOLEAN, u \in BOOLEAN}
Swaps == {[kind |-> "swap", byte |-> b, rn |-> 0, rd |-> d, rm |-> n] :
            b \in BOOLEAN, d \in Low, n \in Low}
Blocks == {[Block(l, p, u, n, s) EXCEPT !.writeback = w] :
             l \in BOOLEAN, p \in BOOLEAN, u \in BOOLEAN, n \in Low,
             s \in {{}, {0}, {1}, {0, 1}, {0, 1, R14}, {1, PC}}, w \in BOOLEAN}

(* Registers in the order of their numbers. *)
Ascending(S) ==
  [k \in 1 .. Cardinality(S) |-> CHOOSE r \in S : Cardinality({q \in S : q <= r}) = k]

(* The base is written back after the first word of a store and before     *)
(* those of a load; a loaded base is loaded last.  An empty list stands    *)
(* for R15 and sixteen words.                                              *)
BlockSteps(x) ==
  LET list  == IF x.rlist = {} THEN {PC} ELSE x.rlist
      size  == 4 * (IF x.rlist = {} THEN 16 ELSE Cardinality(list))
      first == IF x.up THEN (IF x.pre THEN 4 ELSE 0) ELSE (IF x.pre THEN 0 ELSE 4) - size
      move  == IF x.up THEN size ELSE -size
      at(r, from) == LET o == first - from + 4 * Cardinality({j \in list : j < r})
                     IN  [Single(x.load, FALSE, r, x.rn, ImmOp(IF o < 0 THEN -o ELSE o))
                            EXCEPT !.up = o >= 0]
      order == Ascending(list \ {x.rn}) \o (IF x.rn \in list THEN <<x.rn>> ELSE <<>>)
      asc   == Ascending(list)
      base  == <<Offset(x.rn, ImmOp(size % 16), x.up)>>
  IN  CASE ~x.writeback -> [k \in 1 .. Len(asc) |-> at((IF x.load THEN order ELSE asc)[k], 0)]
        [] x.writeback /\ x.load -> base \o [k \in 1 .. Len(order) |-> at(order[k], move)]
        [] x.writeback /\ ~x.load ->
             <<at(asc[1], 0)>> \o base \o [k \in 1 .. Len(asc) - 1 |-> at(asc[k + 1], move)]

Steps(x) ==
  CASE x.kind = "block" -> BlockSteps(x)
    [] x.kind = "swap" -> <<Single(TRUE, x.byte, 2, x.rn, ImmOp(0)),
                            Single(FALSE, x.byte, x.rm, x.rn, ImmOp(0)),
                            Dp("MOV", FALSE, x.rd, x.rd, RegOp(2))>>
    [] x.kind \in {"single", "half"} /\ x.pre  -> <<Offset(x.rn, x.op2, x.up), Plain(x)>>
    [] x.kind \in {"single", "half"} /\ ~x.pre -> <<Plain(x), Offset(x.rn, x.op2, x.up)>>

ExpandInit ==
  /\ part = "expand"
  /\ \E x \in Indexed \cup Swaps \cup Blocks, r0 \in 0..15, r1 \in {4, 8} :
       /\ x.kind = "block" => r0 % 4 = 0
       /\ twin = [Machine([i \in {0, 1, 2, R14, PC} |->
                       CASE i = 0 -> r0 [] i = 1 -> r1 [] i = 2 -> 6 [] i = R14 -> 5 [] i = PC -> 8],
                    FALSE, FALSE, FALSE, FALSE) EXCEPT !.mem = Ram]
       /\ todo = Steps(x) /\ spec = x
  /\ cpu = CASE spec.kind = "single" -> Arm!arm_single_transfer(twin, spec)
           [] spec.kind = "half"   -> Arm!arm_halfword_transfer(twin, spec)
           [] spec.kind = "swap"   -> Arm!arm_swap(twin, spec)
           [] spec.kind = "block"  -> Arm!arm_block_transfer(twin, spec)

ExpandStep ==
  /\ part = "expand" /\ todo # <<>>
  /\ twin' = RunArm(Head(todo)) /\ todo' = Tail(todo)
  /\ UNCHANGED <<part, cpu, spec>>

(* The order of things inside one transfer instruction: what pre- and      *)
(* post-indexing, SWP and LDM/STM leave in registers and memory is what    *)
(* their loads, stores and base updates leave one by one, with the base in *)
(* the list, an empty list, R15 and unaligned addresses.                   *)
TransfersDecompose ==
  part = "expand" /\ todo = <<>> =>
    /\ \A i \in DOMAIN cpu.r \ {2} : cpu.r[i] = twin.r[i]
    /\ cpu.mem = twin.mem /\ cpu.flush = twin.flush

-----------------------------------------------------------------------------
(* Calls.  Functions of both instruction sets call each other, keep R4 and *)
(* the link on the stack before they use R4 or call on, and return.  spec: *)
(* the kind of stack, the callers waiting, and a BL of which one half ran. *)
Here(x) == x.r[PC] - 2 * ArmFn!InstrSize(x)     \* the instruction that executes next
NoHalf  == [from |-> 0, offset |-> -1]
Stack   == 160..195
Frame(ret, entry) ==
  [ret |-> ret % 256, entry |-> entry % 256, t |-> cpu.t, sp |-> cpu.r[R13], kept |-> cpu.r[4], saved |-> FALSE]
Frames  == spec.frames                                 \* the newest first
InCall  == Frames # <<>>
Caller  == Head(Frames)
Ready   == part = "calls" /\ spec.half = NoHalf
CanCall == Ready /\ Len(Frames) < MaxFrames /\ spec.calls < MaxCalls /\ (InCall => Caller.saved)

CallsInit ==
  /\ part = "calls"
  /\ \E t \in BOOLEAN, style \in {"FD", "ED", "FA", "EA"} :
       /\ cpu = [Machine([i \in {0, 4, R13, R14, PC} |->
                 CASE i = R13 -> 176 [] i = PC -> (IF t THEN 68 ELSE 72) [] OTHER -> 1],
                 FALSE, FALSE, FALSE, FALSE) EXCEPT !.t = t, !.mem = [a \in Stack |-> 0]]
       /\ spec = [style |-> style, frames |-> <<>>, half |-> NoHalf, calls |-> 0]
  /\ twin = NoMachine /\ todo = <<>>

Run(x) == cpu' = ArmFn!cpu_step(x) /\ UNCHANGED <<part, twin, todo>>
Called(ret, entry) ==
  spec' = [spec EXCEPT !.frames = <<Frame(ret, entry)>> \o @, !.half = NoHalf,
                       !.calls = @ + 1]
FromField(x, bits) == IF x >= 2^(bits - 1) THEN x - 2^bits ELSE x
Leave == spec' = [spec EXCEPT !.frames = Tail(@)]

BlFirst(hi) ==
  /\ CanCall /\ cpu.t
  /\ Run(ThumbFn!thumb_long_branch_link(cpu, [h_bit |-> FALSE, offset |-> hi]))
  /\ spec' = [spec EXCEPT !.half = [from |-> Here(cpu), offset |-> hi]]
BlSecond(lo) ==
  /\ part = "calls" /\ spec.half # NoHalf
  /\ Run(ThumbFn!thumb_long_branch_link(cpu, [h_bit |-> TRUE, offset |-> lo]))
  /\ Called(Here(cpu) + 2, spec.half.from + 4 + 2 * FromField(8 * spec.half.offset + lo, 6))
Bl(offset) ==
  /\ CanCall /\ ~cpu.t
  /\ Run(ArmFn!arm_branch(cpu, [link |-> TRUE, offset |-> offset]))
  /\ Called(Here(cpu) + 4, Here(cpu) + 8 + 4 * FromField(offset, 6))
(* MOV LR, PC and BX R0: how ARM code calls a Thumb function. *)
CallByBx(target) ==
  /\ CanCall /\ ~cpu.t
  /\ LET linked == ArmFn!cpu_step(ArmFn!arm_data_processing(
                     [cpu EXCEPT !.r[0] = target], Dp("MOV", FALSE, R14, R14, RegOp(PC))))
     IN  Run(ArmFn!arm_bx(linked, [rm |-> 0]))
  /\ Called(Here(cpu) + 8, target - 1)

(* A full stack points at its last word, a descending one grows down.      *)
Save ==
  /\ Ready /\ InCall /\ ~Caller.saved
  /\ \/ /\ cpu.t /\ spec.style = "FD"
        /\ Run(ThumbFn!thumb_push_pop(cpu, [load |-> FALSE, r_bit |-> TRUE, rlist |-> {4}]))
     \/ /\ ~cpu.t
        /\ Run(ArmFn!arm_block_transfer(cpu, Block(FALSE, spec.style \in {"FD", "FA"},
                                            spec.style \in {"FA", "EA"}, R13, {4, R14})))
  /\ spec' = [spec EXCEPT !.frames[1].saved = TRUE]

(* The function uses R4 once it is saved. *)
UseR4(x) ==
  /\ Ready /\ InCall /\ Caller.saved /\ cpu.r[4] # x
  /\ Run(IF cpu.t THEN ThumbFn!thumb_mov_cmp_add_sub_imm(cpu, [op |-> "MOV", rd |-> 4, imm8 |-> x])
         ELSE ArmFn!arm_data_processing(cpu, Dp("MOV", FALSE, 4, 4, ImmOp(x))))
  /\ UNCHANGED spec

(* A branch before the first call, conditional or not. *)
Jump(offset) ==
  /\ Ready /\ spec.calls = 0 /\ Here(cpu) = 64
  /\ \/ cpu.t /\ Run(ThumbFn!thumb_unconditional_branch(cpu, [offset |-> offset]))
     \/ cpu.t /\ \E c \in {"EQ", "NE"} :
                Run(ThumbFn!thumb_cond_branch(cpu, [cond |-> c, offset |-> offset % 4]))
     \/ ~cpu.t /\ Run(ArmFn!arm_branch(cpu, [link |-> FALSE, offset |-> offset]))
  /\ UNCHANGED spec

ReturnSaved ==
  /\ Ready /\ InCall /\ Caller.saved /\ Caller.t = cpu.t
  /\ Run(IF cpu.t THEN ThumbFn!thumb_push_pop(cpu, [load |-> TRUE, r_bit |-> TRUE, rlist |-> {4}])
         ELSE ArmFn!arm_block_transfer(cpu, Block(TRUE, spec.style \in {"ED", "EA"},
                                          spec.style \in {"FD", "ED"}, R13, {4, PC})))
  /\ Leave
(* Back to the other instruction set: POP {R4}, POP {R0}, BX R0. *)
ReturnByBx ==
  /\ Ready /\ InCall /\ Caller.saved /\ cpu.t /\ spec.style = "FD"
  /\ LET pop(x, r) == ArmFn!cpu_step(ThumbFn!thumb_push_pop(x,
                        [load |-> TRUE, r_bit |-> FALSE, rlist |-> {r}]))
     IN  Run(ThumbFn!thumb_hi_reg_bx(pop(pop(cpu, 4), 0), [op |-> "BX", rs |-> 0, rd |-> 0]))
  /\ Leave
ReturnLeaf ==
  /\ Ready /\ InCall /\ ~Caller.saved
  /\ Run(IF cpu.t THEN ThumbFn!thumb_hi_reg_bx(cpu, [op |-> "BX", rs |-> R14, rd |-> 0])
         ELSE ArmFn!arm_data_processing(cpu, Dp("MOV", FALSE, PC, PC, RegOp(R14))))
  /\ Leave

CallsStep ==
  \/ \E o \in {0, 7} : BlFirst(o)
  \/ \E o \in {1, 6} : BlSecond(o)
  \/ \E o \in {3, 61} : Bl(o)
  \/ CallByBx(101)
  \/ Save \/ UseR4(2) \/ Jump(5)
  \/ ReturnSaved \/ ReturnByBx \/ ReturnLeaf

(* Calls return: a BL arrives at the function its offset names, and a      *)
(* return, by POP or LDM into PC, BX or MOV, through nested calls of both  *)
(* instruction sets, continues after the call in the caller's instruction  *)
(* set with the caller's stack pointer and R4.                             *)
CallsReturn ==
  [][part = "calls" =>
       /\ Len(spec'.frames) < Len(Frames) =>
            /\ Here(cpu') % 256 = Caller.ret /\ cpu'.t = Caller.t
            /\ cpu'.r[R13] = Caller.sp /\ cpu'.r[4] = Caller.kept
       /\ Len(spec'.frames) > Len(Frames) => Here(cpu') % 256 = Head(spec'.frames).entry
    ]_ivars

-----------------------------------------------------------------------------
(* Decoding.  spec: one instruction word.  Every bit the Thumb patterns    *)
(* look at is free; of the ARM ones, the fields that are compared as a     *)
(* whole are all zeros or all ones.                                        *)
ThumbWords == SUBSET (8..15)
ArmWords   == {a \cup b \cup c \cup d \cup e \cup f :
                 a \in SUBSET (20..27), b \in {{}, 16..19}, c \in {{}, 12..15},
                 d \in {{}, 8..11}, e \in SUBSET (4..7), f \in {{}, 0..3}}

DecodeInit ==
  /\ part = "decode"
  /\ spec \in [thumb : {TRUE}, bits : ThumbWords] \cup [thumb : {FALSE}, bits : ArmWords]
  /\ cpu = NoMachine /\ twin = NoMachine /\ todo = <<>>

Patterns == IF spec.thumb THEN Thumb!ThumbPatterns ELSE Arm!ArmPatterns
Fit(k)   == Thumb!Fits(spec.bits, Patterns[k])
Decoded  == CHOOSE k \in DOMAIN Patterns : Fit(k) /\ \A j \in 1 .. k - 1 : ~Fit(j)

(* "More specific bit patterns must be checked before less specific ones   *)
(* to avoid mis-decoding" (arm_instr.c): whenever a later pattern of       *)
(* arm_execute or thumb_execute fits as well, it is a more general one,    *)
(* so no format takes instructions of another.                             *)
MostSpecificFirst ==
  part = "decode" =>
    \A k \in DOMAIN Patterns :
      k > Decoded /\ Fit(k) => Patterns[k].mask \subseteq Patterns[Decoded].mask
                               /\ Patterns[k].mask # Patterns[Decoded].mask

-----------------------------------------------------------------------------
IInit == WideInit \/ ShiftInit \/ TwinsInit \/ MemoryInit \/ ExpandInit \/ CallsInit \/ DecodeInit
INext == WideStep \/ ShiftStep \/ TwinsStep \/ MemoryStep \/ ExpandStep \/ CallsStep
ISpec == IInit /\ [][INext]_ivars
=============================================================================
