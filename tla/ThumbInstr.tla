------------------------------ MODULE ThumbInstr ----------------------------
(***************************************************************************)
(* The Thumb instructions of cpu/thumb_instr.c, one operator per format,   *)
(* with the copies of the flag helpers and of the shifter that the file    *)
(* keeps for itself.  SWI is in Cpu.  Cycle counts are left out.           *)
(***************************************************************************)
EXTENDS Words

CONSTANT LinkBits     \* bits of the offset in B and in each half of BL (11)

set_nz_flags(m, x) == [m EXCEPT !.n = BIT(x, W - 1), !.z = (x = 0)]
set_cv(m, c, v)    == [m EXCEPT !.c = c, !.v = v]
(* The top bit of (a ^ x) & (b ^ x) and of (a ^ b) & (a ^ x).              *)
add_overflow(a, b, x) == BIT(a, W - 1) # BIT(x, W - 1) /\ BIT(b, W - 1) # BIT(x, W - 1)
sub_overflow(a, b, x) == BIT(a, W - 1) # BIT(b, W - 1) /\ BIT(a, W - 1) # BIT(x, W - 1)

(* Shift by a register: 0 changes nothing, the width and more are allowed. *)
barrel_shift_reg(value, type, amount, carry) ==
  LET sign == BIT(value, W - 1)
      n    == amount % W
  IN  CASE amount = 0 -> [v |-> value, c |-> carry]
        [] amount # 0 /\ type = "LSL" ->
             [v |-> Wrap(value * 2^amount), c |-> amount <= W /\ BIT(value, W - amount)]
        [] amount # 0 /\ type = "LSR" ->
             [v |-> value \div 2^amount, c |-> amount <= W /\ BIT(value, amount - 1)]
        [] amount # 0 /\ type = "ASR" ->
             [v |-> Wrap(Signed(value) \div 2^amount),
              c |-> IF amount < W THEN BIT(value, amount - 1) ELSE sign]
        [] amount # 0 /\ type = "ROR" ->
             IF n = 0 THEN [v |-> value, c |-> sign]
             ELSE [v |-> RotateRight(value, n), c |-> BIT(value, n - 1)]

(* a + b + carry and a - b - not carry with all four flags, into rd or     *)
(* nowhere.                                                                *)
NoReg == 16
Put(m, rd, x) == IF rd = NoReg THEN m ELSE [m EXCEPT !.r[rd] = x]
AddFlags(m, rd, a, b, carry) == LET s == a + b + carry  x == Wrap(s) IN
  Put(set_cv(set_nz_flags(m, x), s >= 2^W, add_overflow(a, b, x)), rd, x)
SubFlags(m, rd, a, b, carry) == LET s == a + Not(b) + carry  x == Wrap(s) IN
  Put(set_cv(set_nz_flags(m, x), s >= 2^W, sub_overflow(a, b, x)), rd, x)
LogicFlags(m, rd, x) == Put(set_nz_flags(m, x), rd, x)
ShiftFlags(m, rd, y) == set_cv(LogicFlags(m, rd, y.v), y.c, m.v)

-----------------------------------------------------------------------------
(* Format 1: LSL, LSR, ASR Rd, Rs, #offset5; 0 encodes the width but for LSL. *)
thumb_move_shifted(m, i) ==
  LET value == m.r[i.rs]
      n     == IF i.offset5 = 0 THEN W ELSE i.offset5
      sign  == BIT(value, W - 1)
  IN  ShiftFlags(m, i.rd,
        CASE i.op = "LSL" ->
               IF i.offset5 = 0 THEN [v |-> value, c |-> m.c]
               ELSE [v |-> Wrap(value * 2^n), c |-> BIT(value, W - n)]
          [] i.op = "LSR" -> [v |-> value \div 2^n, c |-> BIT(value, n - 1)]
          [] i.op = "ASR" -> [v |-> Wrap(Signed(value) \div 2^n), c |-> BIT(value, n - 1)])

(* Format 2: ADD, SUB Rd, Rs, Rn or #imm3. *)
thumb_add_subtract(m, i) ==
  LET operand2 == IF i.is_imm THEN i.arg ELSE m.r[i.arg]
  IN  IF i.op = "SUB" THEN SubFlags(m, i.rd, m.r[i.rs], operand2, 1)
      ELSE AddFlags(m, i.rd, m.r[i.rs], operand2, 0)

(* Format 3: MOV, CMP, ADD, SUB Rd, #imm8. *)
thumb_mov_cmp_add_sub_imm(m, i) ==
  CASE i.op = "MOV" -> LogicFlags(m, i.rd, i.imm8)
    [] i.op = "CMP" -> SubFlags(m, NoReg, m.r[i.rd], i.imm8, 1)
    [] i.op = "ADD" -> AddFlags(m, i.rd, m.r[i.rd], i.imm8, 0)
    [] i.op = "SUB" -> SubFlags(m, i.rd, m.r[i.rd], i.imm8, 1)

(* Format 4: the sixteen ALU operations.  MUL clears the carry. *)
ShiftOps == {"LSL", "LSR", "ASR", "ROR"}
AluOps   == ShiftOps \cup {"AND", "EOR", "ADC", "SBC", "TST", "NEG", "CMP", "CMN",
                           "ORR", "MUL", "BIC", "MVN"}
thumb_alu(m, i) ==
  LET a == m.r[i.rd]
      b == m.r[i.rs]
      old_c == IF m.c THEN 1 ELSE 0
  IN  CASE i.op \in ShiftOps ->
             ShiftFlags(m, i.rd, barrel_shift_reg(a, i.op, b % 2^AmountBits, m.c))
        [] i.op = "AND" -> LogicFlags(m, i.rd, And(a, b))
        [] i.op = "EOR" -> LogicFlags(m, i.rd, Xor(a, b))
        [] i.op = "ADC" -> AddFlags(m, i.rd, a, b, old_c)
        [] i.op = "SBC" -> SubFlags(m, i.rd, a, b, old_c)
        [] i.op = "TST" -> LogicFlags(m, NoReg, And(a, b))
        [] i.op = "NEG" -> SubFlags(m, i.rd, 0, b, 1)
        [] i.op = "CMP" -> SubFlags(m, NoReg, a, b, 1)
        [] i.op = "CMN" -> AddFlags(m, NoReg, a, b, 0)
        [] i.op = "ORR" -> LogicFlags(m, i.rd, Or(a, b))
        [] i.op = "MUL" -> [LogicFlags(m, i.rd, Wrap(a * b)) EXCEPT !.c = FALSE]
        [] i.op = "BIC" -> LogicFlags(m, i.rd, And(a, Not(b)))
        [] i.op = "MVN" -> LogicFlags(m, i.rd, Not(b))

(* Format 5: ADD, CMP, MOV on any register, BX.  Only CMP sets flags. *)
thumb_hi_reg_bx(m, i) ==
  LET b == m.r[i.rs]
      into(x) == IF i.rd = PC THEN [m EXCEPT !.r[PC] = Aligned(x, 2), !.flush = TRUE]
                 ELSE [m EXCEPT !.r[i.rd] = x]
  IN  CASE i.op = "ADD" -> into(Wrap(m.r[i.rd] + b))
        [] i.op = "CMP" -> SubFlags(m, NoReg, m.r[i.rd], b, 1)
        [] i.op = "MOV" -> into(b)
        [] i.op = "BX"  -> [m EXCEPT !.t = BIT(b, 0), !.flush = TRUE,
                                     !.r[PC] = IF BIT(b, 0) THEN Aligned(b, 2) ELSE Aligned(b, 4)]

-----------------------------------------------------------------------------
(* Loads and stores.                                                       *)
LoadWord(mem, addr) ==
  IF addr % 4 = 0 THEN bus_read32(mem, addr)
  ELSE RotateRight(bus_read32(mem, addr), (addr % 4) * ByteBits)
LoadHalf(mem, addr) ==
  IF addr % 2 = 1 THEN RotateRight(bus_read16(mem, addr), ByteBits) ELSE bus_read16(mem, addr)

(* The word PC points into: bit 1 cleared. *)
PcWord(m) == m.r[PC] - (IF BIT(m.r[PC], 1) THEN 2 ELSE 0)

(* Format 6: LDR Rd, [PC, #imm8 * 4]. *)
thumb_pc_relative_load(m, i) ==
  [m EXCEPT !.r[i.rd] = bus_read32(m.mem, Wrap(PcWord(m) + 4 * i.imm8))]

(* Formats 7, 9 and 11 share the transfer of a word or byte.               *)
WordOrByte(m, i, addr) ==
  CASE i.load /\ i.byte   -> [m EXCEPT !.r[i.rd] = bus_read8(m.mem, addr)]
    [] i.load /\ ~i.byte  -> [m EXCEPT !.r[i.rd] = LoadWord(m.mem, addr)]
    [] ~i.load /\ i.byte  -> [m EXCEPT !.mem = bus_write8(@, addr, m.r[i.rd])]
    [] ~i.load /\ ~i.byte -> [m EXCEPT !.mem = bus_write32(@, addr, m.r[i.rd])]

thumb_load_store_reg(m, i) == WordOrByte(m, i, Wrap(m.r[i.rb] + m.r[i.ro]))
thumb_load_store_imm(m, i) ==
  WordOrByte(m, i, Wrap(m.r[i.rb] + IF i.byte THEN i.offset5 ELSE 4 * i.offset5))
thumb_sp_relative_load_store(m, i) ==
  WordOrByte(m, [load |-> i.load, byte |-> FALSE, rd |-> i.rd], Wrap(m.r[SP] + 4 * i.imm8))

\* Mutant: a signed halfword at an odd address loads the halfword.
LoadSignExtIgnoresOdd(m, i) ==
  LET addr == Wrap(m.r[i.rb] + m.r[i.ro]) IN
  CASE i.op = "STRH" -> [m EXCEPT !.mem = bus_write16(@, addr, m.r[i.rd])]
    [] i.op = "LDRH" -> [m EXCEPT !.r[i.rd] = LoadHalf(m.mem, addr)]
    [] i.op = "LDSB" -> [m EXCEPT !.r[i.rd] = Extend(bus_read8(m.mem, addr), ByteBits)]
    [] i.op = "LDSH" -> [m EXCEPT !.r[i.rd] = Extend(bus_read16(m.mem, addr), 2 * ByteBits)]

(* Format 8: STRH, LDRH, LDSB, LDSH Rd, [Rb, Ro]. *)
thumb_load_store_sign_ext(m, i) ==
  LET addr == Wrap(m.r[i.rb] + m.r[i.ro]) IN
  CASE i.op = "STRH" -> [m EXCEPT !.mem = bus_write16(@, addr, m.r[i.rd])]
    [] i.op = "LDRH" -> [m EXCEPT !.r[i.rd] = LoadHalf(m.mem, addr)]
    [] i.op = "LDSB" -> [m EXCEPT !.r[i.rd] = Extend(bus_read8(m.mem, addr), ByteBits)]
    [] i.op = "LDSH" -> [m EXCEPT !.r[i.rd] =
                           IF addr % 2 = 1 THEN Extend(bus_read8(m.mem, addr), ByteBits)
                           ELSE Extend(bus_read16(m.mem, addr), 2 * ByteBits)]

(* Format 10: LDRH, STRH Rd, [Rb, #offset5 * 2]. *)
thumb_load_store_halfword(m, i) ==
  LET addr == Wrap(m.r[i.rb] + 2 * i.offset5) IN
  IF i.load THEN [m EXCEPT !.r[i.rd] = LoadHalf(m.mem, addr)]
  ELSE [m EXCEPT !.mem = bus_write16(@, addr, m.r[i.rd])]

(* Formats 12 and 13: addresses relative to PC or SP, and the stack pointer. *)
thumb_load_address(m, i) ==
  [m EXCEPT !.r[i.rd] = Wrap((IF i.sp THEN m.r[SP] ELSE PcWord(m)) + 4 * i.imm8)]
thumb_add_sp_offset(m, i) ==
  [m EXCEPT !.r[SP] = Wrap(IF i.negative THEN @ - 4 * i.imm7 ELSE @ + 4 * i.imm7)]

-----------------------------------------------------------------------------
(* Format 14: PUSH {rlist, LR}, POP {rlist, PC}.  A popped PC stays in     *)
(* Thumb state.                                                            *)
thumb_push_pop(m, i) ==
  LET list  == IF i.r_bit THEN i.rlist \cup {IF i.load THEN PC ELSE LR} ELSE i.rlist
      bytes == 4 * Cardinality(list)
      got   == LoadList(m.mem, list, m.r[SP])
      addr  == Wrap(m.r[SP] - bytes)
  IN  IF i.load
      THEN [m EXCEPT !.r = [r \in DOMAIN m.r |->
                              CASE r = SP -> Wrap(m.r[SP] + bytes)
                                [] r # SP /\ r \notin list -> m.r[r]
                                [] r \in list /\ r = PC -> Aligned(got[r], 2)
                                [] r \in list /\ r # PC -> got[r]],
                     !.flush = @ \/ i.r_bit]
      ELSE [m EXCEPT !.r[SP] = addr, !.mem = StoreList(@, list, addr, LAMBDA r : m.r[r])]

(* Format 15: LDMIA, STMIA Rb!, {rlist}.  A loaded Rb wins over the        *)
(* written-back one; a stored Rb is the old one only if it comes first.    *)
(* An empty list transfers PC and moves Rb by 16 words.                    *)
thumb_multiple_load_store(m, i) ==
  LET addr  == m.r[i.rb]
      got   == LoadList(m.mem, i.rlist, addr)
      new_base == Wrap(addr + 4 * Cardinality(i.rlist))
      val(r) == IF r = i.rb /\ SlotOf(i.rlist, r) # 0 THEN new_base ELSE m.r[r]
  IN  CASE i.rlist = {} /\ i.load ->
             [m EXCEPT !.r = [@ EXCEPT ![PC] = Aligned(bus_read32(m.mem, addr), 2),
                                       ![i.rb] = Wrap(addr + 64)],
                       !.flush = TRUE]
        [] i.rlist = {} /\ ~i.load ->
             [m EXCEPT !.mem = bus_write32(@, addr, Wrap(m.r[PC] + 2)),
                       !.r[i.rb] = Wrap(addr + 64)]
        [] i.rlist # {} /\ i.load ->
             [m EXCEPT !.r = [r \in DOMAIN m.r |-> IF r \in i.rlist THEN got[r]
                                                  ELSE IF r = i.rb THEN new_base ELSE m.r[r]]]
        [] i.rlist # {} /\ ~i.load ->
             [m EXCEPT !.mem = StoreList(@, i.rlist, addr, val), !.r[i.rb] = new_base]

-----------------------------------------------------------------------------
(* Branches: format 16 (a byte's offset), 18, and the two halves of 19.    *)
BranchTo(m, addr) == [m EXCEPT !.r[PC] = Wrap(addr), !.flush = TRUE]

thumb_cond_branch(m, i) ==
  IF cpu_condition_passed(m, i.cond) THEN BranchTo(m, m.r[PC] + 2 * Extend(i.offset, ByteBits))
  ELSE m

thumb_unconditional_branch(m, i) == BranchTo(m, m.r[PC] + 2 * Extend(i.offset, LinkBits))

\* Mutant: the link points at the second half itself.
LongBranchLinksItself(m, i) ==
  IF ~i.h_bit
  THEN [m EXCEPT !.r[LR] = Wrap(m.r[PC] + 2^(LinkBits + 1) * Extend(i.offset, LinkBits))]
  ELSE [BranchTo(m, m.r[LR] + 2 * i.offset) EXCEPT
          !.r[LR] = Wrap(Aligned(Wrap(m.r[PC] - 4), 2) + 1)]

thumb_long_branch_link(m, i) ==
  IF ~i.h_bit
  THEN [m EXCEPT !.r[LR] = Wrap(m.r[PC] + 2^(LinkBits + 1) * Extend(i.offset, LinkBits))]
  ELSE [BranchTo(m, m.r[LR] + 2 * i.offset) EXCEPT
          !.r[LR] = Aligned(Wrap(m.r[PC] - 2), 2) + 1]

-----------------------------------------------------------------------------
\* Mutant: conditional branches are recognised before SWI.
ThumbPatternsSwiLate ==
  <<Pattern("cond_branch", Field(15, 12), {15, 14, 12}),
    Pattern("swi", Field(15, 8), Field(15, 8) \ {13}), Pattern("none", {}, {})>>

(* thumb_execute: the patterns in the order they are tried; what fits none *)
(* is reported and skipped.                                                *)
ThumbPatterns == <<
  Pattern("long_branch_link",       Field(15, 12), Field(15, 12)),
  Pattern("swi",                    Field(15, 8),  Field(15, 8) \ {13}),
  Pattern("cond_branch",            Field(15, 12), {15, 14, 12}),
  Pattern("unconditional_branch",   Field(15, 11), {15, 14, 13}),
  Pattern("push_pop",               Field(15, 9) \ {11}, {15, 13, 12, 10}),
  Pattern("add_sp_offset",          Field(15, 8),  {15, 13, 12}),
  Pattern("multiple_load_store",    Field(15, 12), {15, 14}),
  Pattern("load_address",           Field(15, 12), {15, 13}),
  Pattern("sp_relative_load_store", Field(15, 12), {15, 12}),
  Pattern("load_store_halfword",    Field(15, 12), {15}),
  Pattern("load_store_imm",         Field(15, 13), {14, 13}),
  Pattern("load_store_sign_ext",    Field(15, 12) \cup {9}, {14, 12, 9}),
  Pattern("load_store_reg",         Field(15, 12) \cup {9}, {14, 12}),
  Pattern("pc_relative_load",       Field(15, 11), {14, 11}),
  Pattern("hi_reg_bx",              Field(15, 10), {14, 10}),
  Pattern("alu",                    Field(15, 10), {14}),
  Pattern("mov_cmp_add_sub_imm",    Field(15, 13), {13}),
  Pattern("add_subtract",           Field(15, 11), {12, 11}),
  Pattern("move_shifted",           Field(15, 13), {}),
  Pattern("none",                   {}, {})>>
=============================================================================
