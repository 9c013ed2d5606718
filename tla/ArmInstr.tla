------------------------------- MODULE ArmInstr -----------------------------
(***************************************************************************)
(* The ARM instructions of cpu/arm_instr.c: each handler is an operator    *)
(* from a machine and the fields of an instruction to the machine it       *)
(* leaves.  What the handlers do with modes and SPSRs (the S bit with R15  *)
(* or in LDM/STM, MSR and MRS, SWI) is in Cpu.  Cycle counts are left out. *)
(***************************************************************************)
EXTENDS Words

Shift == {"LSL", "LSR", "ASR", "ROR"}

(* What a shift by an amount below the width gives: value and carry out.   *)
ShiftBy(value, type, n) ==
  [v |-> CASE type = "LSL" -> Wrap(value * 2^n)
           [] type = "LSR" -> value \div 2^n
           [] type = "ASR" -> Wrap(Signed(value) \div 2^n)
           [] type = "ROR" -> RotateRight(value, n),
   c |-> BIT(value, IF type = "LSL" THEN W - n ELSE n - 1)]

(* barrel_shift by a register: 0 changes nothing, the amount may reach and *)
(* exceed the width.                                                       *)
ShiftByRegister(value, type, amount, carry) ==
  LET sign == BIT(value, W - 1)
  IN  CASE amount = 0 -> [v |-> value, c |-> carry]
        [] amount # 0 /\ type = "ROR" ->
             IF amount % W = 0 THEN [v |-> value, c |-> sign] ELSE ShiftBy(value, type, amount % W)
        [] amount \in 1 .. W - 1 /\ type # "ROR" -> ShiftBy(value, type, amount)
        [] amount >= W /\ type = "LSL" -> [v |-> 0, c |-> amount = W /\ BIT(value, 0)]
        [] amount >= W /\ type = "LSR" -> [v |-> 0, c |-> amount = W /\ sign]
        [] amount >= W /\ type = "ASR" -> [v |-> IF sign THEN 2^W - 1 ELSE 0, c |-> sign]

\* Mutant: an immediate 0 shifts by nothing.
ZeroIsZero(value, type, amount, carry) == ShiftByRegister(value, type, amount, carry)

(* barrel_shift by an immediate: 0 encodes the width for LSR and ASR, and  *)
(* a rotation through the carry (RRX) for ROR.                             *)
ShiftByImmediate(value, type, amount, carry) ==
  LET sign == BIT(value, W - 1)
  IN  CASE amount # 0 -> ShiftBy(value, type, amount)
        [] amount = 0 /\ type = "LSL" -> [v |-> value, c |-> carry]
        [] amount = 0 /\ type = "LSR" -> [v |-> 0, c |-> sign]
        [] amount = 0 /\ type = "ASR" -> [v |-> IF sign THEN 2^W - 1 ELSE 0, c |-> sign]
        [] amount = 0 /\ type = "ROR" ->
             [v |-> (value \div 2) + (IF carry THEN 2^(W - 1) ELSE 0), c |-> BIT(value, 0)]

barrel_shift(value, type, amount, carry, reg_shift) ==
  IF reg_shift THEN ShiftByRegister(value, type, amount, carry)
  ELSE ShiftByImmediate(value, type, amount, carry)

(* Operand 2 is an immediate rotated right by an even amount, or Rm        *)
(* shifted by an immediate or by the low bits of Rs.  PC as Rm reads four  *)
(* more in the last form.                                                  *)
decode_dp_operand2(m, o) ==
  CASE o.kind = "imm" ->
         IF o.rotate = 0 THEN [v |-> o.imm, c |-> m.c]
         ELSE LET x == RotateRight(o.imm, o.rotate) IN [v |-> x, c |-> BIT(x, W - 1)]
    [] o.kind = "reg" -> barrel_shift(m.r[o.rm], o.type, o.amount, m.c, FALSE)
    [] o.kind = "shift" ->
         barrel_shift(IF o.rm = PC THEN Wrap(m.r[PC] + 4) ELSE m.r[o.rm], o.type,
                      m.r[o.rs] % 2^AmountBits, m.c, TRUE)

-----------------------------------------------------------------------------
(* Flags.                                                                  *)
set_nz_flags(m, x) == [m EXCEPT !.n = BIT(x, W - 1), !.z = (x = 0)]
set_cv(m, c, v)    == [m EXCEPT !.c = c, !.v = v]

(* The top bit of (a ^ x) & (b ^ x) and of (a ^ b) & (a ^ x).              *)
add_overflow(a, b, x) == BIT(a, W - 1) # BIT(x, W - 1) /\ BIT(b, W - 1) # BIT(x, W - 1)
sub_overflow(a, b, x) == BIT(a, W - 1) # BIT(b, W - 1) /\ BIT(a, W - 1) # BIT(x, W - 1)

(* a + b + carry and a - b - not carry, with the carry and overflow out.   *)
Add(a, b, carry) == LET s == a + b + carry IN
  [x |-> Wrap(s), c |-> s >= 2^W, v |-> add_overflow(a, b, Wrap(s))]
Sub(a, b, carry) == LET s == a + Not(b) + carry IN
  [x |-> Wrap(s), c |-> s >= 2^W, v |-> sub_overflow(a, b, Wrap(s))]

-----------------------------------------------------------------------------
(* Data processing.                                                        *)
TestOps    == {"TST", "TEQ", "CMP", "CMN"}
LogicalOps == {"AND", "EOR", "TST", "TEQ", "ORR", "MOV", "BIC", "MVN"}

Logical(op, a, b) == CASE op \in {"AND", "TST"} -> And(a, b)
                       [] op \in {"EOR", "TEQ"} -> Xor(a, b)
                       [] op = "ORR" -> Or(a, b)
                       [] op = "MOV" -> b
                       [] op = "BIC" -> And(a, Not(b))
                       [] op = "MVN" -> Not(b)

\* Mutant: reverse subtraction with carry borrows once too often.
ArithmeticRscForgetsCarry(op, a, b, old_c) ==
  CASE op \in {"SUB", "CMP"} -> Sub(a, b, 1)  [] op = "RSB" -> Sub(b, a, 1)
    [] op \in {"ADD", "CMN"} -> Add(a, b, 0)  [] op = "ADC" -> Add(a, b, old_c)
    [] op = "SBC" -> Sub(a, b, old_c)         [] op = "RSC" -> Sub(b, a, 0)

Arithmetic(op, a, b, old_c) == CASE op \in {"SUB", "CMP"} -> Sub(a, b, 1)
                                 [] op = "RSB" -> Sub(b, a, 1)
                                 [] op \in {"ADD", "CMN"} -> Add(a, b, 0)
                                 [] op = "ADC" -> Add(a, b, old_c)
                                 [] op = "SBC" -> Sub(a, b, old_c)
                                 [] op = "RSC" -> Sub(b, a, old_c)

(* The result goes to Rd unless the opcode only tests; a result in PC is   *)
(* aligned and flushes the pipeline.                                       *)
arm_data_processing(m, i) ==
  LET op2   == decode_dp_operand2(m, i.op2)
      rn    == IF i.rn = PC /\ i.op2.kind = "shift" THEN Wrap(m.r[PC] + 4) ELSE m.r[i.rn]
      log   == i.opcode \in LogicalOps
      sum   == Arithmetic(i.opcode, rn, op2.v, IF m.c THEN 1 ELSE 0)
      x     == IF log THEN Logical(i.opcode, rn, op2.v) ELSE sum.x
      flags == IF ~i.s /\ i.opcode \notin TestOps THEN m
               ELSE IF log THEN set_cv(set_nz_flags(m, x), op2.c, m.v)
               ELSE set_cv(set_nz_flags(m, x), sum.c, sum.v)
  IN  CASE i.opcode \in TestOps -> flags
        [] i.opcode \notin TestOps /\ i.rd = PC ->
             [flags EXCEPT !.r[PC] = Aligned(x, 4), !.flush = TRUE]
        [] i.opcode \notin TestOps /\ i.rd # PC -> [flags EXCEPT !.r[i.rd] = x]

(* MUL, MLA: N and Z only. *)
arm_multiply(m, i) ==
  LET x == Wrap(m.r[i.rm] * m.r[i.rs] + IF i.accumulate THEN m.r[i.rn] ELSE 0)
      done == [m EXCEPT !.r[i.rd] = x]
  IN  IF i.s THEN set_nz_flags(done, x) ELSE done

(* UMULL, UMLAL, SMULL, SMLAL: a product of two words. *)
arm_multiply_long(m, i) ==
  LET a == IF i.signed THEN Signed(m.r[i.rm]) ELSE m.r[i.rm]
      b == IF i.signed THEN Signed(m.r[i.rs]) ELSE m.r[i.rs]
      x == (a * b + IF i.accumulate THEN m.r[i.hi] * 2^W + m.r[i.lo] ELSE 0) % 4^W
      done == [m EXCEPT !.r = [@ EXCEPT ![i.lo] = x % 2^W, ![i.hi] = x \div 2^W]]
  IN  IF i.s THEN [done EXCEPT !.n = BIT(x, 2 * W - 1), !.z = (x = 0)] ELSE done

-----------------------------------------------------------------------------
(* Loads and stores.                                                       *)

(* A word load from an unaligned address rotates the word.                 *)
LoadWord(mem, addr) ==
  LET word == bus_read32(mem, addr)
  IN  IF addr % 4 = 0 THEN word ELSE RotateRight(word, (addr % 4) * ByteBits)

(* What R15 stores: one instruction further than it reads.                 *)
StoredReg(m, rd) == IF rd = PC THEN Wrap(m.r[PC] + 4) ELSE m.r[rd]

(* A load into PC aligns it and flushes the pipeline.                      *)
LoadReg(m, rd, x) == IF rd = PC THEN [m EXCEPT !.r[PC] = Aligned(x, 4), !.flush = TRUE]
                     ELSE [m EXCEPT !.r[rd] = x]

(* Pre-indexing transfers at the new address and writes it back on         *)
(* request; post-indexing transfers at the base and always writes back,    *)
(* over whatever was loaded.                                               *)
Indexed(m, i, offset)  == Wrap(IF i.up THEN m.r[i.rn] + offset ELSE m.r[i.rn] - offset)
WriteBack(m, i, addr)  == IF ~i.pre \/ i.writeback THEN [m EXCEPT !.r[i.rn] = addr] ELSE m

arm_single_transfer(m, i) ==
  LET offset == IF i.op2.kind = "imm" THEN i.op2.imm
                ELSE barrel_shift(m.r[i.op2.rm], i.op2.type, i.op2.amount, m.c, FALSE).v
      moved == Indexed(m, i, offset)
      addr  == IF i.pre THEN moved ELSE m.r[i.rn]
      done  == CASE i.load /\ i.byte   -> LoadReg(m, i.rd, bus_read8(m.mem, addr))
                 [] i.load /\ ~i.byte  -> LoadReg(m, i.rd, LoadWord(m.mem, addr))
                 [] ~i.load /\ i.byte  -> [m EXCEPT !.mem = bus_write8(@, addr, StoredReg(m, i.rd))]
                 [] ~i.load /\ ~i.byte -> [m EXCEPT !.mem = bus_write32(@, addr, StoredReg(m, i.rd))]
  IN  WriteBack(done, i, moved)

(* LDRH rotates from an odd address, LDRSH loads one signed byte there.    *)
HalfwordLoad(mem, addr, sh) ==
  CASE sh = "H" -> IF addr % 2 = 1 THEN RotateRight(bus_read16(mem, addr), ByteBits)
                   ELSE bus_read16(mem, addr)
    [] sh = "SH" /\ addr % 2 = 0 -> Extend(bus_read16(mem, addr), 2 * ByteBits)
    [] sh = "SB" \/ (sh = "SH" /\ addr % 2 = 1) -> Extend(bus_read8(mem, addr), ByteBits)

arm_halfword_transfer(m, i) ==
  LET moved == Indexed(m, i, IF i.op2.kind = "imm" THEN i.op2.imm ELSE m.r[i.op2.rm])
      addr  == IF i.pre THEN moved ELSE m.r[i.rn]
      done  == IF i.load THEN LoadReg(m, i.rd, HalfwordLoad(m.mem, addr, i.sh))
               ELSE [m EXCEPT !.mem = bus_write16(@, addr, StoredReg(m, i.rd))]
  IN  WriteBack(done, i, moved)

(* SWP, SWPB *)
arm_swap(m, i) ==
  LET addr == m.r[i.rn] IN
  IF i.byte THEN [m EXCEPT !.mem = bus_write8(@, addr, m.r[i.rm]),
                           !.r[i.rd] = bus_read8(m.mem, addr)]
  ELSE [m EXCEPT !.mem = bus_write32(@, addr, m.r[i.rm]), !.r[i.rd] = LoadWord(m.mem, addr)]

(* Where the lowest register goes: IA, IB, DA, DB.                         *)
BlockStart(base, count, pre, up) ==
  IF up THEN (IF pre THEN base + 4 ELSE base)
  ELSE base - 4 * count + (IF pre THEN 0 ELSE 4)

\* Mutant: a base that is not the first register is stored unchanged.
StoredBaseOld(m, i, list, r, new_base) ==
  IF r = PC THEN Wrap(m.r[PC] + 4) ELSE m.r[r]

(* STM stores the old base if it is the first register of the list, the    *)
(* written-back one otherwise.                                             *)
StoredInList(m, i, list, r, new_base) ==
  IF r = PC THEN Wrap(m.r[PC] + 4)
  ELSE IF r = i.rn /\ i.writeback /\ SlotOf(list, r) # 0 THEN new_base
  ELSE m.r[r]

(* LDM, STM.  An empty list transfers R15 and moves the base by 16 words;  *)
(* a loaded base wins over the written-back one.                           *)
arm_block_transfer(m, i) ==
  LET list  == IF i.rlist = {} THEN {PC} ELSE i.rlist
      count == IF i.rlist = {} THEN 16 ELSE Cardinality(i.rlist)
      base  == m.r[i.rn]
      start == Wrap(BlockStart(base, count, i.pre, i.up))
      new_base == Wrap(IF i.up THEN base + 4 * count ELSE base - 4 * count)
      got   == LoadList(m.mem, list, start)
      regs  == [r \in DOMAIN m.r |-> IF r \notin list THEN m.r[r]
                                     ELSE IF r = PC THEN Aligned(got[r], 4) ELSE got[r]]
      done  == IF i.load THEN [m EXCEPT !.r = regs, !.flush = @ \/ PC \in list]
               ELSE [m EXCEPT !.mem = StoreList(@, list, start,
                                        LAMBDA r : StoredInList(m, i, list, r, new_base))]
  IN  IF i.writeback /\ ~(i.load /\ i.rn \in list) THEN [done EXCEPT !.r[i.rn] = new_base]
      ELSE done

-----------------------------------------------------------------------------
(* Branches.  The offset of B and BL, three bytes wide, counts words from  *)
(* PC, which is two instructions ahead; BX takes the instruction set from  *)
(* bit 0.                                                                  *)
arm_branch(m, i) ==
  [m EXCEPT !.r = [@ EXCEPT ![LR] = IF i.link THEN Wrap(m.r[PC] - 4) ELSE @,
                            ![PC] = Wrap(@ + 4 * Extend(i.offset, 3 * ByteBits))],
            !.flush = TRUE]

arm_bx(m, i) ==
  LET addr == m.r[i.rm]
  IN  [m EXCEPT !.t = BIT(addr, 0), !.flush = TRUE,
                !.r[PC] = IF BIT(addr, 0) THEN Aligned(addr, 2) ELSE Aligned(addr, 4)]

-----------------------------------------------------------------------------
(* arm_execute: the patterns in the order they are tried.  The halfword    *)
(* transfers' "bits 6:5 not 00" makes three patterns.                      *)
ArmPatterns == <<
  Pattern("swi",                 Field(27, 24), Field(27, 24)),
  Pattern("branch",              Field(27, 25), {27, 25}),
  Pattern("block_transfer",      Field(27, 25), {27}),
  Pattern("undefined",           Field(27, 25) \cup {4}, {26, 25, 4}),
  Pattern("single_transfer",     Field(27, 26), {26}),
  Pattern("bx",                  Field(27, 4), {24, 21} \cup Field(19, 8) \cup {4}),
  Pattern("swap",                (Field(27, 20) \ {22}) \cup Field(11, 4), {24, 7, 4}),
  Pattern("multiply_long",       Field(27, 23) \cup Field(7, 4), {23, 7, 4}),
  Pattern("multiply",            Field(27, 22) \cup Field(7, 4), {7, 4}),
  Pattern("halfword_transfer",   Field(27, 25) \cup Field(7, 4), {7, 5, 4}),
  Pattern("halfword_transfer",   Field(27, 25) \cup Field(7, 4), {7, 6, 4}),
  Pattern("halfword_transfer",   Field(27, 25) \cup Field(7, 4), {7, 6, 5, 4}),
  Pattern("msr",                 (Field(27, 20) \ {22}) \cup Field(15, 12), {25, 24, 21} \cup Field(15, 12)),
  Pattern("mrs",                 (Field(27, 16) \ {22}) \cup Field(11, 0), {24} \cup Field(19, 16)),
  Pattern("msr",                 (Field(27, 20) \ {22}) \cup Field(15, 4), {24, 21} \cup Field(15, 12)),
  Pattern("data_processing",     {}, {})>>
=============================================================================
