-------------------------------- MODULE Words -------------------------------
(***************************************************************************)
(* Registers of W bits and what the instructions of both sets have in      *)
(* common.  A machine m is a record: r (the registers in use), the flags   *)
(* n z c v, t (CPSR.T), flush (cpu_flush_pipeline was called) and mem, the *)
(* bytes of the memory.  The code has W = 32; a word has four bytes.       *)
(***************************************************************************)
EXTENDS Integers, FiniteSets

CONSTANTS W,            \* bits of a word
          AmountBits    \* low bits of a register that make a shift amount (8)

Word == 0 .. 2^W - 1
SP == 13
LR == 14
PC == 15

Wrap(x)      == x % 2^W
BIT(x, i)    == (x \div 2^i) % 2 = 1
Signed(x)    == IF BIT(x, W - 1) THEN x - 2^W ELSE x
(* The value of a k-bit field read as a signed number, in a word.          *)
Extend(x, k) == Wrap(IF BIT(x, k - 1) THEN x - 2^k ELSE x)
Aligned(x, n) == x - (x % n)

(* The word whose ones are the bits in s.                                  *)
FromBits(s) ==
  LET low[n \in 0..W] == IF n = 0 THEN 0
                         ELSE low[n - 1] + (IF n - 1 \in s THEN 2^(n - 1) ELSE 0)
  IN  low[W]
And(a, b) == FromBits({i \in 0 .. W - 1 : BIT(a, i) /\ BIT(b, i)})
Or(a, b)  == FromBits({i \in 0 .. W - 1 : BIT(a, i) \/ BIT(b, i)})
Xor(a, b) == FromBits({i \in 0 .. W - 1 : BIT(a, i) # BIT(b, i)})
Not(a)    == 2^W - 1 - a

(* (x >> n) | (x << (W - n)) *)
RotateRight(x, n) == (x \div 2^n) + Wrap(x * 2^(W - n))

-----------------------------------------------------------------------------
(* Memory, as bus_read8 .. bus_write32 give plain RAM to the processor.    *)
ByteBits == W \div 4
ByteOf(x, k) == (x \div 2^(k * ByteBits)) % 2^ByteBits

bus_read8(mem, a)  == mem[a]
bus_read16(mem, a) == LET at(k) == mem[Aligned(a, 2) + k] * 2^(k * ByteBits)
                      IN  at(0) + at(1)
bus_read32(mem, a) == LET at(k) == mem[Aligned(a, 4) + k] * 2^(k * ByteBits)
                      IN  at(0) + at(1) + at(2) + at(3)

bus_write8(mem, a, x)  == [mem EXCEPT ![a] = ByteOf(x, 0)]
bus_write16(mem, a, x) == [b \in DOMAIN mem |-> IF b - Aligned(a, 2) \in 0..1
                                                THEN ByteOf(x, b - Aligned(a, 2)) ELSE mem[b]]
bus_write32(mem, a, x) == [b \in DOMAIN mem |-> IF b - Aligned(a, 4) \in 0..3
                                                THEN ByteOf(x, b - Aligned(a, 4)) ELSE mem[b]]

(* The registers of a list in ascending order lie in consecutive words:    *)
(* the address of register i, and memory after storing val(i) for each.    *)
SlotOf(list, i) == Cardinality({j \in list : j < i})
StoreList(mem, list, addr, val(_)) ==
  [b \in DOMAIN mem |->
     LET k == Wrap(b - Aligned(addr, 4)) IN
     IF k < 4 * Cardinality(list)
     THEN ByteOf(val(CHOOSE i \in list : SlotOf(list, i) = k \div 4), k % 4)
     ELSE mem[b]]
LoadList(mem, list, addr) == [i \in list |-> bus_read32(mem, Wrap(addr + 4 * SlotOf(list, i)))]

-----------------------------------------------------------------------------
(* cpu_condition_passed *)
cpu_condition_passed(m, cond) ==
  CASE cond = "EQ" -> m.z            [] cond = "NE" -> ~m.z
    [] cond = "CS" -> m.c            [] cond = "CC" -> ~m.c
    [] cond = "MI" -> m.n            [] cond = "PL" -> ~m.n
    [] cond = "VS" -> m.v            [] cond = "VC" -> ~m.v
    [] cond = "HI" -> m.c /\ ~m.z    [] cond = "LS" -> ~m.c \/ m.z
    [] cond = "GE" -> m.n = m.v      [] cond = "LT" -> m.n # m.v
    [] cond = "GT" -> ~m.z /\ (m.n = m.v)
    [] cond = "LE" -> m.z \/ (m.n # m.v)
    [] cond \in {"AL", "NV"} -> TRUE

(* cpu_step: after an instruction that flushed, the pipeline is filled     *)
(* again from the new address; otherwise it moves on by one.               *)
InstrSize(m) == IF m.t THEN 2 ELSE 4
cpu_step(m) == [m EXCEPT !.r[PC] = Wrap(@ + IF m.flush THEN 2 * InstrSize(m) ELSE InstrSize(m)),
                         !.flush = FALSE]

-----------------------------------------------------------------------------
(* Decoding.  An instruction is the set of its one bits; a pattern fixes   *)
(* the bits of a mask.  The first pattern that fits names the handler.     *)
Field(hi, lo) == lo .. hi
Pattern(handler, mask, ones) == [handler |-> handler, mask |-> mask, ones |-> ones]
Fits(instr, p) == instr \cap p.mask = p.ones
=============================================================================
