----------------------------- MODULE TwinProofs -----------------------------
(***************************************************************************)
(* Thumb code is short for ARM code: the proof that a processor running    *)
(* Thumb instructions and one running the ARM instructions they abbreviate *)
(* stay equal, one lemma for each format.  First the arithmetic, whose     *)
(* registers have any width; then loads and stores, on sixteen addresses.  *)
(***************************************************************************)
EXTENDS CpuProofs, FiniteSetTheorems, WellFoundedInduction

-----------------------------------------------------------------------------
(* What needs an induction goes by the least counterexample.               *)
LEMMA SmallestNat ==
  ASSUME NEW T, T \subseteq Nat, T # {}
  PROVE  \E x \in T : \A y \in T : x <= y
<1>. DEFINE R == {ss \in Nat \X Nat : ss[1] < ss[2]}
<1>1. R = OpToRel(<, Nat)
  BY DEF OpToRel
<1>2. IsWellFoundedOn(R, Nat)
  BY <1>1, NatLessThanWellFounded
<1>3. \A x, y \in Nat : <<y, x>> \in R <=> y < x
  OBVIOUS
<1>. HIDE DEF R
<1>4. PICK x \in T : \A y \in T : ~ (<<y, x>> \in R)
  BY <1>2, WFMin
<1>5. ASSUME NEW y \in T PROVE x <= y
  <2>1. x \in Nat /\ y \in Nat /\ ~ (<<y, x>> \in R)
    BY <1>4
  <2>2. ~(y < x)
    BY <1>3, <2>1
  <2>. QED BY <2>1, <2>2
<1>. QED BY <1>5

(* The sum of the bits in a set is a register's value.                     *)
BitIn(s, i) == IF i \in s THEN 2^i ELSE 0
LowBits(s, f, n) == IF n = 0 THEN 0 ELSE f[n - 1] + BitIn(s, n - 1)
LEMMA FromBitsInWord ==
  ASSUME NEW s
  PROVE  ArmAlu!FromBits(s) \in Values
<1>. DEFINE W == AluBits
            LowSums(f, n) == \A i \in 0..n : f[i] = LowBits(s, f, i)
            Exists(n) == \E f \in [0..n -> Nat] : LowSums(f, n)
            low == CHOOSE f : f = [n \in 0..W |-> LowBits(s, f, n)]
<1>0. W \in Nat /\ W > 0 /\ 2^0 = 1
  BY WidthAssumption
<1>1. \A i \in 0..W : 2^i \in Nat /\ 2^i > 0 /\ 2^(i + 1) = 2 * 2^i
  BY Powers
<1>2. \A i \in 0..W : BitIn(s, i) \in Nat /\ BitIn(s, i) <= 2^i
  BY <1>1 DEF BitIn
<1>3. Exists(0)
  <2>. DEFINE f == [i \in 0..0 |-> 0]
  <2>1. f \in [0..0 -> Nat] /\ LowSums(f, 0)
    BY DEF LowBits
  <2>. QED BY <2>1
<1>4. ASSUME NEW n \in 0 .. W - 1, Exists(n) PROVE Exists(n + 1)
  <2>1. PICK f \in [0..n -> Nat] : LowSums(f, n)
    BY <1>4
  <2>. DEFINE g == [i \in 0 .. n + 1 |-> IF i <= n THEN f[i] ELSE f[n] + BitIn(s, n)]
  <2>2. n \in Nat /\ n \in 0..W
    BY <1>0
  <2>3. g \in [0 .. n + 1 -> Nat]
    BY <1>2, <2>2
  <2>4. ASSUME NEW i \in 0 .. n + 1 PROVE g[i] = LowBits(s, g, i)
    <3>1. CASE i <= n
      <4>1. i \in 0..n /\ (i # 0 => i - 1 \in 0..n)
        BY <2>2, <3>1
      <4>2. f[i] = LowBits(s, f, i)
        BY <2>1, <4>1
      <4>3. g[i] = f[i] /\ (i # 0 => g[i - 1] = f[i - 1])
        BY <2>2, <3>1, <4>1
      <4>. HIDE DEF g
      <4>. QED BY <4>2, <4>3 DEF LowBits
    <3>2. CASE i = n + 1
      <4>1. i # 0 /\ i - 1 = n /\ g[n] = f[n] /\ g[i] = f[n] + BitIn(s, n)
        BY <2>2, <3>2
      <4>. HIDE DEF g
      <4>. QED BY <4>1 DEF LowBits
    <3>. QED BY <2>2, <3>1, <3>2
  <2>. HIDE DEF g
  <2>. QED BY <2>3, <2>4
<1>5. Exists(W)
  <2>. DEFINE T == {n \in 0..W : ~Exists(n)}
  <2>. HIDE DEF Exists
  <2>. SUFFICES ASSUME ~Exists(W) PROVE FALSE
    OBVIOUS
  <2>1. T \subseteq Nat /\ T # {}
    BY <1>0
  <2>2. PICK n \in T : \A m \in T : n <= m
    <3>. HIDE DEF T
    <3>. QED BY <2>1, SmallestNat
  <2>3. n \in 0..W /\ ~Exists(n) /\ n # 0
    BY <1>3
  <2>4. n - 1 \in 0 .. W - 1 /\ n - 1 \notin T /\ (n - 1) + 1 = n
    BY <1>0, <2>2, <2>3
  <2>5. Exists(n - 1)
    <3>1. n - 1 \in 0..W
      BY <1>0, <2>4
    <3>. QED BY <2>4, <3>1
  <2>. QED BY <1>4, <2>3, <2>4, <2>5
<1>6. low = [n \in 0..W |-> LowBits(s, low, n)]
  <2>1. PICK f \in [0..W -> Nat] : LowSums(f, W)
    BY <1>5
  <2>2. f = [n \in 0..W |-> LowBits(s, f, n)]
    BY <2>1
  <2>. QED BY <2>2
<1>. HIDE DEF low
<1>7. \A n \in 0..W : low[n] = LowBits(s, low, n)
  BY <1>6
<1>8. \A n \in 0..W : low[n] \in Nat /\ low[n] < 2^n
  <2>. DEFINE T == {n \in 0..W : ~(low[n] \in Nat /\ low[n] < 2^n)}
  <2>. SUFFICES ASSUME T # {} PROVE FALSE
    OBVIOUS
  <2>1. T \subseteq Nat
    BY <1>0
  <2>2. PICK n \in T : \A m \in T : n <= m
    <3>. HIDE DEF T
    <3>. QED BY <2>1, SmallestNat
  <2>3. n # 0
    <3>1. low[0] = 0
      BY <1>0, <1>7 DEF LowBits
    <3>2. low[0] \in Nat /\ low[0] < 2^0
      BY <1>0, <3>1
    <3>. QED BY <3>2
  <2>4. n - 1 \in 0..W /\ n - 1 \notin T /\ (n - 1) + 1 = n
    BY <1>0, <2>2, <2>3
  <2>5. low[n - 1] \in Nat /\ low[n - 1] < 2^(n - 1)
    BY <2>4
  <2>6. low[n] = low[n - 1] + BitIn(s, n - 1)
    BY <1>7, <2>3 DEF LowBits
  <2>7. 2^n = 2 * 2^(n - 1) /\ 2^(n - 1) \in Nat
    BY <1>1, <2>4
  <2>8. BitIn(s, n - 1) \in Nat /\ BitIn(s, n - 1) <= 2^(n - 1)
    BY <1>2, <2>4
  <2>. QED BY <2>5, <2>6, <2>7, <2>8
<1>9. ArmAlu!FromBits(s) = low[W]
  BY DEF ArmAlu!FromBits, low, LowBits, BitIn
<1>10. W \in 0..W
  BY <1>0
<1>. QED BY <1>8, <1>9, <1>10, Powers DEF Values, FullRange

(* Both instruction sets calculate with the same bits.                     *)
LEMMA SameBits ==
  ASSUME NEW a, NEW b
  PROVE  /\ ThumbAlu!And(a, b) = ArmAlu!And(a, b)
         /\ ThumbAlu!Or(a, b) = ArmAlu!Or(a, b)
         /\ ThumbAlu!Xor(a, b) = ArmAlu!Xor(a, b)
         /\ ThumbAlu!Not(a) = ArmAlu!Not(a)
         /\ ThumbAlu!Wrap(a) = ArmAlu!Wrap(a)
         /\ ThumbAlu!Signed(a) = ArmAlu!Signed(a)
         /\ ThumbAlu!BIT(a, b) = ArmAlu!BIT(a, b)
         /\ ThumbAlu!RotateRight(a, b) = ArmAlu!RotateRight(a, b)
<1>1. ThumbAlu!BIT(a, b) = ArmAlu!BIT(a, b)
  BY DEF ThumbAlu!BIT, ArmAlu!BIT
<1>2. \A i : ThumbAlu!FromBits(i) = ArmAlu!FromBits(i)
  BY DEF ThumbAlu!FromBits, ArmAlu!FromBits
<1>3. /\ ThumbAlu!And(a, b) = ArmAlu!And(a, b)
      /\ ThumbAlu!Or(a, b) = ArmAlu!Or(a, b)
      /\ ThumbAlu!Xor(a, b) = ArmAlu!Xor(a, b)
  BY <1>2, Zenon DEF ThumbAlu!And, ArmAlu!And, ThumbAlu!Or, ArmAlu!Or, ThumbAlu!Xor, ArmAlu!Xor,
     ThumbAlu!BIT, ArmAlu!BIT
<1>4. /\ ThumbAlu!Not(a) = ArmAlu!Not(a)
      /\ ThumbAlu!Wrap(a) = ArmAlu!Wrap(a)
      /\ ThumbAlu!Signed(a) = ArmAlu!Signed(a)
      /\ ThumbAlu!RotateRight(a, b) = ArmAlu!RotateRight(a, b)
  BY DEF ThumbAlu!Not, ArmAlu!Not, ThumbAlu!Wrap, ArmAlu!Wrap, ThumbAlu!Signed, ArmAlu!Signed,
         ThumbAlu!BIT, ArmAlu!BIT, ThumbAlu!RotateRight, ArmAlu!RotateRight
<1>. QED BY <1>1, <1>3, <1>4

-----------------------------------------------------------------------------
(* The twins: what each of them holds; and when its N and Z flags are      *)
(* those of a result.                                                      *)
TwinCpus == [r : [Low -> Values], n : BOOLEAN, z : BOOLEAN, c : BOOLEAN, v : BOOLEAN,
             t : BOOLEAN, flush : BOOLEAN, mem : {<<>>}]
Became(k, R, n, z, c, v) ==
  k \in TwinCpus /\ k.r = R /\ k.n = n /\ k.z = z /\ k.c = c /\ k.v = v
Flagged(k, R, x, c, v) == Became(k, R, ArmAlu!BIT(x, AluBits - 1), x = 0, c, v)
(* Two processors agree, but for a carry that is not defined.              *)
Agree(k, l, known) ==
  /\ k \in TwinCpus /\ l \in TwinCpus
  /\ k.r = l.r /\ k.n = l.n /\ k.z = l.z /\ k.v = l.v
  /\ known => k.c = l.c

(* The parts of a processor. *)
LEMMA TwinParts ==
  ASSUME NEW m \in TwinCpus
  PROVE  /\ m.r \in [Low -> Values] /\ m.n \in BOOLEAN /\ m.z \in BOOLEAN
         /\ m.c \in BOOLEAN /\ m.v \in BOOLEAN
BY DEF TwinCpus

(* The copies of the flag helpers in both files do the same; neither       *)
(* touches the registers.                                                  *)
LEMMA TwinFlags ==
  ASSUME NEW m \in TwinCpus, NEW x, NEW c \in BOOLEAN, NEW v \in BOOLEAN
  PROVE  /\ Flagged(ArmAlu!set_cv(ArmAlu!set_nz_flags(m, x), c, v), m.r, x, c, v)
         /\ Flagged(ThumbAlu!set_cv(ThumbAlu!set_nz_flags(m, x), c, v), m.r, x, c, v)
         /\ Flagged(ArmAlu!set_nz_flags(m, x), m.r, x, m.c, m.v)
         /\ Flagged(ThumbAlu!set_nz_flags(m, x), m.r, x, m.c, m.v)
<1>. DEFINE k == ArmAlu!set_nz_flags(m, x)
<1>1. Became(k, m.r, ArmAlu!BIT(x, AluBits - 1), x = 0, m.c, m.v)
  BY DEF ArmAlu!set_nz_flags, ArmAlu!BIT, TwinCpus, Became
<1>2. ThumbAlu!set_nz_flags(m, x) = k
  BY DEF ArmAlu!set_nz_flags, ThumbAlu!set_nz_flags, ArmAlu!BIT, ThumbAlu!BIT
<1>. HIDE DEF k
<1>3. Flagged(ArmAlu!set_cv(k, c, v), k.r, x, c, v)
  BY <1>1 DEF ArmAlu!set_cv, TwinCpus, Became, Flagged
<1>4. ThumbAlu!set_cv(k, c, v) = ArmAlu!set_cv(k, c, v)
  BY DEF ArmAlu!set_cv, ThumbAlu!set_cv
<1>5. k.r = m.r /\ Flagged(k, m.r, x, m.c, m.v)
  BY <1>1 DEF Became, Flagged
<1>. QED BY <1>2, <1>3, <1>4, <1>5, Zenon DEF k

(* Writing a register, or the carry, leaves the flags alone.               *)
LEMMA TwinWrite ==
  ASSUME NEW k \in TwinCpus, NEW d \in Low, NEW x \in Values, NEW y, NEW c, NEW v, NEW R,
         Flagged(k, R, y, c, v)
  PROVE  /\ Flagged([k EXCEPT !.r[d] = x], [R EXCEPT ![d] = x], y, c, v)
         /\ \A b \in BOOLEAN : Flagged([k EXCEPT !.c = b], R, y, b, v)
  BY DEF TwinCpus, Flagged, Became

(* Without flags. *)
Written(k, m, d, x) == Became(k, [m.r EXCEPT ![d] = x], m.n, m.z, m.c, m.v)
LEMMA TwinWritten ==
  ASSUME NEW m \in TwinCpus, NEW d \in Low, NEW x \in Values
  PROVE  Written([m EXCEPT !.r[d] = x], m, d, x)
  BY DEF TwinCpus, Became, Written

(* Sums and differences are values of a register.                          *)
IsSum(a) == a.x \in Values /\ a.c \in BOOLEAN /\ a.v \in BOOLEAN
LEMMA Wrapped ==
  ASSUME NEW x \in Int
  PROVE  ArmAlu!Wrap(x) \in Values
  BY Powers DEF ArmAlu!Wrap, Values, FullRange
LEMMA TwinSums ==
  ASSUME NEW a \in Values, NEW b \in Values, NEW k \in {0, 1}
  PROVE  IsSum(ArmAlu!Add(a, b, k)) /\ IsSum(ArmAlu!Sub(a, b, k))
<1>1. a + b + k \in Int
  BY Powers DEF Values
<1>2. a + ArmAlu!Not(b) + k \in Int
  BY Powers DEF Values, FullRange, ArmAlu!Not
<1>3. ArmAlu!Wrap(a + b + k) \in Values /\ ArmAlu!Wrap(a + ArmAlu!Not(b) + k) \in Values
  BY <1>1, <1>2, Wrapped
<1>. QED BY <1>3 DEF IsSum, ArmAlu!Add, ArmAlu!Sub, ArmAlu!add_overflow, ArmAlu!sub_overflow, ArmAlu!BIT

(* The arithmetic of the Thumb instructions is that of the ARM ones, and   *)
(* goes to Rd or nowhere.                                                  *)
ThumbResult(k, m, d, x, c, v) == Flagged(k, [m.r EXCEPT ![d] = x], x, c, v)
LEMMA ThumbArithmetic ==
  ASSUME NEW m \in TwinCpus, NEW a \in Values, NEW b \in Values, NEW k \in {0, 1}
  PROVE  LET s == ArmAlu!Add(a, b, k)
             t == ArmAlu!Sub(a, b, k)
         IN  /\ Flagged(ThumbAlu!AddFlags(m, ThumbAlu!NoReg, a, b, k), m.r, s.x, s.c, s.v)
             /\ Flagged(ThumbAlu!SubFlags(m, ThumbAlu!NoReg, a, b, k), m.r, t.x, t.c, t.v)
             /\ \A d \in Low : /\ ThumbResult(ThumbAlu!AddFlags(m, d, a, b, k), m, d, s.x, s.c, s.v)
                               /\ ThumbResult(ThumbAlu!SubFlags(m, d, a, b, k), m, d, t.x, t.c, t.v)
<1>. DEFINE s == ArmAlu!Add(a, b, k)
            t == ArmAlu!Sub(a, b, k)
            ks == ThumbAlu!set_cv(ThumbAlu!set_nz_flags(m, s.x), s.c, s.v)
            kt == ThumbAlu!set_cv(ThumbAlu!set_nz_flags(m, t.x), t.c, t.v)
<1>1. IsSum(s) /\ IsSum(t)
  BY TwinSums
<1>2. \A d : /\ ThumbAlu!AddFlags(m, d, a, b, k) = ThumbAlu!Put(ks, d, s.x)
             /\ ThumbAlu!SubFlags(m, d, a, b, k) = ThumbAlu!Put(kt, d, t.x)
  <2>1. /\ s.x = ThumbAlu!Wrap(a + b + k) /\ s.c = (a + b + k >= 2^AluBits)
        /\ s.v = ThumbAlu!add_overflow(a, b, ThumbAlu!Wrap(a + b + k))
    BY Zenon DEF ArmAlu!Add, ArmAlu!Wrap, ThumbAlu!Wrap, ArmAlu!add_overflow, ThumbAlu!add_overflow,
       ArmAlu!BIT, ThumbAlu!BIT
  <2>2. /\ t.x = ThumbAlu!Wrap(a + ThumbAlu!Not(b) + k)
        /\ t.c = (a + ThumbAlu!Not(b) + k >= 2^AluBits)
        /\ t.v = ThumbAlu!sub_overflow(a, b, ThumbAlu!Wrap(a + ThumbAlu!Not(b) + k))
    BY Zenon DEF ArmAlu!Sub, ArmAlu!Wrap, ThumbAlu!Wrap, ArmAlu!sub_overflow, ThumbAlu!sub_overflow,
       ArmAlu!BIT, ThumbAlu!BIT, ArmAlu!Not, ThumbAlu!Not
  <2>. HIDE DEF s, t
  <2>. QED BY <2>1, <2>2, Zenon DEF ThumbAlu!AddFlags, ThumbAlu!SubFlags
<1>. HIDE DEF s, t
<1>3. Flagged(ks, m.r, s.x, s.c, s.v) /\ Flagged(kt, m.r, t.x, t.c, t.v)
  BY <1>1, TwinFlags DEF IsSum
<1>. HIDE DEF ks, kt
<1>4. ks \in TwinCpus /\ kt \in TwinCpus
  BY <1>3 DEF Flagged, Became
<1>5. ThumbAlu!Put(ks, ThumbAlu!NoReg, s.x) = ks /\ ThumbAlu!Put(kt, ThumbAlu!NoReg, t.x) = kt
  BY DEF ThumbAlu!Put
<1>6. ASSUME NEW d \in Low
      PROVE  /\ ThumbResult(ThumbAlu!Put(ks, d, s.x), m, d, s.x, s.c, s.v)
             /\ ThumbResult(ThumbAlu!Put(kt, d, t.x), m, d, t.x, t.c, t.v)
  <2>1. d # ThumbAlu!NoReg
    BY DEF Low, ThumbAlu!NoReg
  <2>2. /\ Flagged([ks EXCEPT !.r[d] = s.x], [m.r EXCEPT ![d] = s.x], s.x, s.c, s.v)
        /\ Flagged([kt EXCEPT !.r[d] = t.x], [m.r EXCEPT ![d] = t.x], t.x, t.c, t.v)
    BY <1>1, <1>3, <1>4, TwinWrite DEF IsSum
  <2>. QED BY <2>1, <2>2 DEF ThumbAlu!Put, ThumbResult
<1>. QED BY <1>2, <1>3, <1>5, <1>6, Zenon DEF s, t

(* Logical results keep C and V, shifts bring their carry.                 *)
LEMMA ThumbLogic ==
  ASSUME NEW m \in TwinCpus, NEW x \in Values, NEW c \in BOOLEAN
  PROVE  /\ Flagged(ThumbAlu!LogicFlags(m, ThumbAlu!NoReg, x), m.r, x, m.c, m.v)
         /\ \A d \in Low :
              /\ ThumbResult(ThumbAlu!LogicFlags(m, d, x), m, d, x, m.c, m.v)
              /\ \A y : y.v = x /\ y.c = c =>
                   ThumbResult(ThumbAlu!ShiftFlags(m, d, y), m, d, x, c, m.v)
<1>. DEFINE k == ThumbAlu!set_nz_flags(m, x)
<1>0. m.c \in BOOLEAN /\ m.v \in BOOLEAN
  BY TwinParts
<1>1. Flagged(k, m.r, x, m.c, m.v)
  BY <1>0, TwinFlags
<1>. HIDE DEF k
<1>2. k \in TwinCpus
  BY <1>1 DEF Flagged, Became
<1>3. ThumbAlu!LogicFlags(m, ThumbAlu!NoReg, x) = k
  BY DEF ThumbAlu!LogicFlags, ThumbAlu!Put, k
<1>4. ASSUME NEW d \in Low
      PROVE  /\ ThumbResult(ThumbAlu!LogicFlags(m, d, x), m, d, x, m.c, m.v)
             /\ \A y : y.v = x /\ y.c = c =>
                   ThumbResult(ThumbAlu!ShiftFlags(m, d, y), m, d, x, c, m.v)
  <2>. DEFINE l == [k EXCEPT !.r[d] = x]
  <2>1. d # ThumbAlu!NoReg
    BY DEF Low, ThumbAlu!NoReg
  <2>2. ThumbAlu!LogicFlags(m, d, x) = l
    BY <2>1 DEF ThumbAlu!LogicFlags, ThumbAlu!Put, k
  <2>3. ThumbResult(l, m, d, x, m.c, m.v)
    BY <1>1, <1>2, TwinWrite DEF ThumbResult
  <2>. HIDE DEF l
  <2>4. ThumbResult(ThumbAlu!set_cv(l, c, m.v), m, d, x, c, m.v)
    BY <1>0, <2>3 DEF ThumbAlu!set_cv, ThumbResult, Flagged, Became, TwinCpus
  <2>5. ASSUME NEW y, y.v = x, y.c = c
        PROVE  ThumbAlu!ShiftFlags(m, d, y) = ThumbAlu!set_cv(l, c, m.v)
    BY <2>2, <2>5, Zenon DEF ThumbAlu!ShiftFlags
  <2>. QED BY <2>2, <2>3, <2>4, <2>5, Zenon
<1>. QED BY <1>1, <1>3, <1>4, Zenon

-----------------------------------------------------------------------------
(* A data processing instruction of the ARM twin on operands that are      *)
(* registers' values: result and flags by kind of opcode.                  *)
OperandIs(m, o, b, c) == ArmAlu!decode_dp_operand2(m, o).v = b /\ ArmAlu!decode_dp_operand2(m, o).c = c
ArmSum(m, op, n, b) == ArmAlu!Arithmetic(op, m.r[n], b, Unit(m.c))
LEMMA ArmData ==
  ASSUME NEW m \in TwinCpus, NEW op, NEW s \in BOOLEAN, NEW d \in Low, NEW n \in Low, NEW o,
         NEW b, NEW c \in BOOLEAN, OperandIs(m, o, b, c)
  PROVE  LET k == ArmAlu!arm_data_processing(m, Dp(op, s, d, n, o))
             a == ArmSum(m, op, n, b)
             x == ArmAlu!Logical(op, m.r[n], b)
             test == op \in ArmAlu!TestOps
         IN  /\ op \notin ArmAlu!LogicalOps /\ IsSum(a) =>
                  /\ test => Flagged(k, m.r, a.x, a.c, a.v)
                  /\ ~test /\ s => ThumbResult(k, m, d, a.x, a.c, a.v)
                  /\ ~test /\ ~s => Written(k, m, d, a.x)
             /\ op \in ArmAlu!LogicalOps /\ x \in Values =>
                  /\ test => Flagged(k, m.r, x, c, m.v)
                  /\ ~test /\ s => ThumbResult(k, m, d, x, c, m.v)
                  /\ ~test /\ ~s => Written(k, m, d, x)
<1>. DEFINE i == Dp(op, s, d, n, o)
            k == ArmAlu!arm_data_processing(m, i)
            a == ArmSum(m, op, n, b)
            x == ArmAlu!Logical(op, m.r[n], b)
            test == op \in ArmAlu!TestOps
            logic == op \in ArmAlu!LogicalOps
            y == ArmAlu!decode_dp_operand2(m, o)
<1>0. m.v \in BOOLEAN /\ m.r \in [Low -> Values]
  BY TwinParts
<1>1. i.opcode = op /\ i.s = s /\ i.rd = d /\ i.rn = n /\ i.op2 = o
  BY DEF Dp
<1>2. d # ArmAlu!PC /\ n # ArmAlu!PC
  BY DEF Low, ArmAlu!PC
<1>3. y.v = b /\ y.c = c
  BY DEF OperandIs
<1>. HIDE DEF i, y
<1>4. ASSUME NEW z, NEW f, z = (IF logic THEN x ELSE a.x),
             f = (IF ~s /\ ~test THEN m
                  ELSE IF logic THEN ArmAlu!set_cv(ArmAlu!set_nz_flags(m, x), c, m.v)
                  ELSE ArmAlu!set_cv(ArmAlu!set_nz_flags(m, a.x), a.c, a.v))
      PROVE  k = IF test THEN f ELSE [f EXCEPT !.r[d] = z]
  <2>1. ArmAlu!decode_dp_operand2(m, i.op2) = y
    BY <1>1 DEF y
  <2>2. (IF i.rn = ArmAlu!PC /\ i.op2.kind = "shift" THEN ArmAlu!Wrap(m.r[ArmAlu!PC] + 4) ELSE m.r[i.rn])
          = m.r[n]
    BY <1>1, <1>2
  <2>3. ArmAlu!Arithmetic(op, m.r[n], b, IF m.c THEN 1 ELSE 0) = a
    BY DEF ArmSum, Unit
  <2>4. CASE test
    BY <1>1, <1>2, <1>3, <1>4, <2>1, <2>2, <2>3, <2>4, Zenon DEF ArmAlu!arm_data_processing
  <2>5. CASE ~test
    BY <1>1, <1>2, <1>3, <1>4, <2>1, <2>2, <2>3, <2>5, Zenon DEF ArmAlu!arm_data_processing
  <2>. QED BY <2>4, <2>5
<1>. HIDE DEF k, a, x, test, logic
<1>5. ASSUME ~logic, IsSum(a)
      PROVE  /\ test => Flagged(k, m.r, a.x, a.c, a.v)
             /\ ~test /\ s => ThumbResult(k, m, d, a.x, a.c, a.v)
             /\ ~test /\ ~s => Written(k, m, d, a.x)
  <2>. DEFINE f == ArmAlu!set_cv(ArmAlu!set_nz_flags(m, a.x), a.c, a.v)
  <2>1. Flagged(f, m.r, a.x, a.c, a.v) /\ a.x \in Values
    BY <1>5, TwinFlags DEF IsSum
  <2>2. /\ test => k = f
        /\ ~test /\ s => k = [f EXCEPT !.r[d] = a.x]
        /\ ~test /\ ~s => k = [m EXCEPT !.r[d] = a.x]
    BY <1>4, <1>5
  <2>. HIDE DEF f
  <2>3. f \in TwinCpus
    BY <2>1 DEF Flagged, Became
  <2>4. ThumbResult([f EXCEPT !.r[d] = a.x], m, d, a.x, a.c, a.v)
    BY <2>1, <2>3, TwinWrite DEF ThumbResult
  <2>5. Written([m EXCEPT !.r[d] = a.x], m, d, a.x)
    BY <2>1, TwinWritten
  <2>. QED BY <2>1, <2>2, <2>4, <2>5
<1>6. ASSUME logic, x \in Values
      PROVE  /\ test => Flagged(k, m.r, x, c, m.v)
             /\ ~test /\ s => ThumbResult(k, m, d, x, c, m.v)
             /\ ~test /\ ~s => Written(k, m, d, x)
  <2>. DEFINE f == ArmAlu!set_cv(ArmAlu!set_nz_flags(m, x), c, m.v)
  <2>1. Flagged(f, m.r, x, c, m.v)
    BY <1>0, TwinFlags
  <2>2. /\ test => k = f
        /\ ~test /\ s => k = [f EXCEPT !.r[d] = x]
        /\ ~test /\ ~s => k = [m EXCEPT !.r[d] = x]
    BY <1>4, <1>6
  <2>. HIDE DEF f
  <2>3. f \in TwinCpus
    BY <2>1 DEF Flagged, Became
  <2>4. ThumbResult([f EXCEPT !.r[d] = x], m, d, x, c, m.v)
    BY <1>6, <2>1, <2>3, TwinWrite DEF ThumbResult
  <2>5. Written([m EXCEPT !.r[d] = x], m, d, x)
    BY <1>6, TwinWritten
  <2>. QED BY <2>1, <2>2, <2>4, <2>5
<1>. QED BY <1>5, <1>6, Zenon DEF i, k, a, x, test, logic

(* Two results that are the same but for the carry.                        *)
LEMMA Lockstep ==
  ASSUME NEW k, NEW l, NEW R, NEW x, NEW c, NEW e, NEW v, NEW known,
         Flagged(k, R, x, c, v), Flagged(l, R, x, e, v), known => c = e
  PROVE  Agree(k, l, known)
  BY DEF Flagged, Became, Agree
LEMMA LockstepWritten ==
  ASSUME NEW m, NEW q, NEW k, NEW l, NEW d, NEW x, NEW known,
         Agree(m, q, known), Written(k, m, d, x), Written(l, q, d, x)
  PROVE  Agree(k, l, known)
  BY DEF Written, Became, Agree

(* The second operand: an immediate, a register, a shifted register.       *)
LEMMA Operand2 ==
  ASSUME NEW q \in TwinCpus
  PROVE  /\ \A x : OperandIs(q, ImmOp(x), x, q.c)
         /\ \A s : OperandIs(q, RegOp(s), q.r[s], q.c)
         /\ \A s, ty, n : ArmAlu!decode_dp_operand2(q, Shifted(s, ty, n))
                            = ArmAlu!barrel_shift(q.r[s], ty, n, q.c, FALSE)
         /\ \A s, d \in Low : \A ty :
              ArmAlu!decode_dp_operand2(q, [kind |-> "shift", rm |-> d, type |-> ty, rs |-> s])
                = By(q.r[d], ty, q.r[s] % FullRange, q.c)
<1>1. ASSUME NEW x PROVE OperandIs(q, ImmOp(x), x, q.c)
  BY DEF OperandIs, ImmOp, ArmAlu!decode_dp_operand2
<1>2. ASSUME NEW s PROVE OperandIs(q, RegOp(s), q.r[s], q.c)
  BY DEF OperandIs, RegOp, ArmAlu!decode_dp_operand2, ArmAlu!barrel_shift, ArmAlu!ShiftByImmediate
<1>3. ASSUME NEW s, NEW ty, NEW n
      PROVE  ArmAlu!decode_dp_operand2(q, Shifted(s, ty, n))
               = ArmAlu!barrel_shift(q.r[s], ty, n, q.c, FALSE)
  <2>1. /\ Shifted(s, ty, n).kind = "reg" /\ Shifted(s, ty, n).rm = s
        /\ Shifted(s, ty, n).type = ty /\ Shifted(s, ty, n).amount = n
    BY DEF Shifted
  <2>. QED BY <2>1, Zenon DEF ArmAlu!decode_dp_operand2
<1>4. ASSUME NEW s \in Low, NEW d \in Low, NEW ty
      PROVE  ArmAlu!decode_dp_operand2(q, [kind |-> "shift", rm |-> d, type |-> ty, rs |-> s])
               = By(q.r[d], ty, q.r[s] % FullRange, q.c)
  <2>. DEFINE o == [kind |-> "shift", rm |-> d, type |-> ty, rs |-> s]
  <2>1. o.kind = "shift" /\ o.rm = d /\ o.type = ty /\ o.rs = s /\ d # ArmAlu!PC
    BY DEF Low, ArmAlu!PC
  <2>. HIDE DEF o
  <2>2. ArmAlu!decode_dp_operand2(q, o) = By(q.r[d], ty, q.r[s] % FullRange, q.c)
    BY <2>1, Zenon DEF ArmAlu!decode_dp_operand2, By, FullRange
  <2>. QED BY <2>2 DEF o
<1>. QED BY <1>1, <1>2, <1>3, <1>4

(* Thumb and ARM compute the same sum: they agree, in the carry too.       *)
LEMMA TwinArith ==
  ASSUME NEW m, NEW q, NEW known, Agree(m, q, known),
         NEW op, op \notin ArmAlu!LogicalOps, NEW s \in BOOLEAN, NEW d \in Low, NEW n \in Low, NEW o,
         NEW b, NEW c \in BOOLEAN, OperandIs(q, o, b, c),
         NEW a, a = ArmSum(q, op, n, b), IsSum(a), NEW k,
         op \in ArmAlu!TestOps => Flagged(k, m.r, a.x, a.c, a.v),
         op \notin ArmAlu!TestOps => s /\ ThumbResult(k, m, d, a.x, a.c, a.v)
  PROVE  Agree(k, ArmAlu!arm_data_processing(q, Dp(op, s, d, n, o)), TRUE)
<1>. DEFINE l == ArmAlu!arm_data_processing(q, Dp(op, s, d, n, o))
<1>1. q \in TwinCpus /\ m.r = q.r
  BY DEF Agree
<1>2. /\ op \in ArmAlu!TestOps => Flagged(l, q.r, a.x, a.c, a.v)
      /\ op \notin ArmAlu!TestOps /\ s => ThumbResult(l, q, d, a.x, a.c, a.v)
  BY <1>1, ArmData
<1>. HIDE DEF l
<1>3. CASE op \in ArmAlu!TestOps
  <2>1. Flagged(k, m.r, a.x, a.c, a.v) /\ Flagged(l, m.r, a.x, a.c, a.v)
    BY <1>1, <1>2, <1>3
  <2>. QED BY <2>1, Lockstep DEF l
<1>4. CASE op \notin ArmAlu!TestOps
  <2>1. /\ Flagged(k, [m.r EXCEPT ![d] = a.x], a.x, a.c, a.v)
        /\ Flagged(l, [m.r EXCEPT ![d] = a.x], a.x, a.c, a.v)
    BY <1>1, <1>2, <1>4 DEF ThumbResult
  <2>. QED BY <2>1, Lockstep DEF l
<1>. QED BY <1>3, <1>4

(* They compute the same logical result: they agree, in the carry if it    *)
(* is the same one that they keep or shift out.                            *)
LEMMA TwinLogic ==
  ASSUME NEW m, NEW q, NEW known, Agree(m, q, known),
         NEW op \in ArmAlu!LogicalOps, NEW d \in Low, NEW n \in Low, NEW o,
         NEW b, NEW c \in BOOLEAN, OperandIs(q, o, b, c),
         NEW x \in Values, x = ArmAlu!Logical(op, q.r[n], b), NEW k, NEW e, known => e = c,
         op \in ArmAlu!TestOps => Flagged(k, m.r, x, e, m.v),
         op \notin ArmAlu!TestOps => ThumbResult(k, m, d, x, e, m.v)
  PROVE  Agree(k, ArmAlu!arm_data_processing(q, Dp(op, TRUE, d, n, o)), known)
<1>. DEFINE l == ArmAlu!arm_data_processing(q, Dp(op, TRUE, d, n, o))
<1>1. q \in TwinCpus /\ m.r = q.r /\ m.v = q.v
  BY DEF Agree
<1>2. /\ op \in ArmAlu!TestOps => Flagged(l, q.r, x, c, q.v)
      /\ op \notin ArmAlu!TestOps => ThumbResult(l, q, d, x, c, q.v)
  BY <1>1, ArmData
<1>. HIDE DEF l
<1>3. CASE op \in ArmAlu!TestOps
  <2>1. Flagged(k, m.r, x, e, m.v) /\ Flagged(l, m.r, x, c, m.v)
    BY <1>1, <1>2, <1>3
  <2>. QED BY <2>1, Lockstep DEF l
<1>4. CASE op \notin ArmAlu!TestOps
  <2>1. /\ Flagged(k, [m.r EXCEPT ![d] = x], x, e, m.v)
        /\ Flagged(l, [m.r EXCEPT ![d] = x], x, c, m.v)
    BY <1>1, <1>2, <1>4 DEF ThumbResult
  <2>. QED BY <2>1, Lockstep DEF l
<1>. QED BY <1>3, <1>4

(* What the two steps run.                                                 *)
LEMMA TwinRuns ==
  ASSUME NEW f, NEW i, NEW a
  PROVE  LET x == Twin(f, i, a) IN
         /\ x.a = a /\ x.i = i /\ x.fmt = f
         /\ f = "move_shifted" => RunThumbAlu(x) = ThumbAlu!thumb_move_shifted(cpu, i)
         /\ f = "add_subtract" => RunThumbAlu(x) = ThumbAlu!thumb_add_subtract(cpu, i)
         /\ f = "mov_cmp_add_sub_imm" =>
              RunThumbAlu(x) = ThumbAlu!thumb_mov_cmp_add_sub_imm(cpu, i)
         /\ f = "alu" => RunThumbAlu(x) = ThumbAlu!thumb_alu(cpu, i)
         /\ f = "hi_reg_bx" => RunThumbAlu(x) = ThumbAlu!thumb_hi_reg_bx(cpu, i)
         /\ a.kind = "dp" => RunArmAlu(a) = ArmAlu!arm_data_processing(twin, a)
         /\ a.kind = "mul" => RunArmAlu(a) = ArmAlu!arm_multiply(twin, a)
<1>. DEFINE x == Twin(f, i, a)
<1>1. x.a = a /\ x.i = i /\ x.fmt = f
  BY DEF Twin
<1>. HIDE DEF x
<1>2. f = "move_shifted" => RunThumbAlu(x) = ThumbAlu!thumb_move_shifted(cpu, i)
  BY <1>1, Zenon DEF RunThumbAlu
<1>3. f = "add_subtract" => RunThumbAlu(x) = ThumbAlu!thumb_add_subtract(cpu, i)
  BY <1>1, Zenon DEF RunThumbAlu
<1>4. f = "mov_cmp_add_sub_imm" => RunThumbAlu(x) = ThumbAlu!thumb_mov_cmp_add_sub_imm(cpu, i)
  BY <1>1, Zenon DEF RunThumbAlu
<1>5. f = "alu" => RunThumbAlu(x) = ThumbAlu!thumb_alu(cpu, i)
  BY <1>1, Zenon DEF RunThumbAlu
<1>6. f = "hi_reg_bx" => RunThumbAlu(x) = ThumbAlu!thumb_hi_reg_bx(cpu, i)
  BY <1>1, Zenon DEF RunThumbAlu
<1>7. /\ a.kind = "dp" => RunArmAlu(a) = ArmAlu!arm_data_processing(twin, a)
      /\ a.kind = "mul" => RunArmAlu(a) = ArmAlu!arm_multiply(twin, a)
  BY Zenon DEF RunArmAlu
<1>. QED BY <1>1, <1>2, <1>3, <1>4, <1>5, <1>6, <1>7 DEF x
(* A data processing instruction that sets the flags, and one that does not. *)
DpS(op, d, n, o)  == Dp(op, TRUE, d, n, o)
DpNo(op, d, n, o) == Dp(op, FALSE, d, n, o)
LEMMA DpParts ==
  ASSUME NEW op, NEW d, NEW n, NEW o
  PROVE  /\ DpS(op, d, n, o).kind = "dp" /\ DpS(op, d, n, o).opcode = op
         /\ DpNo(op, d, n, o).kind = "dp" /\ DpNo(op, d, n, o).opcode = op
BY DEF Dp, DpS, DpNo

(* Format 2: the instruction and its twin.                                 *)
AddThumb(op, im, y, s, d) == [op |-> op, is_imm |-> im, arg |-> y, rs |-> s, rd |-> d]
AddOp2(im, y)             == IF im THEN ImmOp(y) ELSE RegOp(y)
LEMMA AddSubtractAgrees ==
  ASSUME Agree(cpu, twin, spec), NEW tw \in AddSubtract
  PROVE  Agree(RunThumbAlu(tw), RunArmAlu(tw.a), TRUE)
<1>1. PICK op \in {"ADD", "SUB"}, im \in BOOLEAN, y \in Low, s \in Low, d \in Low :
        tw = AddTwin(op, im, y, s, d)
  BY DEF AddSubtract
<1>. DEFINE i == AddThumb(op, im, y, s, d)
            o == AddOp2(im, y)
            b == IF im THEN y ELSE cpu.r[y]
            a == ArmSum(twin, op, s, b)
            k == ThumbAlu!thumb_add_subtract(cpu, i)
<1>2. RunThumbAlu(tw) = k /\ RunArmAlu(tw.a) = ArmAlu!arm_data_processing(twin, DpS(op, d, s, o))
  <2>. DEFINE A == DpS(op, d, s, o)
  <2>1. tw = Twin("add_subtract", i, A)
    BY <1>1, Zenon DEF AddTwin, AddThumb, AddOp2, DpS
  <2>2. A.kind = "dp"
    BY DpParts
  <2>. HIDE DEF i, o, A
  <2>. QED BY <2>1, <2>2, TwinRuns DEF A
<1>3. cpu \in TwinCpus /\ twin \in TwinCpus /\ cpu.r = twin.r
  BY DEF Agree
<1>4. cpu.r \in [Low -> Values] /\ twin.c \in BOOLEAN
  BY <1>3, TwinParts
<1>5. OperandIs(twin, o, b, twin.c)
  <2>1. CASE im
    BY <1>3, <2>1, Operand2 DEF AddOp2
  <2>2. CASE ~im
    BY <1>3, <2>2, Operand2 DEF AddOp2
  <2>. QED BY <2>1, <2>2
<1>6. b \in Values /\ cpu.r[s] \in Values
  BY <1>4, Powers DEF Low, Values
<1>7. a = (IF op = "SUB" THEN ArmAlu!Sub(cpu.r[s], b, 1) ELSE ArmAlu!Add(cpu.r[s], b, 0))
  BY <1>3 DEF ArmSum, ArmAlu!Arithmetic
<1>8. IsSum(a)
  BY <1>6, <1>7, TwinSums
<1>9. k = IF op = "SUB" THEN ThumbAlu!SubFlags(cpu, d, cpu.r[s], b, 1)
          ELSE ThumbAlu!AddFlags(cpu, d, cpu.r[s], b, 0)
  <2>1. i.op = op /\ i.is_imm = im /\ i.arg = y /\ i.rs = s /\ i.rd = d
    BY DEF AddThumb
  <2>. HIDE DEF i
  <2>. QED BY <2>1, Zenon DEF ThumbAlu!thumb_add_subtract
<1>. HIDE DEF i, o, b, a, k
<1>10. ThumbResult(k, cpu, d, a.x, a.c, a.v)
  <2>1. CASE op = "SUB"
    BY <1>3, <1>6, <1>7, <1>9, <2>1, ThumbArithmetic
  <2>2. CASE op # "SUB"
    BY <1>3, <1>6, <1>7, <1>9, <2>2, ThumbArithmetic
  <2>. QED BY <2>1, <2>2
<1>11. op \notin ArmAlu!LogicalOps /\ op \notin ArmAlu!TestOps
  BY DEF ArmAlu!LogicalOps, ArmAlu!TestOps
<1>12. Agree(k, ArmAlu!arm_data_processing(twin, DpS(op, d, s, o)), TRUE)
  BY <1>4, <1>5, <1>8, <1>10, <1>11, TwinArith DEF a, DpS
<1>. QED BY <1>2, <1>12

-----------------------------------------------------------------------------
(* The shifter of thumb_instr.c is barrel_shift of arm_instr.c: an amount  *)
(* beyond the width leaves no bit, without the special cases.              *)
Beyond(n) == n \in Nat /\ (n >= AluBits =>
               /\ 2^(n - AluBits) \in Nat /\ 2^(n - AluBits) > 0
               /\ 2^n = FullRange * 2^(n - AluBits))
LEMMA Amounts ==
  /\ \A n \in Values : Beyond(n)
  /\ \A n \in 0 .. AluBits : Beyond(n)
<1>. DEFINE P(i) == 2^i
<1>0. AluBits \in Nat /\ AluBits > 0 /\ FullRange = P(AluBits) /\ P(0) = 1 /\ FullRange \in Nat
  BY WidthAssumption, Powers DEF FullRange
<1>1. \A i \in 0 .. FullRange : P(i) \in Nat /\ P(i) > 0 /\ P(AluBits + i) = FullRange * P(i)
  BY WidthAssumption DEF FullRange
<1>. HIDE DEF P
<1>2. ASSUME NEW n \in Values
      PROVE  n \in Nat /\ (n >= AluBits =>
               /\ P(n - AluBits) \in Nat /\ P(n - AluBits) > 0
               /\ P(n) = FullRange * P(n - AluBits))
  <2>1. n \in Nat /\ n < FullRange
    BY <1>0 DEF Values
  <2>2. ASSUME n >= AluBits PROVE n - AluBits \in 0 .. FullRange /\ AluBits + (n - AluBits) = n
    BY <1>0, <2>1, <2>2
  <2>. QED BY <1>1, <2>1, <2>2
<1>3. ASSUME NEW n \in 0 .. AluBits
      PROVE  n \in Nat /\ (n >= AluBits =>
               /\ P(n - AluBits) \in Nat /\ P(n - AluBits) > 0
               /\ P(n) = FullRange * P(n - AluBits))
  <2>1. n >= AluBits => n = AluBits /\ n - AluBits = 0
    BY <1>0
  <2>2. n \in Nat
    BY <1>0
  <2>. QED BY <1>0, <2>1, <2>2
<1>. QED BY <1>2, <1>3 DEF Beyond, P

(* What is left beyond the width: of a number, nothing; of a signed one,   *)
(* its sign.                                                               *)
LEMMA NothingLeft ==
  ASSUME NEW F \in Nat, F > 0, NEW v \in Nat, v < F, NEW p \in Nat, p > 0
  PROVE  (v * (F * p)) % F = 0 /\ v \div (F * p) = 0
<1>. DEFINE P == F * p
            y == v * P
            q == v * p
<1>1. P \in Nat /\ P >= F
  BY Z3
<1>2. y = F * q + 0 /\ q \in Int /\ y \in Int
  <2>1. v * (F * p) = F * (v * p)
    OBVIOUS
  <2>. QED BY <2>1
<1>. HIDE DEF y, q
<1>3. y % F = 0
  BY <1>2, OneQuotient
<1>. HIDE DEF P
<1>4. v = P * 0 + v
  BY <1>1
<1>5. v \div P = 0
  BY <1>1, <1>4, OneQuotient
<1>. QED BY <1>3, <1>5 DEF y, P
LEMMA SignLeft ==
  ASSUME NEW F \in Nat, F > 0, NEW v \in Int, -F <= v, v < 0, NEW p \in Nat, p > 0
  PROVE  (v \div (F * p)) % F = F - 1
<1>. DEFINE P == F * p
<1>1. P \in Nat /\ P >= F
  BY Z3
<1>. HIDE DEF P
<1>2. v = P * (-1) + (v + P) /\ v + P \in Nat /\ v + P < P
  BY <1>1
<1>3. v \div P = -1
  <2>. DEFINE r == v + P
              q == -1
  <2>1. v = P * q + r /\ r \in Nat /\ r < P /\ q \in Int
    BY <1>2
  <2>. HIDE DEF r, q
  <2>2. v \div P = q
    BY <1>1, <2>1, OneQuotient
  <2>. QED BY <2>2 DEF q
<1>4. (-1) % F = F - 1
  <2>. DEFINE r == F - 1
              q == -1
  <2>1. q = F * (-1) + r /\ r \in Nat /\ r < F /\ q \in Int
    OBVIOUS
  <2>2. -1 \in Int
    OBVIOUS
  <2>. HIDE DEF r
  <2>3. q % F = r
    BY <2>1, <2>2, OneQuotient
  <2>. QED BY <2>3 DEF r
<1>. QED BY <1>3, <1>4 DEF P

(* thumb_instr.c's shifter, case by case.                                  *)
ThumbBy(v, ty, n, c) == ThumbAlu!barrel_shift_reg(v, ty, n, c)
LEMMA ThumbByNothing ==
  ASSUME NEW v, NEW ty, NEW c
  PROVE  ThumbBy(v, ty, 0, c) = Pair(v, c)
  BY DEF ThumbBy, ThumbAlu!barrel_shift_reg, Pair
LEMMA ThumbByCases ==
  ASSUME NEW v, NEW n \in Nat, NEW c, n # 0
  PROVE  /\ ThumbBy(v, "LSL", n, c)
              = Pair((v * 2^n) % FullRange, n <= AluBits /\ ArmAlu!BIT(v, AluBits - n))
         /\ ThumbBy(v, "LSR", n, c) = Pair(v \div 2^n, n <= AluBits /\ ArmAlu!BIT(v, n - 1))
         /\ ThumbBy(v, "ASR", n, c)
              = Pair((ArmAlu!Signed(v) \div 2^n) % FullRange,
                     IF n < AluBits THEN ArmAlu!BIT(v, n - 1) ELSE ArmAlu!BIT(v, AluBits - 1))
<1>1. ThumbBy(v, "LSL", n, c)
        = Pair((v * 2^n) % FullRange, n <= AluBits /\ ArmAlu!BIT(v, AluBits - n))
  BY DEF ThumbBy, ThumbAlu!barrel_shift_reg, Pair, ThumbAlu!Wrap, ThumbAlu!BIT, ArmAlu!BIT, FullRange
<1>2. ThumbBy(v, "LSR", n, c) = Pair(v \div 2^n, n <= AluBits /\ ArmAlu!BIT(v, n - 1))
  BY DEF ThumbBy, ThumbAlu!barrel_shift_reg, Pair, ThumbAlu!BIT, ArmAlu!BIT
<1>3. ThumbBy(v, "ASR", n, c)
        = Pair((ArmAlu!Signed(v) \div 2^n) % FullRange,
               IF n < AluBits THEN ArmAlu!BIT(v, n - 1) ELSE ArmAlu!BIT(v, AluBits - 1))
  <2>1. ThumbAlu!Signed(v) = ArmAlu!Signed(v) /\ \A x : ThumbAlu!Wrap(x) = x % FullRange
    BY SameBits DEF ThumbAlu!Wrap, FullRange
  <2>2. \A i : ThumbAlu!BIT(v, i) = ArmAlu!BIT(v, i)
    BY DEF ThumbAlu!BIT, ArmAlu!BIT
  <2>. QED BY <2>1, <2>2 DEF ThumbBy, ThumbAlu!barrel_shift_reg, Pair
<1>. QED BY <1>1, <1>2, <1>3, Zenon
LEMMA ThumbByRor ==
  ASSUME NEW v, NEW n \in Nat, NEW c, n # 0
  PROVE  /\ n % AluBits = 0 => ThumbBy(v, "ROR", n, c) = Pair(v, ArmAlu!BIT(v, AluBits - 1))
         /\ n % AluBits # 0 =>
              ThumbBy(v, "ROR", n, c) = Pair(ArmAlu!RotateRight(v, n % AluBits),
                                             ArmAlu!BIT(v, (n % AluBits) - 1))
<1>1. ASSUME n % AluBits = 0
      PROVE  ThumbBy(v, "ROR", n, c) = Pair(v, ArmAlu!BIT(v, AluBits - 1))
  BY <1>1 DEF ThumbBy, ThumbAlu!barrel_shift_reg, Pair, ThumbAlu!BIT, ArmAlu!BIT
<1>2. ASSUME n % AluBits # 0
      PROVE  ThumbBy(v, "ROR", n, c)
               = Pair(ArmAlu!RotateRight(v, n % AluBits), ArmAlu!BIT(v, (n % AluBits) - 1))
  <2>1. /\ ThumbAlu!RotateRight(v, n % AluBits) = ArmAlu!RotateRight(v, n % AluBits)
        /\ ThumbAlu!BIT(v, (n % AluBits) - 1) = ArmAlu!BIT(v, (n % AluBits) - 1)
    BY SameBits
  <2>. QED BY <1>2, <2>1 DEF ThumbBy, ThumbAlu!barrel_shift_reg, Pair
<1>. QED BY <1>1, <1>2

InRange(y) == y.v \in Values /\ y.c \in BOOLEAN
LEMMA ThumbShifter ==
  ASSUME NEW v \in Values, NEW n, Beyond(n), NEW c \in BOOLEAN, NEW ty \in ArmAlu!Shift
  PROVE  ThumbBy(v, ty, n, c) = By(v, ty, n, c) /\ InRange(By(v, ty, n, c))
<1>. DEFINE F == FullRange
            s == ArmAlu!BIT(v, AluBits - 1)
            P == 2^n
<1>0. /\ AluBits \in Nat /\ AluBits > 0 /\ F \in Nat /\ F > 0 /\ v \in Nat /\ v < F /\ n \in Nat
      /\ HalfRange \in Nat /\ F = 2 * HalfRange
  BY WidthAssumption, Powers DEF Values, Beyond
<1>1. \A i : ArmAlu!BIT(v, i) \in BOOLEAN
  BY DEF ArmAlu!BIT
<1>2. \A x \in Values, b \in BOOLEAN : InRange(Pair(x, b))
  BY DEF InRange, Pair
<1>3. ty \in {"LSL", "LSR", "ASR", "ROR"}
  BY DEF ArmAlu!Shift
<1>4. ArmAlu!Signed(v) = SignedValue(v) /\ (s <=> v >= HalfRange)
  BY EndBits
<1>5. CASE n = 0
  <2>1. ThumbBy(v, ty, n, c) = Pair(v, c) /\ By(v, ty, n, c) = Pair(v, c)
    BY <1>5, ThumbByNothing, ByNothing
  <2>. QED BY <1>2, <2>1
<1>6. CASE n # 0 /\ ty = "ROR"
  <2>1. CASE n % AluBits = 0
    <3>1. ThumbBy(v, "ROR", n, c) = Pair(v, s) /\ By(v, "ROR", n, c) = Pair(v, s)
      BY <1>0, <1>6, <2>1, ThumbByRor, ByRor
    <3>. QED BY <1>1, <1>2, <1>6, <3>1
  <2>2. CASE n % AluBits # 0
    <3>. DEFINE k == n % AluBits
    <3>1. k \in 0 .. AluBits
      BY <1>0
    <3>2. /\ ThumbBy(v, "ROR", n, c) = Pair(ArmAlu!RotateRight(v, k), ArmAlu!BIT(v, k - 1))
          /\ By(v, "ROR", n, c) = Pair(ArmAlu!RotateRight(v, k), ArmAlu!BIT(v, k - 1))
      BY <1>0, <1>6, <2>2, ThumbByRor, ByRor
    <3>. HIDE DEF k
    <3>3. ArmAlu!RotateRight(v, k) \in Values
      BY <3>1, RotateTurns
    <3>. QED BY <1>1, <1>2, <1>6, <3>2, <3>3
  <2>. QED BY <2>1, <2>2
<1>7. CASE n # 0 /\ n < AluBits /\ ty # "ROR"
  <2>1. n \in 1 .. AluBits - 1 /\ n \in 0 .. AluBits /\ n <= AluBits
    BY <1>0, <1>7
  <2>2. P \in Nat /\ P > 0
    BY <2>1, Powers
  <2>. HIDE DEF P
  <2>3. (v * P) % F \in Values /\ (ArmAlu!Signed(v) \div P) % F \in Values
    BY <1>0, <1>4, <2>2 DEF Values, SignedValue
  <2>4. v \div P \in Values
    <3>. DEFINE q == v \div P
                r == v % P
                m == P * q
    <3>1. v \in Int
      BY <1>0
    <3>2. q \in Int /\ q >= 0 /\ r \in Nat /\ v = m + r
      BY <1>0, <2>2, <3>1, DivMod
    <3>. HIDE DEF q, r
    <3>3. m \in Int /\ q <= m
      BY <2>2, <3>2, Z3
    <3>. HIDE DEF m
    <3>4. q \in 0 .. F - 1
      BY <1>0, <3>2, <3>3
    <3>. QED BY <3>4 DEF q, Values
  <2>5. /\ (n <= AluBits /\ ArmAlu!BIT(v, AluBits - n)) = ArmAlu!BIT(v, AluBits - n)
        /\ (n <= AluBits /\ ArmAlu!BIT(v, n - 1)) = ArmAlu!BIT(v, n - 1)
        /\ (IF n < AluBits THEN ArmAlu!BIT(v, n - 1) ELSE s) = ArmAlu!BIT(v, n - 1)
    BY <1>1, <1>7, <2>1
  <2>6. CASE ty = "LSL"
    <3>1. /\ ThumbBy(v, ty, n, c) = Pair((v * P) % F, ArmAlu!BIT(v, AluBits - n))
          /\ By(v, ty, n, c) = Pair((v * P) % F, ArmAlu!BIT(v, AluBits - n))
      BY <1>0, <1>7, <2>1, <2>5, <2>6, ThumbByCases, ByLess DEF P
    <3>. QED BY <1>1, <1>2, <2>3, <3>1
  <2>7. CASE ty = "LSR"
    <3>1. /\ ThumbBy(v, ty, n, c) = Pair(v \div P, ArmAlu!BIT(v, n - 1))
          /\ By(v, ty, n, c) = Pair(v \div P, ArmAlu!BIT(v, n - 1))
      BY <1>0, <1>7, <2>1, <2>5, <2>7, ThumbByCases, ByLess DEF P
    <3>. QED BY <1>1, <1>2, <2>4, <3>1
  <2>8. CASE ty = "ASR"
    <3>1. /\ ThumbBy(v, ty, n, c) = Pair((ArmAlu!Signed(v) \div P) % F, ArmAlu!BIT(v, n - 1))
          /\ By(v, ty, n, c) = Pair((ArmAlu!Signed(v) \div P) % F, ArmAlu!BIT(v, n - 1))
      BY <1>0, <1>7, <2>1, <2>5, <2>8, ThumbByCases, ByLess DEF P
    <3>. QED BY <1>1, <1>2, <2>3, <3>1
  <2>. QED BY <1>3, <1>7, <2>6, <2>7, <2>8
<1>8. CASE n # 0 /\ n >= AluBits /\ ty # "ROR"
  <2>. DEFINE p == 2^(n - AluBits)
  <2>1. p \in Nat /\ p > 0 /\ P = F * p
    BY <1>8 DEF Beyond
  <2>. HIDE DEF p, P
  <2>2. (v * P) % F = 0 /\ v \div P = 0
    BY <1>0, <2>1, NothingLeft
  <2>3. (ArmAlu!Signed(v) \div P) % F = IF s THEN F - 1 ELSE 0
    <3>1. CASE s
      <4>. DEFINE x == v - F
      <4>1. x \in Int /\ -F <= x /\ x < 0 /\ ArmAlu!Signed(v) = x
        BY <1>0, <1>4, <3>1 DEF SignedValue
      <4>. HIDE DEF x
      <4>2. (x \div (F * p)) % F = F - 1
        BY <1>0, <2>1, <4>1, SignLeft
      <4>. QED BY <2>1, <3>1, <4>1, <4>2
    <3>2. CASE ~s
      <4>1. ArmAlu!Signed(v) = v
        BY <1>4, <3>2 DEF SignedValue
      <4>2. 0 % F = 0
        BY <1>0
      <4>. QED BY <2>2, <3>2, <4>1, <4>2
    <3>. QED BY <3>1, <3>2
  <2>4. 0 \in Values /\ F - 1 \in Values
    BY <1>0 DEF Values
  <2>5. n <= AluBits <=> n = AluBits
    BY <1>0, <1>8
  <2>6. CASE ty = "LSL"
    <3>. DEFINE e == n = AluBits /\ ArmAlu!BIT(v, 0)
    <3>1. n = AluBits => AluBits - n = 0
      BY <1>0
    <3>2. (n <= AluBits /\ ArmAlu!BIT(v, AluBits - n)) = e
      BY <1>1, <2>5, <3>1
    <3>. HIDE DEF e
    <3>3. ThumbBy(v, "LSL", n, c) = Pair(0, e)
      <4>1. ThumbBy(v, "LSL", n, c) = Pair((v * P) % F, n <= AluBits /\ ArmAlu!BIT(v, AluBits - n))
        BY <1>0, <1>8, ThumbByCases DEF P
      <4>. QED BY <2>2, <3>2, <4>1, Zenon
    <3>4. By(v, ty, n, c) = Pair(0, e)
      BY <1>0, <1>8, <2>6, ByMore DEF e
    <3>. QED BY <1>1, <1>2, <2>4, <2>6, <3>3, <3>4 DEF e
  <2>7. CASE ty = "LSR"
    <3>. DEFINE e == n = AluBits /\ s
    <3>1. (n <= AluBits /\ ArmAlu!BIT(v, n - 1)) = e
      BY <1>1, <2>5
    <3>. HIDE DEF e
    <3>3. ThumbBy(v, "LSR", n, c) = Pair(0, e)
      <4>1. ThumbBy(v, "LSR", n, c) = Pair(v \div P, n <= AluBits /\ ArmAlu!BIT(v, n - 1))
        BY <1>0, <1>8, ThumbByCases DEF P
      <4>. QED BY <2>2, <3>1, <4>1, Zenon
    <3>4. By(v, ty, n, c) = Pair(0, e)
      BY <1>0, <1>8, <2>7, ByMore DEF e
    <3>. QED BY <1>1, <1>2, <2>4, <2>7, <3>3, <3>4 DEF e
  <2>8. CASE ty = "ASR"
    <3>. DEFINE x == IF s THEN F - 1 ELSE 0
    <3>1. (IF n < AluBits THEN ArmAlu!BIT(v, n - 1) ELSE s) = s
      BY <1>0, <1>8
    <3>2. (ArmAlu!Signed(v) \div P) % F = x
      BY <2>3
    <3>3. By(v, ty, n, c) = Pair(x, s)
      BY <1>0, <1>8, <2>8, ByMore
    <3>4. x \in Values
      BY <2>4
    <3>. HIDE DEF x
    <3>5. ThumbBy(v, ty, n, c) = Pair(x, s)
      BY <1>0, <1>8, <2>8, <3>1, <3>2, ThumbByCases DEF P
    <3>. QED BY <1>1, <1>2, <3>3, <3>4, <3>5
  <2>. QED BY <1>3, <1>8, <2>6, <2>7, <2>8
<1>. QED BY <1>0, <1>5, <1>6, <1>7, <1>8

(* The carry before a shift matters only to a shift by nothing.            *)
LEMMA ShiftSame ==
  ASSUME NEW v \in Values, NEW n, Beyond(n), NEW ty \in ArmAlu!Shift, NEW c \in BOOLEAN, NEW e \in BOOLEAN
  PROVE  LET y == By(v, ty, n, c)
             z == By(v, ty, n, e)
         IN  InRange(y) /\ InRange(z) /\ y.v = z.v /\ (c = e => y.c = z.c)
<1>. DEFINE y == By(v, ty, n, c)
            z == By(v, ty, n, e)
<1>1. InRange(y) /\ InRange(z)
  BY ThumbShifter
<1>2. CASE n = 0
  <2>1. y = Pair(v, c) /\ z = Pair(v, e)
    BY <1>2, ByNothing
  <2>. HIDE DEF y, z
  <2>2. y.v = z.v /\ (c = e => y.c = z.c)
    BY <2>1 DEF Pair
  <2>. QED BY <1>1, <2>2 DEF y, z
<1>3. CASE n # 0
  <2>1. n \in Nat /\ AluBits \in Nat /\ AluBits > 0 /\ ty \in {"LSL", "LSR", "ASR", "ROR"}
    BY WidthAssumption DEF Beyond, ArmAlu!Shift
  <2>2. ASSUME ty # "ROR", n < AluBits PROVE y = z
    <3>1. n \in 1 .. AluBits - 1
      BY <1>3, <2>1, <2>2
    <3>. QED BY <2>1, <2>2, <3>1, ByLess
  <2>3. ASSUME ty # "ROR", n >= AluBits PROVE y = z
    BY <2>1, <2>3, ByMore
  <2>4. ASSUME ty = "ROR" PROVE y = z
    BY <1>3, <2>1, <2>4, ByRor
  <2>5. y = z
    BY <2>1, <2>2, <2>3, <2>4
  <2>. HIDE DEF y, z
  <2>. QED BY <1>1, <2>5 DEF y, z
<1>. QED BY <1>2, <1>3

(* A shift that MOVS makes of the second operand.                          *)
LEMMA ShiftAgrees ==
  ASSUME Agree(cpu, twin, spec), NEW v \in Values, NEW n, Beyond(n), NEW ty \in ArmAlu!Shift,
         NEW d \in Low, NEW o, ArmAlu!decode_dp_operand2(twin, o) = By(v, ty, n, twin.c)
  PROVE  Agree(ThumbAlu!ShiftFlags(cpu, d, By(v, ty, n, cpu.c)),
               ArmAlu!arm_data_processing(twin, DpS("MOV", d, d, o)), spec)
<1>. DEFINE y == By(v, ty, n, cpu.c)
            z == By(v, ty, n, twin.c)
            k == ThumbAlu!ShiftFlags(cpu, d, y)
            x == y.v
            e == y.c
            c == z.c
<1>1. cpu \in TwinCpus /\ twin \in TwinCpus /\ (spec => cpu.c = twin.c)
  BY DEF Agree
<1>2. cpu.c \in BOOLEAN /\ twin.c \in BOOLEAN
  BY <1>1, TwinParts
<1>3. InRange(y) /\ InRange(z) /\ y.v = z.v /\ (cpu.c = twin.c => y.c = z.c)
  BY <1>2, ShiftSame
<1>4. OperandIs(twin, o, z.v, z.c)
  BY DEF OperandIs
<1>. HIDE DEF y, z
<1>5. x \in Values /\ e \in BOOLEAN /\ c \in BOOLEAN /\ (spec => e = c) /\ OperandIs(twin, o, x, c)
  BY <1>1, <1>3, <1>4 DEF InRange
<1>6. ThumbResult(k, cpu, d, x, e, cpu.v)
  BY <1>1, <1>5, ThumbLogic
<1>. HIDE DEF x, e, c, k
<1>7. /\ "MOV" \in ArmAlu!LogicalOps /\ "MOV" \notin ArmAlu!TestOps
      /\ x = ArmAlu!Logical("MOV", twin.r[d], x)
  BY DEF ArmAlu!LogicalOps, ArmAlu!TestOps, ArmAlu!Logical
<1>8. Agree(k, ArmAlu!arm_data_processing(twin, Dp("MOV", TRUE, d, d, o)), spec)
  BY <1>5, <1>6, <1>7, TwinLogic
<1>. QED BY <1>8, Zenon DEF k, y, DpS

(* Format 1.                                                               *)
ShiftThumb(ty, n, s, d) == [op |-> ty, offset5 |-> n, rs |-> s, rd |-> d]
LEMMA MoveShiftedAgrees ==
  ASSUME Agree(cpu, twin, spec), NEW tw \in MoveShifted
  PROVE  Agree(RunThumbAlu(tw), RunArmAlu(tw.a), spec)
<1>1. PICK ty \in {"LSL", "LSR", "ASR"}, n \in 0 .. AluBits - 1, s \in Low, d \in Low :
        tw = ShiftTwin(ty, n, s, d)
  BY DEF MoveShifted
<1>. DEFINE i == ShiftThumb(ty, n, s, d)
            o == Shifted(s, ty, n)
            v == cpu.r[s]
            m == IF n = 0 /\ ty # "LSL" THEN AluBits ELSE n
            k == ThumbAlu!thumb_move_shifted(cpu, i)
<1>2. RunThumbAlu(tw) = k /\ RunArmAlu(tw.a) = ArmAlu!arm_data_processing(twin, DpS("MOV", d, d, o))
  <2>. DEFINE A == DpS("MOV", d, d, o)
  <2>1. tw = Twin("move_shifted", i, A)
    BY <1>1, Zenon DEF ShiftTwin, ShiftThumb, DpS
  <2>2. A.kind = "dp"
    BY DpParts
  <2>. HIDE DEF i, o, A
  <2>. QED BY <2>1, <2>2, TwinRuns DEF A
<1>3. cpu \in TwinCpus /\ twin \in TwinCpus /\ cpu.r = twin.r
  BY DEF Agree
<1>4. v \in Values /\ v = twin.r[s] /\ cpu.c \in BOOLEAN /\ twin.c \in BOOLEAN
  BY <1>3, TwinParts
<1>5. AluBits \in Nat /\ AluBits > 0 /\ m \in 0 .. AluBits /\ ty \in ArmAlu!Shift
  BY WidthAssumption DEF ArmAlu!Shift
<1>6. Beyond(m)
  BY <1>5, Amounts
<1>7. ArmAlu!decode_dp_operand2(twin, o) = By(v, ty, m, twin.c)
  <2>1. ArmAlu!decode_dp_operand2(twin, o) = ArmAlu!barrel_shift(v, ty, n, twin.c, FALSE)
    BY <1>3, <1>4, Operand2
  <2>2. CASE n # 0
    <3>1. n \in 1 .. AluBits - 1
      BY <1>5, <2>2
    <3>. QED BY <1>4, <1>5, <2>1, <2>2, <3>1, ByImmediate
  <2>3. CASE n = 0 /\ ty # "LSL"
    BY <1>4, <1>5, <2>1, <2>3, ByImmediate
  <2>4. CASE n = 0 /\ ty = "LSL"
    <3>1. ArmAlu!barrel_shift(v, "LSL", 0, twin.c, FALSE) = Pair(v, twin.c)
      BY DEF ArmAlu!barrel_shift, ArmAlu!ShiftByImmediate, Pair
    <3>2. By(v, "LSL", 0, twin.c) = Pair(v, twin.c)
      BY ByNothing
    <3>. QED BY <2>1, <2>4, <3>1, <3>2
  <2>. QED BY <2>2, <2>3, <2>4
<1>8. k = ThumbAlu!ShiftFlags(cpu, d, By(v, ty, m, cpu.c))
  <2>1. i.op = ty /\ i.offset5 = n /\ i.rs = s /\ i.rd = d
    BY DEF ShiftThumb
  <2>. HIDE DEF i
  <2>2. By(v, ty, m, cpu.c) = ThumbBy(v, ty, m, cpu.c)
    BY <1>4, <1>5, <1>6, ThumbShifter
  <2>3. CASE n = 0 /\ ty = "LSL"
    <3>1. ThumbBy(v, ty, m, cpu.c) = Pair(v, cpu.c)
      BY <2>3, ThumbByNothing
    <3>2. k = ThumbAlu!ShiftFlags(cpu, d, [v |-> v, c |-> cpu.c])
      BY <2>1, <2>3, Zenon DEF ThumbAlu!thumb_move_shifted
    <3>. QED BY <2>2, <3>1, <3>2, Zenon DEF Pair
  <2>4. CASE ~(n = 0 /\ ty = "LSL")
    <3>. DEFINE sh == IF n = 0 THEN AluBits ELSE n
    <3>1. m = sh /\ m # 0 /\ m \in Nat /\ m <= AluBits
      BY <1>5, <2>4
    <3>2. /\ ty = "LSL" => ThumbBy(v, ty, m, cpu.c)
              = Pair((v * 2^m) % FullRange, m <= AluBits /\ ArmAlu!BIT(v, AluBits - m))
          /\ ty = "LSR" =>
               ThumbBy(v, ty, m, cpu.c) = Pair(v \div 2^m, m <= AluBits /\ ArmAlu!BIT(v, m - 1))
          /\ ty = "ASR" => ThumbBy(v, ty, m, cpu.c)
              = Pair((ArmAlu!Signed(v) \div 2^m) % FullRange,
                     IF m < AluBits THEN ArmAlu!BIT(v, m - 1) ELSE ArmAlu!BIT(v, AluBits - 1))
      BY <3>1, ThumbByCases
    <3>3. \A j : ThumbAlu!BIT(v, j) = ArmAlu!BIT(v, j) /\ ArmAlu!BIT(v, j) \in BOOLEAN
      BY DEF ThumbAlu!BIT, ArmAlu!BIT
    <3>4. /\ (m <= AluBits /\ ArmAlu!BIT(v, AluBits - m)) = ThumbAlu!BIT(v, AluBits - m)
          /\ (m <= AluBits /\ ArmAlu!BIT(v, m - 1)) = ThumbAlu!BIT(v, m - 1)
          /\ (IF m < AluBits THEN ArmAlu!BIT(v, m - 1) ELSE ArmAlu!BIT(v, AluBits - 1))
               = ThumbAlu!BIT(v, m - 1)
      <4>1. ~(m < AluBits) => m - 1 = AluBits - 1
        BY <1>5, <3>1
      <4>. QED BY <3>1, <3>3, <4>1
    <3>5. /\ (v * 2^m) % FullRange = ThumbAlu!Wrap(v * 2^m)
          /\ (ArmAlu!Signed(v) \div 2^m) % FullRange = ThumbAlu!Wrap(ThumbAlu!Signed(v) \div 2^m)
      BY SameBits, Zenon DEF ThumbAlu!Wrap, FullRange
    <3>. HIDE DEF m
    <3>6. CASE ty = "LSL"
      <4>1. ThumbBy(v, ty, m, cpu.c) = [v |-> ThumbAlu!Wrap(v * 2^m), c |-> ThumbAlu!BIT(v, AluBits - m)]
        BY <3>2, <3>4, <3>5, <3>6, Zenon DEF Pair
      <4>2. n # 0 /\ m = n
        BY <2>4, <3>1, <3>6
      <4>3. k = ThumbAlu!ShiftFlags(cpu, d,
                  [v |-> ThumbAlu!Wrap(v * 2^m), c |-> ThumbAlu!BIT(v, AluBits - m)])
        BY <2>1, <3>6, <4>2, Zenon DEF ThumbAlu!thumb_move_shifted
      <4>. QED BY <2>2, <4>1, <4>3, Zenon
    <3>7. CASE ty = "LSR"
      <4>1. ThumbBy(v, ty, m, cpu.c) = [v |-> v \div 2^m, c |-> ThumbAlu!BIT(v, m - 1)]
        BY <3>2, <3>4, <3>7, Zenon DEF Pair
      <4>3. k = ThumbAlu!ShiftFlags(cpu, d, [v |-> v \div 2^sh, c |-> ThumbAlu!BIT(v, sh - 1)])
        BY <2>1, <3>7, Zenon DEF ThumbAlu!thumb_move_shifted
      <4>. HIDE DEF sh
      <4>. QED BY <2>2, <3>1, <4>1, <4>3, Zenon
    <3>8. CASE ty = "ASR"
      <4>1. ThumbBy(v, ty, m, cpu.c)
              = [v |-> ThumbAlu!Wrap(ThumbAlu!Signed(v) \div 2^m), c |-> ThumbAlu!BIT(v, m - 1)]
        BY <3>2, <3>4, <3>5, <3>8, Zenon DEF Pair
      <4>3. k = ThumbAlu!ShiftFlags(cpu, d,
                  [v |-> ThumbAlu!Wrap(ThumbAlu!Signed(v) \div 2^sh), c |-> ThumbAlu!BIT(v, sh - 1)])
        BY <2>1, <3>8, Zenon DEF ThumbAlu!thumb_move_shifted
      <4>. HIDE DEF sh
      <4>. QED BY <2>2, <3>1, <4>1, <4>3, Zenon
    <3>. QED BY <3>6, <3>7, <3>8
  <2>. QED BY <2>3, <2>4
<1>. HIDE DEF k, o, v, m
<1>9. Agree(k, ArmAlu!arm_data_processing(twin, DpS("MOV", d, d, o)), spec)
  BY <1>4, <1>5, <1>6, <1>7, <1>8, ShiftAgrees
<1>. QED BY <1>2, <1>9, Zenon

(* Sums and differences agree, the carry included.                         *)
LEMMA SumAgrees ==
  ASSUME Agree(cpu, twin, spec), NEW op, op \notin ArmAlu!LogicalOps, NEW s \in BOOLEAN,
         NEW d \in Low, NEW n \in Low, NEW o, NEW b, OperandIs(twin, o, b, twin.c),
         NEW x \in Values, NEW y \in Values, NEW e \in {0, 1},
         NEW rd, op \in ArmAlu!TestOps => rd = ThumbAlu!NoReg, op \notin ArmAlu!TestOps => s /\ rd = d
  PROVE  LET l == ArmAlu!arm_data_processing(twin, Dp(op, s, d, n, o)) IN
         /\ ArmSum(twin, op, n, b) = ArmAlu!Add(x, y, e) =>
              Agree(ThumbAlu!AddFlags(cpu, rd, x, y, e), l, TRUE)
         /\ ArmSum(twin, op, n, b) = ArmAlu!Sub(x, y, e) =>
              Agree(ThumbAlu!SubFlags(cpu, rd, x, y, e), l, TRUE)
<1>. DEFINE a == ArmSum(twin, op, n, b)
            l == ArmAlu!arm_data_processing(twin, Dp(op, s, d, n, o))
<1>1. cpu \in TwinCpus /\ twin \in TwinCpus
  BY DEF Agree
<1>2. twin.c \in BOOLEAN
  BY <1>1, TwinParts
<1>3. ASSUME NEW k, IsSum(a),
             op \in ArmAlu!TestOps => Flagged(k, cpu.r, a.x, a.c, a.v),
             op \notin ArmAlu!TestOps => ThumbResult(k, cpu, d, a.x, a.c, a.v)
      PROVE  Agree(k, l, TRUE)
  <2>. DEFINE j == a
  <2>1. j = ArmSum(twin, op, n, b)
    OBVIOUS
  <2>2. IsSum(j) /\ (op \in ArmAlu!TestOps => Flagged(k, cpu.r, j.x, j.c, j.v))
        /\ (op \notin ArmAlu!TestOps => s /\ ThumbResult(k, cpu, d, j.x, j.c, j.v))
    BY <1>3
  <2>. HIDE DEF j
  <2>. QED BY <1>2, <2>1, <2>2, TwinArith, Zenon
<1>. HIDE DEF a, l
<1>4. ASSUME a = ArmAlu!Add(x, y, e) PROVE Agree(ThumbAlu!AddFlags(cpu, rd, x, y, e), l, TRUE)
  <2>. DEFINE k == ThumbAlu!AddFlags(cpu, rd, x, y, e)
  <2>1. /\ IsSum(a)
        /\ op \in ArmAlu!TestOps => Flagged(k, cpu.r, a.x, a.c, a.v)
        /\ op \notin ArmAlu!TestOps => ThumbResult(k, cpu, d, a.x, a.c, a.v)
    BY <1>1, <1>4, TwinSums, ThumbArithmetic
  <2>. HIDE DEF k
  <2>2. Agree(k, l, TRUE)
    BY <1>3, <2>1, Zenon
  <2>. QED BY <2>2 DEF k
<1>5. ASSUME a = ArmAlu!Sub(x, y, e) PROVE Agree(ThumbAlu!SubFlags(cpu, rd, x, y, e), l, TRUE)
  <2>. DEFINE k == ThumbAlu!SubFlags(cpu, rd, x, y, e)
  <2>1. /\ IsSum(a)
        /\ op \in ArmAlu!TestOps => Flagged(k, cpu.r, a.x, a.c, a.v)
        /\ op \notin ArmAlu!TestOps => ThumbResult(k, cpu, d, a.x, a.c, a.v)
    BY <1>1, <1>5, TwinSums, ThumbArithmetic
  <2>. HIDE DEF k
  <2>2. Agree(k, l, TRUE)
    BY <1>3, <2>1, Zenon
  <2>. QED BY <2>2 DEF k
<1>. QED BY <1>4, <1>5, Zenon DEF a, l

(* Logical results agree, in the carry if it did before.                   *)
LEMMA LogicAgrees ==
  ASSUME Agree(cpu, twin, spec), NEW op \in ArmAlu!LogicalOps,
         NEW d \in Low, NEW n \in Low, NEW o, NEW b, OperandIs(twin, o, b, twin.c),
         NEW x \in Values, x = ArmAlu!Logical(op, twin.r[n], b),
         NEW rd, op \in ArmAlu!TestOps => rd = ThumbAlu!NoReg, op \notin ArmAlu!TestOps => rd = d
  PROVE  Agree(ThumbAlu!LogicFlags(cpu, rd, x),
               ArmAlu!arm_data_processing(twin, DpS(op, d, n, o)), spec)
<1>. DEFINE k == ThumbAlu!LogicFlags(cpu, rd, x)
            c == twin.c
            e == cpu.c
<1>1. cpu \in TwinCpus /\ twin \in TwinCpus /\ (spec => e = c)
  BY DEF Agree
<1>2. c \in BOOLEAN /\ e \in BOOLEAN
  BY <1>1, TwinParts
<1>3. /\ op \in ArmAlu!TestOps => Flagged(k, cpu.r, x, e, cpu.v)
      /\ op \notin ArmAlu!TestOps => ThumbResult(k, cpu, d, x, e, cpu.v)
  BY <1>1, <1>2, ThumbLogic
<1>4. OperandIs(twin, o, b, c)
  OBVIOUS
<1>. HIDE DEF k, c, e
<1>5. Agree(k, ArmAlu!arm_data_processing(twin, Dp(op, TRUE, d, n, o)), spec)
  BY <1>1, <1>2, <1>3, <1>4, TwinLogic
<1>. QED BY <1>5, Zenon DEF k, DpS

(* Which of the twins leave a carry that both know.                        *)
Known(tw) == ~IsMul(tw) /\ (spec \/ SetsCarry(tw))
LEMMA Weaker ==
  ASSUME NEW k, NEW l, NEW e, NEW f, Agree(k, l, e), f => e
  PROVE  Agree(k, l, f)
  BY DEF Agree
LEMMA KnownTwins ==
  ASSUME NEW f, NEW i, NEW op, NEW d, NEW n, NEW o
  PROVE  /\ Known(Twin(f, i, DpS(op, d, n, o))) => spec \/ op \notin ArmAlu!LogicalOps
         /\ Known(Twin(f, i, DpNo(op, d, n, o))) => spec
<1>1. /\ Twin(f, i, DpS(op, d, n, o)).a.opcode = op
      /\ Twin(f, i, DpNo(op, d, n, o)).a.s = FALSE
  BY DEF Twin, DpS, DpNo, Dp
<1>. QED BY <1>1, Zenon DEF Known, SetsCarry

(* Format 3.                                                               *)
ImmThumb(op, d, x) == [op |-> op, rd |-> d, imm8 |-> x]
LEMMA MovCmpAddSubAgrees ==
  ASSUME Agree(cpu, twin, spec), NEW tw \in MovCmpAddSub
  PROVE  Agree(RunThumbAlu(tw), RunArmAlu(tw.a), Known(tw))
<1>1. PICK op \in {"MOV", "CMP", "ADD", "SUB"}, d \in Low, x \in Values : tw = ImmTwin(op, d, x)
  BY DEF MovCmpAddSub, ArmAlu!Word, Values, FullRange
<1>. DEFINE i == ImmThumb(op, d, x)
            o == ImmOp(x)
            k == ThumbAlu!thumb_mov_cmp_add_sub_imm(cpu, i)
            A == DpS(op, d, d, o)
            l == ArmAlu!arm_data_processing(twin, A)
            a == cpu.r[d]
<1>2. tw = Twin("mov_cmp_add_sub_imm", i, A)
  BY <1>1, Zenon DEF ImmTwin, ImmThumb, DpS
<1>3. RunThumbAlu(tw) = k /\ RunArmAlu(tw.a) = l
  <2>1. A.kind = "dp"
    BY DpParts
  <2>. HIDE DEF i, o, A
  <2>. QED BY <1>2, <2>1, TwinRuns DEF A
<1>4. cpu \in TwinCpus /\ twin \in TwinCpus /\ cpu.r = twin.r
  BY DEF Agree
<1>5. a \in Values /\ a = twin.r[d]
  BY <1>4, TwinParts
<1>6. OperandIs(twin, o, x, twin.c)
  BY <1>4, Operand2
<1>7. i.op = op /\ i.rd = d /\ i.imm8 = x
  BY DEF ImmThumb
<1>8. ArmSum(twin, op, d, x) = ArmAlu!Arithmetic(op, a, x, Unit(twin.c))
  BY <1>5 DEF ArmSum
<1>. HIDE DEF i, o, a
<1>9. CASE op = "MOV"
  <2>1. op \in ArmAlu!LogicalOps /\ op \notin ArmAlu!TestOps /\ x = ArmAlu!Logical(op, twin.r[d], x)
    BY <1>9 DEF ArmAlu!LogicalOps, ArmAlu!TestOps, ArmAlu!Logical
  <2>2. k = ThumbAlu!LogicFlags(cpu, d, x)
    BY <1>7, <1>9, Zenon DEF ThumbAlu!thumb_mov_cmp_add_sub_imm
  <2>3. Agree(k, l, spec)
    BY <1>6, <2>1, <2>2, LogicAgrees
  <2>4. Known(tw) => spec
    BY <1>2, <2>1, KnownTwins
  <2>. QED BY <1>3, <2>3, <2>4, Weaker, Zenon
<1>10. CASE op = "CMP"
  <2>1. op \notin ArmAlu!LogicalOps /\ op \in ArmAlu!TestOps
    BY <1>10 DEF ArmAlu!LogicalOps, ArmAlu!TestOps
  <2>2. k = ThumbAlu!SubFlags(cpu, ThumbAlu!NoReg, a, x, 1)
    BY <1>7, <1>10, Zenon DEF ThumbAlu!thumb_mov_cmp_add_sub_imm, a
  <2>3. ArmSum(twin, op, d, x) = ArmAlu!Sub(a, x, 1)
    BY <1>8, <1>10 DEF ArmAlu!Arithmetic
  <2>4. Agree(k, l, TRUE)
    BY <1>5, <1>6, <2>1, <2>2, <2>3, SumAgrees DEF DpS
  <2>. QED BY <1>3, <2>4, Weaker, Zenon
<1>11. CASE op = "ADD"
  <2>1. op \notin ArmAlu!LogicalOps /\ op \notin ArmAlu!TestOps
    BY <1>11 DEF ArmAlu!LogicalOps, ArmAlu!TestOps
  <2>2. k = ThumbAlu!AddFlags(cpu, d, a, x, 0)
    BY <1>7, <1>11, Zenon DEF ThumbAlu!thumb_mov_cmp_add_sub_imm, a
  <2>3. ArmSum(twin, op, d, x) = ArmAlu!Add(a, x, 0)
    BY <1>8, <1>11 DEF ArmAlu!Arithmetic
  <2>4. Agree(k, l, TRUE)
    BY <1>5, <1>6, <2>1, <2>2, <2>3, SumAgrees DEF DpS
  <2>. QED BY <1>3, <2>4, Weaker, Zenon
<1>12. CASE op = "SUB"
  <2>1. op \notin ArmAlu!LogicalOps /\ op \notin ArmAlu!TestOps
    BY <1>12 DEF ArmAlu!LogicalOps, ArmAlu!TestOps
  <2>2. k = ThumbAlu!SubFlags(cpu, d, a, x, 1)
    BY <1>7, <1>12, Zenon DEF ThumbAlu!thumb_mov_cmp_add_sub_imm, a
  <2>3. ArmSum(twin, op, d, x) = ArmAlu!Sub(a, x, 1)
    BY <1>8, <1>12 DEF ArmAlu!Arithmetic
  <2>4. Agree(k, l, TRUE)
    BY <1>5, <1>6, <2>1, <2>2, <2>3, SumAgrees DEF DpS
  <2>. QED BY <1>3, <2>4, Weaker, Zenon
<1>. QED BY <1>9, <1>10, <1>11, <1>12

(* Format 4: the sixteen operations of the ALU.                            *)
AluThumb(op, s, d)  == [op |-> op, rs |-> s, rd |-> d]
ByReg(op, s, d)     == [kind |-> "shift", rm |-> d, type |-> op, rs |-> s]
ThumbAluOp(op, s, d) == ThumbAlu!thumb_alu(cpu, AluThumb(op, s, d))
LEMMA AluRunsThumb ==
  ASSUME NEW op, NEW s, NEW d
  PROVE  RunThumbAlu(AluTwin(op, s, d)) = ThumbAluOp(op, s, d)
<1>. DEFINE i == AluThumb(op, s, d)
            A == AluOf(op, s, d)
<1>1. AluTwin(op, s, d) = Twin("alu", i, A)
  BY Zenon DEF AluTwin, AluThumb
<1>. HIDE DEF i, A
<1>2. RunThumbAlu(Twin("alu", i, A)) = ThumbAlu!thumb_alu(cpu, i)
  BY TwinRuns
<1>. QED BY <1>1, <1>2, Zenon DEF ThumbAluOp, i
LEMMA AluDpRuns ==
  ASSUME NEW op, NEW s, NEW d, NEW f, NEW n, NEW o, AluOf(op, s, d) = DpS(f, d, n, o)
  PROVE  /\ RunArmAlu(AluTwin(op, s, d).a) = ArmAlu!arm_data_processing(twin, DpS(f, d, n, o))
         /\ Known(AluTwin(op, s, d)) => spec \/ f \notin ArmAlu!LogicalOps
<1>. DEFINE A == DpS(f, d, n, o)
            i == AluThumb(op, s, d)
<1>1. AluTwin(op, s, d) = Twin("alu", i, A)
  BY Zenon DEF AluTwin, AluThumb
<1>2. A.kind = "dp"
  BY DpParts
<1>3. Known(Twin("alu", i, A)) => spec \/ f \notin ArmAlu!LogicalOps
  BY KnownTwins, Zenon
<1>. HIDE DEF A, i
<1>4. Twin("alu", i, A).a = A /\ RunArmAlu(A) = ArmAlu!arm_data_processing(twin, A)
  BY <1>2, TwinRuns
<1>. QED BY <1>1, <1>3, <1>4, Zenon DEF A

(* What both processors hold in the two registers of the instruction.      *)
Operands2(s, d) ==
  /\ cpu \in TwinCpus /\ twin \in TwinCpus /\ cpu.r = twin.r
  /\ cpu.r[s] \in Values /\ cpu.r[d] \in Values /\ cpu.c \in BOOLEAN /\ twin.c \in BOOLEAN
LEMMA BothOperands ==
  ASSUME Agree(cpu, twin, spec), NEW s \in Low, NEW d \in Low
  PROVE  Operands2(s, d)
<1>1. cpu \in TwinCpus /\ twin \in TwinCpus /\ cpu.r = twin.r
  BY DEF Agree
<1>2. cpu.r \in [Low -> Values] /\ cpu.c \in BOOLEAN /\ twin.c \in BOOLEAN
  BY <1>1, TwinParts
<1>. QED BY <1>1, <1>2 DEF Operands2
AluArgs(i, op, s, d) == i.op = op /\ i.rs = s /\ i.rd = d

LEMMA AluShiftAgrees ==
  ASSUME Agree(cpu, twin, spec), NEW op \in ThumbAlu!ShiftOps, NEW s \in Low, NEW d \in Low
  PROVE  LET tw == AluTwin(op, s, d) IN Agree(RunThumbAlu(tw), RunArmAlu(tw.a), Known(tw))
<1>. DEFINE tw == AluTwin(op, s, d)
            o == ByReg(op, s, d)
            l == ArmAlu!arm_data_processing(twin, DpS("MOV", d, d, o))
            v == cpu.r[d]
            n == cpu.r[s]
            i == AluThumb(op, s, d)
<1>1. AluOf(op, s, d) = DpS("MOV", d, d, o)
  <2>1. op # "NEG" /\ op # "MUL"
    BY DEF ThumbAlu!ShiftOps
  <2>. QED BY <2>1, Zenon DEF AluOf, DpS, ByReg
<1>2. RunArmAlu(tw.a) = l /\ (Known(tw) => spec)
  <2>1. "MOV" \in ArmAlu!LogicalOps
    BY DEF ArmAlu!LogicalOps
  <2>. HIDE DEF o
  <2>. QED BY <1>1, <2>1, AluDpRuns
<1>3. RunThumbAlu(tw) = ThumbAlu!thumb_alu(cpu, i)
  BY AluRunsThumb, Zenon DEF ThumbAluOp
<1>4. AluArgs(i, op, s, d)
  BY DEF AluThumb, AluArgs
<1>. HIDE DEF i
<1>5. Operands2(s, d)
  BY BothOperands
<1>6. op \in ArmAlu!Shift /\ op \in {"LSL", "LSR", "ASR", "ROR"}
  BY DEF ThumbAlu!ShiftOps, ArmAlu!Shift
<1>7. n % FullRange = n /\ Beyond(n) /\ v \in Values
  <2>1. n \in Values /\ v \in Values
    BY <1>5 DEF Operands2
  <2>2. n % FullRange = n
    <3>1. FullRange \in Nat /\ FullRange > 0
      BY Powers
    <3>. HIDE DEF n
    <3>. QED BY <2>1, <3>1 DEF Values
  <2>. QED BY <2>1, <2>2, Amounts
<1>8. ArmAlu!decode_dp_operand2(twin, o) = By(v, op, n, twin.c)
  <2>1. twin \in TwinCpus /\ cpu.r = twin.r
    BY <1>5 DEF Operands2
  <2>2. ArmAlu!decode_dp_operand2(twin, o) = By(twin.r[d], op, twin.r[s] % FullRange, twin.c)
    BY <2>1, Operand2, Zenon DEF ByReg
  <2>. QED BY <1>7, <2>1, <2>2, Zenon
<1>9. ThumbAlu!thumb_alu(cpu, i) = ThumbAlu!ShiftFlags(cpu, d, By(v, op, n, cpu.c))
  <2>1. ThumbBy(v, op, n, cpu.c) = By(v, op, n, cpu.c)
    BY <1>5, <1>6, <1>7, ThumbShifter DEF Operands2
  <2>2. ThumbAlu!thumb_alu(cpu, i) = ThumbAlu!ShiftFlags(cpu, d, ThumbBy(v, op, n % FullRange, cpu.c))
    <3>1. CASE op = "LSL"
      BY <1>4, <3>1, Zenon DEF ThumbAlu!thumb_alu, ThumbAlu!ShiftOps, AluArgs, ThumbBy, FullRange
    <3>2. CASE op = "LSR"
      BY <1>4, <3>2, Zenon DEF ThumbAlu!thumb_alu, ThumbAlu!ShiftOps, AluArgs, ThumbBy, FullRange
    <3>3. CASE op = "ASR"
      BY <1>4, <3>3, Zenon DEF ThumbAlu!thumb_alu, ThumbAlu!ShiftOps, AluArgs, ThumbBy, FullRange
    <3>4. CASE op = "ROR"
      BY <1>4, <3>4, Zenon DEF ThumbAlu!thumb_alu, ThumbAlu!ShiftOps, AluArgs, ThumbBy, FullRange
    <3>. QED BY <1>6, <3>1, <3>2, <3>3, <3>4, Zenon
  <2>. QED BY <1>7, <2>1, <2>2, Zenon
<1>. HIDE DEF tw, o, v, n
<1>10. Agree(ThumbAlu!ShiftFlags(cpu, d, By(v, op, n, cpu.c)), l, spec)
  BY <1>6, <1>7, <1>8, ShiftAgrees, Zenon
<1>. HIDE DEF l
<1>11. Agree(RunThumbAlu(tw), RunArmAlu(tw.a), Known(tw))
  BY <1>2, <1>3, <1>9, <1>10, Weaker, Zenon
<1>. QED BY <1>11 DEF tw

(* One operation other than a shift or MUL: the ARM instruction has the    *)
(* same name, but for NEG.                                                 *)
LEMMA AluSame ==
  ASSUME NEW op \in {"AND", "EOR", "ADC", "SBC", "TST", "CMP", "CMN", "ORR", "BIC", "MVN"},
         NEW s, NEW d
  PROVE  AluOf(op, s, d) = DpS(op, d, d, RegOp(s))
<1>1. op \notin ThumbAlu!ShiftOps /\ op # "NEG" /\ op # "MUL"
  BY DEF ThumbAlu!ShiftOps
<1>. QED BY <1>1, Zenon DEF AluOf, DpS

LEMMA AluSumAgrees ==
  ASSUME Agree(cpu, twin, spec), NEW op \in {"ADC", "SBC", "CMP", "CMN"}, NEW s \in Low, NEW d \in Low,
         op \in {"ADC", "SBC"} => spec
  PROVE  LET tw == AluTwin(op, s, d) IN Agree(RunThumbAlu(tw), RunArmAlu(tw.a), Known(tw))
<1>. DEFINE tw == AluTwin(op, s, d)
            o == RegOp(s)
            l == ArmAlu!arm_data_processing(twin, DpS(op, d, d, o))
            a == cpu.r[d]
            b == cpu.r[s]
            u == Unit(cpu.c)
            i == AluThumb(op, s, d)
            k == ThumbAlu!thumb_alu(cpu, i)
<1>1. AluOf(op, s, d) = DpS(op, d, d, o)
  BY AluSame
<1>2. RunArmAlu(tw.a) = l
  BY <1>1, AluDpRuns
<1>3. RunThumbAlu(tw) = k
  BY AluRunsThumb, Zenon DEF ThumbAluOp
<1>4. AluArgs(i, op, s, d)
  BY DEF AluThumb, AluArgs
<1>. HIDE DEF i
<1>5. Operands2(s, d)
  BY BothOperands
<1>6. a \in Values /\ b \in Values /\ u \in {0, 1} /\ a = twin.r[d] /\ OperandIs(twin, o, b, twin.c)
  <2>1. OperandIs(twin, o, twin.r[s], twin.c)
    BY <1>5, Operand2 DEF Operands2
  <2>. QED BY <1>5, <2>1 DEF Operands2, Unit
<1>7. op \in {"ADC", "SBC"} => Unit(twin.c) = u
  BY DEF Agree
<1>8. ArmSum(twin, op, d, b) = ArmAlu!Arithmetic(op, a, b, Unit(twin.c))
  BY <1>6 DEF ArmSum
<1>9. op \notin ArmAlu!LogicalOps
  BY DEF ArmAlu!LogicalOps
<1>10. Agree(k, l, TRUE)
  <2>1. CASE op = "ADC"
    <3>1. k = ThumbAlu!AddFlags(cpu, d, a, b, u)
      BY <1>4, <2>1, Zenon DEF ThumbAlu!thumb_alu, ThumbAlu!ShiftOps, AluArgs, Unit
    <3>2. ArmSum(twin, op, d, b) = ArmAlu!Add(a, b, u)
      BY <1>7, <1>8, <2>1 DEF ArmAlu!Arithmetic
    <3>3. op \notin ArmAlu!TestOps
      BY <2>1 DEF ArmAlu!TestOps
    <3>. HIDE DEF o, a, b, u, k
    <3>. QED BY <1>6, <1>9, <3>1, <3>2, <3>3, SumAgrees DEF DpS
  <2>2. CASE op = "SBC"
    <3>1. k = ThumbAlu!SubFlags(cpu, d, a, b, u)
      BY <1>4, <2>2, Zenon DEF ThumbAlu!thumb_alu, ThumbAlu!ShiftOps, AluArgs, Unit
    <3>2. ArmSum(twin, op, d, b) = ArmAlu!Sub(a, b, u)
      BY <1>7, <1>8, <2>2 DEF ArmAlu!Arithmetic
    <3>3. op \notin ArmAlu!TestOps
      BY <2>2 DEF ArmAlu!TestOps
    <3>. HIDE DEF o, a, b, u, k
    <3>. QED BY <1>6, <1>9, <3>1, <3>2, <3>3, SumAgrees DEF DpS
  <2>3. CASE op = "CMP"
    <3>1. k = ThumbAlu!SubFlags(cpu, ThumbAlu!NoReg, a, b, 1)
      BY <1>4, <2>3, Zenon DEF ThumbAlu!thumb_alu, ThumbAlu!ShiftOps, AluArgs, Unit
    <3>2. ArmSum(twin, op, d, b) = ArmAlu!Sub(a, b, 1)
      BY <1>7, <1>8, <2>3 DEF ArmAlu!Arithmetic
    <3>3. op \in ArmAlu!TestOps
      BY <2>3 DEF ArmAlu!TestOps
    <3>. HIDE DEF o, a, b, u, k
    <3>. QED BY <1>6, <1>9, <3>1, <3>2, <3>3, SumAgrees DEF DpS
  <2>4. CASE op = "CMN"
    <3>1. k = ThumbAlu!AddFlags(cpu, ThumbAlu!NoReg, a, b, 0)
      BY <1>4, <2>4, Zenon DEF ThumbAlu!thumb_alu, ThumbAlu!ShiftOps, AluArgs, Unit
    <3>2. ArmSum(twin, op, d, b) = ArmAlu!Add(a, b, 0)
      BY <1>7, <1>8, <2>4 DEF ArmAlu!Arithmetic
    <3>3. op \in ArmAlu!TestOps
      BY <2>4 DEF ArmAlu!TestOps
    <3>. HIDE DEF o, a, b, u, k
    <3>. QED BY <1>6, <1>9, <3>1, <3>2, <3>3, SumAgrees DEF DpS
  <2>. QED BY <2>1, <2>2, <2>3, <2>4
<1>. HIDE DEF tw, l, k
<1>11. Agree(RunThumbAlu(tw), RunArmAlu(tw.a), Known(tw))
  BY <1>2, <1>3, <1>10, Weaker, Zenon
<1>. QED BY <1>11 DEF tw

LEMMA NegAgrees ==
  ASSUME Agree(cpu, twin, spec), NEW s \in Low, NEW d \in Low
  PROVE  LET tw == AluTwin("NEG", s, d) IN Agree(RunThumbAlu(tw), RunArmAlu(tw.a), Known(tw))
<1>. DEFINE tw == AluTwin("NEG", s, d)
            o == ImmOp(0)
            l == ArmAlu!arm_data_processing(twin, DpS("RSB", d, s, o))
            b == cpu.r[s]
            i == AluThumb("NEG", s, d)
            k == ThumbAlu!thumb_alu(cpu, i)
<1>1. AluOf("NEG", s, d) = DpS("RSB", d, s, o)
  <2>1. "NEG" \notin ThumbAlu!ShiftOps
    BY DEF ThumbAlu!ShiftOps
  <2>. QED BY <2>1, Zenon DEF AluOf, DpS
<1>2. RunArmAlu(tw.a) = l
  BY <1>1, AluDpRuns
<1>3. RunThumbAlu(tw) = k
  BY AluRunsThumb, Zenon DEF ThumbAluOp
<1>4. AluArgs(i, "NEG", s, d)
  BY DEF AluThumb, AluArgs
<1>. HIDE DEF i
<1>5. Operands2(s, d)
  BY BothOperands
<1>6. 0 \in Values /\ b \in Values /\ b = twin.r[s] /\ OperandIs(twin, o, 0, twin.c)
  <2>1. 0 \in Values
    BY Powers DEF Values
  <2>. QED BY <1>5, <2>1, Operand2 DEF Operands2
<1>7. "RSB" \notin ArmAlu!LogicalOps /\ "RSB" \notin ArmAlu!TestOps
  BY DEF ArmAlu!LogicalOps, ArmAlu!TestOps
<1>8. k = ThumbAlu!SubFlags(cpu, d, 0, b, 1)
  BY <1>4, Zenon DEF ThumbAlu!thumb_alu, ThumbAlu!ShiftOps, AluArgs
<1>9. ArmSum(twin, "RSB", s, 0) = ArmAlu!Sub(0, b, 1)
  BY <1>6 DEF ArmSum, ArmAlu!Arithmetic
<1>. HIDE DEF o, b, k
<1>10. Agree(k, l, TRUE)
  BY <1>6, <1>7, <1>8, <1>9, SumAgrees DEF DpS
<1>. HIDE DEF tw, l
<1>11. Agree(RunThumbAlu(tw), RunArmAlu(tw.a), Known(tw))
  BY <1>2, <1>3, <1>10, Weaker, Zenon
<1>. QED BY <1>11 DEF tw

(* The logical operations give a register's value.                         *)
LEMMA LogicInWord ==
  ASSUME NEW a \in Values, NEW b \in Values
  PROVE  /\ ArmAlu!Not(b) \in Values
         /\ \A y : ArmAlu!And(a, y) \in Values /\ ArmAlu!Or(a, y) \in Values /\ ArmAlu!Xor(a, y) \in Values
<1>1. FullRange \in Nat /\ FullRange > 0
  BY Powers
<1>2. ArmAlu!Not(b) \in Values
  BY <1>1 DEF Values, ArmAlu!Not, FullRange
<1>3. \A y : ArmAlu!And(a, y) \in Values /\ ArmAlu!Or(a, y) \in Values /\ ArmAlu!Xor(a, y) \in Values
  BY FromBitsInWord, Zenon DEF ArmAlu!And, ArmAlu!Or, ArmAlu!Xor
<1>. QED BY <1>2, <1>3

LEMMA AluLogicAgrees ==
  ASSUME Agree(cpu, twin, spec), NEW op \in {"AND", "EOR", "TST", "ORR", "BIC", "MVN"},
         NEW s \in Low, NEW d \in Low
  PROVE  LET tw == AluTwin(op, s, d) IN Agree(RunThumbAlu(tw), RunArmAlu(tw.a), Known(tw))
<1>. DEFINE tw == AluTwin(op, s, d)
            o == RegOp(s)
            l == ArmAlu!arm_data_processing(twin, DpS(op, d, d, o))
            a == cpu.r[d]
            b == cpu.r[s]
            i == AluThumb(op, s, d)
            k == ThumbAlu!thumb_alu(cpu, i)
            x == ArmAlu!Logical(op, a, b)
<1>1. AluOf(op, s, d) = DpS(op, d, d, o)
  BY AluSame
<1>2. op \in ArmAlu!LogicalOps
  BY DEF ArmAlu!LogicalOps
<1>3. RunArmAlu(tw.a) = l /\ (Known(tw) => spec)
  BY <1>1, <1>2, AluDpRuns
<1>4. RunThumbAlu(tw) = k
  BY AluRunsThumb, Zenon DEF ThumbAluOp
<1>5. AluArgs(i, op, s, d)
  BY DEF AluThumb, AluArgs
<1>. HIDE DEF i
<1>6. Operands2(s, d)
  BY BothOperands
<1>7. a \in Values /\ b \in Values /\ a = twin.r[d] /\ OperandIs(twin, o, b, twin.c)
  <2>1. OperandIs(twin, o, twin.r[s], twin.c)
    BY <1>6, Operand2 DEF Operands2
  <2>. QED BY <1>6, <2>1 DEF Operands2
<1>8. x = ArmAlu!Logical(op, twin.r[d], b)
  BY <1>7
<1>9. ThumbAlu!Not(b) = ArmAlu!Not(b)
  BY SameBits
<1>10. \A y : /\ ThumbAlu!And(a, y) = ArmAlu!And(a, y) /\ ThumbAlu!Or(a, y) = ArmAlu!Or(a, y)
              /\ ThumbAlu!Xor(a, y) = ArmAlu!Xor(a, y)
  BY SameBits
<1>11. Agree(k, l, spec)
  <2>1. CASE op = "AND"
    <3>1. k = ThumbAlu!LogicFlags(cpu, d, ThumbAlu!And(a, b))
      BY <1>5, <2>1, Zenon DEF ThumbAlu!thumb_alu, ThumbAlu!ShiftOps, AluArgs
    <3>2. x = ArmAlu!And(a, b)
      BY <2>1, Zenon DEF ArmAlu!Logical
    <3>3. k = ThumbAlu!LogicFlags(cpu, d, x)
      BY <1>9, <1>10, <3>1, <3>2, Zenon
    <3>4. x \in Values
      BY <1>7, <3>2, LogicInWord
    <3>5. op \notin ArmAlu!TestOps
      BY <2>1 DEF ArmAlu!TestOps
    <3>. HIDE DEF o, a, b, x, k
    <3>. QED BY <1>2, <1>7, <1>8, <3>3, <3>4, <3>5, LogicAgrees
  <2>2. CASE op = "EOR"
    <3>1. k = ThumbAlu!LogicFlags(cpu, d, ThumbAlu!Xor(a, b))
      BY <1>5, <2>2, Zenon DEF ThumbAlu!thumb_alu, ThumbAlu!ShiftOps, AluArgs
    <3>2. x = ArmAlu!Xor(a, b)
      BY <2>2, Zenon DEF ArmAlu!Logical
    <3>3. k = ThumbAlu!LogicFlags(cpu, d, x)
      BY <1>9, <1>10, <3>1, <3>2, Zenon
    <3>4. x \in Values
      BY <1>7, <3>2, LogicInWord
    <3>5. op \notin ArmAlu!TestOps
      BY <2>2 DEF ArmAlu!TestOps
    <3>. HIDE DEF o, a, b, x, k
    <3>. QED BY <1>2, <1>7, <1>8, <3>3, <3>4, <3>5, LogicAgrees
  <2>3. CASE op = "TST"
    <3>1. k = ThumbAlu!LogicFlags(cpu, ThumbAlu!NoReg, ThumbAlu!And(a, b))
      BY <1>5, <2>3, Zenon DEF ThumbAlu!thumb_alu, ThumbAlu!ShiftOps, AluArgs
    <3>2. x = ArmAlu!And(a, b)
      BY <2>3, Zenon DEF ArmAlu!Logical
    <3>3. k = ThumbAlu!LogicFlags(cpu, ThumbAlu!NoReg, x)
      BY <1>9, <1>10, <3>1, <3>2, Zenon
    <3>4. x \in Values
      BY <1>7, <3>2, LogicInWord
    <3>5. op \in ArmAlu!TestOps
      BY <2>3 DEF ArmAlu!TestOps
    <3>. HIDE DEF o, a, b, x, k
    <3>. QED BY <1>2, <1>7, <1>8, <3>3, <3>4, <3>5, LogicAgrees
  <2>4. CASE op = "ORR"
    <3>1. k = ThumbAlu!LogicFlags(cpu, d, ThumbAlu!Or(a, b))
      BY <1>5, <2>4, Zenon DEF ThumbAlu!thumb_alu, ThumbAlu!ShiftOps, AluArgs
    <3>2. x = ArmAlu!Or(a, b)
      BY <2>4, Zenon DEF ArmAlu!Logical
    <3>3. k = ThumbAlu!LogicFlags(cpu, d, x)
      BY <1>9, <1>10, <3>1, <3>2, Zenon
    <3>4. x \in Values
      BY <1>7, <3>2, LogicInWord
    <3>5. op \notin ArmAlu!TestOps
      BY <2>4 DEF ArmAlu!TestOps
    <3>. HIDE DEF o, a, b, x, k
    <3>. QED BY <1>2, <1>7, <1>8, <3>3, <3>4, <3>5, LogicAgrees
  <2>5. CASE op = "BIC"
    <3>1. k = ThumbAlu!LogicFlags(cpu, d, ThumbAlu!And(a, ThumbAlu!Not(b)))
      BY <1>5, <2>5, Zenon DEF ThumbAlu!thumb_alu, ThumbAlu!ShiftOps, AluArgs
    <3>2. x = ArmAlu!And(a, ArmAlu!Not(b))
      BY <2>5, Zenon DEF ArmAlu!Logical
    <3>3. k = ThumbAlu!LogicFlags(cpu, d, x)
      BY <1>9, <1>10, <3>1, <3>2, Zenon
    <3>4. x \in Values
      BY <1>7, <3>2, LogicInWord
    <3>5. op \notin ArmAlu!TestOps
      BY <2>5 DEF ArmAlu!TestOps
    <3>. HIDE DEF o, a, b, x, k
    <3>. QED BY <1>2, <1>7, <1>8, <3>3, <3>4, <3>5, LogicAgrees
  <2>6. CASE op = "MVN"
    <3>1. k = ThumbAlu!LogicFlags(cpu, d, ThumbAlu!Not(b))
      BY <1>5, <2>6, Zenon DEF ThumbAlu!thumb_alu, ThumbAlu!ShiftOps, AluArgs
    <3>2. x = ArmAlu!Not(b)
      BY <2>6, Zenon DEF ArmAlu!Logical
    <3>3. k = ThumbAlu!LogicFlags(cpu, d, x)
      BY <1>9, <1>10, <3>1, <3>2, Zenon
    <3>4. x \in Values
      BY <1>7, <3>2, LogicInWord
    <3>5. op \notin ArmAlu!TestOps
      BY <2>6 DEF ArmAlu!TestOps
    <3>. HIDE DEF o, a, b, x, k
    <3>. QED BY <1>2, <1>7, <1>8, <3>3, <3>4, <3>5, LogicAgrees
  <2>. QED BY <2>1, <2>2, <2>3, <2>4, <2>5, <2>6
<1>. HIDE DEF tw, l, k
<1>12. Agree(RunThumbAlu(tw), RunArmAlu(tw.a), Known(tw))
  BY <1>3, <1>4, <1>11, Weaker, Zenon
<1>. QED BY <1>12 DEF tw

(* MUL: the same N and Z, another carry.                                   *)
MulOf(s, d) == [kind |-> "mul", accumulate |-> FALSE, s |-> TRUE,
                rd |-> d, rn |-> d, rs |-> s, rm |-> d]
LEMMA MulAgrees ==
  ASSUME Agree(cpu, twin, spec), NEW s \in Low, NEW d \in Low
  PROVE  LET tw == AluTwin("MUL", s, d) IN Agree(RunThumbAlu(tw), RunArmAlu(tw.a), Known(tw))
<1>. DEFINE tw == AluTwin("MUL", s, d)
            A == MulOf(s, d)
            l == ArmAlu!arm_multiply(twin, A)
            i == AluThumb("MUL", s, d)
            k == ThumbAlu!thumb_alu(cpu, i)
            a == cpu.r[d]
            b == cpu.r[s]
            x == ArmAlu!Wrap(a * b)
<1>1. tw = Twin("alu", i, A)
  <2>1. "MUL" \notin ThumbAlu!ShiftOps
    BY DEF ThumbAlu!ShiftOps
  <2>. QED BY <2>1, Zenon DEF AluTwin, AluThumb, AluOf, MulOf
<1>2. A.kind = "mul" /\ A.accumulate = FALSE /\ A.s = TRUE /\ A.rd = d /\ A.rs = s /\ A.rm = d
  BY DEF MulOf
<1>3. AluArgs(i, "MUL", s, d)
  BY DEF AluThumb, AluArgs
<1>. HIDE DEF i, A
<1>4. tw.a = A /\ RunArmAlu(tw.a) = l /\ RunThumbAlu(tw) = k
  <2>1. Twin("alu", i, A).a = A /\ RunArmAlu(A) = l /\ RunThumbAlu(Twin("alu", i, A)) = k
    BY <1>2, TwinRuns
  <2>. QED BY <1>1, <2>1, Zenon
<1>5. ~Known(tw)
  BY <1>2, <1>4, Zenon DEF Known, IsMul
<1>6. Operands2(s, d)
  BY BothOperands
<1>7. a \in Int /\ b \in Int /\ a = twin.r[d] /\ b = twin.r[s] /\ cpu \in TwinCpus /\ twin \in TwinCpus
      /\ cpu.r = twin.r /\ cpu.v = twin.v
  <2>1. FullRange \in Nat
    BY Powers
  <2>. QED BY <1>6, <2>1 DEF Operands2, Values, Agree
<1>8. x \in Values
  <2>. DEFINE y == a * b
  <2>1. y \in Int
    BY <1>7
  <2>. HIDE DEF y
  <2>2. ArmAlu!Wrap(y) \in Values
    BY <2>1, Wrapped
  <2>. QED BY <2>2 DEF y
<1>9. k = [ThumbAlu!LogicFlags(cpu, d, x) EXCEPT !.c = FALSE]
  <2>1. ThumbAlu!Wrap(a * b) = x
    BY Zenon DEF ThumbAlu!Wrap, ArmAlu!Wrap
  <2>2. k = [ThumbAlu!LogicFlags(cpu, d, ThumbAlu!Wrap(a * b)) EXCEPT !.c = FALSE]
    BY <1>3, Zenon DEF ThumbAlu!thumb_alu, ThumbAlu!ShiftOps, AluArgs
  <2>. QED BY <2>1, <2>2, Zenon
<1>10. l = ArmAlu!set_nz_flags([twin EXCEPT !.r[d] = x], x)
  <2>1. a * b + 0 = a * b
    BY <1>7
  <2>2. l = ArmAlu!set_nz_flags([twin EXCEPT !.r[d] = ArmAlu!Wrap(a * b + 0)], ArmAlu!Wrap(a * b + 0))
    BY <1>2, <1>7, Zenon DEF ArmAlu!arm_multiply
  <2>. QED BY <2>1, <2>2, Zenon
<1>. HIDE DEF k, l, x
<1>11. ThumbResult(k, cpu, d, x, FALSE, cpu.v)
  <2>. DEFINE m == ThumbAlu!LogicFlags(cpu, d, x)
  <2>1. cpu.c \in BOOLEAN
    BY <1>7, TwinParts
  <2>2. ThumbResult(m, cpu, d, x, cpu.c, cpu.v)
    BY <1>7, <1>8, <2>1, ThumbLogic
  <2>. HIDE DEF m
  <2>3. k = [m EXCEPT !.c = FALSE]
    BY <1>9 DEF m
  <2>4. m \in TwinCpus /\ Flagged(m, [cpu.r EXCEPT ![d] = x], x, cpu.c, cpu.v)
    BY <2>2 DEF ThumbResult, Flagged, Became
  <2>5. Flagged([m EXCEPT !.c = FALSE], [cpu.r EXCEPT ![d] = x], x, FALSE, cpu.v)
    BY <1>8, <2>4, TwinWrite
  <2>. QED BY <2>3, <2>5 DEF ThumbResult
<1>12. ThumbResult(l, twin, d, x, twin.c, twin.v)
  <2>. DEFINE m == [twin EXCEPT !.r[d] = x]
  <2>1. m \in TwinCpus /\ m.r = [twin.r EXCEPT ![d] = x] /\ m.c = twin.c /\ m.v = twin.v
        /\ m.c \in BOOLEAN /\ m.v \in BOOLEAN
    BY <1>7, <1>8 DEF TwinCpus
  <2>. HIDE DEF m
  <2>2. Flagged(ArmAlu!set_nz_flags(m, x), m.r, x, m.c, m.v)
    BY <2>1, TwinFlags
  <2>. QED BY <1>10, <2>1, <2>2 DEF ThumbResult, m
<1>13. Agree(k, l, FALSE)
  <2>. DEFINE R == [cpu.r EXCEPT ![d] = x]
              e == FALSE
  <2>1. Flagged(k, R, x, e, cpu.v) /\ Flagged(l, R, x, twin.c, cpu.v)
    BY <1>7, <1>11, <1>12 DEF ThumbResult
  <2>. HIDE DEF R, e
  <2>. QED BY <2>1, Lockstep
<1>14. Agree(RunThumbAlu(tw), RunArmAlu(tw.a), Known(tw))
  BY <1>4, <1>5, <1>13, Weaker, Zenon
<1>. QED BY <1>14, Zenon

LEMMA AluAgrees ==
  ASSUME Agree(cpu, twin, spec), NEW tw \in Alu, ReadsCarry(tw) => spec
  PROVE  Agree(RunThumbAlu(tw), RunArmAlu(tw.a), Known(tw))
<1>1. PICK op \in ThumbAlu!AluOps, s \in Low, d \in Low : tw = AluTwin(op, s, d)
  BY DEF Alu
<1>2. op \in {"ADC", "SBC"} => spec
  <2>. DEFINE i == AluThumb(op, s, d)
              A == AluOf(op, s, d)
  <2>1. tw = Twin("alu", i, A) /\ i.op = op
    BY <1>1 DEF AluTwin, AluThumb
  <2>. HIDE DEF i, A
  <2>2. tw.fmt = "alu" /\ tw.i = i
    BY <2>1 DEF Twin
  <2>. QED BY <2>1, <2>2, Zenon DEF ReadsCarry
<1>3. CASE op \in ThumbAlu!ShiftOps
  BY <1>1, <1>3, AluShiftAgrees
<1>4. CASE op \in {"AND", "EOR", "TST", "ORR", "BIC", "MVN"}
  BY <1>1, <1>4, AluLogicAgrees
<1>5. CASE op \in {"ADC", "SBC", "CMP", "CMN"}
  BY <1>1, <1>2, <1>5, AluSumAgrees
<1>6. CASE op = "NEG"
  BY <1>1, <1>6, NegAgrees
<1>7. CASE op = "MUL"
  BY <1>1, <1>7, MulAgrees
<1>. QED BY <1>3, <1>4, <1>5, <1>6, <1>7 DEF ThumbAlu!AluOps

(* Format 5: only CMP sets flags.                                          *)
LEMMA HiRegAgrees ==
  ASSUME Agree(cpu, twin, spec), NEW tw \in HiReg
  PROVE  Agree(RunThumbAlu(tw), RunArmAlu(tw.a), Known(tw))
<1>1. PICK op \in {"ADD", "CMP", "MOV"}, s \in Low, d \in Low : tw = HiTwin(op, s, d)
  BY DEF HiReg
<1>. DEFINE i == AluThumb(op, s, d)
            o == RegOp(s)
            k == ThumbAlu!thumb_hi_reg_bx(cpu, i)
            A == DpNo(op, d, d, o)
            l == ArmAlu!arm_data_processing(twin, A)
            a == cpu.r[d]
            b == cpu.r[s]
<1>2. tw = Twin("hi_reg_bx", i, A)
  BY <1>1, Zenon DEF HiTwin, AluThumb, DpNo
<1>3. RunThumbAlu(tw) = k /\ RunArmAlu(tw.a) = l /\ (Known(tw) => spec)
  <2>1. A.kind = "dp"
    BY DpParts
  <2>2. Known(Twin("hi_reg_bx", i, A)) => spec
    BY KnownTwins, Zenon
  <2>. HIDE DEF i, o, A
  <2>. QED BY <1>2, <2>1, <2>2, TwinRuns DEF A
<1>4. AluArgs(i, op, s, d)
  BY DEF AluThumb, AluArgs
<1>. HIDE DEF i
<1>5. Operands2(s, d)
  BY BothOperands
<1>6. a \in Values /\ b \in Values /\ a = twin.r[d] /\ b = twin.r[s] /\ twin \in TwinCpus
      /\ cpu \in TwinCpus /\ twin.c \in BOOLEAN /\ OperandIs(twin, o, b, twin.c)
  <2>1. OperandIs(twin, o, twin.r[s], twin.c)
    BY <1>5, Operand2 DEF Operands2
  <2>. QED BY <1>5, <2>1 DEF Operands2
<1>7. d # ThumbAlu!PC
  BY DEF Low, ThumbAlu!PC
<1>8. CASE op = "ADD"
  <2>. DEFINE x == ArmAlu!Wrap(a + b)
  <2>1. k = [cpu EXCEPT !.r[d] = x]
    BY <1>4, <1>7, <1>8, Zenon DEF ThumbAlu!thumb_hi_reg_bx, AluArgs, ThumbAlu!Wrap, ArmAlu!Wrap
  <2>2. op \notin ArmAlu!LogicalOps /\ op \notin ArmAlu!TestOps
    BY <1>8 DEF ArmAlu!LogicalOps, ArmAlu!TestOps
  <2>. DEFINE w == ArmSum(twin, op, d, b)
  <2>3. w = ArmAlu!Add(a, b, 0)
    BY <1>6, <1>8, Zenon DEF ArmSum, ArmAlu!Arithmetic
  <2>4. w.x = x /\ x \in Values /\ IsSum(w)
    <3>1. a + b + 0 = a + b /\ a + b \in Int
      <4>1. FullRange \in Nat
        BY Powers
      <4>. QED BY <1>6, <4>1 DEF Values
    <3>2. w.x = ArmAlu!Wrap(a + b + 0)
      BY <2>3 DEF ArmAlu!Add
    <3>3. IsSum(ArmAlu!Add(a, b, 0))
      BY <1>6, TwinSums
    <3>4. x \in Values
      BY <3>1, Wrapped
    <3>. QED BY <2>3, <3>1, <3>2, <3>3, <3>4, Zenon
  <2>5. Written(l, twin, d, w.x)
    BY <1>6, <2>2, <2>4, ArmData DEF DpNo
  <2>. HIDE DEF x, w
  <2>6. Written(k, cpu, d, x)
    BY <1>6, <2>1, <2>4, TwinWritten
  <2>7. Agree(k, l, spec)
    <3>. HIDE DEF k, l
    <3>1. Written(l, twin, d, x)
      BY <2>4, <2>5
    <3>. QED BY <2>6, <3>1, LockstepWritten
  <2>. QED BY <1>3, <2>7, Weaker, Zenon
<1>9. CASE op = "MOV"
  <2>1. k = [cpu EXCEPT !.r[d] = b]
    BY <1>4, <1>7, <1>9, Zenon DEF ThumbAlu!thumb_hi_reg_bx, AluArgs
  <2>2. op \in ArmAlu!LogicalOps /\ op \notin ArmAlu!TestOps /\ ArmAlu!Logical(op, twin.r[d], b) = b
    BY <1>9 DEF ArmAlu!LogicalOps, ArmAlu!TestOps, ArmAlu!Logical
  <2>3. Written(l, twin, d, b)
    BY <1>6, <2>2, ArmData DEF DpNo
  <2>4. Written(k, cpu, d, b)
    BY <1>6, <2>1, TwinWritten
  <2>. HIDE DEF k, l, b
  <2>5. Agree(k, l, spec)
    BY <2>3, <2>4, LockstepWritten
  <2>. QED BY <1>3, <2>5, Weaker, Zenon
<1>10. CASE op = "CMP"
  <2>1. k = ThumbAlu!SubFlags(cpu, ThumbAlu!NoReg, a, b, 1)
    BY <1>4, <1>10, Zenon DEF ThumbAlu!thumb_hi_reg_bx, AluArgs
  <2>2. op \notin ArmAlu!LogicalOps /\ op \in ArmAlu!TestOps
    BY <1>10 DEF ArmAlu!LogicalOps, ArmAlu!TestOps
  <2>3. ArmSum(twin, op, d, b) = ArmAlu!Sub(a, b, 1)
    BY <1>6, <1>10, Zenon DEF ArmSum, ArmAlu!Arithmetic
  <2>. HIDE DEF o, a, b, k
  <2>4. Agree(k, l, TRUE)
    BY <1>6, <2>1, <2>2, <2>3, SumAgrees DEF DpNo
  <2>. QED BY <1>3, <2>4, Weaker, Zenon
<1>. QED BY <1>8, <1>9, <1>10

-----------------------------------------------------------------------------
(* The arithmetic twins agree after every instruction.                     *)
TwinsInv == part = "twins" => Agree(cpu, twin, spec) /\ spec \in BOOLEAN

LEMMA TwinsStart ==
  IInit => TwinsInv
<1>. SUFFICES ASSUME IInit, part = "twins" PROVE Agree(cpu, twin, spec) /\ spec \in BOOLEAN
  BY DEF TwinsInv
<1>1. TwinsInit
  BY DEF IInit, WideInit, ShiftInit, TwinsInit, MemoryInit, ExpandInit, CallsInit, DecodeInit
<1>2. 0 \in Values
  BY Powers DEF Values, FullRange
<1>3. cpu \in TwinCpus
  BY <1>1, <1>2 DEF TwinsInit, Machine, TwinCpus
<1>4. twin = cpu /\ spec = TRUE
  BY <1>1 DEF TwinsInit
<1>. QED BY <1>3, <1>4 DEF Agree

LEMMA TwinsAgree ==
  ASSUME Agree(cpu, twin, spec), NEW tw \in AluTwins, ReadsCarry(tw) => spec
  PROVE  Agree(RunThumbAlu(tw), RunArmAlu(tw.a), Known(tw))
<1>1. CASE tw \in MoveShifted
  <2>1. PICK ty \in {"LSL", "LSR", "ASR"}, n \in 0 .. AluBits - 1, s \in Low, d \in Low :
          tw = ShiftTwin(ty, n, s, d)
    BY <1>1 DEF MoveShifted
  <2>2. tw = Twin("move_shifted", ShiftThumb(ty, n, s, d), DpS("MOV", d, d, Shifted(s, ty, n)))
    BY <2>1, Zenon DEF ShiftTwin, ShiftThumb, DpS
  <2>3. Known(tw) => spec \/ "MOV" \notin ArmAlu!LogicalOps
    BY <2>2, KnownTwins, Zenon
  <2>4. Known(tw) => spec
    BY <2>3, Zenon DEF ArmAlu!LogicalOps
  <2>. QED BY <1>1, <2>4, MoveShiftedAgrees, Weaker, Zenon
<1>2. CASE tw \in AddSubtract
  BY <1>2, AddSubtractAgrees, Weaker, Zenon
<1>3. CASE tw \in MovCmpAddSub
  BY <1>3, MovCmpAddSubAgrees
<1>4. CASE tw \in Alu
  BY <1>4, AluAgrees
<1>5. CASE tw \in HiReg
  BY <1>5, HiRegAgrees
<1>. QED BY <1>1, <1>2, <1>3, <1>4, <1>5 DEF AluTwins

LEMMA TwinsKept ==
  ASSUME TwinsInv, [INext]_ivars
  PROVE  TwinsInv'
<1>. SUFFICES ASSUME part' = "twins" PROVE Agree(cpu', twin', spec') /\ spec' \in BOOLEAN
  BY DEF TwinsInv, Agree
<1>1. part = "twins" /\ (TwinsStep \/ UNCHANGED ivars)
  BY Apart
<1>2. Agree(cpu, twin, spec) /\ spec \in BOOLEAN
  BY <1>1 DEF TwinsInv
<1>3. CASE UNCHANGED ivars
  BY <1>2, <1>3 DEF ivars
<1>4. CASE TwinsStep
  <2>1. PICK tw \in AluTwins :
          /\ ReadsCarry(tw) => spec
          /\ cpu' = RunThumbAlu(tw) /\ twin' = RunArmAlu(tw.a)
          /\ spec' = Known(tw)
    BY <1>4, Zenon DEF TwinsStep, Known
  <2>2. Agree(RunThumbAlu(tw), RunArmAlu(tw.a), Known(tw))
    BY <1>2, <2>1, TwinsAgree
  <2>3. Known(tw) \in BOOLEAN
    BY Zenon DEF Known
  <2>. QED BY <2>1, <2>2, <2>3, Zenon
<1>. QED BY <1>1, <1>3, <1>4

-----------------------------------------------------------------------------
(* The transferring twins: four-bit registers over sixteen one-bit bytes.  *)
Nibble   == 0..15
Bytes    == [Nibble -> 0..1]
MemRegs  == {0, 1, 2, 13, 14, 15}
MemCpus  == [r : [MemRegs -> Nibble], n : BOOLEAN, z : BOOLEAN, c : BOOLEAN, v : BOOLEAN,
             t : BOOLEAN, flush : BOOLEAN, mem : Bytes]
(* Everything but the PC is the same, which is word-aligned in one of them. *)
Mirror(k, l) ==
  /\ k \in MemCpus /\ l \in MemCpus
  /\ k.r[15] = 6 /\ l.r[15] = 4
  /\ \A i \in MemRegs \ {15} : k.r[i] = l.r[i]
  /\ k.mem = l.mem /\ k.n = l.n /\ k.z = l.z /\ k.c = l.c /\ k.v = l.v
MemHolds(k, m, R, M) ==
  k \in MemCpus /\ k.r = R /\ k.mem = M /\ k.n = m.n /\ k.z = m.z /\ k.c = m.c /\ k.v = m.v

LEMMA MemParts ==
  ASSUME NEW m \in MemCpus
  PROVE  m.r \in [MemRegs -> Nibble] /\ m.mem \in Bytes /\ m.c \in BOOLEAN /\ m.flush \in BOOLEAN
  BY DEF MemCpus

LEMMA MemWrites ==
  ASSUME NEW m \in MemCpus, NEW d \in MemRegs, NEW x \in Nibble, NEW M \in Bytes
  PROVE  /\ MemHolds([m EXCEPT !.r[d] = x], m, [m.r EXCEPT ![d] = x], m.mem)
         /\ MemHolds([m EXCEPT !.mem = M], m, m.r, M)
         /\ MemHolds([m EXCEPT !.mem = M, !.r[d] = x], m, [m.r EXCEPT ![d] = x], M)
         /\ MemHolds([m EXCEPT !.r[d] = x, !.mem = M], m, [m.r EXCEPT ![d] = x], M)
<1>1. MemHolds([m EXCEPT !.r[d] = x], m, [m.r EXCEPT ![d] = x], m.mem)
  BY DEF MemCpus, MemHolds
<1>2. MemHolds([m EXCEPT !.mem = M], m, m.r, M)
  BY DEF MemCpus, MemHolds
<1>3. /\ MemHolds([m EXCEPT !.mem = M, !.r[d] = x], m, [m.r EXCEPT ![d] = x], M)
      /\ MemHolds([m EXCEPT !.r[d] = x, !.mem = M], m, [m.r EXCEPT ![d] = x], M)
  BY DEF MemCpus, MemHolds
<1>. QED BY <1>1, <1>2, <1>3, Zenon

LEMMA MemReplaced ==
  ASSUME NEW m \in MemCpus, NEW R \in [MemRegs -> Nibble], NEW b \in BOOLEAN
  PROVE  /\ MemHolds([m EXCEPT !.r = R], m, R, m.mem)
         /\ MemHolds([m EXCEPT !.r = R, !.flush = b], m, R, m.mem)
  BY DEF MemCpus, MemHolds

(* Writing the same to both keeps them mirrored.                           *)
LEMMA Mirrored ==
  ASSUME NEW k, NEW l, NEW kk, NEW ll, NEW R, NEW Q, NEW M,
         Mirror(k, l), MemHolds(kk, k, R, M), MemHolds(ll, l, Q, M),
         R[15] = 6, Q[15] = 4, \A i \in MemRegs \ {15} : R[i] = Q[i]
  PROVE  Mirror(kk, ll)
  BY Zenon DEF Mirror, MemHolds

LEMMA MirrorLoaded ==
  ASSUME NEW k, NEW l, NEW kk, NEW ll, NEW d \in MemRegs \ {15}, NEW x, NEW M,
         Mirror(k, l), MemHolds(kk, k, [k.r EXCEPT ![d] = x], M),
         MemHolds(ll, l, [l.r EXCEPT ![d] = x], M)
  PROVE  Mirror(kk, ll)
<1>. DEFINE R == [k.r EXCEPT ![d] = x]
            Q == [l.r EXCEPT ![d] = x]
<1>1. k.r \in [MemRegs -> Nibble] /\ l.r \in [MemRegs -> Nibble]
  BY MemParts DEF Mirror
<1>2. R[15] = 6 /\ Q[15] = 4 /\ \A i \in MemRegs \ {15} : R[i] = Q[i]
  BY <1>1 DEF Mirror, MemRegs
<1>. HIDE DEF R, Q
<1>3. MemHolds(kk, k, R, M) /\ MemHolds(ll, l, Q, M)
  BY DEF R, Q
<1>. QED BY <1>2, <1>3, Mirrored

LEMMA MirrorStored ==
  ASSUME NEW k, NEW l, NEW kk, NEW ll, NEW M,
         Mirror(k, l), MemHolds(kk, k, k.r, M), MemHolds(ll, l, l.r, M)
  PROVE  Mirror(kk, ll)
  BY Mirrored DEF Mirror

-----------------------------------------------------------------------------
(* What the memory gives and takes.                                        *)
LEMMA SmallPowers ==
  /\ 2^0 = 1 /\ 2^1 = 2 /\ 2^2 = 4 /\ 2^3 = 8 /\ 2^4 = 16
  /\ Arm!ByteBits = 1 /\ Thumb!ByteBits = 1
  BY WidthAssumption DEF Arm!ByteBits, Thumb!ByteBits

LEMMA WrapsToNibble ==
  ASSUME NEW x \in Int
  PROVE  Arm!Wrap(x) \in Nibble /\ Arm!Wrap(x) = x % 16 /\ Thumb!Wrap(x) = x % 16
  BY SmallPowers DEF Arm!Wrap, Thumb!Wrap, Nibble

LEMMA Read8 ==
  ASSUME NEW mem \in Bytes, NEW a \in Nibble
  PROVE  Arm!bus_read8(mem, a) \in 0..1
  BY DEF Arm!bus_read8, Bytes

LEMMA Read16 ==
  ASSUME NEW mem \in Bytes, NEW a \in Nibble
  PROVE  Arm!bus_read16(mem, a) \in 0..3
<1>1. \A k \in 0..1 : Arm!Aligned(a, 2) + k \in Nibble
  BY DEF Arm!Aligned, Nibble
<1>2. /\ mem[Arm!Aligned(a, 2) + 0] \in 0..1 /\ mem[Arm!Aligned(a, 2) + 1] \in 0..1
  BY <1>1 DEF Bytes
<1>3. 2^(0 * Arm!ByteBits) = 1 /\ 2^(1 * Arm!ByteBits) = 2
  BY SmallPowers
<1>. QED BY <1>2, <1>3 DEF Arm!bus_read16

LEMMA Read32 ==
  ASSUME NEW mem \in Bytes, NEW a \in Nibble
  PROVE  Arm!bus_read32(mem, a) \in Nibble
<1>1. \A k \in 0..3 : Arm!Aligned(a, 4) + k \in Nibble
  BY DEF Arm!Aligned, Nibble
<1>2. /\ mem[Arm!Aligned(a, 4) + 0] \in 0..1 /\ mem[Arm!Aligned(a, 4) + 1] \in 0..1
      /\ mem[Arm!Aligned(a, 4) + 2] \in 0..1 /\ mem[Arm!Aligned(a, 4) + 3] \in 0..1
  BY <1>1 DEF Bytes
<1>3. /\ 2^(0 * Arm!ByteBits) = 1 /\ 2^(1 * Arm!ByteBits) = 2
      /\ 2^(2 * Arm!ByteBits) = 4 /\ 2^(3 * Arm!ByteBits) = 8
  BY SmallPowers
<1>. QED BY <1>2, <1>3 DEF Arm!bus_read32, Nibble

LEMMA Rotated ==
  ASSUME NEW x \in Nibble, NEW n \in 1..3
  PROVE  Arm!RotateRight(x, n) \in Nibble
<1>1. CASE n = 1
  <2>1. Arm!RotateRight(x, n) = (x \div 2) + ((x * 8) % 16)
    BY <1>1, SmallPowers DEF Arm!RotateRight, Arm!Wrap
  <2>. QED BY <2>1 DEF Nibble
<1>2. CASE n = 2
  <2>1. Arm!RotateRight(x, n) = (x \div 4) + ((x * 4) % 16)
    BY <1>2, SmallPowers DEF Arm!RotateRight, Arm!Wrap
  <2>. QED BY <2>1 DEF Nibble
<1>3. CASE n = 3
  <2>1. Arm!RotateRight(x, n) = (x \div 8) + ((x * 2) % 16)
    BY <1>3, SmallPowers DEF Arm!RotateRight, Arm!Wrap
  <2>. QED BY <2>1 DEF Nibble
<1>. QED BY <1>1, <1>2, <1>3

LEMMA WordLoaded ==
  ASSUME NEW mem \in Bytes, NEW a \in Nibble
  PROVE  Arm!LoadWord(mem, a) \in Nibble
<1>1. CASE a % 4 = 0
  BY <1>1, Read32 DEF Arm!LoadWord
<1>2. CASE a % 4 # 0
  <2>. DEFINE x == Arm!bus_read32(mem, a)
              n == (a % 4) * Arm!ByteBits
  <2>1. x \in Nibble
    BY Read32
  <2>2. n \in 1..3
    BY <1>2, SmallPowers DEF Nibble
  <2>3. Arm!LoadWord(mem, a) = Arm!RotateRight(x, n)
    BY <1>2 DEF Arm!LoadWord
  <2>. HIDE DEF x, n
  <2>. QED BY <2>1, <2>2, <2>3, Rotated
<1>. QED BY <1>1, <1>2

LEMMA Extended ==
  ASSUME NEW x \in Int, NEW k \in 1..4
  PROVE  Arm!Extend(x, k) \in Nibble
<1>1. 2^k \in Int
  BY SmallPowers
<1>2. (IF Arm!BIT(x, k - 1) THEN x - 2^k ELSE x) \in Int
  BY <1>1
<1>. QED BY <1>2, WrapsToNibble DEF Arm!Extend

LEMMA HalfLoaded ==
  ASSUME NEW mem \in Bytes, NEW a \in Nibble, NEW sh \in {"H", "SB", "SH"}
  PROVE  Arm!HalfwordLoad(mem, a, sh) \in Nibble
<1>. DEFINE b == Arm!bus_read8(mem, a)
            h == Arm!bus_read16(mem, a)
<1>1. b \in 0..1 /\ h \in 0..3 /\ Arm!ByteBits \in 1..3 /\ Arm!ByteBits \in 1..4
      /\ 2 * Arm!ByteBits \in 1..4 /\ (a % 2 = 0 \/ a % 2 = 1)
  BY Read8, Read16, SmallPowers DEF Nibble
<1>. HIDE DEF b, h
<1>2. b \in Int /\ h \in Int /\ h \in Nibble
  BY <1>1 DEF Nibble
<1>3. /\ Arm!Extend(b, Arm!ByteBits) \in Nibble /\ Arm!Extend(h, 2 * Arm!ByteBits) \in Nibble
      /\ Arm!RotateRight(h, Arm!ByteBits) \in Nibble
  BY <1>1, <1>2, Extended, Rotated
<1>4. Arm!HalfwordLoad(mem, a, sh) \in {Arm!Extend(b, Arm!ByteBits),
        Arm!Extend(h, 2 * Arm!ByteBits), Arm!RotateRight(h, Arm!ByteBits), h}
  BY <1>1 DEF Arm!HalfwordLoad, b, h
<1>. QED BY <1>2, <1>3, <1>4

LEMMA ByteIs ==
  ASSUME NEW x \in Int, NEW k \in 0..3
  PROVE  Arm!ByteOf(x, k) \in 0..1
<1>1. k * Arm!ByteBits = k /\ 2^k \in {1, 2, 4, 8} /\ 2^Arm!ByteBits = 2
  <2>1. k \in {0, 1, 2, 3}
    OBVIOUS
  <2>2. 2^k \in {1, 2, 4, 8}
    BY <2>1, SmallPowers
  <2>. QED BY <2>2, SmallPowers
<1>. QED BY <1>1 DEF Arm!ByteOf

LEMMA WritesBytes ==
  ASSUME NEW mem \in Bytes, NEW a \in Nibble, NEW x \in Nibble
  PROVE  /\ Arm!bus_write8(mem, a, x) \in Bytes /\ Arm!bus_write16(mem, a, x) \in Bytes
         /\ Arm!bus_write32(mem, a, x) \in Bytes
<1>1. x \in Int /\ Arm!Aligned(a, 2) \in Int /\ Arm!Aligned(a, 4) \in Int
  BY DEF Nibble, Arm!Aligned
<1>2. \A k \in 0..3 : Arm!ByteOf(x, k) \in 0..1
  BY <1>1, ByteIs
<1>3. Arm!bus_write8(mem, a, x) \in Bytes
  BY <1>2 DEF Arm!bus_write8, Bytes
<1>4. Arm!bus_write16(mem, a, x) \in Bytes
  <2>1. \A b \in Nibble : b - Arm!Aligned(a, 2) \in 0..1 => b - Arm!Aligned(a, 2) \in 0..3
    BY <1>1 DEF Nibble
  <2>. QED BY <1>2, <2>1 DEF Arm!bus_write16, Bytes
<1>5. Arm!bus_write32(mem, a, x) \in Bytes
  BY <1>2 DEF Arm!bus_write32, Bytes
<1>. QED BY <1>3, <1>4, <1>5

-----------------------------------------------------------------------------
(* The memory, and the loads, are the same in both files.                  *)
LEMMA SameMemory ==
  ASSUME NEW mem, NEW a, NEW x, NEW n
  PROVE  /\ Thumb!bus_read8(mem, a) = Arm!bus_read8(mem, a)
         /\ Thumb!bus_read16(mem, a) = Arm!bus_read16(mem, a)
         /\ Thumb!bus_read32(mem, a) = Arm!bus_read32(mem, a)
         /\ Thumb!bus_write8(mem, a, x) = Arm!bus_write8(mem, a, x)
         /\ Thumb!bus_write16(mem, a, x) = Arm!bus_write16(mem, a, x)
         /\ Thumb!bus_write32(mem, a, x) = Arm!bus_write32(mem, a, x)
         /\ Thumb!RotateRight(x, n) = Arm!RotateRight(x, n)
         /\ Thumb!Extend(x, n) = Arm!Extend(x, n)
         /\ Thumb!Wrap(x) = Arm!Wrap(x)
         /\ Thumb!LoadWord(mem, a) = Arm!LoadWord(mem, a)
<1>1. Thumb!ByteBits = Arm!ByteBits /\ \A z, k : Thumb!ByteOf(z, k) = Arm!ByteOf(z, k)
  BY Zenon DEF Thumb!ByteBits, Arm!ByteBits, Thumb!ByteOf, Arm!ByteOf
<1>2. \A z, k : Thumb!Aligned(z, k) = Arm!Aligned(z, k)
  BY Zenon DEF Thumb!Aligned, Arm!Aligned
<1>3. /\ Thumb!bus_read8(mem, a) = Arm!bus_read8(mem, a)
      /\ Thumb!bus_read16(mem, a) = Arm!bus_read16(mem, a)
  BY <1>1, <1>2, Zenon DEF Thumb!bus_read8, Arm!bus_read8, Thumb!bus_read16, Arm!bus_read16
<1>4. Thumb!bus_read32(mem, a) = Arm!bus_read32(mem, a)
  BY <1>1, <1>2, Zenon DEF Thumb!bus_read32, Arm!bus_read32
<1>5. Thumb!bus_write8(mem, a, x) = Arm!bus_write8(mem, a, x)
  BY <1>1, Zenon DEF Thumb!bus_write8, Arm!bus_write8
<1>6. Thumb!bus_write16(mem, a, x) = Arm!bus_write16(mem, a, x)
  BY <1>1, <1>2, Zenon DEF Thumb!bus_write16, Arm!bus_write16
<1>7. Thumb!bus_write32(mem, a, x) = Arm!bus_write32(mem, a, x)
  BY <1>1, <1>2, Zenon DEF Thumb!bus_write32, Arm!bus_write32
<1>8. /\ \A z, k : Thumb!RotateRight(z, k) = Arm!RotateRight(z, k)
      /\ Thumb!Wrap(x) = Arm!Wrap(x)
  BY Zenon DEF Thumb!RotateRight, Arm!RotateRight, Thumb!Wrap, Arm!Wrap
<1>9. Thumb!Extend(x, n) = Arm!Extend(x, n)
  BY Zenon DEF Thumb!Extend, Arm!Extend, Thumb!Wrap, Arm!Wrap, Thumb!BIT, Arm!BIT
<1>10. Thumb!LoadWord(mem, a) = Arm!LoadWord(mem, a)
  BY <1>1, <1>4, <1>8, Zenon DEF Thumb!LoadWord, Arm!LoadWord
<1>. QED BY <1>3, <1>4, <1>5, <1>6, <1>7, <1>8, <1>9, <1>10, Zenon

(* The transfer of a word or a byte.                                       *)
Got(mem, byte, a)    == IF byte THEN Arm!bus_read8(mem, a) ELSE Arm!LoadWord(mem, a)
Put(mem, byte, a, x) == IF byte THEN Arm!bus_write8(mem, a, x) ELSE Arm!bus_write32(mem, a, x)
Moved(m, load, byte, d, a) ==
  IF load THEN [m EXCEPT !.r[d] = Got(m.mem, byte, a)]
  ELSE [m EXCEPT !.mem = Put(m.mem, byte, a, m.r[d])]
LEMMA MovedMirror ==
  ASSUME NEW k, NEW l, Mirror(k, l), NEW load \in BOOLEAN, NEW byte \in BOOLEAN, NEW d \in 0..2,
         NEW a \in Nibble
  PROVE  Mirror(Moved(k, load, byte, d, a), Moved(l, load, byte, d, a))
<1>. DEFINE x == Got(k.mem, byte, a)
            M == Put(k.mem, byte, a, k.r[d])
<1>1. k \in MemCpus /\ l \in MemCpus /\ k.mem = l.mem /\ k.mem \in Bytes /\ d \in MemRegs \ {15}
      /\ d \in MemRegs /\ k.r[d] = l.r[d] /\ k.r[d] \in Nibble
  <2>1. k \in MemCpus /\ l \in MemCpus /\ k.mem = l.mem /\ \A i \in MemRegs \ {15} : k.r[i] = l.r[i]
    BY DEF Mirror
  <2>2. d \in MemRegs \ {15}
    BY DEF MemRegs
  <2>. QED BY <2>1, <2>2, MemParts
<1>2. x \in Nibble
  BY <1>1, Read8, WordLoaded DEF Got, Nibble
<1>3. M \in Bytes
  BY <1>1, WritesBytes DEF Put
<1>4. CASE load
  <2>1. /\ Moved(k, load, byte, d, a) = [k EXCEPT !.r[d] = x]
        /\ Moved(l, load, byte, d, a) = [l EXCEPT !.r[d] = x]
    BY <1>1, <1>4, Zenon DEF Moved
  <2>. HIDE DEF x, M
  <2>2. /\ MemHolds([k EXCEPT !.r[d] = x], k, [k.r EXCEPT ![d] = x], k.mem)
        /\ MemHolds([l EXCEPT !.r[d] = x], l, [l.r EXCEPT ![d] = x], k.mem)
    <3>1. MemHolds([k EXCEPT !.r[d] = x], k, [k.r EXCEPT ![d] = x], k.mem)
      BY <1>1, <1>2, <1>3, MemWrites
    <3>2. MemHolds([l EXCEPT !.r[d] = x], l, [l.r EXCEPT ![d] = x], l.mem)
      BY <1>1, <1>2, <1>3, MemWrites
    <3>. QED BY <1>1, <3>1, <3>2, Zenon
  <2>. QED BY <1>1, <2>1, <2>2, MirrorLoaded
<1>5. CASE ~load
  <2>1. /\ Moved(k, load, byte, d, a) = [k EXCEPT !.mem = M]
        /\ Moved(l, load, byte, d, a) = [l EXCEPT !.mem = M]
    BY <1>1, <1>5, Zenon DEF Moved
  <2>. HIDE DEF x, M
  <2>2. MemHolds([k EXCEPT !.mem = M], k, k.r, M) /\ MemHolds([l EXCEPT !.mem = M], l, l.r, M)
    <3>1. MemHolds([k EXCEPT !.mem = M], k, k.r, M)
      BY <1>1, <1>2, <1>3, MemWrites
    <3>2. MemHolds([l EXCEPT !.mem = M], l, l.r, M)
      BY <1>1, <1>2, <1>3, MemWrites
    <3>. QED BY <3>1, <3>2
  <2>. QED BY <1>1, <2>1, <2>2, MirrorStored
<1>. QED BY <1>4, <1>5

LEMMA ThumbMoves ==
  ASSUME NEW m, NEW i, NEW a, i.load \in BOOLEAN, i.byte \in BOOLEAN
  PROVE  Thumb!WordOrByte(m, i, a) = Moved(m, i.load, i.byte, i.rd, a)
<1>. DEFINE x == m.r[i.rd]
            b8 == Thumb!bus_read8(m.mem, a)
            lw == Thumb!LoadWord(m.mem, a)
            w8 == Thumb!bus_write8(m.mem, a, x)
            w32 == Thumb!bus_write32(m.mem, a, x)
<1>1. /\ b8 = Arm!bus_read8(m.mem, a) /\ lw = Arm!LoadWord(m.mem, a)
      /\ w8 = Arm!bus_write8(m.mem, a, x) /\ w32 = Arm!bus_write32(m.mem, a, x)
  BY SameMemory, Zenon
<1>2. /\ i.load /\ i.byte => Thumb!WordOrByte(m, i, a) = [m EXCEPT !.r[i.rd] = b8]
      /\ i.load /\ ~i.byte => Thumb!WordOrByte(m, i, a) = [m EXCEPT !.r[i.rd] = lw]
      /\ ~i.load /\ i.byte => Thumb!WordOrByte(m, i, a) = [m EXCEPT !.mem = w8]
      /\ ~i.load /\ ~i.byte => Thumb!WordOrByte(m, i, a) = [m EXCEPT !.mem = w32]
  BY Zenon DEF Thumb!WordOrByte
<1>. HIDE DEF b8, lw, w8, w32
<1>3. CASE i.load /\ i.byte
  BY <1>1, <1>2, <1>3, Zenon DEF Moved, Got
<1>4. CASE i.load /\ ~i.byte
  BY <1>1, <1>2, <1>4, Zenon DEF Moved, Got
<1>5. CASE ~i.load /\ i.byte
  BY <1>1, <1>2, <1>5, Zenon DEF Moved, Put
<1>6. CASE ~i.load /\ ~i.byte
  BY <1>1, <1>2, <1>6, Zenon DEF Moved, Put
<1>. QED BY <1>3, <1>4, <1>5, <1>6

(* The ARM transfer, at a base and an offset f, not written back.          *)
OffsetIs(m, o, f) ==
  (IF o.kind = "imm" THEN o.imm
   ELSE Arm!barrel_shift(m.r[o.rm], o.type, o.amount, m.c, FALSE).v) = f
LEMMA OffsetOf ==
  ASSUME NEW m, NEW x, NEW rm
  PROVE  OffsetIs(m, ImmOp(x), x) /\ OffsetIs(m, RegOp(rm), m.r[rm])
<1>1. OffsetIs(m, ImmOp(x), x)
  BY DEF OffsetIs, ImmOp
<1>. DEFINE o == RegOp(rm)
<1>2. o.kind = "reg" /\ o.rm = rm /\ o.type = "LSL" /\ o.amount = 0
  BY DEF RegOp
<1>. HIDE DEF o
<1>3. "reg" # "imm"
  OBVIOUS
<1>4. Arm!barrel_shift(m.r[rm], "LSL", 0, m.c, FALSE) = [v |-> m.r[rm], c |-> m.c]
  <2>. DEFINE x1 == m.r[rm]
              c1 == m.c
  <2>. HIDE DEF x1, c1
  <2>1. Arm!ShiftByImmediate(x1, "LSL", 0, c1) = [v |-> x1, c |-> c1]
    BY DEF Arm!ShiftByImmediate
  <2>2. Arm!barrel_shift(x1, "LSL", 0, c1, FALSE) = Arm!ShiftByImmediate(x1, "LSL", 0, c1)
    BY DEF Arm!barrel_shift
  <2>. QED BY <2>1, <2>2, Zenon DEF x1, c1
<1>5. [v |-> m.r[rm], c |-> m.c].v = m.r[rm]
  OBVIOUS
<1>6. OffsetIs(m, o, m.r[rm])
  BY <1>2, <1>3, <1>4, <1>5, Zenon DEF OffsetIs
<1>. QED BY <1>1, <1>6 DEF o

SingleMoves(m, load, byte, d, n, o, f) ==
  Arm!arm_single_transfer(m, Single(load, byte, d, n, o))
    = Moved(m, load, byte, d, Arm!Wrap(m.r[n] + f))
LEMMA ArmMoves ==
  ASSUME NEW m, NEW load \in BOOLEAN, NEW byte \in BOOLEAN, NEW d \in 0..2, NEW n, NEW o, NEW f,
         OffsetIs(m, o, f)
  PROVE  SingleMoves(m, load, byte, d, n, o, f)
<1>. DEFINE i == Single(load, byte, d, n, o)
            a == Arm!Wrap(m.r[n] + f)
<1>1. i.load = load /\ i.byte = byte /\ i.rd = d /\ i.rn = n /\ i.op2 = o
      /\ i.pre /\ i.up /\ ~i.writeback
  BY DEF Single
<1>2. d # Arm!PC
  BY DEF Arm!PC
<1>. HIDE DEF i
<1>3. Arm!Indexed(m, i, f) = a
  BY <1>1, Zenon DEF Arm!Indexed
<1>4. \A k, z : Arm!WriteBack(k, i, z) = k
  BY <1>1, Zenon DEF Arm!WriteBack
<1>5. /\ \A x : Arm!LoadReg(m, d, x) = [m EXCEPT !.r[d] = x]
      /\ Arm!StoredReg(m, d) = m.r[d]
  BY <1>2, Zenon DEF Arm!LoadReg, Arm!StoredReg
<1>. HIDE DEF a
<1>. DEFINE b8 == Arm!bus_read8(m.mem, a)
            lw == Arm!LoadWord(m.mem, a)
            w8 == Arm!bus_write8(m.mem, a, m.r[d])
            w32 == Arm!bus_write32(m.mem, a, m.r[d])
            done == CASE i.load /\ i.byte   -> Arm!LoadReg(m, i.rd, b8)
                      [] i.load /\ ~i.byte  -> Arm!LoadReg(m, i.rd, lw)
                      [] ~i.load /\ i.byte  -> [m EXCEPT !.mem = Arm!bus_write8(@, a, Arm!StoredReg(m, i.rd))]
                      [] ~i.load /\ ~i.byte -> [m EXCEPT !.mem = Arm!bus_write32(@, a, Arm!StoredReg(m, i.rd))]
<1>6a. Arm!arm_single_transfer(m, i) = Arm!WriteBack(done, i, a)
  BY <1>1, <1>3, Zenon DEF Arm!arm_single_transfer, OffsetIs
<1>6b. /\ load /\ byte => done = [m EXCEPT !.r[d] = b8]
       /\ load /\ ~byte => done = [m EXCEPT !.r[d] = lw]
       /\ ~load /\ byte => done = [m EXCEPT !.mem = w8]
       /\ ~load /\ ~byte => done = [m EXCEPT !.mem = w32]
  BY <1>1, <1>5, Zenon
<1>6. /\ load /\ byte => Arm!arm_single_transfer(m, i) = [m EXCEPT !.r[d] = b8]
      /\ load /\ ~byte => Arm!arm_single_transfer(m, i) = [m EXCEPT !.r[d] = lw]
      /\ ~load /\ byte => Arm!arm_single_transfer(m, i) = [m EXCEPT !.mem = w8]
      /\ ~load /\ ~byte => Arm!arm_single_transfer(m, i) = [m EXCEPT !.mem = w32]
  <2>. HIDE DEF done
  <2>. QED BY <1>4, <1>6a, <1>6b, Zenon
<1>7. Arm!arm_single_transfer(m, i) = Moved(m, load, byte, d, a)
  BY <1>6, Zenon DEF Moved, Got, Put
<1>. QED BY <1>7, Zenon DEF SingleMoves, i, a

-----------------------------------------------------------------------------
(* What the two steps run.                                                 *)
LEMMA MemRuns ==
  ASSUME NEW f, NEW i, NEW a
  PROVE  LET x == Twin(f, i, a) IN
         /\ x.a = a
         /\ f = "pc_relative_load" => RunThumb(x) = Thumb!thumb_pc_relative_load(cpu, i)
         /\ f = "load_store_reg" => RunThumb(x) = Thumb!thumb_load_store_reg(cpu, i)
         /\ f = "load_store_sign_ext" => RunThumb(x) = Thumb!thumb_load_store_sign_ext(cpu, i)
         /\ f = "load_store_imm" => RunThumb(x) = Thumb!thumb_load_store_imm(cpu, i)
         /\ f = "load_store_halfword" => RunThumb(x) = Thumb!thumb_load_store_halfword(cpu, i)
         /\ f = "sp_relative_load_store" => RunThumb(x) = Thumb!thumb_sp_relative_load_store(cpu, i)
         /\ f = "load_address" => RunThumb(x) = Thumb!thumb_load_address(cpu, i)
         /\ f = "add_sp_offset" => RunThumb(x) = Thumb!thumb_add_sp_offset(cpu, i)
         /\ f = "push_pop" => RunThumb(x) = Thumb!thumb_push_pop(cpu, i)
         /\ f = "multiple_load_store" => RunThumb(x) = Thumb!thumb_multiple_load_store(cpu, i)
         /\ a.kind = "dp" => RunArm(a) = Arm!arm_data_processing(twin, a)
         /\ a.kind = "single" => RunArm(a) = Arm!arm_single_transfer(twin, a)
         /\ a.kind = "half" => RunArm(a) = Arm!arm_halfword_transfer(twin, a)
         /\ a.kind = "block" => RunArm(a) = Arm!arm_block_transfer(twin, a)
<1>. DEFINE x == Twin(f, i, a)
<1>1. x.a = a /\ x.i = i /\ x.fmt = f
  BY DEF Twin
<1>. HIDE DEF x
<1>2. f = "pc_relative_load" => RunThumb(x) = Thumb!thumb_pc_relative_load(cpu, i)
  BY <1>1, Zenon DEF RunThumb
<1>3. f = "load_store_reg" => RunThumb(x) = Thumb!thumb_load_store_reg(cpu, i)
  BY <1>1, Zenon DEF RunThumb
<1>4. f = "load_store_sign_ext" => RunThumb(x) = Thumb!thumb_load_store_sign_ext(cpu, i)
  BY <1>1, Zenon DEF RunThumb
<1>5. f = "load_store_imm" => RunThumb(x) = Thumb!thumb_load_store_imm(cpu, i)
  BY <1>1, Zenon DEF RunThumb
<1>6. f = "load_store_halfword" => RunThumb(x) = Thumb!thumb_load_store_halfword(cpu, i)
  BY <1>1, Zenon DEF RunThumb
<1>7. f = "sp_relative_load_store" => RunThumb(x) = Thumb!thumb_sp_relative_load_store(cpu, i)
  BY <1>1, Zenon DEF RunThumb
<1>8. f = "load_address" => RunThumb(x) = Thumb!thumb_load_address(cpu, i)
  BY <1>1, Zenon DEF RunThumb
<1>9. f = "add_sp_offset" => RunThumb(x) = Thumb!thumb_add_sp_offset(cpu, i)
  BY <1>1, Zenon DEF RunThumb
<1>10. f = "push_pop" => RunThumb(x) = Thumb!thumb_push_pop(cpu, i)
  BY <1>1, Zenon DEF RunThumb
<1>11. f = "multiple_load_store" => RunThumb(x) = Thumb!thumb_multiple_load_store(cpu, i)
  BY <1>1, Zenon DEF RunThumb
<1>12. /\ a.kind = "dp" => RunArm(a) = Arm!arm_data_processing(twin, a)
       /\ a.kind = "single" => RunArm(a) = Arm!arm_single_transfer(twin, a)
       /\ a.kind = "half" => RunArm(a) = Arm!arm_halfword_transfer(twin, a)
       /\ a.kind = "block" => RunArm(a) = Arm!arm_block_transfer(twin, a)
  BY Zenon DEF RunArm
<1>. QED BY <1>1, <1>2, <1>3, <1>4, <1>5, <1>6, <1>7, <1>8, <1>9, <1>10, <1>11, <1>12, Zenon DEF x

(* Registers of a mirrored pair.                                           *)
LEMMA MirrorParts ==
  ASSUME NEW k, NEW l, Mirror(k, l)
  PROVE  /\ k \in MemCpus /\ l \in MemCpus /\ k.mem = l.mem /\ k.mem \in Bytes
         /\ \A i \in MemRegs : k.r[i] \in Nibble /\ l.r[i] \in Nibble
         /\ \A i \in MemRegs \ {15} : k.r[i] = l.r[i]
         /\ k.r[15] = 6 /\ l.r[15] = 4
<1>1. k \in MemCpus /\ l \in MemCpus /\ k.mem = l.mem /\ \A i \in MemRegs \ {15} : k.r[i] = l.r[i]
  BY DEF Mirror
<1>. QED BY <1>1, MemParts DEF Mirror

(* A Thumb instruction that moves a word or a byte at a base and an offset. *)
MovesLike(k, tw, load, byte, d, n, o, f) ==
  /\ tw.a = Single(load, byte, d, n, o)
  /\ k = Moved(cpu, load, byte, d, Arm!Wrap(twin.r[n] + f))
LEMMA SingleAgrees ==
  ASSUME Mirror(cpu, twin), NEW k, NEW tw, NEW load \in BOOLEAN, NEW byte \in BOOLEAN,
         NEW d \in 0..2, NEW n \in MemRegs, NEW o, NEW f \in Int, OffsetIs(twin, o, f),
         MovesLike(k, tw, load, byte, d, n, o, f)
  PROVE  Mirror(k, RunArm(tw.a))
<1>. DEFINE i == Single(load, byte, d, n, o)
            a == Arm!Wrap(twin.r[n] + f)
<1>1. RunArm(i) = Moved(twin, load, byte, d, a)
  <2>1. i.kind = "single"
    BY DEF Single
  <2>2. RunArm(i) = Arm!arm_single_transfer(twin, i)
    BY <2>1, MemRuns
  <2>3. SingleMoves(twin, load, byte, d, n, o, f)
    BY ArmMoves
  <2>4. Arm!arm_single_transfer(twin, i) = Moved(twin, load, byte, d, a)
    BY <2>3, Zenon DEF SingleMoves
  <2>. QED BY <2>2, <2>4, Zenon
<1>2. a \in Nibble
  <2>1. twin.r[n] \in Nibble
    BY MirrorParts
  <2>2. twin.r[n] + f \in Int
    BY <2>1 DEF Nibble
  <2>. QED BY <2>2, WrapsToNibble
<1>3. tw.a = i /\ k = Moved(cpu, load, byte, d, a)
  BY Zenon DEF MovesLike
<1>. HIDE DEF i, a
<1>4. Mirror(Moved(cpu, load, byte, d, a), Moved(twin, load, byte, d, a))
  BY <1>2, MovedMirror
<1>. QED BY <1>1, <1>3, <1>4, Zenon

(* Format 7. *)
RegThumb(l, b, o, d) == [load |-> l, byte |-> b, rb |-> 0, ro |-> o, rd |-> d]
LEMMA RegAgrees ==
  ASSUME Mirror(cpu, twin), NEW tw \in RegLoadStore
  PROVE  Mirror(RunThumb(tw), RunArm(tw.a))
<1>1. PICK l \in BOOLEAN, b \in BOOLEAN, o \in Low, d \in 0..2 : tw = RegTwin(l, b, o, d)
  BY DEF RegLoadStore
<1>. DEFINE i == RegThumb(l, b, o, d)
            A == Single(l, b, d, 0, RegOp(o))
            f == twin.r[o]
<1>2. i.load = l /\ i.byte = b /\ i.rb = 0 /\ i.ro = o /\ i.rd = d
  BY DEF RegThumb
<1>3. tw = Twin("load_store_reg", i, A)
  BY <1>1, Zenon DEF RegTwin, RegThumb
<1>. HIDE DEF i, A
<1>4. tw.a = A /\ RunThumb(tw) = Thumb!thumb_load_store_reg(cpu, i)
  BY <1>3, MemRuns
<1>5. cpu.r[0] = twin.r[0] /\ cpu.r[o] = f /\ f \in Int /\ 0 \in MemRegs
  BY MirrorParts DEF MemRegs, Low, Nibble
<1>6. Thumb!thumb_load_store_reg(cpu, i) = Moved(cpu, l, b, d, Arm!Wrap(twin.r[0] + f))
  <2>. DEFINE a == Arm!Wrap(twin.r[0] + f)
  <2>1. Thumb!Wrap(twin.r[0] + f) = a
    BY SameMemory, Zenon
  <2>. HIDE DEF a, f
  <2>2. Thumb!thumb_load_store_reg(cpu, i) = Thumb!WordOrByte(cpu, i, a)
    BY <1>2, <1>5, <2>1, Zenon DEF Thumb!thumb_load_store_reg
  <2>. QED BY <1>2, <2>2, ThumbMoves DEF a
<1>7. OffsetIs(twin, RegOp(o), f)
  BY OffsetOf
<1>. HIDE DEF f
<1>8. MovesLike(RunThumb(tw), tw, l, b, d, 0, RegOp(o), f)
  BY <1>4, <1>6, Zenon DEF MovesLike, A
<1>. QED BY <1>5, <1>7, <1>8, SingleAgrees

(* Format 9: the offset counts words or bytes. *)
OffsetThumb(l, b, n, d) == [load |-> l, byte |-> b, offset5 |-> n, rb |-> 0, rd |-> d]
LEMMA OffsetAgrees ==
  ASSUME Mirror(cpu, twin), NEW tw \in ImmLoadStore
  PROVE  Mirror(RunThumb(tw), RunArm(tw.a))
<1>1. PICK l \in BOOLEAN, b \in BOOLEAN, n \in {0, 1, 3}, d \in Low : tw = OffsetTwin(l, b, n, d)
  BY DEF ImmLoadStore
<1>. DEFINE i == OffsetThumb(l, b, n, d)
            f == IF b THEN n ELSE 4 * n
            A == Single(l, b, d, 0, ImmOp(f))
<1>2. i.load = l /\ i.byte = b /\ i.rb = 0 /\ i.offset5 = n /\ i.rd = d
  BY DEF OffsetThumb
<1>3. tw = Twin("load_store_imm", i, A)
  BY <1>1, Zenon DEF OffsetTwin, OffsetThumb
<1>5. cpu.r[0] = twin.r[0] /\ f \in Int /\ 0 \in MemRegs /\ d \in 0..2
  BY MirrorParts DEF MemRegs, Low
<1>. HIDE DEF i, A
<1>4. tw.a = A /\ RunThumb(tw) = Thumb!thumb_load_store_imm(cpu, i)
  BY <1>3, MemRuns
<1>6. Thumb!thumb_load_store_imm(cpu, i) = Moved(cpu, l, b, d, Arm!Wrap(twin.r[0] + f))
  <2>. DEFINE a == Arm!Wrap(twin.r[0] + f)
  <2>1. Thumb!Wrap(twin.r[0] + f) = a
    BY SameMemory, Zenon
  <2>. HIDE DEF a
  <2>2. Thumb!thumb_load_store_imm(cpu, i) = Thumb!WordOrByte(cpu, i, a)
    BY <1>2, <1>5, <2>1, Zenon DEF Thumb!thumb_load_store_imm
  <2>. QED BY <1>2, <2>2, ThumbMoves DEF a
<1>7. OffsetIs(twin, ImmOp(f), f)
  BY OffsetOf
<1>. HIDE DEF f
<1>8. MovesLike(RunThumb(tw), tw, l, b, d, 0, ImmOp(f), f)
  BY <1>4, <1>6, Zenon DEF MovesLike, A
<1>. QED BY <1>5, <1>7, <1>8, SingleAgrees

(* Format 11. *)
SpThumb(l, n) == [load |-> l, imm8 |-> n, rd |-> 0]
SpMove(l, d)  == [load |-> l, byte |-> FALSE, rd |-> d]
SingleWord(l, d, n, o) == Single(l, FALSE, d, n, o)
LEMMA SpAgrees ==
  ASSUME Mirror(cpu, twin), NEW tw \in SpLoadStore
  PROVE  Mirror(RunThumb(tw), RunArm(tw.a))
<1>1. PICK l \in BOOLEAN, n \in 0..2 : tw = SpTwin(l, n)
  BY DEF SpLoadStore
<1>. DEFINE i == SpThumb(l, n)
            j == SpMove(l, 0)
            f == 4 * n
            A == SingleWord(l, 0, 13, ImmOp(f))
            byte == FALSE
<1>2. /\ i.load = l /\ i.imm8 = n /\ i.rd = 0
      /\ j.load = l /\ j.byte = byte /\ j.rd = 0
  BY DEF SpThumb, SpMove
<1>3. tw = Twin("sp_relative_load_store", i, A) /\ A = Single(l, byte, 0, 13, ImmOp(f))
  BY <1>1, Zenon DEF SpTwin, SpThumb, SingleWord, R13
<1>5. cpu.r[13] = twin.r[13] /\ f \in Int /\ 13 \in MemRegs /\ 0 \in 0..2 /\ byte \in BOOLEAN
  BY MirrorParts DEF MemRegs
<1>. HIDE DEF i, A
<1>4. tw.a = A /\ RunThumb(tw) = Thumb!thumb_sp_relative_load_store(cpu, i)
  BY <1>3, MemRuns
<1>6. Thumb!thumb_sp_relative_load_store(cpu, i) = Moved(cpu, l, byte, 0, Arm!Wrap(twin.r[13] + f))
  <2>. DEFINE a == Arm!Wrap(twin.r[13] + f)
  <2>1. Thumb!Wrap(twin.r[13] + f) = a
    BY SameMemory, Zenon
  <2>. HIDE DEF a, j
  <2>2. Thumb!thumb_sp_relative_load_store(cpu, i) = Thumb!WordOrByte(cpu, j, a)
    BY <1>2, <1>5, <2>1, Zenon DEF Thumb!thumb_sp_relative_load_store, Thumb!SP, j, SpMove
  <2>. HIDE DEF byte
  <2>. QED BY <1>2, <1>5, <2>2, ThumbMoves DEF a
<1>7. OffsetIs(twin, ImmOp(f), f)
  BY OffsetOf
<1>. HIDE DEF f, byte
<1>8. MovesLike(RunThumb(tw), tw, l, byte, 0, 13, ImmOp(f), f)
  BY <1>3, <1>4, <1>6, Zenon DEF MovesLike
<1>. QED BY <1>5, <1>7, <1>8, SingleAgrees

(* Format 6: the address is a word's, so that nothing rotates. *)
PcThumb(x) == [rd |-> 0, imm8 |-> x]
SingleLoad(byte, d, n, o) == Single(TRUE, byte, d, n, o)
MovedIn(m, byte, d, a)    == Moved(m, TRUE, byte, d, a)
LEMMA PcAgrees ==
  ASSUME Mirror(cpu, twin), NEW tw \in PcLoad
  PROVE  Mirror(RunThumb(tw), RunArm(tw.a))
<1>1. PICK x \in 0..1 : tw = PcLoadTwin(x)
  BY DEF PcLoad
<1>. DEFINE i == PcThumb(x)
            f == 4 * x
            byte == FALSE
            load == TRUE
            A == SingleLoad(byte, 0, 15, ImmOp(f))
<1>2. i.imm8 = x /\ i.rd = 0
  BY DEF PcThumb
<1>3. tw = Twin("pc_relative_load", i, A) /\ A = Single(load, byte, 0, 15, ImmOp(f))
  BY <1>1, Zenon DEF PcLoadTwin, PcThumb, SingleLoad, PC
<1>5. cpu.r[15] = 6 /\ twin.r[15] = 4 /\ f \in Int /\ 15 \in MemRegs /\ 0 \in 0..2 /\ byte \in BOOLEAN
      /\ load \in BOOLEAN
  BY MirrorParts DEF MemRegs
<1>. HIDE DEF i, A
<1>4. tw.a = A /\ RunThumb(tw) = Thumb!thumb_pc_relative_load(cpu, i)
  BY <1>3, MemRuns
<1>. DEFINE a == Arm!Wrap(twin.r[15] + f)
<1>6. Thumb!thumb_pc_relative_load(cpu, i) = Moved(cpu, load, byte, 0, a)
  <2>1. Thumb!PcWord(cpu) = 4
    <3>1. Thumb!BIT(6, 1)
      BY SmallPowers DEF Thumb!BIT
    <3>2. 6 - (IF Thumb!BIT(6, 1) THEN 2 ELSE 0) = 4
      BY <3>1
    <3>. QED BY <1>5, <3>2 DEF Thumb!PcWord, Thumb!PC
  <2>2. Thumb!Wrap(4 + f) = a
    BY <1>5, SameMemory, Zenon
  <2>3. a % 4 = 0
    <3>1. a = (4 + f) % 16
      BY <1>5, WrapsToNibble
    <3>. QED BY <3>1
  <2>4. Thumb!bus_read32(cpu.mem, a) = Arm!bus_read32(cpu.mem, a)
    BY SameMemory, Zenon
  <2>. HIDE DEF a
  <2>5. Arm!LoadWord(cpu.mem, a) = Arm!bus_read32(cpu.mem, a)
    BY <2>3, Zenon DEF Arm!LoadWord
  <2>6. Moved(cpu, load, byte, 0, a) = [cpu EXCEPT !.r[0] = Arm!LoadWord(cpu.mem, a)]
    BY Zenon DEF Moved, Got
  <2>7. Thumb!thumb_pc_relative_load(cpu, i) = [cpu EXCEPT !.r[0] = Thumb!bus_read32(cpu.mem, a)]
    BY <1>2, <2>1, <2>2, Zenon DEF Thumb!thumb_pc_relative_load, f
  <2>. QED BY <2>4, <2>5, <2>6, <2>7, Zenon
<1>7. OffsetIs(twin, ImmOp(f), f)
  BY OffsetOf
<1>. HIDE DEF f, byte, load
<1>8. MovesLike(RunThumb(tw), tw, load, byte, 0, 15, ImmOp(f), f)
  BY <1>3, <1>4, <1>6, Zenon DEF MovesLike
<1>. QED BY <1>5, <1>7, <1>8, SingleAgrees

-----------------------------------------------------------------------------
(* Halfwords and signed bytes.                                             *)
HalfMoved(m, load, sh, d, a) ==
  IF load THEN [m EXCEPT !.r[d] = Arm!HalfwordLoad(m.mem, a, sh)]
  ELSE [m EXCEPT !.mem = Arm!bus_write16(m.mem, a, m.r[d])]
LEMMA HalfMirror ==
  ASSUME NEW k, NEW l, Mirror(k, l), NEW load \in BOOLEAN, NEW sh \in {"H", "SB", "SH"},
         NEW d \in 0..2, NEW a \in Nibble
  PROVE  Mirror(HalfMoved(k, load, sh, d, a), HalfMoved(l, load, sh, d, a))
<1>. DEFINE x == Arm!HalfwordLoad(k.mem, a, sh)
            M == Arm!bus_write16(k.mem, a, k.r[d])
<1>1. k \in MemCpus /\ l \in MemCpus /\ k.mem = l.mem /\ k.mem \in Bytes /\ d \in MemRegs \ {15}
      /\ d \in MemRegs /\ k.r[d] = l.r[d] /\ k.r[d] \in Nibble
  <2>1. d \in MemRegs \ {15}
    BY DEF MemRegs
  <2>. QED BY <2>1, MirrorParts
<1>2. x \in Nibble
  BY <1>1, HalfLoaded
<1>3. M \in Bytes
  BY <1>1, WritesBytes
<1>4. CASE load
  <2>1. /\ HalfMoved(k, load, sh, d, a) = [k EXCEPT !.r[d] = x]
        /\ HalfMoved(l, load, sh, d, a) = [l EXCEPT !.r[d] = x]
    BY <1>1, <1>4, Zenon DEF HalfMoved
  <2>. HIDE DEF x, M
  <2>2. /\ MemHolds([k EXCEPT !.r[d] = x], k, [k.r EXCEPT ![d] = x], k.mem)
        /\ MemHolds([l EXCEPT !.r[d] = x], l, [l.r EXCEPT ![d] = x], k.mem)
    <3>1. MemHolds([k EXCEPT !.r[d] = x], k, [k.r EXCEPT ![d] = x], k.mem)
      BY <1>1, <1>2, <1>3, MemWrites
    <3>2. MemHolds([l EXCEPT !.r[d] = x], l, [l.r EXCEPT ![d] = x], l.mem)
      BY <1>1, <1>2, <1>3, MemWrites
    <3>. QED BY <1>1, <3>1, <3>2, Zenon
  <2>. QED BY <1>1, <2>1, <2>2, MirrorLoaded
<1>5. CASE ~load
  <2>1. /\ HalfMoved(k, load, sh, d, a) = [k EXCEPT !.mem = M]
        /\ HalfMoved(l, load, sh, d, a) = [l EXCEPT !.mem = M]
    BY <1>1, <1>5, Zenon DEF HalfMoved
  <2>. HIDE DEF x, M
  <2>2. MemHolds([k EXCEPT !.mem = M], k, k.r, M) /\ MemHolds([l EXCEPT !.mem = M], l, l.r, M)
    <3>1. MemHolds([k EXCEPT !.mem = M], k, k.r, M)
      BY <1>1, <1>2, <1>3, MemWrites
    <3>2. MemHolds([l EXCEPT !.mem = M], l, l.r, M)
      BY <1>1, <1>2, <1>3, MemWrites
    <3>. QED BY <3>1, <3>2
  <2>. QED BY <1>1, <2>1, <2>2, MirrorStored
<1>. QED BY <1>4, <1>5

HalfOffsetIs(m, o, f) == (IF o.kind = "imm" THEN o.imm ELSE m.r[o.rm]) = f
HalfMoves(m, load, sh, d, n, o, f) ==
  Arm!arm_halfword_transfer(m, Half(load, sh, d, n, o))
    = HalfMoved(m, load, sh, d, Arm!Wrap(m.r[n] + f))
LEMMA ArmHalfMoves ==
  ASSUME NEW m, NEW load \in BOOLEAN, NEW sh, NEW d \in 0..2, NEW n, NEW o, NEW f,
         HalfOffsetIs(m, o, f)
  PROVE  HalfMoves(m, load, sh, d, n, o, f)
<1>. DEFINE i == Half(load, sh, d, n, o)
            a == Arm!Wrap(m.r[n] + f)
<1>1. i.load = load /\ i.sh = sh /\ i.rd = d /\ i.rn = n /\ i.op2 = o
      /\ i.pre /\ i.up /\ ~i.writeback
  BY DEF Half
<1>2. d # Arm!PC
  BY DEF Arm!PC
<1>. HIDE DEF i
<1>3. Arm!Indexed(m, i, f) = a
  BY <1>1, Zenon DEF Arm!Indexed
<1>4. \A k, z : Arm!WriteBack(k, i, z) = k
  BY <1>1, Zenon DEF Arm!WriteBack
<1>5. /\ \A x : Arm!LoadReg(m, d, x) = [m EXCEPT !.r[d] = x]
      /\ Arm!StoredReg(m, d) = m.r[d]
  BY <1>2, Zenon DEF Arm!LoadReg, Arm!StoredReg
<1>. HIDE DEF a
<1>. DEFINE done == IF i.load THEN Arm!LoadReg(m, i.rd, Arm!HalfwordLoad(m.mem, a, i.sh))
                    ELSE [m EXCEPT !.mem = Arm!bus_write16(@, a, Arm!StoredReg(m, i.rd))]
<1>6. Arm!arm_halfword_transfer(m, i) = Arm!WriteBack(done, i, a)
  BY <1>1, <1>3, Zenon DEF Arm!arm_halfword_transfer, HalfOffsetIs
<1>7. done = HalfMoved(m, load, sh, d, a)
  BY <1>1, <1>5, Zenon DEF HalfMoved
<1>. HIDE DEF done
<1>8. Arm!arm_halfword_transfer(m, i) = HalfMoved(m, load, sh, d, a)
  BY <1>4, <1>6, <1>7, Zenon
<1>. QED BY <1>8, Zenon DEF HalfMoves, i, a

HalfLike(k, tw, load, sh, d, o, f) ==
  /\ tw.a = Half(load, sh, d, 0, o)
  /\ k = HalfMoved(cpu, load, sh, d, Arm!Wrap(twin.r[0] + f))
LEMMA HalfAgrees ==
  ASSUME Mirror(cpu, twin), NEW k, NEW tw, NEW load \in BOOLEAN, NEW sh \in {"H", "SB", "SH"},
         NEW d \in 0..2, NEW o, NEW f \in Int, HalfOffsetIs(twin, o, f),
         HalfLike(k, tw, load, sh, d, o, f)
  PROVE  Mirror(k, RunArm(tw.a))
<1>. DEFINE i == Half(load, sh, d, 0, o)
            a == Arm!Wrap(twin.r[0] + f)
<1>1. RunArm(i) = HalfMoved(twin, load, sh, d, a)
  <2>1. i.kind = "half"
    BY DEF Half
  <2>2. RunArm(i) = Arm!arm_halfword_transfer(twin, i)
    BY <2>1, MemRuns
  <2>3. HalfMoves(twin, load, sh, d, 0, o, f)
    BY ArmHalfMoves
  <2>4. Arm!arm_halfword_transfer(twin, i) = HalfMoved(twin, load, sh, d, a)
    BY <2>3, Zenon DEF HalfMoves
  <2>. QED BY <2>2, <2>4, Zenon
<1>2. a \in Nibble
  <2>1. twin.r[0] \in Nibble
    BY MirrorParts DEF MemRegs
  <2>2. twin.r[0] + f \in Int
    BY <2>1 DEF Nibble
  <2>. QED BY <2>2, WrapsToNibble
<1>3. tw.a = i /\ k = HalfMoved(cpu, load, sh, d, a)
  BY Zenon DEF HalfLike
<1>. HIDE DEF i, a
<1>4. Mirror(HalfMoved(cpu, load, sh, d, a), HalfMoved(twin, load, sh, d, a))
  BY <1>2, HalfMirror
<1>. QED BY <1>1, <1>3, <1>4, Zenon

(* What the Thumb file loads.                                              *)
LEMMA ThumbHalfLoads ==
  ASSUME NEW mem, NEW a \in Nibble
  PROVE  /\ Thumb!LoadHalf(mem, a) = Arm!HalfwordLoad(mem, a, "H")
         /\ Thumb!Extend(Thumb!bus_read8(mem, a), Thumb!ByteBits) = Arm!HalfwordLoad(mem, a, "SB")
         /\ (IF a % 2 = 1 THEN Thumb!Extend(Thumb!bus_read8(mem, a), Thumb!ByteBits)
             ELSE Thumb!Extend(Thumb!bus_read16(mem, a), 2 * Thumb!ByteBits))
              = Arm!HalfwordLoad(mem, a, "SH")
<1>1. Thumb!ByteBits = Arm!ByteBits
  BY SmallPowers
<1>. DEFINE b == Arm!bus_read8(mem, a)
            h == Arm!bus_read16(mem, a)
            w == Arm!ByteBits
<1>2. /\ Thumb!bus_read8(mem, a) = b /\ Thumb!bus_read16(mem, a) = h
      /\ Thumb!RotateRight(h, w) = Arm!RotateRight(h, w)
      /\ Thumb!Extend(b, w) = Arm!Extend(b, w) /\ Thumb!Extend(h, 2 * w) = Arm!Extend(h, 2 * w)
  BY SameMemory, Zenon
<1>. HIDE DEF b, h, w
<1>3. Thumb!LoadHalf(mem, a) = Arm!HalfwordLoad(mem, a, "H")
  BY <1>1, <1>2, Zenon DEF Thumb!LoadHalf, Arm!HalfwordLoad, b, h, w
<1>4. Thumb!Extend(Thumb!bus_read8(mem, a), Thumb!ByteBits) = Arm!HalfwordLoad(mem, a, "SB")
  BY <1>1, <1>2, Zenon DEF Arm!HalfwordLoad, b, w
<1>5. a % 2 = 0 \/ a % 2 = 1
  BY DEF Nibble
<1>6. Arm!HalfwordLoad(mem, a, "SH") = IF a % 2 = 1 THEN Arm!Extend(b, w) ELSE Arm!Extend(h, 2 * w)
  <2>1. CASE a % 2 = 1
    <3>1. a % 2 # 0
      BY <2>1
    <3>. QED BY <2>1, <3>1, Zenon DEF Arm!HalfwordLoad, b, w
  <2>2. CASE a % 2 = 0
    <3>1. a % 2 # 1
      BY <2>2
    <3>. QED BY <2>2, <3>1, Zenon DEF Arm!HalfwordLoad, h, w
  <2>. QED BY <1>5, <2>1, <2>2
<1>7. (IF a % 2 = 1 THEN Thumb!Extend(Thumb!bus_read8(mem, a), Thumb!ByteBits)
       ELSE Thumb!Extend(Thumb!bus_read16(mem, a), 2 * Thumb!ByteBits))
        = IF a % 2 = 1 THEN Arm!Extend(b, w) ELSE Arm!Extend(h, 2 * w)
  BY <1>1, <1>2, Zenon DEF w
<1>. QED BY <1>3, <1>4, <1>6, <1>7, Zenon

(* Format 8. *)
SignThumb(op, r, d) == [op |-> op, rb |-> 0, ro |-> r, rd |-> d]
ShOf(op) == CASE op \in {"STRH", "LDRH"} -> "H" [] op = "LDSB" -> "SB" [] op = "LDSH" -> "SH"
LEMMA SignAgrees ==
  ASSUME Mirror(cpu, twin), NEW tw \in SignExt
  PROVE  Mirror(RunThumb(tw), RunArm(tw.a))
<1>1. PICK op \in {"STRH", "LDRH", "LDSB", "LDSH"}, r \in Low, d \in 0..2 : tw = SignTwin(op, r, d)
  BY DEF SignExt
<1>. DEFINE i == SignThumb(op, r, d)
            load == op # "STRH"
            sh == ShOf(op)
            A == Half(load, sh, d, 0, RegOp(r))
            f == twin.r[r]
            a == Arm!Wrap(twin.r[0] + f)
            k == Thumb!thumb_load_store_sign_ext(cpu, i)
<1>2. i.op = op /\ i.rb = 0 /\ i.ro = r /\ i.rd = d
  BY DEF SignThumb
<1>3. tw = Twin("load_store_sign_ext", i, A)
  BY <1>1, Zenon DEF SignTwin, SignThumb, ShOf
<1>4. tw.a = A /\ RunThumb(tw) = k
  <2>. HIDE DEF i, A
  <2>. QED BY <1>3, MemRuns
<1>. HIDE DEF i, A
<1>5. cpu.r[0] = twin.r[0] /\ cpu.r[r] = f /\ f \in Int /\ 0 \in MemRegs /\ twin.r[0] \in Int
      /\ sh \in {"H", "SB", "SH"}
  <2>1. sh \in {"H", "SB", "SH"}
    BY DEF ShOf
  <2>. QED BY <2>1, MirrorParts DEF MemRegs, Low, Nibble
<1>6. a \in Nibble /\ Thumb!Wrap(cpu.r[0] + cpu.r[r]) = a
  <2>1. twin.r[0] + f \in Int
    BY <1>5
  <2>2. Thumb!Wrap(twin.r[0] + f) = a
    BY SameMemory, Zenon
  <2>. QED BY <1>5, <2>1, <2>2, WrapsToNibble
<1>. HIDE DEF a
<1>7. k = HalfMoved(cpu, load, sh, d, a)
  <2>1. /\ Thumb!LoadHalf(cpu.mem, a) = Arm!HalfwordLoad(cpu.mem, a, "H")
        /\ Thumb!Extend(Thumb!bus_read8(cpu.mem, a), Thumb!ByteBits) = Arm!HalfwordLoad(cpu.mem, a, "SB")
        /\ (IF a % 2 = 1 THEN Thumb!Extend(Thumb!bus_read8(cpu.mem, a), Thumb!ByteBits)
            ELSE Thumb!Extend(Thumb!bus_read16(cpu.mem, a), 2 * Thumb!ByteBits))
             = Arm!HalfwordLoad(cpu.mem, a, "SH")
    BY <1>6, ThumbHalfLoads
  <2>2. CASE op = "STRH"
    <3>1. Thumb!bus_write16(cpu.mem, a, cpu.r[d]) = Arm!bus_write16(cpu.mem, a, cpu.r[d])
      BY SameMemory, Zenon
    <3>2. k = [cpu EXCEPT !.mem = Thumb!bus_write16(cpu.mem, a, cpu.r[d])]
      BY <1>2, <1>6, <2>2, Zenon DEF Thumb!thumb_load_store_sign_ext
    <3>. QED BY <2>2, <3>1, <3>2, Zenon DEF HalfMoved
  <2>3. CASE op = "LDRH"
    <3>1. k = [cpu EXCEPT !.r[d] = Thumb!LoadHalf(cpu.mem, a)]
      BY <1>2, <1>6, <2>3, Zenon DEF Thumb!thumb_load_store_sign_ext
    <3>2. sh = "H" /\ load
      BY <2>3, Zenon DEF ShOf
    <3>. HIDE DEF sh, load
    <3>. QED BY <2>1, <3>1, <3>2, Zenon DEF HalfMoved
  <2>4. CASE op = "LDSB"
    <3>1. k = [cpu EXCEPT !.r[d] = Thumb!Extend(Thumb!bus_read8(cpu.mem, a), Thumb!ByteBits)]
      BY <1>2, <1>6, <2>4, Zenon DEF Thumb!thumb_load_store_sign_ext
    <3>2. sh = "SB" /\ load
      BY <2>4, Zenon DEF ShOf
    <3>. HIDE DEF sh, load
    <3>. QED BY <2>1, <3>1, <3>2, Zenon DEF HalfMoved
  <2>5. CASE op = "LDSH"
    <3>1. k = [cpu EXCEPT !.r[d] =
                 IF a % 2 = 1 THEN Thumb!Extend(Thumb!bus_read8(cpu.mem, a), Thumb!ByteBits)
                 ELSE Thumb!Extend(Thumb!bus_read16(cpu.mem, a), 2 * Thumb!ByteBits)]
      BY <1>2, <1>6, <2>5, Zenon DEF Thumb!thumb_load_store_sign_ext
    <3>2. sh = "SH" /\ load
      BY <2>5, Zenon DEF ShOf
    <3>. HIDE DEF sh, load
    <3>. QED BY <2>1, <3>1, <3>2, Zenon DEF HalfMoved
  <2>. QED BY <2>2, <2>3, <2>4, <2>5
<1>8. HalfOffsetIs(twin, RegOp(r), f)
  BY DEF HalfOffsetIs, RegOp
<1>9. load \in BOOLEAN
  OBVIOUS
<1>. HIDE DEF f, k, sh, load
<1>10. HalfLike(k, tw, load, sh, d, RegOp(r), f)
  BY <1>4, <1>7, Zenon DEF HalfLike, A, a
<1>11. Mirror(k, RunArm(tw.a))
  BY <1>5, <1>8, <1>9, <1>10, HalfAgrees
<1>. QED BY <1>4, <1>11, Zenon

(* Format 10. *)
HalfThumb(l, n, d) == [load |-> l, offset5 |-> n, rb |-> 0, rd |-> d]
LEMMA HalfwordAgrees ==
  ASSUME Mirror(cpu, twin), NEW tw \in HalfLoadStore
  PROVE  Mirror(RunThumb(tw), RunArm(tw.a))
<1>1. PICK l \in BOOLEAN, n \in {0, 3}, d \in Low : tw = HalfTwin(l, n, d)
  BY DEF HalfLoadStore
<1>. DEFINE i == HalfThumb(l, n, d)
            f == 2 * n
            sh == "H"
            A == Half(l, sh, d, 0, ImmOp(f))
            a == Arm!Wrap(twin.r[0] + f)
            k == Thumb!thumb_load_store_halfword(cpu, i)
<1>2. i.load = l /\ i.rb = 0 /\ i.offset5 = n /\ i.rd = d
  BY DEF HalfThumb
<1>3. tw = Twin("load_store_halfword", i, A)
  BY <1>1, Zenon DEF HalfTwin, HalfThumb
<1>4. tw.a = A /\ RunThumb(tw) = k
  <2>. HIDE DEF i, A
  <2>. QED BY <1>3, MemRuns
<1>. HIDE DEF i, A
<1>5. cpu.r[0] = twin.r[0] /\ f \in Int /\ twin.r[0] \in Int /\ sh \in {"H", "SB", "SH"} /\ d \in 0..2
  BY MirrorParts DEF MemRegs, Low, Nibble
<1>6. a \in Nibble /\ Thumb!Wrap(cpu.r[0] + f) = a
  <2>1. twin.r[0] + f \in Int
    BY <1>5
  <2>2. Thumb!Wrap(twin.r[0] + f) = a
    BY SameMemory, Zenon
  <2>. QED BY <1>5, <2>1, <2>2, WrapsToNibble
<1>. HIDE DEF a
<1>7. k = HalfMoved(cpu, l, sh, d, a)
  <2>1. /\ Thumb!LoadHalf(cpu.mem, a) = Arm!HalfwordLoad(cpu.mem, a, "H")
        /\ Thumb!bus_write16(cpu.mem, a, cpu.r[d]) = Arm!bus_write16(cpu.mem, a, cpu.r[d])
    <3>1. Thumb!LoadHalf(cpu.mem, a) = Arm!HalfwordLoad(cpu.mem, a, "H")
      BY <1>6, ThumbHalfLoads
    <3>2. Thumb!bus_write16(cpu.mem, a, cpu.r[d]) = Arm!bus_write16(cpu.mem, a, cpu.r[d])
      BY SameMemory, Zenon
    <3>. QED BY <3>1, <3>2
  <2>2. k = IF l THEN [cpu EXCEPT !.r[d] = Thumb!LoadHalf(cpu.mem, a)]
            ELSE [cpu EXCEPT !.mem = Thumb!bus_write16(cpu.mem, a, cpu.r[d])]
    BY <1>2, <1>6, Zenon DEF Thumb!thumb_load_store_halfword
  <2>. QED BY <2>1, <2>2, Zenon DEF HalfMoved
<1>8. HalfOffsetIs(twin, ImmOp(f), f)
  BY DEF HalfOffsetIs, ImmOp
<1>. HIDE DEF f, k, sh
<1>9. HalfLike(k, tw, l, sh, d, ImmOp(f), f)
  BY <1>4, <1>7, Zenon DEF HalfLike, A, a
<1>10. Mirror(k, RunArm(tw.a))
  BY <1>5, <1>8, <1>9, HalfAgrees
<1>. QED BY <1>4, <1>10, Zenon

-----------------------------------------------------------------------------
(* Additions and subtractions that set no flags.                           *)
Moves(op, a, x) == IF op = "ADD" THEN a + x ELSE a - x
LEMMA ArmAdds ==
  ASSUME NEW m \in MemCpus, NEW op \in {"ADD", "SUB"}, NEW d \in MemRegs \ {15}, NEW n \in MemRegs,
         NEW x \in Int
  PROVE  Arm!arm_data_processing(m, DpNo(op, d, n, ImmOp(x)))
           = [m EXCEPT !.r[d] = Arm!Wrap(Moves(op, m.r[n], x))]
<1>. DEFINE o == ImmOp(x)
            i == DpNo(op, d, n, o)
            sum == Arm!Arithmetic(op, m.r[n], x, IF m.c THEN 1 ELSE 0)
            y == Arm!Wrap(Moves(op, m.r[n], x))
<1>1. i.opcode = op /\ ~i.s /\ i.rd = d /\ i.rn = n /\ i.op2 = o
  BY DEF DpNo, Dp
<1>2. Arm!decode_dp_operand2(m, o).v = x /\ o.kind # "shift"
  BY DEF Arm!decode_dp_operand2, ImmOp
<1>3. d # Arm!PC /\ op \notin Arm!LogicalOps /\ op \notin Arm!TestOps
  BY DEF Arm!PC, Arm!LogicalOps, Arm!TestOps
<1>4. m.r[n] \in Int
  BY MemParts DEF Nibble
<1>5. sum.x = y
  <2>1. CASE op = "ADD"
    <3>1. sum = Arm!Add(m.r[n], x, 0)
      BY <2>1, Zenon DEF Arm!Arithmetic
    <3>2. m.r[n] + x + 0 = m.r[n] + x
      BY <1>4
    <3>. HIDE DEF sum
    <3>3. sum.x = Arm!Wrap(m.r[n] + x + 0)
      BY <3>1 DEF Arm!Add
    <3>. QED BY <2>1, <3>2, <3>3, Zenon DEF Moves
  <2>2. CASE op = "SUB"
    <3>1. sum = Arm!Sub(m.r[n], x, 1)
      BY <2>2, Zenon DEF Arm!Arithmetic
    <3>. HIDE DEF sum
    <3>2. Arm!Not(x) = 15 - x
      BY SmallPowers DEF Arm!Not
    <3>3. sum.x = Arm!Wrap(m.r[n] + (15 - x) + 1)
      BY <3>1, <3>2 DEF Arm!Sub
    <3>4. Arm!Wrap(m.r[n] + (15 - x) + 1) = (m.r[n] + (15 - x) + 1) % 16
      BY <1>4, WrapsToNibble
    <3>5. Arm!Wrap(m.r[n] - x) = (m.r[n] - x) % 16
      BY <1>4, WrapsToNibble
    <3>6. (m.r[n] + (15 - x) + 1) % 16 = (m.r[n] - x) % 16
      BY <1>4
    <3>7. Moves(op, m.r[n], x) = m.r[n] - x
      BY <2>2 DEF Moves
    <3>. QED BY <3>3, <3>4, <3>5, <3>6, <3>7, Zenon
  <2>. QED BY <2>1, <2>2
<1>. HIDE DEF o, i, y
<1>6. Arm!arm_data_processing(m, i) = [m EXCEPT !.r[d] = sum.x]
  BY <1>1, <1>2, <1>3, Zenon DEF Arm!arm_data_processing
<1>7. Arm!arm_data_processing(m, i) = [m EXCEPT !.r[d] = y]
  BY <1>5, <1>6, Zenon
<1>. QED BY <1>7, Zenon DEF o, i, y

(* A Thumb instruction that puts such a sum in a register.                 *)
AddsLike(k, tw, op, d, n, x) ==
  /\ tw.a = DpNo(op, d, n, ImmOp(x))
  /\ k = [cpu EXCEPT !.r[d] = Arm!Wrap(Moves(op, twin.r[n], x))]
LEMMA AddsAgree ==
  ASSUME Mirror(cpu, twin), NEW k, NEW tw, NEW op \in {"ADD", "SUB"}, NEW d \in MemRegs \ {15},
         NEW n \in MemRegs, NEW x \in Int, AddsLike(k, tw, op, d, n, x)
  PROVE  Mirror(k, RunArm(tw.a))
<1>. DEFINE i == DpNo(op, d, n, ImmOp(x))
            y == Arm!Wrap(Moves(op, twin.r[n], x))
<1>1. /\ cpu \in MemCpus /\ twin \in MemCpus /\ cpu.mem = twin.mem /\ cpu.mem \in Bytes
      /\ twin.r[n] \in Int /\ d \in MemRegs
  BY MirrorParts DEF Nibble
<1>2. RunArm(i) = [twin EXCEPT !.r[d] = y]
  <2>1. i.kind = "dp"
    BY DpParts
  <2>2. RunArm(i) = Arm!arm_data_processing(twin, i)
    BY <2>1, MemRuns
  <2>3. Arm!arm_data_processing(twin, i) = [twin EXCEPT !.r[d] = y]
    BY <1>1, ArmAdds
  <2>. QED BY <2>2, <2>3, Zenon
<1>3. tw.a = i /\ k = [cpu EXCEPT !.r[d] = y]
  BY Zenon DEF AddsLike
<1>4. y \in Nibble
  <2>1. Moves(op, twin.r[n], x) \in Int
    BY <1>1 DEF Moves
  <2>. QED BY <2>1, WrapsToNibble
<1>. HIDE DEF i, y
<1>5. MemHolds([cpu EXCEPT !.r[d] = y], cpu, [cpu.r EXCEPT ![d] = y], cpu.mem)
  BY <1>1, <1>4, MemWrites
<1>6. MemHolds([twin EXCEPT !.r[d] = y], twin, [twin.r EXCEPT ![d] = y], twin.mem)
  BY <1>1, <1>4, MemWrites
<1>7. Mirror([cpu EXCEPT !.r[d] = y], [twin EXCEPT !.r[d] = y])
  BY <1>1, <1>5, <1>6, MirrorLoaded
<1>. QED BY <1>2, <1>3, <1>7, Zenon

(* Format 12. *)
AddressThumb(b, n) == [sp |-> b, imm8 |-> n, rd |-> 0]
LEMMA AddressAgrees ==
  ASSUME Mirror(cpu, twin), NEW tw \in Address
  PROVE  Mirror(RunThumb(tw), RunArm(tw.a))
<1>1. PICK b \in BOOLEAN, n \in 0..2 : tw = AddressTwin(b, n)
  BY DEF Address
<1>. DEFINE i == AddressThumb(b, n)
            f == 4 * n
            rn == IF b THEN 13 ELSE 15
            A == DpNo("ADD", 0, rn, ImmOp(f))
            k == Thumb!thumb_load_address(cpu, i)
<1>2. i.sp = b /\ i.imm8 = n /\ i.rd = 0
  BY DEF AddressThumb
<1>3. tw = Twin("load_address", i, A)
  BY <1>1, Zenon DEF AddressTwin, AddressThumb, DpNo, R13, PC
<1>4. tw.a = A /\ RunThumb(tw) = k
  <2>. HIDE DEF i, A
  <2>. QED BY <1>3, MemRuns
<1>. HIDE DEF i, A
<1>5. rn \in MemRegs /\ f \in Int /\ 0 \in MemRegs \ {15} /\ twin.r[rn] \in Int
      /\ cpu.r[13] = twin.r[13] /\ cpu.r[15] = 6 /\ twin.r[15] = 4
  BY MirrorParts DEF MemRegs, Nibble
<1>6. (IF b THEN cpu.r[13] ELSE Thumb!PcWord(cpu)) = twin.r[rn]
  <2>1. Thumb!BIT(6, 1)
    BY SmallPowers DEF Thumb!BIT
  <2>2. 6 - (IF Thumb!BIT(6, 1) THEN 2 ELSE 0) = 4
    BY <2>1
  <2>3. Thumb!PcWord(cpu) = 4
    BY <1>5, <2>2 DEF Thumb!PcWord, Thumb!PC
  <2>. QED BY <1>5, <2>3
<1>7. k = [cpu EXCEPT !.r[0] = Arm!Wrap(twin.r[rn] + f)]
  <2>1. Thumb!Wrap(twin.r[rn] + f) = Arm!Wrap(twin.r[rn] + f)
    BY SameMemory, Zenon
  <2>2. k = [cpu EXCEPT !.r[0] = Thumb!Wrap((IF b THEN cpu.r[13] ELSE Thumb!PcWord(cpu)) + f)]
    BY <1>2, Zenon DEF Thumb!thumb_load_address, Thumb!SP
  <2>. HIDE DEF k, rn
  <2>. QED BY <1>6, <2>1, <2>2, Zenon
<1>. HIDE DEF k, f, rn
<1>8. AddsLike(k, tw, "ADD", 0, rn, f)
  BY <1>4, <1>7, Zenon DEF AddsLike, Moves, A
<1>9. Mirror(k, RunArm(tw.a))
  BY <1>5, <1>8, AddsAgree
<1>. QED BY <1>4, <1>9, Zenon

(* Format 13. *)
SpOffsetThumb(b, n) == [negative |-> b, imm7 |-> n]
LEMMA SpOffsetAgrees ==
  ASSUME Mirror(cpu, twin), NEW tw \in SpOffset
  PROVE  Mirror(RunThumb(tw), RunArm(tw.a))
<1>1. PICK b \in BOOLEAN, n \in 0..2 : tw = SpOffsetTwin(b, n)
  BY DEF SpOffset
<1>. DEFINE i == SpOffsetThumb(b, n)
            f == 4 * n
            op == IF b THEN "SUB" ELSE "ADD"
            A == DpNo(op, 13, 13, ImmOp(f))
            k == Thumb!thumb_add_sp_offset(cpu, i)
            s == twin.r[13]
            y == Moves(op, s, f)
<1>2. i.negative = b /\ i.imm7 = n
  BY DEF SpOffsetThumb
<1>3. tw = Twin("add_sp_offset", i, A)
  BY <1>1, Zenon DEF SpOffsetTwin, SpOffsetThumb, DpNo, R13
<1>4. tw.a = A /\ RunThumb(tw) = k
  <2>. HIDE DEF i, A
  <2>. QED BY <1>3, MemRuns
<1>. HIDE DEF i, A
<1>5. 13 \in MemRegs /\ f \in Int /\ 13 \in MemRegs \ {15} /\ op \in {"ADD", "SUB"} /\ cpu.r[13] = s
  BY MirrorParts DEF MemRegs, Nibble
<1>6. y = IF b THEN s - f ELSE s + f
  BY DEF Moves
<1>7. k = [cpu EXCEPT !.r[13] = Arm!Wrap(y)]
  <2>1. Thumb!Wrap(y) = Arm!Wrap(y)
    BY SameMemory, Zenon
  <2>2. k = [cpu EXCEPT !.r[13] = Thumb!Wrap(IF b THEN cpu.r[13] - f ELSE cpu.r[13] + f)]
    BY <1>2, Zenon DEF Thumb!thumb_add_sp_offset, Thumb!SP
  <2>. HIDE DEF k, y, s, f
  <2>. QED BY <1>5, <1>6, <2>1, <2>2, Zenon
<1>. HIDE DEF k, f, op
<1>8. AddsLike(k, tw, op, 13, 13, f)
  BY <1>4, <1>7, Zenon DEF AddsLike, A, y, s
<1>. HIDE DEF s, y
<1>9. Mirror(k, RunArm(tw.a))
  BY <1>5, <1>8, AddsAgree
<1>. QED BY <1>4, <1>9, Zenon

-----------------------------------------------------------------------------
(* Lists of registers: which slot each has, and that every slot has one.   *)
BlockLists == SUBSET {0, 1, 2, 14}
In(list, j) == IF j \in list THEN 1 ELSE 0
LEMMA CountOne ==
  ASSUME NEW list, NEW S, NEW T, NEW x, IsFiniteSet(S), x \notin S,
         T = S \cup (IF x \in list THEN {x} ELSE {})
  PROVE  IsFiniteSet(T) /\ Cardinality(T) = Cardinality(S) + In(list, x)
<1>1. CASE x \in list
  BY <1>1, FS_AddElement DEF In
<1>2. CASE x \notin list
  <2>1. T = S /\ In(list, x) = 0 /\ Cardinality(S) \in Nat
    BY <1>2, FS_CardinalityType DEF In
  <2>2. Cardinality(T) = Cardinality(S)
    BY <2>1
  <2>3. Cardinality(S) + In(list, x) = Cardinality(S)
    <3>1. \A c, i : c \in Nat /\ i = 0 => c + i = c
      OBVIOUS
    <3>. QED BY <2>1, <3>1
  <2>. QED BY <2>1, <2>2, <2>3, Zenon
<1>. QED BY <1>1, <1>2

(* The counts of both files.                                               *)
LEMMA SameCount ==
  ASSUME NEW S
  PROVE  Arm!Cardinality(S) = Cardinality(S) /\ Thumb!Cardinality(S) = Cardinality(S)
  BY Zenon DEF Cardinality, Arm!Cardinality, Thumb!Cardinality

LEMMA Slots ==
  ASSUME NEW list \in BlockLists
  PROVE  /\ Arm!SlotOf(list, 0) = 0 /\ Arm!SlotOf(list, 1) = In(list, 0)
         /\ Arm!SlotOf(list, 2) = In(list, 0) + In(list, 1)
         /\ Arm!SlotOf(list, 14) = In(list, 0) + In(list, 1) + In(list, 2)
         /\ Cardinality(list) = In(list, 0) + In(list, 1) + In(list, 2) + In(list, 14)
<1>. DEFINE s0 == {j \in list : j < 0}
            s1 == {j \in list : j < 1}
            s2 == {j \in list : j < 2}
            s14 == {j \in list : j < 14}
<1>0. \A j \in list : j \in {0, 1, 2, 14}
  BY DEF BlockLists
<1>1. /\ s0 = {} /\ s1 = s0 \cup (IF 0 \in list THEN {0} ELSE {})
      /\ s2 = s1 \cup (IF 1 \in list THEN {1} ELSE {})
      /\ s14 = s2 \cup (IF 2 \in list THEN {2} ELSE {})
      /\ list = s14 \cup (IF 14 \in list THEN {14} ELSE {})
      /\ 0 \notin s0 /\ 1 \notin s1 /\ 2 \notin s2 /\ 14 \notin s14
  <2>1. \A j : j \in list => j = 0 \/ j = 1 \/ j = 2 \/ j = 14
    BY <1>0
  <2>2. s0 = {}
    BY <2>1
  <2>3. s1 = s0 \cup (IF 0 \in list THEN {0} ELSE {})
    BY <2>1, <2>2
  <2>4. s2 = s1 \cup (IF 1 \in list THEN {1} ELSE {})
    BY <2>1
  <2>5. s14 = s2 \cup (IF 2 \in list THEN {2} ELSE {})
    BY <2>1
  <2>6. list = s14 \cup (IF 14 \in list THEN {14} ELSE {})
    BY <2>1
  <2>. QED BY <2>2, <2>3, <2>4, <2>5, <2>6
<1>2. /\ Arm!SlotOf(list, 0) = Cardinality(s0) /\ Arm!SlotOf(list, 1) = Cardinality(s1)
      /\ Arm!SlotOf(list, 2) = Cardinality(s2) /\ Arm!SlotOf(list, 14) = Cardinality(s14)
  BY SameCount, Zenon DEF Arm!SlotOf
<1>. HIDE DEF s0, s1, s2, s14
<1>3. IsFiniteSet(s0) /\ Cardinality(s0) = 0
  BY <1>1, FS_EmptySet
<1>4. IsFiniteSet(s1) /\ Cardinality(s1) = 0 + In(list, 0)
  BY <1>1, <1>3, CountOne
<1>5. IsFiniteSet(s2) /\ Cardinality(s2) = Cardinality(s1) + In(list, 1)
  BY <1>1, <1>4, CountOne
<1>6. IsFiniteSet(s14) /\ Cardinality(s14) = Cardinality(s2) + In(list, 2)
  BY <1>1, <1>5, CountOne
<1>7. Cardinality(list) = Cardinality(s14) + In(list, 14)
  BY <1>1, <1>6, CountOne
<1>. QED BY <1>2, <1>3, <1>4, <1>5, <1>6, <1>7 DEF In

LEMMA SlotRange ==
  ASSUME NEW list \in BlockLists, list # {}
  PROVE  /\ Cardinality(list) \in 1..4
         /\ \A i \in list : Arm!SlotOf(list, i) \in 0..3
         /\ \A q \in 0 .. Cardinality(list) - 1 : \E i \in list : Arm!SlotOf(list, i) = q
<1>1. \A j : In(list, j) \in {0, 1} /\ (In(list, j) = 1 <=> j \in list)
  BY DEF In
<1>2. \A i \in list : i \in {0, 1, 2, 14}
  BY DEF BlockLists
<1>3. Cardinality(list) \in 1..4
  <2>. DEFINE a == In(list, 0)
              b == In(list, 1)
              c == In(list, 2)
              d == In(list, 14)
  <2>1. 0 \in list \/ 1 \in list \/ 2 \in list \/ 14 \in list
    BY <1>2
  <2>2. a \in {0, 1} /\ b \in {0, 1} /\ c \in {0, 1} /\ d \in {0, 1}
    BY <1>1
  <2>3. a = 1 \/ b = 1 \/ c = 1 \/ d = 1
    BY <1>1, <2>1
  <2>4. Cardinality(list) = a + b + c + d
    BY Slots
  <2>. HIDE DEF a, b, c, d
  <2>. QED BY <2>2, <2>3, <2>4
<1>4. \A i \in list : Arm!SlotOf(list, i) \in 0..3
  <2>1. \A i \in {0, 1, 2, 14} : Arm!SlotOf(list, i) \in 0..3
    BY <1>1, Slots
  <2>. QED BY <1>2, <2>1
<1>5. ASSUME NEW q \in 0 .. Cardinality(list) - 1 PROVE \E i \in list : Arm!SlotOf(list, i) = q
  <2>. DEFINE a == In(list, 0)
              b == In(list, 1)
              c == In(list, 2)
              d == In(list, 14)
  <2>0. Cardinality(list) = a + b + c + d
    BY Slots
  <2>0a. a \in {0, 1} /\ b \in {0, 1} /\ c \in {0, 1} /\ d \in {0, 1}
    BY <1>1
  <2>. HIDE DEF a, b, c, d
  <2>1. /\ q \in Nat /\ q < a + b + c + d
        /\ (a = 0 \/ a = 1) /\ (b = 0 \/ b = 1) /\ (c = 0 \/ c = 1) /\ (d = 0 \/ d = 1)
    BY <1>3, <2>0, <2>0a
  <2>2. \/ a = 1 /\ q = 0
        \/ b = 1 /\ q = a
        \/ c = 1 /\ q = a + b
        \/ d = 1 /\ q = a + b + c
    BY <2>1
  <2>3. CASE a = 1 /\ q = 0
    BY <1>1, <2>3, Slots DEF a
  <2>4. CASE b = 1 /\ q = a
    BY <1>1, <2>4, Slots DEF a, b
  <2>5. CASE c = 1 /\ q = a + b
    BY <1>1, <2>5, Slots DEF a, b, c
  <2>6. CASE d = 1 /\ q = a + b + c
    BY <1>1, <2>6, Slots DEF a, b, c, d
  <2>. QED BY <2>2, <2>3, <2>4, <2>5, <2>6
<1>. QED BY <1>3, <1>4, <1>5

-----------------------------------------------------------------------------
(* What a block transfer loads and stores, and where it leaves the base.   *)
ChosenFor(list, k) == CHOOSE i \in list : Arm!SlotOf(list, i) = k \div 4
StoreAt(mem, list, start, V, b) ==
  LET k == Arm!Wrap(b - Arm!Aligned(start, 4))
  IN  IF k < 4 * Cardinality(list) THEN Arm!ByteOf(V[ChosenFor(list, k)], k % 4) ELSE mem[b]
StoreValues(mem, list, start, V) == [b \in Nibble |-> StoreAt(mem, list, start, V, b)]
LoadValues(mem, list, start) ==
  [i \in list |-> Arm!bus_read32(mem, Arm!Wrap(start + 4 * Arm!SlotOf(list, i)))]
StoredOf(R, list, rn, nb) ==
  [r \in list |-> IF r = rn /\ Arm!SlotOf(list, r) # 0 THEN nb ELSE R[r]]
LoadedOf(R, list, rn, nb, G) ==
  [r \in MemRegs |-> IF r \in list THEN G[r] ELSE IF r = rn THEN nb ELSE R[r]]
BlockDone(res, m, load, rn, start, nb, list) ==
  IF load THEN MemHolds(res, m, LoadedOf(m.r, list, rn, nb, LoadValues(m.mem, list, start)), m.mem)
  ELSE MemHolds(res, m, [m.r EXCEPT ![rn] = nb],
             StoreValues(m.mem, list, start, StoredOf(m.r, list, rn, nb)))

LEMMA Chosen ==
  ASSUME NEW list \in BlockLists, list # {}, NEW k \in Nibble, k < 4 * Cardinality(list)
  PROVE  ChosenFor(list, k) \in list /\ k % 4 \in 0..3
<1>1. Cardinality(list) \in 1..4
  BY SlotRange
<1>2. k \div 4 \in 0 .. Cardinality(list) - 1 /\ k % 4 \in 0..3
  BY <1>1 DEF Nibble
<1>3. \E i \in list : Arm!SlotOf(list, i) = k \div 4
  BY <1>2, SlotRange
<1>. QED BY <1>2, <1>3 DEF ChosenFor

LEMMA StoresBytes ==
  ASSUME NEW mem \in Bytes, NEW list \in BlockLists, list # {}, NEW start \in Nibble,
         NEW V \in [list -> Nibble]
  PROVE  StoreValues(mem, list, start, V) \in Bytes
<1>1. ASSUME NEW b \in Nibble PROVE StoreAt(mem, list, start, V, b) \in 0..1
  <2>. DEFINE k == Arm!Wrap(b - Arm!Aligned(start, 4))
  <2>1. k \in Nibble
    <3>1. b - Arm!Aligned(start, 4) \in Int
      BY DEF Nibble, Arm!Aligned
    <3>. QED BY <3>1, WrapsToNibble
  <2>. HIDE DEF k
  <2>2. CASE k < 4 * Cardinality(list)
    <3>1. V[ChosenFor(list, k)] \in Int /\ k % 4 \in 0..3
      BY <2>1, <2>2, Chosen DEF Nibble
    <3>2. StoreAt(mem, list, start, V, b) = Arm!ByteOf(V[ChosenFor(list, k)], k % 4)
      BY <2>2, Zenon DEF StoreAt, k
    <3>. QED BY <3>1, <3>2, ByteIs
  <2>3. CASE ~(k < 4 * Cardinality(list))
    <3>1. StoreAt(mem, list, start, V, b) = mem[b]
      BY <2>3, Zenon DEF StoreAt, k
    <3>. QED BY <3>1 DEF Bytes
  <2>. QED BY <2>2, <2>3
<1>. QED BY <1>1 DEF StoreValues, Bytes

LEMMA LoadsNibbles ==
  ASSUME NEW mem \in Bytes, NEW list \in BlockLists, list # {}, NEW start \in Nibble
  PROVE  LoadValues(mem, list, start) \in [list -> Nibble]
<1>1. ASSUME NEW i \in list
      PROVE  Arm!bus_read32(mem, Arm!Wrap(start + 4 * Arm!SlotOf(list, i))) \in Nibble
  <2>1. Arm!SlotOf(list, i) \in 0..3
    BY SlotRange
  <2>2. start + 4 * Arm!SlotOf(list, i) \in Int
    BY <2>1 DEF Nibble
  <2>. QED BY <2>2, WrapsToNibble, Read32
<1>. QED BY <1>1 DEF LoadValues

LEMMA BlockMirror ==
  ASSUME NEW k, NEW l, Mirror(k, l), NEW kk, NEW ll, NEW load \in BOOLEAN, NEW rn \in {0, 1, 13},
         NEW start, NEW nb, NEW list \in BlockLists,
         BlockDone(kk, k, load, rn, start, nb, list), BlockDone(ll, l, load, rn, start, nb, list)
  PROVE  Mirror(kk, ll)
<1>1. /\ k.r \in [MemRegs -> Nibble] /\ l.r \in [MemRegs -> Nibble] /\ k.mem = l.mem
      /\ k.r[15] = 6 /\ l.r[15] = 4 /\ \A i \in MemRegs \ {15} : k.r[i] = l.r[i]
  BY MirrorParts, MemParts
<1>2. /\ 15 \notin list /\ rn # 15 /\ rn \in MemRegs \ {15} /\ 15 \in MemRegs
      /\ \A i \in list : i \in MemRegs \ {15}
  BY DEF BlockLists, MemRegs
<1>3. CASE load
  <2>. DEFINE G == LoadValues(k.mem, list, start)
              R == LoadedOf(k.r, list, rn, nb, G)
              Q == LoadedOf(l.r, list, rn, nb, G)
  <2>1. MemHolds(kk, k, R, k.mem) /\ MemHolds(ll, l, Q, k.mem)
    BY <1>1, <1>3, Zenon DEF BlockDone
  <2>. HIDE DEF G
  <2>2. R[15] = 6 /\ Q[15] = 4 /\ \A i \in MemRegs \ {15} : R[i] = Q[i]
    BY <1>1, <1>2 DEF LoadedOf
  <2>. HIDE DEF R, Q
  <2>. QED BY <2>1, <2>2, Mirrored
<1>4. CASE ~load
  <2>. DEFINE V == StoredOf(k.r, list, rn, nb)
              M == StoreValues(k.mem, list, start, V)
  <2>1. StoredOf(l.r, list, rn, nb) = V
    BY <1>1, <1>2 DEF StoredOf
  <2>2. MemHolds(kk, k, [k.r EXCEPT ![rn] = nb], M) /\ MemHolds(ll, l, [l.r EXCEPT ![rn] = nb], M)
    BY <1>1, <1>4, <2>1, Zenon DEF BlockDone
  <2>. HIDE DEF V, M
  <2>. QED BY <1>2, <2>2, MirrorLoaded
<1>. QED BY <1>3, <1>4

(* The counts, lists and slots of both files.                              *)
LEMMA SameLists ==
  ASSUME NEW mem, NEW list, NEW a
  PROVE  /\ \A i : Thumb!SlotOf(list, i) = Arm!SlotOf(list, i)
         /\ Thumb!LoadList(mem, list, a) = LoadValues(mem, list, a)
         /\ Arm!LoadList(mem, list, a) = LoadValues(mem, list, a)
<1>1. \A i : Thumb!SlotOf(list, i) = Arm!SlotOf(list, i)
  BY SameCount, Zenon DEF Thumb!SlotOf, Arm!SlotOf
<1>2. Thumb!LoadList(mem, list, a) = LoadValues(mem, list, a)
  <2>1. \A i : Thumb!bus_read32(mem, Thumb!Wrap(a + 4 * Thumb!SlotOf(list, i)))
                 = Arm!bus_read32(mem, Arm!Wrap(a + 4 * Arm!SlotOf(list, i)))
    BY <1>1, SameMemory, Zenon
  <2>. QED BY <2>1, Zenon DEF Thumb!LoadList, LoadValues
<1>3. Arm!LoadList(mem, list, a) = LoadValues(mem, list, a)
  BY Zenon DEF Arm!LoadList, LoadValues
<1>. QED BY <1>1, <1>2, <1>3

(* What both do to a processor with a loaded or a stored list.             *)
LEMMA BlockLoads ==
  ASSUME NEW m \in MemCpus, NEW list \in BlockLists, list # {}, NEW start \in Nibble,
         NEW nb \in Nibble, NEW rn, NEW b \in BOOLEAN
  PROVE  LET R == LoadedOf(m.r, list, rn, nb, LoadValues(m.mem, list, start)) IN
         /\ MemHolds([m EXCEPT !.r = R], m, R, m.mem)
         /\ MemHolds([m EXCEPT !.r = R, !.flush = b], m, R, m.mem)
<1>. DEFINE G == LoadValues(m.mem, list, start)
            R == LoadedOf(m.r, list, rn, nb, G)
<1>1. G \in [list -> Nibble]
  BY LoadsNibbles, MemParts
<1>. HIDE DEF G
<1>2. R \in [MemRegs -> Nibble]
  BY <1>1, MemParts DEF LoadedOf
<1>. HIDE DEF R
<1>3. /\ MemHolds([m EXCEPT !.r = R], m, R, m.mem)
      /\ MemHolds([m EXCEPT !.r = R, !.flush = b], m, R, m.mem)
  BY <1>2, MemReplaced
<1>. QED BY <1>3 DEF R, G

LEMMA BlockStores ==
  ASSUME NEW m \in MemCpus, NEW list \in BlockLists, list # {}, NEW start \in Nibble,
         NEW nb \in Nibble, NEW rn \in MemRegs
  PROVE  LET M == StoreValues(m.mem, list, start, StoredOf(m.r, list, rn, nb)) IN
         /\ MemHolds([m EXCEPT !.r[rn] = nb, !.mem = M], m, [m.r EXCEPT ![rn] = nb], M)
         /\ MemHolds([m EXCEPT !.mem = M, !.r[rn] = nb], m, [m.r EXCEPT ![rn] = nb], M)
<1>. DEFINE V == StoredOf(m.r, list, rn, nb)
            M == StoreValues(m.mem, list, start, V)
<1>1. \A r \in list : m.r[r] \in Nibble
  <2>1. \A r \in list : r \in MemRegs
    BY DEF BlockLists, MemRegs
  <2>. QED BY <2>1, MemParts
<1>2. V \in [list -> Nibble]
  BY <1>1 DEF StoredOf
<1>. HIDE DEF V
<1>3. M \in Bytes
  BY <1>2, StoresBytes, MemParts
<1>. HIDE DEF M
<1>4. /\ MemHolds([m EXCEPT !.r[rn] = nb, !.mem = M], m, [m.r EXCEPT ![rn] = nb], M)
      /\ MemHolds([m EXCEPT !.mem = M, !.r[rn] = nb], m, [m.r EXCEPT ![rn] = nb], M)
  BY <1>3, MemWrites
<1>. QED BY <1>4 DEF V, M

(* The base that is left, and the address of the first word.               *)
NextBase(m, up, rn, list) ==
  Arm!Wrap(IF up THEN m.r[rn] + 4 * Cardinality(list) ELSE m.r[rn] - 4 * Cardinality(list))
FirstWord(m, up, rn, list) == IF up THEN m.r[rn] ELSE NextBase(m, up, rn, list)
LEMMA BlockEnds ==
  ASSUME NEW m \in MemCpus, NEW up \in BOOLEAN, NEW rn \in MemRegs, NEW list \in BlockLists, list # {}
  PROVE  /\ m.r[rn] \in Nibble /\ NextBase(m, up, rn, list) \in Nibble
         /\ FirstWord(m, up, rn, list) \in Nibble
         /\ Arm!Wrap(Arm!BlockStart(m.r[rn], Cardinality(list), ~up, up)) = FirstWord(m, up, rn, list)
<1>. DEFINE base == m.r[rn]
            c == Cardinality(list)
<1>1. base \in Nibble /\ c \in 1..4
  BY MemParts, SlotRange
<1>. HIDE DEF base, c
<1>2. base \in 0..15 /\ base + 4 * c \in Int /\ base - 4 * c \in Int /\ base - 4 * c + 0 = base - 4 * c
  BY <1>1 DEF Nibble
<1>3. NextBase(m, up, rn, list) \in Nibble
  BY <1>2, WrapsToNibble DEF NextBase, base, c
<1>4. CASE up
  <2>1. Arm!BlockStart(base, c, ~up, up) = base
    BY <1>4, Zenon DEF Arm!BlockStart
  <2>2. Arm!Wrap(base) = base
    <3>1. Arm!Wrap(base) = base % 16
      BY <1>2, WrapsToNibble
    <3>. QED BY <1>2, <3>1
  <2>. QED BY <1>1, <1>3, <1>4, <2>1, <2>2, Zenon DEF FirstWord, base, c
<1>5. CASE ~up
  <2>1. Arm!BlockStart(base, c, ~up, up) = base - 4 * c + 0
    BY <1>5, Zenon DEF Arm!BlockStart
  <2>2. NextBase(m, up, rn, list) = Arm!Wrap(base - 4 * c)
    BY <1>5, Zenon DEF NextBase, base, c
  <2>. QED BY <1>1, <1>2, <1>3, <1>5, <2>1, <2>2, Zenon DEF FirstWord, base, c
<1>. QED BY <1>4, <1>5

LEMMA ArmBlocks ==
  ASSUME NEW m \in MemCpus, NEW load \in BOOLEAN, NEW up \in BOOLEAN, NEW pre, pre = ~up,
         NEW rn \in {0, 1, 13}, NEW list \in BlockLists, list # {}
  PROVE  BlockDone(Arm!arm_block_transfer(m, Block(load, pre, up, rn, list)), m, load, rn,
                   FirstWord(m, up, rn, list), NextBase(m, up, rn, list), list)
<1>. DEFINE i == Block(load, pre, up, rn, list)
            start == FirstWord(m, up, rn, list)
            nb == NextBase(m, up, rn, list)
            G == LoadValues(m.mem, list, start)
            V == StoredOf(m.r, list, rn, nb)
            M == StoreValues(m.mem, list, start, V)
            listed == LoadedOf(m.r, list, 16, nb, G)
            res == Arm!arm_block_transfer(m, i)
            f == m.flush \/ Arm!PC \in list
<1>1. /\ i.load = load /\ i.pre = pre /\ i.up = up /\ i.rn = rn /\ i.rlist = list /\ i.writeback
  BY DEF Block
<1>2. /\ rn \in MemRegs /\ rn # Arm!PC /\ Arm!PC \notin list
      /\ \A r \in list : r \in MemRegs /\ r # Arm!PC /\ r # 16 /\ r # 15
      /\ \A r \in MemRegs : r # 16
  BY DEF MemRegs, Arm!PC, BlockLists
<1>3. start \in Nibble /\ nb \in Nibble /\ m.r \in [MemRegs -> Nibble] /\ m.mem \in Bytes
      /\ Arm!Wrap(Arm!BlockStart(m.r[rn], Cardinality(list), pre, up)) = start
  BY <1>2, BlockEnds, MemParts
<1>4. DOMAIN m.r = MemRegs /\ DOMAIN m.mem = Nibble
  BY <1>3 DEF Bytes
<1>5. Arm!LoadList(m.mem, list, start) = G
  BY SameLists
<1>6. [r \in DOMAIN m.r |-> IF r \notin list THEN m.r[r]
                            ELSE IF r = Arm!PC THEN Arm!Aligned(G[r], 4) ELSE G[r]] = listed
  <2>. HIDE DEF G
  <2>. QED BY <1>2, <1>4 DEF LoadedOf
<1>7. Arm!StoreList(m.mem, list, start, LAMBDA r : Arm!StoredInList(m, i, list, r, nb)) = M
  <2>. DEFINE at(b) == LET k == Arm!Wrap(b - Arm!Aligned(start, 4)) IN
                       IF k < 4 * Arm!Cardinality(list)
                       THEN Arm!ByteOf(Arm!StoredInList(m, i, list, ChosenFor(list, k), nb), k % 4)
                       ELSE m.mem[b]
  <2>1. Arm!StoreList(m.mem, list, start, LAMBDA r : Arm!StoredInList(m, i, list, r, nb))
          = [b \in Nibble |-> at(b)]
    BY <1>4, Zenon DEF Arm!StoreList, ChosenFor
  <2>2. ASSUME NEW b \in Nibble PROVE at(b) = StoreAt(m.mem, list, start, V, b)
    <3>. DEFINE k == Arm!Wrap(b - Arm!Aligned(start, 4))
                c == ChosenFor(list, k)
    <3>1. k \in Nibble
      <4>. HIDE DEF start
      <4>1. b - Arm!Aligned(start, 4) \in Int
        BY <1>3 DEF Nibble, Arm!Aligned
      <4>. QED BY <4>1, WrapsToNibble
    <3>. HIDE DEF k
    <3>2. CASE k < 4 * Cardinality(list)
      <4>1. c \in list
        BY <3>1, <3>2, Chosen
      <4>. HIDE DEF c
      <4>2. c # Arm!PC
        BY <1>2, <4>1
      <4>. HIDE DEF start, nb, i
      <4>3. Arm!StoredInList(m, i, list, c, nb) = V[c]
        BY <1>1, <4>1, <4>2, Zenon DEF Arm!StoredInList, StoredOf
      <4>4. Arm!Cardinality(list) = Cardinality(list)
        BY SameCount
      <4>. HIDE DEF V
      <4>5. at(b) = Arm!ByteOf(Arm!StoredInList(m, i, list, c, nb), k % 4)
        BY <3>2, <4>4, Zenon DEF k, c
      <4>6. StoreAt(m.mem, list, start, V, b) = Arm!ByteOf(V[c], k % 4)
        BY <3>2, Zenon DEF StoreAt, k, c
      <4>. QED BY <4>3, <4>5, <4>6, Zenon
    <3>3. CASE ~(k < 4 * Cardinality(list))
      <4>1. Arm!Cardinality(list) = Cardinality(list)
        BY SameCount
      <4>2. at(b) = m.mem[b]
        BY <3>3, <4>1, Zenon DEF k
      <4>3. StoreAt(m.mem, list, start, V, b) = m.mem[b]
        BY <3>3, Zenon DEF StoreAt, k
      <4>. QED BY <4>2, <4>3, Zenon
    <3>. QED BY <3>2, <3>3
  <2>. HIDE DEF at
  <2>. QED BY <2>1, <2>2, Zenon DEF StoreValues
<1>. DEFINE list0 == IF i.rlist = {} THEN {Arm!PC} ELSE i.rlist
            count0 == IF i.rlist = {} THEN 16 ELSE Arm!Cardinality(i.rlist)
            start0 == Arm!Wrap(Arm!BlockStart(m.r[i.rn], count0, i.pre, i.up))
            nb0 == Arm!Wrap(IF i.up THEN m.r[i.rn] + 4 * count0 ELSE m.r[i.rn] - 4 * count0)
            regs0 == [r \in DOMAIN m.r |-> IF r \notin list THEN m.r[r]
                            ELSE IF r = Arm!PC THEN Arm!Aligned(G[r], 4) ELSE G[r]]
<1>8. list0 = list /\ start0 = start /\ nb0 = nb
  <2>1. list0 = list /\ count0 = Cardinality(list)
    BY <1>1, SameCount, Zenon
  <2>. HIDE DEF list0, count0, i
  <2>. QED BY <1>1, <1>3, <2>1, Zenon DEF NextBase
<1>9. CASE load
  <2>. DEFINE done == [m EXCEPT !.r = listed, !.flush = f]
  <2>1. MemHolds(done, m, listed, m.mem)
    <3>1. f \in BOOLEAN
      OBVIOUS
    <3>. HIDE DEF f, start, nb
    <3>. QED BY <1>3, <3>1, BlockLoads
  <2>2. res = IF rn \in list THEN done ELSE [done EXCEPT !.r[rn] = nb]
    <3>. DEFINE done0 == [m EXCEPT !.r = [r \in DOMAIN m.r |->
                             IF r \notin list0 THEN m.r[r]
                             ELSE IF r = Arm!PC THEN Arm!Aligned(Arm!LoadList(m.mem, list0, start0)[r], 4)
                             ELSE Arm!LoadList(m.mem, list0, start0)[r]],
                           !.flush = @ \/ Arm!PC \in list0]
    <3>1. done0 = done
      <4>1. m.flush \in BOOLEAN
        BY MemParts
      <4>. HIDE DEF list0, start0, listed, G, start
      <4>. QED BY <1>5, <1>6, <1>8, Zenon
    <3>2. res = IF i.writeback /\ ~(i.load /\ i.rn \in list0)
                THEN [done0 EXCEPT !.r[i.rn] = nb0] ELSE done0
      BY <1>1, <1>9, Zenon DEF Arm!arm_block_transfer
    <3>. HIDE DEF done0, done, list0, nb0, i, nb, start0, start, res
    <3>. QED BY <1>1, <1>8, <1>9, <3>1, <3>2, Zenon
  <2>3. MemHolds(res, m, LoadedOf(m.r, list, rn, nb, G), m.mem)
    <3>. HIDE DEF done, res, G, nb
    <3>1. CASE rn \in list
      <4>1. LoadedOf(m.r, list, rn, nb, G) = listed
        BY <1>2, <3>1 DEF LoadedOf
      <4>. HIDE DEF listed
      <4>. QED BY <2>1, <2>2, <3>1, <4>1, Zenon
    <3>2. CASE rn \notin list
      <4>. DEFINE k == [done EXCEPT !.r[rn] = nb]
      <4>1. LoadedOf(m.r, list, rn, nb, G) = [listed EXCEPT ![rn] = nb]
        BY <1>2, <3>2 DEF LoadedOf
      <4>. HIDE DEF listed
      <4>2. done \in MemCpus /\ done.r = listed /\ done.mem = m.mem /\ done.mem \in Bytes
        BY <1>3, <2>1 DEF MemHolds
      <4>3. MemHolds(k, done, [done.r EXCEPT ![rn] = nb], done.mem)
        BY <1>2, <1>3, <4>2, MemWrites DEF nb
      <4>. HIDE DEF k
      <4>4. MemHolds(k, m, [listed EXCEPT ![rn] = nb], m.mem)
        BY <2>1, <4>2, <4>3, Zenon DEF MemHolds
      <4>. QED BY <2>2, <3>2, <4>1, <4>4, Zenon DEF k
    <3>. QED BY <3>1, <3>2
  <2>. QED BY <1>9, <2>3, Zenon DEF BlockDone
<1>10. CASE ~load
  <2>. DEFINE done == [m EXCEPT !.mem = M]
  <2>1. MemHolds(done, m, m.r, M) /\ M \in Bytes
    <3>1. \A r \in list : m.r[r] \in Nibble
      BY <1>2, <1>3
    <3>. HIDE DEF nb, start
    <3>2. V \in [list -> Nibble]
      BY <1>3, <3>1 DEF StoredOf
    <3>. HIDE DEF V
    <3>3. M \in Bytes
      BY <1>3, <3>2, StoresBytes
    <3>. HIDE DEF M
    <3>. QED BY <1>2, <1>3, <3>3, MemWrites
  <2>2. res = [done EXCEPT !.r[rn] = nb]
    <3>. DEFINE at0(b) == LET k == Arm!Wrap(b - Arm!Aligned(start0, 4)) IN
                       IF k < 4 * Arm!Cardinality(list0)
                       THEN Arm!ByteOf(Arm!StoredInList(m, i, list0, ChosenFor(list0, k), nb0), k % 4)
                       ELSE m.mem[b]
                done0 == [m EXCEPT !.mem = [b \in DOMAIN m.mem |-> at0(b)]]
    <3>1. done0 = done
      <4>. HIDE DEF list0, start0, nb0, start, nb, i
      <4>1. [b \in DOMAIN m.mem |-> at0(b)] = M
        <5>. QED BY <1>7, <1>8, Zenon DEF Arm!StoreList, ChosenFor
      <4>. QED BY <4>1, Zenon
    <3>2. res = IF i.writeback /\ ~(i.load /\ i.rn \in list0)
                THEN [done0 EXCEPT !.r[i.rn] = nb0] ELSE done0
      BY <1>1, <1>10, Zenon DEF Arm!arm_block_transfer, Arm!StoreList, ChosenFor
    <3>. HIDE DEF done0, done, list0, nb0, i, nb, start0, start, res
    <3>. QED BY <1>1, <1>8, <1>10, <3>1, <3>2, Zenon
  <2>3. MemHolds(res, m, [m.r EXCEPT ![rn] = nb], M)
    <3>. HIDE DEF done, res, M, nb
    <3>. DEFINE k == [done EXCEPT !.r[rn] = nb]
    <3>1. done \in MemCpus /\ done.r = m.r /\ done.mem = M /\ done.mem \in Bytes
      BY <2>1 DEF MemHolds
    <3>2. MemHolds(k, done, [done.r EXCEPT ![rn] = nb], done.mem)
      BY <1>2, <1>3, <3>1, MemWrites DEF nb
    <3>. HIDE DEF k
    <3>3. MemHolds(k, m, [m.r EXCEPT ![rn] = nb], M)
      BY <2>1, <3>1, <3>2, Zenon DEF MemHolds
    <3>. QED BY <2>2, <3>3, Zenon DEF k
  <2>. QED BY <1>10, <2>3, Zenon DEF BlockDone
<1>. QED BY <1>9, <1>10

(* Format 14. *)
PushPopThumb(l, r, s) == [load |-> l, r_bit |-> r, rlist |-> s]
WithLink(r, s) == IF r THEN s \cup {14} ELSE s
LEMMA ThumbPushPop ==
  ASSUME NEW m \in MemCpus, NEW load \in BOOLEAN, NEW r_bit \in BOOLEAN, NEW s \in Lists,
         ~(load /\ r_bit)
  PROVE  LET list == WithLink(r_bit, s) IN
         BlockDone(Thumb!thumb_push_pop(m, PushPopThumb(load, r_bit, s)), m, load, 13,
                   FirstWord(m, load, 13, list), NextBase(m, load, 13, list), list)
<1>. DEFINE i == PushPopThumb(load, r_bit, s)
            list == WithLink(r_bit, s)
            start == FirstWord(m, load, 13, list)
            nb == NextBase(m, load, 13, list)
            G == LoadValues(m.mem, list, start)
            V == StoredOf(m.r, list, 13, nb)
            M == StoreValues(m.mem, list, start, V)
            R == LoadedOf(m.r, list, 13, nb, G)
            res == Thumb!thumb_push_pop(m, i)
            list0 == IF i.r_bit THEN i.rlist \cup {IF i.load THEN Thumb!PC ELSE Thumb!LR} ELSE i.rlist
            bytes0 == 4 * Thumb!Cardinality(list0)
<1>1. i.load = load /\ i.r_bit = r_bit /\ i.rlist = s
  BY DEF PushPopThumb
<1>2. list \in BlockLists /\ list # {} /\ 13 \notin list /\ Thumb!PC \notin list
      /\ Thumb!SP = 13 /\ Thumb!SP \notin list /\ 13 \in MemRegs
      /\ \A r \in list : r # 13 /\ r # Thumb!PC /\ r \in MemRegs
  <2>1. s # {} /\ \A r \in s : r \in 0..2
    BY DEF Lists
  <2>2. list # {} /\ \A r \in list : r \in {0, 1, 2, 14}
    BY <2>1 DEF WithLink
  <2>. HIDE DEF list
  <2>. QED BY <2>2 DEF BlockLists, Thumb!PC, Thumb!SP, MemRegs
<1>. HIDE DEF i, list
<1>3. list0 = list
  BY <1>1, Zenon DEF list, WithLink, Thumb!LR
<1>4. bytes0 = 4 * Cardinality(list)
  BY <1>3, SameCount, Zenon
<1>. HIDE DEF list0, bytes0
<1>5. start \in Nibble /\ nb \in Nibble /\ m.r[13] \in Nibble /\ m.r \in [MemRegs -> Nibble]
      /\ m.mem \in Bytes /\ m.flush \in BOOLEAN
  BY <1>2, BlockEnds, MemParts
<1>6. DOMAIN m.r = MemRegs /\ DOMAIN m.mem = Nibble
  BY <1>5 DEF Bytes
<1>7. ASSUME load PROVE BlockDone(res, m, load, 13, start, nb, list)
  <2>1. start = m.r[13] /\ nb = Thumb!Wrap(m.r[13] + bytes0)
    BY <1>4, <1>7, SameMemory, Zenon DEF FirstWord, NextBase
  <2>2. Thumb!LoadList(m.mem, list0, m.r[13]) = G
    BY <1>3, <2>1, SameLists, Zenon
  <2>. DEFINE got0 == Thumb!LoadList(m.mem, list0, m.r[13])
              nb0 == Thumb!Wrap(m.r[13] + bytes0)
              R0 == [r \in DOMAIN m.r |->
                       CASE r = Thumb!SP -> Thumb!Wrap(m.r[Thumb!SP] + bytes0)
                         [] r # Thumb!SP /\ r \notin list0 -> m.r[r]
                         [] r \in list0 /\ r = Thumb!PC -> Thumb!Aligned(Thumb!LoadList(m.mem, list0, m.r[Thumb!SP])[r], 2)
                         [] r \in list0 /\ r # Thumb!PC -> Thumb!LoadList(m.mem, list0, m.r[Thumb!SP])[r]]
              done0 == [m EXCEPT !.r = R0, !.flush = @ \/ i.r_bit]
  <2>3. R0 = R
    <3>1. ASSUME NEW r \in MemRegs
          PROVE  (CASE r = Thumb!SP -> Thumb!Wrap(m.r[Thumb!SP] + bytes0)
                    [] r # Thumb!SP /\ r \notin list0 -> m.r[r]
                    [] r \in list0 /\ r = Thumb!PC -> Thumb!Aligned(Thumb!LoadList(m.mem, list0, m.r[Thumb!SP])[r], 2)
                    [] r \in list0 /\ r # Thumb!PC -> Thumb!LoadList(m.mem, list0, m.r[Thumb!SP])[r])
                   = IF r \in list THEN G[r] ELSE IF r = 13 THEN nb ELSE m.r[r]
      <4>. HIDE DEF G, nb, start
      <4>1. CASE r = 13
        <5>1. r = Thumb!SP /\ r \notin list /\ Thumb!Wrap(m.r[Thumb!SP] + bytes0) = nb
          BY <1>2, <2>1, <4>1, Zenon
        <5>. DEFINE w == Thumb!Wrap(m.r[Thumb!SP] + bytes0)
        <5>. HIDE DEF w
        <5>2. w = nb
          BY <5>1, Zenon DEF w
        <5>3. (CASE r = Thumb!SP -> w
                 [] r # Thumb!SP /\ r \notin list0 -> m.r[r]
                 [] r \in list0 /\ r = Thumb!PC -> Thumb!Aligned(Thumb!LoadList(m.mem, list0, m.r[Thumb!SP])[r], 2)
                 [] r \in list0 /\ r # Thumb!PC -> Thumb!LoadList(m.mem, list0, m.r[Thumb!SP])[r]) = w
          <6>1. r # Thumb!PC
            BY <4>1 DEF Thumb!PC
          <6>. QED BY <1>3, <5>1, <6>1, Zenon
        <5>4. (IF r \in list THEN G[r] ELSE IF r = 13 THEN nb ELSE m.r[r]) = nb
          BY <4>1, <5>1, Zenon
        <5>. QED BY <5>2, <5>3, <5>4, Zenon DEF w
      <4>2. CASE r # 13 /\ r \notin list
        BY <1>2, <1>3, <4>2, Zenon
      <4>3. CASE r \in list
        <5>1. r # 13 /\ r # Thumb!PC
          BY <1>2, <4>3
        <5>. QED BY <1>2, <1>3, <2>2, <4>3, <5>1, Zenon
      <4>. QED BY <4>1, <4>2, <4>3
    <3>. HIDE DEF G, nb, start
    <3>. QED BY <1>6, <3>1, Zenon DEF LoadedOf
  <2>4. res = done0
    BY <1>1, <1>7, Zenon DEF Thumb!thumb_push_pop, list0, bytes0
  <2>5. done0 = [m EXCEPT !.r = R, !.flush = m.flush \/ i.r_bit]
    <3>. HIDE DEF R0, R
    <3>. QED BY <2>3, Zenon
  <2>. DEFINE f == m.flush \/ i.r_bit
  <2>6. f \in BOOLEAN
    OBVIOUS
  <2>7. MemHolds([m EXCEPT !.r = R, !.flush = f], m, R, m.mem)
    <3>. HIDE DEF start, nb, f
    <3>. QED BY <1>2, <1>5, <2>6, BlockLoads
  <2>8. MemHolds(res, m, R, m.mem)
    <3>. HIDE DEF R, done0, res
    <3>. QED BY <2>4, <2>5, <2>7, Zenon DEF f
  <2>. QED BY <1>7, <2>8, Zenon DEF BlockDone
<1>8. ASSUME ~load PROVE BlockDone(res, m, load, 13, start, nb, list)
  <2>1. start = nb /\ nb = Thumb!Wrap(m.r[13] - bytes0)
    BY <1>4, <1>8, SameMemory, Zenon DEF FirstWord, NextBase
  <2>. DEFINE addr0 == Thumb!Wrap(m.r[Thumb!SP] - bytes0)
              at0(b) == LET k == Thumb!Wrap(b - Thumb!Aligned(addr0, 4)) IN
                        IF k < 4 * Thumb!Cardinality(list0)
                        THEN Thumb!ByteOf(m.r[CHOOSE j \in list0 : Thumb!SlotOf(list0, j) = k \div 4], k % 4)
                        ELSE m.mem[b]
              M0 == [b \in DOMAIN m.mem |-> at0(b)]
              done0 == [m EXCEPT !.r[Thumb!SP] = addr0, !.mem = M0]
  <2>2. addr0 = start
    BY <1>2, <2>1, Zenon
  <2>3. M0 = M
    <3>1. ASSUME NEW b \in Nibble PROVE at0(b) = StoreAt(m.mem, list, start, V, b)
      <4>. DEFINE k == Arm!Wrap(b - Arm!Aligned(start, 4))
                  c == ChosenFor(list, k)
      <4>1. k \in Nibble
        <5>. HIDE DEF start
        <5>1. b - Arm!Aligned(start, 4) \in Int
          BY <1>5 DEF Nibble, Arm!Aligned
        <5>. QED BY <5>1, WrapsToNibble
      <4>2. Thumb!Wrap(b - Thumb!Aligned(addr0, 4)) = k
        <5>1. Thumb!Aligned(addr0, 4) = Arm!Aligned(start, 4)
          <6>. HIDE DEF addr0, start
          <6>. QED BY <2>2, Zenon DEF Thumb!Aligned, Arm!Aligned
        <5>. HIDE DEF addr0, start
        <5>. QED BY <5>1, SameMemory, Zenon
      <4>3. (CHOOSE j \in list0 : Thumb!SlotOf(list0, j) = k \div 4) = c
        <5>1. \A j : Thumb!SlotOf(list0, j) = Arm!SlotOf(list, j)
          BY <1>3, SameLists, Zenon
        <5>. HIDE DEF k, list0
        <5>. QED BY <1>3, <5>1, Zenon DEF ChosenFor
      <4>4. Thumb!Cardinality(list0) = Cardinality(list)
        BY <1>3, SameCount, Zenon
      <4>5. \A z, q : Thumb!ByteOf(z, q) = Arm!ByteOf(z, q)
        BY Zenon DEF Thumb!ByteOf, Arm!ByteOf, Thumb!ByteBits, Arm!ByteBits
      <4>. HIDE DEF k, addr0
      <4>6. CASE k < 4 * Cardinality(list)
        <5>1. c \in list
          BY <1>2, <4>1, <4>6, Chosen
        <5>. HIDE DEF c
        <5>2. V[c] = m.r[c]
          <6>1. c # 13
            BY <1>2, <5>1
          <6>. HIDE DEF nb
          <6>. QED BY <5>1, <6>1, Zenon DEF StoredOf
        <5>. HIDE DEF V, start
        <5>3. at0(b) = Arm!ByteOf(m.r[c], k % 4)
          BY <4>2, <4>3, <4>4, <4>5, <4>6, Zenon
        <5>4. StoreAt(m.mem, list, start, V, b) = Arm!ByteOf(V[c], k % 4)
          BY <4>6, Zenon DEF StoreAt, k, c
        <5>. QED BY <5>2, <5>3, <5>4, Zenon
      <4>7. CASE ~(k < 4 * Cardinality(list))
        <5>1. at0(b) = m.mem[b]
          BY <4>2, <4>4, <4>7, Zenon
        <5>. HIDE DEF V, start
        <5>2. StoreAt(m.mem, list, start, V, b) = m.mem[b]
          BY <4>7, Zenon DEF StoreAt, k
        <5>. QED BY <5>1, <5>2, Zenon
      <4>. QED BY <4>6, <4>7
    <3>. HIDE DEF at0, V, start
    <3>. QED BY <1>6, <3>1, Zenon DEF StoreValues
  <2>4. res = done0
    BY <1>1, <1>8, Zenon DEF Thumb!thumb_push_pop, Thumb!StoreList, list0, bytes0
  <2>5. done0 = [m EXCEPT !.r[13] = nb, !.mem = M]
    <3>. HIDE DEF M0, M, addr0, start, nb
    <3>. QED BY <1>2, <2>1, <2>2, <2>3, Zenon
  <2>6. MemHolds([m EXCEPT !.r[13] = nb, !.mem = M], m, [m.r EXCEPT ![13] = nb], M)
    <3>. HIDE DEF start, nb
    <3>. QED BY <1>2, <1>5, BlockStores
  <2>7. MemHolds(res, m, [m.r EXCEPT ![13] = nb], M)
    <3>. HIDE DEF M, done0, res, nb
    <3>. QED BY <2>4, <2>5, <2>6, Zenon
  <2>. QED BY <1>8, <2>7, Zenon DEF BlockDone
<1>9. BlockDone(res, m, load, 13, start, nb, list)
  <2>. HIDE DEF res, start, nb
  <2>. QED BY <1>7, <1>8
<1>. QED BY <1>9, Zenon DEF i, list

(* Format 15.                                                              *)
MultipleThumb(l, b, s) == [load |-> l, rb |-> b, rlist |-> s]
LEMMA ThumbMultiple ==
  ASSUME NEW m \in MemCpus, NEW load \in BOOLEAN, NEW up \in BOOLEAN, up,
         NEW rb \in Low, NEW list \in Lists
  PROVE  BlockDone(Thumb!thumb_multiple_load_store(m, MultipleThumb(load, rb, list)), m, load, rb,
                   FirstWord(m, up, rb, list), NextBase(m, up, rb, list), list)
<1>. DEFINE i == MultipleThumb(load, rb, list)
            start == FirstWord(m, up, rb, list)
            nb == NextBase(m, up, rb, list)
            G == LoadValues(m.mem, list, start)
            V == StoredOf(m.r, list, rb, nb)
            M == StoreValues(m.mem, list, start, V)
            R == LoadedOf(m.r, list, rb, nb, G)
            res == Thumb!thumb_multiple_load_store(m, i)
            nb0 == Thumb!Wrap(m.r[rb] + 4 * Thumb!Cardinality(list))
            val0(r) == IF r = rb /\ Thumb!SlotOf(list, r) # 0 THEN nb0 ELSE m.r[r]
<1>1. i.load = load /\ i.rb = rb /\ i.rlist = list
  BY DEF MultipleThumb
<1>. HIDE DEF i
<1>2. list \in BlockLists /\ list # {} /\ rb \in MemRegs
  BY DEF Lists, BlockLists, Low, MemRegs
<1>3. start \in Nibble /\ nb \in Nibble /\ m.r \in [MemRegs -> Nibble] /\ m.mem \in Bytes
  BY <1>2, BlockEnds, MemParts
<1>4. DOMAIN m.r = MemRegs /\ DOMAIN m.mem = Nibble
  BY <1>3 DEF Bytes
<1>5. start = m.r[rb] /\ nb0 = nb
  <2>1. Thumb!Cardinality(list) = Cardinality(list)
    BY SameCount
  <2>2. nb = Arm!Wrap(m.r[rb] + 4 * Cardinality(list)) /\ start = m.r[rb]
    BY Zenon DEF FirstWord, NextBase
  <2>3. nb0 = Arm!Wrap(m.r[rb] + 4 * Cardinality(list))
    BY <2>1, SameMemory, Zenon
  <2>. HIDE DEF nb0, nb, start
  <2>. QED BY <2>2, <2>3
<1>6. \A r : Thumb!SlotOf(list, r) = Arm!SlotOf(list, r)
  BY SameLists
<1>7. ASSUME load PROVE BlockDone(res, m, load, rb, start, nb, list)
  <2>. DEFINE got0 == Thumb!LoadList(m.mem, list, m.r[rb])
              R0 == [r \in DOMAIN m.r |-> IF r \in list THEN got0[r]
                                          ELSE IF r = rb THEN nb0 ELSE m.r[r]]
  <2>1. got0 = G
    BY <1>5, SameLists, Zenon
  <2>2. R0 = R
    <3>. HIDE DEF got0, G, nb0, nb
    <3>. QED BY <1>4, <1>5, <2>1, Zenon DEF LoadedOf
  <2>3. res = [m EXCEPT !.r = R0]
    BY <1>1, <1>2, <1>7, Zenon DEF Thumb!thumb_multiple_load_store
  <2>4. MemHolds([m EXCEPT !.r = R], m, R, m.mem)
    <3>. HIDE DEF start, nb
    <3>. QED BY <1>2, <1>3, BlockLoads
  <2>5. MemHolds(res, m, R, m.mem)
    <3>. HIDE DEF R, R0, res
    <3>. QED BY <2>2, <2>3, <2>4, Zenon
  <2>. QED BY <1>7, <2>5, Zenon DEF BlockDone
<1>8. ASSUME ~load PROVE BlockDone(res, m, load, rb, start, nb, list)
  <2>. DEFINE at0(b) == LET k == Thumb!Wrap(b - Thumb!Aligned(m.r[rb], 4)) IN
                        IF k < 4 * Thumb!Cardinality(list)
                        THEN Thumb!ByteOf(val0(CHOOSE j \in list : Thumb!SlotOf(list, j) = k \div 4), k % 4)
                        ELSE m.mem[b]
              M0 == [b \in DOMAIN m.mem |-> at0(b)]
              done0 == [m EXCEPT !.mem = M0, !.r[rb] = nb0]
  <2>1. M0 = M
    <3>1. ASSUME NEW b \in Nibble PROVE at0(b) = StoreAt(m.mem, list, start, V, b)
      <4>. DEFINE k == Arm!Wrap(b - Arm!Aligned(start, 4))
                  c == ChosenFor(list, k)
      <4>1. k \in Nibble
        <5>. HIDE DEF start
        <5>1. b - Arm!Aligned(start, 4) \in Int
          BY <1>3 DEF Nibble, Arm!Aligned
        <5>. QED BY <5>1, WrapsToNibble
      <4>2. Thumb!Wrap(b - Thumb!Aligned(m.r[rb], 4)) = k
        <5>1. Thumb!Aligned(m.r[rb], 4) = Arm!Aligned(start, 4)
          <6>. HIDE DEF start
          <6>. QED BY <1>5, Zenon DEF Thumb!Aligned, Arm!Aligned
        <5>. HIDE DEF start
        <5>. QED BY <5>1, SameMemory, Zenon
      <4>3. (CHOOSE j \in list : Thumb!SlotOf(list, j) = k \div 4) = c
        <5>. HIDE DEF k
        <5>. DEFINE list0 == list
        <5>0. list0 = list
          OBVIOUS
        <5>1. \A j : Thumb!SlotOf(list0, j) = Arm!SlotOf(list, j)
          BY <1>6, Zenon
        <5>. HIDE DEF list0
        <5>2. (CHOOSE j \in list0 : Thumb!SlotOf(list0, j) = k \div 4) = c
          BY <5>0, <5>1, Zenon DEF ChosenFor
        <5>. QED BY <5>0, <5>2, Zenon
      <4>4. Thumb!Cardinality(list) = Cardinality(list)
        BY SameCount, Zenon
      <4>5. \A z, q : Thumb!ByteOf(z, q) = Arm!ByteOf(z, q)
        BY Zenon DEF Thumb!ByteOf, Arm!ByteOf, Thumb!ByteBits, Arm!ByteBits
      <4>. HIDE DEF k, val0
      <4>6. CASE k < 4 * Cardinality(list)
        <5>1. c \in list
          BY <1>2, <4>1, <4>6, Chosen
        <5>. HIDE DEF c
        <5>2. V[c] = val0(c)
          <6>. HIDE DEF nb, nb0
          <6>1. V[c] = IF c = rb /\ Arm!SlotOf(list, c) # 0 THEN nb ELSE m.r[c]
            BY <5>1, Zenon DEF StoredOf
          <6>2. Thumb!SlotOf(list, c) = Arm!SlotOf(list, c)
            BY <1>6, Zenon
          <6>. HIDE DEF V
          <6>3. val0(c) = IF c = rb /\ Arm!SlotOf(list, c) # 0 THEN nb ELSE m.r[c]
            BY <1>5, <6>2, Zenon DEF val0
          <6>. QED BY <6>1, <6>3
        <5>. HIDE DEF V, start
        <5>3. at0(b) = Arm!ByteOf(val0(c), k % 4)
          BY <4>2, <4>3, <4>4, <4>5, <4>6, Zenon
        <5>4. StoreAt(m.mem, list, start, V, b) = Arm!ByteOf(V[c], k % 4)
          BY <4>6, Zenon DEF StoreAt, k, c
        <5>. QED BY <5>2, <5>3, <5>4, Zenon
      <4>7. CASE ~(k < 4 * Cardinality(list))
        <5>1. at0(b) = m.mem[b]
          BY <4>2, <4>4, <4>7, Zenon
        <5>. HIDE DEF V, start
        <5>2. StoreAt(m.mem, list, start, V, b) = m.mem[b]
          BY <4>7, Zenon DEF StoreAt, k
        <5>. QED BY <5>1, <5>2, Zenon
      <4>. QED BY <4>6, <4>7
    <3>. HIDE DEF at0, V, start
    <3>. QED BY <1>4, <3>1, Zenon DEF StoreValues
  <2>2. res = done0
    <3>. DEFINE w(s, q) == Thumb!Wrap(m.r[q] + 4 * Thumb!Cardinality(s))
                at1(s, q, b) == LET k == Thumb!Wrap(b - Thumb!Aligned(m.r[q], 4)) IN
                     IF k < 4 * Thumb!Cardinality(s)
                     THEN Thumb!ByteOf(IF (CHOOSE j \in s : Thumb!SlotOf(s, j) = k \div 4) = q
                                          /\ Thumb!SlotOf(s, CHOOSE j \in s : Thumb!SlotOf(s, j) = k \div 4) # 0
                                       THEN w(s, q)
                                       ELSE m.r[CHOOSE j \in s : Thumb!SlotOf(s, j) = k \div 4], k % 4)
                     ELSE m.mem[b]
                X1(q) == [m EXCEPT !.r = [@ EXCEPT ![Thumb!PC] = Thumb!Aligned(Thumb!bus_read32(m.mem, m.r[q]), 2),
                                                   ![q] = Thumb!Wrap(m.r[q] + 64)],
                                   !.flush = TRUE]
                X2(q) == [m EXCEPT !.mem = Thumb!bus_write32(@, m.r[q], Thumb!Wrap(m.r[Thumb!PC] + 2)),
                                   !.r[q] = Thumb!Wrap(m.r[q] + 64)]
                X3(s, q) == [m EXCEPT !.r = [r \in DOMAIN m.r |->
                                IF r \in s THEN Thumb!LoadList(m.mem, s, m.r[q])[r]
                                ELSE IF r = q THEN w(s, q) ELSE m.r[r]]]
                X4(s, q) == [m EXCEPT !.mem = [b \in DOMAIN m.mem |-> at1(s, q, b)], !.r[q] = w(s, q)]
    <3>1. res = CASE i.rlist = {} /\ i.load -> X1(i.rb)
                  [] i.rlist = {} /\ ~i.load -> X2(i.rb)
                  [] i.rlist # {} /\ i.load -> X3(i.rlist, i.rb)
                  [] i.rlist # {} /\ ~i.load -> X4(i.rlist, i.rb)
      BY Zenon DEF Thumb!thumb_multiple_load_store, Thumb!StoreList
    <3>2. done0 = X4(list, rb)
      BY Zenon
    <3>. HIDE DEF X1, X2, X3, X4, res, done0
    <3>3. res = X4(i.rlist, i.rb)
      BY <1>1, <1>2, <1>8, <3>1, Zenon
    <3>. QED BY <1>1, <3>2, <3>3, Zenon
  <2>3. done0 = [m EXCEPT !.mem = M, !.r[rb] = nb]
    <3>. HIDE DEF M0, M, nb0, nb
    <3>. QED BY <1>5, <2>1, Zenon
  <2>4. MemHolds([m EXCEPT !.mem = M, !.r[rb] = nb], m, [m.r EXCEPT ![rb] = nb], M)
    <3>. HIDE DEF start, nb
    <3>. QED BY <1>2, <1>3, BlockStores
  <2>5. MemHolds(res, m, [m.r EXCEPT ![rb] = nb], M)
    <3>. HIDE DEF M, done0, res, nb
    <3>. QED BY <2>2, <2>3, <2>4, Zenon
  <2>. QED BY <1>8, <2>5, Zenon DEF BlockDone
<1>9. BlockDone(res, m, load, rb, start, nb, list)
  <2>. HIDE DEF res, start, nb
  <2>. QED BY <1>7, <1>8
<1>. QED BY <1>9, Zenon DEF i

(* Both formats, and the ARM instruction, on mirrored processors.          *)
LEMMA BlocksAgree ==
  ASSUME NEW k, NEW l, Mirror(k, l), NEW kk, NEW load \in BOOLEAN, NEW up \in BOOLEAN,
         NEW rn \in {0, 1, 13}, NEW list \in BlockLists, list # {}, NEW pre, pre = ~up,
         BlockDone(kk, k, load, rn, FirstWord(k, up, rn, list), NextBase(k, up, rn, list), list)
  PROVE  Mirror(kk, Arm!arm_block_transfer(l, Block(load, pre, up, rn, list)))
<1>. DEFINE ll == Arm!arm_block_transfer(l, Block(load, pre, up, rn, list))
            start == FirstWord(k, up, rn, list)
            nb == NextBase(k, up, rn, list)
<1>1. l \in MemCpus /\ k.r[rn] = l.r[rn]
  <2>1. rn \in MemRegs \ {15}
    BY DEF MemRegs
  <2>. QED BY <2>1, MirrorParts
<1>2. BlockDone(ll, l, load, rn, FirstWord(l, up, rn, list), NextBase(l, up, rn, list), list)
  BY <1>1, ArmBlocks
<1>3. NextBase(l, up, rn, list) = nb /\ FirstWord(l, up, rn, list) = start
  BY <1>1, Zenon DEF NextBase, FirstWord
<1>. HIDE DEF ll, start, nb
<1>4. BlockDone(ll, l, load, rn, start, nb, list)
  BY <1>2, <1>3, Zenon
<1>5. BlockDone(kk, k, load, rn, start, nb, list)
  BY DEF start, nb
<1>6. Mirror(kk, ll)
  BY <1>4, <1>5, BlockMirror
<1>. QED BY <1>6 DEF ll

LEMMA PushPopAgrees ==
  ASSUME Mirror(cpu, twin), NEW tw \in PushPop
  PROVE  Mirror(RunThumb(tw), RunArm(tw.a))
<1>1. PICK l \in BOOLEAN, r \in BOOLEAN, s \in Lists : tw = PushPopTwin(l, ~l /\ r, s)
  BY DEF PushPop
<1>. DEFINE link == ~l /\ r
            i == PushPopThumb(l, link, s)
            list == WithLink(link, s)
            A == Block(l, ~l, l, 13, list)
            pre == ~l
<1>2. link \in BOOLEAN /\ ~(l /\ link) /\ pre = ~l
  OBVIOUS
<1>3. tw = Twin("push_pop", i, A)
  BY <1>1, Zenon DEF PushPopTwin, PushPopThumb, WithLink, R13, R14
<1>4. A.kind = "block"
  BY DEF Block
<1>. HIDE DEF link
<1>5. list \in BlockLists /\ list # {}
  <2>1. s # {} /\ \A j \in s : j \in 0..2
    BY DEF Lists
  <2>2. list # {} /\ \A j \in list : j \in {0, 1, 2, 14}
    BY <2>1 DEF WithLink
  <2>. HIDE DEF list
  <2>. QED BY <2>2 DEF BlockLists
<1>. HIDE DEF i, A, list
<1>6. tw.a = A /\ RunThumb(tw) = Thumb!thumb_push_pop(cpu, i) /\ RunArm(A) = Arm!arm_block_transfer(twin, A)
  BY <1>3, <1>4, MemRuns
<1>7. cpu \in MemCpus
  BY MirrorParts
<1>8. BlockDone(Thumb!thumb_push_pop(cpu, i), cpu, l, 13,
                FirstWord(cpu, l, 13, list), NextBase(cpu, l, 13, list), list)
  BY <1>2, <1>7, ThumbPushPop DEF i, list
<1>. DEFINE kk == Thumb!thumb_push_pop(cpu, i)
            rn == 13
<1>. HIDE DEF kk, pre
<1>9. Mirror(kk, Arm!arm_block_transfer(twin, Block(l, pre, l, rn, list)))
  <2>1. rn \in {0, 1, 13}
    OBVIOUS
  <2>2. BlockDone(kk, cpu, l, rn, FirstWord(cpu, l, rn, list), NextBase(cpu, l, rn, list), list)
    BY <1>8 DEF kk
  <2>. HIDE DEF rn
  <2>. QED BY <1>2, <1>5, <2>1, <2>2, BlocksAgree
<1>. QED BY <1>6, <1>9, Zenon DEF kk, A, pre

LEMMA MultipleAgrees ==
  ASSUME Mirror(cpu, twin), NEW tw \in Multiple
  PROVE  Mirror(RunThumb(tw), RunArm(tw.a))
<1>1. PICK l \in BOOLEAN, b \in Low, s \in Lists : tw = MultipleTwin(l, b, s)
  BY DEF Multiple
<1>. DEFINE up == TRUE
            pre == FALSE
            i == MultipleThumb(l, b, s)
            A == Block(l, pre, up, b, s)
<1>2. up \in BOOLEAN /\ up /\ pre = ~up
  OBVIOUS
<1>3. tw = Twin("multiple_load_store", i, A)
  BY <1>1, Zenon DEF MultipleTwin, MultipleThumb
<1>. HIDE DEF up, pre
<1>4. A.kind = "block"
  BY DEF Block
<1>5. s \in BlockLists /\ s # {} /\ b \in {0, 1, 13}
  BY DEF Lists, BlockLists, Low
<1>. HIDE DEF i, A
<1>6. tw.a = A /\ RunThumb(tw) = Thumb!thumb_multiple_load_store(cpu, i)
      /\ RunArm(A) = Arm!arm_block_transfer(twin, A)
  BY <1>3, <1>4, MemRuns
<1>7. cpu \in MemCpus
  BY MirrorParts
<1>8. BlockDone(Thumb!thumb_multiple_load_store(cpu, i), cpu, l, b,
                FirstWord(cpu, up, b, s), NextBase(cpu, up, b, s), s)
  BY <1>2, <1>7, ThumbMultiple DEF i
<1>. DEFINE kk == Thumb!thumb_multiple_load_store(cpu, i)
<1>. HIDE DEF kk
<1>9. Mirror(kk, Arm!arm_block_transfer(twin, Block(l, pre, up, b, s)))
  <2>1. BlockDone(kk, cpu, l, b, FirstWord(cpu, up, b, s), NextBase(cpu, up, b, s), s)
    BY <1>8 DEF kk
  <2>. QED BY <1>2, <1>5, <2>1, BlocksAgree
<1>. QED BY <1>6, <1>9, Zenon DEF kk, A

-----------------------------------------------------------------------------
(* Programs of loads and stores.                                           *)
MemoryInv == part = "memory" => Mirror(cpu, twin) /\ spec = TRUE

LEMMA MemoryStart ==
  IInit => MemoryInv
<1>. SUFFICES ASSUME IInit, part = "memory" PROVE Mirror(cpu, twin) /\ spec = TRUE
  BY DEF MemoryInv
<1>1. MemoryInit
  BY DEF IInit, WideInit, ShiftInit, TwinsInit, MemoryInit, ExpandInit, CallsInit, DecodeInit
<1>2. PICK r0 \in 0..15, r1 \in {1, 7, 12}, sp \in {6, 8} :
        cpu = [Machine([i \in {0, 1, 2, R13, R14, PC} |->
                        CASE i = 0 -> r0 [] i = 1 -> r1 [] i = 2 -> 10
                          [] i = R13 -> sp [] i = R14 -> 5 [] i = PC -> 6],
                     FALSE, FALSE, FALSE, FALSE) EXCEPT !.mem = Ram]
  BY <1>1 DEF MemoryInit
<1>. DEFINE R == [i \in {0, 1, 2, R13, R14, PC} |->
                    CASE i = 0 -> r0 [] i = 1 -> r1 [] i = 2 -> 10
                      [] i = R13 -> sp [] i = R14 -> 5 [] i = PC -> 6]
<1>3. R \in [MemRegs -> Nibble] /\ R[15] = 6
  BY DEF MemRegs, Nibble, R13, R14, PC
<1>4. Ram \in Bytes
  BY DEF Ram, Bytes, Nibble
<1>. HIDE DEF R
<1>5. cpu \in MemCpus /\ cpu.r = R
  <2>1. cpu = [Machine(R, FALSE, FALSE, FALSE, FALSE) EXCEPT !.mem = Ram]
    BY <1>2, Zenon DEF R
  <2>. DEFINE no == FALSE
  <2>. HIDE DEF no
  <2>2. no \in BOOLEAN
    BY DEF no
  <2>3. cpu = [r |-> R, n |-> no, z |-> no, c |-> no, v |-> no, t |-> no, flush |-> no, mem |-> Ram]
    BY <2>1 DEF Machine, no
  <2>. QED BY <1>3, <1>4, <2>2, <2>3 DEF MemCpus
<1>6. twin = [cpu EXCEPT !.r[15] = 4] /\ spec = TRUE
  BY <1>1, Zenon DEF MemoryInit, PC
<1>7. twin \in MemCpus /\ twin.r[15] = 4 /\ \A i \in MemRegs \ {15} : cpu.r[i] = twin.r[i]
  <2>1. 4 \in Nibble /\ 15 \in MemRegs
    BY DEF Nibble, MemRegs
  <2>. QED BY <1>5, <1>6, <2>1 DEF MemCpus
<1>8. cpu.mem = twin.mem /\ cpu.n = twin.n /\ cpu.z = twin.z /\ cpu.c = twin.c /\ cpu.v = twin.v
  BY <1>5, <1>6 DEF MemCpus
<1>. QED BY <1>3, <1>5, <1>6, <1>7, <1>8 DEF Mirror

LEMMA MemoryAgree ==
  ASSUME Mirror(cpu, twin), NEW tw \in MemoryTwins
  PROVE  Mirror(RunThumb(tw), RunArm(tw.a))
<1>1. CASE tw \in PcLoad
  BY <1>1, PcAgrees
<1>2. CASE tw \in RegLoadStore
  BY <1>2, RegAgrees
<1>3. CASE tw \in SignExt
  BY <1>3, SignAgrees
<1>4. CASE tw \in ImmLoadStore
  BY <1>4, OffsetAgrees
<1>5. CASE tw \in HalfLoadStore
  BY <1>5, HalfwordAgrees
<1>6. CASE tw \in SpLoadStore
  BY <1>6, SpAgrees
<1>7. CASE tw \in Address
  BY <1>7, AddressAgrees
<1>8. CASE tw \in SpOffset
  BY <1>8, SpOffsetAgrees
<1>9. CASE tw \in PushPop
  BY <1>9, PushPopAgrees
<1>10. CASE tw \in Multiple
  BY <1>10, MultipleAgrees
<1>. QED BY <1>1, <1>2, <1>3, <1>4, <1>5, <1>6, <1>7, <1>8, <1>9, <1>10 DEF MemoryTwins

LEMMA MemoryKept ==
  ASSUME MemoryInv, [INext]_ivars
  PROVE  MemoryInv'
<1>. SUFFICES ASSUME part' = "memory" PROVE Mirror(cpu', twin') /\ spec' = TRUE
  BY DEF MemoryInv, Mirror
<1>1. part = "memory" /\ (MemoryStep \/ UNCHANGED ivars)
  BY Apart
<1>2. Mirror(cpu, twin) /\ spec = TRUE
  BY <1>1 DEF MemoryInv
<1>3. CASE UNCHANGED ivars
  BY <1>2, <1>3 DEF ivars
<1>4. CASE MemoryStep
  <2>1. PICK tw \in MemoryTwins : cpu' = RunThumb(tw) /\ twin' = RunArm(tw.a)
    BY <1>4, Zenon DEF MemoryStep
  <2>2. spec' = spec
    BY <1>4, Zenon DEF MemoryStep
  <2>3. Mirror(RunThumb(tw), RunArm(tw.a))
    BY <1>2, MemoryAgree
  <2>. QED BY <1>2, <2>1, <2>2, <2>3, Zenon
<1>. QED BY <1>1, <1>3, <1>4

(* What both invariants say is the property.                               *)
LEMMA AgreementShows ==
  TwinsInv /\ MemoryInv => ThumbIsArm
<1>. SUFFICES ASSUME TwinsInv, MemoryInv, part \in {"twins", "memory"} PROVE ThumbIsArm
  BY DEF ThumbIsArm
<1>1. CASE part = "twins"
  <2>1. Agree(cpu, twin, spec)
    BY <1>1 DEF TwinsInv
  <2>. QED BY <2>1 DEF ThumbIsArm, Agree, TwinCpus
<1>2. CASE part = "memory"
  <2>1. Mirror(cpu, twin)
    BY <1>2 DEF MemoryInv
  <2>2. DOMAIN cpu.r = MemRegs /\ PC = 15
    BY <2>1, MirrorParts, MemParts DEF PC
  <2>. QED BY <2>1, <2>2 DEF ThumbIsArm, Mirror
<1>. QED BY <1>1, <1>2

(* Whatever sequence of the modelled Thumb instructions is run, at every   *)
(* register width of the arithmetic and for any number of transfers: the   *)
(* registers, the memory and the defined flags are those that the ARM      *)
(* instructions they abbreviate leave.                                     *)
THEOREM ThumbAbbreviatesArm == ISpec => []ThumbIsArm
<1>1. IInit => TwinsInv /\ MemoryInv
  BY TwinsStart, MemoryStart
<1>2. (TwinsInv /\ MemoryInv) /\ [INext]_ivars => (TwinsInv /\ MemoryInv)'
  BY TwinsKept, MemoryKept
<1>3. TwinsInv /\ MemoryInv => ThumbIsArm
  BY AgreementShows
<1>. QED BY <1>1, <1>2, <1>3, PTL DEF ISpec
=============================================================================
