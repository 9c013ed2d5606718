------------------------------ MODULE BiosMath ------------------------------
(***************************************************************************)
(* The integer arithmetic of the HLE BIOS (cpu/bios_hle.c).  SWI 8,        *)
(* swi_sqrt: the bit-by-bit integer square root, one action for each round *)
(* of its two loops, on unsigned integers of 2 * Pairs bits.  SWI 6 and 7, *)
(* swi_div and swi_div_arm, on signed integers of DivBits bits.            *)
(***************************************************************************)
EXTENDS Integers

CONSTANTS Pairs,    \* pairs of bits in a register (16), at least one
          Args,     \* the values of R0, out of 0 .. 4^Pairs - 1
          DivBits   \* bits of a register, for Div (32)

Word == 4 ^ Pairs
HighBit == 4 ^ (Pairs - 1)     \* 1u << 30

VARIABLES r0, val, result, bit, pc,   \* swi_sqrt
          regs,                       \* swi_div: R0, R1 and R3
          asked                       \* history: what was to be divided by what
sqrtvars == <<r0, val, result, bit, pc>>
vars == <<r0, val, result, bit, pc, regs, asked>>

NoCall  == <<>>
Trapped == <<"trapped">>         \* the emulator was ended by the processor

Init == /\ r0 = 0 /\ val = 0 /\ result = 0 /\ bit = 0 /\ pc = "idle"
        /\ regs = [r \in {0, 1, 3} |-> 0] /\ asked = NoCall

Call(v) ==
  /\ pc = "idle"
  /\ r0' = v /\ val' = v /\ result' = 0 /\ bit' = HighBit /\ pc' = "seek"

(* while (bit > val): down to the highest power of 4 that fits.            *)
Seek ==
  /\ pc = "seek"
  /\ IF bit > val THEN bit' = bit \div 4 /\ UNCHANGED pc
     ELSE pc' = "root" /\ UNCHANGED bit
  /\ UNCHANGED <<r0, val, result>>

(* while (bit != 0): one digit of the root.                                *)
Digit ==
  /\ pc = "root" /\ bit # 0
  /\ LET t == (result + bit) % Word IN
     IF val >= t THEN /\ val' = val - t
                      /\ result' = ((result \div 2) + bit) % Word
     ELSE result' = result \div 2 /\ UNCHANGED val
  /\ bit' = bit \div 4
  /\ UNCHANGED <<r0, pc>>

Return ==
  /\ pc = "root" /\ bit = 0
  /\ pc' = "out"
  /\ UNCHANGED <<r0, val, result, bit>>

(* The program takes the result. *)
Leave ==
  /\ pc = "out"
  /\ r0' = 0 /\ val' = 0 /\ result' = 0 /\ bit' = 0 /\ pc' = "idle"

-----------------------------------------------------------------------------
Span == 2^DivBits
Signed(x)   == IF x >= Span \div 2 THEN x - Span ELSE x
Unsigned(x) == x % Span
Abs(x)      == IF x < 0 THEN -x ELSE x

(* Division in C rounds towards zero, and the remainder fits that.         *)
Quot(n, d) == IF (n < 0) = (d < 0) THEN Abs(n) \div Abs(d) ELSE -(Abs(n) \div Abs(d))
Rem(n, d)  == IF n < 0 THEN -(Abs(n) % Abs(d)) ELSE Abs(n) % Abs(d)

(* swi_div: the results before they are made unsigned.                     *)
swi_div(n, d) ==
  IF d = 0 THEN [r0 |-> IF n < 0 THEN -1 ELSE 1, r1 |-> n, r3 |-> 1]
  ELSE [r0 |-> Quot(n, d), r1 |-> Rem(n, d), r3 |-> Abs(Quot(n, d))]

(* One quotient does not fit its register: its division is undefined in C. *)
(* The processor wraps it around, or it traps and the emulator is gone.    *)
Undefined(n, d) == n = -(Span \div 2) /\ d = -1

Divide(n, d) ==
  /\ pc = "idle" /\ asked = NoCall
  /\ \/ LET x == swi_div(n, d)
        IN  /\ regs' = [r \in {0, 1, 3} |-> Unsigned(IF r = 0 THEN x.r0
                                                       ELSE IF r = 1 THEN x.r1 ELSE x.r3)]
            /\ asked' = <<n, d>>
     \/ Undefined(n, d) /\ asked' = Trapped /\ UNCHANGED regs

Div(a, b) == Divide(Signed(a), Signed(b)) /\ UNCHANGED sqrtvars

(* swi_div_arm: the same with R0 and R1 swapped. *)
DivArm(a, b) == Divide(Signed(b), Signed(a)) /\ UNCHANGED sqrtvars

(* The program takes the results, or is started again. *)
DivDone == /\ asked # NoCall
           /\ asked' = NoCall /\ regs' = [r \in {0, 1, 3} |-> 0]
           /\ UNCHANGED sqrtvars

Next == \/ /\ (\E v \in Args : asked = NoCall /\ Call(v)) \/ Seek \/ Digit \/ Return \/ Leave
           /\ UNCHANGED <<regs, asked>>
        \/ \E a, b \in 0 .. Span - 1 : Div(a, b) \/ DivArm(a, b)
        \/ DivDone

-----------------------------------------------------------------------------
(* What swi_sqrt returns is the integer square root of R0.                 *)
IsRoot == pc = "out" => result * result <= r0 /\ r0 < (result + 1) * (result + 1)

(* What Div returns is the division with remainder of signed integers: the *)
(* remainder has the sign of the dividend, and the third result is the     *)
(* size of the quotient even where the quotient is the smallest number.    *)
IsQuotient ==
  asked \notin {NoCall, Trapped} =>
    LET n == asked[1]  d == asked[2]  q == Signed(regs[0])  r == Signed(regs[1]) IN
    d # 0 /\ ~Undefined(n, d) =>
      /\ q * d + r = n /\ Abs(r) < Abs(d) /\ (r # 0 => (r < 0) = (n < 0))
      /\ regs[3] = Abs(q)
=============================================================================
