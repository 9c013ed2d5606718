------------------------------- MODULE Unpack -------------------------------
(***************************************************************************)
(* The byte-wise decompressors of the HLE BIOS (cpu/bios_hle.c): LZ77, run *)
(* length and differences.  Those for video memory hold a byte back until  *)
(* its halfword is complete, while LZ77 reads its own output back from     *)
(* memory; two difference filters store what they have at once.  The       *)
(* compressed stream is arbitrary: at each point where the code reads a    *)
(* block, any block may come.                                              *)
(***************************************************************************)
EXTENDS Naturals, Sequences

CONSTANTS Byte,        \* the byte values of the stream, out of 0..255
          Top,         \* memory: addresses 0 .. Top
          Dsts,        \* destinations the program passes
          Sizes,       \* decompressed sizes in the header
          Lengths,     \* of references (3..18), runs (3..130) and literals (1..128)
          Displacements  \* of references: 1..4096

(* The output fits, references reach back no further than memory does, and *)
(* destinations are aligned.  Only the calls for video memory demand that; *)
(* those for work memory are handled by the same code, which stores        *)
(* halfwords, and with an odd destination it would be one byte off.        *)
ASSUME UnpackAssumption ==
  /\ Byte \subseteq 0..255 /\ 0 \in Byte
  /\ Top \in Nat /\ Sizes \subseteq Nat
  /\ Dsts \subseteq Nat /\ \A d \in Dsts : d % 2 = 0
  /\ \A d \in Dsts, n \in Sizes : d + n <= Top
  /\ Lengths \subseteq Nat \ {0} /\ Displacements \subseteq Nat
  /\ \A d \in Dsts, k \in Displacements : 1 <= k /\ k <= d

VARIABLES mem,
          kind,            \* idle, lz77, rl, diff, diff8 or diff16
          dst, decomp_size, bytes_written,
          have_low_byte, out_halfword,   \* the byte held back
          left,            \* what is left of the current block
          disp,            \* its displacement; 0: a run, or literals
          val              \* the byte of a run, or diff's previous byte

output == <<mem, bytes_written, have_low_byte, out_halfword>>
vars == <<mem, kind, dst, decomp_size, bytes_written, have_low_byte, out_halfword, left,
          disp, val>>

Init == /\ mem = [a \in 0..Top |-> 0]
        /\ kind = "idle" /\ dst = 0 /\ decomp_size = 0 /\ bytes_written = 0
        /\ have_low_byte = FALSE /\ out_halfword = 0
        /\ left = 0 /\ disp = 0 /\ val = 0

-----------------------------------------------------------------------------
(* bus_write16 aligns the address. *)
bus_write16(a, lo, hi) ==
  LET even == 2 * (a \div 2) IN [mem EXCEPT ![even] = lo, ![even + 1] = hi]

(* One byte of output: the first of a halfword waits for the second.       *)
Emit(v) ==
  /\ IF have_low_byte
     THEN /\ mem' = bus_write16(dst + bytes_written - 1, out_halfword, v)
          /\ have_low_byte' = FALSE /\ UNCHANGED out_halfword
     ELSE /\ have_low_byte' = TRUE /\ out_halfword' = v /\ UNCHANGED mem
  /\ bytes_written' = bytes_written + 1

(* swi_lz77_uncomp_vram, swi_rl_uncomp_vram: the header is read.           *)
Start(k, d, n) ==
  /\ kind = "idle"
  /\ kind' = k /\ dst' = d /\ decomp_size' = n /\ bytes_written' = 0
  /\ have_low_byte' = FALSE /\ out_halfword' = 0 /\ left' = 0 /\ disp' = 0 /\ val' = 0
  /\ UNCHANGED mem

(* swi_diff8bit_unfilter_vram: with a first byte, unless nothing is there. *)
StartDiff(d, n, v) ==
  /\ kind = "idle" /\ n > 0
  /\ kind' = "diff" /\ dst' = d /\ decomp_size' = n /\ bytes_written' = 1
  /\ have_low_byte' = TRUE /\ out_halfword' = v /\ left' = 0 /\ disp' = 0 /\ val' = v
  /\ UNCHANGED mem

(* swi_diff8bit_unfilter_wram, whose bytes are stored one by one, and      *)
(* swi_diff16bit_unfilter, which counts in halfwords.                      *)
StartStored(k, d, n, v, new) ==
  /\ kind = "idle"
  /\ kind' = k /\ dst' = d /\ decomp_size' = n /\ mem' = new
  /\ bytes_written' = IF k = "diff16" THEN 2 ELSE 1
  /\ have_low_byte' = FALSE /\ out_halfword' = 0 /\ left' = 0 /\ disp' = 0 /\ val' = v

StartDiff8(d, n, v)   == n > 0 /\ StartStored("diff8", d, n, v, [mem EXCEPT ![d] = v])
StartDiff16(d, n, v)  == n >= 2 /\ StartStored("diff16", d, n, v, bus_write16(d, v % 256, v \div 256))

Unfinished  == IF kind = "diff16" THEN bytes_written + 1 < decomp_size
               ELSE bytes_written < decomp_size
AtBlock(k)  == kind = k /\ left = 0 /\ Unfinished

\* Mutant: a block may run past the end.
InBlockOverrun(k) == kind = k /\ left > 0

InBlock(k)  == kind = k /\ left > 0 /\ Unfinished

(* LZ77: a literal, a reference, and a byte of a reference.                *)
Literal(v) == /\ AtBlock("lz77") /\ Emit(v)
              /\ UNCHANGED <<kind, dst, decomp_size, left, disp, val>>

\* Mutant: the 3 that is added to a reference's length is forgotten.
ReferenceShort(n, k) == /\ AtBlock("lz77") /\ n >= 3
                        /\ left' = n - 3 /\ disp' = k
                        /\ UNCHANGED <<output, kind, dst, decomp_size, val>>

Reference(n, k) == /\ AtBlock("lz77") /\ n >= 3
                   /\ left' = n /\ disp' = k
                   /\ UNCHANGED <<output, kind, dst, decomp_size, val>>

\* Mutant: memory is read although the byte is still held back.
ReadBackMemory == mem[dst + bytes_written - disp]

(* The byte a reference names: still held back, or in memory.              *)
ReadBack == IF have_low_byte /\ disp = 1 THEN out_halfword
            ELSE mem[dst + bytes_written - disp]

CopyByte == /\ InBlock("lz77") /\ Emit(ReadBack)
            /\ left' = left - 1
            /\ UNCHANGED <<kind, dst, decomp_size, disp, val>>

(* Run length: a run of one byte or of literals, and its bytes.            *)
Run(n, v) == /\ AtBlock("rl") /\ n >= 3
             /\ left' = n /\ disp' = 1 /\ val' = v
             /\ UNCHANGED <<output, kind, dst, decomp_size>>

LiteralRun(n) == /\ AtBlock("rl")
                 /\ left' = n /\ disp' = 0
                 /\ UNCHANGED <<output, kind, dst, decomp_size, val>>

RunByte(v) == /\ InBlock("rl")
              /\ disp = 1 => v = val
              /\ Emit(v)
              /\ left' = left - 1
              /\ UNCHANGED <<kind, dst, decomp_size, disp, val>>

(* Differences, modulo 256. *)
DiffByte(v) == /\ AtBlock("diff")
               /\ val' = (val + v) % 256
               /\ Emit(val')
               /\ UNCHANGED <<kind, dst, decomp_size, left, disp>>

Diff8Byte(v) == /\ AtBlock("diff8")
                /\ val' = (val + v) % 256
                /\ mem' = [mem EXCEPT ![dst + bytes_written] = val']
                /\ bytes_written' = bytes_written + 1
                /\ UNCHANGED <<kind, dst, decomp_size, have_low_byte, out_halfword, left, disp>>

Diff16Half(v) ==
  /\ AtBlock("diff16")
  /\ val' = (val + v) % 65536
  /\ mem' = bus_write16(dst + bytes_written, val' % 256, val' \div 256)
  /\ bytes_written' = bytes_written + 2
  /\ UNCHANGED <<kind, dst, decomp_size, have_low_byte, out_halfword, left, disp>>

(* The byte held back is flushed, padded with 0. *)
Finish ==
  /\ kind # "idle" /\ ~Unfinished
  /\ kind' = "idle"
  /\ mem' = IF have_low_byte THEN bus_write16(dst + bytes_written - 1, out_halfword, 0) ELSE mem
  /\ have_low_byte' = FALSE /\ left' = 0
  /\ UNCHANGED <<dst, decomp_size, bytes_written, out_halfword, disp, val>>

-----------------------------------------------------------------------------
(***************************************************************************)
(* The decompressors beside what they are to produce: the text that the    *)
(* blocks of the stream describe, byte after byte, starting with what was  *)
(* in memory before the destination.                                       *)
(***************************************************************************)
VARIABLE text

tvars == <<mem, kind, dst, decomp_size, bytes_written, have_low_byte, out_halfword, left,
           disp, val, text>>

(* Memory below an address, as a text. *)
Below(a) == [i \in 1..a |-> mem[i - 1]]

(* The halfwords of the stream; a text with the two bytes of one. *)
Half == {lo + 256 * hi : lo, hi \in Byte}
AppendHalf(t, x) == Append(Append(t, x % 256), (x \div 256) % 256)

TInit == Init /\ text = <<>>

Decode ==
  \/ \E v \in Byte : Literal(v) /\ text' = Append(text, v)
  \/ \E n \in Lengths, k \in Displacements : Reference(n, k) /\ UNCHANGED text
  \/ CopyByte /\ text' = Append(text, text[Len(text) + 1 - disp])
  \/ \E n \in Lengths, v \in Byte : Run(n, v) /\ UNCHANGED text
  \/ \E n \in Lengths : LiteralRun(n) /\ UNCHANGED text
  \/ \E v \in Byte : RunByte(v) /\ text' = Append(text, v)
  \/ \E v \in Byte : DiffByte(v) /\ text' = Append(text, (text[Len(text)] + v) % 256)
  \/ \E v \in Byte : Diff8Byte(v) /\ text' = Append(text, (text[Len(text)] + v) % 256)
  \/ \E v \in Half :
       /\ Diff16Half(v)
       /\ text' = AppendHalf(text, text[Len(text) - 1] + 256 * text[Len(text)] + v)
  \/ Finish /\ UNCHANGED text

TNext ==
  \/ \E k \in {"lz77", "rl"}, d \in Dsts, n \in Sizes : Start(k, d, n) /\ text' = Below(d)
  \/ \E d \in Dsts, n \in Sizes, v \in Byte :
       (StartDiff(d, n, v) \/ StartDiff8(d, n, v)) /\ text' = Append(Below(d), v)
  \/ \E d \in Dsts, n \in Sizes, v \in Half :
       StartDiff16(d, n, v) /\ text' = AppendHalf(Below(d), v)
  \/ Decode

-----------------------------------------------------------------------------
(* Memory, with the byte held back in its place, is the text decoded so    *)
(* far: also where a reference reads the byte that is still held back, or  *)
(* overlaps its own output.                                                *)
Decoded ==
  /\ kind # "idle" => Len(text) = dst + bytes_written
  /\ \A i \in 1 .. Len(text) :
        text[i] = IF have_low_byte /\ i = Len(text) THEN out_halfword ELSE mem[i - 1]

(* Nothing outside the output is touched, but for the byte that pads an    *)
(* output of odd length.                                                   *)
StaysInOutput ==
  [][\A a \in 0..Top : mem'[a] # mem[a] =>
        dst' <= a /\ a < dst' + decomp_size' + (decomp_size' % 2)]_tvars

(* Every call comes to its end: each block makes progress.                 *)
UnpackEnds == kind # "idle" ~> kind = "idle"
=============================================================================
