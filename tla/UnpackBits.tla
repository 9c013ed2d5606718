----------------------------- MODULE UnpackBits -----------------------------
(***************************************************************************)
(* The BIOS calls that unpack bits into words: HuffUnComp and BitUnPack    *)
(* (cpu/bios_hle.c).  Both gather values of a fixed width in out_word and  *)
(* store it when it is full.  HuffUnComp walks a tree of one-byte nodes in *)
(* memory, one bit of the stream at a time.                                *)
(*                                                                         *)
(* The stream and the packed bytes are arbitrary: any bit, any byte may    *)
(* come where one is read.  The tree is any tree of some depth, laid out   *)
(* the way compressors do: the children of the inner nodes pair after      *)
(* pair, level by level.                                                   *)
(***************************************************************************)
EXTENDS Naturals, Sequences, FiniteSets

CONSTANTS WordBits,     \* bits in a word (32)
          ByteBits,     \* bits in a byte (8)
          Depth,        \* the longest code of a tree
          Sizes,        \* decompressed sizes in a Huffman header, in bytes
          SrcLens, Widths, Offsets   \* for BitUnPack

VARIABLES job,          \* the call and its parameters, or Idle
          node_addr,    \* HuffUnComp: the node, relative to the tree's size byte
          data_word, bit_pos,          \* the word, or byte, being read and the bit in it
          src_byte,     \* BitUnPack: the byte being read
          out_word, out_bits, written, \* the words stored so far
          stream        \* history: the bits read, or the bytes

uvars == <<job, node_addr, data_word, bit_pos, src_byte, out_word, out_bits, written, stream>>

Idle == [kind |-> "idle"]

UInit == /\ job = Idle /\ node_addr = 0 /\ data_word = 0 /\ bit_pos = 0 /\ src_byte = 0
         /\ out_word = 0 /\ out_bits = 0 /\ written = <<>> /\ stream = <<>>

-----------------------------------------------------------------------------
(* A tree is the codes of its inner nodes, each with those on the way to   *)
(* it; the leaves are below them.                                          *)
Codes(n) == UNION {[1..k -> {0, 1}] : k \in 0..n}
Parent(c) == SubSeq(c, 1, Len(c) - 1)
Leaves(t) == {c \in Codes(Depth) : c \notin t /\ c # <<>> /\ Parent(c) \in t}

(* Level by level, from left to right. *)
Less(c, d) == \/ Len(c) < Len(d)
              \/ Len(c) = Len(d) /\ \E i \in 1..Len(c) : /\ c[i] < d[i]
                                                          /\ SubSeq(c, 1, i - 1) = SubSeq(d, 1, i - 1)
Rank(c, s) == Cardinality({d \in s : Less(d, c)})

(* Where a compressor puts a node: the root first, then pairs of children. *)
Place(t, c) == IF c = <<>> THEN 1 ELSE 2 * (Rank(Parent(c), t) + 1) + c[Len(c)]

(* A byte holds the value of a leaf; of an inner node, two flags and the   *)
(* distance to its children.                                               *)
Distance(t, c) == Rank(c, t) - Place(t, c) \div 2
Trees ==
  {t \in SUBSET Codes(Depth - 1) :
     /\ <<>> \in t /\ \A c \in t : c # <<>> => Parent(c) \in t
     /\ Cardinality(Leaves(t)) <= 2^ByteBits
     /\ \A c \in t : Distance(t, c) < 2^(ByteBits - 2)}

CodeAt(t, a) == CHOOSE c \in t \cup Leaves(t) : Place(t, c) = a

(* The byte of a node: an inner node's distance to its children and which  *)
(* of them are leaves; a leaf's value, here its rank.                      *)
NodeByte(t, a) ==
  LET c == CodeAt(t, a) IN
  IF c \in t THEN [offset |-> Distance(t, c), leaf |-> [b \in {0, 1} |-> Append(c, b) \notin t]]
  ELSE Rank(c, Leaves(t))

(* The tree in memory, the code of each place and that of each value.      *)
LaidOut(t) ==
  LET places == 1 .. 2 * Cardinality(t) + 1 IN
  [node   |-> [a \in places |-> NodeByte(t, a)],
   code   |-> [a \in places |-> CodeAt(t, a)],
   symbol |-> [v \in 0 .. Cardinality(Leaves(t)) - 1 |->
                 CHOOSE c \in Leaves(t) : Rank(c, Leaves(t)) = v]]
LaidOutTrees == {LaidOut(t) : t \in Trees}

-----------------------------------------------------------------------------
(* out_word |= val << out_bits; a full word is stored.                     *)
Emit(val, width) ==
  LET word == out_word + val * 2^out_bits IN
  IF out_bits + width >= WordBits
  THEN written' = Append(written, word) /\ out_word' = 0 /\ out_bits' = 0
  ELSE out_word' = word /\ out_bits' = out_bits + width /\ UNCHANGED written

NoOutput == UNCHANGED <<out_word, out_bits, written>>

(* swi_huff_uncomp: the header and the root. *)
HuffUnComp(t, width, size) ==
  /\ job' = [kind |-> "huff", tree |-> t, width |-> width, size |-> size]
  /\ node_addr' = 1 /\ data_word' = 0 /\ bit_pos' = 0
  /\ UNCHANGED <<src_byte, stream>> /\ NoOutput

BytesWritten == Len(written) * (WordBits \div ByteBits)

(* The pair of children. *)
child_base(node) == 2 * (node_addr \div 2) + (node.offset + 1) * 2

(* One bit of the stream, lowest first, and one step down the tree; a leaf *)
(* is put out and the next code starts at the root.                        *)
HuffBit(bit) ==
  /\ job.kind = "huff" /\ (node_addr # 1 \/ BytesWritten < job.size)
  /\ stream' = Append(stream, bit)
  /\ IF bit_pos + 1 >= WordBits THEN bit_pos' = 0 /\ data_word' = data_word + 1
     ELSE bit_pos' = bit_pos + 1 /\ UNCHANGED data_word
  /\ LET node == job.tree.node[node_addr]
         next == child_base(node) + bit
     IN  IF node.leaf[bit]
         THEN Emit(job.tree.node[next], job.width) /\ node_addr' = 1
         ELSE node_addr' = next /\ NoOutput
  /\ UNCHANGED <<job, src_byte>>

(* swi_bit_unpack: the description of the data; without widths it returns. *)
BitUnPack(len, src_width, dest_width, offset, add_to_zero) ==
  /\ src_width # 0 /\ dest_width # 0
  /\ job' = [kind |-> "bits", len |-> len, src_width |-> src_width, dest_width |-> dest_width,
             offset |-> offset, add_to_zero |-> add_to_zero]
  /\ data_word' = 0 /\ bit_pos' = ByteBits
  /\ UNCHANGED <<node_addr, src_byte, stream>> /\ NoOutput

(* The next byte. *)
ReadByte(v) ==
  /\ job.kind = "bits" /\ bit_pos >= ByteBits /\ data_word < job.len
  /\ src_byte' = v /\ bit_pos' = 0 /\ data_word' = data_word + 1
  /\ stream' = Append(stream, v)
  /\ UNCHANGED <<job, node_addr>> /\ NoOutput

(* The next value in it. *)
UnpackValue ==
  /\ job.kind = "bits" /\ bit_pos < ByteBits
  /\ LET raw == (src_byte \div 2^bit_pos) % 2^job.src_width
         val == IF raw # 0 \/ job.add_to_zero THEN raw + job.offset ELSE raw
     IN  Emit(val % 2^job.dest_width, job.dest_width)
  /\ bit_pos' = bit_pos + job.src_width
  /\ UNCHANGED <<job, node_addr, data_word, src_byte, stream>>

Complete == \/ job.kind = "huff" /\ node_addr = 1 /\ BytesWritten >= job.size
            \/ job.kind = "bits" /\ bit_pos >= ByteBits /\ data_word = job.len

(* BitUnPack stores what is left; the program takes the result.            *)
UReturn ==
  /\ Complete
  /\ IF job.kind = "bits" /\ out_bits > 0
     THEN written' = Append(written, out_word) /\ UNCHANGED <<job, stream>>
     ELSE job' = Idle /\ written' = <<>> /\ stream' = <<>>
  /\ out_word' = 0 /\ out_bits' = 0
  /\ node_addr' = IF job' = Idle THEN 0 ELSE node_addr
  /\ data_word' = IF job' = Idle THEN 0 ELSE data_word
  /\ bit_pos' = IF job' = Idle THEN 0 ELSE bit_pos
  /\ src_byte' = 0

UCall ==
  /\ job = Idle
  /\ \/ \E t \in LaidOutTrees, size \in Sizes : HuffUnComp(t, ByteBits, size)
     \/ \E len \in SrcLens, s, d \in Widths, o \in Offsets, z \in BOOLEAN :
          s <= ByteBits /\ BitUnPack(len, s, d, o, z)

UStep == \/ \E bit \in {0, 1} : HuffBit(bit)
         \/ \E v \in 0 .. 2^ByteBits - 1 : ReadByte(v)
         \/ UnpackValue
         \/ UReturn

UNext == UCall \/ UStep

-----------------------------------------------------------------------------
(* The i-th value of the output, from 0, each width bits wide.             *)
Output(i, width) ==
  LET all == Append(written, out_word)
  IN  (all[1 + (i * width) \div WordBits] \div 2^((i * width) % WordBits)) % 2^width
Outputs(width) == (Len(written) * WordBits + out_bits) \div width

(* The codes of the symbols put out so far, one after the other. *)
Recoded[i \in 0 .. Outputs(job.width)] ==
  IF i = 0 THEN <<>>
  ELSE Recoded[i - 1] \o job.tree.symbol[Output(i - 1, job.width)]

(* Coding what HuffUnComp has put out gives back the bits it has read, up  *)
(* to the code it is in the middle of; the bits came one after the other.  *)
HuffDecoded ==
  job.kind = "huff" =>
    /\ Recoded[Outputs(job.width)] \o job.tree.code[node_addr] = stream
    /\ data_word * WordBits + bit_pos = Len(stream)

(* Each value BitUnPack puts out is its packed value, shifted by the       *)
(* offset unless it is a zero that is to stay one; none is lost where      *)
(* bytes and words end.                                                    *)
BitsUnpacked ==
  job.kind = "bits" =>
    LET per    == ByteBits \div job.src_width
        packed(i) == (stream[1 + i \div per] \div 2^((i % per) * job.src_width)) % 2^job.src_width
        done   == IF stream = <<>> THEN 0
                  ELSE (Len(stream) - 1) * per + bit_pos \div job.src_width
    IN  \A i \in 0 .. done - 1 :
          Output(i, job.dest_width) =
            (packed(i) + (IF packed(i) = 0 /\ ~job.add_to_zero THEN 0 ELSE job.offset)) % 2^job.dest_width
=============================================================================
