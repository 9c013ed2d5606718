--------------------------- MODULE MCComputations ---------------------------
(***************************************************************************)
(* What the emulator computes between two instructions of the program, for *)
(* TLC: the BIOS calls that unpack bytes, unpack bits or calculate, the    *)
(* putting together of a pixel, and the X-Ray window between two frames.   *)
(* Each runs to its end before anything else happens and they share no     *)
(* state, so a behaviour follows one of them.                              *)
(***************************************************************************)
EXTENDS Unpack, Integers

CONSTANTS Pairs, DivBits,                                        \* BiosMath
          WordBits, ByteBits, Depth, HuffSizes, SrcLens, Widths, Offsets,   \* UnpackBits
          MaxPrio, LastObj,                                      \* Compositor
          VDRAW_LINES, TOTAL_LINES, Refs, Steps, MaxWrites       \* XRay

ASSUME ScreenAssumption ==
  /\ VDRAW_LINES \in Nat \ {0} /\ TOTAL_LINES \in Nat /\ VDRAW_LINES < TOTAL_LINES
  /\ Refs \subseteq Int /\ Steps \subseteq Int
  /\ MaxPrio \in Nat /\ LastObj \in Nat

(* Registers have bits; and, for the proofs, what powers of two are.       *)
ASSUME MathAssumption ==
  /\ Pairs \in Nat \ {0} /\ DivBits \in Nat \ {0}
  /\ 2^0 = 1
  /\ \A k \in 1..Pairs : 2^k = 2 * 2^(k - 1)
  /\ \A k \in 0..Pairs : 2^k \in Nat \ {0} /\ 4^k = 2^k * 2^k
  /\ 2^DivBits = 2 * 2^(DivBits - 1) /\ 2^(DivBits - 1) \in Nat \ {0}

VARIABLES task,
          r0, rest, result, bit, at, regs, asked,  \* BiosMath; rest and at are its val and pc
          job, node_addr, data_word, bit_pos, src_byte, out_word, out_bits, written, stream,
          scene, pc, prio, item, top, second,      \* Compositor
          dispcnt, latch, step, ppu, framebuffer, twin, between, resources, active,  \* XRay
          layer_bg, layer_obj, layer_map, changed, taken

mathvars  == <<r0, rest, result, bit, at, regs, asked>>
bitvars   == <<job, node_addr, data_word, bit_pos, src_byte, out_word, out_bits, written, stream>>
pixelvars == <<scene, pc, prio, item, top, second>>
xrayvars  == <<dispcnt, latch, step, ppu, framebuffer, twin, between, resources, active,
               layer_bg, layer_obj, layer_map, changed, taken>>
cvars     == <<task, tvars, mathvars, bitvars, pixelvars, xrayvars>>

-----------------------------------------------------------------------------
(* Every arrangement of four backgrounds and two sprites on two priorities *)
(* in the modes that have them; with an affine background outside its map; *)
(* with layers switched off; the other modes; and a blank screen.          *)
Layers == 0..3
Any == [Layers -> BOOLEAN]
All == {[b \in Layers |-> TRUE]}
Arrangements(modes, ons, shows, outsides) ==
  [mode : modes, blank : {FALSE}, on : ons, prio : [Layers -> 0..MaxPrio], shows : shows,
   outside : outsides, obj_prio : [0..LastObj -> 0..MaxPrio], obj_shows : [0..LastObj -> BOOLEAN]]
BlankScreen ==
  [mode |-> 0, blank |-> TRUE, on |-> Layers, prio |-> [b \in Layers |-> 0],
   shows |-> [b \in Layers |-> TRUE], outside |-> {},
   obj_prio |-> [i \in 0..LastObj |-> 0], obj_shows |-> [i \in 0..LastObj |-> TRUE]]

MCScenes ==
  Arrangements(0..2, {0..4}, Any, {{}})
  \cup Arrangements(1..2, {0..4}, All, {{2}})
  \cup Arrangements(0..2, {{0, 2, 3, 4}, 1..3}, All, {{}})
  \cup {s \in Arrangements(3..6, {0..4, {0, 4}}, All \cup {[b \in Layers |-> FALSE]}, {{}}) :
           s.prio = BlankScreen.prio}
  \cup {BlankScreen}

MCShade == [e \in ({"bg"} \X Layers) \cup ({"obj"} \X (0..LastObj)) \cup {<<"bd", 0>>} |->
              IF e[1] = "bg" THEN 9 * e[2] + 3 ELSE IF e[1] = "obj" THEN 31 - (e[2] % 32) ELSE 0]

MCBlends == {[mode |-> 1, first |-> 0..4, second |-> 1..5, eva |-> 16, evb |-> 31, evy |-> 0],
             [mode |-> 2, first |-> 0..5, second |-> {}, eva |-> 0, evb |-> 0, evy |-> 31],
             [mode |-> 3, first |-> {2, 4}, second |-> {}, eva |-> 0, evb |-> 0, evy |-> 17]}

(* Tiled, mixed, affine with sprites, a bitmap, and blank. *)
MCDisplays == {[mode |-> 0, on |-> {0, 3}, blank |-> FALSE],
               [mode |-> 1, on |-> {1, 2}, blank |-> FALSE],
               [mode |-> 2, on |-> {2, 3, 4}, blank |-> FALSE],
               [mode |-> 3, on |-> {2}, blank |-> FALSE],
               [mode |-> 2, on |-> {2}, blank |-> TRUE]}

Math  == INSTANCE BiosMath WITH val <- rest, pc <- at, Args <- 0 .. 4 ^ Pairs - 1
Bits  == INSTANCE UnpackBits WITH Sizes <- HuffSizes
Pixel == INSTANCE Compositor WITH Scenes <- MCScenes, Blends <- MCBlends, Shade <- MCShade
View  == INSTANCE XRay WITH Displays <- MCDisplays, written <- changed

(* A word is made of bytes, and of values of each width; a byte of those   *)
(* that are not wider; and what powers of two are.                         *)
ASSUME BitsAssumption ==
  /\ WordBits \in Nat \ {0} /\ ByteBits \in Nat /\ ByteBits > 2 /\ WordBits % ByteBits = 0
  /\ Depth \in Nat \ {0} /\ HuffSizes \subseteq Nat
  /\ SrcLens \subseteq Nat /\ Offsets \subseteq Nat
  /\ \A w \in Widths : /\ w \in Nat /\ (w # 0 => WordBits % w = 0)
                       /\ w # 0 /\ w <= ByteBits => ByteBits % w = 0
  /\ \A i, j \in 0 .. WordBits : 2^i \in Nat \ {0} /\ 2^(i + j) = 2^i * 2^j

-----------------------------------------------------------------------------
CInit ==
  /\ task \in {"bytes", "bits", "math", "pixel", "xray"}
  /\ TInit /\ Math!Init /\ Bits!UInit
  /\ View!XInit  /\ (task # "xray" => dispcnt.mode = 0)
  /\ Pixel!Init  /\ (task # "pixel" => scene = BlankScreen)

Bytes(A) == task = "bytes" /\ A /\ UNCHANGED <<task, mathvars, bitvars, pixelvars, xrayvars>>
OnBits(A) == task = "bits" /\ A /\ UNCHANGED <<task, tvars, mathvars, pixelvars, xrayvars>>

CNext ==
  \/ Bytes(TNext)
  \/ OnBits(Bits!UNext)
  \/ task = "math"  /\ Math!Next  /\ UNCHANGED <<task, tvars, bitvars, pixelvars, xrayvars>>
  \/ task = "pixel" /\ Pixel!Next /\ UNCHANGED <<task, tvars, mathvars, bitvars, xrayvars>>
  \/ task = "xray"  /\ View!XNext /\ UNCHANGED <<task, tvars, mathvars, bitvars, pixelvars>>

(* A BIOS call runs to its end inside one instruction of the program.      *)
CSpec == CInit /\ [][CNext]_cvars /\ WF_cvars(Bytes(Decode)) /\ WF_cvars(OnBits(Bits!UStep))

-----------------------------------------------------------------------------
(* What a BIOS call leaves behind is what it was asked for.  LZ77, run     *)
(* length and differences: memory is the text the stream describes.        *)
(* HuffUnComp: coding the output gives back the stream.  BitUnPack: each   *)
(* value is its packed value and the offset.  Sqrt: the integer square     *)
(* root.  Div and DivArm: the quotient, the remainder and the size of it.  *)
CallsCompute == /\ Decoded /\ Bits!HuffDecoded /\ Bits!BitsUnpacked
                /\ Math!IsRoot /\ Math!IsQuotient

(* And every call that unpacks comes to its end, whatever the stream holds *)
(* - for HuffUnComp, behind a tree whose paths all end at leaves: in bytes *)
(* that are no tree the decoder may walk for ever, in the code too.        *)
CallsEnd == UnpackEnds /\ (job.kind # "idle" ~> job.kind = "idle")

(* Painting back to front leaves the frontmost visible element on top and  *)
(* the next one behind it in the second place, in every mode; the effect   *)
(* on them stays within a colour component, whatever the coefficients are. *)
PixelIsRight == Pixel!FrontOnTop /\ Pixel!ShadeFits

(* The X-Ray window only looks: PPU and picture are those of an emulator   *)
(* without it; and what it shows is the picture taken apart.               *)
XrayOnlyLooks == View!LeavesNoTrace /\ View!ShowsThePicture
=============================================================================
