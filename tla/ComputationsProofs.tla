------------------------- MODULE ComputationsProofs -------------------------
(***************************************************************************)
(* Proofs about what runs between two instructions of the program.  First  *)
(* the X-Ray window, for screens of every size and any writes of the       *)
(* program; then LZ77, run lengths and differences, for every stream and   *)
(* every even destination; then the putting together of a pixel, for any   *)
(* number of sprites and of priorities; then square root and division, for *)
(* registers of any width; then Huffman trees of any depth and BitUnPack,  *)
(* for words, bytes and values of any width.                               *)
(***************************************************************************)
EXTENDS MCComputations, SequenceTheorems, FiniteSetTheorems, WellFoundedInduction, TLAPS

-----------------------------------------------------------------------------
(*                             The X-Ray window                            *)

(* A pixel of the picture, and the part of the PPU that X-Ray borrows.     *)
PixelType == Nat \X Int
PPU == [vcount : Nat, ref : [2..3 -> Int], top : PixelType, second : PixelType]

(* The types of the display and of the two emulators. *)
XTypes ==
  /\ latch \in [2..3 -> Int] /\ step \in [2..3 -> Int]
  /\ ppu \in PPU /\ ppu.vcount < TOTAL_LINES
  /\ framebuffer \in [View!Lines -> PixelType]
  /\ between \in {"no", "render", "poll"}
  /\ layer_map \in [View!Lines -> Nat]
  /\ changed \in Nat

(* The emulator and its twin are the same; SDL's objects come together.    *)
Twins == /\ twin = [ppu |-> ppu, framebuffer |-> framebuffer]
         /\ active => resources = View!SDLObjects
         /\ resources \in {{}, View!SDLObjects}

-----------------------------------------------------------------------------
(* What may be painted is a pixel.                                         *)
LEMMA PixelTypes ==
  /\ View!Backdrop \in PixelType /\ View!White \in PixelType /\ View!Black \in PixelType
  /\ \A n \in Nat, i \in Int : <<n, i>> \in PixelType
  BY DEF PixelType, View!Backdrop, View!White, View!Black

(* What painting does to the PPU. *)
LEMMA Painted ==
  ASSUME NEW p \in PPU, NEW x \in PixelType
  PROVE  /\ View!Paint(p, x) \in PPU
         /\ View!Paint(p, x).vcount = p.vcount /\ View!Paint(p, x).ref = p.ref
         /\ View!Paint(p, x).top = x
  BY DEF PPU, View!Paint

(* Moving a reference point changes nothing else of the PPU.               *)
LEMMA RefMoved ==
  ASSUME NEW p \in PPU, NEW b \in 2..3, NEW v \in Int
  PROVE  /\ View!WithRef(p, b, v) \in PPU
         /\ View!WithRef(p, b, v).vcount = p.vcount
         /\ View!WithRef(p, b, v).top = p.top /\ View!WithRef(p, b, v).second = p.second
         /\ View!WithRef(p, b, v).ref = [p.ref EXCEPT ![b] = v]
  BY DEF PPU, View!WithRef

(* The pixel of a background where the reference points are at ref.        *)
BgPixel(ref, b, l) == IF View!IsAffine(b) THEN <<b, ref[b]>> ELSE <<b, l>>
Shown(b) == b \in dispcnt.on /\ (\/ dispcnt.mode = 0 \/ (dispcnt.mode = 1 /\ b <= 2)
                                 \/ (dispcnt.mode = 2 /\ b >= 2) \/ (dispcnt.mode = 3 /\ b = 2))

(* A background that shows is painted; beam and reference points stay.     *)
LEMMA BackgroundIs ==
  ASSUME NEW p \in PPU, NEW b \in 0..3
  PROVE  /\ View!Background(p, b) \in PPU
         /\ View!Background(p, b).vcount = p.vcount /\ View!Background(p, b).ref = p.ref
         /\ Shown(b) => View!Background(p, b).top = BgPixel(p.ref, b, p.vcount)
         /\ ~Shown(b) => View!Background(p, b) = p
<1>1. p.vcount \in Nat /\ p.ref \in [2..3 -> Int]
  BY DEF PPU
<1>2. CASE ~Shown(b)
  BY <1>2 DEF Shown, View!Background, View!IsAffine, View!Affine
<1>3. CASE Shown(b) /\ View!IsAffine(b)
  <2>1. b \in 2..3 /\ <<b, p.ref[b]>> \in PixelType
    BY <1>1, <1>3 DEF PixelType, View!IsAffine, View!Affine
  <2>2. View!Background(p, b) = View!Paint(p, <<b, p.ref[b]>>)
    BY <1>3 DEF View!Background, View!AffineBg, Shown
  <2>. QED BY <1>3, <2>1, <2>2, Painted DEF BgPixel
<1>4. CASE Shown(b) /\ ~View!IsAffine(b)
  <2>1. <<b, p.vcount>> \in PixelType
    BY <1>1 DEF PixelType
  <2>2. View!Background(p, b) = View!Paint(p, <<b, p.vcount>>)
    BY <1>4 DEF View!Background, View!RegularBg, View!Bitmap, Shown, View!IsAffine, View!Affine
  <2>. QED BY <1>4, <2>1, <2>2, Painted DEF BgPixel
<1>. QED BY <1>2, <1>3, <1>4

(* The pixel a line comes to, for a PPU whose beam and reference points    *)
(* are at l and ref: the sprites, else the first background that is shown. *)
Picture(ref, l) ==
  IF 4 \in dispcnt.on THEN <<4, l>>
  ELSE IF Shown(0) THEN BgPixel(ref, 0, l)
  ELSE IF Shown(1) THEN BgPixel(ref, 1, l)
  ELSE IF Shown(2) THEN BgPixel(ref, 2, l)
  ELSE IF Shown(3) THEN BgPixel(ref, 3, l)
  ELSE View!Backdrop

(* A composed line has its frontmost layer on top.                         *)
LEMMA ComposedIs ==
  ASSUME NEW p \in PPU
  PROVE  /\ View!Composed(p) \in PPU
         /\ View!Composed(p).vcount = p.vcount /\ View!Composed(p).ref = p.ref
         /\ View!Composed(p).top = Picture(p.ref, p.vcount)
<1>. DEFINE c  == View!Cleared(p)
            p3 == View!Background(c, 3)
            p2 == View!Background(p3, 2)
            p1 == View!Background(p2, 1)
            p0 == View!Background(p1, 0)
<1>1. c \in PPU /\ c.vcount = p.vcount /\ c.ref = p.ref /\ c.top = View!Backdrop
  BY PixelTypes DEF PPU, View!Cleared
<1>. HIDE DEF c
<1>2. /\ p3 \in PPU /\ p3.vcount = p.vcount /\ p3.ref = p.ref
      /\ p3.top = IF Shown(3) THEN BgPixel(p.ref, 3, p.vcount) ELSE View!Backdrop
  BY <1>1, BackgroundIs
<1>. HIDE DEF p3
<1>3. /\ p2 \in PPU /\ p2.vcount = p.vcount /\ p2.ref = p.ref
      /\ p2.top = IF Shown(2) THEN BgPixel(p.ref, 2, p.vcount) ELSE p3.top
  BY <1>2, BackgroundIs
<1>. HIDE DEF p2
<1>4. /\ p1 \in PPU /\ p1.vcount = p.vcount /\ p1.ref = p.ref
      /\ p1.top = IF Shown(1) THEN BgPixel(p.ref, 1, p.vcount) ELSE p2.top
  BY <1>3, BackgroundIs
<1>. HIDE DEF p1
<1>5. /\ p0 \in PPU /\ p0.vcount = p.vcount /\ p0.ref = p.ref
      /\ p0.top = IF Shown(0) THEN BgPixel(p.ref, 0, p.vcount) ELSE p1.top
  BY <1>4, BackgroundIs
<1>. HIDE DEF p0
<1>6. View!Composed(p) = IF 4 \in dispcnt.on THEN View!Paint(p0, <<4, p.vcount>>) ELSE p0
  BY <1>5 DEF View!Composed, View!Sprites, View!OBJ, p0, p1, p2, p3, c
<1>7. <<4, p.vcount>> \in PixelType
  BY DEF PPU, PixelType
<1>8. CASE 4 \in dispcnt.on
  BY <1>5, <1>6, <1>7, <1>8, Painted DEF Picture
<1>9. CASE 4 \notin dispcnt.on
  BY <1>2, <1>3, <1>4, <1>5, <1>6, <1>9 DEF Picture
<1>. QED BY <1>8, <1>9

(* A scanline of an emulator x. *)
Emulator == [ppu : PPU, framebuffer : [View!Lines -> PixelType]]

(* ppu_render_scanline puts the picture's line into the frame buffer and   *)
(* steps the reference points on, and does neither while blank.            *)
LEMMA ScanlineIs ==
  ASSUME NEW x \in Emulator, x.ppu.vcount < VDRAW_LINES, XTypes
  PROVE  LET y == View!Scanline(x) IN
         /\ y \in Emulator /\ y.ppu.vcount = x.ppu.vcount
         /\ ~dispcnt.blank =>
              /\ y.ppu.ref = [b \in 2..3 |-> x.ppu.ref[b] + step[b]]
              /\ y.framebuffer = [x.framebuffer EXCEPT ![x.ppu.vcount] =
                                    Picture(x.ppu.ref, x.ppu.vcount)]
         /\ dispcnt.blank => y.ppu.ref = x.ppu.ref
<1>1. x.ppu \in PPU /\ x.framebuffer \in [View!Lines -> PixelType] /\ x.ppu.vcount \in Nat
  BY DEF Emulator, PPU
<1>2. x.ppu.vcount \in View!Lines
  BY <1>1, ScreenAssumption DEF View!Lines
<1>3. CASE dispcnt.blank
  <2>. DEFINE q == [x.ppu EXCEPT !.top = View!White]
              f == [x.framebuffer EXCEPT ![x.ppu.vcount] = View!White]
  <2>1. q \in PPU /\ q.vcount = x.ppu.vcount /\ q.ref = x.ppu.ref
    BY <1>1, PixelTypes DEF PPU
  <2>2. f \in [View!Lines -> PixelType]
    BY <1>1, PixelTypes
  <2>3. View!Scanline(x) = [ppu |-> q, framebuffer |-> f]
    BY <1>3 DEF View!Scanline
  <2>. HIDE DEF q, f
  <2>. QED BY <1>3, <2>1, <2>2, <2>3 DEF Emulator
<1>4. CASE ~dispcnt.blank
  <2>. DEFINE p == View!Composed(x.ppu)
              q == [p EXCEPT !.ref = [b \in 2..3 |-> p.ref[b] + step[b]]]
              f == [x.framebuffer EXCEPT ![p.vcount] = p.top]
  <2>1. /\ p \in PPU /\ p.vcount = x.ppu.vcount /\ p.ref = x.ppu.ref
        /\ p.top = Picture(x.ppu.ref, x.ppu.vcount)
    BY <1>1, ComposedIs
  <2>2. View!Scanline(x) = [ppu |-> q, framebuffer |-> f]
    BY <1>4 DEF View!Scanline, View!Affine
  <2>. HIDE DEF p
  <2>3. p.ref \in [2..3 -> Int] /\ p.top \in PixelType
    BY <2>1 DEF PPU
  <2>4. [b \in 2..3 |-> p.ref[b] + step[b]] \in [2..3 -> Int]
    BY <2>3 DEF XTypes
  <2>5. q \in PPU /\ q.vcount = x.ppu.vcount /\ q.ref = [b \in 2..3 |-> x.ppu.ref[b] + step[b]]
    BY <2>1, <2>4 DEF PPU
  <2>6. f \in [View!Lines -> PixelType]
    BY <1>1, <1>2, <2>1, <2>3
  <2>7. f = [x.framebuffer EXCEPT ![x.ppu.vcount] = Picture(x.ppu.ref, x.ppu.vcount)]
    BY <2>1
  <2>. HIDE DEF q, f
  <2>8. /\ View!Scanline(x) \in Emulator
        /\ View!Scanline(x).ppu = q /\ View!Scanline(x).framebuffer = f
    BY <2>2, <2>5, <2>6 DEF Emulator
  <2>. QED BY <1>4, <2>5, <2>7, <2>8, Zenon
<1>. QED BY <1>3, <1>4

(* The end of a line moves the beam by one.                                *)
LEMMA EndLineIs ==
  ASSUME NEW p \in PPU, p.vcount < TOTAL_LINES, XTypes
  PROVE  LET q == View!EndLine(p)
             v == IF p.vcount + 1 = TOTAL_LINES THEN 0 ELSE p.vcount + 1
         IN  /\ q \in PPU /\ q.vcount = v
             /\ q.ref = IF v = VDRAW_LINES THEN latch ELSE p.ref
<1>. DEFINE v == (p.vcount + 1) % TOTAL_LINES
            r == IF v = VDRAW_LINES THEN latch ELSE p.ref
<1>1. p.vcount \in Nat /\ p.ref \in [2..3 -> Int]
  BY DEF PPU
<1>2. v = IF p.vcount + 1 = TOTAL_LINES THEN 0 ELSE p.vcount + 1
  BY <1>1, ScreenAssumption
<1>3. v \in Nat /\ r \in [2..3 -> Int]
  BY <1>1, <1>2 DEF XTypes
<1>4. View!EndLine(p) = [p EXCEPT !.vcount = v, !.ref = r]
  BY DEF View!EndLine
<1>. HIDE DEF v
<1>5. r = IF v = VDRAW_LINES THEN latch ELSE p.ref
  OBVIOUS
<1>. HIDE DEF r
<1>6. View!EndLine(p) \in PPU /\ View!EndLine(p).vcount = v /\ View!EndLine(p).ref = r
  BY <1>3, <1>4 DEF PPU
<1>. QED BY <1>2, <1>5, <1>6

(* A line of gba_run_frame, of an emulator x. *)
LEMMA LineIs ==
  ASSUME NEW x \in Emulator, x.ppu.vcount < TOTAL_LINES, XTypes
  PROVE  LET y == View!Line(x)
             v == IF x.ppu.vcount + 1 = TOTAL_LINES THEN 0 ELSE x.ppu.vcount + 1
         IN  /\ y = [ppu |-> y.ppu, framebuffer |-> y.framebuffer] /\ y \in Emulator
             /\ y.ppu.vcount = v
             /\ v = VDRAW_LINES => y.ppu.ref = latch
             /\ x.ppu.vcount >= VDRAW_LINES =>
                  y.framebuffer = x.framebuffer /\ y.ppu.ref = x.ppu.ref
             /\ x.ppu.vcount < VDRAW_LINES /\ ~dispcnt.blank =>
                  /\ v # VDRAW_LINES => y.ppu.ref = [b \in 2..3 |-> x.ppu.ref[b] + step[b]]
                  /\ y.framebuffer = [x.framebuffer EXCEPT ![x.ppu.vcount] =
                                        Picture(x.ppu.ref, x.ppu.vcount)]
<1>. DEFINE s == IF x.ppu.vcount < VDRAW_LINES THEN View!Scanline(x) ELSE x
            y == View!Line(x)
            v == IF x.ppu.vcount + 1 = TOTAL_LINES THEN 0 ELSE x.ppu.vcount + 1
<1>1. x.ppu.vcount \in Nat
  BY DEF Emulator, PPU
<1>2. s \in Emulator /\ s.ppu.vcount = x.ppu.vcount
  <2>1. CASE x.ppu.vcount < VDRAW_LINES
    BY <2>1, ScanlineIs
  <2>2. CASE ~(x.ppu.vcount < VDRAW_LINES)
    BY <2>2
  <2>. QED BY <2>1, <2>2
<1>3. y = [s EXCEPT !.ppu = View!EndLine(s.ppu)]
  BY DEF View!Line
<1>4. x.ppu.vcount < VDRAW_LINES /\ ~dispcnt.blank =>
        /\ s.ppu.ref = [b \in 2..3 |-> x.ppu.ref[b] + step[b]]
        /\ s.framebuffer = [x.framebuffer EXCEPT ![x.ppu.vcount] =
                              Picture(x.ppu.ref, x.ppu.vcount)]
  BY ScanlineIs
<1>5. x.ppu.vcount >= VDRAW_LINES => s = x
  BY <1>1, ScreenAssumption
<1>. HIDE DEF s
<1>6. s.ppu \in PPU /\ s.framebuffer \in [View!Lines -> PixelType]
  BY <1>2 DEF Emulator
<1>7. /\ View!EndLine(s.ppu) \in PPU /\ View!EndLine(s.ppu).vcount = v
      /\ View!EndLine(s.ppu).ref = IF v = VDRAW_LINES THEN latch ELSE s.ppu.ref
  BY <1>2, <1>6, EndLineIs
<1>8. y = [ppu |-> View!EndLine(s.ppu), framebuffer |-> s.framebuffer]
  BY <1>2, <1>3 DEF Emulator
<1>. HIDE DEF y, v
<1>9. y.ppu = View!EndLine(s.ppu) /\ y.framebuffer = s.framebuffer /\ y \in Emulator
  BY <1>6, <1>7, <1>8 DEF Emulator
<1>10. y = [ppu |-> y.ppu, framebuffer |-> y.framebuffer]
  BY <1>8, <1>9
<1>11. x.ppu.vcount >= VDRAW_LINES /\ v # VDRAW_LINES => y.ppu.ref = x.ppu.ref
  BY <1>5, <1>7, <1>9
<1>12. x.ppu.vcount >= VDRAW_LINES => v # VDRAW_LINES
  BY <1>1, ScreenAssumption DEF v
<1>. QED BY <1>4, <1>5, <1>7, <1>9, <1>10, <1>11, <1>12, Zenon DEF y, v

(* The reference points where line l begins, in a frame left alone.        *)
RefAt(l) == [b \in 2..3 |-> latch[b] + l * step[b]]

(* Where the reference points are: with the beam in a frame in which no    *)
(* register was written, and at their latches from VBlank on.              *)
Beam ==
  /\ between # "no" => ppu.vcount = 0
  /\ ppu.vcount >= VDRAW_LINES \/ ppu.vcount = 0 => ppu.ref = latch
  /\ changed = 0 /\ ~dispcnt.blank /\ ppu.vcount < VDRAW_LINES => ppu.ref = RefAt(ppu.vcount)

(* The lines of this frame that were drawn, and the layer map for them.    *)
Drawn ==
  changed = 0 /\ ~dispcnt.blank =>
    \A l \in View!Lines : between # "no" \/ l < ppu.vcount =>
      /\ framebuffer[l] = Picture(RefAt(l), l)
      /\ taken \/ (active /\ between # "poll") => layer_map[l] = framebuffer[l][1]

(* The views of the layers. *)
Views ==
  /\ taken => between = "poll"
  /\ taken /\ dispcnt.mode # 3 => \A l \in View!Lines :
       /\ \A b \in 0..3 : Shown(b) => layer_bg[b][l] = BgPixel(RefAt(l), b, l)
       /\ 4 \in dispcnt.on => layer_obj[l] = <<4, l>>

XInv == XTypes /\ Twins /\ Beam /\ Drawn /\ Views

(* A pixel of the picture is in the view of the layer it names. *)
LEMMA PictureNamed ==
  ASSUME NEW ref, NEW l, NEW b \in 0..3, Picture(ref, l)[1] = b
  PROVE  Shown(b) /\ Picture(ref, l) = BgPixel(ref, b, l)
  BY DEF Picture, BgPixel, View!Backdrop

(* A line of the picture that shows a sprite.                              *)
LEMMA PictureSprite ==
  ASSUME NEW ref, NEW l, Picture(ref, l)[1] = 4
  PROVE  4 \in dispcnt.on /\ Picture(ref, l) = <<4, l>>
  BY DEF Picture, BgPixel, View!Backdrop

(* The invariant says that the window only looks.                          *)
LEMMA XInvGivesLooks == XInv => XrayOnlyLooks
<1>. SUFFICES ASSUME XInv PROVE XrayOnlyLooks
  OBVIOUS
<1>1. View!LeavesNoTrace
  BY DEF XInv, Twins, View!LeavesNoTrace
<1>2. ASSUME taken, active, changed = 0, dispcnt.mode # 3, ~dispcnt.blank, NEW l \in View!Lines
      PROVE  LET pixel == framebuffer[l] IN
             /\ layer_map[l] = pixel[1]
             /\ pixel[1] \in View!BG  => layer_bg[pixel[1]][l] = pixel
             /\ pixel[1] = View!OBJ   => layer_obj[l] = pixel
  <2>1. framebuffer[l] = Picture(RefAt(l), l) /\ layer_map[l] = framebuffer[l][1]
    BY <1>2 DEF XInv, Drawn, Views
  <2>2. ASSUME framebuffer[l][1] \in 0..3
        PROVE  layer_bg[framebuffer[l][1]][l] = framebuffer[l]
    BY <1>2, <2>1, <2>2, PictureNamed DEF XInv, Views
  <2>3. ASSUME framebuffer[l][1] = 4
        PROVE  layer_obj[l] = framebuffer[l]
    BY <1>2, <2>1, <2>3, PictureSprite DEF XInv, Views
  <2>. QED BY <2>1, <2>2, <2>3 DEF View!BG, View!OBJ
<1>3. View!ShowsThePicture
  BY <1>2 DEF View!ShowsThePicture
<1>. QED BY <1>1, <1>3 DEF XrayOnlyLooks

(* It holds before the first frame.                                        *)
LEMMA XInvInit == CInit => XInv
<1>. SUFFICES ASSUME View!XInit PROVE XInv
  BY DEF CInit
<1>. USE DEF View!XInit
<1>1. latch \in [2..3 -> Int] /\ step \in [2..3 -> Int]
  BY DEF View!Affine
<1>2. ppu \in PPU /\ ppu.vcount = 0 /\ ppu.ref = latch
  BY <1>1, PixelTypes DEF PPU
<1>3. framebuffer \in [View!Lines -> PixelType]
  BY PixelTypes DEF View!Empty
<1>4. XTypes
  BY <1>1, <1>2, <1>3, ScreenAssumption DEF XTypes
<1>5. Twins
  BY DEF Twins
<1>6. ppu.ref = RefAt(0)
  BY <1>1, <1>2 DEF RefAt
<1>7. Beam
  BY <1>2, <1>6 DEF Beam
<1>8. Drawn
  BY <1>2 DEF Drawn, View!Lines
<1>9. Views
  BY DEF Views
<1>. QED BY <1>4, <1>5, <1>7, <1>8, <1>9 DEF XInv

(* What the registers say of the picture changes only with them.           *)
LEMMA SameRegisters ==
  ASSUME UNCHANGED <<dispcnt, latch, step>>
  PROVE  /\ \A b : Shown(b)' = Shown(b)
         /\ \A l : RefAt(l)' = RefAt(l)
         /\ \A r, b, l : BgPixel(r, b, l)' = BgPixel(r, b, l)
         /\ \A r, l : Picture(r, l)' = Picture(r, l)
  BY DEF Shown, RefAt, BgPixel, Picture, View!IsAffine

(* It holds when another task runs.                                        *)
LEMMA XInvUnchanged == XInv /\ UNCHANGED xrayvars => XInv'
<1>. SUFFICES ASSUME XInv, UNCHANGED xrayvars PROVE XInv'
  OBVIOUS
<1>. USE DEF xrayvars
<1>1. XTypes' /\ Twins'
  BY DEF XInv, XTypes, Twins
<1>2. Beam'
  BY SameRegisters DEF XInv, Beam
<1>3. Drawn'
  BY SameRegisters DEF XInv, Drawn
<1>4. Views'
  BY SameRegisters DEF XInv, Views
<1>. QED BY <1>1, <1>2, <1>3, <1>4 DEF XInv

(* A line is run.                                                          *)
LEMMA RunLineKeeps == XInv /\ View!RunLine => XInv'
<1>. SUFFICES ASSUME XInv, View!RunLine PROVE XInv'
  OBVIOUS
<1>. DEFINE e == [ppu |-> ppu, framebuffer |-> framebuffer]
            x == View!Line(e)
            v == IF ppu.vcount + 1 = TOTAL_LINES THEN 0 ELSE ppu.vcount + 1
<1>1. /\ ppu' = x.ppu /\ framebuffer' = x.framebuffer /\ twin' = View!Line(twin)
      /\ between = "no" /\ between' = IF x.ppu.vcount = 0 THEN "render" ELSE "no"
      /\ layer_map' = IF active /\ ppu.vcount < VDRAW_LINES /\ ~dispcnt.blank
                      THEN [layer_map EXCEPT ![ppu.vcount] = x.framebuffer[ppu.vcount][1]]
                      ELSE layer_map
      /\ UNCHANGED <<dispcnt, latch, step, resources, active, layer_bg, layer_obj, changed, taken>>
  BY DEF View!RunLine
<1>2. e \in Emulator /\ e.ppu = ppu /\ e.framebuffer = framebuffer /\ e.ppu.vcount < TOTAL_LINES
  BY DEF XInv, XTypes, Emulator
<1>3. ppu.vcount \in Nat /\ v \in Nat /\ v < TOTAL_LINES /\ ppu.vcount < TOTAL_LINES
  BY ScreenAssumption DEF XInv, XTypes, PPU
<1>. HIDE DEF e
<1>4. /\ x = [ppu |-> x.ppu, framebuffer |-> x.framebuffer] /\ x \in Emulator
      /\ x.ppu.vcount = v
      /\ v = VDRAW_LINES => x.ppu.ref = latch
      /\ ppu.vcount >= VDRAW_LINES => x.framebuffer = framebuffer /\ x.ppu.ref = ppu.ref
      /\ ppu.vcount < VDRAW_LINES /\ ~dispcnt.blank =>
           /\ v # VDRAW_LINES => x.ppu.ref = [b \in 2..3 |-> ppu.ref[b] + step[b]]
           /\ x.framebuffer = [framebuffer EXCEPT ![ppu.vcount] = Picture(ppu.ref, ppu.vcount)]
  BY <1>2, LineIs DEF XInv
<1>. HIDE DEF x
<1>5. Twins'
  <2>1. twin' = x
    BY <1>1 DEF XInv, Twins, e, x
  <2>. QED BY <1>1, <1>4, <2>1, Zenon DEF XInv, Twins
<1>6. ppu' \in PPU /\ framebuffer' \in [View!Lines -> PixelType] /\ ppu'.vcount = v
  BY <1>1, <1>4 DEF Emulator
<1>7. XTypes'
  <2>1. layer_map' \in [View!Lines -> Nat]
    <3>1. CASE active /\ ppu.vcount < VDRAW_LINES /\ ~dispcnt.blank
      <4>1. ppu.vcount \in View!Lines
        BY <1>3, <3>1, ScreenAssumption DEF View!Lines
      <4>2. x.framebuffer[ppu.vcount][1] \in Nat
        BY <1>1, <1>6, <4>1 DEF PixelType
      <4>. QED BY <1>1, <3>1, <4>2 DEF XInv, XTypes
    <3>2. CASE ~(active /\ ppu.vcount < VDRAW_LINES /\ ~dispcnt.blank)
      BY <1>1, <3>2 DEF XInv, XTypes
    <3>. QED BY <3>1, <3>2
  <2>. QED BY <1>1, <1>3, <1>6, <2>1 DEF XInv, XTypes
<1>8. Beam'
  <2>1. between' # "no" => ppu'.vcount = 0
    BY <1>1
  <2>2. ppu'.vcount >= VDRAW_LINES \/ ppu'.vcount = 0 => ppu'.ref = latch'
    BY <1>1, <1>3, <1>4, <1>6, ScreenAssumption DEF XInv, Beam
  <2>3. ASSUME changed = 0, ~dispcnt.blank, v < VDRAW_LINES
        PROVE  ppu'.ref = RefAt(v)
    <3>1. CASE v = 0
      BY <1>1, <1>4, <1>3, <3>1, <2>2, <1>6 DEF XInv, XTypes, RefAt
    <3>2. CASE v = ppu.vcount + 1
      <4>1. ppu.vcount < VDRAW_LINES /\ ppu.ref = RefAt(ppu.vcount)
        BY <1>3, <2>3, <3>2, ScreenAssumption DEF XInv, Beam
      <4>2. ppu'.ref = [b \in 2..3 |-> ppu.ref[b] + step[b]]
        BY <1>1, <1>4, <2>3, <4>1, ScreenAssumption
      <4>3. ASSUME NEW b \in 2..3
            PROVE  (latch[b] + ppu.vcount * step[b]) + step[b] = latch[b] + (ppu.vcount + 1) * step[b]
        BY <1>3 DEF XInv, XTypes
      <4>. QED BY <4>1, <4>2, <4>3, <3>2 DEF RefAt
    <3>. QED BY <3>1, <3>2
  <2>. QED BY <1>1, <1>6, <2>1, <2>2, <2>3, SameRegisters DEF Beam
<1>9. Drawn'
  <2>. SUFFICES ASSUME changed = 0, ~dispcnt.blank, NEW l \in View!Lines,
                       v = 0 \/ l < v
                PROVE  /\ framebuffer'[l] = Picture(RefAt(l), l)
                       /\ active => layer_map'[l] = framebuffer'[l][1]
    BY <1>1, <1>4, <1>6, SameRegisters DEF Drawn, XInv, Views
  <2>0. l \in Nat /\ l < VDRAW_LINES
    BY ScreenAssumption DEF View!Lines
  <2>1. CASE l = ppu.vcount
    <3>1. ppu.vcount < VDRAW_LINES /\ ppu.ref = RefAt(l)
      BY <2>0, <2>1 DEF XInv, Beam
    <3>2. framebuffer' = [framebuffer EXCEPT ![l] = Picture(RefAt(l), l)]
      BY <1>1, <1>4, <2>1, <3>1
    <3>3. framebuffer'[l] = Picture(RefAt(l), l)
      BY <3>2 DEF XInv, XTypes
    <3>4. active => layer_map' = [layer_map EXCEPT ![l] = framebuffer'[l][1]]
      BY <1>1, <2>1, <3>1
    <3>. QED BY <3>3, <3>4 DEF XInv, XTypes
  <2>2. CASE l # ppu.vcount
    <3>1. l < ppu.vcount
      BY <1>3, <2>0, <2>2, ScreenAssumption
    <3>2. /\ framebuffer[l] = Picture(RefAt(l), l)
          /\ active => layer_map[l] = framebuffer[l][1]
      BY <1>1, <3>1 DEF XInv, Drawn
    <3>3. framebuffer'[l] = framebuffer[l]
      <4>1. CASE ppu.vcount >= VDRAW_LINES
        BY <1>1, <1>4, <4>1
      <4>2. CASE ppu.vcount < VDRAW_LINES
        BY <1>1, <1>4, <2>2, <4>2 DEF XInv, XTypes
      <4>. QED BY <1>3, <4>1, <4>2, ScreenAssumption
    <3>4. layer_map'[l] = layer_map[l]
      BY <1>1, <2>2 DEF XInv, XTypes
    <3>. QED BY <3>2, <3>3, <3>4
  <2>. QED BY <2>1, <2>2
<1>10. Views'
  BY <1>1 DEF XInv, Views
<1>. QED BY <1>5, <1>7, <1>8, <1>9, <1>10 DEF XInv

(* The program's writes: no claim about the picture of this frame is left. *)
LEMMA WritesKeep ==
  ASSUME XInv, View!Writes,
         ppu' \in PPU, ppu'.vcount = ppu.vcount,
         latch' \in [2..3 -> Int], step' \in [2..3 -> Int],
         ppu.ref = latch => ppu'.ref = latch',
         twin' = [ppu |-> ppu', framebuffer |-> framebuffer]
  PROVE  XInv'
<1>1. /\ between = "no" /\ changed' = changed + 1 /\ changed' # 0 /\ changed' \in Nat /\ ~taken
      /\ UNCHANGED <<framebuffer, between, resources, active, layer_bg, layer_obj, layer_map, taken>>
  BY DEF View!Writes, XInv, XTypes, Views
<1>2. XTypes'
  BY <1>1 DEF XInv, XTypes
<1>3. Twins'
  BY <1>1 DEF XInv, Twins
<1>4. Beam'
  BY <1>1 DEF XInv, Beam
<1>5. Drawn' /\ Views'
  BY <1>1 DEF Drawn, Views
<1>. QED BY <1>2, <1>3, <1>4, <1>5 DEF XInv

(* A program writes DISPCNT.                                               *)
LEMMA WriteDisplayKeeps ==
  ASSUME NEW d, XInv, View!WriteDisplay(d)
  PROVE  XInv'
<1>1. View!Writes /\ UNCHANGED <<latch, step, ppu, twin>>
  BY DEF View!WriteDisplay
<1>. QED BY <1>1, WritesKeep DEF XInv, XTypes, Twins

(* A program writes the increments of an affine background.                *)
LEMMA WriteStepsKeep ==
  ASSUME NEW b \in 2..3, NEW v \in Steps, XInv, View!WriteSteps(b, v)
  PROVE  XInv'
<1>1. View!Writes /\ UNCHANGED <<dispcnt, latch, ppu, twin>> /\ step' = [step EXCEPT ![b] = v]
  BY DEF View!WriteSteps
<1>2. step' \in [2..3 -> Int]
  BY <1>1, ScreenAssumption DEF XInv, XTypes
<1>. QED BY <1>1, <1>2, WritesKeep DEF XInv, XTypes, Twins

(* A program writes a reference point.                                     *)
LEMMA WriteReferenceKeeps ==
  ASSUME NEW b \in 2..3, NEW v \in Refs, XInv, View!WriteReference(b, v)
  PROVE  XInv'
<1>1. /\ View!Writes /\ UNCHANGED step /\ latch' = [latch EXCEPT ![b] = v]
      /\ ppu' = View!WithRef(ppu, b, v)
      /\ twin' = [twin EXCEPT !.ppu = View!WithRef(twin.ppu, b, v)]
  BY DEF View!WriteReference
<1>2. v \in Int /\ latch' \in [2..3 -> Int]
  BY <1>1, ScreenAssumption DEF XInv, XTypes
<1>3. /\ ppu' \in PPU /\ ppu'.vcount = ppu.vcount
      /\ ppu'.ref = [ppu.ref EXCEPT ![b] = v]
  BY <1>1, <1>2, RefMoved DEF XInv, XTypes
<1>4. twin' = [ppu |-> ppu', framebuffer |-> framebuffer]
  BY <1>1 DEF XInv, Twins
<1>5. ppu.ref = latch => ppu'.ref = latch'
  BY <1>1, <1>3
<1>. QED BY <1>1, <1>2, <1>3, <1>4, <1>5, WritesKeep DEF XInv, XTypes

-----------------------------------------------------------------------------
(* A line of a layer's view. *)
LEMMA BgLineIs ==
  ASSUME XInv, NEW p \in PPU, NEW b \in 0..3
  PROVE  /\ View!BgLine(p, b) \in PPU
         /\ Shown(b) /\ dispcnt.mode # 3 =>
              View!BgLine(p, b).top = BgPixel(RefAt(p.vcount), b, p.vcount)
<1>. DEFINE q == IF View!IsAffine(b) THEN View!WithRef(p, b, latch[b] + p.vcount * step[b])
                 ELSE [p EXCEPT !.ref = latch]
<1>1. p.vcount \in Nat /\ p.ref \in [2..3 -> Int]
  BY DEF PPU
<1>2. /\ q \in PPU /\ q.vcount = p.vcount
      /\ View!IsAffine(b) => b \in 2..3 /\ q.ref[b] = RefAt(p.vcount)[b]
  <2>1. CASE View!IsAffine(b)
    <3>1. b \in 2..3
      BY <2>1 DEF View!IsAffine, View!Affine
    <3>2. latch[b] + p.vcount * step[b] \in Int
      BY <1>1, <3>1 DEF XInv, XTypes
    <3>3. RefAt(p.vcount)[b] = latch[b] + p.vcount * step[b]
      BY <3>1 DEF RefAt
    <3>4. q.ref = [p.ref EXCEPT ![b] = latch[b] + p.vcount * step[b]]
      BY <2>1, <3>1, <3>2, RefMoved
    <3>5. q.ref[b] = latch[b] + p.vcount * step[b]
      BY <1>1, <3>1, <3>4, Zenon
    <3>. QED BY <2>1, <3>1, <3>2, <3>3, <3>5, RefMoved
  <2>2. CASE ~View!IsAffine(b)
    BY <2>2 DEF PPU, XInv, XTypes
  <2>. QED BY <2>1, <2>2
<1>3. View!BgLine(p, b) = IF dispcnt.mode = 3 THEN q ELSE View!Background(q, b)
  BY DEF View!BgLine
<1>. HIDE DEF q
<1>4. View!Background(q, b) \in PPU
  BY <1>2, BackgroundIs
<1>5. Shown(b) => View!Background(q, b).top = BgPixel(q.ref, b, p.vcount)
  BY <1>2, BackgroundIs
<1>6. BgPixel(q.ref, b, p.vcount) = BgPixel(RefAt(p.vcount), b, p.vcount)
  BY <1>2 DEF BgPixel
<1>. QED BY <1>2, <1>3, <1>4, <1>5, <1>6

(* What the layers leave in the PPU. *)
LEMMA UsedType ==
  ASSUME XInv
  PROVE  View!Used \in PPU
<1>. DEFINE last == [ppu EXCEPT !.vcount = VDRAW_LINES - 1, !.top = View!Backdrop]
            bgs  == {b \in View!BG : b \in dispcnt.on}
            b0   == CHOOSE b \in bgs : \A c \in bgs : c <= b
            used == [b \in 2..3 |-> latch[b] + VDRAW_LINES * step[b]]
            ref  == [b \in 2..3 |-> IF b = b0 /\ View!IsAffine(b) THEN used[b] ELSE latch[b]]
            drawn == [View!BgLine(last, b0) EXCEPT !.ref = ref]
            afterBg == IF bgs = {} THEN ppu ELSE drawn
            obj == [afterBg EXCEPT !.vcount = VDRAW_LINES - 1, !.top = View!Backdrop]
<1>1. /\ ppu \in PPU /\ latch \in [2..3 -> Int] /\ step \in [2..3 -> Int]
      /\ VDRAW_LINES \in Nat /\ VDRAW_LINES - 1 \in Nat
  BY ScreenAssumption DEF XInv, XTypes
<1>2. last \in PPU
  BY <1>1, PixelTypes DEF PPU
<1>3. ref \in [2..3 -> Int]
  BY <1>1
<1>4. afterBg \in PPU
  <2>1. CASE bgs = {}
    BY <1>1, <2>1
  <2>2. CASE bgs # {}
    <3>1. \E b \in bgs : \A c \in bgs : c <= b
      BY <2>2 DEF View!BG
    <3>2. b0 \in 0..3
      BY <3>1 DEF View!BG
    <3>. HIDE DEF b0, last, ref
    <3>3. View!BgLine(last, b0) \in PPU
      BY <1>2, <3>2, BgLineIs
    <3>4. drawn \in PPU
      BY <1>3, <3>3 DEF PPU
    <3>. QED BY <2>2, <3>4
  <2>. QED BY <2>1, <2>2
<1>5. View!Used = IF 4 \in dispcnt.on THEN View!Sprites(obj) ELSE afterBg
  BY Zenon DEF View!Used, View!Affine, View!OBJ
<1>. HIDE DEF afterBg
<1>6. obj \in PPU
  BY <1>1, <1>4, PixelTypes DEF PPU
<1>. HIDE DEF obj
<1>7. <<4, obj.vcount>> \in PixelType
  BY <1>6 DEF PPU, PixelType
<1>8. View!Sprites(obj) \in PPU
  BY <1>6, <1>7, Painted DEF View!Sprites, View!OBJ
<1>. QED BY <1>4, <1>5, <1>8

(* Putting back what was saved gives the PPU there was.                    *)
LEMMA Restored ==
  ASSUME NEW p \in PPU, NEW q \in PPU
  PROVE  [p EXCEPT !.vcount = q.vcount, !.top = q.top, !.second = q.second, !.ref = q.ref] = q
  BY Zenon DEF PPU

(* The window is rendered between two frames.                              *)
LEMMA RenderKeeps == XInv /\ View!xray_render => XInv'
<1>. SUFFICES ASSUME XInv, View!xray_render PROVE XInv'
  OBVIOUS
<1>1. /\ between = "render" /\ between' = "poll"
      /\ UNCHANGED <<dispcnt, latch, step, framebuffer, twin, resources, active, layer_map, changed>>
  BY DEF View!xray_render
<1>2. ppu' = ppu
  <2>1. View!LeftBehind(View!Used) = ppu
    BY UsedType, Restored DEF View!LeftBehind, XInv, XTypes
  <2>. QED BY <2>1 DEF View!xray_render
<1>3. XTypes' /\ Twins'
  BY <1>1, <1>2 DEF XInv, XTypes, Twins
<1>4. Beam'
  BY <1>1, <1>2, SameRegisters DEF XInv, Beam
<1>5. CASE active /\ "window" \in resources
  <2>1. /\ layer_bg' = [b \in 0..3 |->
             IF b \in dispcnt.on
             THEN [l \in View!Lines |-> View!BgLine([ppu EXCEPT !.vcount = l, !.top = View!Backdrop], b).top]
             ELSE View!Empty]
        /\ layer_obj' = IF 4 \in dispcnt.on
             THEN [l \in View!Lines |-> View!Sprites([ppu EXCEPT !.vcount = l, !.top = View!Backdrop]).top]
             ELSE View!Empty
    BY <1>5 DEF View!xray_render, View!LayerLines, View!BG, View!OBJ
  <2>2. ASSUME NEW l \in View!Lines
        PROVE  LET p == [ppu EXCEPT !.vcount = l, !.top = View!Backdrop]
               IN  p \in PPU /\ p.vcount = l /\ l \in Nat
    <3>1. l \in Nat
      BY ScreenAssumption DEF View!Lines
    <3>. QED BY <3>1, PixelTypes DEF XInv, XTypes, PPU
  <2>3. ASSUME NEW l \in View!Lines, NEW b \in 0..3, Shown(b), dispcnt.mode # 3
        PROVE  layer_bg'[b][l] = BgPixel(RefAt(l), b, l)
    <3>. DEFINE p == [ppu EXCEPT !.vcount = l, !.top = View!Backdrop]
    <3>1. p \in PPU /\ p.vcount = l
      BY <2>2
    <3>2. b \in dispcnt.on
      BY <2>3 DEF Shown
    <3>3. layer_bg'[b][l] = View!BgLine(p, b).top
      BY <2>1, <3>2
    <3>. HIDE DEF p
    <3>. QED BY <2>3, <3>1, <3>3, BgLineIs
  <2>4. ASSUME NEW l \in View!Lines, 4 \in dispcnt.on
        PROVE  layer_obj'[l] = <<4, l>>
    <3>. DEFINE p == [ppu EXCEPT !.vcount = l, !.top = View!Backdrop]
    <3>1. p \in PPU /\ p.vcount = l /\ l \in Nat
      BY <2>2
    <3>2. layer_obj'[l] = View!Sprites(p).top
      BY <2>1, <2>4
    <3>. HIDE DEF p
    <3>3. View!Sprites(p) = View!Paint(p, <<4, l>>) /\ <<4, l>> \in PixelType
      BY <3>1, PixelTypes DEF View!Sprites, View!OBJ
    <3>. QED BY <3>1, <3>2, <3>3, Painted
  <2>5. Views'
    BY <1>1, <2>3, <2>4, SameRegisters DEF Views
  <2>6. Drawn'
    BY <1>1, <1>2, <1>5, SameRegisters DEF XInv, Drawn
  <2>. QED BY <1>3, <1>4, <2>5, <2>6 DEF XInv
<1>6. CASE ~(active /\ "window" \in resources)
  <2>1. UNCHANGED <<layer_bg, layer_obj, taken>> /\ ~taken
    BY <1>1, <1>6 DEF View!xray_render, XInv, Views
  <2>2. Views'
    BY <1>1, <2>1 DEF Views
  <2>3. Drawn'
    BY <1>1, <1>2, <2>1, SameRegisters DEF XInv, Drawn
  <2>. QED BY <1>3, <1>4, <2>2, <2>3 DEF XInv
<1>. QED BY <1>5, <1>6

(* The window is opened, fails to open half way, or is closed.             *)
LEMMA ToggleKeeps == XInv /\ View!xray_toggle => XInv'
<1>. SUFFICES ASSUME XInv, View!xray_toggle PROVE XInv'
  OBVIOUS
<1>1. /\ between = "poll"
      /\ UNCHANGED <<dispcnt, latch, step, ppu, framebuffer, twin, between, layer_bg, layer_obj,
                     layer_map, changed, taken>>
  BY DEF View!xray_toggle
<1>2. XTypes'
  BY <1>1 DEF XInv, XTypes
<1>3. Twins'
  <2>1. (active' => resources' = View!SDLObjects) /\ resources' \in {{}, View!SDLObjects}
    BY DEF View!xray_toggle, View!Created, View!Attempts, XInv, Twins, View!SDLObjects
  <2>. QED BY <1>1, <2>1 DEF XInv, Twins
<1>4. Beam' /\ Drawn' /\ Views'
  BY <1>1, SameRegisters DEF XInv, Beam, Drawn, Views
<1>. QED BY <1>2, <1>3, <1>4 DEF XInv

(* The next frame begins.                                                  *)
LEMMA NextFrameKeeps == XInv /\ View!NextFrame => XInv'
<1>. SUFFICES ASSUME XInv, View!NextFrame PROVE XInv'
  OBVIOUS
<1>1. /\ between = "poll" /\ between' = "no" /\ changed' = 0 /\ ~taken'
      /\ UNCHANGED <<dispcnt, latch, step, ppu, framebuffer, twin, resources, active, layer_map>>
  BY DEF View!NextFrame
<1>2. XTypes' /\ Twins'
  BY <1>1 DEF XInv, XTypes, Twins
<1>3. ppu.vcount = 0 /\ ppu.ref = latch
  BY <1>1 DEF XInv, Beam
<1>4. ppu.ref = RefAt(0)
  BY <1>3 DEF XInv, XTypes, RefAt
<1>5. Beam'
  BY <1>1, <1>3, <1>4, SameRegisters DEF Beam
<1>6. Drawn' /\ Views'
  BY <1>1, <1>3, ScreenAssumption DEF Drawn, Views, View!Lines
<1>. QED BY <1>2, <1>5, <1>6 DEF XInv

(* The X-Ray window only looks, for every height of the screen, all values *)
(* of the reference points and their steps and every sequence of frames,   *)
(* writes, openings and closings.                                          *)
THEOREM XrayLeavesNoTrace == CSpec => []XrayOnlyLooks
<1>1. CInit => XInv
  BY XInvInit
<1>2. XInv /\ [CNext]_cvars => XInv'
  <2>. SUFFICES ASSUME XInv, [CNext]_cvars PROVE XInv'
    OBVIOUS
  <2>1. CASE View!XNext
    <3>1. CASE View!RunLine \/ View!xray_render \/ View!xray_toggle \/ View!NextFrame
      BY <3>1, RunLineKeeps, RenderKeeps, ToggleKeeps, NextFrameKeeps
    <3>2. CASE \E d \in MCDisplays : View!WriteDisplay(d)
      BY <3>2, WriteDisplayKeeps
    <3>3. ASSUME NEW b \in View!Affine,
                 (\E v \in Refs : View!WriteReference(b, v)) \/ (\E v \in Steps : View!WriteSteps(b, v))
          PROVE  XInv'
      BY <3>3, WriteReferenceKeeps, WriteStepsKeep DEF View!Affine
    <3>. QED BY <2>1, <3>1, <3>2, <3>3 DEF View!XNext
  <2>2. CASE UNCHANGED xrayvars
    BY <2>2, XInvUnchanged
  <2>. QED BY <2>1, <2>2 DEF CNext, cvars, Bytes, OnBits
<1>. QED BY <1>1, <1>2, XInvGivesLooks, PTL DEF CSpec

-----------------------------------------------------------------------------
(*                      The byte-wise decompressors                        *)

Memory == [0..Top -> Nat]
Halves == {"lz77", "rl", "diff"}       \* the calls that hold a byte back

UnpackTypes ==
  /\ mem \in Memory /\ text \in Seq(Nat)
  /\ kind \in Halves \cup {"idle", "diff8", "diff16"}
  /\ dst \in Nat /\ decomp_size \in Nat /\ bytes_written \in Nat
  /\ have_low_byte \in BOOLEAN /\ out_halfword \in Nat
  /\ left \in Nat /\ disp \in Nat /\ val \in Nat

(* The output is in memory. *)
Room ==
  /\ Len(text) <= Top
  /\ kind # "idle" => dst \in Dsts /\ decomp_size \in Sizes /\ bytes_written <= decomp_size

(* A byte is held back where the output so far is of odd length.           *)
Held ==
  /\ IF kind \in Halves THEN (have_low_byte <=> bytes_written % 2 = 1) ELSE ~have_low_byte
  /\ kind = "diff16" => bytes_written % 2 = 0

(* What a block, or the byte before, contributes to the next byte.         *)
Source ==
  /\ kind = "lz77" /\ left > 0 => disp \in Displacements
  /\ kind \in {"diff", "diff8"} => Len(text) > 0 /\ val = text[Len(text)]
  /\ kind = "diff16" => Len(text) > 1 /\ val = text[Len(text) - 1] + 256 * text[Len(text)]

UnpackInv == UnpackTypes /\ Room /\ Held /\ Source /\ Decoded

(* What is assumed of streams and their destinations.                      *)
LEMMA Streams ==
  /\ Byte \subseteq Nat /\ Half \subseteq Nat
  /\ \A d \in Dsts : d \in Nat /\ d % 2 = 0
  /\ \A d \in Dsts : \A n \in Sizes : d + n <= Top /\ n \in Nat
  /\ \A d \in Dsts : \A k \in Displacements : k \in Nat /\ 1 <= k /\ k <= d
  BY UnpackAssumption DEF Half

(* The text has grown by a byte. *)
Grew(v) ==
  /\ text' \in Seq(Nat) /\ Len(text) \in Nat /\ Len(text') = Len(text) + 1
  /\ text'[Len(text) + 1] = v
  /\ \A i \in 1 .. Len(text) : text'[i] = text[i]

(* What a sequence has at each place after one more byte.                  *)
LEMMA Appended ==
  ASSUME text \in Seq(Nat), NEW v \in Nat, text' = Append(text, v)
  PROVE  Grew(v)
  BY AppendProperties, LenProperties DEF Grew

(* Halfwords go to an even place. *)
Holds(m, a, lo, hi) ==
  /\ m \in Memory /\ m[a] = lo /\ m[a + 1] = hi
  /\ \A b \in 0..Top : b # a /\ b # a + 1 => m[b] = mem[b]

(* A halfword store changes its two bytes of memory.                       *)
LEMMA WroteHalf ==
  ASSUME mem \in Memory, NEW a \in Nat, a % 2 = 0, a < Top, NEW lo \in Nat, NEW hi \in Nat
  PROVE  Holds(bus_write16(a, lo, hi), a, lo, hi)
<1>1. 2 * (a \div 2) = a /\ a \in 0..Top /\ a + 1 \in 0..Top /\ a # a + 1
  BY UnpackAssumption
<1>2. bus_write16(a, lo, hi) = [mem EXCEPT ![a] = lo, ![a + 1] = hi]
  BY <1>1 DEF bus_write16
<1>. QED BY <1>1, <1>2 DEF Memory, Holds

(* One byte of output of the calls that hold one back. *)
LEMMA Emitted ==
  ASSUME UnpackInv, NEW v \in Nat, Emit(v), Grew(v),
         kind \in Halves, bytes_written < decomp_size, UNCHANGED <<kind, dst, decomp_size>>
  PROVE  /\ mem' \in Memory /\ text' \in Seq(Nat) /\ bytes_written' \in Nat
         /\ have_low_byte' \in BOOLEAN /\ out_halfword' \in Nat
         /\ Room' /\ Held' /\ Decoded'
         /\ \A a \in 0..Top : mem'[a] # mem[a] =>
               dst <= a /\ a < dst + decomp_size + (decomp_size % 2)
<1>0. /\ mem \in Memory /\ dst \in Nat /\ decomp_size \in Nat /\ bytes_written \in Nat /\ Top \in Nat
      /\ out_halfword \in Nat /\ Len(text) \in Nat /\ have_low_byte \in BOOLEAN /\ text' \in Seq(Nat)
      /\ Len(text') = Len(text) + 1
  BY UnpackAssumption DEF UnpackInv, UnpackTypes, Grew
<1>1. /\ dst \in Dsts /\ decomp_size \in Sizes /\ dst % 2 = 0 /\ dst + decomp_size <= Top
      /\ Len(text) = dst + bytes_written
      /\ (have_low_byte <=> bytes_written % 2 = 1) /\ kind # "idle" /\ kind # "diff16"
      /\ bytes_written' = bytes_written + 1
  BY Streams DEF UnpackInv, Room, Held, Decoded, Halves, Emit
<1>3. Room'
  BY <1>0, <1>1 DEF Room
<1>4. CASE have_low_byte
  <2>. DEFINE a == dst + bytes_written - 1
  <2>0. bytes_written % 2 = 1
    BY <1>1, <1>4
  <2>1. a \in Nat /\ a % 2 = 0 /\ a < Top /\ a + 1 = Len(text)
        /\ dst <= a /\ a + 1 < dst + decomp_size /\ Len(text) >= 1
    BY <1>0, <1>1, <2>0
  <2>2. mem' = bus_write16(a, out_halfword, v) /\ have_low_byte' = FALSE /\ out_halfword' = out_halfword
    BY <1>4 DEF Emit
  <2>. HIDE DEF a
  <2>3. /\ mem' \in Memory /\ mem'[a] = out_halfword /\ mem'[a + 1] = v
        /\ \A b \in 0..Top : b # a /\ b # a + 1 => mem'[b] = mem[b]
    <3>1. Holds(mem', a, out_halfword, v)
      BY <1>0, <2>1, <2>2, WroteHalf
    <3>. QED BY <3>1 DEF Holds
  <2>4. Held'
    <3>1. bytes_written' % 2 = 0
      BY <1>0, <1>1, <2>0
    <3>. QED BY <1>1, <2>2, <3>1 DEF Held
  <2>5. Decoded'
    <3>1. ASSUME NEW i \in 1 .. Len(text')
          PROVE  text'[i] = mem'[i - 1]
      <4>1. CASE i = Len(text) + 1
        BY <1>0, <2>1, <2>3, <4>1 DEF Grew
      <4>2. CASE i = Len(text)
        <5>1. text[i] = out_halfword
          BY <1>0, <1>4, <2>1, <4>2 DEF UnpackInv, Decoded
        <5>. QED BY <1>0, <2>1, <2>3, <4>2, <5>1 DEF Grew
      <4>3. CASE i < Len(text)
        <5>1. text[i] = mem[i - 1]
          BY <1>0, <4>3 DEF UnpackInv, Decoded
        <5>2. i - 1 \in 0..Top /\ i - 1 # a /\ i - 1 # a + 1
          BY <1>0, <1>1, <2>1, <4>3
        <5>. QED BY <1>0, <2>3, <4>3, <5>1, <5>2 DEF Grew
      <4>. QED BY <1>0, <4>1, <4>2, <4>3
    <3>. QED BY <1>0, <1>1, <2>2, <3>1 DEF Decoded
  <2>6. \A b \in 0..Top : mem'[b] # mem[b] =>
               dst <= b /\ b < dst + decomp_size + (decomp_size % 2)
    BY <1>0, <2>1, <2>3
  <2>7. bytes_written' \in Nat
    BY <1>0, <1>1
  <2>. QED BY <1>0, <1>3, <2>2, <2>3, <2>4, <2>5, <2>6, <2>7, Zenon
<1>5. CASE ~have_low_byte
  <2>1. mem' = mem /\ have_low_byte' = TRUE /\ out_halfword' = v
    BY <1>5 DEF Emit
  <2>2. Held'
    <3>1. bytes_written' % 2 = 1
      BY <1>0, <1>1, <1>5
    <3>. QED BY <1>1, <2>1, <3>1 DEF Held
  <2>3. Decoded'
    <3>1. ASSUME NEW i \in 1 .. Len(text')
          PROVE  text'[i] = IF i = Len(text') THEN v ELSE mem'[i - 1]
      <4>1. CASE i = Len(text')
        BY <1>0, <4>1 DEF Grew
      <4>2. CASE i # Len(text')
        <5>1. i \in 1 .. Len(text)
          BY <1>0, <4>2
        <5>2. text[i] = mem[i - 1]
          BY <1>5, <5>1 DEF UnpackInv, Decoded
        <5>. QED BY <2>1, <4>2, <5>1, <5>2 DEF Grew
      <4>. QED BY <4>1, <4>2
    <3>. QED BY <1>0, <1>1, <2>1, <3>1 DEF Decoded
  <2>. QED BY <1>0, <1>1, <1>3, <2>1, <2>2, <2>3
<1>. QED BY <1>0, <1>4, <1>5

(* What a step may do to memory. *)
InOutput == \A a \in 0..Top : mem'[a] # mem[a] =>
               dst' <= a /\ a < dst' + decomp_size' + (decomp_size' % 2)

(* The text that is there when a call begins. *)
LEMMA BelowIs ==
  ASSUME UnpackTypes, NEW d \in Nat, d <= Top
  PROVE  /\ Below(d) \in Seq(Nat) /\ Len(Below(d)) = d
         /\ \A i \in 1..d : Below(d)[i] = mem[i - 1]
<1>1. \A i \in 1..d : i - 1 \in 0..Top
  BY UnpackAssumption
<1>2. \A i \in 1..d : mem[i - 1] \in Nat
  BY <1>1 DEF UnpackTypes, Memory
<1>. QED BY <1>2 DEF Below

(* A call for LZ77 or run lengths begins.                                  *)
LEMMA StartKeeps ==
  ASSUME UnpackInv, NEW k \in {"lz77", "rl"}, NEW d \in Dsts, NEW n \in Sizes, Start(k, d, n),
         text' = Below(d)
  PROVE  UnpackInv' /\ InOutput
<1>1. d \in Nat /\ n \in Nat /\ d + n <= Top /\ Top \in Nat /\ d <= Top
  BY Streams, UnpackAssumption
<1>2. /\ text' \in Seq(Nat) /\ Len(text') = d /\ \A i \in 1..d : text'[i] = mem[i - 1]
  BY <1>1, BelowIs DEF UnpackInv
<1>3. /\ kind' = k /\ dst' = d /\ decomp_size' = n /\ bytes_written' = 0
      /\ have_low_byte' = FALSE /\ out_halfword' = 0 /\ left' = 0 /\ disp' = 0 /\ val' = 0
      /\ mem' = mem
  BY DEF Start
<1>4. UnpackTypes'
  BY <1>1, <1>2, <1>3 DEF UnpackInv, UnpackTypes, Halves
<1>5. Room' /\ Held' /\ Source'
  BY <1>1, <1>2, <1>3 DEF Room, Held, Source, Halves
<1>6. Decoded'
  BY <1>1, <1>2, <1>3 DEF Decoded
<1>. QED BY <1>3, <1>4, <1>5, <1>6 DEF UnpackInv, InOutput

(* A call for differences into VRAM begins.                                *)
LEMMA StartDiffKeeps ==
  ASSUME UnpackInv, NEW d \in Dsts, NEW n \in Sizes, NEW v \in Byte, StartDiff(d, n, v),
         text' = Append(Below(d), v)
  PROVE  UnpackInv' /\ InOutput
<1>1. d \in Nat /\ n \in Nat /\ d + n <= Top /\ Top \in Nat /\ d <= Top /\ v \in Nat
  BY Streams, UnpackAssumption
<1>2. /\ Below(d) \in Seq(Nat) /\ Len(Below(d)) = d /\ \A i \in 1..d : Below(d)[i] = mem[i - 1]
  BY <1>1, BelowIs DEF UnpackInv
<1>3. /\ text' \in Seq(Nat) /\ Len(text') = d + 1 /\ \A i \in 1..d : text'[i] = mem[i - 1]
      /\ text'[d + 1] = v
  BY <1>1, <1>2, AppendProperties
<1>4. /\ n > 0 /\ kind' = "diff" /\ dst' = d /\ decomp_size' = n /\ bytes_written' = 1
      /\ have_low_byte' = TRUE /\ out_halfword' = v /\ left' = 0 /\ disp' = 0 /\ val' = v
      /\ mem' = mem
  BY DEF StartDiff
<1>5. UnpackTypes'
  BY <1>1, <1>3, <1>4 DEF UnpackInv, UnpackTypes, Halves
<1>6. Room' /\ Held' /\ Source'
  BY <1>1, <1>3, <1>4 DEF Room, Held, Source, Halves
<1>7. Decoded'
  BY <1>1, <1>3, <1>4 DEF Decoded
<1>. QED BY <1>4, <1>5, <1>6, <1>7 DEF UnpackInv, InOutput

(* A call for differences of bytes begins.                                 *)
LEMMA StartDiff8Keeps ==
  ASSUME UnpackInv, NEW d \in Dsts, NEW n \in Sizes, NEW v \in Byte, StartDiff8(d, n, v),
         text' = Append(Below(d), v)
  PROVE  UnpackInv' /\ InOutput
<1>1. d \in Nat /\ n \in Nat /\ d + n <= Top /\ Top \in Nat /\ d <= Top /\ v \in Nat
  BY Streams, UnpackAssumption
<1>2. /\ Below(d) \in Seq(Nat) /\ Len(Below(d)) = d /\ \A i \in 1..d : Below(d)[i] = mem[i - 1]
  BY <1>1, BelowIs DEF UnpackInv
<1>3. /\ text' \in Seq(Nat) /\ Len(text') = d + 1 /\ \A i \in 1..d : text'[i] = mem[i - 1]
      /\ text'[d + 1] = v
  BY <1>1, <1>2, AppendProperties
<1>4. /\ n > 0 /\ kind' = "diff8" /\ dst' = d /\ decomp_size' = n /\ bytes_written' = 1
      /\ have_low_byte' = FALSE /\ out_halfword' = 0 /\ left' = 0 /\ disp' = 0 /\ val' = v
      /\ mem' = [mem EXCEPT ![d] = v]
  BY DEF StartDiff8, StartStored
<1>5. /\ mem' \in Memory /\ mem'[d] = v /\ \A a \in 0..Top : a # d => mem'[a] = mem[a]
  BY <1>1, <1>4 DEF UnpackInv, UnpackTypes, Memory
<1>6. UnpackTypes'
  BY <1>1, <1>3, <1>4, <1>5 DEF UnpackTypes, Halves
<1>7. Room' /\ Held' /\ Source'
  BY <1>1, <1>3, <1>4 DEF Room, Held, Source, Halves
<1>8. Decoded'
  <2>1. ASSUME NEW i \in 1 .. d + 1
        PROVE  text'[i] = mem'[i - 1]
    <3>1. CASE i = d + 1
      BY <1>1, <1>3, <1>5, <3>1
    <3>2. CASE i # d + 1
      <4>1. i \in 1..d /\ i - 1 \in 0..Top /\ i - 1 # d
        BY <1>1, <3>2
      <4>. QED BY <1>3, <1>5, <4>1
    <3>. QED BY <3>1, <3>2
  <2>. QED BY <1>1, <1>3, <1>4, <2>1 DEF Decoded
<1>9. InOutput
  BY <1>1, <1>4, <1>5 DEF InOutput
<1>. QED BY <1>6, <1>7, <1>8, <1>9 DEF UnpackInv

(* A text with the two bytes of a halfword. *)
Joined(u, t, lo, hi) ==
  /\ u \in Seq(Nat) /\ Len(u) = Len(t) + 2 /\ Len(t) \in Nat
  /\ u[Len(t) + 1] = lo /\ u[Len(t) + 2] = hi
  /\ \A i \in 1..Len(t) : u[i] = t[i]

(* A text with a halfword more.                                            *)
LEMMA JoinedHalf ==
  ASSUME NEW t \in Seq(Nat), NEW x \in Nat
  PROVE  Joined(AppendHalf(t, x), t, x % 256, (x \div 256) % 256)
<1>. DEFINE lo == x % 256
            hi == (x \div 256) % 256
            u  == Append(t, lo)
            w  == Append(u, hi)
<1>1. lo \in Nat /\ hi \in Nat /\ Len(t) \in Nat /\ AppendHalf(t, x) = w
  BY LenProperties DEF AppendHalf
<1>. HIDE DEF lo, hi
<1>2. /\ u \in Seq(Nat) /\ Len(u) = Len(t) + 1 /\ u[Len(t) + 1] = lo
      /\ \A i \in 1..Len(t) : u[i] = t[i]
  BY <1>1, AppendProperties
<1>. HIDE DEF u
<1>3. /\ w \in Seq(Nat) /\ Len(w) = Len(t) + 2 /\ w[Len(t) + 2] = hi
      /\ \A i \in 1..Len(t) + 1 : w[i] = u[i]
  BY <1>1, <1>2, AppendProperties
<1>. HIDE DEF w
<1>4. w[Len(t) + 1] = lo /\ \A i \in 1..Len(t) : w[i] = t[i]
  <2>1. Len(t) + 1 \in 1..Len(t) + 1 /\ \A i \in 1..Len(t) : i \in 1..Len(t) + 1
    BY <1>1
  <2>. QED BY <1>2, <1>3, <2>1, Zenon
<1>5. Joined(w, t, lo, hi)
  BY <1>1, <1>3, <1>4 DEF Joined
<1>. QED BY <1>1, <1>5 DEF lo, hi

(* The bytes of a number taken modulo 2^16.                                *)
LEMMA Wrapped ==
  ASSUME NEW x \in Nat
  PROVE  /\ (x % 65536) % 256 = x % 256 /\ (x % 65536) \div 256 = (x \div 256) % 256
         /\ x % 65536 = (x % 256) + 256 * ((x \div 256) % 256)
         /\ x % 65536 \in Nat /\ x % 256 \in Nat /\ (x \div 256) % 256 \in Nat
  OBVIOUS

(* A halfword is itself modulo 2^16.                                       *)
LEMMA HalvesFit == \A v \in Half : v \in Nat /\ v % 65536 = v
<1>. SUFFICES ASSUME NEW v \in Half PROVE v \in Nat /\ v % 65536 = v
  OBVIOUS
<1>1. PICK lo \in Byte, hi \in Byte : v = lo + 256 * hi
  BY DEF Half
<1>2. lo \in Nat /\ hi \in Nat /\ lo <= 255 /\ hi <= 255
  BY UnpackAssumption
<1>3. v \in Nat /\ v < 65536
  BY <1>1, <1>2
<1>. QED BY <1>3

(* A halfword that ends the text, stored where it belongs. *)
Stored(n, lo, hi) ==
  /\ mem' \in Memory /\ text' \in Seq(Nat) /\ Len(text') = n + 2
  /\ \A i \in 1..Len(text') : text'[i] = mem'[i - 1]
  /\ text'[Len(text') - 1] = lo /\ text'[Len(text')] = hi
  /\ \A a \in 0..Top : mem'[a] # mem[a] => a = n \/ a = n + 1

(* A halfword of the output, once stored.                                  *)
LEMMA StoredHalf ==
  ASSUME mem \in Memory, NEW t \in Seq(Nat), NEW x \in Nat, Len(t) % 2 = 0, Len(t) < Top,
         \A i \in 1..Len(t) : t[i] = mem[i - 1],
         mem' = bus_write16(Len(t), x % 256, (x \div 256) % 256),
         text' = AppendHalf(t, x)
  PROVE  Stored(Len(t), x % 256, (x \div 256) % 256)
<1>. DEFINE n == Len(t)
            lo == x % 256
            hi == (x \div 256) % 256
<1>1. n \in Nat /\ lo \in Nat /\ hi \in Nat /\ Top \in Nat /\ n % 2 = 0 /\ n < Top
  BY LenProperties, Wrapped, UnpackAssumption
<1>2. /\ text' \in Seq(Nat) /\ Len(text') = n + 2 /\ text'[n + 1] = lo /\ text'[n + 2] = hi
      /\ \A i \in 1..n : text'[i] = t[i]
  <2>1. Joined(text', t, lo, hi)
    BY JoinedHalf
  <2>. QED BY <2>1, Zenon DEF Joined
<1>3. /\ \A i \in 1..n : t[i] = mem[i - 1]
      /\ mem' = bus_write16(n, lo, hi)
  OBVIOUS
<1>. HIDE DEF n, lo, hi
<1>4. /\ mem' \in Memory /\ mem'[n] = lo /\ mem'[n + 1] = hi
      /\ \A b \in 0..Top : b # n /\ b # n + 1 => mem'[b] = mem[b]
  <2>1. Holds(mem', n, lo, hi)
    BY <1>1, <1>3, WroteHalf
  <2>. QED BY <2>1 DEF Holds
<1>5. ASSUME NEW i \in 1..n + 2
      PROVE  text'[i] = mem'[i - 1]
  <2>1. CASE i = n + 2
    BY <1>1, <1>2, <1>4, <2>1
  <2>2. CASE i = n + 1
    BY <1>1, <1>2, <1>4, <2>2
  <2>3. CASE i <= n
    <3>1. i \in 1..n /\ i - 1 \in 0..Top /\ i - 1 # n /\ i - 1 # n + 1
      BY <1>1, <2>3
    <3>. QED BY <1>2, <1>3, <1>4, <3>1, Zenon
  <2>. QED BY <1>1, <2>1, <2>2, <2>3
<1>6. Len(text') - 1 = n + 1 /\ Len(text') = n + 2
  BY <1>1, <1>2
<1>7. text'[Len(text') - 1] = lo /\ text'[Len(text')] = hi
  BY <1>2, <1>6, Zenon
<1>8. ASSUME NEW a \in 0..Top, mem'[a] # mem[a]
      PROVE  a = n \/ a = n + 1
  BY <1>4, <1>8, Zenon
<1>9. Stored(n, lo, hi)
  BY <1>2, <1>4, <1>5, <1>6, <1>7, <1>8, Zenon DEF Stored
<1>. QED BY <1>9 DEF n, lo, hi

(* A call for differences of halfwords begins.                             *)
LEMMA StartDiff16Keeps ==
  ASSUME UnpackInv, NEW d \in Dsts, NEW n \in Sizes, NEW v \in Half, StartDiff16(d, n, v),
         text' = AppendHalf(Below(d), v)
  PROVE  UnpackInv' /\ InOutput
<1>1. /\ d \in Nat /\ n \in Nat /\ d + n <= Top /\ Top \in Nat /\ d <= Top /\ v \in Nat
      /\ d % 2 = 0 /\ mem \in Memory
  BY Streams, UnpackAssumption DEF UnpackInv, UnpackTypes
<1>2. /\ Below(d) \in Seq(Nat) /\ Len(Below(d)) = d /\ \A i \in 1..d : Below(d)[i] = mem[i - 1]
  BY <1>1, BelowIs DEF UnpackInv
<1>3. /\ n >= 2 /\ kind' = "diff16" /\ dst' = d /\ decomp_size' = n /\ bytes_written' = 2
      /\ have_low_byte' = FALSE /\ out_halfword' = 0 /\ left' = 0 /\ disp' = 0 /\ val' = v
      /\ mem' = bus_write16(d, v % 256, v \div 256)
  BY DEF StartDiff16, StartStored
<1>4. v \div 256 = (v \div 256) % 256 /\ v = (v % 256) + 256 * ((v \div 256) % 256)
  BY HalvesFit, Wrapped
<1>5. d < Top
  BY <1>1, <1>3
<1>6. mem' = bus_write16(d, v % 256, (v \div 256) % 256)
  BY <1>3, <1>4, Zenon
<1>7. /\ mem' \in Memory /\ text' \in Seq(Nat) /\ Len(text') = d + 2
      /\ \A i \in 1..Len(text') : text'[i] = mem'[i - 1]
      /\ text'[Len(text') - 1] = v % 256 /\ text'[Len(text')] = (v \div 256) % 256
      /\ \A a \in 0..Top : mem'[a] # mem[a] => a = d \/ a = d + 1
  <2>. DEFINE t == Below(d)
  <2>1. t \in Seq(Nat) /\ Len(t) = d /\ \A i \in 1..Len(t) : t[i] = mem[i - 1]
    BY <1>2
  <2>2. text' = AppendHalf(t, v)
    OBVIOUS
  <2>. HIDE DEF t
  <2>3. /\ Len(t) % 2 = 0 /\ Len(t) < Top /\ mem' = bus_write16(Len(t), v % 256, (v \div 256) % 256)
    BY <1>1, <1>5, <1>6, <2>1, Zenon
  <2>4. Stored(Len(t), v % 256, (v \div 256) % 256)
    BY <1>1, <2>1, <2>2, <2>3, StoredHalf
  <2>. QED BY <2>1, <2>4, Zenon DEF Stored
<1>8. UnpackTypes'
  BY <1>1, <1>3, <1>7 DEF UnpackTypes, Halves
<1>9. Room' /\ Held'
  BY <1>1, <1>3, <1>7 DEF Room, Held, Halves
<1>10. Source'
  <2>1. val' = text'[Len(text') - 1] + 256 * text'[Len(text')]
    BY <1>3, <1>4, <1>7, Zenon
  <2>. QED BY <1>1, <1>3, <1>7, <2>1 DEF Source
<1>11. Decoded'
  BY <1>1, <1>3, <1>7 DEF Decoded
<1>12. InOutput
  BY <1>1, <1>3, <1>7 DEF InOutput
<1>. QED BY <1>8, <1>9, <1>10, <1>11, <1>12 DEF UnpackInv

(* The steps that only begin a block. *)
LEMMA BlockKeeps ==
  ASSUME UnpackInv, UNCHANGED <<output, kind, dst, decomp_size, text>>,
         left' \in Nat, disp' \in Nat, val' \in Nat,
         kind = "lz77" => disp' \in Displacements,
         kind \notin {"diff", "diff8", "diff16"}
  PROVE  UnpackInv' /\ InOutput
<1>1. UNCHANGED <<mem, bytes_written, have_low_byte, out_halfword, kind, dst, decomp_size, text>>
  BY DEF output
<1>2. UnpackTypes'
  BY <1>1 DEF UnpackInv, UnpackTypes
<1>3. Room' /\ Held' /\ Source'
  BY <1>1 DEF UnpackInv, Room, Held, Source
<1>4. Decoded'
  BY <1>1 DEF UnpackInv, Decoded
<1>. QED BY <1>1, <1>2, <1>3, <1>4 DEF UnpackInv, InOutput

(* A byte of output of LZ77 and run length. *)
LEMMA EmitKeeps ==
  ASSUME UnpackInv, NEW v \in Nat, Emit(v), text' = Append(text, v),
         kind \in {"lz77", "rl"}, bytes_written < decomp_size,
         UNCHANGED <<kind, dst, decomp_size, disp, val>>, left' \in Nat, left' <= left
  PROVE  UnpackInv' /\ InOutput
<1>1. Grew(v)
  BY Appended DEF UnpackInv, UnpackTypes
<1>2. kind \in Halves
  BY DEF Halves
<1>3. /\ mem' \in Memory /\ text' \in Seq(Nat) /\ bytes_written' \in Nat
      /\ have_low_byte' \in BOOLEAN /\ out_halfword' \in Nat
      /\ Room' /\ Held' /\ Decoded'
      /\ \A a \in 0..Top : mem'[a] # mem[a] =>
            dst <= a /\ a < dst + decomp_size + (decomp_size % 2)
  BY <1>1, <1>2, Emitted
<1>4. UnpackTypes'
  BY <1>3 DEF UnpackInv, UnpackTypes
<1>5. Source'
  BY DEF UnpackInv, UnpackTypes, Source
<1>6. InOutput
  BY <1>3 DEF InOutput
<1>. QED BY <1>3, <1>4, <1>5, <1>6 DEF UnpackInv

(* What a reference reads back is what the text has there. *)
LEMMA ReadsBack ==
  ASSUME UnpackInv, InBlock("lz77")
  PROVE  text[Len(text) + 1 - disp] = ReadBack /\ ReadBack \in Nat
<1>1. /\ kind = "lz77" /\ left > 0 /\ disp \in Displacements /\ dst \in Dsts
      /\ Len(text) = dst + bytes_written /\ Len(text) <= Top
  BY DEF InBlock, UnpackInv, Source, Room, Decoded
<1>2. /\ dst \in Nat /\ bytes_written \in Nat /\ disp \in Nat /\ 1 <= disp /\ disp <= dst
      /\ mem \in Memory /\ out_halfword \in Nat /\ Top \in Nat
  BY <1>1, Streams, UnpackAssumption DEF UnpackInv, UnpackTypes
<1>. DEFINE i == Len(text) + 1 - disp
<1>3. i \in 1..Len(text) /\ i - 1 = dst + bytes_written - disp /\ i - 1 \in 0..Top
      /\ (i = Len(text) <=> disp = 1)
  BY <1>1, <1>2
<1>. HIDE DEF i
<1>4. text[i] = IF have_low_byte /\ i = Len(text) THEN out_halfword ELSE mem[i - 1]
  BY <1>3 DEF UnpackInv, Decoded
<1>5. ReadBack = IF have_low_byte /\ disp = 1 THEN out_halfword ELSE mem[dst + bytes_written - disp]
  BY DEF ReadBack
<1>6. mem[i - 1] \in Nat
  BY <1>2, <1>3 DEF Memory
<1>7. text[i] = ReadBack /\ ReadBack \in Nat
  BY <1>2, <1>3, <1>4, <1>5, <1>6
<1>. QED BY <1>7 DEF i

(* One difference of bytes into VRAM.                                      *)
LEMMA DiffByteKeeps ==
  ASSUME UnpackInv, NEW v \in Byte, DiffByte(v), text' = Append(text, (text[Len(text)] + v) % 256)
  PROVE  UnpackInv' /\ InOutput
<1>. DEFINE w == (val + v) % 256
<1>1. /\ kind = "diff" /\ bytes_written < decomp_size /\ val' = w /\ Emit(w)
      /\ UNCHANGED <<kind, dst, decomp_size, left, disp>>
  BY DEF DiffByte, AtBlock, Unfinished
<1>2. v \in Nat /\ val \in Nat /\ w \in Nat /\ val = text[Len(text)]
  BY <1>1, Streams DEF UnpackInv, UnpackTypes, Source
<1>3. text' = Append(text, w)
  BY <1>2
<1>. HIDE DEF w
<1>4. Grew(w)
  BY <1>2, <1>3, Appended DEF UnpackInv, UnpackTypes
<1>5. kind \in Halves
  BY <1>1 DEF Halves
<1>6. /\ mem' \in Memory /\ text' \in Seq(Nat) /\ bytes_written' \in Nat
      /\ have_low_byte' \in BOOLEAN /\ out_halfword' \in Nat
      /\ Room' /\ Held' /\ Decoded'
      /\ \A a \in 0..Top : mem'[a] # mem[a] =>
            dst <= a /\ a < dst + decomp_size + (decomp_size % 2)
  BY <1>1, <1>2, <1>4, <1>5, Emitted
<1>7. UnpackTypes'
  BY <1>1, <1>2, <1>6 DEF UnpackInv, UnpackTypes
<1>8. Source'
  <2>1. Len(text') > 0 /\ text'[Len(text')] = w
    BY <1>4 DEF Grew
  <2>. QED BY <1>1, <2>1 DEF Source
<1>9. InOutput
  BY <1>1, <1>6 DEF InOutput
<1>. QED BY <1>6, <1>7, <1>8, <1>9 DEF UnpackInv

(* One difference of bytes.                                                *)
LEMMA Diff8ByteKeeps ==
  ASSUME UnpackInv, NEW v \in Byte, Diff8Byte(v), text' = Append(text, (text[Len(text)] + v) % 256)
  PROVE  UnpackInv' /\ InOutput
<1>. DEFINE w == (val + v) % 256
            a == dst + bytes_written
<1>1. /\ kind = "diff8" /\ bytes_written < decomp_size /\ val' = w
      /\ mem' = [mem EXCEPT ![a] = w] /\ bytes_written' = bytes_written + 1
      /\ UNCHANGED <<kind, dst, decomp_size, have_low_byte, out_halfword, left, disp>>
  BY DEF Diff8Byte, AtBlock, Unfinished
<1>2. v \in Nat /\ val \in Nat /\ w \in Nat /\ val = text[Len(text)]
  BY <1>1, Streams DEF UnpackInv, UnpackTypes, Source
<1>3. text' = Append(text, w)
  BY <1>2
<1>4. /\ dst \in Dsts /\ decomp_size \in Sizes /\ dst \in Nat /\ decomp_size \in Nat
      /\ bytes_written \in Nat /\ dst + decomp_size <= Top /\ Top \in Nat /\ ~have_low_byte
      /\ a \in Nat /\ a < Top /\ Len(text) = a /\ mem \in Memory
  BY <1>1, Streams, UnpackAssumption DEF UnpackInv, UnpackTypes, Room, Held, Decoded, Halves
<1>. HIDE DEF w
<1>5. Grew(w)
  BY <1>2, <1>3, Appended DEF UnpackInv, UnpackTypes
<1>6. /\ text' \in Seq(Nat) /\ Len(text') = a + 1 /\ text'[a + 1] = w
      /\ \A i \in 1..a : text'[i] = text[i]
  BY <1>4, <1>5, Zenon DEF Grew
<1>7. /\ dst <= a /\ a < dst + decomp_size /\ a = dst + bytes_written
  BY <1>1, <1>4
<1>. HIDE DEF a
<1>8. mem' \in Memory /\ mem'[a] = w /\ \A b \in 0..Top : b # a => mem'[b] = mem[b]
  <2>0. a \in Nat /\ a < Top /\ Top \in Nat /\ mem \in Memory
    BY <1>4
  <2>1. a \in 0..Top /\ mem \in [0..Top -> Nat] /\ w \in Nat
    BY <1>2, <2>0 DEF Memory
  <2>2. mem' = [mem EXCEPT ![a] = w]
    BY <1>1
  <2>. QED BY <2>1, <2>2 DEF Memory
<1>9. UnpackTypes'
  BY <1>1, <1>2, <1>4, <1>6, <1>8 DEF UnpackInv, UnpackTypes
<1>10. Room' /\ Held' /\ Source'
  BY <1>1, <1>4, <1>6, <1>7 DEF Room, Held, Source, Halves
<1>11. Decoded'
  <2>1. ASSUME NEW i \in 1..a + 1
        PROVE  text'[i] = mem'[i - 1]
    <3>1. CASE i = a + 1
      BY <1>4, <1>6, <1>8, <3>1
    <3>2. CASE i # a + 1
      <4>1. i \in 1..a /\ i - 1 \in 0..Top /\ i - 1 # a
        BY <1>4, <3>2
      <4>2. text[i] = mem[i - 1]
        BY <1>4, <4>1 DEF UnpackInv, Decoded
      <4>. QED BY <1>6, <1>8, <4>1, <4>2
    <3>. QED BY <3>1, <3>2
  <2>. QED BY <1>1, <1>4, <1>6, <1>7, <2>1 DEF Decoded
<1>12. InOutput
  BY <1>1, <1>4, <1>7, <1>8 DEF InOutput
<1>. QED BY <1>9, <1>10, <1>11, <1>12 DEF UnpackInv

(* Two even numbers have an even sum.                                      *)
LEMMA EvenSum ==
  ASSUME NEW m \in Nat, NEW n \in Nat, m % 2 = 0, n % 2 = 0
  PROVE  (m + n) % 2 = 0
  OBVIOUS

(* One difference of halfwords.                                            *)
LEMMA Diff16HalfKeeps ==
  ASSUME UnpackInv, NEW v \in Half, Diff16Half(v),
         text' = AppendHalf(text, text[Len(text) - 1] + 256 * text[Len(text)] + v)
  PROVE  UnpackInv' /\ InOutput
<1>. DEFINE x  == val + v
            lo == x % 256
            hi == (x \div 256) % 256
            a  == dst + bytes_written
<1>1. /\ kind = "diff16" /\ bytes_written + 1 < decomp_size /\ val' = x % 65536
      /\ mem' = bus_write16(a, (x % 65536) % 256, (x % 65536) \div 256)
      /\ bytes_written' = bytes_written + 2
      /\ UNCHANGED <<kind, dst, decomp_size, have_low_byte, out_halfword, left, disp>>
  BY DEF Diff16Half, AtBlock, Unfinished
<1>2. v \in Nat /\ val \in Nat /\ x \in Nat /\ val = text[Len(text) - 1] + 256 * text[Len(text)]
  BY <1>1, Streams DEF UnpackInv, UnpackTypes, Source
<1>3. text' = AppendHalf(text, x)
  BY <1>2
<1>. HIDE DEF x
<1>4. mem' = bus_write16(a, lo, hi) /\ val' = lo + 256 * hi /\ lo \in Nat /\ hi \in Nat
  <2>1. /\ (x % 65536) % 256 = lo /\ (x % 65536) \div 256 = hi /\ x % 65536 = lo + 256 * hi
        /\ lo \in Nat /\ hi \in Nat
    BY <1>2, Wrapped
  <2>. HIDE DEF lo, hi
  <2>2. mem' = bus_write16(a, lo, hi)
    BY <1>1, <2>1
  <2>3. val' = lo + 256 * hi
    BY <1>1, <2>1
  <2>. QED BY <2>1, <2>2, <2>3
<1>5. /\ dst \in Dsts /\ decomp_size \in Sizes /\ dst \in Nat /\ decomp_size \in Nat
      /\ bytes_written \in Nat /\ dst + decomp_size <= Top /\ Top \in Nat /\ ~have_low_byte
      /\ bytes_written % 2 = 0 /\ dst % 2 = 0
      /\ Len(text) = a /\ mem \in Memory /\ text \in Seq(Nat)
  BY <1>1, Streams, UnpackAssumption DEF UnpackInv, UnpackTypes, Room, Held, Decoded, Halves
<1>6. a \in Nat /\ a % 2 = 0 /\ a < Top /\ dst <= a /\ a + 1 < dst + decomp_size
  <2>1. a \in Nat /\ a < Top /\ dst <= a /\ a + 1 < dst + decomp_size
    BY <1>1, <1>5
  <2>2. a % 2 = 0
    BY <1>5, EvenSum
  <2>. QED BY <2>1, <2>2
<1>7. \A i \in 1..Len(text) : text[i] = mem[i - 1]
  BY <1>5 DEF UnpackInv, Decoded
<1>8. Stored(a, lo, hi)
  <2>1. Len(text) % 2 = 0 /\ Len(text) < Top /\ mem' = bus_write16(Len(text), lo, hi)
    BY <1>4, <1>5, <1>6, Zenon
  <2>2. Stored(Len(text), lo, hi)
    BY <1>2, <1>3, <1>5, <1>7, <2>1, StoredHalf
  <2>. QED BY <1>5, <2>2, Zenon
<1>. HIDE DEF a, lo, hi
<1>9. /\ mem' \in Memory /\ text' \in Seq(Nat) /\ Len(text') = a + 2
      /\ \A i \in 1..Len(text') : text'[i] = mem'[i - 1]
      /\ text'[Len(text') - 1] = lo /\ text'[Len(text')] = hi
      /\ \A b \in 0..Top : mem'[b] # mem[b] => b = a \/ b = a + 1
  BY <1>8 DEF Stored
<1>10. UnpackTypes'
  <2>1. val' \in Nat /\ bytes_written' \in Nat
    BY <1>1, <1>4, <1>5
  <2>2. UNCHANGED <<kind, dst, decomp_size, have_low_byte, out_halfword, left, disp>>
    BY <1>1
  <2>. QED BY <1>9, <2>1, <2>2 DEF UnpackInv, UnpackTypes
<1>11. bytes_written' % 2 = 0 /\ bytes_written' <= decomp_size /\ a + 2 <= Top
  BY <1>1, <1>5, <1>6
<1>12. Room' /\ Held'
  BY <1>1, <1>5, <1>9, <1>11 DEF Room, Held, Halves
<1>13. Source'
  <2>1. val' = text'[Len(text') - 1] + 256 * text'[Len(text')]
    BY <1>4, <1>9, Zenon
  <2>. QED BY <1>1, <1>6, <1>9, <2>1 DEF Source
<1>14. Decoded'
  <2>1. Len(text') = dst' + bytes_written'
    BY <1>1, <1>5, <1>9 DEF a
  <2>. QED BY <1>1, <1>5, <1>9, <2>1 DEF Decoded
<1>15. InOutput
  <2>1. dst' = dst /\ decomp_size' = decomp_size
    BY <1>1
  <2>2. decomp_size % 2 \in Nat
    BY <1>5
  <2>3. ASSUME NEW b \in 0..Top, mem'[b] # mem[b]
        PROVE  dst <= b /\ b < dst + decomp_size + (decomp_size % 2)
    <3>1. b = a \/ b = a + 1
      BY <1>9, <2>3
    <3>. QED BY <1>5, <1>6, <2>2, <3>1
  <2>. QED BY <2>1, <2>3 DEF InOutput
<1>. QED BY <1>10, <1>12, <1>13, <1>14, <1>15 DEF UnpackInv

(* The call ends: an odd last byte is still to be stored.                  *)
LEMMA FinishKeeps ==
  ASSUME UnpackInv, Finish, UNCHANGED text
  PROVE  UnpackInv' /\ InOutput
<1>1. /\ kind # "idle" /\ kind' = "idle" /\ have_low_byte' = FALSE /\ left' = 0
      /\ UNCHANGED <<dst, decomp_size, bytes_written, out_halfword, disp, val>>
      /\ kind # "diff16" => ~(bytes_written < decomp_size)
  BY DEF Finish, Unfinished
<1>2. /\ dst \in Dsts /\ decomp_size \in Sizes /\ dst \in Nat /\ decomp_size \in Nat
      /\ bytes_written \in Nat /\ dst + decomp_size <= Top /\ Top \in Nat /\ dst % 2 = 0
      /\ Len(text) = dst + bytes_written /\ mem \in Memory /\ text \in Seq(Nat)
      /\ bytes_written <= decomp_size /\ out_halfword \in Nat
  BY <1>1, Streams, UnpackAssumption DEF UnpackInv, UnpackTypes, Room, Decoded
<1>3. CASE have_low_byte
  <2>. DEFINE a == dst + bytes_written - 1
  <2>1. bytes_written % 2 = 1 /\ bytes_written = decomp_size
    BY <1>1, <1>2, <1>3 DEF UnpackInv, Held, Halves
  <2>2. /\ a \in Nat /\ a % 2 = 0 /\ a < Top /\ a + 1 = Len(text) /\ dst <= a
        /\ a + 1 < dst + decomp_size + (decomp_size % 2)
    BY <1>2, <2>1
  <2>3. mem' = bus_write16(a, out_halfword, 0)
    BY <1>3 DEF Finish
  <2>. HIDE DEF a
  <2>4. Holds(mem', a, out_halfword, 0)
    BY <1>2, <2>2, <2>3, WroteHalf
  <2>5. mem' \in Memory
    BY <2>4 DEF Holds
  <2>6. UnpackTypes'
    BY <1>1, <1>2, <2>5 DEF UnpackInv, UnpackTypes
  <2>7. Room' /\ Held' /\ Source'
    BY <1>1, <1>2 DEF Room, Held, Source, Halves
  <2>8. ASSUME NEW i \in 1..Len(text)
        PROVE  text[i] = mem'[i - 1]
    <3>1. CASE i = Len(text)
      <4>1. text[i] = out_halfword
        BY <1>2, <1>3, <3>1 DEF UnpackInv, Decoded
      <4>. QED BY <1>2, <2>2, <2>4, <3>1, <4>1 DEF Holds
    <3>2. CASE i # Len(text)
      <4>1. text[i] = mem[i - 1]
        BY <3>2 DEF UnpackInv, Decoded
      <4>2. i - 1 \in 0..Top /\ i - 1 # a /\ i - 1 # a + 1
        BY <1>2, <2>2, <3>2
      <4>. QED BY <2>4, <4>1, <4>2 DEF Holds
    <3>. QED BY <3>1, <3>2
  <2>9. Decoded'
    BY <1>1, <1>2, <2>8 DEF Decoded
  <2>10. InOutput
    BY <1>1, <1>2, <2>2, <2>4 DEF InOutput, Holds
  <2>. QED BY <2>6, <2>7, <2>9, <2>10 DEF UnpackInv
<1>4. CASE ~have_low_byte
  <2>1. mem' = mem
    BY <1>4 DEF Finish
  <2>2. UnpackTypes'
    BY <1>1, <1>2, <2>1 DEF UnpackInv, UnpackTypes
  <2>3. Room' /\ Held' /\ Source'
    BY <1>1, <1>2 DEF Room, Held, Source, Halves
  <2>4. Decoded'
    BY <1>1, <1>2, <1>4, <2>1 DEF UnpackInv, Decoded
  <2>5. InOutput
    BY <2>1 DEF InOutput
  <2>. QED BY <2>2, <2>3, <2>4, <2>5 DEF UnpackInv
<1>. QED BY <1>3, <1>4

(* One round of any of the decoders.                                       *)
LEMMA DecodeKeeps ==
  ASSUME UnpackInv, Decode
  PROVE  UnpackInv' /\ InOutput
<1>0. left \in Nat /\ disp \in Nat /\ val \in Nat /\ Lengths \subseteq Nat /\ Displacements \subseteq Nat
  BY UnpackAssumption DEF UnpackInv, UnpackTypes
<1>1. ASSUME NEW v \in Byte, Literal(v), text' = Append(text, v)
      PROVE  UnpackInv' /\ InOutput
  BY <1>0, <1>1, Streams, EmitKeeps DEF Literal, AtBlock, Unfinished
<1>2. ASSUME NEW n \in Lengths, NEW k \in Displacements, Reference(n, k), UNCHANGED text
      PROVE  UnpackInv' /\ InOutput
  BY <1>0, <1>2, BlockKeeps DEF Reference, AtBlock
<1>3. ASSUME CopyByte, text' = Append(text, text[Len(text) + 1 - disp])
      PROVE  UnpackInv' /\ InOutput
  <2>1. InBlock("lz77") /\ Emit(ReadBack) /\ left' = left - 1 /\ UNCHANGED <<kind, dst, decomp_size, disp, val>>
    BY <1>3 DEF CopyByte
  <2>2. /\ kind \in {"lz77", "rl"} /\ bytes_written < decomp_size
        /\ left' \in Nat /\ left' <= left
    BY <1>0, <2>1 DEF InBlock, Unfinished
  <2>3. text' = Append(text, ReadBack) /\ ReadBack \in Nat
    BY <1>3, <2>1, ReadsBack
  <2>. HIDE DEF InBlock
  <2>. QED BY <2>1, <2>2, <2>3, EmitKeeps
<1>4. ASSUME NEW n \in Lengths, NEW v \in Byte, Run(n, v), UNCHANGED text
      PROVE  UnpackInv' /\ InOutput
  BY <1>0, <1>4, Streams, BlockKeeps DEF Run, AtBlock
<1>5. ASSUME NEW n \in Lengths, LiteralRun(n), UNCHANGED text
      PROVE  UnpackInv' /\ InOutput
  BY <1>0, <1>5, BlockKeeps DEF LiteralRun, AtBlock
<1>6. ASSUME NEW v \in Byte, RunByte(v), text' = Append(text, v)
      PROVE  UnpackInv' /\ InOutput
  <2>1. InBlock("rl") /\ Emit(v) /\ left' = left - 1 /\ UNCHANGED <<kind, dst, decomp_size, disp, val>>
    BY <1>6 DEF RunByte
  <2>2. /\ kind \in {"lz77", "rl"} /\ bytes_written < decomp_size
        /\ left' \in Nat /\ left' <= left /\ v \in Nat
    BY <1>0, <2>1, Streams DEF InBlock, Unfinished
  <2>. QED BY <1>6, <2>1, <2>2, EmitKeeps
<1>7. ASSUME NEW v \in Byte, DiffByte(v), text' = Append(text, (text[Len(text)] + v) % 256)
      PROVE  UnpackInv' /\ InOutput
  BY <1>7, DiffByteKeeps
<1>8. ASSUME NEW v \in Byte, Diff8Byte(v), text' = Append(text, (text[Len(text)] + v) % 256)
      PROVE  UnpackInv' /\ InOutput
  BY <1>8, Diff8ByteKeeps
<1>9. ASSUME NEW v \in Half, Diff16Half(v),
             text' = AppendHalf(text, text[Len(text) - 1] + 256 * text[Len(text)] + v)
      PROVE  UnpackInv' /\ InOutput
  BY <1>9, Diff16HalfKeeps
<1>10. ASSUME Finish, UNCHANGED text
       PROVE  UnpackInv' /\ InOutput
  BY <1>10, FinishKeeps
<1>. QED BY <1>1, <1>2, <1>3, <1>4, <1>5, <1>6, <1>7, <1>8, <1>9, <1>10, Zenon DEF Decode

(* Any step of the decompressors.                                          *)
LEMMA UnpackStep ==
  ASSUME UnpackInv, TNext
  PROVE  UnpackInv' /\ InOutput
<1>1. ASSUME NEW k \in {"lz77", "rl"}, NEW d \in Dsts, NEW n \in Sizes, Start(k, d, n), text' = Below(d)
      PROVE  UnpackInv' /\ InOutput
  BY <1>1, StartKeeps
<1>2. ASSUME NEW d \in Dsts, NEW n \in Sizes, NEW v \in Byte,
             StartDiff(d, n, v) \/ StartDiff8(d, n, v), text' = Append(Below(d), v)
      PROVE  UnpackInv' /\ InOutput
  BY <1>2, StartDiffKeeps, StartDiff8Keeps
<1>3. ASSUME NEW d \in Dsts, NEW n \in Sizes, NEW v \in Half, StartDiff16(d, n, v),
             text' = AppendHalf(Below(d), v)
      PROVE  UnpackInv' /\ InOutput
  BY <1>3, StartDiff16Keeps
<1>. QED BY <1>1, <1>2, <1>3, DecodeKeeps, Zenon DEF TNext

(* Any step of another task.                                               *)
LEMMA UnpackUnchanged ==
  ASSUME UnpackInv, UNCHANGED tvars
  PROVE  UnpackInv' /\ InOutput
<1>. USE DEF tvars
<1>1. UnpackTypes'
  BY DEF UnpackInv, UnpackTypes
<1>2. Room' /\ Held' /\ Source'
  BY DEF UnpackInv, Room, Held, Source
<1>3. Decoded' /\ InOutput
  BY DEF UnpackInv, Decoded, InOutput
<1>. QED BY <1>1, <1>2, <1>3 DEF UnpackInv

(* No call is under way at the start.                                      *)
LEMMA UnpackInitInv == CInit => UnpackInv
<1>. SUFFICES ASSUME Init, text = <<>> PROVE UnpackInv
  BY DEF CInit, TInit
<1>. USE DEF Init
<1>0. mem \in Memory /\ text \in Seq(Nat)
  BY DEF Memory
<1>1. UnpackTypes
  BY <1>0 DEF UnpackTypes, Halves
<1>2. Room /\ Held /\ Source /\ Decoded
  BY UnpackAssumption DEF Room, Held, Source, Decoded, Halves
<1>. QED BY <1>1, <1>2 DEF UnpackInv

(* The invariant of the decompressors holds always.                        *)
LEMMA UnpackInvariant == CSpec => []UnpackInv
<1>1. UnpackInv /\ [CNext]_cvars => UnpackInv'
  <2>. SUFFICES ASSUME UnpackInv, [CNext]_cvars PROVE UnpackInv'
    OBVIOUS
  <2>1. CASE TNext
    BY <2>1, UnpackStep
  <2>2. CASE UNCHANGED tvars
    BY <2>2, UnpackUnchanged
  <2>. QED BY <2>1, <2>2 DEF CNext, cvars, Bytes, OnBits
<1>. QED BY <1>1, UnpackInitInv, PTL DEF CSpec

(* LZ77, run length and the difference filters leave in memory the text    *)
(* their stream describes, for every stream, size and aligned destination. *)
THEOREM UnpackDecodes == CSpec => []Decoded
<1>1. UnpackInv => Decoded
  BY DEF UnpackInv
<1>. QED BY <1>1, UnpackInvariant, PTL

(* They touch nothing outside of their output but the byte that pads it,   *)
(* however far the blocks of the stream reach.                             *)
THEOREM UnpackStaysInOutput == CSpec => StaysInOutput
<1>1. UnpackInv /\ [CNext]_cvars =>
        [\A a \in 0..Top : mem'[a] # mem[a] =>
           dst' <= a /\ a < dst' + decomp_size' + (decomp_size' % 2)]_tvars
  <2>. SUFFICES ASSUME UnpackInv, [CNext]_cvars PROVE InOutput
    BY DEF InOutput
  <2>1. CASE TNext
    BY <2>1, UnpackStep
  <2>2. CASE UNCHANGED tvars
    BY <2>2, UnpackUnchanged
  <2>. QED BY <2>1, <2>2 DEF CNext, cvars, Bytes, OnBits
<1>. QED BY <1>1, UnpackInvariant, PTL DEF CSpec, StaysInOutput

-----------------------------------------------------------------------------
(*                      The putting together of a pixel                    *)

(* What may be painted, and the backdrop. *)
Elems == ({"bg"} \X (0..3)) \cup ({"obj"} \X (0..LastObj)) \cup {<<"bd", 0>>}
BD == <<"bd", 0>>

Mode == scene.mode
Count == Pixel!Items(Mode)

SceneOK(s) == /\ s.mode \in Nat /\ s.mode <= 6
              /\ s.prio \in [0..3 -> 0..MaxPrio] /\ s.obj_prio \in [0..LastObj -> 0..MaxPrio]

(* Every scene has a mode of at most 6 and priorities in range.            *)
LEMMA ScenesOK == \A s \in MCScenes : SceneOK(s)
<1>1. ASSUME NEW modes, NEW ons, NEW shows, NEW outs,
             \A m \in modes : m \in Nat /\ m <= 6,
             NEW s \in Arrangements(modes, ons, shows, outs)
      PROVE  SceneOK(s)
  BY <1>1 DEF Arrangements, SceneOK, Layers
<1>2. SceneOK(BlankScreen)
  BY ScreenAssumption DEF BlankScreen, SceneOK, Layers
<1>3. /\ \A m \in 0..2 : m \in Nat /\ m <= 6
      /\ \A m \in 1..2 : m \in Nat /\ m <= 6
      /\ \A m \in 3..6 : m \in Nat /\ m <= 6
  OBVIOUS
<1>4. \A s \in Arrangements(0..2, {0..4}, Any, {{}}) : SceneOK(s)
  BY <1>1, <1>3
<1>5. \A s \in Arrangements(1..2, {0..4}, All, {{2}}) : SceneOK(s)
  BY <1>1, <1>3
<1>6. \A s \in Arrangements(0..2, {{0, 2, 3, 4}, 1..3}, All, {{}}) : SceneOK(s)
  BY <1>1, <1>3
<1>7. \A s \in Arrangements(3..6, {0..4, {0, 4}}, All \cup {[b \in Layers |-> FALSE]}, {{}}) : SceneOK(s)
  BY <1>1, <1>3
<1>. QED BY <1>2, <1>4, <1>5, <1>6, <1>7, Zenon DEF MCScenes

(* Every shade is a colour component. *)
LEMMA ShadesFit == \A e \in Elems : MCShade[e] \in Int /\ 0 <= MCShade[e] /\ MCShade[e] <= 31
<1>. SUFFICES ASSUME NEW e \in Elems
              PROVE  MCShade[e] \in Int /\ 0 <= MCShade[e] /\ MCShade[e] <= 31
  OBVIOUS
<1>1. MCShade[e] = IF e[1] = "bg" THEN 9 * e[2] + 3
                   ELSE IF e[1] = "obj" THEN 31 - (e[2] % 32) ELSE 0
  BY DEF MCShade, Elems, Layers
<1>2. CASE e \in {"bg"} \X (0..3)
  BY <1>1, <1>2
<1>3. CASE e \in {"obj"} \X (0..LastObj)
  <2>1. e[1] = "obj" /\ e[2] \in Nat
    BY <1>3, ScreenAssumption
  <2>2. e[2] % 32 \in Nat /\ e[2] % 32 < 32
    BY <2>1
  <2>. QED BY <1>1, <2>1, <2>2
<1>4. CASE e = <<"bd", 0>>
  BY <1>1, <1>4
<1>. QED BY <1>2, <1>3, <1>4 DEF Elems

(* The items of a pass. *)
LEMMA ItemIs ==
  ASSUME SceneOK(scene), NEW i \in 1..Count
  PROVE  LET e == Pixel!Item(Mode, i)
             n == Pixel!Backgrounds(Mode)
         IN  /\ e \in Elems /\ e # BD
             /\ i <= n => e = <<"bg", Pixel!LastBg(Mode) + 1 - i>> /\ Mode <= 2
             /\ i > n => e = <<"obj", LastObj + 1 - (i - n)>>
             /\ Pixel!PrioOf(e) \in 0..MaxPrio
<1>. DEFINE n == Pixel!Backgrounds(Mode)
            l == Pixel!LastBg(Mode)
            e == Pixel!Item(Mode, i)
<1>1. n \in 0..4 /\ l \in 2..3 /\ n <= l + 1 /\ Mode \in Nat /\ (n > 0 => Mode <= 2)
  BY DEF Pixel!Backgrounds, Pixel!LastBg, SceneOK, Mode
<1>2. Count = n + LastObj + 1 /\ LastObj \in Nat /\ MaxPrio \in Nat /\ i \in Nat /\ 1 <= i /\ i <= Count
  BY <1>1, ScreenAssumption DEF Count, Pixel!Items
<1>3. e = IF i <= n THEN <<"bg", l + 1 - i>> ELSE <<"obj", LastObj + 1 - (i - n)>>
  BY DEF Pixel!Item
<1>. HIDE DEF e, n, l
<1>4. CASE i <= n
  <2>1. l + 1 - i \in 0..3
    BY <1>1, <1>2, <1>4
  <2>2. e = <<"bg", l + 1 - i>>
    BY <1>3, <1>4
  <2>3. Pixel!PrioOf(e) \in 0..MaxPrio
    BY <2>1, <2>2 DEF Pixel!PrioOf, SceneOK
  <2>4. e \in Elems /\ e # BD
    BY <2>1, <2>2 DEF Elems, BD
  <2>5. Mode <= 2 /\ ~(i > n)
    BY <1>1, <1>2, <1>4
  <2>. QED BY <2>2, <2>3, <2>4, <2>5 DEF e, n, l
<1>5. CASE i > n
  <2>1. LastObj + 1 - (i - n) \in 0..LastObj
    BY <1>1, <1>2, <1>5
  <2>2. e = <<"obj", LastObj + 1 - (i - n)>>
    BY <1>1, <1>2, <1>3, <1>5
  <2>3. Pixel!PrioOf(e) \in 0..MaxPrio
    BY <2>1, <2>2 DEF Pixel!PrioOf, SceneOK
  <2>4. e \in Elems /\ e # BD
    BY <2>1, <2>2 DEF Elems, BD
  <2>5. ~(i <= n)
    BY <1>1, <1>2, <1>5
  <2>. QED BY <2>2, <2>3, <2>4, <2>5 DEF e, n, l
<1>. QED BY <1>1, <1>2, <1>4, <1>5

(* What is painted later is in front of what was painted before it.        *)
LEMMA LaterIsBefore ==
  ASSUME SceneOK(scene), Mode <= 5, NEW i \in 1..Count, NEW j \in 1..Count,
         \/ Pixel!PrioOf(Pixel!Item(Mode, j)) > Pixel!PrioOf(Pixel!Item(Mode, i))
         \/ /\ Pixel!PrioOf(Pixel!Item(Mode, j)) = Pixel!PrioOf(Pixel!Item(Mode, i))
            /\ j < i
  PROVE  /\ Pixel!Before(Pixel!Item(Mode, i), Pixel!Item(Mode, j))
         /\ Pixel!Item(Mode, i) # Pixel!Item(Mode, j)
<1>. DEFINE n == Pixel!Backgrounds(Mode)
            l == Pixel!LastBg(Mode)
            e == Pixel!Item(Mode, i)
            d == Pixel!Item(Mode, j)
            pe == Pixel!PrioOf(e)
            pd == Pixel!PrioOf(d)
<1>1. /\ i <= n => e = <<"bg", l + 1 - i>> /\ Mode <= 2
      /\ i > n => e = <<"obj", LastObj + 1 - (i - n)>>
      /\ pe \in 0..MaxPrio
  BY ItemIs
<1>2. /\ j <= n => d = <<"bg", l + 1 - j>> /\ Mode <= 2
      /\ j > n => d = <<"obj", LastObj + 1 - (j - n)>>
      /\ pd \in 0..MaxPrio
  BY ItemIs
<1>3. pd > pe \/ (pd = pe /\ j < i)
  OBVIOUS
<1>4. /\ n \in Nat /\ l \in Nat /\ LastObj \in Nat /\ i \in Nat /\ j \in Nat /\ Mode \in Nat
      /\ pe \in Nat /\ pd \in Nat
  BY <1>1, <1>2, ScreenAssumption DEF Pixel!Backgrounds, Pixel!LastBg, Mode, SceneOK, Count, Pixel!Items
<1>5. Pixel!Before(e, d) <=>
        \/ d[1] = "bd" /\ e[1] # "bd"
        \/ /\ e[1] # "bd" /\ d[1] # "bd"
           /\ \/ Mode \in 3..5 /\ e[1] = "obj" /\ d[1] = "bg"
              \/ /\ ~(Mode \in 3..5 /\ e[1] # d[1])
                 /\ \/ pe < pd
                    \/ /\ pe = pd
                       /\ (e[1] = "obj" /\ d[1] = "bg") \/ (e[1] = d[1] /\ e[2] < d[2])
  BY DEF Pixel!Before, Mode
<1>6. e # d
  <2>1. CASE i = j
    BY <1>3, <1>4, <2>1
  <2>2. CASE i # j
    <3>. HIDE DEF e, d, n, l, pe, pd
    <3>. QED BY <1>1, <1>2, <1>4, <2>2
  <2>. QED BY <2>1, <2>2
<1>. HIDE DEF n, l, e, d, pe, pd
<1>7. CASE i <= n /\ j <= n
  <2>1. e[1] = "bg" /\ d[1] = "bg" /\ Mode <= 2 /\ e[2] = l + 1 - i /\ d[2] = l + 1 - j
    BY <1>1, <1>2, <1>7
  <2>. QED BY <1>3, <1>4, <1>5, <1>6, <2>1 DEF e, d
<1>8. CASE i <= n /\ j > n
  <2>1. e[1] = "bg" /\ d[1] = "obj" /\ Mode <= 2
    BY <1>1, <1>2, <1>8
  <2>2. ~(j < i)
    BY <1>4, <1>8
  <2>. QED BY <1>3, <1>4, <1>5, <1>6, <2>1, <2>2 DEF e, d
<1>9. CASE i > n /\ j <= n
  <2>1. e[1] = "obj" /\ d[1] = "bg" /\ Mode <= 2
    BY <1>1, <1>2, <1>9
  <2>. QED BY <1>3, <1>4, <1>5, <1>6, <2>1 DEF e, d
<1>10. CASE i > n /\ j > n
  <2>1. e[1] = "obj" /\ d[1] = "obj" /\ e[2] = LastObj + 1 - (i - n) /\ d[2] = LastObj + 1 - (j - n)
    BY <1>1, <1>2, <1>10
  <2>. QED BY <1>3, <1>4, <1>5, <1>6, <2>1 DEF e, d
<1>. QED BY <1>4, <1>7, <1>8, <1>9, <1>10

(* What has been painted: the backdrop, the bitmap of a mode that has one, *)
(* and the visible items of the passes so far.                             *)
Bitmap == Mode >= 3 /\ Mode <= 5 /\ Pixel!BitmapShows
Passed(e, p, k) ==
  \E j \in 1..Count : /\ e = Pixel!Item(Mode, j) /\ Pixel!Visible(e)
                      /\ Pixel!PrioOf(e) > p \/ (Pixel!PrioOf(e) = p /\ j < k)
Canvas(p, k) == {e \in Elems : \/ e = BD
                               \/ e = <<"bg", 2>> /\ Bitmap
                               \/ Mode <= 5 /\ Passed(e, p, k)}

(* The canvas when the first pass begins; from one pass to the next.       *)
LEMMA CanvasStart ==
  ASSUME SceneOK(scene)
  PROVE  Canvas(MaxPrio, 1) = IF Bitmap THEN {BD, <<"bg", 2>>} ELSE {BD}
<1>1. ASSUME NEW e PROVE ~Passed(e, MaxPrio, 1)
  <2>. SUFFICES ASSUME NEW j \in 1..Count, e = Pixel!Item(Mode, j),
                       Pixel!PrioOf(e) > MaxPrio \/ (Pixel!PrioOf(e) = MaxPrio /\ j < 1)
                PROVE  FALSE
    BY DEF Passed
  <2>1. Pixel!PrioOf(e) \in 0..MaxPrio
    BY ItemIs
  <2>2. j \in Nat /\ j >= 1
    BY ScreenAssumption DEF Count, Pixel!Items, Pixel!Backgrounds
  <2>. QED BY <2>1, <2>2, ScreenAssumption
<1>2. BD \in Elems /\ <<"bg", 2>> \in Elems
  BY DEF Elems, BD
<1>3. \A e : e \in Canvas(MaxPrio, 1) <=> e = BD \/ (e = <<"bg", 2>> /\ Bitmap)
  <2>1. ASSUME NEW e, e \in Canvas(MaxPrio, 1)
        PROVE  e = BD \/ (e = <<"bg", 2>> /\ Bitmap)
    BY <1>1, <2>1 DEF Canvas
  <2>2. BD \in Canvas(MaxPrio, 1)
    BY <1>2 DEF Canvas
  <2>3. Bitmap => <<"bg", 2>> \in Canvas(MaxPrio, 1)
    BY <1>2 DEF Canvas
  <2>. QED BY <2>1, <2>2, <2>3
<1>4. CASE Bitmap
  BY <1>3, <1>4
<1>5. CASE ~Bitmap
  BY <1>3, <1>5
<1>. QED BY <1>4, <1>5

(* The end of a pass is the beginning of the next.                         *)
LEMMA CanvasPass ==
  ASSUME SceneOK(scene), NEW p \in Nat, p > 0
  PROVE  Canvas(p, Count + 1) = Canvas(p - 1, 1)
<1>1. ASSUME NEW e PROVE Passed(e, p, Count + 1) <=> Passed(e, p - 1, 1)
  <2>1. ASSUME NEW j \in 1..Count, e = Pixel!Item(Mode, j)
        PROVE  \/ Pixel!PrioOf(e) > p
               \/ (Pixel!PrioOf(e) = p /\ j < Count + 1)
               <=>
               \/ Pixel!PrioOf(e) > p - 1
               \/ (Pixel!PrioOf(e) = p - 1 /\ j < 1)
    <3>1. Pixel!PrioOf(e) \in 0..MaxPrio
      BY <2>1, ItemIs
    <3>2. Pixel!PrioOf(e) \in Nat /\ Count \in Nat /\ j \in Nat /\ 1 <= j /\ j <= Count
      BY <3>1, ScreenAssumption DEF Count, Pixel!Items, Pixel!Backgrounds
    <3>. QED BY <3>2
  <2>. QED BY <2>1, Zenon DEF Passed
<1>. QED BY <1>1 DEF Canvas

(* One item of a pass: it is in front of all that is there. *)
LEMMA CanvasItem ==
  ASSUME SceneOK(scene), Mode <= 5, NEW p \in Nat, NEW k \in 1..Count
  PROVE  LET e == Pixel!Item(Mode, k)
             painted == Pixel!Visible(e) /\ Pixel!PrioOf(e) = p
         IN  /\ Canvas(p, k + 1) = IF painted THEN Canvas(p, k) \cup {e} ELSE Canvas(p, k)
             /\ painted => e \notin Canvas(p, k) /\ \A d \in Canvas(p, k) : Pixel!Before(e, d)
<1>. DEFINE e == Pixel!Item(Mode, k)
            painted == Pixel!Visible(e) /\ Pixel!PrioOf(e) = p
<1>1. e \in Elems /\ e # BD
  BY ItemIs, Zenon
<1>2. Count \in Nat /\ k \in Nat /\ Mode \in Nat
  <2>1. Mode \in Nat /\ Pixel!Backgrounds(Mode) \in Nat
    BY DEF SceneOK, Mode, Pixel!Backgrounds
  <2>2. Count \in Nat
    BY <2>1, ScreenAssumption DEF Count, Pixel!Items
  <2>. QED BY <2>1, <2>2
<1>3. ASSUME NEW d PROVE Passed(d, p, k + 1) <=> Passed(d, p, k) \/ (painted /\ d = e)
  <2>1. ASSUME NEW j \in 1..Count
        PROVE  j < k + 1 <=> j < k \/ j = k
    BY <1>2
  <2>. QED BY <2>1, Zenon DEF Passed
<1>4. ASSUME painted, NEW d, Passed(d, p, k)
      PROVE  Pixel!Before(e, d) /\ d # e
  <2>1. PICK j \in 1..Count :
               /\ d = Pixel!Item(Mode, j)
               /\ Pixel!PrioOf(d) > p \/ (Pixel!PrioOf(d) = p /\ j < k)
    BY <1>4 DEF Passed
  <2>. QED BY <1>4, <2>1, LaterIsBefore
<1>5. ASSUME Bitmap
      PROVE  Pixel!Before(e, <<"bg", 2>>) /\ e # <<"bg", 2>>
  <2>1. Pixel!Backgrounds(Mode) = 0 /\ Mode \in 3..5
    BY <1>2, <1>5 DEF Bitmap, Pixel!Backgrounds
  <2>2. e[1] = "obj"
    BY <1>2, <2>1, ItemIs
  <2>. QED BY <2>1, <2>2 DEF Pixel!Before, Mode
<1>6. Pixel!Before(e, BD)
  <2>1. e[1] # "bd"
    BY ItemIs, <1>2 DEF Pixel!Backgrounds
  <2>. QED BY <2>1 DEF Pixel!Before, BD
<1>. HIDE DEF e, painted
<1>7. Canvas(p, k + 1) = IF painted THEN Canvas(p, k) \cup {e} ELSE Canvas(p, k)
  BY <1>1, <1>3 DEF Canvas
<1>8. painted => e \notin Canvas(p, k) /\ \A d \in Canvas(p, k) : Pixel!Before(e, d)
  BY <1>1, <1>4, <1>5, <1>6 DEF Canvas
<1>. QED BY <1>7, <1>8, Zenon DEF e, painted

(* After the last pass, all that is present has been painted. *)
LEMMA CanvasFull ==
  ASSUME SceneOK(scene)
  PROVE  /\ Mode <= 5 => Canvas(0, Count + 1) = Pixel!Present
         /\ Mode > 5 => \A p, k : Canvas(p, k) = Pixel!Present
<1>. DEFINE n == Pixel!Backgrounds(Mode)
            l == Pixel!LastBg(Mode)
<1>1. n \in 0..4 /\ l \in 2..3 /\ n <= l + 1 /\ Mode \in Nat /\ Mode <= 6
  BY DEF Pixel!Backgrounds, Pixel!LastBg, SceneOK, Mode
<1>2. Count = n + LastObj + 1 /\ LastObj \in Nat /\ MaxPrio \in Nat /\ Count \in Nat
  BY <1>1, ScreenAssumption DEF Count, Pixel!Items
<1>3. ASSUME NEW e, Mode <= 5
      PROVE  Passed(e, 0, Count + 1) <=>
               \E j \in 1..Count : e = Pixel!Item(Mode, j) /\ Pixel!Visible(e)
  <2>1. ASSUME NEW j \in 1..Count, e = Pixel!Item(Mode, j)
        PROVE  Pixel!PrioOf(e) > 0 \/ (Pixel!PrioOf(e) = 0 /\ j < Count + 1)
    <3>1. Pixel!PrioOf(e) \in 0..MaxPrio
      BY <2>1, ItemIs
    <3>. QED BY <1>2, <3>1
  <2>. QED BY <2>1, Zenon DEF Passed
<1>4. ASSUME NEW i \in 0..LastObj, Mode <= 5
      PROVE  \E j \in 1..Count : <<"obj", i>> = Pixel!Item(Mode, j)
  <2>. DEFINE j == LastObj + 1 - i + n
  <2>1. j \in 1..Count /\ ~(j <= n) /\ LastObj + 1 - (j - n) = i
    BY <1>1, <1>2
  <2>2. <<"obj", i>> = Pixel!Item(Mode, j)
    <3>. HIDE DEF j
    <3>. QED BY <2>1 DEF Pixel!Item
  <2>. QED BY <2>1, <2>2
<1>5. ASSUME NEW b \in 0..3, Mode <= 2, Mode = 1 => b # 3, Mode = 2 => b \in {2, 3}
      PROVE  \E j \in 1..Count : <<"bg", b>> = Pixel!Item(Mode, j)
  <2>. DEFINE j == l + 1 - b
  <2>1. j \in 1..n /\ l + 1 - j = b
    BY <1>1, <1>5 DEF Pixel!Backgrounds, Pixel!LastBg
  <2>2. j \in 1..Count /\ j <= n
    BY <1>1, <1>2, <2>1
  <2>3. <<"bg", b>> = Pixel!Item(Mode, j)
    <3>. HIDE DEF j
    <3>. QED BY <2>1, <2>2 DEF Pixel!Item
  <2>. QED BY <2>2, <2>3
<1>6. ASSUME Mode <= 5
      PROVE  Canvas(0, Count + 1) = Pixel!Present
  <2>1. ASSUME NEW e \in Canvas(0, Count + 1)
        PROVE  e \in Pixel!Present
    <3>1. CASE e = BD
      BY <3>1 DEF BD, Pixel!Present
    <3>2. CASE e = <<"bg", 2>> /\ Bitmap
      BY <1>1, <3>2 DEF Bitmap, Mode, Pixel!Present, Pixel!BG
    <3>3. CASE Passed(e, 0, Count + 1)
      <4>1. PICK j \in 1..Count : e = Pixel!Item(Mode, j) /\ Pixel!Visible(e)
        BY <1>3, <1>6, <3>3
      <4>2. CASE j <= n
        <5>1. e = <<"bg", l + 1 - j>> /\ Mode <= 2
          BY <4>1, <4>2, ItemIs
        <5>2. /\ l + 1 - j \in 0..3 /\ (Mode = 1 => l + 1 - j # 3)
              /\ (Mode = 2 => l + 1 - j \in {2, 3}) /\ Mode \in 0..2
          BY <1>1, <1>2, <4>2, <5>1 DEF Pixel!Backgrounds, Pixel!LastBg
        <5>. HIDE DEF l, n
        <5>. QED BY <4>1, <5>1, <5>2 DEF Pixel!Present, Pixel!BG, Mode
      <4>3. CASE j > n
        <5>1. e = <<"obj", LastObj + 1 - (j - n)>>
          BY <4>1, <4>3, ItemIs
        <5>2. LastObj + 1 - (j - n) \in 0..LastObj /\ Mode \in 0..5
          BY <1>1, <1>2, <1>6, <4>3
        <5>. HIDE DEF l, n
        <5>. QED BY <4>1, <5>1, <5>2 DEF Pixel!Present, Mode
      <4>. QED BY <1>1, <1>2, <4>2, <4>3
    <3>. QED BY <3>1, <3>2, <3>3 DEF Canvas
  <2>2. ASSUME NEW e \in Pixel!Present
        PROVE  e \in Canvas(0, Count + 1)
    <3>1. CASE e = <<"bd", 0>>
      <4>1. BD \in Elems
        BY DEF BD, Elems
      <4>. QED BY <3>1, <4>1 DEF Canvas, BD
    <3>2. ASSUME NEW i \in 0..LastObj, Pixel!Visible(<<"obj", i>>), e = <<"obj", i>>
          PROVE  e \in Canvas(0, Count + 1)
      <4>1. Passed(e, 0, Count + 1)
        BY <1>3, <1>4, <1>6, <3>2
      <4>2. e \in Elems
        BY <3>2 DEF Elems
      <4>. QED BY <1>6, <4>1, <4>2 DEF Canvas
    <3>3. ASSUME NEW b \in 0..3, Mode \in 0..2, Pixel!Visible(<<"bg", b>>),
                 Mode = 1 => b # 3, Mode = 2 => b \in {2, 3}, e = <<"bg", b>>
          PROVE  e \in Canvas(0, Count + 1)
      <4>1. \E j \in 1..Count : e = Pixel!Item(Mode, j)
        BY <1>5, <3>3
      <4>2. Passed(e, 0, Count + 1)
        BY <1>3, <1>6, <3>3, <4>1
      <4>3. e \in Elems
        BY <3>3 DEF Elems
      <4>. QED BY <1>6, <4>2, <4>3 DEF Canvas
    <3>4. ASSUME Mode \in 3..5, Pixel!BitmapShows, e = <<"bg", 2>>
          PROVE  e \in Canvas(0, Count + 1)
      <4>1. <<"bg", 2>> \in Elems
        BY DEF Elems
      <4>2. Bitmap
        BY <3>4 DEF Bitmap
      <4>. QED BY <3>4, <4>1, <4>2 DEF Canvas
    <3>. QED BY <3>1, <3>2, <3>3, <3>4 DEF Pixel!Present, Mode, Pixel!BG
  <2>. QED BY <2>1, <2>2
<1>7. ASSUME Mode > 5, NEW p, NEW k
      PROVE  Canvas(p, k) = Pixel!Present
  <2>1. Mode = 6
    BY <1>1, <1>7
  <2>2. Pixel!Present = {<<"bd", 0>>}
    BY <2>1 DEF Pixel!Present, Mode
  <2>3. Canvas(p, k) = {BD}
    <3>1. BD \in Elems
      BY DEF BD, Elems
    <3>2. ~Bitmap /\ ~(Mode <= 5)
      BY <2>1 DEF Bitmap
    <3>. QED BY <3>1, <3>2 DEF Canvas
  <2>. QED BY <2>2, <2>3 DEF BD
<1>. QED BY <1>6, <1>7

(* What the two places hold of a canvas: its front, and what is next.      *)
FrontOf(S, t, u) ==
  /\ t.of \in S /\ t.shade = MCShade[t.of]
  /\ \A d \in S : d # t.of => Pixel!Before(t.of, d)
  /\ t.of # BD =>
       /\ u.of \in S /\ u.of # t.of /\ u.shade = MCShade[u.of]
       /\ \A d \in S : d # t.of /\ d # u.of => Pixel!Before(u.of, d)

Backdrop == [of |-> BD, shade |-> MCShade[BD]]

(* An element in front of the whole canvas pushes its front down.          *)
LEMMA Covered ==
  ASSUME NEW S, NEW t, NEW u, FrontOf(S, t, u),
         NEW e, e \notin S, e # BD, \A d \in S : Pixel!Before(e, d)
  PROVE  FrontOf(S \cup {e}, [of |-> e, shade |-> MCShade[e]], t)
<1>. DEFINE v == [of |-> e, shade |-> MCShade[e]]
<1>1. v.of = e /\ v.shade = MCShade[e]
  OBVIOUS
<1>. HIDE DEF v
<1>2. t.of \in S /\ t.shade = MCShade[t.of] /\ \A d \in S : d # t.of => Pixel!Before(t.of, d)
  BY DEF FrontOf
<1>3. FrontOf(S \cup {e}, v, t)
  BY <1>1, <1>2 DEF FrontOf
<1>. QED BY <1>3 DEF v

(* The backdrop alone is its own front.                                    *)
LEMMA BareFront == FrontOf({BD}, Backdrop, Backdrop)
<1>1. Backdrop.of = BD /\ Backdrop.shade = MCShade[BD]
  BY DEF Backdrop
<1>. QED BY <1>1 DEF FrontOf

(* A pixel in the making. *)
PlaceOK(t) == /\ t = [of |-> t.of, shade |-> t.shade] /\ t.of \in Elems
              /\ t.shade \in Int /\ 0 <= t.shade /\ t.shade <= 31

PaintTypes == /\ scene \in MCScenes
              /\ PlaceOK(top) /\ PlaceOK(second)
              /\ prio \in Nat /\ prio <= MaxPrio
              /\ item \in Nat /\ 1 <= item /\ item <= Count + 1
Bare    == pc = "start" => /\ top = Backdrop /\ second = Backdrop
                           /\ prio = MaxPrio /\ item = 1
Passes  == pc = "passes" => Mode <= 5
Front   == FrontOf(Canvas(prio, item), top, second)
Fronted == pc = "passes" \/ pc = "effect" => Front
Complete == pc = "effect" => Mode > 5 \/ (prio = 0 /\ item = Count + 1)
PixelInv == PaintTypes /\ Bare /\ Passes /\ Fronted /\ Complete

(* The backdrop fits its place.                                            *)
LEMMA BackdropOK == PlaceOK(Backdrop)
<1>1. BD \in Elems
  BY DEF BD, Elems
<1>2. Backdrop.of = BD /\ Backdrop.shade = MCShade[BD]
  BY DEF Backdrop
<1>3. Backdrop = [of |-> Backdrop.of, shade |-> Backdrop.shade]
  BY DEF Backdrop
<1>. QED BY <1>1, <1>2, <1>3, ShadesFit DEF PlaceOK

(* So does whatever is painted.                                            *)
LEMMA PaintedOK ==
  ASSUME NEW e \in Elems
  PROVE  PlaceOK([of |-> e, shade |-> MCShade[e]])
<1>. DEFINE v == [of |-> e, shade |-> MCShade[e]]
<1>1. v.of = e /\ v.shade = MCShade[e] /\ v = [of |-> v.of, shade |-> v.shade]
  OBVIOUS
<1>. HIDE DEF v
<1>2. PlaceOK(v)
  BY <1>1, ShadesFit DEF PlaceOK
<1>. QED BY <1>2 DEF v

(* The front of the next state, in terms of this one. *)
LEMMA FrontNext ==
  ASSUME scene' = scene, FrontOf(Canvas(prio', item'), top', second')
  PROVE  Front'
BY DEF Front, FrontOf, Canvas, Passed, Bitmap, Count, Mode, BD, Elems, Pixel!Item, Pixel!Items,
       Pixel!Backgrounds, Pixel!LastBg, Pixel!Visible, Pixel!PrioOf, Pixel!BitmapShows,
       Pixel!Before, Pixel!ObjectShows, Pixel!Affine, Pixel!AffineShows, Pixel!RegularShows, Pixel!OBJ

(* The types of the next state, for a step that keeps the scene.           *)
LEMMA PaintTypesNext ==
  ASSUME PixelInv, scene' = scene, PlaceOK(top'), PlaceOK(second'),
         prio' \in Nat, prio' <= MaxPrio, item' \in Nat, 1 <= item', item' <= Count + 1
  PROVE  PaintTypes' /\ Count' = Count /\ Mode' = Mode
<1>1. Count' = Count /\ Mode' = Mode
  BY DEF Count, Mode, Pixel!Items, Pixel!Backgrounds
<1>. QED BY <1>1 DEF PixelInv, PaintTypes, PlaceOK

(* What PixelInv says of the parts of the state.                           *)
LEMMA PixelFacts ==
  ASSUME PixelInv
  PROVE  /\ SceneOK(scene) /\ Mode \in Nat /\ Mode <= 6 /\ Count \in Nat /\ Count >= 1
         /\ MaxPrio \in Nat /\ prio \in Nat /\ prio <= MaxPrio
         /\ item \in Nat /\ 1 <= item /\ item <= Count + 1
         /\ PlaceOK(top) /\ PlaceOK(second)
<1>1. SceneOK(scene)
  BY ScenesOK DEF PixelInv, PaintTypes
<1>2. Mode \in Nat /\ Mode <= 6 /\ Pixel!Backgrounds(Mode) \in Nat
  BY <1>1 DEF SceneOK, Mode, Pixel!Backgrounds
<1>3. Count \in Nat /\ Count >= 1 /\ MaxPrio \in Nat
  BY <1>2, ScreenAssumption DEF Count, Pixel!Items
<1>. QED BY <1>1, <1>2, <1>3 DEF PixelInv, PaintTypes

(* The line is cleared and a bitmap is painted.                            *)
LEMMA StartPixel ==
  ASSUME PixelInv, Pixel!Start
  PROVE  PixelInv'
<1>1. /\ pc = "start" /\ scene' = scene /\ prio' = prio /\ item' = item
      /\ top = Backdrop /\ second = Backdrop /\ prio = MaxPrio /\ item = 1
  BY DEF Pixel!Start, PixelInv, Bare
<1>2. /\ SceneOK(scene) /\ Mode \in Nat /\ Mode <= 6 /\ Count \in Nat /\ Count >= 1
      /\ MaxPrio \in Nat
  BY PixelFacts
<1>3. ASSUME PlaceOK(top'), PlaceOK(second')
      PROVE  PaintTypes' /\ Count' = Count /\ Mode' = Mode
  BY <1>1, <1>2, <1>3, PaintTypesNext
<1>4. CASE scene.blank
  <2>1. top' = [top EXCEPT !.shade = 31] /\ pc' = "out" /\ second' = second
    BY <1>4 DEF Pixel!Start
  <2>2. PlaceOK(top') /\ PlaceOK(second')
    <3>1. top = [of |-> BD, shade |-> MCShade[BD]] /\ BD \in Elems
      BY <1>1 DEF Backdrop, BD, Elems
    <3>2. top' = [of |-> BD, shade |-> 31]
      BY <2>1, <3>1
    <3>3. top'.of = BD /\ top'.shade = 31 /\ top' = [of |-> top'.of, shade |-> top'.shade]
      BY <3>2
    <3>. QED BY <1>1, <2>1, <3>1, <3>3, BackdropOK DEF PlaceOK
  <2>. QED BY <1>3, <2>1, <2>2 DEF PixelInv, Bare, Passes, Fronted, Complete
<1>5. CASE ~scene.blank
  <2>1. pc' = IF Mode <= 5 THEN "passes" ELSE "effect"
    BY <1>2, <1>5 DEF Pixel!Start, Mode
  <2>2. PlaceOK(top') /\ PlaceOK(second') /\ FrontOf(Canvas(prio', item'), top', second')
    <3>1. Canvas(prio', item') = IF Bitmap THEN {BD, <<"bg", 2>>} ELSE {BD}
      BY <1>1, <1>2, CanvasStart
    <3>2. CASE Bitmap
      <4>1. top' = [of |-> <<"bg", 2>>, shade |-> MCShade[<<"bg", 2>>]] /\ second' = top
        <5>1. scene.mode \in 3..5 /\ Pixel!BitmapShows
          BY <1>2, <3>2 DEF Bitmap, Mode
        <5>. QED BY <1>5, <5>1, Zenon DEF Pixel!Start, Pixel!Paint
      <4>2. <<"bg", 2>> \in Elems /\ <<"bg", 2>> # BD /\ <<"bg", 2>> \notin {BD}
        BY DEF Elems, BD
      <4>3. \A d \in {BD} : Pixel!Before(<<"bg", 2>>, d)
        BY DEF Pixel!Before, BD
      <4>4. FrontOf({BD} \cup {<<"bg", 2>>}, top', second')
        BY <1>1, <4>1, <4>2, <4>3, BareFront, Covered
      <4>5. Canvas(prio', item') = {BD} \cup {<<"bg", 2>>}
        BY <3>1, <3>2
      <4>. QED BY <1>1, <4>1, <4>2, <4>4, <4>5, PaintedOK, BackdropOK
    <3>3. CASE ~Bitmap
      <4>1. top' = top /\ second' = second
        BY <1>2, <1>5, <3>3 DEF Pixel!Start, Bitmap, Mode
      <4>. QED BY <1>1, <3>1, <3>3, <4>1, BareFront, BackdropOK
    <3>. QED BY <3>2, <3>3
  <2>3. Front'
    BY <1>1, <2>2, FrontNext
  <2>4. PaintTypes' /\ Count' = Count /\ Mode' = Mode
    BY <1>3, <2>2
  <2>5. Bare'
    BY <2>1 DEF Bare
  <2>6. Passes' /\ Complete'
    BY <1>2, <2>1, <2>4 DEF Passes, Complete
  <2>. QED BY <2>3, <2>4, <2>5, <2>6 DEF PixelInv, Fronted
<1>. QED BY <1>4, <1>5

(* One item of a pass is looked at.                                        *)
LEMMA PaintItemPixel ==
  ASSUME PixelInv, Pixel!PaintItem
  PROVE  PixelInv'
<1>. DEFINE e == Pixel!Item(Mode, item)
            painted == Pixel!Visible(e) /\ Pixel!PrioOf(e) = prio
<1>1. /\ pc = "passes" /\ pc' = pc /\ scene' = scene /\ prio' = prio /\ item' = item + 1
      /\ item <= Count
  BY DEF Pixel!PaintItem, Count, Mode
<1>2. /\ SceneOK(scene) /\ Mode \in Nat /\ Count \in Nat /\ prio \in Nat /\ prio <= MaxPrio
      /\ item \in Nat /\ 1 <= item /\ PlaceOK(top) /\ PlaceOK(second)
  BY PixelFacts
<1>3. Mode <= 5 /\ FrontOf(Canvas(prio, item), top, second)
  BY <1>1 DEF PixelInv, Passes, Fronted, Front
<1>4. item \in 1..Count
  BY <1>1, <1>2
<1>5. IF painted THEN top' = [of |-> e, shade |-> MCShade[e]] /\ second' = top
      ELSE top' = top /\ second' = second
  BY DEF Pixel!PaintItem, Pixel!Paint, Mode
<1>6. /\ Canvas(prio, item + 1) = IF painted THEN Canvas(prio, item) \cup {e} ELSE Canvas(prio, item)
      /\ painted => e \notin Canvas(prio, item) /\ \A d \in Canvas(prio, item) : Pixel!Before(e, d)
  BY <1>2, <1>3, <1>4, CanvasItem, Zenon
<1>7. e \in Elems /\ e # BD
  BY <1>2, <1>4, ItemIs, Zenon
<1>. HIDE DEF e, painted
<1>8. PlaceOK(top') /\ PlaceOK(second') /\ FrontOf(Canvas(prio', item'), top', second')
  <2>1. CASE painted
    BY <1>1, <1>2, <1>3, <1>5, <1>6, <1>7, <2>1, Covered, PaintedOK
  <2>2. CASE ~painted
    BY <1>1, <1>2, <1>3, <1>5, <1>6, <2>2
  <2>. QED BY <2>1, <2>2
<1>9. Front'
  BY <1>1, <1>8, FrontNext
<1>10. PaintTypes' /\ Count' = Count /\ Mode' = Mode
  <2>1. item' \in Nat /\ 1 <= item' /\ item' <= Count + 1 /\ prio' \in Nat /\ prio' <= MaxPrio
    BY <1>1, <1>2
  <2>. QED BY <1>1, <1>8, <2>1, PaintTypesNext
<1>. QED BY <1>1, <1>3, <1>9, <1>10 DEF PixelInv, Fronted, Bare, Passes, Complete

(* The next priority begins, or the last has been painted.                 *)
LEMMA NextPassPixel ==
  ASSUME PixelInv, Pixel!NextPass
  PROVE  PixelInv'
<1>1. /\ pc = "passes" /\ scene' = scene /\ top' = top /\ second' = second /\ item > Count
      /\ IF prio > 0 THEN prio' = prio - 1 /\ item' = 1 /\ pc' = pc
         ELSE pc' = "effect" /\ prio' = prio /\ item' = item
  BY DEF Pixel!NextPass, Count, Mode
<1>2. /\ SceneOK(scene) /\ Mode \in Nat /\ Count \in Nat /\ Count >= 1
      /\ prio \in Nat /\ prio <= MaxPrio /\ MaxPrio \in Nat
      /\ item \in Nat /\ 1 <= item /\ item <= Count + 1 /\ PlaceOK(top) /\ PlaceOK(second)
  BY PixelFacts
<1>3. Mode <= 5 /\ FrontOf(Canvas(prio, item), top, second)
  BY <1>1 DEF PixelInv, Passes, Fronted, Front
<1>4. item = Count + 1
  BY <1>1, <1>2
<1>5. Canvas(prio', item') = Canvas(prio, item)
  <2>1. CASE prio > 0
    BY <1>1, <1>2, <1>4, <2>1, CanvasPass
  <2>2. CASE ~(prio > 0)
    BY <1>1, <2>2
  <2>. QED BY <2>1, <2>2
<1>6. Front'
  BY <1>1, <1>3, <1>5, FrontNext
<1>7. PaintTypes' /\ Count' = Count /\ Mode' = Mode
  <2>1. item' \in Nat /\ 1 <= item' /\ item' <= Count + 1 /\ prio' \in Nat /\ prio' <= MaxPrio
    BY <1>1, <1>2
  <2>. QED BY <1>1, <1>2, <2>1, PaintTypesNext
<1>8. Complete'
  <2>1. CASE prio > 0
    BY <1>1, <2>1 DEF Complete
  <2>2. CASE ~(prio > 0)
    <3>1. prio' = 0 /\ item' = Count' + 1
      BY <1>1, <1>2, <1>4, <1>7, <2>2
    <3>. QED BY <3>1 DEF Complete
  <2>. QED BY <2>1, <2>2
<1>9. Bare' /\ Passes'
  BY <1>1, <1>3, <1>7 DEF Bare, Passes
<1>. QED BY <1>6, <1>7, <1>8, <1>9 DEF PixelInv, Fronted

(* An effect stays within a colour component, whatever the coefficients.   *)
LEMMA Scaled ==
  ASSUME NEW a \in Nat, NEW c \in Nat, c <= 16
  PROVE  a * c \in Nat /\ a * c <= 16 * a
<1>1. a * c \in Nat /\ a * (16 - c) \in Nat
  OBVIOUS
<1>2. a * (16 - c) = 16 * a - a * c
  OBVIOUS
<1>. QED BY <1>1, <1>2

(* Each of the three effects gives a component again.                      *)
LEMMA EffectFits ==
  ASSUME NEW m, m.eva \in Nat, m.evb \in Nat, m.evy \in Nat,
         NEW a \in Nat, a <= 31, NEW b \in Nat, b <= 31
  PROVE  Pixel!Effect(m, a, b) \in Int /\ 0 <= Pixel!Effect(m, a, b) /\ Pixel!Effect(m, a, b) <= 31
<1>. DEFINE ca == Pixel!Coefficient(m.eva)
            cb == Pixel!Coefficient(m.evb)
            cy == Pixel!Coefficient(m.evy)
            sum == a * ca + b * cb
            up == (31 - a) * cy
            down == a * cy
<1>1. ca \in Nat /\ ca <= 16 /\ cb \in Nat /\ cb <= 16 /\ cy \in Nat /\ cy <= 16
  BY DEF Pixel!Coefficient
<1>. HIDE DEF ca, cb, cy
<1>2. a * ca \in Nat /\ b * cb \in Nat
  BY <1>1, Scaled
<1>3. sum \in Nat
  BY <1>2
<1>4. up \in Nat /\ up <= 16 * (31 - a)
  <2>1. 31 - a \in Nat
    OBVIOUS
  <2>. QED BY <1>1, <2>1, Scaled
<1>5. down \in Nat /\ down <= 16 * a
  BY <1>1, Scaled
<1>. HIDE DEF sum, up, down
<1>6. /\ sum \div 16 \in Int /\ 0 <= sum \div 16
      /\ up \div 16 \in Int /\ 0 <= up \div 16 /\ up \div 16 <= 31 - a
      /\ down \div 16 \in Int /\ 0 <= down \div 16 /\ down \div 16 <= a
  BY <1>3, <1>4, <1>5
<1>7. Pixel!Effect(m, a, b) =
        IF m.mode = 1 THEN IF sum \div 16 > 31 THEN 31 ELSE sum \div 16
        ELSE IF m.mode = 2 THEN a + up \div 16
        ELSE IF m.mode = 3 THEN a - down \div 16
        ELSE a
  BY DEF Pixel!Effect, ca, cb, cy, sum, up, down
<1>. DEFINE x == sum \div 16
            y == up \div 16
            z == down \div 16
            g == Pixel!Effect(m, a, b)
<1>8. /\ x \in Int /\ 0 <= x /\ y \in Int /\ 0 <= y /\ y <= 31 - a
      /\ z \in Int /\ 0 <= z /\ z <= a
      /\ g = IF m.mode = 1 THEN IF x > 31 THEN 31 ELSE x
             ELSE IF m.mode = 2 THEN a + y ELSE IF m.mode = 3 THEN a - z ELSE a
  BY <1>6, <1>7
<1>. HIDE DEF x, y, z, g
<1>9. g \in Int /\ 0 <= g /\ g <= 31
  BY <1>8
<1>. QED BY <1>9 DEF g

(* The special effect is applied.                                          *)
LEMMA ApplyBlendPixel ==
  ASSUME PixelInv, NEW m \in MCBlends, Pixel!ApplyBlend(m)
  PROVE  PixelInv'
<1>. DEFINE g == Pixel!Effect(m, top.shade, second.shade)
<1>1. /\ pc' = "out" /\ scene' = scene /\ prio' = prio /\ item' = item /\ second' = second
      /\ top' = IF Pixel!Selected(m) THEN [top EXCEPT !.shade = g] ELSE top
  BY DEF Pixel!ApplyBlend
<1>2. /\ prio \in Nat /\ prio <= MaxPrio
      /\ item \in Nat /\ 1 <= item /\ item <= Count + 1 /\ PlaceOK(top) /\ PlaceOK(second)
  BY PixelFacts
<1>3. m.eva \in Nat /\ m.evb \in Nat /\ m.evy \in Nat
  BY DEF MCBlends
<1>4. top.shade \in Nat /\ top.shade <= 31 /\ second.shade \in Nat /\ second.shade <= 31
  BY <1>2 DEF PlaceOK
<1>5. g \in Int /\ 0 <= g /\ g <= 31
  BY <1>3, <1>4, EffectFits
<1>. HIDE DEF g
<1>6. PlaceOK(top')
  <2>1. CASE Pixel!Selected(m)
    <3>1. top = [of |-> top.of, shade |-> top.shade] /\ top.of \in Elems
      BY <1>2 DEF PlaceOK
    <3>2. top' = [of |-> top.of, shade |-> g]
      BY <1>1, <2>1, <3>1
    <3>3. top'.of = top.of /\ top'.shade = g /\ top' = [of |-> top'.of, shade |-> top'.shade]
      BY <3>2
    <3>. QED BY <1>5, <3>1, <3>3 DEF PlaceOK
  <2>2. CASE ~Pixel!Selected(m)
    BY <1>1, <1>2, <2>2
  <2>. QED BY <2>1, <2>2
<1>7. PaintTypes'
  BY <1>1, <1>2, <1>6, PaintTypesNext
<1>. QED BY <1>1, <1>7 DEF PixelInv, Fronted, Bare, Passes, Complete

(* The next pixel begins.                                                  *)
LEMMA NextPixelPixel ==
  ASSUME PixelInv, Pixel!NextPixel
  PROVE  PixelInv'
<1>1. /\ pc' = "start" /\ prio' = MaxPrio /\ item' = 1 /\ scene' = scene
      /\ top' = Backdrop /\ second' = Backdrop
  BY DEF Pixel!NextPixel, Pixel!Backdrop, Backdrop, BD
<1>2. Count \in Nat /\ MaxPrio \in Nat
  BY PixelFacts
<1>3. PaintTypes'
  BY <1>1, <1>2, BackdropOK, PaintTypesNext
<1>4. Bare'
  BY <1>1 DEF Bare, Backdrop
<1>. QED BY <1>1, <1>3, <1>4 DEF PixelInv, Fronted, Passes, Complete

(* PixelInv holds always: other tasks leave the pixel alone. *)
LEMMA PixelInvariant == CSpec => []PixelInv
<1>1. CInit => PixelInv
  <2>. SUFFICES ASSUME CInit PROVE PixelInv
    OBVIOUS
  <2>1. /\ scene \in MCScenes /\ pc = "start" /\ prio = MaxPrio /\ item = 1
        /\ top = Backdrop /\ second = Backdrop
    BY DEF CInit, Pixel!Init, Pixel!Backdrop, Backdrop, BD
  <2>2. Mode \in Nat /\ Pixel!Backgrounds(Mode) \in Nat
    BY <2>1, ScenesOK DEF SceneOK, Mode, Pixel!Backgrounds
  <2>3. Count \in Nat /\ MaxPrio \in Nat
    BY <2>2, ScreenAssumption DEF Count, Pixel!Items
  <2>4. PaintTypes
    BY <2>1, <2>3, BackdropOK DEF PaintTypes
  <2>. QED BY <2>1, <2>4 DEF PixelInv, Bare, Passes, Fronted, Complete
<1>2. PixelInv /\ [CNext]_cvars => PixelInv'
  <2>. SUFFICES ASSUME PixelInv, [CNext]_cvars PROVE PixelInv'
    OBVIOUS
  <2>1. CASE Pixel!Next
    BY <2>1, StartPixel, PaintItemPixel, NextPassPixel, ApplyBlendPixel, NextPixelPixel DEF Pixel!Next
  <2>2. CASE UNCHANGED pixelvars
    <3>1. /\ scene' = scene /\ pc' = pc /\ prio' = prio /\ item' = item
          /\ top' = top /\ second' = second
      BY <2>2 DEF pixelvars
    <3>2. PaintTypes' /\ Count' = Count /\ Mode' = Mode
      BY <3>1, PixelFacts, PaintTypesNext
    <3>3. Front => Front'
      BY <3>1, FrontNext DEF Front
    <3>4. Bare' /\ Passes' /\ Complete'
      BY <3>1, <3>2 DEF PixelInv, Bare, Passes, Complete
    <3>. QED BY <3>1, <3>2, <3>3, <3>4 DEF PixelInv, Fronted
  <2>. QED BY <2>1, <2>2 DEF CNext, cvars, Bytes, OnBits
<1>. QED BY <1>1, <1>2, PTL DEF CSpec

(* Painting the priorities from the lowest to the highest, and within one  *)
(* the backgrounds and then the sprites, each from the last to the first,  *)
(* leaves the frontmost visible element on top and the next one behind it  *)
(* in the second place; and no effect leaves a component above 31          *)
(* (ppu_render_scanline, ppu_apply_blend_scanline).                        *)
THEOREM PixelPutTogether == CSpec => []PixelIsRight
<1>1. PixelInv => PixelIsRight
  <2>. SUFFICES ASSUME PixelInv PROVE PixelIsRight
    OBVIOUS
  <2>1. Pixel!ShadeFits
    BY PixelFacts DEF PlaceOK, Pixel!ShadeFits
  <2>2. ASSUME pc = "effect"
        PROVE  FrontOf(Pixel!Present, top, second)
    <3>1. Canvas(prio, item) = Pixel!Present
      BY <2>2, PixelFacts, CanvasFull DEF PixelInv, Complete
    <3>. QED BY <2>2, <3>1 DEF PixelInv, Fronted, Front
  <2>3. Pixel!FrontOnTop
    BY <2>2 DEF Pixel!FrontOnTop, FrontOf, BD
  <2>. QED BY <2>1, <2>3 DEF PixelIsRight
<1>. QED BY <1>1, PixelInvariant, PTL

-----------------------------------------------------------------------------
(*                       Square root and division                          *)

(* The root of n so far is r, and its next digit weighs s: v is what is    *)
(* left of n, b the square of s, and g is r moved up by it; roots have to  *)
(* be less than m.                                                         *)
Weighs(n, v, b, g, s, r, m) ==
  /\ n \in Nat /\ v \in Nat /\ s \in Nat /\ s > 0 /\ r \in Nat /\ m \in Nat
  /\ b = s * s /\ g = 2 * (r * s)
  /\ v + r * r = n /\ n < (r + 2 * s) * (r + 2 * s)
  /\ r + 2 * s <= m

IsRootOf(n, g) == n \in Nat /\ g \in Nat /\ g * g <= n /\ n < (g + 1) * (g + 1)

(* Nothing wraps around at the word's width. *)
Narrow(b, g, m) == /\ g + b \in Nat /\ g + b < m * m
                   /\ g \div 2 + b \in Nat /\ g \div 2 + b < m * m

(* The square of a sum. *)
LEMMA SquareOfSum ==
  ASSUME NEW a \in Nat, NEW c \in Nat
  PROVE  (a + c) * (a + c) = a * a + 2 * (a * c) + c * c
  OBVIOUS

(* A greater number has a greater square. *)
LEMMA SquaresGrow ==
  ASSUME NEW a \in Nat, NEW c \in Nat, a <= c
  PROVE  a * a <= c * c
<1>1. a * a <= a * c /\ a * c <= c * c
  OBVIOUS
<1>2. a * a \in Nat /\ a * c \in Nat /\ c * c \in Nat
  OBVIOUS
<1>. QED BY <1>1, <1>2

(* The sums of a round fit into a word. *)
LEMMA DigitNarrow ==
  ASSUME NEW n, NEW v, NEW b, NEW g, NEW s, NEW r, NEW m, Weighs(n, v, b, g, s, r, m)
  PROVE  Narrow(b, g, m)
<1>. DEFINE rs == r * s
            ss == s * s
            rr == r * r
            mm == m * m
            t  == 2 * s
<1>1. /\ s \in Nat /\ s > 0 /\ r \in Nat /\ m \in Nat /\ b = ss /\ g = 2 * rs /\ r + t <= m
  BY DEF Weighs
<1>2. rs \in Nat /\ ss \in Nat /\ ss > 0 /\ rr \in Nat /\ mm \in Nat /\ t \in Nat /\ r + t \in Nat
  BY <1>1
<1>3. (r + t) * (r + t) = rr + 2 * (r * t) + t * t
  BY <1>1, <1>2, SquareOfSum
<1>4. r * t = 2 * rs /\ t * t = 4 * ss
  BY <1>1
<1>5. (r + t) * (r + t) <= mm
  BY <1>1, <1>2, SquaresGrow
<1>. HIDE DEF rs, ss, rr, mm, t
<1>6. rr + 4 * rs + 4 * ss <= mm
  BY <1>2, <1>3, <1>4, <1>5
<1>7. g + b = 2 * rs + ss /\ g \div 2 + b = rs + ss
  BY <1>1, <1>2
<1>. QED BY <1>2, <1>6, <1>7 DEF Narrow, mm

(* A digit of weight 2h that is one, and one that is not.                  *)
LEMMA DigitIs ==
  ASSUME NEW n, NEW v, NEW b, NEW g, NEW h \in Nat, h > 0, NEW r, NEW m,
         Weighs(n, v, b, g, 2 * h, r, m)
  PROVE  /\ v >= g + b => Weighs(n, v - (g + b), b \div 4, g \div 2 + b, h, r + 2 * h, m)
         /\ v < g + b => Weighs(n, v, b \div 4, g \div 2, h, r, m)
<1>. DEFINE rh == r * h
            hh == h * h
            rr == r * r
            u  == r + 2 * h
<1>1. /\ n \in Nat /\ v \in Nat /\ r \in Nat /\ m \in Nat /\ v + rr = n
      /\ b = (2 * h) * (2 * h) /\ g = 2 * (r * (2 * h)) /\ r + 2 * (2 * h) <= m
      /\ n < (r + 2 * (2 * h)) * (r + 2 * (2 * h))
  BY DEF Weighs
<1>2. rh \in Nat /\ hh \in Nat /\ rr \in Nat /\ u \in Nat
  BY <1>1
<1>3. b = 4 * hh /\ g = 4 * rh
  BY <1>1
<1>4. b \div 4 = hh /\ g \div 2 = 2 * rh
  BY <1>2, <1>3
<1>5. u * u = rr + 4 * rh + 4 * hh
  BY <1>1
<1>6. u * h = rh + 2 * hh
  BY <1>1
<1>7. r + 2 * (2 * h) = u + 2 * h
  BY <1>1
<1>8. CASE v >= g + b
  <2>1. v - (g + b) \in Nat /\ v - (g + b) + u * u = n
    BY <1>1, <1>2, <1>3, <1>5, <1>8
  <2>2. g \div 2 + b = 2 * (u * h)
    BY <1>2, <1>3, <1>4, <1>6
  <2>3. n < (u + 2 * h) * (u + 2 * h) /\ u + 2 * h <= m
    BY <1>1, <1>7
  <2>4. ~(v < g + b)
    BY <1>1, <1>2, <1>3, <1>8
  <2>. QED BY <1>1, <1>2, <1>4, <2>1, <2>2, <2>3, <2>4 DEF Weighs
<1>9. CASE v < g + b
  <2>1. n < u * u
    BY <1>1, <1>2, <1>3, <1>5, <1>9
  <2>2. u <= m /\ ~(v >= g + b)
    BY <1>1, <1>2, <1>3, <1>9
  <2>. QED BY <1>1, <1>2, <1>4, <2>1, <2>2 DEF Weighs
<1>. QED BY <1>1, <1>2, <1>3, <1>8, <1>9

(* The last digit weighs one. *)
LEMMA LastDigitIs ==
  ASSUME NEW n, NEW v, NEW b, NEW g, NEW r, NEW m, Weighs(n, v, b, g, 1, r, m)
  PROVE  /\ b = 1
         /\ v >= g + b => IsRootOf(n, g \div 2 + b)
         /\ v < g + b => IsRootOf(n, g \div 2)
<1>. DEFINE rr == r * r
<1>1. /\ n \in Nat /\ v \in Nat /\ r \in Nat /\ v + rr = n /\ b = 1 /\ g = 2 * r
      /\ n < (r + 2) * (r + 2)
  BY DEF Weighs
<1>2. rr \in Nat /\ g \div 2 = r
  BY <1>1
<1>3. (r + 1) * (r + 1) = rr + 2 * r + 1
  BY <1>1
<1>4. ((r + 1) + 1) * ((r + 1) + 1) = (r + 2) * (r + 2)
  BY <1>1
<1>5. CASE v >= g + b
  <2>1. (r + 1) * (r + 1) <= n
    BY <1>1, <1>2, <1>3, <1>5
  <2>2. ~(v < g + b)
    BY <1>1, <1>5
  <2>. QED BY <1>1, <1>2, <1>4, <2>1, <2>2 DEF IsRootOf
<1>6. CASE v < g + b
  <2>1. n < (r + 1) * (r + 1) /\ rr <= n
    BY <1>1, <1>2, <1>3, <1>6
  <2>2. ~(v >= g + b)
    BY <1>1, <1>6
  <2>. QED BY <1>1, <1>2, <2>1, <2>2 DEF IsRootOf
<1>. QED BY <1>1, <1>5, <1>6

(* The weights of the digits. *)
Weight(k) == 2^k

(* The weights are the powers of two, and their squares the bits tried. *)
LEMMA WeightsAre ==
  /\ Pairs \in Nat \ {0} /\ Weight(0) = 1
  /\ \A k \in 1..Pairs : Weight(k) = 2 * Weight(k - 1)
  /\ \A k \in 0..Pairs : Weight(k) \in Nat \ {0}
  /\ Math!HighBit = Weight(Pairs - 1) * Weight(Pairs - 1)
  /\ Math!Word = Weight(Pairs) * Weight(Pairs)
<1>1. Pairs - 1 \in 0..Pairs /\ Pairs \in 0..Pairs
  BY MathAssumption
<1>. QED BY <1>1, MathAssumption DEF Weight, Math!HighBit, Math!Word

(* A number that fits is not wrapped. *)
LEMMA FitsWord ==
  ASSUME NEW w \in Nat, NEW x \in Nat, x < w
  PROVE  x % w = x
  OBVIOUS

(* Inside swi_sqrt: the digits found so far, or all of them.               *)
RootSoFar(k, r) == Weighs(r0, rest, bit, result, Weight(k), r, Weight(Pairs))
AllFound == bit = 0 /\ rest \in Nat /\ IsRootOf(r0, result)
Seeking == at = "seek" => AllFound \/ \E k \in 0..Pairs - 1 : RootSoFar(k, 0)
Finding == at = "root" => AllFound \/ \E k \in 0..Pairs - 1, r \in Nat : RootSoFar(k, r)
RootInv == Seeking /\ Finding /\ (at = "out" => IsRootOf(r0, result))

(* The call begins at the top bit. *)
LEMMA CallRoot ==
  ASSUME NEW v \in 0 .. 4^Pairs - 1, Math!Call(v)
  PROVE  RootInv'
<1>. DEFINE s == Weight(Pairs - 1)
            m == Weight(Pairs)
            t == 2 * s
<1>1. r0' = v /\ rest' = v /\ result' = 0 /\ bit' = Math!HighBit /\ at' = "seek"
  BY DEF Math!Call
<1>2. /\ s \in Nat \ {0} /\ m = t /\ m \in Nat /\ Pairs - 1 \in 0..Pairs - 1
      /\ Math!HighBit = s * s /\ Math!Word = m * m
  BY WeightsAre
<1>3. v \in Nat /\ v < m * m
  <2>1. 4^Pairs = Math!Word /\ m * m \in Nat
    BY <1>2 DEF Math!Word
  <2>. HIDE DEF m
  <2>. QED BY <1>2, <2>1
<1>. HIDE DEF s, m
<1>4. (0 + 2 * s) * (0 + 2 * s) = m * m /\ 0 + 2 * s <= m
  BY <1>2
<1>5. Weighs(v, v, s * s, 0, s, 0, m)
  BY <1>2, <1>3, <1>4 DEF Weighs
<1>6. RootSoFar(Pairs - 1, 0)'
  BY <1>1, <1>2, <1>5 DEF RootSoFar, s, m, Weight
<1>. QED BY <1>1, <1>2, <1>6 DEF RootInv, Seeking, Finding

(* Down to the highest digit that fits. *)
LEMMA SeekRoot ==
  ASSUME RootInv, Math!Seek
  PROVE  RootInv'
<1>1. at = "seek" /\ r0' = r0 /\ rest' = rest /\ result' = result
  BY DEF Math!Seek
<1>2. CASE bit > rest
  <2>1. bit' = bit \div 4 /\ at' = "seek"
    BY <1>1, <1>2 DEF Math!Seek
  <2>2. ~AllFound
    BY <1>2 DEF AllFound
  <2>3. PICK k \in 0..Pairs - 1 : RootSoFar(k, 0)
    BY <1>1, <2>2 DEF RootInv, Seeking
  <2>4. /\ rest \in Nat /\ r0 = rest /\ bit = Weight(k) * Weight(k) /\ result = 0
        /\ 2 * Weight(k) <= Weight(Pairs) /\ Weight(Pairs) \in Nat
    BY <2>3 DEF RootSoFar, Weighs
  <2>5. CASE k = 0
    <3>1. Weight(k) = 1
      BY <2>5, WeightsAre
    <3>2. bit = 1 /\ rest = 0
      BY <1>2, <2>4, <3>1
    <3>3. bit' = 0 /\ IsRootOf(r0, result)
      BY <2>1, <2>4, <3>2 DEF IsRootOf
    <3>4. AllFound'
      BY <1>1, <2>4, <3>3 DEF AllFound
    <3>. QED BY <2>1, <3>4 DEF RootInv, Seeking, Finding
  <2>6. CASE k # 0
    <3>. DEFINE h == Weight(k - 1)
                m == Weight(Pairs)
                hh == h * h
    <3>1. k \in 1..Pairs /\ k - 1 \in 0..Pairs - 1 /\ k - 1 \in 0..Pairs
      BY <2>6, WeightsAre
    <3>2. Weight(k) = 2 * h /\ h \in Nat \ {0}
      BY <3>1, WeightsAre
    <3>. HIDE DEF h, m
    <3>3. hh \in Nat /\ bit = 4 * hh
      BY <2>4, <3>2
    <3>. DEFINE t == 2 * h
    <3>4. t * t = 4 * hh
      BY <3>2
    <3>. HIDE DEF hh
    <3>5. bit' = hh
      BY <2>1, <3>3
    <3>6. r0 < (0 + 2 * h) * (0 + 2 * h) /\ 0 + 2 * h <= m /\ m \in Nat
      BY <1>2, <2>4, <3>2, <3>3, <3>4 DEF m
    <3>7. Weighs(r0, rest, hh, 0, h, 0, m)
      BY <2>4, <3>2, <3>6 DEF Weighs, hh
    <3>8. RootSoFar(k - 1, 0)'
      BY <1>1, <2>4, <3>5, <3>7 DEF RootSoFar, h, m, Weight
    <3>. QED BY <2>1, <3>1, <3>8 DEF RootInv, Seeking, Finding
  <2>. QED BY <2>5, <2>6
<1>3. CASE ~(bit > rest)
  <2>1. bit' = bit /\ at' = "root"
    BY <1>3 DEF Math!Seek
  <2>2. CASE AllFound
    <3>1. AllFound'
      BY <1>1, <2>1, <2>2 DEF AllFound
    <3>. QED BY <2>1, <3>1 DEF RootInv, Seeking, Finding
  <2>3. CASE ~AllFound
    <3>1. PICK k \in 0..Pairs - 1 : RootSoFar(k, 0)
      BY <1>1, <2>3 DEF RootInv, Seeking
    <3>2. RootSoFar(k, 0)'
      BY <1>1, <2>1, <3>1 DEF RootSoFar, Weight
    <3>. QED BY <2>1, <3>2 DEF RootInv, Seeking, Finding
  <2>. QED BY <2>2, <2>3
<1>. QED BY <1>2, <1>3

(* One digit. *)
LEMMA DigitRoot ==
  ASSUME RootInv, Math!Digit
  PROVE  RootInv'
<1>1. at = "root" /\ bit # 0 /\ bit' = bit \div 4 /\ r0' = r0 /\ at' = "root"
  BY DEF Math!Digit
<1>2. PICK k \in 0..Pairs - 1, r \in Nat : RootSoFar(k, r)
  BY <1>1 DEF RootInv, Finding, AllFound
<1>. DEFINE s == Weight(k)
            m == Weight(Pairs)
            w == Math!Word
            t == result + bit
            g == result \div 2 + bit
<1>3. Weighs(r0, rest, bit, result, s, r, m)
  BY <1>2 DEF RootSoFar
<1>4. Narrow(bit, result, m)
  BY <1>3, DigitNarrow
<1>5. w = m * m /\ m \in Nat \ {0}
  BY WeightsAre
<1>6. t \in Nat /\ g \in Nat /\ t % w = t /\ g % w = g
  <2>1. t \in Nat /\ g \in Nat /\ t < w /\ g < w /\ w \in Nat
    BY <1>4, <1>5 DEF Narrow
  <2>. HIDE DEF t, g, w
  <2>. QED BY <2>1, FitsWord
<1>7. IF rest >= t THEN rest' = rest - t /\ result' = g
      ELSE rest' = rest /\ result' = result \div 2
  BY <1>6 DEF Math!Digit
<1>8. rest \in Nat /\ r0 \in Nat
  BY <1>3 DEF Weighs
<1>9. CASE k = 0
  <2>1. s = 1
    BY <1>9, WeightsAre
  <2>2. /\ bit = 1
        /\ rest >= t => IsRootOf(r0, g)
        /\ rest < t => IsRootOf(r0, result \div 2)
    BY <1>3, <2>1, LastDigitIs
  <2>3. bit' = 0
    BY <1>1, <2>2
  <2>. HIDE DEF t, g
  <2>4. IsRootOf(r0', result') /\ rest' \in Nat
    BY <1>1, <1>6, <1>7, <1>8, <2>2
  <2>5. AllFound'
    BY <2>3, <2>4 DEF AllFound, IsRootOf
  <2>. QED BY <1>1, <2>5 DEF RootInv, Seeking, Finding
<1>10. CASE k # 0
  <2>. DEFINE h == Weight(k - 1)
  <2>1. k \in 1..Pairs /\ k - 1 \in 0..Pairs - 1 /\ k - 1 \in 0..Pairs
    BY <1>10, WeightsAre
  <2>2. s = 2 * h /\ h \in Nat /\ h > 0
    BY <2>1, WeightsAre
  <2>. HIDE DEF h, s, m
  <2>3. /\ rest >= t => Weighs(r0, rest - t, bit \div 4, g, h, r + 2 * h, m)
        /\ rest < t => Weighs(r0, rest, bit \div 4, result \div 2, h, r, m)
    BY <1>3, <2>2, DigitIs
  <2>. HIDE DEF t, g
  <2>4. PICK r1 \in Nat : Weighs(r0, rest', bit', result', h, r1, m)
    <3>1. r + 2 * h \in Nat
      BY <2>2
    <3>2. CASE rest >= t
      BY <1>1, <1>7, <2>3, <3>1, <3>2
    <3>3. CASE ~(rest >= t)
      BY <1>1, <1>6, <1>7, <1>8, <2>3, <3>3
    <3>. QED BY <3>2, <3>3
  <2>5. RootSoFar(k - 1, r1)'
    BY <1>1, <2>4 DEF RootSoFar, h, m, Weight
  <2>. QED BY <1>1, <2>1, <2>5 DEF RootInv, Seeking, Finding
<1>. QED BY <1>9, <1>10

(* The loop is left when every digit has been found. *)
LEMMA ReturnRoot ==
  ASSUME RootInv, Math!Return
  PROVE  RootInv'
<1>1. at = "root" /\ bit = 0 /\ at' = "out" /\ r0' = r0 /\ result' = result
  BY DEF Math!Return
<1>2. \A k, r : ~RootSoFar(k, r)
  <2>. SUFFICES ASSUME NEW k, NEW r, RootSoFar(k, r)
                PROVE  FALSE
    OBVIOUS
  <2>. DEFINE s == Weight(k)
  <2>1. s \in Nat /\ s > 0 /\ 0 = s * s
    BY <1>1 DEF RootSoFar, Weighs
  <2>. HIDE DEF s
  <2>. QED BY <2>1
<1>3. IsRootOf(r0, result)
  BY <1>1, <1>2 DEF RootInv, Finding, AllFound
<1>. QED BY <1>1, <1>3 DEF RootInv, Seeking, Finding

(* Nothing happens to the root. *)
LEMMA SameRoot ==
  ASSUME RootInv, UNCHANGED <<r0, rest, result, bit, at>>
  PROVE  RootInv'
<1>1. \A k, r : RootSoFar(k, r)' <=> RootSoFar(k, r)
  BY DEF RootSoFar, Weight
<1>2. AllFound' <=> AllFound
  BY DEF AllFound
<1>3. Seeking'
  BY <1>1, <1>2 DEF RootInv, Seeking
<1>4. Finding'
  BY <1>1, <1>2 DEF RootInv, Finding
<1>. QED BY <1>3, <1>4 DEF RootInv

(* Every step keeps the digits found right.                                *)
LEMMA RootStep ==
  ASSUME RootInv, [CNext]_cvars
  PROVE  RootInv'
<1>1. CASE UNCHANGED mathvars
  BY <1>1, SameRoot DEF mathvars
<1>2. CASE Math!Next
  <2>1. CASE \E v \in 0 .. 4^Pairs - 1 : asked = Math!NoCall /\ Math!Call(v)
    BY <2>1, CallRoot
  <2>2. CASE Math!Seek
    BY <2>2, SeekRoot
  <2>3. CASE Math!Digit
    BY <2>3, DigitRoot
  <2>4. CASE Math!Return
    BY <2>4, ReturnRoot
  <2>5. CASE Math!Leave
    BY <2>5 DEF Math!Leave, RootInv, Seeking, Finding
  <2>6. CASE UNCHANGED Math!sqrtvars
    BY <2>6, SameRoot DEF Math!sqrtvars
  <2>. QED BY <1>2, <2>1, <2>2, <2>3, <2>4, <2>5, <2>6
           DEF Math!Next, Math!Div, Math!DivArm, Math!DivDone
<1>. QED BY <1>1, <1>2 DEF CNext, cvars, Bytes, OnBits

-----------------------------------------------------------------------------
(* Division with remainder of natural numbers.                             *)
LEMMA NatDivision ==
  ASSUME NEW n \in Nat \ {0}, NEW a \in Nat
  PROVE  /\ a \div n \in Nat /\ a % n \in Nat /\ a % n < n
         /\ a = n * (a \div n) + (a % n)
  OBVIOUS

(* A quotient is no greater than the dividend.                             *)
LEMMA QuotientSmall ==
  ASSUME NEW c \in Nat \ {0}, NEW q \in Nat, NEW r \in Nat
  PROVE  /\ c * q + r \in Nat /\ q <= c * q + r
         /\ c > 1 /\ q > 0 => q < c * q + r
<1>1. c * q \in Nat /\ q <= c * q
  OBVIOUS
<1>2. c > 1 /\ q > 0 => q < c * q
  OBVIOUS
<1>. QED BY <1>1, <1>2

(* What the three results have to be, before they are made unsigned; h is  *)
(* half the span of a register.                                            *)
Divides(h, n, d, q, r) ==
  /\ q \in Int /\ r \in Int
  /\ q * d + r = n /\ Math!Abs(r) < Math!Abs(d) /\ (r # 0 => (r < 0) = (n < 0))
  /\ -h <= q /\ q < h /\ -h <= r /\ r < h

(* C's division, with the operands of both signs.                          *)
LEMMA QuotientIs ==
  ASSUME NEW h \in Nat \ {0}, NEW n \in Int, NEW d \in Int,
         -h <= n, n < h, -h <= d, d < h, d # 0, ~(n = -h /\ d = -1)
  PROVE  Divides(h, n, d, Math!Quot(n, d), Math!Rem(n, d))
<1>. DEFINE a == Math!Abs(n)
            c == Math!Abs(d)
            q == a \div c
            r == a % c
            p == c * q
<1>1. /\ a \in Nat /\ c \in Nat \ {0} /\ a <= h /\ c <= h
      /\ (n < 0 => n = -a) /\ (n >= 0 => n = a /\ a < h)
      /\ (d < 0 => d = -c) /\ (d > 0 => d = c)
  BY DEF Math!Abs
<1>2. q \in Nat /\ r \in Nat /\ r < c /\ a = p + r /\ p \in Int
  <2>. HIDE DEF a, c
  <2>. QED BY <1>1, NatDivision
<1>3. q <= a /\ (c > 1 /\ q > 0 => q < a)
  <2>. HIDE DEF a, c, q, r
  <2>. QED BY <1>1, <1>2, QuotientSmall DEF p
<1>4. /\ Math!Quot(n, d) = (IF (n < 0) = (d < 0) THEN q ELSE -q)
      /\ Math!Rem(n, d) = (IF n < 0 THEN -r ELSE r)
  BY DEF Math!Quot, Math!Rem
<1>5. q * c = p /\ q * (-c) = -p /\ (-q) * c = -p /\ (-q) * (-c) = p
  <2>. HIDE DEF a, c, q, r
  <2>. QED BY <1>1, <1>2 DEF p
<1>6. Math!Abs(r) = r /\ Math!Abs(-r) = r
  <2>. HIDE DEF r
  <2>. QED BY <1>2 DEF Math!Abs
<1>7. Math!Abs(d) = c
  OBVIOUS
<1>. HIDE DEF a, c, q, r, p
<1>8. CASE n < 0 /\ d < 0
  <2>1. Math!Quot(n, d) = q /\ Math!Rem(n, d) = -r /\ n = -a /\ d = -c
    BY <1>1, <1>4, <1>8
  <2>2. q * d + (-r) = n
    BY <1>1, <1>2, <1>5, <2>1
  <2>3. q < h
    BY <1>1, <1>2, <1>3, <2>1
  <2>. QED BY <1>1, <1>2, <1>6, <1>7, <1>8, <2>1, <2>2, <2>3 DEF Divides
<1>9. CASE n < 0 /\ d > 0
  <2>1. Math!Quot(n, d) = -q /\ Math!Rem(n, d) = -r /\ n = -a /\ d = c
    BY <1>1, <1>4, <1>9
  <2>2. (-q) * d + (-r) = n
    BY <1>1, <1>2, <1>5, <2>1
  <2>. QED BY <1>1, <1>2, <1>3, <1>6, <1>7, <1>9, <2>1, <2>2 DEF Divides
<1>10. CASE n >= 0 /\ d < 0
  <2>1. Math!Quot(n, d) = -q /\ Math!Rem(n, d) = r /\ n = a /\ d = -c /\ a < h
    BY <1>1, <1>4, <1>10
  <2>2. (-q) * d + r = n
    BY <1>1, <1>2, <1>5, <2>1
  <2>. QED BY <1>1, <1>2, <1>3, <1>6, <1>7, <1>10, <2>1, <2>2 DEF Divides
<1>11. CASE n >= 0 /\ d > 0
  <2>1. Math!Quot(n, d) = q /\ Math!Rem(n, d) = r /\ n = a /\ d = c /\ a < h
    BY <1>1, <1>4, <1>11
  <2>2. q * d + r = n
    BY <1>1, <1>2, <1>5, <2>1
  <2>. QED BY <1>1, <1>2, <1>3, <1>6, <1>7, <1>11, <2>1, <2>2 DEF Divides
<1>. QED BY <1>8, <1>9, <1>10, <1>11

(* A register and the signed number it holds.                              *)
LEMMA TwosComplement ==
  ASSUME NEW h \in Nat \ {0}, Math!Span = 2 * h
  PROVE  /\ \A x \in Int : -h <= x /\ x < h => Math!Signed(Math!Unsigned(x)) = x
         /\ \A x \in Int : 0 <= x /\ x < 2 * h => Math!Unsigned(x) = x
         /\ \A x \in 0..Math!Span - 1 : Math!Signed(x) \in Int /\ -h <= Math!Signed(x) /\ Math!Signed(x) < h
<1>1. Math!Span \div 2 = h
  OBVIOUS
<1>2. \A x \in Int : 0 <= x /\ x < 2 * h => x % (2 * h) = x
  OBVIOUS
<1>3. \A x \in Int : -h <= x /\ x < 0 => x % (2 * h) = x + 2 * h
  OBVIOUS
<1>4. \A x \in Int : 0 <= x /\ x < 2 * h => Math!Unsigned(x) = x
  BY <1>2 DEF Math!Unsigned
<1>5. \A x \in Int : -h <= x /\ x < 0 => Math!Unsigned(x) = x + 2 * h
  BY <1>3 DEF Math!Unsigned
<1>6. ASSUME NEW x \in Int, -h <= x, x < h
      PROVE  Math!Signed(Math!Unsigned(x)) = x
  <2>1. CASE x < 0
    BY <1>1, <1>5, <1>6, <2>1 DEF Math!Signed
  <2>2. CASE x >= 0
    BY <1>1, <1>4, <1>6, <2>2 DEF Math!Signed
  <2>. QED BY <2>1, <2>2
<1>7. ASSUME NEW x \in 0..Math!Span - 1
      PROVE  Math!Signed(x) \in Int /\ -h <= Math!Signed(x) /\ Math!Signed(x) < h
  BY <1>1, <1>7 DEF Math!Signed
<1>. QED BY <1>4, <1>6, <1>7

(* A division puts the right numbers into the registers.                   *)
LEMMA DivideQuotient ==
  ASSUME NEW x \in 0..Math!Span - 1, NEW y \in 0..Math!Span - 1,
         Math!Divide(Math!Signed(x), Math!Signed(y))
  PROVE  Math!IsQuotient'
<1>. DEFINE h == 2^(DivBits - 1)
            n == Math!Signed(x)
            d == Math!Signed(y)
            q == Math!Quot(n, d)
            r == Math!Rem(n, d)
<1>1. h \in Nat \ {0} /\ Math!Span = 2 * h
  BY MathAssumption DEF Math!Span
<1>. HIDE DEF h
<1>2. Math!Span \div 2 = h
  BY <1>1
<1>3. n \in Int /\ d \in Int /\ -h <= n /\ n < h /\ -h <= d /\ d < h
  BY <1>1, TwosComplement
<1>4. Math!Divide(n, d)
  OBVIOUS
<1>. HIDE DEF n, d
<1>5. CASE asked' = Math!Trapped \/ d = 0 \/ Math!Undefined(n, d)
  <2>1. asked' = Math!Trapped \/ asked' = <<n, d>>
    BY <1>4 DEF Math!Divide
  <2>2. asked' = <<n, d>> => asked'[1] = n /\ asked'[2] = d
    OBVIOUS
  <2>. QED BY <1>5, <2>1, <2>2 DEF Math!IsQuotient, Math!Undefined
<1>6. CASE asked' # Math!Trapped /\ d # 0 /\ ~Math!Undefined(n, d)
  <2>1. Divides(h, n, d, q, r)
    BY <1>1, <1>2, <1>3, <1>6, QuotientIs DEF Math!Undefined
  <2>2. /\ asked' = <<n, d>>
        /\ regs' = [i \in {0, 1, 3} |-> Math!Unsigned(IF i = 0 THEN q ELSE IF i = 1 THEN r
                                                       ELSE Math!Abs(q))]
    BY <1>4, <1>6 DEF Math!Divide, Math!swi_div
  <2>3. /\ regs'[0] = Math!Unsigned(q) /\ regs'[1] = Math!Unsigned(r)
        /\ regs'[3] = Math!Unsigned(Math!Abs(q))
    <3>. HIDE DEF q, r
    <3>. QED BY <2>2
  <2>. HIDE DEF q, r
  <2>4. q \in Int /\ r \in Int /\ -h <= q /\ q < h /\ -h <= r /\ r < h
    BY <2>1 DEF Divides
  <2>5. Math!Abs(q) \in Int /\ 0 <= Math!Abs(q) /\ Math!Abs(q) < 2 * h
    BY <1>1, <2>4 DEF Math!Abs
  <2>6. Math!Signed(regs'[0]) = q /\ Math!Signed(regs'[1]) = r /\ regs'[3] = Math!Abs(q)
    BY <1>1, <2>3, <2>4, <2>5, TwosComplement
  <2>7. asked'[1] = n /\ asked'[2] = d
    BY <2>2
  <2>. QED BY <2>1, <2>6, <2>7 DEF Math!IsQuotient, Divides
<1>. QED BY <1>5, <1>6

(* Every step keeps the answer of a division right.                        *)
LEMMA QuotientStep ==
  ASSUME Math!IsQuotient, [CNext]_cvars
  PROVE  Math!IsQuotient'
<1>1. CASE UNCHANGED <<regs, asked>>
  BY <1>1 DEF Math!IsQuotient
<1>2. CASE Math!Next /\ ~UNCHANGED <<regs, asked>>
  <2>1. CASE \E a, b \in 0..Math!Span - 1 : Math!Div(a, b) \/ Math!DivArm(a, b)
    BY <2>1, DivideQuotient DEF Math!Div, Math!DivArm
  <2>2. CASE Math!DivDone
    BY <2>2 DEF Math!DivDone, Math!IsQuotient
  <2>. QED BY <1>2, <2>1, <2>2 DEF Math!Next
<1>. QED BY <1>1, <1>2 DEF CNext, cvars, mathvars, Bytes, OnBits

(* Sqrt returns the integer square root of every register, by the digits   *)
(* it has found (RootInv) and without wrapping around; Div and DivArm      *)
(* return quotient, remainder and size of every two registers, the one     *)
(* division that C leaves undefined excepted.  This is the arithmetic part *)
(* of CallsCompute, for registers of any width.                            *)
THEOREM MathIsExact == CSpec => [](Math!IsRoot /\ Math!IsQuotient)
<1>1. CInit => RootInv /\ Math!IsQuotient
  BY DEF CInit, Math!Init, RootInv, Seeking, Finding, Math!IsQuotient
<1>2. RootInv /\ Math!IsQuotient /\ [CNext]_cvars => RootInv' /\ Math!IsQuotient'
  BY RootStep, QuotientStep
<1>3. RootInv => Math!IsRoot
  BY DEF RootInv, IsRootOf, Math!IsRoot
<1>. QED BY <1>1, <1>2, <1>3, PTL DEF CSpec

-----------------------------------------------------------------------------
(*                          Huffman and BitUnPack                          *)

(* A set of numbers has a least one. *)
LEMMA SmallestNat ==
  ASSUME NEW T, T \subseteq Nat, T # {}
  PROVE  \E x \in T : \A y \in T : x <= y
<1>. DEFINE R == {ss \in Nat \X Nat : ss[1] < ss[2]}
<1>1. R = OpToRel(<, Nat)
  BY DEF OpToRel
<1>2. IsWellFoundedOn(R, Nat)
  BY <1>1, NatLessThanWellFounded
<1>3. \A x, y \in Nat : <<y, x>> \in R <=> y < x
  OBVIOUS
<1>. HIDE DEF R
<1>4. PICK x \in T : \A y \in T : ~ (<<y, x>> \in R)
  BY <1>2, WFMin
<1>5. ASSUME NEW y \in T PROVE x <= y
  <2>1. x \in Nat /\ y \in Nat /\ ~ (<<y, x>> \in R)
    BY <1>4
  <2>2. ~(y < x)
    BY <1>3, <2>1
  <2>. QED BY <2>1, <2>2
<1>. QED BY <1>5

(* Quotient and remainder, ...                                             *)
LEMMA Divided ==
  ASSUME NEW n \in Nat, n > 0, NEW a \in Nat
  PROVE  /\ a \div n \in Nat /\ a % n \in Nat /\ a % n < n
         /\ a = n * (a \div n) + (a % n)
  OBVIOUS

(* ... and that there are no others.                                       *)
LEMMA OnlyQuotient ==
  ASSUME NEW n \in Nat, n > 0, NEW a \in Nat, NEW q \in Nat, NEW r \in Nat, r < n, a = n * q + r
  PROVE  a % n = r /\ a \div n = q
<1>. DEFINE p == a \div n
            s == a % n
<1>1. p \in Nat /\ s \in Nat /\ s < n /\ a = n * p + s
  BY Divided
<1>. HIDE DEF p, s
<1>2. ASSUME p < q PROVE FALSE
  <2>1. n * (p + 1) <= n * q
    BY <1>1, <1>2
  <2>. QED BY <1>1, <2>1
<1>3. ASSUME q < p PROVE FALSE
  <2>1. n * (q + 1) <= n * p
    BY <1>1, <1>3
  <2>. QED BY <1>1, <2>1
<1>4. p = q
  BY <1>1, <1>2, <1>3
<1>. QED BY <1>1, <1>4 DEF p, s

(* Counting up the quotient and the remainder.                             *)
LEMMA CountedUp ==
  ASSUME NEW n \in Nat, n > 0, NEW a \in Nat
  PROVE  IF (a % n) + 1 = n THEN (a + 1) % n = 0 /\ (a + 1) \div n = (a \div n) + 1
         ELSE (a + 1) % n = (a % n) + 1 /\ (a + 1) \div n = a \div n
<1>. DEFINE q == a \div n
            r == a % n
<1>1. q \in Nat /\ r \in Nat /\ r < n /\ a = n * q + r
  BY Divided
<1>. HIDE DEF q, r
<1>2. CASE r + 1 = n
  <2>1. n * (q + 1) = n * q + n
    BY <1>1
  <2>2. a + 1 = n * (q + 1) + 0
    BY <1>1, <1>2, <2>1
  <2>3. (a + 1) % n = 0 /\ (a + 1) \div n = q + 1
    BY <1>1, <2>2, OnlyQuotient
  <2>. QED BY <1>2, <2>3 DEF q, r
<1>3. CASE r + 1 # n
  <2>1. a + 1 = n * q + (r + 1) /\ r + 1 < n
    BY <1>1, <1>3
  <2>2. (a + 1) % n = r + 1 /\ (a + 1) \div n = q
    BY <1>1, <2>1, OnlyQuotient
  <2>. QED BY <1>3, <2>2 DEF q, r
<1>. QED BY <1>2, <1>3

(* An earlier number has a smaller quotient, or a smaller remainder.       *)
LEMMA EarlierDivided ==
  ASSUME NEW n \in Nat, n > 0, NEW a \in Nat, NEW i \in Nat, i < a
  PROVE  i \div n < a \div n \/ (i \div n = a \div n /\ i % n < a % n)
<1>. DEFINE q == a \div n
            r == a % n
            p == i \div n
            s == i % n
<1>1. q \in Nat /\ r \in Nat /\ r < n /\ a = n * q + r
  BY Divided
<1>2. p \in Nat /\ s \in Nat /\ s < n /\ i = n * p + s
  BY Divided
<1>. HIDE DEF q, r, p, s
<1>3. ASSUME p > q PROVE FALSE
  <2>1. n * (q + 1) <= n * p /\ n * (q + 1) = n * q + n
    BY <1>1, <1>2, <1>3
  <2>. QED BY <1>1, <1>2, <2>1
<1>4. CASE p = q
  BY <1>1, <1>2, <1>4 DEF q, r, p, s
<1>5. CASE p < q
  BY <1>5 DEF q, p
<1>. QED BY <1>1, <1>2, <1>3, <1>4, <1>5

(* The powers of two, up to the width of a word.                           *)
LEMMA Powers ==
  /\ WordBits \in Nat /\ WordBits > 0
  /\ \A i \in 0 .. WordBits : 2^i \in Nat /\ 2^i > 0
  /\ \A i, j \in 0 .. WordBits : 2^(i + j) = 2^i * 2^j
  BY BitsAssumption

(* A field of the low bits of a word stays when higher bits are set, ...   *)
LEMMA FieldKept ==
  ASSUME NEW o \in Nat, NEW x \in Nat, NEW e \in Nat, NEW d \in Nat, NEW b \in Nat,
         e + d <= b, b <= WordBits
  PROVE  ((o + x * 2^b) \div 2^e) % 2^d = (o \div 2^e) % 2^d
<1>. DEFINE E == 2^e
            D == 2^d
            F == 2^(b - (e + d))
            q == o \div E
            r == o % E
            s == q \div D
            v == q % D
<1>1. /\ e \in 0 .. WordBits /\ d \in 0 .. WordBits /\ b - (e + d) \in 0 .. WordBits
      /\ d + (b - (e + d)) \in 0 .. WordBits
      /\ b = e + (d + (b - (e + d)))
  BY Powers
<1>2. 2^b = E * (D * F)
  <2>1. 2^(d + (b - (e + d))) = D * F
    BY <1>1, Powers
  <2>2. 2^(e + (d + (b - (e + d)))) = E * 2^(d + (b - (e + d)))
    BY <1>1, Powers
  <2>. QED BY <1>1, <2>1, <2>2
<1>3. E \in Nat /\ E > 0 /\ D \in Nat /\ D > 0 /\ F \in Nat
  BY <1>1, Powers
<1>. HIDE DEF E, D, F
<1>4. q \in Nat /\ r \in Nat /\ r < E /\ o = E * q + r
  BY <1>3, Divided
<1>. HIDE DEF q, r
<1>5. s \in Nat /\ v \in Nat /\ v < D /\ q = D * s + v
  BY <1>3, <1>4, Divided
<1>. HIDE DEF s, v
<1>6. x * (E * (D * F)) = E * (D * (x * F)) /\ x * F \in Nat
  BY <1>3
<1>. DEFINE y == x * F
            z == D * y
<1>7. y \in Nat /\ z \in Nat /\ o + x * 2^b = o + E * z
  BY <1>2, <1>3, <1>6
<1>8. z = D * y
  OBVIOUS
<1>. HIDE DEF y, z
<1>9. E * (q + z) = E * q + E * z
  BY <1>3, <1>4, <1>7
<1>10. (o + x * 2^b) \div E = q + z
  <2>1. o + E * z = E * (q + z) + r /\ q + z \in Nat /\ E * z \in Nat
    BY <1>3, <1>4, <1>7, <1>9
  <2>. QED BY <1>3, <1>4, <1>7, <2>1, OnlyQuotient
<1>11. (q + z) % D = v
  <2>1. D * (s + y) = D * s + D * y
    BY <1>3, <1>5, <1>7
  <2>2. q + z = D * (s + y) + v /\ s + y \in Nat
    BY <1>3, <1>5, <1>7, <1>8, <2>1
  <2>3. q + z \in Nat /\ D \in Nat /\ D > 0 /\ v \in Nat /\ v < D
    BY <1>3, <1>4, <1>5, <1>7
  <2>. QED BY <2>2, <2>3, OnlyQuotient
<1>. QED BY <1>10, <1>11 DEF E, D, q, v

(* ... and a value set above the low bits reads back.                      *)
LEMMA FieldSet ==
  ASSUME NEW b \in 0 .. WordBits, NEW d \in 0 .. WordBits, b + d <= WordBits,
         NEW o \in Nat, o < 2^b, NEW x \in Nat, x < 2^d
  PROVE  /\ ((o + x * 2^b) \div 2^b) % 2^d = x
         /\ o + x * 2^b \in Nat /\ o + x * 2^b < 2^(b + d)
<1>. DEFINE B == 2^b
            D == 2^d
<1>1. B \in Nat /\ B > 0 /\ D \in Nat /\ D > 0 /\ 2^(b + d) = B * D
  BY Powers
<1>. HIDE DEF B, D
<1>2. o < B /\ x < D
  BY DEF B, D
<1>3. x * B = B * x /\ B * x \in Nat
  BY <1>1
<1>4. (o + x * B) \div B = x
  <2>1. o + x * B = B * x + o /\ o + x * B \in Nat
    BY <1>3
  <2>. QED BY <1>1, <1>2, <2>1, OnlyQuotient
<1>5. x % D = x
  <2>1. x = D * 0 + x
    BY <1>1
  <2>. QED BY <1>1, <1>2, <2>1, OnlyQuotient
<1>6. o + x * B < B * D
  <2>1. B * (x + 1) <= B * D
    BY <1>1, <1>2
  <2>2. B * (x + 1) = B * x + B /\ B * D \in Nat
    BY <1>1
  <2>. QED BY <1>1, <1>2, <1>3, <2>1, <2>2
<1>. QED BY <1>1, <1>3, <1>4, <1>5, <1>6 DEF B, D

(* The values of width d in the words w and the bits o that come after.    *)
OutputOf(w, o, i, d) == (Append(w, o)[1 + (i * d) \div WordBits] \div 2^((i * d) % WordBits)) % 2^d

(* A width that divides a word, and the number of values in a word.        *)
Dividing(d) == d \in Nat /\ d > 0 /\ WordBits % d = 0
PerWord(d) == WordBits \div d

(* n of them have been put out.                                            *)
Gathered(w, o, b, d, n) ==
  /\ n \in Nat /\ w \in Seq(Nat) /\ o \in Nat /\ o < 2^b
  /\ Len(w) = n \div PerWord(d) /\ b = (n % PerWord(d)) * d

(* A word holds a whole number of values.                                  *)
LEMMA WordOf ==
  ASSUME NEW d, Dividing(d)
  PROVE  /\ d \in Nat /\ d > 0 /\ PerWord(d) \in Nat /\ PerWord(d) > 0
         /\ WordBits = d * PerWord(d) /\ d <= WordBits
<1>. DEFINE m == WordBits \div d
<1>1. d \in Nat /\ d > 0 /\ WordBits % d = 0
  BY DEF Dividing
<1>2. m \in Nat /\ WordBits = d * m + (WordBits % d)
  BY <1>1, Powers, Divided
<1>. HIDE DEF m
<1>3. WordBits = d * m
  BY <1>1, <1>2
<1>4. m > 0
  <2>1. m = 0 => d * m = 0
    BY <1>1
  <2>. QED BY <1>2, <1>3, <2>1, Powers
<1>5. d * 1 <= d * m
  BY <1>1, <1>2, <1>4
<1>. QED BY <1>1, <1>2, <1>3, <1>4, <1>5 DEF m, PerWord

(* In which word the i-th value is, and where.                             *)
LEMMA OutputAt ==
  ASSUME NEW d, Dividing(d), NEW i \in Nat, NEW w, NEW o
  PROVE  /\ (i % PerWord(d)) * d \in Nat /\ (i % PerWord(d)) * d + d <= WordBits
         /\ OutputOf(w, o, i, d) =
              (Append(w, o)[1 + i \div PerWord(d)] \div 2^((i % PerWord(d)) * d)) % 2^d
<1>. DEFINE m == PerWord(d)
            q == i \div m
            r == i % m
            rd == r * d
            dq == d * q
<1>1. d \in Nat /\ d > 0 /\ m \in Nat /\ m > 0 /\ WordBits = d * m /\ WordBits > 0 /\ WordBits \in Nat
  BY WordOf, Powers
<1>. HIDE DEF m
<1>2. q \in Nat /\ r \in Nat /\ r < m /\ i = m * q + r
  BY <1>1, Divided
<1>. HIDE DEF q, r
<1>3. rd \in Nat /\ rd + d <= WordBits
  <2>1. d * (r + 1) <= d * m
    BY <1>1, <1>2
  <2>2. d * (r + 1) = r * d + d
    BY <1>1, <1>2
  <2>. QED BY <1>1, <1>2, <2>1, <2>2
<1>4. i * d = WordBits * q + rd /\ i * d \in Nat
  <2>1. (m * q + r) * d = (d * m) * q + r * d
    BY <1>1, <1>2
  <2>2. i * d = (m * q + r) * d /\ WordBits * q = (d * m) * q
    BY <1>1, <1>2, Zenon
  <2>. QED BY <1>1, <1>2, <2>1, <2>2
<1>. HIDE DEF rd
<1>5. (i * d) % WordBits = rd /\ (i * d) \div WordBits = q
  BY <1>1, <1>2, <1>3, <1>4, OnlyQuotient
<1>6. OutputOf(w, o, i, d) = (Append(w, o)[1 + q] \div 2^rd) % 2^d
  BY <1>5, Zenon DEF OutputOf
<1>7. rd \in Nat /\ rd + d <= WordBits
  BY <1>3
<1>. QED BY <1>6, <1>7 DEF m, q, r, rd

(* A value goes above the bits that are there; a full word is stored.      *)
Emits(w, o, b, d, x, w2, o2, b2) ==
  IF b + d >= WordBits
  THEN w2 = Append(w, o + x * 2^b) /\ o2 = 0 /\ b2 = 0
  ELSE w2 = w /\ o2 = o + x * 2^b /\ b2 = b + d

SameValues(w, o, w2, o2, d, n) ==
  \A i \in Nat : i < n => OutputOf(w2, o2, i, d) = OutputOf(w, o, i, d)

(* With it there is one value more and the others stay what they are.      *)
LEMMA Gathers ==
  ASSUME NEW d, NEW n, NEW w, NEW o, NEW b, NEW x, NEW w2, NEW o2, NEW b2,
         Dividing(d), Gathered(w, o, b, d, n), x \in Nat, x < 2^d,
         Emits(w, o, b, d, x, w2, o2, b2)
  PROVE  /\ Gathered(w2, o2, b2, d, n + 1)
         /\ OutputOf(w2, o2, n, d) = x
         /\ SameValues(w, o, w2, o2, d, n)
<1>. DEFINE m == PerWord(d)
            q == n \div m
            r == n % m
            y == o + x * 2^b
<1>1. d \in Nat /\ d > 0 /\ m \in Nat /\ m > 0 /\ WordBits = d * m /\ WordBits \in Nat /\ WordBits > 0
  BY WordOf, Powers
<1>2. n \in Nat /\ w \in Seq(Nat) /\ o \in Nat /\ o < 2^b /\ Len(w) = q /\ b = r * d
  BY DEF Gathered
<1>3. b \in Nat /\ b + d <= WordBits
  BY <1>2, OutputAt
<1>. HIDE DEF m
<1>4. q \in Nat /\ r \in Nat /\ r < m
  BY <1>1, <1>2, Divided
<1>5. b \in 0 .. WordBits /\ d \in 0 .. WordBits /\ b + d <= WordBits
  BY <1>1, <1>3
<1>6. (y \div 2^b) % 2^d = x /\ y \in Nat /\ y < 2^(b + d)
  <2>1. b \in 0 .. WordBits /\ d \in 0 .. WordBits /\ b + d <= WordBits
    BY <1>5
  <2>2. o \in Nat /\ o < 2^b
    BY <1>2
  <2>3. x \in Nat /\ x < 2^d
    OBVIOUS
  <2>. HIDE DEF y
  <2>4. (o + x * 2^b) \in Nat /\ o + x * 2^b < 2^(b + d)
    BY <2>1, <2>2, <2>3, FieldSet
  <2>5. ((o + x * 2^b) \div 2^b) % 2^d = x
    BY <2>1, <2>2, <2>3, FieldSet
  <2>. QED BY <2>4, <2>5 DEF y
<1>7. \A e \in Nat : e + d <= b => (y \div 2^e) % 2^d = (o \div 2^e) % 2^d
  <2>. SUFFICES ASSUME NEW e \in Nat, e + d <= b PROVE (y \div 2^e) % 2^d = (o \div 2^e) % 2^d
    OBVIOUS
  <2>1. b <= WordBits /\ x \in Nat
    BY <1>5
  <2>. QED BY <1>1, <1>2, <1>3, <2>1, FieldKept
<1>. HIDE DEF y
<1>8. b + d = d * (r + 1) /\ d * (r + 1) \in Nat
  BY <1>1, <1>2, <1>4
<1>9. r + 1 = m => b + d = WordBits
  BY <1>1, <1>8
<1>10. r + 1 # m => b + d < WordBits
  <2>1. r + 1 # m => d * (r + 2) <= d * m
    BY <1>1, <1>4
  <2>2. d * (r + 2) = d * (r + 1) + d
    BY <1>1, <1>4
  <2>. QED BY <1>1, <1>8, <2>1, <2>2
(* The word that the value goes into is next, stored or not. *)
<1>11. /\ Gathered(w2, o2, b2, d, n + 1)
       /\ Append(w2, o2)[1 + q] = y
       /\ \A j \in 1 .. q : Append(w2, o2)[j] = w[j]
  <2>1. CASE r + 1 = m
    <3>1. w2 = Append(w, y) /\ o2 = 0 /\ b2 = 0
      BY <1>3, <1>9, <2>1 DEF Emits, y
    <3>2. (n + 1) % m = 0 /\ (n + 1) \div m = q + 1
      BY <1>1, <1>2, <2>1, CountedUp
    <3>3. w2 \in Seq(Nat) /\ Len(w2) = q + 1 /\ w2[1 + q] = y /\ \A j \in 1 .. q : w2[j] = w[j]
      BY <1>2, <1>4, <1>6, <3>1
    <3>4. 0 < 2^0 /\ 0 * d = 0
      BY <1>1, Powers
    <3>5. Append(w2, o2)[1 + q] = w2[1 + q] /\ \A j \in 1 .. q : Append(w2, o2)[j] = w2[j]
      BY <1>4, <3>1, <3>3
    <3>6. Gathered(w2, o2, b2, d, n + 1)
      BY <1>2, <3>1, <3>2, <3>3, <3>4 DEF Gathered, m
    <3>. QED BY <3>3, <3>5, <3>6
  <2>2. CASE r + 1 # m
    <3>1. w2 = w /\ o2 = y /\ b2 = b + d
      BY <1>1, <1>3, <1>10, <2>2 DEF Emits, y
    <3>2. (n + 1) % m = r + 1 /\ (n + 1) \div m = q
      BY <1>1, <1>2, <2>2, CountedUp
    <3>3. b2 = (r + 1) * d
      BY <1>1, <1>4, <1>8, <3>1
    <3>4. Gathered(w2, o2, b2, d, n + 1)
      BY <1>2, <1>6, <3>1, <3>2, <3>3 DEF Gathered, m
    <3>5. Append(w, y)[1 + q] = y /\ \A j \in 1 .. q : Append(w, y)[j] = w[j]
      BY <1>2, <1>4
    <3>. QED BY <3>1, <3>4, <3>5
  <2>. QED BY <2>1, <2>2
<1>12. OutputOf(w2, o2, n, d) = (Append(w2, o2)[1 + q] \div 2^b) % 2^d
  BY <1>2, OutputAt DEF m
<1>13. ASSUME NEW i \in Nat, i < n
       PROVE  OutputOf(w2, o2, i, d) = OutputOf(w, o, i, d)
  <2>. DEFINE p == i \div m
              e == (i % m) * d
  <2>1. /\ OutputOf(w2, o2, i, d) = (Append(w2, o2)[1 + p] \div 2^e) % 2^d
        /\ OutputOf(w, o, i, d) = (Append(w, o)[1 + p] \div 2^e) % 2^d
        /\ e \in Nat
    BY OutputAt DEF m
  <2>2. p \in Nat /\ i % m \in Nat
    BY <1>1, Divided
  <2>3. p < q \/ (p = q /\ i % m < r)
    BY <1>1, <1>2, <1>13, EarlierDivided
  <2>4. CASE p < q
    <3>1. 1 + p \in 1 .. q
      BY <1>4, <2>2, <2>4
    <3>2. Append(w, o)[1 + p] = w[1 + p]
      BY <1>2, <3>1
    <3>. QED BY <1>11, <2>1, <3>1, <3>2, Zenon
  <2>5. CASE p = q /\ i % m < r
    <3>1. Append(w, o)[1 + q] = o
      BY <1>2, <1>4
    <3>2. d * ((i % m) + 1) <= d * r
      BY <1>1, <1>4, <2>2, <2>5
    <3>3. e + d <= b
      BY <1>1, <1>2, <1>4, <2>2, <3>2
    <3>4. (y \div 2^e) % 2^d = (o \div 2^e) % 2^d
      BY <1>7, <2>1, <3>3
    <3>. QED BY <1>11, <2>1, <2>5, <3>1, <3>4, Zenon
  <2>. QED BY <2>3, <2>4, <2>5
<1>. QED BY <1>6, <1>11, <1>12, <1>13 DEF SameValues

(* Storing the last word early leaves the values where they are.           *)
LEMMA StoredEarly ==
  ASSUME NEW d, NEW n, NEW w, NEW o, NEW b, Dividing(d), Gathered(w, o, b, d, n),
         NEW i \in Nat, i < n
  PROVE  OutputOf(Append(w, o), 0, i, d) = OutputOf(w, o, i, d)
<1>. DEFINE m == PerWord(d)
            p == i \div m
            q == n \div m
<1>1. m \in Nat /\ m > 0
  BY WordOf
<1>2. n \in Nat /\ w \in Seq(Nat) /\ o \in Nat /\ Len(w) = q
  BY DEF Gathered
<1>. HIDE DEF m
<1>3. p \in Nat /\ q \in Nat /\ p <= q
  BY <1>1, <1>2, Divided, EarlierDivided
<1>. HIDE DEF p, q
<1>4. Append(Append(w, o), 0)[1 + p] = Append(w, o)[1 + p]
  BY <1>2, <1>3
<1>5. /\ OutputOf(Append(w, o), 0, i, d) =
           (Append(Append(w, o), 0)[1 + p] \div 2^((i % m) * d)) % 2^d
      /\ OutputOf(w, o, i, d) = (Append(w, o)[1 + p] \div 2^((i % m) * d)) % 2^d
  BY OutputAt DEF m, p
<1>. QED BY <1>4, <1>5, Zenon

-----------------------------------------------------------------------------
(* BitUnPack: the i-th value of the bytes s, and how many have been read.  *)
Per(j) == ByteBits \div j.src_width
PackedOf(j, s, i) == (s[1 + i \div Per(j)] \div 2^((i % Per(j)) * j.src_width)) % 2^j.src_width
UnpackedOf(j, s, i) ==
  (PackedOf(j, s, i) + (IF PackedOf(j, s, i) = 0 /\ ~j.add_to_zero THEN 0 ELSE j.offset))
    % 2^j.dest_width
DoneOf(j, s, p) == IF s = <<>> THEN 0 ELSE (Len(s) - 1) * Per(j) + p \div j.src_width

(* The description of the data, and the position in a byte.                *)
Described(j) == /\ Dividing(j.dest_width) /\ j.offset \in Nat /\ j.len \in Nat
                /\ j.src_width \in Nat /\ j.src_width > 0 /\ ByteBits % j.src_width = 0
Positioned(j, s, p) == /\ s \in Seq(Nat) /\ (s = <<>> => p = ByteBits)
                       /\ \E k \in 0 .. Per(j) : p = k * j.src_width

(* The values of the bytes read have been put out; at the end the rest of  *)
(* the last word is stored.                                                *)
Reading == /\ Gathered(written, out_word, out_bits, job.dest_width, DoneOf(job, stream, bit_pos))
           /\ stream # <<>> => src_byte = stream[Len(stream)]
Flushed == out_bits = 0 /\ out_word = 0 /\ bit_pos = ByteBits /\ data_word = job.len

AllUnpacked(j, s, p, w, o) ==
  \A i \in 0 .. DoneOf(j, s, p) - 1 : OutputOf(w, o, i, j.dest_width) = UnpackedOf(j, s, i)

BitsInv == job.kind = "bits" => /\ Described(job) /\ Positioned(job, stream, bit_pos)
                                /\ Reading \/ Flushed
                                /\ AllUnpacked(job, stream, bit_pos, written, out_word)
IdleInv == job = Bits!Idle => /\ written = <<>> /\ stream = <<>>
                              /\ out_word = 0 /\ out_bits = 0

(* Together the values say what the property says.                         *)
LEMMA AllUnpackedIs ==
  ASSUME job.kind = "bits" => AllUnpacked(job, stream, bit_pos, written, out_word)
  PROVE  Bits!BitsUnpacked
  BY DEF Bits!BitsUnpacked, Bits!Output, AllUnpacked, DoneOf, UnpackedOf, PackedOf, Per, OutputOf

(* A byte has a whole number of values and fits into a word.               *)
LEMMA PerByte ==
  ASSUME NEW j, Described(j)
  PROVE  /\ j.src_width \in Nat /\ j.src_width > 0 /\ Per(j) \in Nat /\ Per(j) > 0
         /\ ByteBits = j.src_width * Per(j) /\ ByteBits \in Nat /\ ByteBits > 0 /\ ByteBits <= WordBits
<1>. DEFINE s == j.src_width
            m == ByteBits \div s
<1>1. ByteBits \in Nat /\ ByteBits > 0 /\ ByteBits <= WordBits
  <2>1. Dividing(ByteBits)
    BY BitsAssumption DEF Dividing
  <2>. QED BY <2>1, WordOf
<1>2. s \in Nat /\ s > 0 /\ ByteBits % s = 0
  BY DEF Described
<1>. HIDE DEF s
<1>3. m \in Nat /\ ByteBits = s * m + (ByteBits % s)
  BY <1>1, <1>2, Divided
<1>. HIDE DEF m
<1>4. ByteBits = s * m
  BY <1>1, <1>2, <1>3
<1>5. m > 0
  <2>1. m = 0 => s * m = 0
    BY <1>2
  <2>. QED BY <1>1, <1>3, <1>4, <2>1
<1>. QED BY <1>1, <1>2, <1>3, <1>4, <1>5 DEF m, s, Per

(* The position in values: k in the byte, done in all.                     *)
LEMMA PositionIs ==
  ASSUME NEW j, NEW s, NEW p, Described(j), Positioned(j, s, p)
  PROVE  \E k \in 0 .. Per(j) :
           /\ p = k * j.src_width /\ p \div j.src_width = k /\ p \in Nat /\ p <= ByteBits
           /\ p < ByteBits <=> k < Per(j)
<1>. DEFINE w == j.src_width
            m == Per(j)
<1>1. w \in Nat /\ w > 0 /\ m \in Nat /\ m > 0 /\ ByteBits = w * m /\ ByteBits \in Nat
  BY PerByte
<1>2. PICK k \in 0 .. m : p = k * w
  BY DEF Positioned
<1>. HIDE DEF w, m
<1>3. k \in Nat /\ k <= m /\ p = w * k + 0 /\ w * k \in Nat
  BY <1>1, <1>2
<1>4. p \div w = k
  BY <1>1, <1>3, OnlyQuotient
<1>5. w * k <= w * m
  BY <1>1, <1>3
<1>6. k < m => w * (k + 1) <= w * m /\ w * (k + 1) = w * k + w
  BY <1>1, <1>3
<1>7. p < ByteBits <=> k < m
  BY <1>1, <1>3, <1>5, <1>6
<1>. QED BY <1>1, <1>2, <1>3, <1>4, <1>5, <1>7 DEF w, m

(* Storing is putting out.                                                 *)
LEMMA EmitIs ==
  ASSUME NEW x, NEW d, Bits!Emit(x, d)
  PROVE  Emits(written, out_word, out_bits, d, x, written', out_word', out_bits')
  BY DEF Bits!Emit, Emits

(* At the start nothing has been put out.                                  *)
LEMMA NothingGathered == ASSUME NEW d, Dividing(d) PROVE Gathered(<<>>, 0, 0, d, 0)
<1>. DEFINE m == PerWord(d)
<1>1. d \in Nat /\ m \in Nat /\ m > 0
  BY WordOf
<1>. HIDE DEF m
<1>2. 0 % m = 0 /\ 0 \div m = 0
  <2>1. 0 = m * 0 + 0
    BY <1>1
  <2>. QED BY <1>1, <2>1, OnlyQuotient
<1>3. 0 < 2^0 /\ 0 * d = 0
  BY <1>1, Powers
<1>. QED BY <1>1, <1>2, <1>3 DEF Gathered, m

(* The description is read, ...                                            *)
LEMMA StartBits ==
  ASSUME IdleInv, job = Bits!Idle,
         NEW len \in SrcLens, NEW s \in Widths, NEW d \in Widths, NEW o \in Offsets, NEW z \in BOOLEAN,
         s <= ByteBits, Bits!BitUnPack(len, s, d, o, z)
  PROVE  BitsInv'
<1>1. /\ s # 0 /\ d # 0
      /\ job'.src_width = s /\ job'.dest_width = d /\ job'.offset = o /\ job'.len = len
      /\ bit_pos' = ByteBits /\ stream' = <<>>
      /\ written' = <<>> /\ out_word' = 0 /\ out_bits' = 0
  BY DEF Bits!BitUnPack, Bits!NoOutput, IdleInv
<1>2. Dividing(d) /\ s \in Nat /\ s > 0 /\ ByteBits % s = 0 /\ o \in Nat /\ len \in Nat
  BY <1>1, BitsAssumption DEF Dividing
<1>3. Described(job')
  BY <1>1, <1>2 DEF Described
<1>4. Positioned(job', stream', bit_pos')
  <2>1. /\ Per(job') \in Nat /\ ByteBits = job'.src_width * Per(job')
        /\ job'.src_width \in Nat
    BY <1>3, PerByte
  <2>2. ByteBits = Per(job') * job'.src_width
    BY <2>1
  <2>3. Per(job') \in 0 .. Per(job')
    BY <2>1
  <2>. QED BY <1>1, <2>2, <2>3 DEF Positioned
<1>5. DoneOf(job', stream', bit_pos') = 0
  BY <1>1 DEF DoneOf
<1>6. Reading'
  BY <1>1, <1>2, <1>5, NothingGathered DEF Reading
<1>7. AllUnpacked(job', stream', bit_pos', written', out_word')
  BY <1>5 DEF AllUnpacked
<1>. QED BY <1>3, <1>4, <1>6, <1>7 DEF BitsInv

(* ... a byte is read, ...                                                 *)
LEMMA ByteBitsKept ==
  ASSUME BitsInv, NEW v \in 0 .. 2^ByteBits - 1, Bits!ReadByte(v)
  PROVE  BitsInv'
<1>. DEFINE n == Len(stream)
            m == Per(job)
            s == job.src_width
            done == DoneOf(job, stream, bit_pos)
<1>1. /\ job.kind = "bits" /\ bit_pos >= ByteBits /\ data_word < job.len
      /\ src_byte' = v /\ bit_pos' = 0 /\ stream' = Append(stream, v) /\ job' = job
      /\ written' = written /\ out_word' = out_word /\ out_bits' = out_bits
  BY DEF Bits!ReadByte, Bits!NoOutput
<1>2. /\ Described(job) /\ Positioned(job, stream, bit_pos)
      /\ AllUnpacked(job, stream, bit_pos, written, out_word)
      /\ Reading \/ Flushed
  BY <1>1 DEF BitsInv
<1>3. ~Flushed
  <2>. SUFFICES ASSUME Flushed PROVE FALSE
    OBVIOUS
  <2>. QED BY <1>1, <1>2 DEF Flushed, Described
<1>4. Reading
  BY <1>2, <1>3
<1>5. s \in Nat /\ s > 0 /\ m \in Nat /\ m > 0 /\ ByteBits = s * m /\ ByteBits \in Nat /\ ByteBits <= WordBits
  BY <1>2, PerByte
<1>6. v \in Nat
  OBVIOUS
<1>7. /\ stream \in Seq(Nat) /\ n \in Nat /\ stream' \in Seq(Nat) /\ Len(stream') = n + 1
      /\ stream' # <<>> /\ stream'[n + 1] = v /\ \A i \in 1 .. n : stream'[i] = stream[i]
  BY <1>1, <1>2, <1>6 DEF Positioned
<1>8. bit_pos \div s = m
  BY <1>1, <1>2, <1>5, PositionIs
<1>. HIDE DEF n, m, s
<1>9. 0 \div s = 0
  <2>1. 0 = s * 0 + 0
    BY <1>5
  <2>. QED BY <1>5, <2>1, OnlyQuotient
<1>10. done = n * m /\ DoneOf(job, stream', 0) = n * m
  <2>1. CASE stream = <<>>
    <3>1. n = 0 /\ n * m = 0
      BY <1>5, <2>1 DEF n
    <3>2. DoneOf(job, stream', 0) = ((n + 1) - 1) * m + 0
      BY <1>7, <1>9, Zenon DEF DoneOf, m, s
    <3>. QED BY <2>1, <3>1, <3>2, <1>5 DEF DoneOf
  <2>2. CASE stream # <<>>
    <3>1. done = (n - 1) * m + m
      BY <1>8, <2>2 DEF DoneOf, n, m, s
    <3>2. DoneOf(job, stream', 0) = ((n + 1) - 1) * m + 0
      BY <1>7, <1>9, Zenon DEF DoneOf, m, s
    <3>3. (n - 1) * m + m = n * m /\ ((n + 1) - 1) * m + 0 = n * m
      BY <1>5, <1>7
    <3>. QED BY <3>1, <3>2, <3>3
  <2>. QED BY <2>1, <2>2
<1>. HIDE DEF done
<1>11. ASSUME NEW i \in 0 .. n * m - 1
       PROVE  UnpackedOf(job, stream', i) = UnpackedOf(job, stream, i)
  <2>1. i \in Nat /\ i < n * m
    BY <1>5, <1>7
  <2>2. i \div m \in Nat /\ i \div m < n
    <3>1. n * m = m * n + 0 /\ n * m \in Nat
      BY <1>5, <1>7
    <3>2. (n * m) \div m = n
      BY <1>5, <1>7, <3>1, OnlyQuotient
    <3>3. i \div m < (n * m) \div m \/ (i \div m = (n * m) \div m /\ i % m < (n * m) % m)
      BY <1>5, <2>1, <3>1, EarlierDivided
    <3>4. (n * m) % m = 0
      BY <1>5, <1>7, <3>1, OnlyQuotient
    <3>. QED BY <1>5, <2>1, <3>2, <3>3, <3>4, Divided
  <2>3. stream'[1 + i \div m] = stream[1 + i \div m]
    <3>1. 1 + i \div m \in 1 .. n
      BY <1>7, <2>2
    <3>. QED BY <1>7, <3>1
  <2>4. PackedOf(job, stream', i) = PackedOf(job, stream, i)
    BY <2>3, Zenon DEF PackedOf, m
  <2>. QED BY <2>4, Zenon DEF UnpackedOf
<1>12. AllUnpacked(job', stream', bit_pos', written', out_word')
  BY <1>1, <1>2, <1>10, <1>11 DEF AllUnpacked, done
<1>13. Reading'
  <2>1. Gathered(written, out_word, out_bits, job.dest_width, n * m)
    BY <1>4, <1>10 DEF Reading, done
  <2>2. DoneOf(job', stream', bit_pos') = n * m
    BY <1>1, <1>10, Zenon
  <2>3. Gathered(written', out_word', out_bits', job'.dest_width, DoneOf(job', stream', bit_pos'))
    BY <1>1, <2>1, <2>2, Zenon
  <2>4. src_byte' = stream'[Len(stream')]
    BY <1>1, <1>7
  <2>. QED BY <2>3, <2>4 DEF Reading
<1>14. Positioned(job', stream', bit_pos')
  <2>1. 0 \in 0 .. Per(job) /\ 0 = 0 * job.src_width
    BY <1>5 DEF m, s
  <2>. QED BY <1>1, <1>7, <2>1 DEF Positioned
<1>. QED BY <1>1, <1>2, <1>12, <1>13, <1>14 DEF BitsInv

(* ... a value is put out, ...                                             *)
LEMMA ValueBitsKept ==
  ASSUME BitsInv, Bits!UnpackValue
  PROVE  BitsInv'
<1>. DEFINE n == Len(stream)
            m == Per(job)
            s == job.src_width
            d == job.dest_width
            done == DoneOf(job, stream, bit_pos)
            raw == (src_byte \div 2^bit_pos) % 2^s
            value == IF raw # 0 \/ job.add_to_zero THEN raw + job.offset ELSE raw
            x == value % 2^d
<1>1. /\ job.kind = "bits" /\ bit_pos < ByteBits
      /\ Bits!Emit(x, d)
      /\ bit_pos' = bit_pos + s /\ stream' = stream /\ job' = job /\ src_byte' = src_byte
  BY DEF Bits!UnpackValue
<1>2. /\ Described(job) /\ Positioned(job, stream, bit_pos)
      /\ AllUnpacked(job, stream, bit_pos, written, out_word)
      /\ Reading \/ Flushed
  BY <1>1 DEF BitsInv
<1>3. s \in Nat /\ s > 0 /\ m \in Nat /\ m > 0 /\ ByteBits = s * m /\ ByteBits \in Nat /\ ByteBits <= WordBits
  BY <1>2, PerByte
<1>4. ~Flushed
  BY <1>1, <1>3 DEF Flushed
<1>5. Gathered(written, out_word, out_bits, d, done) /\ (stream # <<>> => src_byte = stream[n])
  BY <1>2, <1>4 DEF Reading
<1>6. PICK k \in 0 .. m : /\ bit_pos = k * s /\ bit_pos \div s = k
                          /\ bit_pos \in Nat /\ bit_pos <= ByteBits
                          /\ bit_pos < ByteBits <=> k < m
  BY <1>2, PositionIs
<1>7. stream # <<>> /\ stream \in Seq(Nat) /\ n \in Nat /\ n > 0
  BY <1>1, <1>2, <1>6 DEF Positioned
<1>8. src_byte = stream[n] /\ src_byte \in Nat
  BY <1>5, <1>7
<1>9. Dividing(d) /\ d \in Nat /\ d > 0 /\ d <= WordBits /\ job.offset \in Nat
  BY <1>2, WordOf DEF Described
<1>10. raw \in Nat
  <2>1. s <= ByteBits
    BY <1>3
  <2>2. 2^bit_pos \in Nat /\ 2^bit_pos > 0 /\ 2^s \in Nat /\ 2^s > 0
    BY <1>3, <1>6, <2>1, Powers
  <2>3. src_byte \div 2^bit_pos \in Nat
    BY <1>8, <2>2, Divided
  <2>. QED BY <2>2, <2>3, Divided
<1>11. x \in Nat /\ x < 2^d
  <2>. HIDE DEF raw
  <2>1. value \in Nat
    BY <1>9, <1>10
  <2>. HIDE DEF value
  <2>2. 2^d \in Nat /\ 2^d > 0
    BY <1>9, Powers
  <2>. QED BY <2>1, <2>2, Divided
<1>12. done = (n - 1) * m + k /\ DoneOf(job, stream, bit_pos + s) = done + 1
       /\ k < m /\ k + 1 \in 0 .. m /\ bit_pos + s = (k + 1) * s
  <2>1. k \in Nat /\ k < m /\ k + 1 \in 0 .. m
    BY <1>1, <1>3, <1>6
  <2>2. bit_pos + s = s * (k + 1) + 0 /\ bit_pos + s = (k + 1) * s
    BY <1>3, <1>6, <2>1
  <2>3. (bit_pos + s) \div s = k + 1
    BY <1>3, <1>6, <2>1, <2>2, OnlyQuotient
  <2>4. done = (n - 1) * m + k /\ DoneOf(job, stream, bit_pos + s) = (n - 1) * m + (k + 1)
    BY <1>6, <1>7, <2>3 DEF DoneOf
  <2>5. (n - 1) * m \in Nat
    BY <1>3, <1>7
  <2>. QED BY <2>1, <2>2, <2>4, <2>5
(* The value is the one that is due. *)
<1>13. x = UnpackedOf(job, stream, done)
  <2>. DEFINE u == n - 1
  <2>1. u \in Nat /\ k \in Nat /\ k < m
    BY <1>3, <1>7, <1>12
  <2>2. done \div m = n - 1 /\ done % m = k
    <3>. HIDE DEF m, u, done
    <3>1. u * m = m * u /\ m * u \in Nat
      BY <1>3, <2>1
    <3>2. done = u * m + k
      BY <1>12 DEF u
    <3>3. done = m * u + k /\ done \in Nat
      BY <2>1, <3>1, <3>2
    <3>4. m \in Nat /\ m > 0
      BY <1>3
    <3>5. done % m = k /\ done \div m = u
      BY <2>1, <3>3, <3>4, OnlyQuotient
    <3>. QED BY <3>5 DEF u
  <2>3. 1 + (n - 1) = n
    BY <1>7
  <2>4. PackedOf(job, stream, done) = (stream[n] \div 2^(k * s)) % 2^s
    BY <2>2, <2>3, Zenon DEF PackedOf
  <2>5. PackedOf(job, stream, done) = raw
    BY <1>6, <1>8, <2>4, Zenon
  <2>. HIDE DEF raw, done
  <2>6. value = raw + (IF raw = 0 /\ ~job.add_to_zero THEN 0 ELSE job.offset)
    <3>1. raw + 0 = raw
      BY <1>10
    <3>. QED BY <3>1, Zenon
  <2>. HIDE DEF value
  <2>. QED BY <2>5, <2>6, Zenon DEF UnpackedOf
<1>. HIDE DEF x, done, n, m, s, d, raw, value
<1>14. Emits(written, out_word, out_bits, d, x, written', out_word', out_bits')
  BY <1>1, EmitIs
<1>15. /\ Gathered(written', out_word', out_bits', d, done + 1)
       /\ OutputOf(written', out_word', done, d) = x
       /\ SameValues(written, out_word, written', out_word', d, done)
  BY <1>5, <1>9, <1>11, <1>14, Gathers
<1>16. done \in Nat
  BY <1>5 DEF Gathered
<1>17. DoneOf(job', stream', bit_pos') = done + 1
  BY <1>1, <1>12, Zenon
<1>18. Positioned(job', stream', bit_pos')
  <2>1. \E h \in 0 .. Per(job) : bit_pos + s = h * job.src_width
    BY <1>12 DEF m, s
  <2>. QED BY <1>1, <1>7, <2>1 DEF Positioned
<1>19. Reading'
  <2>1. Gathered(written', out_word', out_bits', job'.dest_width, DoneOf(job', stream', bit_pos'))
    BY <1>1, <1>15, <1>17, Zenon DEF d
  <2>2. src_byte' = stream'[Len(stream')]
    BY <1>1, <1>8 DEF n
  <2>. QED BY <2>1, <2>2 DEF Reading
<1>20. AllUnpacked(job', stream', bit_pos', written', out_word')
  <2>1. ASSUME NEW i \in 0 .. (done + 1) - 1
        PROVE  OutputOf(written', out_word', i, d) = UnpackedOf(job, stream, i)
    <3>1. CASE i = done
      BY <1>13, <1>15, <3>1
    <3>2. CASE i < done
      <4>1. OutputOf(written, out_word, i, d) = UnpackedOf(job, stream, i)
        <5>1. i \in 0 .. DoneOf(job, stream, bit_pos) - 1
          BY <1>16, <3>2 DEF done
        <5>. QED BY <1>2, <5>1 DEF AllUnpacked, d
      <4>2. i \in Nat
        BY <1>16
      <4>. QED BY <1>15, <3>2, <4>1, <4>2 DEF SameValues
    <3>. QED BY <1>16, <3>1, <3>2
  <2>2. \A i \in 0 .. DoneOf(job', stream', bit_pos') - 1 :
          OutputOf(written', out_word', i, job'.dest_width) = UnpackedOf(job', stream', i)
    BY <1>1, <1>17, <2>1 DEF d
  <2>. QED BY <2>2 DEF AllUnpacked
<1>. QED BY <1>1, <1>2, <1>18, <1>19, <1>20 DEF BitsInv

(* ... and what is left is stored.                                         *)
LEMMA ReturnBitsKept ==
  ASSUME BitsInv, Bits!UReturn
  PROVE  BitsInv' /\ IdleInv'
<1>1. out_word' = 0 /\ out_bits' = 0
  BY DEF Bits!UReturn
<1>2. CASE job' = Bits!Idle /\ written' = <<>> /\ stream' = <<>>
  BY <1>1, <1>2 DEF BitsInv, IdleInv, Bits!Idle
<1>3. CASE /\ job.kind = "bits" /\ written' = Append(written, out_word)
           /\ UNCHANGED <<job, stream>>
  <2>1. job' = job /\ stream' = stream /\ job' # Bits!Idle
    BY <1>3 DEF Bits!Idle
  <2>2. /\ Described(job) /\ Positioned(job, stream, bit_pos)
        /\ AllUnpacked(job, stream, bit_pos, written, out_word)
        /\ Reading \/ Flushed
    BY <1>3 DEF BitsInv
  <2>3. bit_pos' = bit_pos /\ data_word' = data_word
    BY <2>1 DEF Bits!UReturn
  <2>4. bit_pos >= ByteBits /\ data_word = job.len /\ out_bits > 0
    BY <1>3, <2>1 DEF Bits!UReturn, Bits!Complete
  <2>5. bit_pos = ByteBits
    <3>1. bit_pos \in Nat /\ bit_pos <= ByteBits /\ ByteBits \in Nat
      BY <2>2, PositionIs, PerByte
    <3>. QED BY <2>4, <3>1
  <2>6. Flushed'
    BY <1>1, <2>1, <2>3, <2>4, <2>5 DEF Flushed
  <2>7. Reading
    BY <2>2, <2>4 DEF Flushed
  <2>8. AllUnpacked(job', stream', bit_pos', written', out_word')
    <3>. DEFINE done == DoneOf(job, stream, bit_pos)
                d == job.dest_width
    <3>1. Gathered(written, out_word, out_bits, d, done) /\ Dividing(d)
      BY <2>2, <2>7 DEF Reading, Described
    <3>2. \A i \in 0 .. done - 1 : OutputOf(written, out_word, i, d) = UnpackedOf(job, stream, i)
      BY <2>2 DEF AllUnpacked
    <3>. HIDE DEF done, d
    <3>3. done \in Nat
      BY <3>1 DEF Gathered
    <3>4. ASSUME NEW i \in 0 .. done - 1
          PROVE  OutputOf(Append(written, out_word), 0, i, d) = UnpackedOf(job, stream, i)
      <4>1. i \in Nat /\ i < done
        BY <3>3
      <4>2. OutputOf(Append(written, out_word), 0, i, d) = OutputOf(written, out_word, i, d)
        BY <3>1, <4>1, StoredEarly
      <4>. QED BY <3>2, <4>2
    <3>. QED BY <1>1, <1>3, <2>1, <2>3, <3>4 DEF AllUnpacked, done, d
  <2>. QED BY <2>1, <2>2, <2>3, <2>6, <2>8 DEF BitsInv, IdleInv
<1>. QED BY <1>2, <1>3 DEF Bits!UReturn

-----------------------------------------------------------------------------
(* Codes are sequences of bits, those up to a length are finitely many.    *)
Code == Seq({0, 1})

(* The model's codes up to a length are those sequences.                   *)
LEMMA CodesAre ==
  ASSUME NEW n \in Nat
  PROVE  /\ \A c : c \in Bits!Codes(n) <=> c \in Code /\ Len(c) <= n
         /\ IsFiniteSet(Bits!Codes(n))
<1>. DEFINE F == [k \in 0 .. n |-> [1 .. k -> {0, 1}]]
            R == {F[k] : k \in 0 .. n}
<1>1. ASSUME NEW c PROVE c \in Bits!Codes(n) <=> c \in Code /\ Len(c) <= n
  <2>1. ASSUME c \in Bits!Codes(n) PROVE c \in Code /\ Len(c) <= n
    <3>1. PICK k \in 0 .. n : c \in [1 .. k -> {0, 1}]
      BY <2>1 DEF Bits!Codes
    <3>. QED BY <3>1 DEF Code
  <2>2. ASSUME c \in Code, Len(c) <= n PROVE c \in Bits!Codes(n)
    <3>1. Len(c) \in 0 .. n /\ c \in [1 .. Len(c) -> {0, 1}]
      BY <2>2 DEF Code
    <3>. QED BY <3>1 DEF Bits!Codes
  <2>. QED BY <2>1, <2>2
<1>2. IsFiniteSet(R)
  <2>1. F \in Surjection(0 .. n, R)
    BY DEF Surjection
  <2>2. IsFiniteSet(0 .. n)
    BY FS_Interval
  <2>. QED BY <2>1, <2>2, FS_Surjection
<1>3. ASSUME NEW T \in R PROVE IsFiniteSet(T)
  <2>1. PICK k \in 0 .. n : T = [1 .. k -> {0, 1}]
    BY <1>3
  <2>. DEFINE G == [f \in [1 .. k -> {0, 1}] |-> {i \in 1 .. k : f[i] = 1}]
  <2>2. G \in [T -> SUBSET (1 .. k)]
    BY <2>1
  <2>3. ASSUME NEW f \in T, NEW g \in T, G[f] = G[g] PROVE f = g
    <3>1. \A i \in 1 .. k : (f[i] = 1) <=> (g[i] = 1)
      BY <2>1, <2>3
    <3>2. \A i \in 1 .. k : f[i] \in {0, 1} /\ g[i] \in {0, 1}
      BY <2>1
    <3>3. \A i \in 1 .. k : f[i] = g[i]
      BY <3>1, <3>2
    <3>. QED BY <2>1, <3>3
  <2>. HIDE DEF G
  <2>4. G \in Injection(T, SUBSET (1 .. k))
    BY <2>2, <2>3 DEF Injection, IsInjective
  <2>5. IsFiniteSet(SUBSET (1 .. k))
    <3>1. IsFiniteSet(1 .. k)
      BY FS_Interval
    <3>. QED BY <3>1, FS_SUBSET
  <2>. QED BY <2>4, <2>5, FS_Injection
<1>4. Bits!Codes(n) = UNION R
  BY DEF Bits!Codes
<1>5. IsFiniteSet(UNION R)
  <2>. HIDE DEF R
  <2>. QED BY <1>2, <1>3, FS_UNION
<1>. QED BY <1>1, <1>4, <1>5

(* The order of the codes: where they differ first. *)
Precedes(c, d) ==
  \/ Len(c) < Len(d)
  \/ Len(c) = Len(d) /\ \E i \in 1 .. Len(c) : c[i] < d[i] /\ \A j \in 1 .. i - 1 : c[j] = d[j]

(* It is the order in which the nodes are laid out, ...                    *)
LEMMA LessIs ==
  ASSUME NEW c \in Code, NEW d \in Code
  PROVE  Bits!Less(c, d) <=> Precedes(c, d)
<1>1. ASSUME NEW i \in 1 .. Len(c), Len(c) = Len(d)
      PROVE  SubSeq(c, 1, i - 1) = SubSeq(d, 1, i - 1) <=> \A j \in 1 .. i - 1 : c[j] = d[j]
  <2>1. /\ SubSeq(c, 1, i - 1) = [j \in 1 .. i - 1 |-> c[j]]
        /\ SubSeq(d, 1, i - 1) = [j \in 1 .. i - 1 |-> d[j]]
    <3>1. \A j \in 1 .. i - 1 : c[j] \in {0, 1} /\ d[j] \in {0, 1}
      BY <1>1 DEF Code
    <3>2. i - 1 \in Int /\ (1 <= i - 1 => (i - 1) - 1 + 1 = i - 1)
      BY <1>1
    <3>. QED BY <1>1, <3>1, <3>2 DEF Code
  <2>. QED BY <2>1
<1>. QED BY <1>1 DEF Bits!Less, Precedes

(* ... and it is a strict total order.                                     *)
LEMMA PrecedesOrders ==
  ASSUME NEW c \in Code, NEW d \in Code
  PROVE  /\ ~Precedes(c, c)
         /\ c # d => Precedes(c, d) \/ Precedes(d, c)
         /\ \A e \in Code : Precedes(c, d) /\ Precedes(d, e) => Precedes(c, e)
<1>. DEFINE lc == Len(c)
            ld == Len(d)
<1>1. /\ lc \in Nat /\ ld \in Nat
      /\ c \in [1 .. lc -> {0, 1}] /\ d \in [1 .. ld -> {0, 1}]
  BY DEF Code
<1>2. ~Precedes(c, c)
  BY <1>1 DEF Precedes
<1>3. ASSUME c # d PROVE Precedes(c, d) \/ Precedes(d, c)
  <2>1. CASE Len(c) # Len(d)
    <3>1. lc < ld \/ ld < lc
      <4>1. lc # ld
        BY <2>1
      <4>. HIDE DEF lc, ld
      <4>. QED BY <1>1, <4>1
    <3>. QED BY <3>1 DEF Precedes
  <2>2. CASE Len(c) = Len(d)
    <3>. DEFINE T == {i \in 1 .. Len(c) : c[i] # d[i]}
    <3>1. T # {}
      BY <1>1, <1>3, <2>2
    <3>2. T \subseteq Nat
      BY <1>1
    <3>3. PICK i \in T : \A j \in T : i <= j
      <4>. HIDE DEF T
      <4>. QED BY <3>1, <3>2, SmallestNat
    <3>4. i \in 1 .. Len(c) /\ c[i] # d[i] /\ c[i] \in {0, 1} /\ d[i] \in {0, 1}
      BY <1>1, <2>2
    <3>5. ASSUME NEW j \in 1 .. i - 1 PROVE c[j] = d[j]
      <4>1. j \in 1 .. Len(c) /\ j < i
        BY <1>1, <3>4
      <4>2. j \notin T
        BY <1>1, <3>3, <3>4, <4>1
      <4>. QED BY <4>1, <4>2
    <3>6. c[i] < d[i] \/ d[i] < c[i]
      BY <3>4
    <3>. QED BY <2>2, <3>4, <3>5, <3>6 DEF Precedes
  <2>. QED BY <2>1, <2>2
<1>4. ASSUME NEW e \in Code, Precedes(c, d), Precedes(d, e) PROVE Precedes(c, e)
  <2>1. Len(e) \in Nat /\ e \in [1 .. Len(e) -> {0, 1}]
    BY DEF Code
  <2>2. CASE Len(c) < Len(d) \/ Len(d) < Len(e)
    <3>1. (Len(c) < Len(d) \/ Len(c) = Len(d)) /\ (Len(d) < Len(e) \/ Len(d) = Len(e))
      BY <1>4, Zenon DEF Precedes
    <3>2. Len(c) < Len(e)
      <4>. DEFINE le == Len(e)
      <4>1. lc \in Nat /\ ld \in Nat /\ le \in Nat
        BY <1>1, <2>1
      <4>2. (lc < ld \/ lc = ld) /\ (ld < le \/ ld = le) /\ (lc < ld \/ ld < le)
        BY <2>2, <3>1
      <4>3. lc < le
        <5>. HIDE DEF lc, ld, le
        <5>. QED BY <4>1, <4>2
      <4>. QED BY <4>3
    <3>. QED BY <3>2 DEF Precedes
  <2>3. CASE Len(c) = Len(d) /\ Len(d) = Len(e)
    <3>1. PICK i \in 1 .. Len(c) : c[i] < d[i] /\ \A j \in 1 .. i - 1 : c[j] = d[j]
      BY <1>1, <1>4, <2>3 DEF Precedes
    <3>2. PICK k \in 1 .. Len(c) : d[k] < e[k] /\ \A j \in 1 .. k - 1 : d[j] = e[j]
      BY <1>1, <1>4, <2>1, <2>3 DEF Precedes
    <3>3. /\ c[i] \in {0, 1} /\ d[i] \in {0, 1} /\ e[i] \in {0, 1}
          /\ c[k] \in {0, 1} /\ d[k] \in {0, 1} /\ e[k] \in {0, 1}
      BY <1>1, <2>1, <2>3
    <3>4. CASE i <= k
      <4>1. c[i] < e[i]
        <5>1. i < k => d[i] = e[i]
          BY <1>1, <3>2, <3>4
        <5>2. i = k => c[i] < e[i]
          BY <3>1, <3>2, <3>3
        <5>. QED BY <1>1, <3>1, <3>4, <5>1, <5>2
      <4>2. \A j \in 1 .. i - 1 : c[j] = e[j]
        <5>1. \A j \in 1 .. i - 1 : j \in 1 .. k - 1
          BY <1>1, <3>4
        <5>. QED BY <3>1, <3>2, <5>1
      <4>. QED BY <2>3, <4>1, <4>2 DEF Precedes
    <3>5. CASE k < i
      <4>1. k \in 1 .. i - 1
        BY <1>1, <3>5
      <4>2. c[k] < e[k]
        BY <3>1, <3>2, <4>1
      <4>3. \A j \in 1 .. k - 1 : c[j] = e[j]
        <5>1. \A j \in 1 .. k - 1 : j \in 1 .. i - 1
          BY <1>1, <3>5
        <5>. QED BY <3>1, <3>2, <5>1
      <4>. QED BY <2>3, <4>2, <4>3 DEF Precedes
    <3>. QED BY <1>1, <3>4, <3>5
  <2>. QED BY <1>1, <1>4, <2>1, <2>2, <2>3 DEF Precedes
<1>. QED BY <1>2, <1>3, <1>4

(* The instance counts elements as every other module does.                *)
LEMMA SameCardinality == \A s : Bits!Cardinality(s) = Cardinality(s)
  BY Zenon DEF Bits!Cardinality, Cardinality

(* The rank of a code among finitely many: there is one for each.          *)
LEMMA Ranks ==
  ASSUME NEW s, s \subseteq Code, IsFiniteSet(s)
  PROVE  /\ Cardinality(s) \in Nat
         /\ \A c \in s : Bits!Rank(c, s) \in Nat /\ Bits!Rank(c, s) < Cardinality(s)
         /\ \A c, d \in s : Bits!Rank(c, s) = Bits!Rank(d, s) => c = d
<1>. DEFINE B(c) == {e \in s : Bits!Less(e, c)}
<1>1. Cardinality(s) \in Nat
  BY FS_CardinalityType
<1>2. ASSUME NEW c \in s
      PROVE  IsFiniteSet(B(c)) /\ Cardinality(B(c)) \in Nat /\ Cardinality(B(c)) < Cardinality(s)
  <2>1. B(c) \in SUBSET s /\ c \notin B(c)
    BY LessIs, PrecedesOrders
  <2>. HIDE DEF B
  <2>2. /\ IsFiniteSet(B(c)) /\ Cardinality(B(c)) <= Cardinality(s)
        /\ Cardinality(s) = Cardinality(B(c)) => s = B(c)
    BY <2>1, FS_Subset
  <2>3. Cardinality(B(c)) \in Nat
    BY <2>2, FS_CardinalityType
  <2>. QED BY <1>1, <2>1, <2>2, <2>3
<1>3. ASSUME NEW c \in s, NEW d \in s, Precedes(c, d) PROVE Cardinality(B(c)) < Cardinality(B(d))
  <2>1. ASSUME NEW e \in B(c) PROVE e \in B(d)
    <3>1. e \in s /\ Precedes(e, c)
      BY LessIs
    <3>2. Precedes(e, d)
      BY <1>3, <3>1, PrecedesOrders
    <3>. QED BY <3>1, <3>2, LessIs
  <2>2. B(c) \in SUBSET B(d)
    BY <2>1
  <2>3. c \in B(d) /\ c \notin B(c)
    BY <1>3, LessIs, PrecedesOrders
  <2>. HIDE DEF B
  <2>4. /\ Cardinality(B(c)) <= Cardinality(B(d))
        /\ Cardinality(B(d)) = Cardinality(B(c)) => B(d) = B(c)
    BY <1>2, <2>2, FS_Subset
  <2>. QED BY <1>2, <2>3, <2>4
<1>4. \A c \in s : Bits!Rank(c, s) = Cardinality(B(c))
  BY SameCardinality, Zenon DEF Bits!Rank
<1>. HIDE DEF B
<1>5. ASSUME NEW c \in s, NEW d \in s, Cardinality(B(c)) = Cardinality(B(d)) PROVE c = d
  <2>. SUFFICES ASSUME c # d PROVE FALSE
    OBVIOUS
  <2>1. Precedes(c, d) \/ Precedes(d, c)
    BY PrecedesOrders
  <2>. QED BY <1>2, <1>3, <1>5, <2>1
<1>. QED BY <1>1, <1>2, <1>4, <1>5

-----------------------------------------------------------------------------
(* The nodes of a tree.                                                    *)
Nodes(t) == t \cup Bits!Leaves(t)

(* A node other than the root is a child of its parent, by its last bit.   *)
LEMMA ParentIs ==
  ASSUME NEW c \in Code
  PROVE  /\ c # <<>> => /\ Bits!Parent(c) \in Code /\ Len(c) \in Nat /\ Len(c) > 0
                        /\ c[Len(c)] \in {0, 1} /\ c = Append(Bits!Parent(c), c[Len(c)])
         /\ \A b \in {0, 1} : /\ Append(c, b) \in Code /\ Append(c, b) # <<>>
                              /\ Len(Append(c, b)) = Len(c) + 1
                              /\ Append(c, b)[Len(c) + 1] = b
                              /\ Bits!Parent(Append(c, b)) = c
<1>1. ASSUME c # <<>>
      PROVE  /\ Bits!Parent(c) \in Code /\ Len(c) \in Nat /\ Len(c) > 0
             /\ c[Len(c)] \in {0, 1} /\ c = Append(Bits!Parent(c), c[Len(c)])
  <2>1. Len(c) \in Nat /\ Len(c) > 0 /\ c \in [1 .. Len(c) -> {0, 1}]
    BY <1>1 DEF Code
  <2>. DEFINE n == Len(c)
              q == SubSeq(c, 1, n - 1)
  <2>2. q \in Code /\ Len(q) = n - 1 /\ \A i \in 1 .. n - 1 : q[i] = c[i]
    BY <2>1 DEF Code
  <2>. DEFINE x == Append(q, c[n])
  <2>3. c[n] \in {0, 1}
    BY <2>1
  <2>4. c = x
    <3>1. /\ x \in Code /\ Len(x) = Len(q) + 1 /\ x[Len(q) + 1] = c[n]
          /\ \A i \in 1 .. Len(q) : x[i] = q[i]
      BY <2>2, <2>3, AppendProperties DEF Code
    <3>. HIDE DEF x, q
    <3>2. Len(q) + 1 = n
      BY <2>1, <2>2
    <3>3. \A i \in 1 .. n : x[i] = c[i]
      BY <2>1, <2>2, <3>1, <3>2
    <3>. QED BY <3>1, <3>2, <3>3, SeqEqual DEF Code
  <2>. QED BY <2>1, <2>2, <2>3, <2>4 DEF Bits!Parent
<1>2. ASSUME NEW b \in {0, 1}
      PROVE  /\ Append(c, b) \in Code /\ Append(c, b) # <<>>
             /\ Len(Append(c, b)) = Len(c) + 1 /\ Append(c, b)[Len(c) + 1] = b
             /\ Bits!Parent(Append(c, b)) = c
  <2>. DEFINE n == Len(c)
              x == Append(c, b)
  <2>1. /\ x \in Code /\ x # <<>> /\ n \in Nat /\ Len(x) = n + 1 /\ x[n + 1] = b
        /\ \A i \in 1 .. n : x[i] = c[i]
    BY AppendProperties DEF Code
  <2>. HIDE DEF x
  <2>2. SubSeq(x, 1, n) = c
    <3>1. /\ SubSeq(x, 1, n) \in Code /\ Len(SubSeq(x, 1, n)) = n
          /\ \A i \in 1 .. n : SubSeq(x, 1, n)[i] = x[i]
      BY <2>1 DEF Code
    <3>2. \A i \in 1 .. n : SubSeq(x, 1, n)[i] = c[i]
      BY <2>1, <3>1
    <3>. QED BY <3>1, <3>2, SeqEqual DEF Code
  <2>3. Len(x) - 1 = n
    BY <2>1
  <2>4. Bits!Parent(x) = c
    BY <2>2, <2>3, Zenon DEF Bits!Parent
  <2>. QED BY <2>1, <2>4 DEF x
<1>. QED BY <1>1, <1>2

(* Trees are finite; what is below an inner node is in the tree, as an     *)
(* inner node or as a leaf.                                                *)
LEMMA TreeFacts ==
  ASSUME NEW t \in Bits!Trees
  PROVE  /\ t \subseteq Code /\ IsFiniteSet(t) /\ <<>> \in t
         /\ Bits!Leaves(t) \subseteq Code /\ IsFiniteSet(Bits!Leaves(t))
         /\ \A c \in Nodes(t) : c \in Code /\ (c # <<>> => Bits!Parent(c) \in t)
         /\ \A c \in Bits!Leaves(t) : c \notin t /\ c # <<>>
         /\ \A c \in t, b \in {0, 1} :
              Append(c, b) \in Nodes(t) /\ (Append(c, b) \notin t => Append(c, b) \in Bits!Leaves(t))
<1>1. Depth \in Nat /\ Depth - 1 \in Nat
  BY BitsAssumption
<1>2. /\ t \subseteq Bits!Codes(Depth - 1) /\ <<>> \in t
      /\ \A c \in t : c # <<>> => Bits!Parent(c) \in t
  BY DEF Bits!Trees
<1>3. \A c \in t : c \in Code /\ Len(c) <= Depth - 1
  BY <1>1, <1>2, CodesAre
<1>4. IsFiniteSet(t)
  <2>1. IsFiniteSet(Bits!Codes(Depth - 1))
    BY <1>1, CodesAre
  <2>. QED BY <1>2, <2>1, FS_Subset
<1>5. \A c \in Bits!Leaves(t) : c \in Bits!Codes(Depth) /\ c \notin t /\ c # <<>> /\ Bits!Parent(c) \in t
  BY DEF Bits!Leaves
<1>6. \A c \in Bits!Leaves(t) : c \in Code
  BY <1>1, <1>5, CodesAre
<1>7. IsFiniteSet(Bits!Leaves(t))
  <2>1. IsFiniteSet(Bits!Codes(Depth))
    BY <1>1, CodesAre
  <2>2. Bits!Leaves(t) \in SUBSET Bits!Codes(Depth)
    BY <1>5
  <2>. QED BY <2>1, <2>2, FS_Subset
<1>8. ASSUME NEW c \in t, NEW b \in {0, 1}, Append(c, b) \notin t
      PROVE  Append(c, b) \in Bits!Leaves(t)
  <2>1. /\ Append(c, b) \in Code /\ Append(c, b) # <<>> /\ Len(Append(c, b)) = Len(c) + 1
        /\ Bits!Parent(Append(c, b)) = c
    BY <1>3, ParentIs
  <2>2. Len(c) \in Nat /\ Len(c) <= Depth - 1
    BY <1>3 DEF Code
  <2>3. Len(Append(c, b)) <= Depth
    BY <1>1, <2>1, <2>2
  <2>4. Append(c, b) \in Bits!Codes(Depth)
    BY <1>1, <2>1, <2>3, CodesAre
  <2>. QED BY <1>8, <2>1, <2>4 DEF Bits!Leaves
<1>. QED BY <1>2, <1>3, <1>4, <1>5, <1>6, <1>7, <1>8 DEF Nodes

(* Every node has a place of its own, the children next to each other.     *)
LEMMA Places ==
  ASSUME NEW t \in Bits!Trees
  PROVE  /\ Cardinality(t) \in Nat /\ Bits!Place(t, <<>>) = 1
         /\ \A c \in t : Bits!Rank(c, t) \in Nat
         /\ \A c \in Nodes(t) : Bits!Place(t, c) \in 1 .. 2 * Cardinality(t) + 1
         /\ \A c \in Nodes(t) : c # <<>> => Bits!Place(t, c) # 1
         /\ \A c \in t, b \in {0, 1} : Bits!Place(t, Append(c, b)) = 2 * (Bits!Rank(c, t) + 1) + b
         /\ \A c, d \in Nodes(t) : Bits!Place(t, c) = Bits!Place(t, d) => c = d
<1>1. /\ Cardinality(t) \in Nat
      /\ \A c \in t : Bits!Rank(c, t) \in Nat /\ Bits!Rank(c, t) < Cardinality(t)
      /\ \A c, d \in t : Bits!Rank(c, t) = Bits!Rank(d, t) => c = d
  BY TreeFacts, Ranks
<1>2. Bits!Place(t, <<>>) = 1
  BY DEF Bits!Place
<1>3. ASSUME NEW c \in t, NEW b \in {0, 1}
      PROVE  Bits!Place(t, Append(c, b)) = 2 * (Bits!Rank(c, t) + 1) + b
  <2>1. c \in Code
    BY TreeFacts
  <2>2. /\ Append(c, b) # <<>> /\ Bits!Parent(Append(c, b)) = c
        /\ Append(c, b)[Len(Append(c, b))] = b
    BY <2>1, ParentIs
  <2>. QED BY <2>2, Zenon DEF Bits!Place
<1>4. ASSUME NEW c \in Nodes(t), c # <<>>
      PROVE  \E p \in t, b \in {0, 1} :
               c = Append(p, b) /\ Bits!Place(t, c) = 2 * (Bits!Rank(p, t) + 1) + b
  <2>1. c \in Code /\ Bits!Parent(c) \in t
    BY <1>4, TreeFacts
  <2>2. c[Len(c)] \in {0, 1} /\ c = Append(Bits!Parent(c), c[Len(c)])
    BY <1>4, <2>1, ParentIs
  <2>3. Bits!Place(t, c) = 2 * (Bits!Rank(Bits!Parent(c), t) + 1) + c[Len(c)]
    BY <1>4, Zenon DEF Bits!Place
  <2>. QED BY <2>1, <2>2, <2>3, Zenon
<1>5. ASSUME NEW c \in Nodes(t)
      PROVE  /\ Bits!Place(t, c) \in 1 .. 2 * Cardinality(t) + 1
             /\ c # <<>> => Bits!Place(t, c) # 1
  <2>1. CASE c = <<>>
    BY <1>1, <1>2, <2>1
  <2>2. CASE c # <<>>
    <3>1. PICK p \in t, b \in {0, 1} : Bits!Place(t, c) = 2 * (Bits!Rank(p, t) + 1) + b
      BY <1>4, <2>2
    <3>2. Bits!Rank(p, t) \in Nat /\ Bits!Rank(p, t) < Cardinality(t)
      BY <1>1
    <3>. QED BY <1>1, <3>1, <3>2
  <2>. QED BY <2>1, <2>2
<1>6. ASSUME NEW c \in Nodes(t), NEW d \in Nodes(t), Bits!Place(t, c) = Bits!Place(t, d)
      PROVE  c = d
  <2>1. CASE c = <<>> \/ d = <<>>
    BY <1>2, <1>5, <1>6, <2>1
  <2>2. CASE c # <<>> /\ d # <<>>
    <3>1. PICK p \in t, b \in {0, 1} :
            c = Append(p, b) /\ Bits!Place(t, c) = 2 * (Bits!Rank(p, t) + 1) + b
      BY <1>4, <2>2
    <3>2. PICK q \in t, e \in {0, 1} :
            d = Append(q, e) /\ Bits!Place(t, d) = 2 * (Bits!Rank(q, t) + 1) + e
      BY <1>4, <2>2
    <3>3. Bits!Rank(p, t) \in Nat /\ Bits!Rank(q, t) \in Nat
      BY <1>1
    <3>4. Bits!Rank(p, t) = Bits!Rank(q, t) /\ b = e
      BY <1>6, <3>1, <3>2, <3>3
    <3>5. p = q
      BY <1>1, <3>4
    <3>. QED BY <3>1, <3>2, <3>4, <3>5
  <2>. QED BY <2>1, <2>2
<1>. QED BY <1>1, <1>2, <1>3, <1>5, <1>6

(* The tree in memory: its nodes are at their places, ...                  *)
NodeAt(tree, t, c, a) ==
  /\ tree.code[a] = c
  /\ c \in t => /\ tree.node[a].offset = Bits!Rank(c, t) - a \div 2
                /\ \A b \in {0, 1} : tree.node[a].leaf[b] <=> Append(c, b) \notin t
  /\ c \notin t => tree.node[a] = Bits!Rank(c, Bits!Leaves(t))

(* Looking up the place of a node gives that node.                         *)
LEMMA LaidOutNodes ==
  ASSUME NEW t \in Bits!Trees, NEW c \in Nodes(t)
  PROVE  NodeAt(Bits!LaidOut(t), t, c, Bits!Place(t, c))
<1>. DEFINE a == Bits!Place(t, c)
<1>0. a = Bits!Place(t, c)
  OBVIOUS
<1>. HIDE DEF a
<1>1. Bits!CodeAt(t, a) = c
  <2>1. \A d \in t \cup Bits!Leaves(t) : Bits!Place(t, d) = a => d = c
    BY <1>0, Places DEF Nodes
  <2>2. c \in t \cup Bits!Leaves(t) /\ Bits!Place(t, c) = a
    BY <1>0 DEF Nodes
  <2>. QED BY <2>1, <2>2, Zenon DEF Bits!CodeAt
<1>2. a \in 1 .. 2 * Cardinality(t) + 1
  BY <1>0, Places
<1>3. a \in 1 .. 2 * Bits!Cardinality(t) + 1
  BY <1>2, SameCardinality, Zenon
<1>4. Bits!LaidOut(t).code[a] = c /\ Bits!LaidOut(t).node[a] = Bits!NodeByte(t, a)
  BY <1>1, <1>3, Zenon DEF Bits!LaidOut
<1>5. ASSUME c \in t
      PROVE  /\ Bits!NodeByte(t, a).offset = Bits!Rank(c, t) - a \div 2
             /\ \A b \in {0, 1} : Bits!NodeByte(t, a).leaf[b] <=> Append(c, b) \notin t
  <2>1. Bits!NodeByte(t, a) = [offset |-> Bits!Rank(c, t) - a \div 2,
                               leaf |-> [b \in {0, 1} |-> Append(c, b) \notin t]]
    BY <1>0, <1>1, <1>5, Zenon DEF Bits!NodeByte, Bits!Distance
  <2>. DEFINE leaf == [b \in {0, 1} |-> Append(c, b) \notin t]
  <2>2. \A b \in {0, 1} : leaf[b] <=> Append(c, b) \notin t
    BY Zenon
  <2>. DEFINE offset == Bits!Rank(c, t) - a \div 2
  <2>3. Bits!NodeByte(t, a) = [offset |-> offset, leaf |-> leaf]
    BY <2>1, Zenon
  <2>. HIDE DEF leaf, offset
  <2>4. Bits!NodeByte(t, a).leaf = leaf /\ Bits!NodeByte(t, a).offset = offset
    BY <2>3
  <2>. QED BY <2>2, <2>4, Zenon DEF offset
<1>6. ASSUME c \notin t PROVE Bits!NodeByte(t, a) = Bits!Rank(c, Bits!Leaves(t))
  BY <1>1, <1>6, Zenon DEF Bits!NodeByte
<1>. QED BY <1>0, <1>4, <1>5, <1>6, Zenon DEF NodeAt

(* ... and the value of a leaf stands for its code.                        *)
LEMMA LaidOutSymbols ==
  ASSUME NEW t \in Bits!Trees, NEW c \in Bits!Leaves(t)
  PROVE  /\ Bits!Rank(c, Bits!Leaves(t)) \in Nat /\ Bits!Rank(c, Bits!Leaves(t)) < 2^ByteBits
         /\ Bits!LaidOut(t).symbol[Bits!Rank(c, Bits!Leaves(t))] = c
<1>. DEFINE ls == Bits!Leaves(t)
            v  == Bits!Rank(c, ls)
<1>1. ls \subseteq Code /\ IsFiniteSet(ls) /\ c \in ls
  BY TreeFacts
<1>2. Cardinality(ls) <= 2^ByteBits
  BY SameCardinality, Zenon DEF Bits!Trees
<1>3. 2^ByteBits \in Nat
  <2>1. Dividing(ByteBits)
    BY BitsAssumption DEF Dividing
  <2>2. ByteBits \in 0 .. WordBits
    BY <2>1, WordOf, Powers
  <2>. QED BY <2>2, Powers
<1>. HIDE DEF ls
<1>4. /\ Cardinality(ls) \in Nat /\ v \in Nat /\ v < Cardinality(ls)
      /\ \A d \in ls : Bits!Rank(d, ls) = v => d = c
  BY <1>1, Ranks
<1>5. v \in 0 .. Cardinality(ls) - 1
  BY <1>4
<1>6. v \in 0 .. Bits!Cardinality(ls) - 1
  BY <1>5, SameCardinality, Zenon
<1>7. (CHOOSE d \in ls : Bits!Rank(d, ls) = v) = c
  BY <1>1, <1>4, Zenon
<1>8. Bits!LaidOut(t).symbol[v] = c
  BY <1>6, <1>7, Zenon DEF Bits!LaidOut, ls
<1>. QED BY <1>2, <1>3, <1>4, <1>8 DEF ls

-----------------------------------------------------------------------------
(* HuffUnComp: the codes of the first n values, one after the other.       *)
Recodes(f, n, tree, w, o) ==
  f = [i \in 0 .. n |-> IF i = 0 THEN <<>>
                        ELSE f[i - 1] \o tree.symbol[OutputOf(w, o, i - 1, ByteBits)]]

(* There is one way to code them.                                          *)
LEMMA OneCoding ==
  ASSUME NEW n \in Nat, NEW tree, NEW w, NEW o, NEW f, NEW g,
         Recodes(f, n, tree, w, o), Recodes(g, n, tree, w, o)
  PROVE  f = g
<1>. DEFINE S(i) == tree.symbol[OutputOf(w, o, i, ByteBits)]
            T == {i \in 0 .. n : f[i] # g[i]}
<1>1. /\ f = [i \in 0 .. n |-> IF i = 0 THEN <<>> ELSE f[i - 1] \o S(i - 1)]
      /\ g = [i \in 0 .. n |-> IF i = 0 THEN <<>> ELSE g[i - 1] \o S(i - 1)]
  BY Zenon DEF Recodes
<1>. HIDE DEF S
<1>2. CASE T = {}
  <2>1. \A i \in 0 .. n : f[i] = g[i]
    BY <1>2
  <2>2. DOMAIN f = 0 .. n /\ DOMAIN g = 0 .. n
    BY <1>1, Zenon
  <2>3. f = [i \in 0 .. n |-> f[i]] /\ g = [i \in 0 .. n |-> g[i]]
    BY <1>1, <2>2
  <2>4. [i \in 0 .. n |-> f[i]] = [i \in 0 .. n |-> g[i]]
    BY <2>1
  <2>. QED BY <2>3, <2>4, Zenon
<1>3. CASE T # {}
  <2>1. T \subseteq Nat
    OBVIOUS
  <2>2. PICK i \in T : \A j \in T : i <= j
    <3>. HIDE DEF T
    <3>. QED BY <1>3, <2>1, SmallestNat
  <2>3. i \in 0 .. n /\ f[i] # g[i]
    OBVIOUS
  <2>4. /\ f[i] = IF i = 0 THEN <<>> ELSE f[i - 1] \o S(i - 1)
        /\ g[i] = IF i = 0 THEN <<>> ELSE g[i - 1] \o S(i - 1)
    BY <1>1, <2>3, Zenon
  <2>5. CASE i = 0
    BY <2>3, <2>4, <2>5, Zenon
  <2>6. CASE i # 0
    <3>1. i - 1 \in 0 .. n /\ ~(i <= i - 1)
      BY <2>3, <2>6
    <3>2. f[i - 1] = g[i - 1]
      <4>1. i - 1 \notin T
        <5>. HIDE DEF T
        <5>. QED BY <2>2, <3>1
      <4>. QED BY <3>1, <4>1
    <3>. QED BY <2>3, <2>4, <2>6, <3>2, Zenon
  <2>. QED BY <2>5, <2>6
<1>. QED BY <1>2, <1>3

(* At the node with code c, after n values whose codes are f: the stream   *)
(* is the codes of the values and the way down to the node.                *)
HuffAt(t, c, n, f) ==
  /\ job.tree = Bits!LaidOut(t) /\ node_addr = Bits!Place(t, c)
  /\ Gathered(written, out_word, out_bits, ByteBits, n)
  /\ Recodes(f, n, job.tree, written, out_word)
  /\ f[n] \in Code /\ f[n] \o c = stream

BitsRead == /\ stream \in Code /\ data_word \in Nat /\ bit_pos \in Nat /\ bit_pos < WordBits
            /\ data_word * WordBits + bit_pos = Len(stream)

HuffInv == job.kind = "huff" => /\ job.width = ByteBits /\ BitsRead
                                /\ \E t \in Bits!Trees : \E c \in t, n \in Nat : \E f : HuffAt(t, c, n, f)

(* A word is made of bytes.                                                *)
LEMMA BytesDivide == Dividing(ByteBits) /\ ByteBits \in Nat /\ ByteBits > 0
  BY BitsAssumption DEF Dividing

(* The number of values is what the lengths say.                           *)
LEMMA OutputsAre ==
  ASSUME NEW n, Gathered(written, out_word, out_bits, ByteBits, n)
  PROVE  Bits!Outputs(ByteBits) = n /\ n \in Nat
<1>. DEFINE m == PerWord(ByteBits)
            q == n \div m
            r == n % m
            d == ByteBits
<1>1. d \in Nat /\ d > 0 /\ m \in Nat /\ m > 0 /\ WordBits = d * m
  BY BytesDivide, WordOf
<1>2. n \in Nat /\ Len(written) = q /\ out_bits = r * d
  BY DEF Gathered
<1>3. q \in Nat /\ r \in Nat /\ n = m * q + r
  <2>. HIDE DEF m
  <2>. QED BY <1>1, <1>2, Divided
<1>4. Len(written) * WordBits + out_bits = d * n + 0 /\ d * n \in Nat
  <2>. HIDE DEF m, q, r, d
  <2>1. q * (d * m) + r * d = d * (m * q + r)
    BY <1>1, <1>3
  <2>2. d * n \in Nat
    BY <1>1, <1>2
  <2>3. Len(written) * WordBits + out_bits = q * (d * m) + r * d
    BY <1>1, <1>2, Zenon
  <2>. QED BY <1>3, <2>1, <2>2, <2>3
<1>5. (Len(written) * WordBits + out_bits) \div d = n
  <2>. DEFINE a == Len(written) * WordBits + out_bits
  <2>1. a = d * n + 0 /\ a \in Nat
    BY <1>4
  <2>. HIDE DEF a, d
  <2>2. a \div d = n
    BY <1>1, <1>2, <2>1, OnlyQuotient
  <2>. QED BY <2>2 DEF a
<1>. QED BY <1>2, <1>5, Zenon DEF Bits!Outputs

(* From there, coding the values gives back the stream.                    *)
LEMMA HuffInvDecodes == HuffInv => Bits!HuffDecoded
<1>. SUFFICES ASSUME HuffInv, job.kind = "huff"
              PROVE  /\ Bits!Recoded[Bits!Outputs(job.width)] \o job.tree.code[node_addr] = stream
                     /\ data_word * WordBits + bit_pos = Len(stream)
  BY Zenon DEF Bits!HuffDecoded
<1>1. PICK t \in Bits!Trees : \E c \in t, n \in Nat : \E f : HuffAt(t, c, n, f)
  BY DEF HuffInv
<1>a. PICK c \in t, n \in Nat : \E f : HuffAt(t, c, n, f)
  BY <1>1
<1>2. PICK f : HuffAt(t, c, n, f)
  BY <1>a
<1>3. job.width = ByteBits /\ BitsRead
  BY DEF HuffInv
<1>4. Bits!Outputs(job.width) = n
  BY <1>2, <1>3, OutputsAre DEF HuffAt
<1>5. Recodes(Bits!Recoded, n, job.tree, written, out_word)
  <2>. DEFINE E(g) == Recodes(g, n, job.tree, written, out_word)
  <2>1. E(f)
    BY <1>2 DEF HuffAt
  <2>2. Bits!Recoded = CHOOSE g : E(g)
    BY <1>3, <1>4, Zenon DEF Bits!Recoded, Recodes, Bits!Output, OutputOf
  <2>. HIDE DEF E
  <2>3. E(CHOOSE g : E(g))
    BY <2>1, Zenon
  <2>4. E(Bits!Recoded)
    BY <2>2, <2>3, Zenon
  <2>. QED BY <2>4 DEF E
<1>6. Bits!Recoded = f
  BY <1>2, <1>5, OneCoding DEF HuffAt
<1>7. job.tree.code[node_addr] = c
  <2>1. NodeAt(Bits!LaidOut(t), t, c, Bits!Place(t, c))
    BY LaidOutNodes DEF Nodes
  <2>. QED BY <1>2, <2>1 DEF HuffAt, NodeAt
<1>8. f[n] \o c = stream
  BY <1>2 DEF HuffAt
<1>. QED BY <1>3, <1>4, <1>6, <1>7, <1>8 DEF BitsRead

(* The call starts at the root with nothing put out, ...                   *)
LEMMA StartHuff ==
  ASSUME IdleInv, job = Bits!Idle,
         NEW tree \in Bits!LaidOutTrees, NEW size, Bits!HuffUnComp(tree, ByteBits, size)
  PROVE  HuffInv'
<1>1. PICK t \in Bits!Trees : tree = Bits!LaidOut(t)
  BY DEF Bits!LaidOutTrees
<1>2. /\ job'.tree = tree /\ job'.width = ByteBits
      /\ node_addr' = 1 /\ data_word' = 0 /\ bit_pos' = 0 /\ stream' = <<>>
      /\ written' = <<>> /\ out_word' = 0 /\ out_bits' = 0
  BY DEF Bits!HuffUnComp, Bits!NoOutput, IdleInv
<1>. DEFINE f == [i \in 0 .. 0 |-> <<>>]
<1>3. <<>> \in t /\ Bits!Place(t, <<>>) = 1
  BY TreeFacts, Places
<1>4. Gathered(written', out_word', out_bits', ByteBits, 0)
  BY <1>2, BytesDivide, NothingGathered
<1>5. Recodes(f, 0, job'.tree, written', out_word')
  <2>1. \A i \in 0 .. 0 : i = 0
    OBVIOUS
  <2>. QED BY <2>1 DEF Recodes
<1>6. f[0] = <<>> /\ <<>> \in Code /\ <<>> \o <<>> = <<>>
  BY DEF Code
<1>. HIDE DEF f
<1>7. /\ job'.tree = Bits!LaidOut(t) /\ node_addr' = Bits!Place(t, <<>>)
      /\ f[0] \in Code /\ f[0] \o <<>> = stream'
  BY <1>1, <1>2, <1>3, <1>6, Zenon
<1>8. HuffAt(t, <<>>, 0, f)'
  BY <1>4, <1>5, <1>7, Zenon DEF HuffAt
<1>9. BitsRead'
  <2>1. 0 * WordBits + 0 = 0 /\ 0 < WordBits /\ Len(<<>>) = 0
    BY Powers
  <2>. QED BY <1>2, <1>6, <2>1 DEF BitsRead
<1>10. (\E h \in Bits!Trees : \E c \in h, n \in Nat : \E g : HuffAt(h, c, n, g))'
  <2>1. 0 \in Nat
    OBVIOUS
  <2>. QED BY <1>3, <1>8, <2>1, Zenon
<1>. QED BY <1>2, <1>9, <1>10, Zenon DEF HuffInv

(* ... the bits come one after the other, ...                              *)
LEMMA BitRead ==
  ASSUME BitsRead, NEW b \in {0, 1}, stream' = Append(stream, b),
         IF bit_pos + 1 >= WordBits THEN bit_pos' = 0 /\ data_word' = data_word + 1
         ELSE bit_pos' = bit_pos + 1 /\ UNCHANGED data_word
  PROVE  BitsRead'
<1>. DEFINE w == data_word
            p == bit_pos
            n == Len(stream)
            dw == w * WordBits
<1>1. /\ w \in Nat /\ p \in Nat /\ p < WordBits /\ WordBits \in Nat
      /\ dw + p = n /\ stream \in Code
  BY Powers DEF BitsRead
<1>2. n \in Nat /\ stream' \in Code /\ Len(stream') = n + 1
  BY <1>1 DEF Code
<1>3. dw \in Nat /\ (w + 1) * WordBits = dw + WordBits
  BY <1>1
<1>4. CASE p + 1 >= WordBits
  <2>1. bit_pos' = 0 /\ data_word' = w + 1
    BY <1>4
  <2>2. data_word' * WordBits = dw + WordBits
    BY <1>3, <2>1
  <2>3. WordBits > 0
    BY Powers
  <2>. HIDE DEF dw, n
  <2>. QED BY <1>1, <1>2, <1>3, <1>4, <2>1, <2>2, <2>3 DEF BitsRead
<1>5. CASE ~(p + 1 >= WordBits)
  <2>1. bit_pos' = p + 1 /\ data_word' = w
    BY <1>5
  <2>2. data_word' * WordBits = dw
    BY <2>1
  <2>. HIDE DEF dw, n
  <2>. QED BY <1>1, <1>2, <1>3, <1>5, <2>1, <2>2 DEF BitsRead
<1>. QED BY <1>4, <1>5

(* ... each is a step down the tree, ...                                   *)
LEMMA StepDown ==
  ASSUME NEW t \in Bits!Trees, NEW c \in t, NEW b \in {0, 1},
         job.tree = Bits!LaidOut(t), node_addr = Bits!Place(t, c)
  PROVE  /\ job.tree.node[node_addr].leaf[b] <=> Append(c, b) \notin t
         /\ Bits!child_base(job.tree.node[node_addr]) + b = Bits!Place(t, Append(c, b))
         /\ Append(c, b) \in Nodes(t)
<1>. DEFINE node == job.tree.node[node_addr]
            a == node_addr
            r == Bits!Rank(c, t)
<1>1. c \in Nodes(t)
  BY DEF Nodes
<1>2. node.offset = r - a \div 2 /\ (node.leaf[b] <=> Append(c, b) \notin t)
  <2>1. NodeAt(Bits!LaidOut(t), t, c, Bits!Place(t, c))
    BY <1>1, LaidOutNodes
  <2>2. NodeAt(job.tree, t, c, node_addr)
    BY <2>1, Zenon
  <2>. QED BY <2>2, Zenon DEF NodeAt
<1>3. /\ r \in Nat /\ Bits!Place(t, Append(c, b)) = 2 * (r + 1) + b
      /\ a \in 1 .. 2 * Cardinality(t) + 1 /\ Cardinality(t) \in Nat
  BY <1>1, Places
<1>4. a \in Nat /\ a \div 2 \in Nat
  BY <1>3
<1>5. Bits!child_base(node) = 2 * (a \div 2) + (node.offset + 1) * 2
  BY Zenon DEF Bits!child_base
<1>6. Append(c, b) \in Nodes(t)
  BY TreeFacts
<1>. HIDE DEF node, a, r
<1>7. Bits!child_base(node) + b = 2 * (r + 1) + b
  <2>. DEFINE h == a \div 2
  <2>1. h \in Nat /\ node.offset = r - h /\ Bits!child_base(node) = 2 * h + (node.offset + 1) * 2
    BY <1>2, <1>4, <1>5
  <2>. HIDE DEF h
  <2>. QED BY <1>3, <2>1
<1>. QED BY <1>2, <1>3, <1>6, <1>7, Zenon DEF node

(* ... and a leaf is put out.                                              *)
LeafPut(tree, n, f, w, o, w2, o2, s) ==
  /\ Recodes(f, n, tree, w, o) /\ SameValues(w, o, w2, o2, ByteBits, n)
  /\ tree.symbol[OutputOf(w2, o2, n, ByteBits)] = s
LeafCoded(tree, n, f, w2, o2, s) ==
  \E g : Recodes(g, n + 1, tree, w2, o2) /\ g[n + 1] = f[n] \o s
LEMMA LeafOut ==
  ASSUME NEW tree, NEW n \in Nat, NEW f, NEW w, NEW o, NEW w2, NEW o2, NEW s,
         LeafPut(tree, n, f, w, o, w2, o2, s)
  PROVE  LeafCoded(tree, n, f, w2, o2, s)
<1>0. /\ Recodes(f, n, tree, w, o)
      /\ SameValues(w, o, w2, o2, ByteBits, n)
      /\ tree.symbol[OutputOf(w2, o2, n, ByteBits)] = s
  BY DEF LeafPut
<1>. DEFINE S(i) == tree.symbol[OutputOf(w, o, i, ByteBits)]
            S2(i) == tree.symbol[OutputOf(w2, o2, i, ByteBits)]
            g == [i \in 0 .. n + 1 |-> IF i = n + 1 THEN f[n] \o s ELSE f[i]]
<1>1. f = [i \in 0 .. n |-> IF i = 0 THEN <<>> ELSE f[i - 1] \o S(i - 1)]
  BY <1>0, Zenon DEF Recodes
<1>2. ASSUME NEW i \in Nat, i < n PROVE S2(i) = S(i)
  <2>1. OutputOf(w2, o2, i, ByteBits) = OutputOf(w, o, i, ByteBits)
    BY <1>0, <1>2, Zenon DEF SameValues
  <2>. QED BY <2>1, Zenon
<1>3. S2(n) = s
  BY <1>0
<1>. HIDE DEF S, S2
<1>4. ASSUME NEW i \in 0 .. n + 1
      PROVE  g[i] = IF i = 0 THEN <<>> ELSE g[i - 1] \o S2(i - 1)
  <2>1. CASE i = 0
    <3>1. 0 \in 0 .. n /\ 0 \in 0 .. n + 1 /\ 0 # n + 1
      OBVIOUS
    <3>2. g[0] = f[0]
      BY <3>1, Zenon
    <3>3. f[0] = <<>>
      BY <1>1, <3>1, Zenon
    <3>. QED BY <2>1, <3>2, <3>3, Zenon
  <2>2. CASE i # 0 /\ i # n + 1
    <3>1. i \in 0 .. n /\ i - 1 \in 0 .. n + 1 /\ i - 1 # n + 1 /\ i - 1 \in Nat /\ i - 1 < n
      BY <2>2
    <3>2. g[i] = f[i] /\ g[i - 1] = f[i - 1]
      BY <2>2, <3>1, Zenon
    <3>3. f[i] = f[i - 1] \o S(i - 1)
      BY <1>1, <2>2, <3>1, Zenon
    <3>4. S2(i - 1) = S(i - 1)
      BY <1>2, <3>1, Zenon
    <3>. QED BY <2>2, <3>2, <3>3, <3>4, Zenon
  <2>3. CASE i = n + 1
    <3>1. i - 1 = n /\ n \in 0 .. n + 1 /\ n # n + 1 /\ i # 0
      BY <2>3
    <3>2. g[i] = f[n] \o s
      BY <2>3, Zenon
    <3>3. g[n] = f[n]
      BY <3>1, Zenon
    <3>. QED BY <1>3, <3>1, <3>2, <3>3, Zenon
  <2>. QED BY <2>1, <2>2, <2>3
<1>5. g = [i \in 0 .. n + 1 |-> g[i]]
  BY Zenon
<1>6. g[n + 1] = f[n] \o s
  <2>1. n + 1 \in 0 .. n + 1
    OBVIOUS
  <2>. QED BY <2>1, Zenon
<1>. HIDE DEF g
<1>7. g = [i \in 0 .. n + 1 |-> IF i = 0 THEN <<>> ELSE g[i - 1] \o S2(i - 1)]
  <2>1. [i \in 0 .. n + 1 |-> g[i]] = [i \in 0 .. n + 1 |-> IF i = 0 THEN <<>> ELSE g[i - 1] \o S2(i - 1)]
    BY <1>4
  <2>. QED BY <1>5, <2>1, Zenon
<1>8. Recodes(g, n + 1, tree, w2, o2)
  BY <1>7, Zenon DEF Recodes, S2
<1>. QED BY <1>6, <1>8, Zenon DEF LeafCoded

Associates(p, q, r) == (p \o q) \o r = p \o (q \o r)

(* Sequences of bits join in any order.                                    *)
LEMMA CodesJoin ==
  ASSUME NEW p \in Code, NEW q \in Code
  PROVE  /\ p \o q \in Code /\ p \o <<>> = p
         /\ \A r \in Code : Associates(p, q, r)
<1>1. p \o q \in Code /\ p \o <<>> = p
  BY ConcatProperties, ConcatEmptySeq DEF Code
<1>2. ASSUME NEW r \in Code PROVE Associates(p, q, r)
  BY ConcatAssociative DEF Code, Associates
<1>. QED BY <1>1, <1>2

(* So a step keeps to the stream.                                          *)
LEMMA HuffBitKept ==
  ASSUME HuffInv, NEW b \in {0, 1}, Bits!HuffBit(b)
  PROVE  HuffInv'
<1>. DEFINE next == Bits!child_base(job.tree.node[node_addr]) + b
<1>1. /\ job.kind = "huff" /\ job' = job /\ stream' = Append(stream, b)
      /\ IF bit_pos + 1 >= WordBits THEN bit_pos' = 0 /\ data_word' = data_word + 1
         ELSE bit_pos' = bit_pos + 1 /\ UNCHANGED data_word
      /\ IF job.tree.node[node_addr].leaf[b]
         THEN Bits!Emit(job.tree.node[next], job.width) /\ node_addr' = 1
         ELSE node_addr' = next /\ Bits!NoOutput
  BY Zenon DEF Bits!HuffBit
<1>2. /\ job.width = ByteBits /\ BitsRead
      /\ \E t \in Bits!Trees : \E c \in t, n \in Nat : \E f : HuffAt(t, c, n, f)
  BY <1>1, Zenon DEF HuffInv
<1>3. BitsRead'
  BY <1>1, <1>2, BitRead
<1>4. PICK t \in Bits!Trees : \E c \in t, n \in Nat : \E f : HuffAt(t, c, n, f)
  BY <1>2
<1>5. PICK c \in t, n \in Nat : \E f : HuffAt(t, c, n, f)
  BY <1>4
<1>6. PICK f : HuffAt(t, c, n, f)
  BY <1>5
<1>7. /\ job.tree = Bits!LaidOut(t) /\ node_addr = Bits!Place(t, c)
      /\ Gathered(written, out_word, out_bits, ByteBits, n)
      /\ Recodes(f, n, job.tree, written, out_word)
      /\ f[n] \in Code /\ f[n] \o c = stream
  BY <1>6, Zenon DEF HuffAt
<1>. DEFINE x == Append(c, b)
<1>8. /\ job.tree.node[node_addr].leaf[b] <=> x \notin t
      /\ next = Bits!Place(t, x) /\ x \in Nodes(t)
  BY <1>7, StepDown
<1>9. c \in Code /\ x \in Code
  BY TreeFacts, ParentIs
<1>10. f[n] \o x = stream'
  <2>1. x = c \o <<b>> /\ Append(f[n] \o c, b) = (f[n] \o c) \o <<b>>
    BY <1>7, <1>9, ConcatProperties, AppendIsConcat DEF Code
  <2>2. <<b>> \in Code
    BY DEF Code
  <2>3. (f[n] \o c) \o <<b>> = f[n] \o (c \o <<b>>)
    <3>1. f[n] \in Code /\ c \in Code /\ <<b>> \in Code
      BY <1>7, <1>9, <2>2, Zenon
    <3>2. Associates(f[n], c, <<b>>)
      BY <3>1, CodesJoin
    <3>. QED BY <3>2, Zenon DEF Associates
  <2>. QED BY <1>1, <1>7, <2>1, <2>3, Zenon
<1>. HIDE DEF next, x
<1>11. CASE x \notin t
  <2>1. Bits!Emit(job.tree.node[next], ByteBits) /\ node_addr' = 1
    BY <1>1, <1>2, <1>8, <1>11, Zenon
  <2>2. x \in Bits!Leaves(t)
    BY <1>8, <1>11 DEF Nodes
  <2>. DEFINE v == job.tree.node[next]
  <2>3. v = Bits!Rank(x, Bits!Leaves(t))
    <3>1. NodeAt(Bits!LaidOut(t), t, x, Bits!Place(t, x))
      BY <1>8, LaidOutNodes
    <3>2. NodeAt(job.tree, t, x, next)
      BY <1>7, <1>8, <3>1, Zenon
    <3>. QED BY <1>11, <3>2, Zenon DEF NodeAt
  <2>4. v \in Nat /\ v < 2^ByteBits /\ job.tree.symbol[v] = x
    BY <1>7, <2>2, <2>3, LaidOutSymbols
  <2>. HIDE DEF v
  <2>5. Emits(written, out_word, out_bits, ByteBits, v, written', out_word', out_bits')
    BY <2>1, EmitIs DEF v
  <2>6. /\ Gathered(written', out_word', out_bits', ByteBits, n + 1)
        /\ OutputOf(written', out_word', n, ByteBits) = v
        /\ SameValues(written, out_word, written', out_word', ByteBits, n)
    BY <1>7, <2>4, <2>5, BytesDivide, Gathers
  <2>7. job.tree.symbol[OutputOf(written', out_word', n, ByteBits)] = x
    BY <2>4, <2>6, Zenon
  <2>8. PICK g : Recodes(g, n + 1, job.tree, written', out_word') /\ g[n + 1] = f[n] \o x
    <3>1. /\ Recodes(f, n, job.tree, written, out_word)
          /\ SameValues(written, out_word, written', out_word', ByteBits, n)
      BY <1>7, <2>6, Zenon
    <3>2. LeafPut(job.tree, n, f, written, out_word, written', out_word', x)
      BY <2>7, <3>1, Zenon DEF LeafPut
    <3>3. LeafCoded(job.tree, n, f, written', out_word', x)
      BY <3>2, LeafOut, Zenon
    <3>. QED BY <3>3, Zenon DEF LeafCoded
  <2>9. f[n] \o x \in Code /\ (f[n] \o x) \o <<>> = f[n] \o x
    BY <1>7, <1>9, CodesJoin, Zenon
  <2>10. <<>> \in t /\ Bits!Place(t, <<>>) = 1
    BY TreeFacts, Places
  <2>11. /\ job'.tree = Bits!LaidOut(t) /\ node_addr' = Bits!Place(t, <<>>)
         /\ Recodes(g, n + 1, job'.tree, written', out_word')
         /\ g[n + 1] \in Code /\ g[n + 1] \o <<>> = stream'
    BY <1>1, <1>7, <1>10, <2>1, <2>8, <2>9, <2>10, Zenon
  <2>12. HuffAt(t, <<>>, n + 1, g)'
    BY <2>6, <2>11, Zenon DEF HuffAt
  <2>13. n + 1 \in Nat
    OBVIOUS
  <2>14. (\E h \in Bits!Trees : \E e \in h, i \in Nat : \E k : HuffAt(h, e, i, k))'
    BY <2>10, <2>12, <2>13, Zenon
  <2>. QED BY <1>1, <1>2, <1>3, <2>14, Zenon DEF HuffInv
<1>12. CASE x \in t
  <2>1. node_addr' = next /\ written' = written /\ out_word' = out_word /\ out_bits' = out_bits
    BY <1>1, <1>8, <1>12, Zenon DEF Bits!NoOutput
  <2>2. /\ job'.tree = Bits!LaidOut(t) /\ node_addr' = Bits!Place(t, x)
        /\ Gathered(written', out_word', out_bits', ByteBits, n)
        /\ Recodes(f, n, job'.tree, written', out_word')
        /\ f[n] \in Code /\ f[n] \o x = stream'
    BY <1>1, <1>7, <1>8, <1>10, <2>1, Zenon
  <2>3. HuffAt(t, x, n, f)'
    BY <2>2, Zenon DEF HuffAt
  <2>4. (\E h \in Bits!Trees : \E e \in h, i \in Nat : \E k : HuffAt(h, e, i, k))'
    BY <1>12, <2>3, Zenon
  <2>. QED BY <1>1, <1>2, <1>3, <2>4, Zenon DEF HuffInv
<1>. QED BY <1>11, <1>12

-----------------------------------------------------------------------------
(* All of it, through every step of the computations.                      *)
BitCallsInv == IdleInv /\ BitsInv /\ HuffInv

(* It holds before the first call, ...                                     *)
LEMMA BitCallsInit == CInit => BitCallsInv
  BY DEF CInit, Bits!UInit, Bits!Idle, BitCallsInv, IdleInv, BitsInv, HuffInv

(* ... while other computations run, ...                                   *)
LEMMA BitCallsSame == BitCallsInv /\ UNCHANGED bitvars => BitCallsInv'
<1>. SUFFICES ASSUME BitCallsInv, UNCHANGED bitvars PROVE BitCallsInv'
  OBVIOUS
<1>1. /\ job' = job /\ node_addr' = node_addr /\ data_word' = data_word /\ bit_pos' = bit_pos
      /\ src_byte' = src_byte /\ out_word' = out_word /\ out_bits' = out_bits
      /\ written' = written /\ stream' = stream
  BY DEF bitvars
<1>2. IdleInv'
  BY <1>1 DEF BitCallsInv, IdleInv
<1>3. BitsInv'
  BY <1>1 DEF BitCallsInv, BitsInv, Reading, Flushed
<1>4. HuffInv'
  <2>1. \A t, c, n, f : HuffAt(t, c, n, f)' <=> HuffAt(t, c, n, f)
    BY <1>1, Zenon DEF HuffAt
  <2>2. BitsRead' <=> BitsRead
    BY <1>1, Zenon DEF BitsRead
  <2>. QED BY <1>1, <2>1, <2>2, Zenon DEF BitCallsInv, HuffInv
<1>. QED BY <1>2, <1>3, <1>4 DEF BitCallsInv

(* ... and through each step of a call.                                    *)
LEMMA BitCallsStep == BitCallsInv /\ Bits!UNext => BitCallsInv'
<1>. SUFFICES ASSUME BitCallsInv, Bits!UNext PROVE BitCallsInv'
  OBVIOUS
<1>1. ASSUME NEW tree \in Bits!LaidOutTrees, NEW size \in HuffSizes, job = Bits!Idle,
             Bits!HuffUnComp(tree, ByteBits, size)
      PROVE  BitCallsInv'
  <2>1. HuffInv'
    BY <1>1, StartHuff DEF BitCallsInv
  <2>2. job'.kind = "huff"
    BY <1>1 DEF Bits!HuffUnComp
  <2>. QED BY <2>1, <2>2 DEF BitCallsInv, IdleInv, BitsInv, Bits!Idle
<1>2. ASSUME NEW len \in SrcLens, NEW s \in Widths, NEW d \in Widths, NEW o \in Offsets,
             NEW z \in BOOLEAN, job = Bits!Idle, s <= ByteBits, Bits!BitUnPack(len, s, d, o, z)
      PROVE  BitCallsInv'
  <2>1. BitsInv'
    BY <1>2, StartBits DEF BitCallsInv
  <2>2. job'.kind = "bits"
    BY <1>2 DEF Bits!BitUnPack
  <2>. QED BY <2>1, <2>2 DEF BitCallsInv, IdleInv, HuffInv, Bits!Idle
<1>3. ASSUME NEW b \in {0, 1}, Bits!HuffBit(b) PROVE BitCallsInv'
  <2>1. HuffInv'
    BY <1>3, HuffBitKept DEF BitCallsInv
  <2>2. job'.kind = "huff"
    BY <1>3, Zenon DEF Bits!HuffBit
  <2>. QED BY <2>1, <2>2 DEF BitCallsInv, IdleInv, BitsInv, Bits!Idle
<1>4. ASSUME NEW v \in 0 .. 2^ByteBits - 1, Bits!ReadByte(v) PROVE BitCallsInv'
  <2>1. BitsInv'
    BY <1>4, ByteBitsKept DEF BitCallsInv
  <2>2. job'.kind = "bits"
    BY <1>4, Zenon DEF Bits!ReadByte
  <2>. QED BY <2>1, <2>2 DEF BitCallsInv, IdleInv, HuffInv, Bits!Idle
<1>5. ASSUME Bits!UnpackValue PROVE BitCallsInv'
  <2>1. BitsInv'
    BY <1>5, ValueBitsKept DEF BitCallsInv
  <2>2. job'.kind = "bits"
    BY <1>5, Zenon DEF Bits!UnpackValue
  <2>. QED BY <2>1, <2>2 DEF BitCallsInv, IdleInv, HuffInv, Bits!Idle
<1>6. ASSUME Bits!UReturn PROVE BitCallsInv'
  <2>1. BitsInv' /\ IdleInv'
    BY <1>6, ReturnBitsKept DEF BitCallsInv
  <2>2. job' = Bits!Idle \/ job'.kind = "bits"
    BY <1>6 DEF Bits!UReturn
  <2>. QED BY <2>1, <2>2 DEF BitCallsInv, HuffInv, Bits!Idle
<1>7. CASE Bits!UCall
  BY <1>1, <1>2, <1>7 DEF Bits!UCall
<1>8. CASE Bits!UStep
  BY <1>3, <1>4, <1>5, <1>6, <1>8 DEF Bits!UStep
<1>. QED BY <1>7, <1>8 DEF Bits!UNext

(* So it holds throughout.                                                 *)
LEMMA BitCallsInvariant == CSpec => []BitCallsInv
<1>1. BitCallsInv /\ [CNext]_cvars => BitCallsInv'
  <2>. SUFFICES ASSUME BitCallsInv, [CNext]_cvars PROVE BitCallsInv'
    OBVIOUS
  <2>1. CASE Bits!UNext
    BY <2>1, BitCallsStep
  <2>2. CASE UNCHANGED bitvars
    BY <2>2, BitCallsSame
  <2>. QED BY <2>1, <2>2 DEF CNext, cvars, Bytes, OnBits
<1>. QED BY <1>1, BitCallsInit, PTL DEF CSpec

(* Whatever stream follows and however the tree has grown, coding what     *)
(* HuffUnComp has put out gives back the bits it has read; and every value *)
(* that BitUnPack puts out is its packed value with the offset, for every  *)
(* width that divides a word.                                              *)
THEOREM BitsAreUnpacked == CSpec => [](Bits!HuffDecoded /\ Bits!BitsUnpacked)
<1>1. BitCallsInv => Bits!HuffDecoded /\ Bits!BitsUnpacked
  <2>. SUFFICES ASSUME BitCallsInv PROVE Bits!HuffDecoded /\ Bits!BitsUnpacked
    OBVIOUS
  <2>1. Bits!HuffDecoded
    BY HuffInvDecodes DEF BitCallsInv
  <2>2. Bits!BitsUnpacked
    BY AllUnpackedIs DEF BitCallsInv, BitsInv
  <2>. QED BY <2>1, <2>2
<1>. QED BY <1>1, BitCallsInvariant, PTL

(* Every BIOS call that decompresses, unpacks or calculates leaves behind  *)
(* what it was asked for.                                                  *)
THEOREM CallsAreRight == CSpec => []CallsCompute
<1>1. Decoded /\ (Bits!HuffDecoded /\ Bits!BitsUnpacked) /\ (Math!IsRoot /\ Math!IsQuotient)
        => CallsCompute
  BY DEF CallsCompute
<1>. QED BY <1>1, UnpackDecodes, BitsAreUnpacked, MathIsExact, PTL
=============================================================================
