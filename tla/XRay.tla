-------------------------------- MODULE XRay --------------------------------
(***************************************************************************)
(* The X-Ray window (frontend/xray): opened and closed with a key, and     *)
(* drawn between two frames.  xray_capture_ppu_layers renders every layer  *)
(* of the picture again, alone, with the PPU's own line buffer, beam and   *)
(* reference points, and has to put them back.                             *)
(*                                                                         *)
(* One pixel of every line is followed, all layers being visible there and *)
(* of one priority, with no special effect.  A pixel is the layer it came  *)
(* from and the texture line or, for affine backgrounds, the reference     *)
(* point it was read at.                                                   *)
(* Beside the emulator runs another one without an X-Ray window.           *)
(***************************************************************************)
EXTENDS Naturals, FiniteSets

CONSTANTS VDRAW_LINES, TOTAL_LINES,   \* 160, 228
          Displays,                   \* DISPCNT: [mode, on, blank]
          Refs, Steps,                \* values of reference points and of PB, PD
          MaxWrites                   \* bound: register writes in a frame

Lines  == 0 .. VDRAW_LINES - 1
BG     == 0..3
Affine == 2..3
OBJ    == 4
Backdrop == <<5, 0>>
White    == <<6, 0>>                  \* forced blank
Black    == <<7, 0>>                  \* a cleared buffer

VARIABLES dispcnt, latch, step,       \* registers: bg_ref_latch, bg_pb and bg_pd
          ppu,                        \* [vcount, ref, top, second]
          framebuffer,
          twin,                       \* history: ppu and framebuffer of the other emulator
          between,                    \* main is between two frames; what it does next
          resources, active,          \* XRayState: SDL's objects, and whether it is shown
          layer_bg, layer_obj, layer_map,
          written,                    \* history: registers written in this frame
          taken                       \* history: the layers are of the last frame

xvars == <<dispcnt, latch, step, ppu, framebuffer, twin, between, resources, active,
           layer_bg, layer_obj, layer_map, written, taken>>

SDLObjects == {"window", "renderer", "texture"}
Empty == [l \in Lines |-> Black]

XInit ==
  /\ dispcnt \in Displays
  /\ latch = [b \in Affine |-> 0] /\ step = [b \in Affine |-> 0]
  /\ ppu = [vcount |-> 0, ref |-> latch, top |-> Black, second |-> Black]
  /\ framebuffer = Empty /\ twin = [ppu |-> ppu, framebuffer |-> Empty]
  /\ between = "no" /\ resources = {} /\ active = FALSE
  /\ layer_bg = [b \in BG |-> Empty] /\ layer_obj = Empty /\ layer_map = [l \in Lines |-> 0]
  /\ written = 0 /\ taken = FALSE

-----------------------------------------------------------------------------
(* ppu_render_bg_regular, _affine, the bitmaps and ppu_render_sprites, as  *)
(* they leave the line buffer: what is covered goes to the second place.   *)
Paint(p, pixel)  == [p EXCEPT !.top = pixel, !.second = p.top]
RegularBg(p, b)  == Paint(p, <<b, p.vcount>>)
AffineBg(p, b)   == Paint(p, <<b, p.ref[b]>>)
Bitmap(p)        == Paint(p, <<2, p.vcount>>)
Sprites(p)       == Paint(p, <<OBJ, p.vcount>>)

(* A background, where the mode has it. *)
IsAffine(b) == (dispcnt.mode = 1 /\ b = 2) \/ (dispcnt.mode = 2 /\ b \in Affine)
Background(p, b) ==
  IF b \notin dispcnt.on THEN p
  ELSE IF IsAffine(b) THEN AffineBg(p, b)
  ELSE IF dispcnt.mode = 0 \/ (dispcnt.mode = 1 /\ b < 2) THEN RegularBg(p, b)
  ELSE IF dispcnt.mode = 3 /\ b = 2 THEN Bitmap(p) ELSE p

Cleared(p) == [p EXCEPT !.top = Backdrop, !.second = Backdrop]
Composed(p) ==
  LET q == Background(Background(Background(Background(Cleared(p), 3), 2), 1), 0)
  IN  IF OBJ \in dispcnt.on THEN Sprites(q) ELSE q

(* ppu_render_scanline of an emulator x: [ppu, framebuffer].  A blank line *)
(* leaves the reference points where they are.                             *)
Scanline(x) ==
  IF dispcnt.blank
  THEN [ppu |-> [x.ppu EXCEPT !.top = White], framebuffer |-> [x.framebuffer EXCEPT ![x.ppu.vcount] = White]]
  ELSE LET p == Composed(x.ppu) IN
       [ppu |-> [p EXCEPT !.ref = [b \in Affine |-> @[b] + step[b]]],
        framebuffer |-> [x.framebuffer EXCEPT ![p.vcount] = p.top]]

(* The rest of a line in gba_run_frame: the beam goes on, and at the start *)
(* of VBlank the reference points go back to their latches.                *)
EndLine(p) == LET v == (p.vcount + 1) % TOTAL_LINES IN
              [p EXCEPT !.vcount = v, !.ref = IF v = VDRAW_LINES THEN latch ELSE @]

Line(x) == LET y == IF x.ppu.vcount < VDRAW_LINES THEN Scanline(x) ELSE x
           IN  [y EXCEPT !.ppu = EndLine(@)]

RunLine ==
  LET x == Line([ppu |-> ppu, framebuffer |-> framebuffer]) IN
  /\ between = "no"
  /\ ppu' = x.ppu /\ framebuffer' = x.framebuffer
  /\ twin' = Line(twin)
  /\ layer_map' = IF active /\ ppu.vcount < VDRAW_LINES /\ ~dispcnt.blank
                  THEN [layer_map EXCEPT ![ppu.vcount] = x.framebuffer[ppu.vcount][1]]
                  ELSE layer_map
  /\ between' = IF x.ppu.vcount = 0 THEN "render" ELSE "no"
  /\ UNCHANGED <<dispcnt, latch, step, resources, active, layer_bg, layer_obj, written, taken>>

-----------------------------------------------------------------------------
(* The program writes DISPCNT, a reference point or its steps, at any line.*)
Writes == /\ between = "no" /\ written < MaxWrites /\ written' = written + 1
          /\ UNCHANGED <<framebuffer, between, resources, active, layer_bg, layer_obj,
                         layer_map, taken>>

WriteDisplay(d) == Writes /\ dispcnt' = d /\ UNCHANGED <<latch, step, ppu, twin>>
WriteSteps(b, v) == Writes /\ step' = [step EXCEPT ![b] = v] /\ UNCHANGED <<dispcnt, latch, ppu, twin>>

WithRef(p, b, v) == [p EXCEPT !.ref = [@ EXCEPT ![b] = v]]
WriteReference(b, v) ==
  /\ Writes
  /\ latch' = [latch EXCEPT ![b] = v] /\ ppu' = WithRef(ppu, b, v)
  /\ twin' = [twin EXCEPT !.ppu = WithRef(@, b, v)]
  /\ UNCHANGED <<dispcnt, step>>

-----------------------------------------------------------------------------
(* The lines of a layer, rendered one after the other by r from ppu p: an  *)
(* affine background's reference point starts at its latch and steps on; a *)
(* bitmap is not rendered, its view stays empty.                           *)
LayerLines(r(_)) == [l \in Lines |-> r([ppu EXCEPT !.vcount = l, !.top = Backdrop]).top]
BgLine(p, b) ==
  LET q == IF IsAffine(b) THEN WithRef(p, b, latch[b] + p.vcount * step[b])
           ELSE [p EXCEPT !.ref = latch]
  IN  IF dispcnt.mode = 3 THEN q ELSE Background(q, b)

\* Mutant: the reference points are not saved.
LeftBehindRefs(p) == [ppu EXCEPT !.ref = p.ref]

(* What the PPU is left as, after the layers were rendered in it: beam,    *)
(* line buffers and reference points are restored.                         *)
LeftBehind(p) ==
  [p EXCEPT !.vcount = ppu.vcount, !.top = ppu.top, !.second = ppu.second, !.ref = ppu.ref]

(* The PPU as the last line of the last layer leaves it. *)
Used ==
  LET last == [ppu EXCEPT !.vcount = VDRAW_LINES - 1, !.top = Backdrop]
      bgs  == {b \in BG : b \in dispcnt.on}
      used == [b \in Affine |-> latch[b] + VDRAW_LINES * step[b]]
      b0   == CHOOSE b \in bgs : \A c \in bgs : c <= b
      afterBg == IF bgs = {} THEN ppu
                 ELSE [BgLine(last, b0) EXCEPT !.ref = [b \in Affine |-> IF b = b0 /\ IsAffine(b) THEN used[b]
                                                                          ELSE latch[b]]]
  IN  IF OBJ \in dispcnt.on THEN Sprites([afterBg EXCEPT !.vcount = VDRAW_LINES - 1, !.top = Backdrop])
      ELSE afterBg

(* xray_render with xray_capture_ppu_layers; the counters and drawings of  *)
(* its panels are left out.                                                *)
xray_render ==
  /\ between = "render" /\ between' = "poll"
  /\ IF active /\ "window" \in resources
     THEN /\ layer_bg' = [b \in BG |-> IF b \in dispcnt.on
                                         THEN LayerLines(LAMBDA p : BgLine(p, b)) ELSE Empty]
          /\ layer_obj' = IF OBJ \in dispcnt.on THEN LayerLines(Sprites) ELSE Empty
          /\ ppu' = LeftBehind(Used)
          /\ taken' = TRUE
     ELSE UNCHANGED <<layer_bg, layer_obj, ppu, taken>>
  /\ UNCHANGED <<dispcnt, latch, step, framebuffer, twin, resources, active, layer_map, written>>

(* xray_create_window: SDL's objects one after the other; when one cannot  *)
(* be made those before it are destroyed.                                  *)
Created(made) == IF made = SDLObjects THEN made ELSE {}
Attempts == {{}, {"window"}, {"window", "renderer"}, SDLObjects}

(* xray_toggle: F2, or the window's close button. *)
xray_toggle ==
  /\ between = "poll"
  /\ IF active THEN active' = FALSE /\ UNCHANGED resources
     ELSE IF "window" \in resources THEN active' = TRUE /\ UNCHANGED resources
     ELSE \E made \in Attempts : /\ resources' = Created(made)
                                 /\ active' = (made = SDLObjects)
  /\ UNCHANGED <<dispcnt, latch, step, ppu, framebuffer, twin, between, layer_bg, layer_obj,
                 layer_map, written, taken>>

(* The next frame; the layers are not looked at again before they are      *)
(* cleared for the next capture.                                           *)
NextFrame ==
  /\ between = "poll" /\ between' = "no" /\ written' = 0 /\ taken' = FALSE
  /\ layer_bg' = [b \in BG |-> Empty] /\ layer_obj' = Empty
  /\ UNCHANGED <<dispcnt, latch, step, ppu, framebuffer, twin, resources, active, layer_map>>

XNext == \/ RunLine \/ xray_render \/ xray_toggle \/ NextFrame
         \/ \E d \in Displays : WriteDisplay(d)
         \/ \E b \in Affine : (\E v \in Refs : WriteReference(b, v)) \/ (\E v \in Steps : WriteSteps(b, v))

-----------------------------------------------------------------------------
(* The X-Ray window only looks: opened, closed or failing to open, at      *)
(* whatever frame, the PPU and the picture are those of an emulator that   *)
(* has none; and it is drawn into only with all that SDL needs for it.     *)
LeavesNoTrace ==
  /\ ppu = twin.ppu /\ framebuffer = twin.framebuffer
  /\ active => resources = SDLObjects
  /\ resources \in {{}, SDLObjects}

(* What it shows is the picture taken apart: after a frame in which the    *)
(* program wrote no register, the layer map names the layer of each pixel, *)
(* and the pixel is also in the view of that layer (bitmaps, which have no *)
(* view of their own, aside).  VRAM, palette and OAM do not change in this *)
(* model: where a program redraws them in VBlank, the views already show   *)
(* what the next picture will.                                             *)
ShowsThePicture ==
  taken /\ active /\ written = 0 /\ dispcnt.mode # 3 /\ ~dispcnt.blank =>
    \A l \in Lines : LET pixel == framebuffer[l] IN
      /\ layer_map[l] = pixel[1]
      /\ pixel[1] \in BG  => layer_bg[pixel[1]][l] = pixel
      /\ pixel[1] = OBJ   => layer_obj[l] = pixel
=============================================================================
