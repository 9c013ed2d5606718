----------------------------- MODULE Compositor -----------------------------
(***************************************************************************)
(* How ppu_render_scanline (ppu/ppu.c) puts one pixel together: the        *)
(* backgrounds and the sprites are painted over one another from the back  *)
(* to the front, each pushing what it covers down to the second place,     *)
(* and the special effect (ppu/effects.c) then works on these two.         *)
(*                                                                         *)
(* What tile maps, affine transforms and OAM come to for this pixel is     *)
(* whether each layer shows there at all, and which shade (one component   *)
(* of its colour) it has.                                                  *)
(***************************************************************************)
EXTENDS Integers

CONSTANTS MaxPrio,    \* the lowest priority (3)
          LastObj,    \* OAM entries 0 to LastObj (127)
          Scenes,     \* what there is to paint
          Blends,     \* the set-ups of the special effect
          Shade       \* the shade of every element

BG   == 0..3
OBJ  == 4
BD   == 5                      \* the backdrop

(* layer numbers in BLDCNT and top_layer *)
LayerOf(e) == IF e[1] = "bg" THEN e[2] ELSE IF e[1] = "obj" THEN OBJ ELSE BD

(* A scene: [mode, blank, on, prio, shows, outside, obj_prio, obj_shows];  *)
(* an effect: [mode, first, second, eva, evb, evy].                        *)

VARIABLES scene,       \* the registers, VRAM and OAM of this pixel
          pc,          \* where ppu_render_scanline is
          prio, item,  \* its loops
          top,         \* scanline_buffer and top_layer: [shade, of]
          second       \* second_pixel, second_layer

vars == <<scene, pc, prio, item, top, second>>

Backdrop == [of |-> <<"bd", 0>>, shade |-> Shade[<<"bd", 0>>]]

Init == /\ scene \in Scenes
        /\ pc = "start" /\ prio = MaxPrio /\ item = 1
        /\ top = Backdrop /\ second = Backdrop

-----------------------------------------------------------------------------
(* A visible pixel of element e, in any of the renderers.                  *)
Paint(e) == /\ top' = [of |-> e, shade |-> Shade[e]]
            /\ second' = top

(* The backgrounds that a mode paints in a pass, and the last of them.     *)
Backgrounds(mode) == IF mode = 0 THEN 4 ELSE IF mode = 1 THEN 3 ELSE IF mode = 2 THEN 2 ELSE 0
LastBg(mode) == IF mode = 1 THEN 2 ELSE 3

(* Everything that is looked at in a pass. *)
Items(mode) == Backgrounds(mode) + LastObj + 1

\* Mutant: the backgrounds of a priority are painted in ascending order.
ItemAscending(mode, i) ==
  IF i <= Backgrounds(mode) THEN <<"bg", LastBg(mode) + i - Backgrounds(mode)>>
  ELSE <<"obj", LastObj + 1 - (i - Backgrounds(mode))>>

(* The i-th item of the pass for a priority: the backgrounds, the one with *)
(* the highest number first, then the sprites, the first OAM entry last.   *)
Item(mode, i) ==
  IF i <= Backgrounds(mode) THEN <<"bg", LastBg(mode) + 1 - i>>
  ELSE <<"obj", LastObj + 1 - (i - Backgrounds(mode))>>

(* A regular background wraps around: it shows unless its tile has the     *)
(* transparent colour here.  An affine one shows nothing outside its map,  *)
(* unless that wraps around.  A sprite shows when it is regular and        *)
(* covers the pixel with a colour that is not transparent.                 *)
RegularShows(b) == b \in scene.on /\ scene.shows[b]
AffineShows(b)  == b \in scene.on /\ scene.shows[b] /\ b \notin scene.outside
ObjectShows(i)  == OBJ \in scene.on /\ scene.obj_shows[i]

Affine == IF scene.mode = 1 THEN {2} ELSE IF scene.mode = 2 THEN {2, 3} ELSE {}
Visible(e) == IF e[1] = "obj" THEN ObjectShows(e[2])
              ELSE IF e[2] \in Affine THEN AffineShows(e[2]) ELSE RegularShows(e[2])
PrioOf(e) == IF e[1] = "bg" THEN scene.prio[e[2]] ELSE scene.obj_prio[e[2]]

(* The bitmap of modes 3 to 5 has no transparent pixels; in mode 5 it does *)
(* not fill the screen.                                                    *)
BitmapShows == 2 \in scene.on /\ (scene.mode \in {3, 4} \/ scene.shows[2])

(* Forced blank is white; a mode above 5 shows the backdrop only.          *)
Start ==
  /\ pc = "start"
  /\ IF scene.blank
     THEN top' = [top EXCEPT !.shade = 31] /\ pc' = "out" /\ UNCHANGED second
     ELSE /\ pc' = IF scene.mode \in 0..5 THEN "passes" ELSE "effect"
          /\ IF scene.mode \in 3..5 /\ BitmapShows THEN Paint(<<"bg", 2>>)
             ELSE UNCHANGED <<top, second>>
  /\ UNCHANGED <<scene, prio, item>>

(* One item of the pass for prio. *)
PaintItem ==
  /\ pc = "passes" /\ item <= Items(scene.mode)
  /\ LET e == Item(scene.mode, item) IN
     IF Visible(e) /\ PrioOf(e) = prio THEN Paint(e) ELSE UNCHANGED <<top, second>>
  /\ item' = item + 1
  /\ UNCHANGED <<scene, pc, prio>>

NextPass ==
  /\ pc = "passes" /\ item > Items(scene.mode)
  /\ IF prio > 0 THEN prio' = prio - 1 /\ item' = 1 /\ UNCHANGED pc
     ELSE pc' = "effect" /\ UNCHANGED <<prio, item>>
  /\ UNCHANGED <<scene, top, second>>

(* Coefficients above 16 count as 16. *)
Coefficient(n) == IF n > 16 THEN 16 ELSE n

(* The effect on a shade a, with shade b in the second place.              *)
Effect(m, a, b) ==
  IF m.mode = 1 THEN LET s == (a * Coefficient(m.eva) + b * Coefficient(m.evb)) \div 16
                     IN  IF s > 31 THEN 31 ELSE s
  ELSE IF m.mode = 2 THEN a + ((31 - a) * Coefficient(m.evy)) \div 16
  ELSE IF m.mode = 3 THEN a - (a * Coefficient(m.evy)) \div 16
  ELSE a

Selected(m) == /\ LayerOf(top.of) \in m.first
               /\ m.mode = 1 => LayerOf(second.of) \in m.second

(* ppu_apply_blend_scanline; the pixel goes to the frame buffer.           *)
ApplyBlend(m) ==
  /\ pc = "effect"
  /\ top' = IF Selected(m) THEN [top EXCEPT !.shade = Effect(m, @, second.shade)] ELSE top
  /\ pc' = "out"
  /\ UNCHANGED <<scene, prio, item, second>>

(* The next pixel. *)
NextPixel ==
  /\ pc = "out"
  /\ pc' = "start" /\ prio' = MaxPrio /\ item' = 1
  /\ top' = Backdrop /\ second' = Backdrop
  /\ UNCHANGED scene

Next == Start \/ PaintItem \/ NextPass \/ (\E m \in Blends : ApplyBlend(m)) \/ NextPixel

Spec == Init /\ [][Next]_vars

-----------------------------------------------------------------------------
(* What has a visible pixel in this scene. *)
Present ==
  {<<"bd", 0>>} \cup {<<"obj", i>> : i \in {i \in 0..LastObj : scene.mode \in 0..5
                                                        /\ Visible(<<"obj", i>>)}}
  \cup {<<"bg", b>> : b \in {b \in BG : \/ /\ scene.mode \in 0..2 /\ Visible(<<"bg", b>>)
                                           /\ scene.mode = 1 => b # 3
                                           /\ scene.mode = 2 => b \in {2, 3}
                                        \/ scene.mode \in 3..5 /\ b = 2 /\ BitmapShows}}

(* In front: the lower priority number; then sprites before backgrounds;   *)
(* then the lower number.  A bitmap is behind all sprites.                 *)
Before(d, e) ==
  \/ e[1] = "bd" /\ d[1] # "bd"
  \/ /\ d[1] # "bd" /\ e[1] # "bd"
     /\ \/ scene.mode \in 3..5 /\ d[1] = "obj" /\ e[1] = "bg"
        \/ /\ ~(scene.mode \in 3..5 /\ d[1] # e[1])
           /\ \/ PrioOf(d) < PrioOf(e)
              \/ /\ PrioOf(d) = PrioOf(e)
                 /\ (d[1] = "obj" /\ e[1] = "bg") \/ (d[1] = e[1] /\ d[2] < e[2])

(* Painting back to front, priority by priority, leaves the frontmost      *)
(* visible element on top, in every mode; and the second place, which      *)
(* alpha blending mixes in, holds the next one behind it, with its colour. *)
FrontOnTop ==
  pc = "effect" =>
    /\ top.of \in Present
    /\ \A e \in Present \ {top.of} : Before(top.of, e)
    /\ top.of # <<"bd", 0>> =>
         /\ second.of \in Present /\ second.shade = Shade[second.of]
         /\ \A e \in Present \ {top.of, second.of} : Before(second.of, e)

(* No effect, with any coefficients the program writes, carries a          *)
(* component over into the bits of its neighbour.                          *)
ShadeFits == top.shade \in 0..31
=============================================================================
