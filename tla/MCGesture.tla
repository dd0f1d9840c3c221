----------------------------- MODULE MCGesture -----------------------------
(* Gesture instantiated for TLC: two touch slots and the coordinates of    *)
(* the four edges, the four corners and the centre of the screen.          *)
EXTENDS Gesture

\* a zone edge, the middle, the opposite edge (scaled 0..32767)
MCCoords == {2000, 16383, 30000}
\* the build's layout: zeros follow singledrag_actions[] (the one in which
\* a cross works as written)
MCZero == {"Zero"}
MCLayouts == {"Zero", "TwoTap", "TwoDrag"}
====
