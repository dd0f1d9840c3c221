---------------------------- MODULE MCTouchpad -----------------------------
(* Instances of Touchpad for TLC.  The pad is a grid with minx = miny =  *)
(* min_pressure = 0: x in {0, 2}, where 2 lies past the right edge and    *)
(* right of the clickpad's left-button area; y in {0, 1, 2}, where 0 is   *)
(* the top edge and 2 the bottom edge; tap_move is one step.  Pressure    *)
(* 50 lands a finger, 5 lifts it, and 11 lies between the thresholds.    *)
EXTENDS Touchpad

MCXs == {0, 2}
MCYs == {0, 1, 2}
\* the middle and the bottom edge: the top corner scrolls the same way
MCYs2 == {1, 2}
MCPressures == {5, 11, 50}
MCNone == -1  \* minx - 1, miny - 1, min_pressure - 1; and no clickpad button area
\* the left button alone: the right one of a touchpad takes the same path
MCLeftOnly == {1}
=============================================================================
