------------------------------ MODULE Gesture ------------------------------
(***************************************************************************)
(* The touch gesture recogniser of gesture.c, fed by handle_gestures of    *)
(* usb-tablet.c.  Each gesture walks a static table of contact and release *)
(* slots (positions are screen zones, moves are checked against a          *)
(* direction); a mismatch resets it, completing its last list fires its    *)
(* callback and resets every gesture.  handle_gestures calls               *)
(* gesture_handler once per report of a touch slot and withholds the       *)
(* touch stream from the guest while a gesture is being tracked.           *)
(*                                                                         *)
(* A report changes one touch slot: a finger lands, lifts, or moves.  The  *)
(* guest's view of which fingers are down is ghost state, updated by the   *)
(* tracking-id events handle_gestures lets through.                        *)
(***************************************************************************)
EXTENDS Integers, Sequences

CONSTANTS
    Slots,     \* multitouch slots (MAXSLOTS, NUM_FINGERS)
    Xs, Ys,    \* the scaled coordinates a finger may report
    Layouts    \* what the bytes after singledrag_actions[] hold

SCREEN == 32767
LEFT_X == SCREEN \div 4
RIGHT_X == (3 * SCREEN) \div 4
MIDDLE_X == SCREEN \div 2
TOP_Y == SCREEN \div 3
BOTTEM_Y == (2 * SCREEN) \div 3
MIDDLE_Y == SCREEN \div 2
DELTA_X == SCREEN \div 5
DELTA_Y == SCREEN \div 5
MIN_DIST == SCREEN \div 50

Abs(n) == IF n < 0 THEN -n ELSE n

Pt(x, y) == [x |-> x, y |-> y]
Points == {Pt(x, y) : x \in Xs, y \in Ys}

ASSUME Slots \subseteq 0..2 /\ Layouts \subseteq {"Zero", "TwoTap", "TwoDrag"}

-----------------------------------------------------------------------------
(* The static tables                                                       *)

Slot(a, p, m) == [action |-> a, pos |-> p, pmove |-> m]
EndSlot == Slot("End", "Na", "Na")      \* ENDACTION, and a slot of zero bytes

singledrag == << Slot("Contact", "P1", "Na"), Slot("Release", "P2", "M1") >>
twotap == << Slot("Contact", "P1", "DontMove"), Slot("Contact", "P1", "DontMove"),
             Slot("Release", "Na", "Na"), Slot("Release", "Na", "Na"), EndSlot >>
twodrag == << Slot("Contact", "P1", "Na"), Slot("Contact", "P1", "Na"),
              Slot("Release", "P2", "M1"), Slot("Release", "P2", "M1"), EndSlot >>
Declared == [singledrag |-> singledrag, twodrag |-> twodrag]

\* singledrag_actions[] has no ENDACTION: reading past its two slots reads
\* whatever the linker put next, zeros (an eEnd slot) or another table
After == [Zero |-> <<EndSlot>>, TwoTap |-> twotap, TwoDrag |-> twodrag]
Memory(t, layout) ==
    IF t = "singledrag" THEN singledrag \o After[layout] ELSE Declared[t]

List(t, p1, p2, m1) == [actions |-> t, p1 |-> p1, p2 |-> p2, m1 |-> m1]
StrokeTLBR == List("singledrag", "TopLeft", "BottomRight", "MoveRightDown")
StrokeTRBL == List("singledrag", "TopRight", "BottomLeft", "MoveLeftDown")
Lists ==
    [goleft |-> << List("twodrag", "Right", "Left", "MoveLeft") >>,
     goright |-> << List("twodrag", "Left", "Right", "MoveRight") >>,
     goup |-> << List("twodrag", "Bottom", "Top", "MoveUp") >>,
     crossL |-> << StrokeTLBR, StrokeTRBL >>,
     crossR |-> << StrokeTRBL, StrokeTLBR >>]
Names == DOMAIN Lists

\* the callbacks: to_the_left calls switcher_switch_right and to_the_right
\* switcher_switch_left; both crosses call standback
Callback == [goleft |-> "SwitchRight", goright |-> "SwitchLeft",
             goup |-> "ToUI", crossL |-> "Standback", crossR |-> "Standback"]

\* gestures[] and standback_gestures[], in order
AllGestures == << "goleft", "goright", "goup", "crossL", "crossR" >>
StandbackGestures == << "crossL", "crossR" >>

\* position_match: the zones; any other position (eNa_p) warns and fails
PositionMatch(a, p) ==
    LET midY == p.y < MIDDLE_Y + DELTA_Y /\ p.y > MIDDLE_Y - DELTA_Y
        midX == p.x < MIDDLE_X + DELTA_X /\ p.x > MIDDLE_X - DELTA_X
    IN CASE a = "Left" -> p.x < LEFT_X /\ midY
         [] a = "Right" -> p.x > RIGHT_X /\ midY
         [] a = "Top" -> p.y < TOP_Y /\ midX
         [] a = "Bottom" -> p.y > BOTTEM_Y /\ midX
         [] a = "TopLeft" -> p.x < LEFT_X /\ p.y < TOP_Y
         [] a = "TopRight" -> p.x > RIGHT_X /\ p.y < TOP_Y
         [] a = "BottomLeft" -> p.x < LEFT_X /\ p.y > BOTTEM_Y
         [] a = "BottomRight" -> p.x > RIGHT_X /\ p.y > BOTTEM_Y
         [] OTHER -> FALSE

\* the direction check of gesture_match_move: TRUE when the move fails
WrongMove(m, dx, dy) ==
    CASE m = "DontMove" -> TRUE
      [] m = "MoveLeft" -> dx > 0 \/ -dx < Abs(dy)
      [] m = "MoveRight" -> dx < 0 \/ dx < Abs(dy)
      [] m = "MoveUp" -> dy > 0 \/ -dy < Abs(dx)
      [] m = "MoveDown" -> dy < 0 \/ dy < Abs(dx)
      [] m = "MoveLeftDown" -> dx > 0 \/ dy < 0
      [] m = "MoveRightDown" -> dx < 0 \/ dy < 0
      [] m = "MoveLeftUp" -> dx > 0 \/ dy > 0
      [] m = "MoveRighUp" -> dx < 0 \/ dy > 0
      [] OTHER -> FALSE

-----------------------------------------------------------------------------
VARIABLES
    runstate,        \* eStartup, eRunning, eStandBack
    act, sub,        \* g->act, g->sub_act of every gesture
    fingers,         \* fingers[slot]: last_x, last_y
    down, pos,       \* trackID[slot] >= 0; x[slot], y[slot] (usb-tablet.c)
    silence,         \* silence (= goSilent after the report)
    layout,          \* the build's data layout, fixed
    guestDown        \* ghost: the touches the guest believes down

vars == <<runstate, act, sub, fingers, down, pos, silence, layout, guestDown>>

S == [runstate |-> runstate, act |-> act, sub |-> sub, fingers |-> fingers,
      layout |-> layout]

TypeOK ==
    /\ runstate \in {"Startup", "Running", "StandBack"}
    /\ act \in [Names -> 0..2] /\ sub \in [Names -> 0..7]
    /\ fingers \in [Slots -> Points \cup {Pt(0, 0)}]
    /\ down \in [Slots -> BOOLEAN] /\ pos \in [Slots -> Points \cup {Pt(-1, -1)}]
    /\ silence \in BOOLEAN /\ layout \in Layouts
    /\ guestDown \in [Slots -> BOOLEAN]

\* gestures_clean
Clean(st) == [st EXCEPT !.act = [g \in Names |-> 0], !.sub = [g \in Names |-> 0]]

\* standback: eRunning and eStandBack swap
Standback(st) ==
    [st EXCEPT !.runstate = CASE @ = "Running" -> "StandBack"
                              [] @ = "StandBack" -> "Running"
                              [] OTHER -> @]

Fire(st, g) == IF Callback[g] = "Standback" THEN Standback(st) ELSE st

\* the slot g's cursor reads, through the build's memory
Current(st, g) ==
    LET l == Lists[g][st.act[g] + 1]
    IN [l EXCEPT !.actions = Memory(@, st.layout)[st.sub[g] + 1]]

Tracks(st, g) == st.sub[g] > 1 \/ st.act[g] > 0

\* gesture_match for a contact (push 1) or a release (push 0) at p; the
\* result adds "hit" (the gesture was recognised) and "track"
GestureMatch(st, g, s, p, push) ==
    LET c == Current(st, g)
        zone == CASE c.actions.pos = "P1" -> c.p1
                  [] c.actions.pos = "P2" -> c.p2
                  [] OTHER -> c.actions.pos
        success == CASE c.actions.action = "Contact" -> push = 1 /\ PositionMatch(zone, p)
                     [] c.actions.action = "Release" -> push = 0 /\ PositionMatch(zone, p)
                     [] OTHER -> FALSE
        t == IF success
             THEN [st EXCEPT !.sub[g] = @ + 1, !.fingers[s] = p]
             ELSE IF st.sub[g] > 0 \/ st.act[g] > 0
                  THEN [st EXCEPT !.sub[g] = 0, !.act[g] = 0]
                  ELSE st
        \* sa_list is the list read before the step, with the new sub_act
        atEnd == Memory(Lists[g][st.act[g] + 1].actions, st.layout)[t.sub[g] + 1].action = "End"
        u == IF atEnd THEN [t EXCEPT !.act[g] = @ + 1, !.sub[g] = 0] ELSE t
        done == atEnd /\ u.act[g] = Len(Lists[g])
    IN IF done THEN [st |-> Fire([u EXCEPT !.act[g] = 0], g), hit |-> TRUE, track |-> FALSE]
       ELSE [st |-> u, hit |-> FALSE, track |-> Tracks(u, g)]

\* gesture_match_move for a move of slot s to p
GestureMatchMove(st, g, s, p) ==
    LET c == Current(st, g)
        m == IF c.actions.pmove = "M1" THEN c.m1 ELSE c.actions.pmove
        dx == p.x - st.fingers[s].x
        dy == p.y - st.fingers[s].y
        check == ~(Abs(dx) < MIN_DIST /\ Abs(dy) < MIN_DIST)
                 /\ c.actions.pmove \notin {"Na", "Anywhere"}
    IN IF st.act[g] = 0 /\ st.sub[g] = 0
       THEN [st |-> st, hit |-> FALSE, track |-> FALSE]
       ELSE IF check /\ WrongMove(m, dx, dy)
       THEN [st |-> [st EXCEPT !.sub[g] = 0, !.act[g] = 0], hit |-> FALSE, track |-> FALSE]
       ELSE LET t == IF check THEN [st EXCEPT !.fingers[s] = p] ELSE st
            IN [st |-> t, hit |-> FALSE, track |-> Tracks(t, g)]

\* gesture_handler(slot, x, y, push): the matcher over the active list, in
\* order; a recognised gesture cleans every gesture and returns 0,
\* otherwise the number of gestures tracking (here: whether any is)
GestureHandler(st0, s, p, push) ==
    LET st == IF st0.runstate = "Startup"
              THEN [Clean(st0) EXCEPT !.runstate = "Running"] ELSE st0
        glist == IF st.runstate = "StandBack" THEN StandbackGestures ELSE AllGestures
        RECURSIVE Loop(_, _, _)
        Loop(t, i, tracking) ==
            IF i > Len(glist) THEN [st |-> t, track |-> tracking]
            ELSE LET r == IF push = -1 THEN GestureMatchMove(t, glist[i], s, p)
                          ELSE GestureMatch(t, glist[i], s, p, push)
                 IN IF r.hit THEN [st |-> Clean(r.st), track |-> FALSE]
                    ELSE Loop(r.st, i + 1, tracking \/ r.track)
    IN Loop(st, 1, FALSE)

-----------------------------------------------------------------------------

Init ==
    /\ runstate = "Startup"
    /\ act = [g \in Names |-> 0] /\ sub = [g \in Names |-> 0]
    /\ fingers = [s \in Slots |-> Pt(0, 0)]
    /\ down = [s \in Slots |-> FALSE] /\ pos = [s \in Slots |-> Pt(-1, -1)]
    /\ silence = FALSE
    /\ layout \in Layouts
    /\ guestDown = [s \in Slots |-> FALSE]

\* one report of slot s ending in SYN_REPORT: its tracking-id event goes to
\* the guest under the silence of the previous report, then the handler
\* runs and silence takes its result
Report(s, p, push, isTrack) ==
    \E r \in {GestureHandler(S, s, p, push)} :
       /\ runstate' = r.st.runstate /\ act' = r.st.act /\ sub' = r.st.sub
       /\ fingers' = r.st.fingers
       /\ pos' = [pos EXCEPT ![s] = p]
       /\ silence' = r.track
       /\ guestDown' = IF isTrack /\ ~silence
                       THEN [guestDown EXCEPT ![s] = (push = 1)] ELSE guestDown
       /\ UNCHANGED layout

\* a finger lands on slot s at p (a new tracking id, then its position)
Contact(s, p) ==
    /\ ~down[s]
    /\ down' = [down EXCEPT ![s] = TRUE]
    /\ Report(s, p, 1, TRUE)

\* the finger of slot s lifts (tracking id -1) where it last was
Lift(s) ==
    /\ down[s]
    /\ down' = [down EXCEPT ![s] = FALSE]
    /\ Report(s, pos[s], 0, TRUE)

\* the finger of slot s moves to p (a distance over 1)
Move(s, p) ==
    /\ down[s] /\ p # pos[s]
    /\ UNCHANGED down
    /\ Report(s, p, -1, FALSE)

Next ==
    \E s \in Slots :
        \/ Lift(s)
        \/ \E p \in Points : Contact(s, p) \/ Move(s, p)

Spec == Init /\ [][Next]_vars

-----------------------------------------------------------------------------
(* Properties *)

\* Once no finger is on the pad and the touch stream is let through again,
\* the guest holds no touch: handle_gestures must not withhold the release
\* of a finger whose landing the guest saw.
GuestTouchesReleased ==
    (\A s \in Slots : ~down[s]) /\ ~silence => \A s \in Slots : ~guestDown[s]

\* gesture_match reads only the slots of its gesture's own table: the cursor
\* of a gesture never goes past the last declared slot.
NoOverread ==
    \A g \in Names :
        sub[g] < Len(Declared[Lists[g][act[g] + 1].actions])

====
