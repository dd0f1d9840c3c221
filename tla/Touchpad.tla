----------------------------- MODULE Touchpad ------------------------------
(***************************************************************************)
(* The touchpad driver (touchpad.c).  handle_touchpad_event gathers the   *)
(* events of a packet and, at SYN_REPORT, process_packet turns it into    *)
(* button, scroll and move events for the guest: the tap state machine    *)
(* (handle_gestures) with its tap-to-click timer, the clickpad's faked    *)
(* buttons (handle_clickpad), and edge and corner scrolling with the      *)
(* autoscroll timer (handle_scrolling).  Hotkeys turn the pad off and on, *)
(* and two settings come from the D-Bus config.                           *)
(*                                                                         *)
(* Coordinates are a small grid; a coordinate the packet does not carry   *)
(* is NoX or NoY, as in the code (no_x = minx - 1).  The pointer motion   *)
(* estimate (compute_deltas) and the wheel step counts are data no        *)
(* property depends on and are left out.                                  *)
(***************************************************************************)
EXTENDS Integers, Sequences, SequencesExt, FiniteSets

CONSTANTS
    IsClickpad,     \* tlimits.is_clickpad: the pad reports only BTN_LEFT
    Xs, Ys,         \* the coordinates a packet may carry
    NoX, NoY,       \* no_x, no_y
    RightEdge, BottomEdge, TopEdge,  \* tlimits' edges
    LeftBtnMaxX,    \* clickpad_left_button_maxx
    TapMove,        \* tap_move
    Pressures,      \* the pressures a packet may carry
    NoPressure,     \* no_pressure
    PressUp,        \* min + range * PRESSURE_UP_MULT
    PressDown,      \* min + range * PRESSURE_DOWN_MULT
    PadButtons      \* the button ids the device reports

\* button ids (button_id = code - BTN_LEFT + 1)
Left == 1
Right == 2
\* a clickpad reports BTN_LEFT alone (init_touchpad)
ASSUME IsClickpad => PadButtons = {Left}

TapStates == {"START", "TOUCH", "MOVE", "SINGLE_TAP_PENDING",
              "POSSIBLE_DRAG", "DRAG"}

VARIABLES
    tapstate,   \* ts->tapstate
    lastTouch,  \* ts->last_fingertouching
    finger,     \* detect_finger's static fingertouching
    lastX, lastY,  \* ts->last_x, ts->last_y
    touchOn,    \* handle_gestures' statics touch_on_x, touch_on_y
    vscroll,    \* ts->vert_scroll_on
    spc,        \* ts->scroll_packet_count, kept at most 4 (only > 3 matters)
    yspd,       \* ts->autoscroll_yspd # 0
    asTimer,    \* is_autoscroll_timer_set: autoscroll_event is pending
    lcTimer,    \* left_click_event is pending
    off,        \* ts->touchpad_off
    tapEnabled, scrollEnabled,  \* tconfig
    cpPressed,  \* tlimits.is_clickpad_pressed
    downX,      \* handle_clickpad's static button_down_x
    phys,       \* the buttons physically down
    guest       \* the buttons the guest was sent down and not up

vars == <<tapstate, lastTouch, finger, lastX, lastY, touchOn, vscroll, spc,
          yspd, asTimer, lcTimer, off, tapEnabled, scrollEnabled, cpPressed,
          downX, phys, guest>>

TypeOK ==
    /\ tapstate \in TapStates
    /\ {lastTouch, finger, vscroll, yspd, asTimer, lcTimer, off, tapEnabled,
        scrollEnabled, cpPressed} \subseteq BOOLEAN
    /\ lastX \in Xs \cup {0} /\ lastY \in Ys \cup {0}
    /\ touchOn \in (Xs \cup {0}) \X (Ys \cup {0})
    /\ spc \in 0..4 /\ downX \in Xs \cup {0, -1}
    /\ phys \subseteq PadButtons /\ guest \subseteq {Left, Right}

\* detect_edge, as the set of edges
DetectEdge(x, y) ==
    (IF x > RightEdge THEN {"RIGHT"} ELSE {}) \cup
    (IF y > BottomEdge THEN {"BOTTOM"} ELSE IF y < TopEdge THEN {"TOP"} ELSE {})

IsCorner(edge) == "RIGHT" \in edge /\ edge \cap {"TOP", "BOTTOM"} # {}

\* detect_finger: hysteresis between the two pressure thresholds; a
\* packet without a pressure keeps the last answer
DetectFinger(p) ==
    IF p = NoPressure THEN finger
    ELSE IF ~finger THEN p > PressUp ELSE ~(p < PressDown)

\* a button event: event_button_change(id, down) through input_inject
Click(g, id, down) == IF down THEN g \cup {id} ELSE g \ {id}
Clicks(g, evs) == FoldLeft(LAMBDA acc, e : Click(acc, e[1], e[2]), g, evs)

\* handle_button_clicks: for each button id in order, its down then its
\* up, as the packet's button_mask holds them
ButtonClicks(mask) ==
    SetToSortSeq(mask, LAMBDA a, b : a[1] < b[1] \/ (a[1] = b[1] /\ a[2]))

AbsDiff(a, b) == IF a >= b THEN a - b ELSE b - a

\* handle_clickpad: on the bottom edge a left press right of
\* clickpad_left_button_maxx becomes a right press, and its release a
\* right release; `mask & (!left_button_down)` is mask & 0, so the faked
\* mask holds the right button alone.  Off the bottom edge nothing is sent.
HandleClickpad(edge, x, mask) ==
    LET bx == IF x # NoX THEN x ELSE lastX
    IN IF "BOTTOM" \notin edge
       THEN [send |-> {}, pressed |-> cpPressed, downX |-> downX]
       ELSE IF <<Left, TRUE>> \in mask
       THEN [send |-> IF bx > LeftBtnMaxX THEN {<<Right, TRUE>>} ELSE mask,
             pressed |-> TRUE, downX |-> bx]
       ELSE IF <<Left, FALSE>> \in mask
       THEN [send |-> IF downX > LeftBtnMaxX THEN {<<Right, FALSE>>} ELSE mask,
             pressed |-> FALSE, downX |-> -1]
       ELSE [send |-> mask, pressed |-> cpPressed, downX |-> downX]

\* handle_gestures: the tap state machine.  The result holds the next
\* state, the touch point, whether left_click_event is pending and the
\* button events sent, in order.
HandleGestures(f, x, y) ==
    LET touch == f /\ ~lastTouch
        release == ~f /\ lastTouch
        move == f /\ ~touch /\
                \/ x # NoX /\ AbsDiff(x, touchOn[1]) >= TapMove
                \/ y # NoY /\ AbsDiff(y, touchOn[2]) >= TapMove
        on == IF touch THEN <<IF x # NoX THEN x ELSE lastX,
                              IF y # NoY THEN y ELSE lastY>>
              ELSE touchOn
        tapOk == tapEnabled /\ ~(IsClickpad /\ "BOTTOM" \in DetectEdge(on[1], on[2]))
        R(st, lc, evs) == [tap |-> st, on |-> on, lc |-> lc, evs |-> evs]
        click == <<<<Left, TRUE>>, <<Left, FALSE>>>>
    IN CASE tapstate = "START" ->
              R(IF touch THEN "TOUCH" ELSE "START", lcTimer, <<>>)
         [] tapstate = "TOUCH" ->
              IF move THEN R("MOVE", lcTimer, <<>>)
              ELSE IF release /\ tapOk THEN R("SINGLE_TAP_PENDING", TRUE, <<>>)
              ELSE IF release THEN R("START", lcTimer, <<>>)
              ELSE R("TOUCH", lcTimer, <<>>)
         [] tapstate = "MOVE" ->
              R(IF release THEN "START" ELSE "MOVE", lcTimer, <<>>)
         [] tapstate = "SINGLE_TAP_PENDING" ->
              IF touch /\ tapOk THEN R("POSSIBLE_DRAG", FALSE, <<>>)
              ELSE IF touch THEN R("TOUCH", FALSE, click)
              ELSE R("SINGLE_TAP_PENDING", lcTimer, <<>>)
         [] tapstate = "POSSIBLE_DRAG" ->
              IF move THEN R("DRAG", lcTimer, <<<<Left, TRUE>>>>)
              ELSE IF release THEN R("START", lcTimer, click \o click)
              ELSE R("POSSIBLE_DRAG", lcTimer, <<>>)
         [] tapstate = "DRAG" ->
              IF release THEN R("START", lcTimer, <<<<Left, FALSE>>>>)
              ELSE R("DRAG", lcTimer, <<>>)

\* start_corner_scrolling: after more than three packets of vertical
\* scrolling, send_autoscroll_event arms the autoscroll timer, and
\* autoscroll_yspd is nonzero when the last four packets moved (dy # 0);
\* the packet count starts again
StartCornerScrolling(sp, ys, as) ==
    IF sp > 3 THEN {[yspd |-> y, as |-> TRUE, spc |-> 0] : y \in BOOLEAN}
    ELSE {[yspd |-> ys, as |-> as, spc |-> 0]}

\* handle_scrolling: vertical scrolling on the right edge, and corner
\* scrolling with the autoscroll timer; the result is a set, as that of
\* StartCornerScrolling.
HandleScrolling(f, edge) ==
    LET touch == f /\ ~lastTouch
        corner == IsCorner(edge)
        vs1 == IF touch /\ "RIGHT" \in edge THEN TRUE ELSE vscroll
        sp1 == IF touch THEN 0 ELSE spc
        ys1 == IF touch THEN FALSE ELSE yspd
        vs2 == vs1 /\ "RIGHT" \in edge /\ f
        stop == ys1 /\ (~f \/ ~corner)
        sp2 == IF stop THEN 0 ELSE sp1
        ys2 == IF stop THEN FALSE ELSE ys1
        as1 == IF ~f \/ ~corner THEN FALSE ELSE asTimer
        start == vs2 /\ corner /\ ~ys2
        after == IF start THEN StartCornerScrolling(sp2, ys2, as1)
                 ELSE {[yspd |-> ys2, as |-> as1, spc |-> sp2]}
        Count(sp) == IF vs2 THEN IF sp < 4 THEN sp + 1 ELSE 4 ELSE sp
    IN IF ~scrollEnabled
       THEN {[vs |-> vscroll, yspd |-> yspd, as |-> asTimer, spc |-> spc]}
       ELSE {[vs |-> vs2, yspd |-> a.yspd, as |-> a.as, spc |-> Count(a.spc)] :
             a \in after}

-----------------------------------------------------------------------------

Init ==
    /\ tapstate = "START" /\ lastTouch = FALSE /\ finger = FALSE
    /\ lastX = 0 /\ lastY = 0 /\ touchOn = <<0, 0>>
    /\ vscroll = FALSE /\ spc = 0 /\ yspd = FALSE
    /\ asTimer = FALSE /\ lcTimer = FALSE /\ off = FALSE
    /\ tapEnabled \in BOOLEAN /\ scrollEnabled \in BOOLEAN
    /\ cpPressed = FALSE /\ downX = -1
    /\ phys = {} /\ guest = {}

\* A packet: its ABS and BTN events gathered by handle_touchpad_event,
\* then process_packet at SYN_REPORT.  btn is the packet's button change.
Packet(x, y, p, btn) ==
    LET mask == btn
        g1 == IF ~IsClickpad THEN Clicks(guest, ButtonClicks(mask)) ELSE guest
        xv == IF x # NoX THEN x ELSE lastX
        yv == IF y # NoY THEN y ELSE lastY
        edge == DetectEdge(xv, yv)
        f == DetectFinger(p)
        cp == IF IsClickpad THEN HandleClickpad(edge, x, mask)
              ELSE [send |-> {}, pressed |-> cpPressed, downX |-> downX]
        gs == HandleGestures(f, x, y)
    IN /\ \A b \in btn : b[2] = (b[1] \notin phys)
       /\ phys' = Clicks(phys, SetToSeq(btn))
       /\ IF off
          THEN /\ guest' = g1
               /\ UNCHANGED <<tapstate, lastTouch, finger, lastX, lastY,
                              touchOn, vscroll, spc, yspd, asTimer, lcTimer,
                              cpPressed, downX>>
          ELSE /\ finger' = f
               /\ cpPressed' = cp.pressed /\ downX' = cp.downX
               /\ tapstate' = gs.tap /\ touchOn' = gs.on /\ lcTimer' = gs.lc
               /\ guest' = Clicks(Clicks(g1, ButtonClicks(cp.send)), gs.evs)
               /\ \E sc \in HandleScrolling(f, edge) :
                      /\ vscroll' = sc.vs /\ spc' = sc.spc
                      /\ yspd' = sc.yspd /\ asTimer' = sc.as
               /\ lastTouch' = f /\ lastX' = xv /\ lastY' = yv
       /\ UNCHANGED <<off, tapEnabled, scrollEnabled>>

\* send_left_click_event without ts->tapstate = TS_START
LeftClickFiresKeepState ==
    /\ lcTimer
    /\ lcTimer' = FALSE
    /\ IF tapstate = "SINGLE_TAP_PENDING"
       THEN guest' = Click(Click(guest, Left, TRUE), Left, FALSE)
       ELSE UNCHANGED guest
    /\ UNCHANGED <<tapstate, lastTouch, finger, lastX, lastY, touchOn, vscroll,
                   spc, yspd, asTimer, off, tapEnabled, scrollEnabled,
                   cpPressed, downX, phys>>

\* send_left_click_event, when left_click_event fires
LeftClickFires ==
    /\ lcTimer
    /\ lcTimer' = FALSE
    /\ IF tapstate = "SINGLE_TAP_PENDING"
       THEN tapstate' = "START" /\ guest' = Click(Click(guest, Left, TRUE), Left, FALSE)
       ELSE UNCHANGED <<tapstate, guest>>
    /\ UNCHANGED <<lastTouch, finger, lastX, lastY, touchOn, vscroll, spc,
                   yspd, asTimer, off, tapEnabled, scrollEnabled, cpPressed,
                   downX, phys>>

\* disable_touchpad: KEY_PROG2, or Fn+F8 while the pad is on
Disable ==
    /\ off' = TRUE
    /\ UNCHANGED <<tapstate, lastTouch, finger, lastX, lastY, touchOn, vscroll,
                   spc, yspd, asTimer, lcTimer, tapEnabled, scrollEnabled,
                   cpPressed, downX, phys, guest>>

\* enable_touchpad = init_touchpad_state: KEY_HELP, or Fn+F8 while off.
\* The timers, the statics and the clickpad flag are left as they are.
Enable ==
    /\ tapstate' = "START" /\ lastTouch' = FALSE
    /\ lastX' = 0 /\ lastY' = 0
    /\ vscroll' = FALSE /\ spc' = 0 /\ yspd' = FALSE /\ off' = FALSE
    /\ UNCHANGED <<finger, touchOn, asTimer, lcTimer, tapEnabled, scrollEnabled,
                   cpPressed, downX, phys, guest>>

\* the settings "tap-to-click-enable" and "scrolling-enable" written over
\* D-Bus: db_write, then touchpad_reread_config
SetTapToClick(b) ==
    /\ tapEnabled' = b
    /\ UNCHANGED <<tapstate, lastTouch, finger, lastX, lastY, touchOn, vscroll,
                   spc, yspd, asTimer, lcTimer, off, scrollEnabled, cpPressed,
                   downX, phys, guest>>

SetScrolling(b) ==
    /\ scrollEnabled' = b
    /\ UNCHANGED <<tapstate, lastTouch, finger, lastX, lastY, touchOn, vscroll,
                   spc, yspd, asTimer, lcTimer, off, tapEnabled, cpPressed,
                   downX, phys, guest>>

\* a packet changes at most one button, pressing one that is up or
\* releasing one that is down
ButtonChanges(ph) == {{}} \cup {{<<id, id \notin ph>>} : id \in PadButtons}

Next ==
    \/ \E x \in Xs \cup {NoX}, y \in Ys \cup {NoY}, p \in Pressures \cup {NoPressure},
          btn \in ButtonChanges(phys) : Packet(x, y, p, btn)
    \/ LeftClickFires
    \/ Disable
    \/ Enable
    \/ \E b \in BOOLEAN : SetTapToClick(b) \/ SetScrolling(b)

\* libevent runs an armed timer once the loop is idle, and nothing keeps
\* the loop busy for ever: the tap-to-click timer is weakly fair.  The
\* user, who sends the packets and presses the hotkeys, is not.
FairSpec == Init /\ [][Next]_vars /\ WF_vars(LeftClickFires)

-----------------------------------------------------------------------------
(* Properties *)

\* A tap that left the machine waiting for a second tap is resolved: the
\* left-click timer fires and sends the click, or a new touch takes the
\* pending tap into a double tap or a drag.
TapResolves == tapstate = "SINGLE_TAP_PENDING" ~> tapstate # "SINGLE_TAP_PENDING"

\* The guest holds a button down only while the pad holds it: a button
\* physically down, or the left button of a tap-and-drag.
NoStuckButton ==
    \A b \in guest : phys # {} \/ (b = Left /\ tapstate = "DRAG")
=============================================================================
