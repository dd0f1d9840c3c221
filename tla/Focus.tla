-------------------------------- MODULE Focus --------------------------------
(***************************************************************************)
(* The focus/routing arbiter of the input daemon together with the parts  *)
(* it cannot be separated from: the domain registry (domains.c), the VM   *)
(* switcher (switch.c, focus.c), the divert RPC methods (bus.c) and the   *)
(* routing of keyboard keys and mouse buttons in input_inject (input.c).  *)
(*                                                                         *)
(* A domain is a record of the static domains[] array: Dom is the set of  *)
(* records, a pointer to a record is an element of Dom and NULL is NoDom. *)
(* Every handler runs to completion on the single event-loop thread, so   *)
(* every handler is one action, except the blocking surfman call inside   *)
(* switcher_switch when NestedDispatch holds (see SwitchBegin).           *)
(***************************************************************************)
EXTENDS Naturals, Sequences, SequencesExt, FiniteSets

CONSTANTS
    DomSeq,         \* the records of the domains[] array, in array order
    NoDom,          \* the NULL domain pointer
    NoDv,           \* the NULL divert_info pointer
    Slots,          \* switcher slots a toolstack may assign (0 is the UIVM)
    Keys,           \* keyboard key codes
    MetaKeys,       \* the codes code_is_meta_key() lists (Ctrl, Alt, ...)
    Buttons,        \* mouse button codes (BTN_LEFT, BTN_RIGHT, ...)
    MaxPressed,     \* MAX_NUM_PRESSED, capacity of mouse_pressed[]
    Callers,        \* senders of divert RPCs: Dom, plus NoDom for dom0
    Commanders,     \* records whose domains write keyboard commands
    MaxConnects,    \* bound on the rpc_connect calls of a behaviour
    Modes,          \* focus modes the diverting domains set (focusmode bits)
    Reasons,        \* shutdown reasons the domains report
    PvmTypes,       \* connecting as DEVICE_TYPE_INPUT_PVM (TRUE) or _INPUT
    UuidMatches,    \* the connecting domain is the xenstore focus-uuid
    Replies,        \* the answers surfman's set_visible may give
    DisabledFlags,  \* values domain_surface_disabled_detect_init may read
    Gpu2Flags,      \* values domain_read_has_secondary_gpu may read
    KbdFollowsMouse,\* db /switcher/keyboard_follows_mouse
    NestedDispatch  \* other handlers run while surfman set_visible blocks

Dom == ToSet(DomSeq)
\* the divert focus-mode bits KEYFOLLOWMOUSE, CLICKHOLDFOCUS, CLONEEVENTS
FocusModes == {"KeyFollowsMouse", "ClickHold", "Clone"}
\* SWITCHER_SHUTDOWN_REBOOT, _S3, _S4, _S5 of xc_input_socket_protocol.h
ShutdownCodes == {0, 3, 4, 5}

ASSUME /\ NoDom \notin Dom
       /\ 0 \in Slots
       /\ MetaKeys \subseteq Keys
       /\ MaxPressed \in Nat \ {0}
       /\ Callers \subseteq Dom \cup {NoDom} /\ Commanders \subseteq Dom
       /\ Modes \subseteq SUBSET FocusModes
       /\ Reasons \subseteq ShutdownCodes /\ PvmTypes \subseteq BOOLEAN /\ UuidMatches \subseteq BOOLEAN
       /\ Replies \subseteq BOOLEAN /\ DisabledFlags \subseteq BOOLEAN /\ Gpu2Flags \subseteq BOOLEAN
       /\ KbdFollowsMouse \in BOOLEAN /\ NestedDispatch \in BOOLEAN

NoSlot == -1
Reboot == 0
DomOrNull == Dom \cup {NoDom}

\* struct divert_info_t, only the fields routing reads
DivertInfo == [mouse : DomOrNull, key : DomOrNull, mode : SUBSET FocusModes]

\* The global routing state of input.c, plus held: the keys each domain
\* has been sent down and not yet up (what the guest believes is pressed).
Routing == [mouseDest : DomOrNull, keybDest : DomOrNull,
            mouseParent : DomOrNull, keybParent : DomOrNull,
            waits : BOOLEAN, keyStatus : SUBSET Keys,
            held : [Dom -> SUBSET Keys]]

VARIABLES
    live,       \* d->initialised
    slot,       \* d->slot
    pvm,        \* d->is_pvm
    sstate,     \* d->sstate, the last shutdown reason reported
    disabled,   \* d->disabled_surface
    gpu2,       \* d->has_secondary_gpu
    dv,         \* d->divert_info (NoDv when NULL)
    prevKeyb,   \* d->prev_keyb_domain_ptr
    expectDeath,\* slots[s].death_window of focus.c is open
    rt,         \* mouse_dest, keyb_dest, ... of input.c
    current,    \* switch.c current
    surface,    \* switch.c surface_current
    pend,       \* the switch waiting on surfman (switching = 1), or NoPend
    pressed,    \* mouse_pressed[0..num_mouse_pressed-1]
    buttons,    \* buttons[] bitmap: mouse buttons physically down
    heldBtn,    \* buttons each domain has been sent down and not yet up
    phys,       \* keys physically down
    outside,    \* mouse_x/mouse_y lie outside mouse_parent's source frame
    holding,    \* input_inject's static button_holding
    lastD,      \* input_inject's static last_d
    halted,     \* why the daemon stopped serving events, or "no"
    connects    \* rpc_connect calls so far, bounded by MaxConnects

vars == <<live, slot, pvm, sstate, disabled, gpu2, dv, prevKeyb, expectDeath,
          rt, current, surface, pend, pressed, buttons, heldBtn, phys,
          outside, holding, lastD, halted, connects>>

NoPend == [target |-> NoDom]
Pend == [target : DomOrNull]

-----------------------------------------------------------------------------
(* Domain registry lookups (domains.c).                                    *)

\* empty_domain: the first record of the array that is not initialised
EmptyDomain(lv) ==
    LET free == {i \in DOMAIN DomSeq : ~lv[DomSeq[i]]}
    IN IF free = {} THEN NoDom ELSE DomSeq[Min(free)]

\* domain_with_slot(s)
DomainWithSlot(lv, sl, s) ==
    IF \E d \in Dom : lv[d] /\ sl[d] = s THEN CHOOSE d \in Dom : lv[d] /\ sl[d] = s
    ELSE NoDom

\* domain_with_slot(0): the UIVM
Uivm(lv, sl) == DomainWithSlot(lv, sl, 0)

-----------------------------------------------------------------------------
(* The routing operations of input.c, as functions of the routing state  *)
(* s, the divert infos D and the previous-keyboard pointers P.            *)

\* input_keyboard_reset: a key up for every key in key_status, to
\* keyb_dest and (if asked and different) to mouse_dest
KeyboardReset(s, resetMouse) ==
    IF s.keybDest = NoDom THEN s
    ELSE LET to == {s.keybDest} \cup
                   (IF resetMouse /\ s.mouseDest # NoDom /\ s.keybDest # s.mouseDest
                    THEN {s.mouseDest} ELSE {})
         IN [s EXCEPT !.keyStatus = {},
                      !.held = [d \in Dom |-> IF d \in to THEN s.held[d] \ s.keyStatus
                                                          ELSE s.held[d]]]

HasMouseDivert(D, d) == D[d] # NoDv /\ D[d].mouse # NoDom
HasKeyDivert(D, d) == D[d] # NoDv /\ D[d].key # NoDom

\* set_mouse_domain
SetMouseDomain(s, D, d) ==
    IF HasMouseDivert(D, d)
    THEN [s EXCEPT !.mouseDest = D[d].mouse, !.mouseParent = d, !.waits = TRUE]
    ELSE [s EXCEPT !.mouseDest = d, !.mouseParent = NoDom]

\* set_kbd_domain
SetKbdDomain(s, D, d) ==
    IF HasKeyDivert(D, d)
    THEN [s EXCEPT !.keybParent = d, !.keybDest = D[d].key, !.waits = TRUE]
    ELSE [s EXCEPT !.keybDest = d, !.keybParent = NoDom,
                   !.waits = @ \/ (HasMouseDivert(D, d) /\ D[d].mouse # d)]

\* input_set_mouse: keyb_waits_for_click is toggled before set_mouse_domain
InputSetMouse(s, D, d) ==
    SetMouseDomain([s EXCEPT !.waits = ~(s.waits /\ s.keybDest = d)], D, d)

\* input_set_keyb
InputSetKeyb(s, D, d) ==
    SetKbdDomain([KeyboardReset(s, FALSE) EXCEPT !.waits = FALSE], D, d)

\* input_set
InputSet(s, D, d) ==
    SetKbdDomain(SetMouseDomain([KeyboardReset(s, TRUE) EXCEPT !.waits = FALSE], D, d), D, d)

\* mutant: the keyboard moves without the releases of input_keyboard_reset
InputGiveKeyboardNoReset(s, d) ==
    IF d = s.keybDest THEN s ELSE [s EXCEPT !.keybDest = d, !.keybParent = NoDom]

\* input_give_keyboard
InputGiveKeyboard(s, d) ==
    IF d = s.keybDest THEN s
    ELSE [(IF s.keybDest # s.mouseDest THEN KeyboardReset(s, FALSE) ELSE s)
            EXCEPT !.keybDest = d, !.keybParent = NoDom]

\* input_return_keyboard
InputReturnKeyboard(s, d) ==
    IF d # s.keybDest THEN s
    ELSE [(IF s.keybDest # s.mouseDest THEN KeyboardReset(s, FALSE) ELSE s)
            EXCEPT !.keybDest = s.mouseDest, !.keybParent = NoDom]

\* save_prev_keyb_domain(d): the new previous-keyboard pointers
SavePrevKeyb(s, P, d) ==
    IF s.keybDest = NoDom \/ s.mouseDest = NoDom \/ d = NoDom THEN P
    ELSE [P EXCEPT ![d] = IF s.keybDest # s.mouseDest THEN s.keybDest ELSE NoDom]

\* restore_prev_keyb_domain(d)
RestorePrevKeyb(s, P, d) ==
    IF d # NoDom /\ P[d] # NoDom THEN InputGiveKeyboard(s, P[d]) ELSE s

\* sync_kbd_domain
SyncKbdDomain(s, D, d) ==
    IF s.keybParent = d \/ s.keybDest = d THEN InputSetKeyb(s, D, d) ELSE s

\* mutant: mouse_dest is not cleared when its domain goes
InputDomainGoneKeepMouse(s, d) ==
    LET s1 == IF s.keybDest = d THEN [s EXCEPT !.keybDest = NoDom] ELSE s
    IN IF s1.mouseParent = d THEN [s1 EXCEPT !.mouseParent = NoDom] ELSE s1

\* mutant: the divert parents are not cleared when their domain goes
InputDomainGoneKeepParents(s, d) ==
    LET s1 == IF s.mouseDest = d THEN [s EXCEPT !.mouseDest = NoDom] ELSE s
    IN IF s1.keybDest = d THEN [s1 EXCEPT !.keybDest = NoDom] ELSE s1

\* input_domain_gone: the routing pointers
InputDomainGone(s, d) ==
    LET s1 == IF s.mouseDest = d THEN [s EXCEPT !.mouseDest = NoDom] ELSE s
        s2 == IF s1.keybDest = d THEN [s1 EXCEPT !.keybDest = NoDom] ELSE s1
        s3 == IF s2.keybParent = d THEN [s2 EXCEPT !.keybParent = NoDom, !.keybDest = NoDom]
              ELSE s2
    IN IF s3.mouseParent = d THEN [s3 EXCEPT !.mouseParent = NoDom, !.mouseDest = NoDom]
       ELSE s3

\* input_domain_gone: the loop over mouse_pressed[]; after the first match
\* the inner shifting loop leaves i = num_mouse_pressed, ending the scan
PurgePressed(p, d) == RemoveFirstMatch(p, LAMBDA e : e.dom = d)

-----------------------------------------------------------------------------
(* switcher_switch (switch.c).  W is the part of the state it reads and   *)
(* writes: [rt, pk (prevKeyb), cur, surf].                                *)

\* the steps before the surfman call
SwitchPrologue(W) ==
    IF ~W.rt.waits THEN [W EXCEPT !.pk = SavePrevKeyb(W.rt, W.pk, W.cur)] ELSE W

\* the steps after it, once the switch is accepted
SwitchEpilogue(W, D, d, ms) ==
    LET s == IF ms /\ ~KbdFollowsMouse THEN InputSetMouse(W.rt, D, d)
             ELSE LET s1 == InputSet(W.rt, D, d)
                  IN IF D[d] = NoDv THEN RestorePrevKeyb(s1, W.pk, d) ELSE s1
    IN [W EXCEPT !.rt = s, !.cur = d]

\* switcher_switch_graphic returns without calling surfman when the target
\* already has the surface (self-switch is disabled by default)
NeedsSurfman(d, surf, dis) == ~dis[d] /\ d # surf

\* the whole of switcher_switch when no other handler runs during the
\* surfman call; rc is the reply of set_visible
SwitchAtomic(W, D, d, ms, rc, dis, isPvm) ==
    LET W1 == SwitchPrologue(W)
        call == NeedsSurfman(d, W.surf, dis)
        W2 == IF call /\ rc THEN [W1 EXCEPT !.surf = d] ELSE W1
    IN IF ~call \/ rc \/ isPvm[d] THEN SwitchEpilogue(W2, D, d, ms) ELSE W2

\* switcher_switch called from inside another handler (domain_gone,
\* domain_create): rejected while a switch waits on surfman, and a no-op
\* on a NULL domain
SwitchNested(W, D, d, ms, rc, dis, isPvm, p) ==
    IF d = NoDom \/ p # NoPend THEN W ELSE SwitchAtomic(W, D, d, ms, rc, dis, isPvm)

-----------------------------------------------------------------------------
Init ==
    /\ live = [d \in Dom |-> FALSE]
    /\ slot = [d \in Dom |-> NoSlot]
    /\ pvm = [d \in Dom |-> FALSE]
    /\ sstate = [d \in Dom |-> 5]
    /\ disabled = [d \in Dom |-> FALSE]
    /\ gpu2 = [d \in Dom |-> FALSE]
    /\ dv = [d \in Dom |-> NoDv]
    /\ prevKeyb = [d \in Dom |-> NoDom]
    /\ expectDeath = [s \in Slots |-> FALSE]
    /\ rt = [mouseDest |-> NoDom, keybDest |-> NoDom, mouseParent |-> NoDom,
             keybParent |-> NoDom, waits |-> FALSE, keyStatus |-> {},
             held |-> [d \in Dom |-> {}]]
    /\ current = NoDom
    /\ surface = NoDom
    /\ pend = NoPend
    /\ pressed = <<>>
    /\ buttons = {}
    /\ heldBtn = [d \in Dom |-> {}]
    /\ phys = {}
    /\ outside = FALSE
    /\ holding = 0
    /\ lastD = NoDom
    /\ halted = "no"
    /\ connects = 0

-----------------------------------------------------------------------------
(* The switcher state as one record, and the step that writes it back.    *)
Sw == [rt |-> rt, pk |-> prevKeyb, cur |-> current, surf |-> surface]

SetSw(W) == /\ rt' = W.rt /\ prevKeyb' = W.pk
            /\ current' = W.cur /\ surface' = W.surf

\* the event-loop handlers of this module run only while no switch waits on
\* surfman, unless surfman's blocking call dispatches nested handlers
Dispatchable == pend = NoPend \/ NestedDispatch

-----------------------------------------------------------------------------
(* domain_create -> switcher_domid / switcher_pvm_domid (domains.c), for  *)
(* a client connecting on rpc_connect.  isPvmType: DEVICE_TYPE_INPUT_PVM; *)
(* s: the slot xenstore gives (-1 if none); uuidMatch: the focus-uuid in  *)
(* xenstore is this domain's; dis, g2: disabled surface, secondary gpu;   *)
(* rc: surfman's answer to the switches this causes.                      *)
Connect(isPvmType, s, uuidMatch, dis, g2, rc) ==
    LET d == EmptyDomain(live)
        taken == s = NoSlot \/ DomainWithSlot(live, slot, s) # NoDom
        lv == [live EXCEPT ![d] = TRUE]
        sl == [slot EXCEPT ![d] = IF taken THEN NoSlot ELSE s]
        ds == [disabled EXCEPT ![d] = ~taken /\ dis]
        pv == [pvm EXCEPT ![d] = isPvmType]
        P0 == [prevKeyb EXCEPT ![d] = NoDom]
        D == [dv EXCEPT ![d] = NoDv]
        \* switcher_domid: focus_update_domain -> focus_initial_switch
        W0 == [Sw EXCEPT !.pk = P0, !.rt.held[d] = {}]
        W1 == IF ~taken /\ uuidMatch
              THEN SwitchNested(W0, D, d, FALSE, rc, ds, [pvm EXCEPT ![d] = FALSE], pend)
              ELSE W0
        \* switcher_pvm_domid: focus_update_domain again, then switcher_switch
        W2 == IF isPvmType /\ ~taken THEN SwitchNested(W1, D, d, FALSE, rc, ds, pv, pend)
              ELSE W1
        W3 == IF isPvmType THEN SwitchNested(W2, D, d, FALSE, rc, ds, pv, pend) ELSE W2
    IN /\ Dispatchable
       /\ d # NoDom /\ connects < MaxConnects
       /\ connects' = connects + 1
       /\ live' = lv /\ slot' = sl /\ pvm' = pv /\ disabled' = ds
       /\ sstate' = [sstate EXCEPT ![d] = 5]
       /\ gpu2' = [gpu2 EXCEPT ![d] = ~taken /\ g2]
       /\ dv' = D
       /\ expectDeath' = IF taken THEN expectDeath ELSE [expectDeath EXCEPT ![s] = FALSE]
       /\ SetSw(W3)
       /\ heldBtn' = [heldBtn EXCEPT ![d] = {}]
       /\ UNCHANGED <<pend, pressed, buttons, phys, outside, holding, lastD, halted>>

\* handle_switcher_shutdown: the reason is recorded; a reboot opens the
\* death window of the domain's slot, S3/S4/S5 close it
ShutdownReport(d, st) ==
    /\ Dispatchable /\ live[d]
    /\ sstate' = [sstate EXCEPT ![d] = st]
    /\ expectDeath' = IF slot[d] = NoSlot THEN expectDeath
                      ELSE [expectDeath EXCEPT ![slot[d]] = (st = Reboot)]
    /\ UNCHANGED <<live, slot, pvm, disabled, gpu2, dv, prevKeyb, rt, current,
                   surface, pend, pressed, buttons, heldBtn, phys, outside,
                   holding, lastD, halted, connects>>

\* expecting_death: the 30 second window elapses
ExpireDeathWindow(s) ==
    /\ expectDeath[s]
    /\ expectDeath' = [expectDeath EXCEPT ![s] = FALSE]
    /\ UNCHANGED <<live, slot, pvm, sstate, disabled, gpu2, dv, prevKeyb, rt,
                   current, surface, pend, pressed, buttons, heldBtn, phys,
                   outside, holding, lastD, halted, connects>>

\* focus_domain_gone: a PVM that dies while no reboot is expected in its
\* slot hands the focus to the UIVM
FocusDomainGone(W, d, rc) ==
    IF pvm[d] /\ slot[d] # NoSlot /\ ~expectDeath[slot[d]]
    THEN SwitchNested(W, dv, Uivm(live, slot), FALSE, rc, disabled, pvm, pend)
    ELSE W

\* mutant: reset_prev_keyb_domain is not called
ResetPrevKeybDomainSkipped(P, d) == P

\* reset_prev_keyb_domain: live domains forget d as their keyboard domain
ResetPrevKeybDomain(P, d) == [e \in Dom |-> IF live[e] /\ P[e] = d THEN NoDom ELSE P[e]]

\* mutant: surface_current is left pointing at the dead domain
SwitcherDomainGoneKeepSurface(W, D, d, lv, sl, pv, rc) ==
    IF W.cur = d /\ gpu2[d] /\ sstate[d] # Reboot
    THEN SwitchNested([W EXCEPT !.cur = NoDom], D, Uivm(lv, sl), FALSE, rc, disabled, pv, pend)
    ELSE W

\* switcher_domain_gone, once the record is cleared (lv, sl, pv, D)
SwitcherDomainGone(W, D, d, lv, sl, pv, rc) ==
    LET toUivm(W1) == IF sstate[d] # Reboot
                      THEN SwitchNested(W1, D, Uivm(lv, sl), FALSE, rc, disabled, pv, pend)
                      ELSE W1
    IN IF W.surf = d THEN toUivm([W EXCEPT !.surf = NoDom])
       ELSE IF W.cur = d /\ gpu2[d] THEN toUivm([W EXCEPT !.cur = NoDom])
       ELSE W

\* mutant: divert_domain_gone forgets the keyboard divert
CheckDivertsForTheDeadMouseOnly(D, d) ==
    [e \in Dom |-> IF D[e] = NoDv THEN NoDv
                  ELSE [D[e] EXCEPT !.mouse = IF @ = d THEN NoDom ELSE @]]

\* check_diverts_for_the_dead: divert_domain_gone on every divert_info
CheckDivertsForTheDead(D, d) ==
    [e \in Dom |-> IF D[e] = NoDv THEN NoDv
                  ELSE [D[e] EXCEPT !.mouse = IF @ = d THEN NoDom ELSE @,
                                    !.key = IF @ = d THEN NoDom ELSE @]]

\* domain_gone, on rpc_disconnect, in the order of its calls
DomainGone(d, rc) ==
    LET W1 == IF sstate[d] # Reboot THEN FocusDomainGone(Sw, d, rc) ELSE Sw
        \* reset_prev_keyb_domain, then the record is cleared
        P == [ResetPrevKeybDomain(W1.pk, d) EXCEPT ![d] = NoDom]
        lv == [live EXCEPT ![d] = FALSE]
        sl == [slot EXCEPT ![d] = NoSlot]
        pv == [pvm EXCEPT ![d] = FALSE]
        D == [dv EXCEPT ![d] = NoDv]
        W2 == [W1 EXCEPT !.pk = P, !.rt = InputDomainGone(W1.rt, d)]
    IN /\ Dispatchable /\ live[d]
       /\ live' = lv /\ slot' = sl /\ pvm' = pv
       /\ SetSw(SwitcherDomainGone(W2, D, d, lv, sl, pv, rc))
       /\ dv' = CheckDivertsForTheDead(D, d)
       /\ pressed' = PurgePressed(pressed, d)
       /\ UNCHANGED <<sstate, disabled, gpu2, expectDeath, pend, buttons, heldBtn,
                      phys, outside, holding, lastD, halted, connects>>

-----------------------------------------------------------------------------
(* switcher_switch as a top-level handler: switch_focus on D-Bus, the     *)
(* "switch", "switch slot N", "switch domid N" xenstore commands, the      *)
(* slot hotkeys, go_to_next and the UIVM key (mouse_switch = 0).         *)

SwitchVars0 == <<live, slot, pvm, sstate, disabled, gpu2, dv, expectDeath,
                 pressed, buttons, heldBtn, phys, outside, holding, lastD, connects>>
SwitchVars == <<SwitchVars0, halted>>

\* the whole call, when surfman is not asked or its call dispatches nothing
SwitchRequest(d, rc) ==
    /\ pend = NoPend /\ live[d]
    /\ ~NestedDispatch \/ ~NeedsSurfman(d, surface, disabled)
    /\ SetSw(SwitchAtomic(Sw, dv, d, FALSE, rc, disabled, pvm))
    /\ UNCHANGED <<pend>> /\ UNCHANGED SwitchVars

\* up to the blocking set_visible call; switching = 1 from here on
SwitchBegin(d) ==
    /\ NestedDispatch /\ pend = NoPend /\ live[d]
    /\ NeedsSurfman(d, surface, disabled)
    /\ SetSw(SwitchPrologue(Sw))
    /\ pend' = [target |-> d]
    /\ UNCHANGED SwitchVars

\* set_visible returns rc; the rest of switcher_switch runs with what the
\* target record holds now
SwitchReply(rc) ==
    LET d == pend.target
        W == IF rc THEN [Sw EXCEPT !.surf = d] ELSE Sw
    IN /\ pend # NoPend
       /\ SetSw(IF rc \/ pvm[d] THEN SwitchEpilogue(W, dv, d, FALSE) ELSE W)
       /\ pend' = NoPend
       /\ UNCHANGED SwitchVars

\* input_daemon_switch_focus with domid -1: switcher_unfocus_gpu
UnfocusGpu ==
    /\ Dispatchable
    /\ surface' = NoDom
    /\ UNCHANGED <<rt, prevKeyb, current, pend>> /\ UNCHANGED SwitchVars

\* go_to_next, the Meta+Alt binding: the slot after current's, cyclically
\* over 0..9, that holds a domain other than the UIVM.  The scan stops
\* when it comes back to current->slot; a current whose slot is -1 (a
\* record cleared by domain_gone) is never met again.
NextSlots(cs) == {(cs + i) % 10 : i \in 1..10} \ {cs}

GoToNext(rc) ==
    LET u == Uivm(live, slot)
        cs == slot[current]
        cand == {s \in NextSlots(cs) \cap Slots :
                   DomainWithSlot(live, slot, s) \notin {NoDom, u}}
        \* the first candidate in scan order: (s - cs - 1) % 10 is its rank
        s == CHOOSE x \in cand : \A y \in cand : (x - cs - 1) % 10 <= (y - cs - 1) % 10
    IN /\ Dispatchable
       /\ current # NoDom /\ current # u
       /\ IF cand # {}
          THEN /\ SetSw(SwitchNested(Sw, dv, DomainWithSlot(live, slot, s), FALSE, rc,
                                     disabled, pvm, pend))
               /\ UNCHANGED halted
          ELSE /\ UNCHANGED <<rt, prevKeyb, current, surface>>
               /\ halted' = IF cs \in 0..9 THEN halted ELSE "loop"
       /\ UNCHANGED <<pend>> /\ UNCHANGED SwitchVars0

-----------------------------------------------------------------------------
(* The divert RPCs of bus.c.  The caller is the domain whose domid the    *)
(* D-Bus sender has; NoDom stands for a sender without a domain record.   *)

\* a caller in Dom is a running domain; domain_with_domid(domid) finds it
CallerOK(c) == c = NoDom \/ live[c]
Sender(c) == c

\* check_init_divert_info
DivertOf(D, d) == IF D[d] = NoDv THEN [mouse |-> NoDom, key |-> NoDom, mode |-> {}]
                  ELSE D[d]

\* sync_mouse_domain (dup_mouse_clicks never duplicates: its frame test
\* y > sframe_y1 && y < sframe_y1 is unsatisfiable)
SyncMouseDomain(s, D, d) ==
    IF s.mouseParent = d \/ s.mouseDest = d THEN InputSetMouse(s, D, d) ELSE s

RoutingVars == <<live, slot, pvm, sstate, disabled, gpu2, prevKeyb, expectDeath,
                 current, surface, pend, pressed, buttons, heldBtn, phys,
                 outside, holding, lastD, connects>>

\* input_daemon_divert_mouse_focus, t: the domain of the uuid given
DivertMouse(c, t) ==
    LET d == Sender(c)
        D == [dv EXCEPT ![d] = [DivertOf(dv, d) EXCEPT !.mouse = t]]
    IN /\ Dispatchable /\ d # NoDom /\ live[d] /\ live[t]
       /\ dv' = D
       /\ rt' = SyncMouseDomain(rt, D, d)
       /\ UNCHANGED RoutingVars /\ UNCHANGED halted

\* input_daemon_divert_keyboard_focus
DivertKeyboard(c, t) ==
    LET d == Sender(c)
        D == [dv EXCEPT ![d] = [DivertOf(dv, d) EXCEPT !.key = t]]
    IN /\ Dispatchable /\ d # NoDom /\ live[d] /\ live[t]
       /\ dv' = D
       /\ rt' = SyncKbdDomain(rt, D, d)
       /\ UNCHANGED RoutingVars /\ UNCHANGED halted

\* input_daemon_stop_mouse_divert: sync_mouse_domain(NULL) reaches
\* set_mouse_domain(NULL) when mouse_parent or mouse_dest is NULL
StopMouseDivert(c) ==
    LET d == Sender(c)
        D == IF d # NoDom /\ dv[d] # NoDv THEN [dv EXCEPT ![d].mouse = NoDom] ELSE dv
        nullDeref == d = NoDom /\ (rt.mouseParent = NoDom \/ rt.mouseDest = NoDom)
    IN /\ Dispatchable /\ CallerOK(c)
       /\ dv' = D
       /\ rt' = IF nullDeref THEN rt ELSE SyncMouseDomain(rt, D, d)
       /\ halted' = IF nullDeref THEN "nullDeref" ELSE halted
       /\ UNCHANGED RoutingVars

\* input_daemon_stop_keyboard_divert: sync_kbd_domain(NULL) reaches
\* set_kbd_domain(NULL) when keyb_parent or keyb_dest is NULL
StopKeyboardDivert(c) ==
    LET d == Sender(c)
        D == IF d # NoDom /\ dv[d] # NoDv THEN [dv EXCEPT ![d].key = NoDom] ELSE dv
        nullDeref == d = NoDom /\ (rt.keybParent = NoDom \/ rt.keybDest = NoDom)
    IN /\ Dispatchable /\ CallerOK(c)
       /\ dv' = D
       /\ rt' = IF nullDeref THEN rt ELSE SyncKbdDomain(rt, D, d)
       /\ halted' = IF nullDeref THEN "nullDeref" ELSE halted
       /\ UNCHANGED RoutingVars

\* input_daemon_focus_mode
FocusMode(c, m) ==
    LET d == Sender(c)
    IN /\ Dispatchable /\ d # NoDom /\ live[d]
       /\ dv' = [dv EXCEPT ![d] = [DivertOf(dv, d) EXCEPT !.mode = m]]
       /\ UNCHANGED <<rt>> /\ UNCHANGED RoutingVars /\ UNCHANGED halted

-----------------------------------------------------------------------------
(* The keyboard commands of domain_command, written by domain d to its    *)
(* switcher/command node (watched once d has a slot).                     *)

CommandVars == <<live, slot, pvm, sstate, disabled, gpu2, dv, expectDeath,
                 current, surface, pend, pressed, buttons, heldBtn, phys,
                 outside, holding, lastD, halted, connects>>

Commander(d) == Dispatchable /\ live[d] /\ slot[d] # NoSlot

\* "keyboard take"
KbdTake(d) ==
    /\ Commander(d)
    /\ rt' = InputGiveKeyboard(rt, d)
    /\ UNCHANGED prevKeyb /\ UNCHANGED CommandVars

\* "keyboard take N": input_give_keyboard_from_domain(N, d)
KbdTakeFrom(d, src) ==
    /\ Commander(d) /\ live[src] /\ src # d
    /\ IF rt.mouseDest = src
       THEN rt' = InputGiveKeyboard(rt, d) /\ UNCHANGED prevKeyb
       ELSE prevKeyb' = [prevKeyb EXCEPT ![src] = d] /\ UNCHANGED rt
    /\ UNCHANGED CommandVars

\* "keyboard release"
KbdRelease(d) ==
    /\ Commander(d)
    /\ rt' = InputReturnKeyboard(rt, d)
    /\ UNCHANGED prevKeyb /\ UNCHANGED CommandVars

\* "keyboard release N": input_return_keyboard_to_domain(N, d)
KbdReleaseTo(d, dst) ==
    /\ Commander(d) /\ live[dst] /\ dst # d
    /\ IF rt.mouseDest = dst
       THEN rt' = InputReturnKeyboard(rt, d) /\ UNCHANGED prevKeyb
       ELSE /\ prevKeyb' = IF prevKeyb[dst] = d THEN [prevKeyb EXCEPT ![dst] = NoDom]
                            ELSE prevKeyb
            /\ UNCHANGED rt
    /\ UNCHANGED CommandVars

-----------------------------------------------------------------------------
(* input_read -> input_inject for the events of a keyboard and a mouse.  *)

\* input_send(d, e) of a key or button event, seen as what d believes is down
Send(h, d, k, down) ==
    IF d = NoDom THEN h ELSE [h EXCEPT ![d] = IF down THEN @ \cup {k} ELSE @ \ {k}]

\* the "old seamless" branch: keyboard and mouse go to different domains
Seamless(s) == s.keybDest # NoDom /\ s.mouseDest # NoDom /\ s.keybDest # s.mouseDest
               /\ ~s.waits

\* input_inject_seamless_mouse for a key (Keys holds no Ctrl+Alt+Delete):
\* code_is_meta_key, true for a meta key or while one is down
SeamlessMouseKey(ks, k) == k \in MetaKeys \/ ks \cap MetaKeys # {}

\* input_keys_status, then the keyboard path of input_inject.  Keys holds
\* no Windows key and no Alt+Tab, Ctrl+Esc: input_inject_seamless_keyboard
\* passes all of them.  No keyboard filter is set (filter_keys returns 0).
KeyEvent(k, down) ==
    LET ks == IF down THEN rt.keyStatus \cup {k} ELSE rt.keyStatus \ {k}
        d == IF rt.keybDest # NoDom THEN rt.keybDest ELSE rt.mouseDest
        h == IF Seamless(rt)
             THEN LET h1 == Send(rt.held, rt.keybDest, k, down)
                  IN IF SeamlessMouseKey(ks, k) THEN Send(h1, rt.mouseDest, k, down) ELSE h1
             ELSE Send(rt.held, d, k, down)
    IN /\ Dispatchable
       /\ down = (k \notin phys)
       /\ phys' = IF down THEN phys \cup {k} ELSE phys \ {k}
       /\ rt' = [rt EXCEPT !.keyStatus = ks, !.held = h]
       /\ UNCHANGED <<live, slot, pvm, sstate, disabled, gpu2, dv, prevKeyb,
                      expectDeath, current, surface, pend, pressed, buttons,
                      heldBtn, outside, holding, lastD, halted, connects>>

\* input_inject's static button_holding, for an event of a diverted mouse:
\* a SYN_REPORT ends a finished hold, a button held in CLICKHOLDFOCUS mode
\* starts one, and a hold that ends is marked finished (2)
Holding(h, syn, mode, anyButton) ==
    LET h1 == IF syn /\ h = 2 THEN 0 ELSE h
    IN IF "ClickHold" \in mode /\ anyButton THEN 1 ELSE IF h1 # 0 THEN 2 ELSE 0

\* the event goes to the parent: during a hold, where the last event went;
\* otherwise by the pointer position against the parent's source frame
ToParent(h, last, par, child, out) ==
    IF h # 0 /\ last = par THEN TRUE
    ELSE IF h # 0 /\ last = child THEN FALSE
    ELSE out

\* first entry of mouse_pressed[] for the button b (one device, one slot)
PressedIndex(p, b) == SelectInSeq(p, LAMBDA e : e.code = b)

\* mutant: a press is logged without the MAX_NUM_PRESSED bound check
CheckMouseKeysUnbounded(p, b, down, d) ==
    IF down THEN Append(p, [code |-> b, dom |-> d])
    ELSE LET i == PressedIndex(p, b) IN IF i > 0 THEN RemoveAt(p, i) ELSE p

\* check_mouse_keys on mouse_pressed[]: a press is logged with the domain
\* it goes to while there is room; a release drops the first entry of its
\* button (the release itself goes to the logged domain, see ButtonEvent)
CheckMouseKeys(p, b, down, d) ==
    IF down THEN IF Len(p) < MaxPressed THEN Append(p, [code |-> b, dom |-> d]) ELSE p
    ELSE LET i == PressedIndex(p, b) IN IF i > 0 THEN RemoveAt(p, i) ELSE p

\* a mouse button: input_track_mouse_position, then the mouse path of
\* input_inject with check_mouse_keys
ButtonEvent(b, down) ==
    LET btn == IF down THEN buttons \cup {b} ELSE buttons \ {b}
        child == rt.mouseDest
        par == rt.mouseParent
        click == rt.waits
        mode == IF par # NoDom THEN dv[par].mode ELSE {}
        h == Holding(holding, FALSE, mode, btn # {})
        toPar == par # NoDom /\ ToParent(h, lastD, par, child, outside)
        d == IF toPar THEN par ELSE child
        keyFollow == par # NoDom /\ ~toPar /\ click /\ "KeyFollowsMouse" \in mode
        D == IF keyFollow THEN [dv EXCEPT ![par].key = child] ELSE dv
        s1 == IF keyFollow THEN SyncKbdDomain(rt, D, par)
              ELSE IF par = NoDom /\ click THEN InputSetKeyb(rt, dv, child)
              ELSE rt
        i == PressedIndex(pressed, b)
        redirect == par # NoDom /\ ~down /\ i > 0 /\ pressed[i].dom # d
        p1 == IF par = NoDom THEN pressed ELSE CheckMouseKeys(pressed, b, down, d)
        hb1 == IF par # NoDom /\ ~toPar /\ "Clone" \in mode
               THEN Send(heldBtn, par, b, down) ELSE heldBtn
        hb == IF redirect THEN Send(heldBtn, pressed[i].dom, b, down)
              ELSE IF Seamless(s1) THEN Send(hb1, s1.mouseDest, b, down)
              ELSE Send(hb1, d, b, down)
    IN /\ Dispatchable
       /\ down = (b \notin buttons)
       /\ buttons' = btn
       /\ IF child = NoDom
          THEN UNCHANGED <<rt, dv, pressed, heldBtn, holding, lastD>>
          ELSE /\ rt' = s1 /\ dv' = D /\ pressed' = p1 /\ heldBtn' = hb
               /\ holding' = IF par # NoDom THEN h ELSE holding
               /\ lastD' = IF par # NoDom /\ ~redirect THEN d ELSE lastD
       /\ UNCHANGED <<live, slot, pvm, sstate, disabled, gpu2, prevKeyb,
                      expectDeath, current, surface, pend, phys, outside, halted, connects>>

\* a relative motion event (out: the pointer ends outside mouse_parent's
\* source frame), or the SYN_REPORT that closes a mouse report (syn);
\* edge: the slot configured for the screen edge the pointer reaches, for
\* switcher_switch_on_mouse, or NoSlot
PointerEvent(out, syn, edge, rc) ==
    LET child == rt.mouseDest
        par == rt.mouseParent
        mode == IF par # NoDom THEN dv[par].mode ELSE {}
        o == IF ~syn /\ child # NoDom THEN out ELSE outside
        h == Holding(holding, syn, mode, buttons # {})
        toPar == par # NoDom /\ ToParent(h, lastD, par, child, o)
        t == DomainWithSlot(live, slot, edge)
    IN /\ Dispatchable
       /\ syn => (out = outside /\ edge = NoSlot)
       /\ outside' = o
       /\ IF child = NoDom
          THEN UNCHANGED <<holding, lastD, rt, prevKeyb, current, surface>>
          ELSE /\ holding' = IF par # NoDom THEN h ELSE holding
               /\ lastD' = IF par = NoDom THEN lastD ELSE IF toPar THEN par ELSE child
               /\ IF (par = NoDom \/ toPar) /\ edge # NoSlot /\ current # NoDom
                     /\ t # NoDom
                  THEN SetSw(SwitchNested(Sw, dv, t, TRUE, rc, disabled, pvm, pend))
                  ELSE UNCHANGED <<rt, prevKeyb, current, surface>>
       /\ UNCHANGED <<live, slot, pvm, sstate, disabled, gpu2, dv, expectDeath,
                      pend, pressed, buttons, heldBtn, phys, halted, connects>>

-----------------------------------------------------------------------------
Next ==
    /\ halted = "no"
    /\ \/ \E k \in PvmTypes, u \in UuidMatches, rc \in Replies, s \in Slots \cup {NoSlot},
                x \in DisabledFlags, g \in Gpu2Flags :
             Connect(k, s, u, x, g, rc)
       \/ \E d \in Dom, rc \in Replies : DomainGone(d, rc)
       \/ \E d \in Dom, st \in Reasons : ShutdownReport(d, st)
       \/ \E s \in Slots : ExpireDeathWindow(s)
       \/ \E d \in Dom, rc \in Replies : SwitchRequest(d, rc)
       \/ \E d \in Dom : SwitchBegin(d)
       \/ \E rc \in Replies : SwitchReply(rc)
       \/ UnfocusGpu
       \/ \E rc \in Replies : GoToNext(rc)
       \/ \E c \in Callers, t \in Dom : DivertMouse(c, t) \/ DivertKeyboard(c, t)
       \/ \E c \in Callers : StopMouseDivert(c) \/ StopKeyboardDivert(c)
       \/ \E c \in Callers, m \in Modes : FocusMode(c, m)
       \/ \E d \in Commanders, e \in Dom : KbdTake(d) \/ KbdTakeFrom(d, e) \/ KbdRelease(d)
                            \/ KbdReleaseTo(d, e)
       \/ \E k \in Keys, down \in BOOLEAN : KeyEvent(k, down)
       \/ \E b \in Buttons, down \in BOOLEAN : ButtonEvent(b, down)
       \/ \E out, syn \in BOOLEAN, rc \in Replies, edge \in Slots \cup {NoSlot} :
             PointerEvent(out, syn, edge, rc)

Spec == Init /\ [][Next]_vars

-----------------------------------------------------------------------------
(* Properties.                                                             *)

TypeOK ==
    /\ live \in [Dom -> BOOLEAN] /\ pvm \in [Dom -> BOOLEAN]
    /\ slot \in [Dom -> Slots \cup {NoSlot}]
    /\ sstate \in [Dom -> ShutdownCodes]
    /\ disabled \in [Dom -> BOOLEAN] /\ gpu2 \in [Dom -> BOOLEAN]
    /\ dv \in [Dom -> DivertInfo \cup {NoDv}]
    /\ prevKeyb \in [Dom -> DomOrNull]
    /\ expectDeath \in [Slots -> BOOLEAN]
    /\ rt \in Routing
    /\ current \in DomOrNull /\ surface \in DomOrNull /\ pend \in Pend
    /\ pressed \in Seq([code : Buttons, dom : DomOrNull]) /\ Len(pressed) <= MaxPressed
    /\ buttons \subseteq Buttons /\ heldBtn \in [Dom -> SUBSET Buttons]
    /\ phys \subseteq Keys /\ outside \in BOOLEAN /\ holding \in 0..2
    /\ lastD \in DomOrNull /\ halted \in {"no", "nullDeref", "loop"} /\ connects \in 0..MaxConnects

Live(d) == d # NoDom /\ live[d]

\* The mouse and keyboard destinations and the divert parents are live
\* domains (or NULL): input_send never delivers to a domain that is gone
\* (domain_gone clears them in input_domain_gone).
RoutingTargetsLive ==
    \A p \in {rt.mouseDest, rt.keybDest, rt.mouseParent, rt.keybParent} :
        p = NoDom \/ live[p]

\* A divert parent has its divert_info: input_inject dereferences
\* mouse_parent->divert_info and filter_keys keyb_parent->divert_info.
ParentsHaveDivert ==
    /\ rt.mouseParent # NoDom => dv[rt.mouseParent] # NoDv
    /\ rt.keybParent # NoDom => dv[rt.keybParent] # NoDv

\* surface_current is a live domain: switcher_domain_gone clears it, and a
\* later switch compares it with its target to skip the surfman call.
SurfaceLive == surface = NoDom \/ live[surface]

\* A live domain's saved keyboard domain is live: reset_prev_keyb_domain
\* clears the pointers to a domain that goes, and restore_prev_keyb_domain
\* gives the keyboard to the one saved.
PrevKeybLive == \A d \in Dom : live[d] /\ prevKeyb[d] # NoDom => live[prevKeyb[d]]

\* A live domain diverts only to live domains: check_diverts_for_the_dead
\* clears the divert pointers to a domain that goes.
DivertTargetsLive ==
    \A d \in Dom : live[d] /\ dv[d] # NoDv =>
        \A t \in {dv[d].mouse, dv[d].key} : t = NoDom \/ live[t]

\* No key stays down in a live domain after it is released on the
\* keyboard: whenever the keyboard moves, input_keyboard_reset sends the
\* releases of the keys down to the domain losing it.
NoStuckKeys == \A d \in Dom : live[d] => rt.held[d] \subseteq phys

\* No mouse button stays down in a live domain after it is released:
\* check_mouse_keys sends each release where its press went.
NoStuckButtons == \A d \in Dom : live[d] => heldBtn[d] \subseteq buttons

\* The daemon never dereferences a NULL domain.
NoNullDeref == halted # "nullDeref"

\* No handler loops forever (go_to_next stops after one lap of the slots).
NoEndlessLoop == halted # "loop"

\* When the keyboard leaves a domain that stays up and does not have the
\* mouse, that domain is sent a release for every key down
\* (input_keyboard_reset in input_set_keyb, input_set, input_give_keyboard
\* and input_return_keyboard; the last two skip it when keyb_dest is
\* mouse_dest).
KeyboardLeavesClean ==
    [][LET old == rt.keybDest
       IN old # NoDom /\ old # rt.mouseDest /\ rt'.keybDest # old /\ live'[old]
          => rt'.held[old] \cap rt.keyStatus = {}]_vars

\* Stopping a mouse divert that is not active leaves the routing state as
\* it is (input_daemon_stop_mouse_divert, then sync_mouse_domain).
StopMouseDivertIdempotent ==
    [][\A c \in Callers :
         StopMouseDivert(c) /\ c # NoDom /\ (dv[c] = NoDv \/ dv[c].mouse = NoDom)
         => rt' = rt]_vars

\* Once a domain is gone no entry of mouse_pressed[] names it: the loop of
\* input_domain_gone removes all of its entries.
PressedPurgedOnGone ==
    [][\A d \in Dom : live[d] /\ ~live'[d] =>
         \A i \in 1..Len(pressed') : pressed'[i].dom # d]_vars

====
