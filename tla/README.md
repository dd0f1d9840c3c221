# TLA+ models of the OpenXT input daemon

This directory holds TLA+ models of the input daemon in `src/` and the TLC
configurations that check them. `PROJECT.json` lists the following, and this file
explains them:

- every component of the daemon;
- every run and what it checks;
- the mutants that show each checked property depends on the code;
- which source lines each definition models;
- the findings and the hazards.

## The system

The daemon is one process with one thread, driven by libevent. It reads
keyboard, mouse and touchpad devices and sends each event to one of the
guest domains. Its parts:

| Part | Source | Role |
|------|--------|------|
| Routing arbiter | `input.c` | `mouse_dest`, `keyb_dest`, the divert parents `mouse_parent`/`keyb_parent`, `keyb_waits_for_click`, `key_status`, `mouse_pressed[]`; `input_inject` decides where an event goes |
| Domain registry | `domains.c` | the static `domains[]` array; `domain_create` on a client's `rpc_connect`, `domain_gone` on its disconnect, xenstore commands (`switch`, `keyboard take`, ...) |
| Switcher and focus policy | `switch.c`, `focus.c` | `switcher_switch`, which asks surfman (a blocking D-Bus call) to show a domain and moves the input focus to it; reacting to a domain's death; `go_to_next`; switching when the mouse hits a screen edge |
| D-Bus service | `bus.c` | `switch_focus`, the divert RPCs (a domain diverts its mouse or keyboard to another domain), focus modes, auth and settings |
| Touchpad, gestures | `touchpad.c`, `gesture.c`, `usb-tablet.c` | turning touchpad packets into pointer, click and scroll events; recognising multitouch swipes on a tablet, which switch domains or enter stand-back, and withholding the touches of a swipe from the guest |
| Secure mode | `secure.c`, `secure_scripts.c` | the login and lock screen: auth context and local or remote password checks |
| Plugin socket | `socket.c`, `server.c`, `client.c` | queued device events for the input plugin |
| Xen vkbd, events | `xen_vkbd.c`, `xen_event.c` | the paravirtual keyboard backend |
| Rest | `pm.c`, `lid.c`, `keymap.c`, `usb-tablet.c`, `superhidplugin.c`, `util.c`, `main.c`, ... | power, lid, layouts, HID reports, startup |

How the parts interact:

- Every routing decision reads the divert infos kept by the registry.
- Every switch writes the routing state.
- `domain_gone` calls into focus, routing and the switcher, in this order:
  1. `focus_domain_gone`
  2. `reset_prev_keyb_domain`
  3. clearing the record
  4. `input_domain_gone`
  5. `switcher_domain_gone`
  6. `check_diverts_for_the_dead`

## Modules

- **`Focus.tla`** models these parts, which cannot be separated: the routing arbiter, the domain registry, the switcher, the focus policy and the divert RPCs.
- **`KeyFilter.tla`** models the keyboard filter of a divert: `set_divert_keyboard_filter` with `addmod`, `filter_keys` with `keyb_modbits`, `send_keypair`, and the keyboard moves that reset the modifier bits. See [KeyFilter](#keyfilter).
- **`Touchpad.tla`** models the touchpad driver of `touchpad.c`. See [Touchpad](#touchpad).
- **`Secure.tla`** models secure mode and authentication: `secure.c`, the secure-mode gate and timers of `input.c`, `switcher_lock`/`switcher_auth_force` of `switch.c` and the auth methods of `bus.c`. **`SecureSession.tla`** is the abstract promise that `Secure` is shown to implement. See [Secure](#secure).
- **`Socket.tla`** models the plugin socket of `socket.c` with the calls `input.c` makes into it. See [Socket](#socket).
- **`Gesture.tla`** models the gesture recogniser of `gesture.c` and `handle_gestures` of `usb-tablet.c`, which decides which touch events reach the guest. See [Gesture](#gesture).
- **`MCFocus.tla`, `MCKeyFilter.tla`, `MCTouchpad.tla`, `MCSecure.tla`, `MCSocket.tla`, `MCGesture.tla`** give the model values and small sets that the configurations use.

The three models meet only at `input_inject`:
- `KeyFilter` runs in front of the keyboard path of `Focus`'s `KeyEvent`.
- The touchpad's button events enter `Focus`'s `ButtonEvent`.

`Socket` meets `Focus` at `input_send`: an event routed to a domain whose `d->plugin` is set goes to the plugin instead of the guest. `Socket` has one such domain and takes any event of a present device as routed there.

Each model fixes the other's side: `KeyFilter` has one owner, its divert and one other domain; `Touchpad` has one receiver of its events.

### State

A domain is one of the records of the `domains[]` array. The constant
`DomSeq` lists the records in array order, and `NoDom` is NULL. The order
matters because `empty_domain` takes the first record that is not initialised.
As a result, a dead domain's record is reused by the next domain that connects,
and weak pointers to the dead domain then alias the new one. For the same
reason, no symmetry is declared.

| Variable | Code |
|----------|------|
| `live`, `slot`, `pvm`, `sstate`, `disabled`, `gpu2`, `dv`, `prevKeyb` | the fields of `struct domain` the routing reads |
| `expectDeath` | `focus.c`'s death windows |
| `rt` | `mouse_dest`, `keyb_dest`, `mouse_parent`, `keyb_parent`, `keyb_waits_for_click`, `key_status`, plus `held` (the keys each domain was sent down and not up) |
| `current`, `surface` | `switch.c`'s `current` and `surface_current` |
| `pend` | the switch waiting on surfman (`switching = 1`) |
| `pressed` | `mouse_pressed[]` |
| `buttons`, `heldBtn` | the buttons physically down, and those each domain was sent down |
| `phys` | the keys physically down |
| `holding`, `lastD` | `input_inject`'s static `button_holding` and `last_d` |
| `outside` | whether the pointer lies outside the parent's source frame |
| `halted` | why the daemon stopped serving: a NULL dereference or an endless loop |
| `connects` | the number of `rpc_connect` calls so far, bounded |

### Actions

There is one action per handler, and each runs to completion:

- `Connect`: `domain_create` → `switcher_domid` / `switcher_pvm_domid`, including the switches these make.
- `DomainGone`: the whole of `domain_gone`, in the code's order.
- `ShutdownReport`: `handle_switcher_shutdown`.
- `ExpireDeathWindow`: the 30 s window that `expecting_death` checks.
- `SwitchRequest`: `switch_focus`, the `switch` commands and the hotkeys.
- `SwitchBegin` and `SwitchReply`: the two halves of the same switch, used when surfman's blocking call dispatches other handlers.
- `UnfocusGpu`, `GoToNext`.
- `DivertMouse`, `DivertKeyboard`, `StopMouseDivert`, `StopKeyboardDivert`, `FocusMode`.
- `KbdTake`, `KbdTakeFrom`, `KbdRelease`, `KbdReleaseTo`: the xenstore keyboard commands.
- `KeyEvent`, `ButtonEvent`, `PointerEvent`: `input_inject` for a key, a button, and a motion or `SYN_REPORT`. The pointer at a screen edge triggers `switcher_switch_on_mouse`.

The routing helpers are operators on the routing record, and each is named
after its C function: `SetMouseDomain`, `InputSet`, `InputGiveKeyboard`,
`SavePrevKeyb` and the rest.

A nested call of `switcher_switch` is `SwitchNested`, which models two guards:

- It is rejected while another switch waits on surfman (the `switching` flag).
- It does nothing on a NULL domain.

### NestedDispatch

`switch.c:78-81` says that a second request can arrive while
`switcher_switch` waits for surfman. With `NestedDispatch` TRUE:

- A switch that calls surfman is split into `SwitchBegin` and `SwitchReply`.
- Every other handler may run in between.

With it FALSE, every switch is atomic.

### Data abstracted

- **Not modelled in `Focus`:** key codes beyond a meta key and an ordinary key; pointer coordinates; the divert frames; LEDs, numlock and grabs. The keyboard filter is the module `KeyFilter`.
- **Mouse position:** reduced to "outside the parent's source frame" and "at a screen edge with slot s".
- **`dup_mouse_clicks`:** modelled as doing nothing. Its frame test `y > sframe_y1 && y < sframe_y1` can never hold.

## KeyFilter

A domain (`Owner`) that diverts its keyboard to another (`Child`) registers
shortcuts first. `filter_keys` then swallows a key that completes one and
replays it to the owner.

| Variable | Code |
|----------|------|
| `mods` | `dv->modifers[1..modifers[0]]`, preset with Alt and Ctrl by `check_init_divert_info` |
| `keylist`, `hasList` | `dv->keylist`, `num_keys`; each shortcut's `mod_bits` is a set of bit numbers |
| `keyDomain` | `dv->key_domain` |
| `keybDest`, `keybParent`, `focus` | `keyb_dest`, `keyb_parent`, and the domain `input_set` chose (which `mouse_dest` follows) |
| `modbits` | `keyb_modbits` |
| `keyStatus`, `phys`, `held` | `key_status[]`, the keys physically down, the keys each domain was sent down |

The actions:
- `SetFilter`: the whole RPC, including the Busy refusal and the parse loop, as the recursive operator `ParseFilter` over `AddMod`.
- `DivertKeyboard`, `StopKeyboardDivert`: with `sync_kbd_domain`.
- `Switch`: `input_set`.
- `KeyEvent`: `input_keys_status`, `filter_keys` (with `send_keypair`), then delivery to `keyb_dest`.

`1 << -1`, which the code reaches when `addmod` fails, is undefined. The model uses the x86 outcome, bit 31.

## Touchpad

A packet is one action, `Packet`. It gathers the packet's events as `handle_touchpad_event` does, then runs `process_packet` at `SYN_REPORT`. The handlers of `process_packet` are operators applied in the code's order:
1. `handle_button_clicks`, unless the device is a clickpad;
2. the early return while the pad is off;
3. `detect_finger`;
4. `HandleClickpad`;
5. `HandleGestures`, the tap state machine;
6. `HandleScrolling`, edge and corner scrolling with `StartCornerScrolling`;
7. `save_previous_packet_values`.

The other actions:
- `LeftClickFires` is the tap-to-click timer.
- `Disable` and `Enable` are the hotkeys (`KEY_PROG2`, `KEY_HELP`, Fn+F8).
- `SetTapToClick` and `SetScrolling` are the D-Bus settings.

`guest` is the set of buttons the guest was sent down, and `phys` the buttons physically down.

The model abstracts the following:
- **Coordinates:** a grid. `NoX`, `NoY` and `NoPressure` stand for an absent value, as `no_x` does in the code.
- **Motion:** the pointer motion estimate, which is fractional arithmetic, is left out.
- **Wheel steps:** the number of wheel steps is left out.
- **Autoscroll:** whether `start_corner_scrolling` gets a nonzero speed depends on the last four positions, so it is a nondeterministic choice.
- **Autoscroll timer firing:** it re-arms itself and sends a wheel event, so it changes no modelled state and is not an action. `asTimer` records that it is armed.

## Secure

Secure mode is the login and lock screen. `input_dev.secure_mode` is on while
the UIVM's auth window collects a user name and passwords; while it is on and
the UIVM has the focus, `input_secure_mode` takes every key. The variables:

| Variable | Code |
|----------|------|
| `secure`, `collect` | `input_dev.secure_mode`, `input_dev.collect_password` |
| `ctx` | `g_auth_context` and `g_auth_context_present` (`NoCtx` when absent); its user and flags |
| `window` | the UIVM's `login/state` node: `"absent"`, `"1"` shown, `"0"` told to hide, `"3"` closed |
| `focus` | whether the UIVM or a guest is on screen |
| `revert`, `timeout` | `revert_to_auth_event` armed; the idle count of `input_lock_timer` |
| `dbUser`, `dbFlags`, `rootPw` | `/platform/username`, `/platform/flags`, a root password set |
| `pending`, `localHash`, `remoteHash` | remote logins the backend has still to answer; the hash files on the ramdisk |
| `field`, `text` | `auth.current_field` and the four field buffers |

The call chains of the code are sequential C, so the module writes them as
operators from a state record to a state record (or to a set of records
where a script or a file write may fail): `S` is the current state as a record
and `Commit(r)` primes every variable from `r`. `AuthEnd` calls `LocalAuth`,
which calls `AuthStatus`, which calls `InputSecure`, which calls
`ClearPasswd`, exactly as `auth_end` does. Each action commits the
result of one D-Bus call, one key, or one timer firing:

- `Key(k)` is `input_read` for one key: the idle count reset, then the gate
  (`GateKey`: Escape, Tab, Shift+Tab, Backspace, Enter, a character) or the
  two chords (Ctrl+1, Ctrl+Alt+Backspace);
- `SetContext`, `AuthBegin`, `Lock`, `CollectPassword`, `AuthRemoteLogin`,
  `AuthRemoteStatus` are the D-Bus methods;
- `LockTick` is `input_lock_timer(1)`, every 5 s; `RevertToAuth` is
  `revert_to_auth` switching to the UIVM, `RevertToAuthFail` the same timer
  when `switcher_switch` returns -1 (a switch already in progress, or
  surfman not showing the UIVM); both re-arm it while secure mode is on.
  `LockTimeout` need not be a multiple of 5: the count moves by 5, so it may
  pass the timeout by up to 4;
- `Switch` is a switch the daemon does not decide (xenmgr, the mouse);
  `WindowClosed` is the UIVM closing a window it was told to hide.

Abstracted: the characters are one word; hashes and scripts are the outcome
of their exit status (success or failure, both enumerated); the status
strings are not state (`g_auth_status` is only read by `auth_get_status`).

**Refinement.** `SecureSession` has four booleans (on, context present,
collecting, secret text present) and seven actions. `Secure` instantiates it
with `on <- secure`, `hasCtx <- ctx # NoCtx`, `collecting <- collect /\ secure`
(`input_secure` resets `collect_password` only on entry, so the flag counts
only while secure mode is on) and `typed <- Typed`, and the run checks
`Session!Spec` as a property.

## Socket

The input plugin is one client of a Unix socket. It sends `VM_TAKE_FROM`
to take a domain's input. From then on, `d->plugin` is set for that domain,
and `input_send` passes its events to `send_plugin_event` instead of the
guest. Device changes (`DEV_CONF` on add, `DEV_RESET` on removal, a reset-all
first in `sock_plugin_sendconfig`) go through `send_plugin_dev_event`. Every
send is non-blocking:

- on `EAGAIN` the record is lost;
- on a short write the rest waits in `partialBuffer` and goes first at the next send;
- on any other error the connection is killed.

Lost device changes wait in the `dev_events` queue. A lost input event sets
`dropped`, which makes a later send start with a `SYN_DROPPED`. If the loss
came before a slot change went out, `slot_dropped` is set instead.

| Variable | Code |
|----------|------|
| `conn`, `peer` | `buffers.s != -1`; the plugin process alive (its end open) |
| `dPlugin`, `src`, `dest` | `d->plugin` of the domain; `plug->src`; `plug->dest` |
| `slot`, `dropped`, `slotDropped`, `error`, `resetall` | the fields of `struct sock_plugin` |
| `delayed` | the record left in `partialBuffer`, or `NoRec` |
| `queue`, `mem`, `fault` | `dev_events[0..deq_size-1]`; whether the pointer is NULL, live or freed; a heap use after free or a double free |
| `present`, `types` | device fds open; `input_dev.types[]` set |
| `pSlot`, `pDevs`, `owed`, `seen` | ghost: the plugin's slot and devices, an unreported loss, what the last input event met |

The style is that of `Secure`. A send returns the set of its outcomes:
- not sent;
- delivered;
- delivered in part;
- connection killed, after which `send_to_plugin` still returns true.

`Then` chains a continuation over every outcome. `Flush`, `DevEvent` and
`Batch` are `RECURSIVE`, like the loops and the self-call of the code. The
plugin's view changes when a whole record is delivered (`Deliver`).

Actions:
- `Accept` is `server_accept`;
- `Recv(b)` is one recv of whole records, each run through `process_event`;
- `RecvEof` is the end of file that kills the connection;
- `PluginExit` is the plugin dying (the environment);
- `DevAdd`, `DevRemove` and `Input` are the `input.c` calls: a pointer device configured, a failed read dropping a device, an event routed by `input_send`.

Abstracted:
- `findnext` and the receive buffer: a recv yields whole records;
- `VM_SEND_TO` and `send_event`: forwarding to another domain over the dom0 channel;
- the record contents beyond their kind and slot;
- there is one domain.

## Gesture

`Gesture.tla` models the touch gesture recogniser of `gesture.c` and the glue in
`usb-tablet.c` (`handle_gestures`) that feeds it and decides which touch events
reach the guest.

- **State.** `runstate` (startup, running, stand-back); `act` and `sub`, the
  cursor (`g->act`, `g->sub_act`) of each of the five gestures; `fingers[slot]`,
  the last matched position; `down` and `pos`, the tracking id and position
  `handle_gestures` keeps per slot; `silence`; and `layout`, what the build put
  after `singledrag_actions[]`. `guestDown` is a ghost: the touches whose
  landing the guest saw and whose lift it has not.
- **Tables.** `singledrag`, `twotap`, `twodrag` and `Lists` are the static
  tables; the coordinates and zones are the source's (screen 0..32767).
  `singledrag_actions[]` has no `ENDACTION`, so a cross reads past it; `Memory`
  continues it with a zero slot (`eEnd`), `twotap_actions` or
  `twodrag_actions`, chosen once in `Init`.
- **Actions.** A report of one slot: `Contact` (a new tracking id), `Lift`
  (tracking id -1) and `Move` (a new position). Each runs `Report`: the
  tracking-id event passes to the guest under the silence of the previous
  report; `GestureHandler` runs `GestureMatch` (contact, release) or
  `GestureMatchMove` (move) over `gestures[]` or, in stand-back,
  `standback_gestures[]`, in order; the first recognised gesture fires its
  callback and cleans every cursor; silence takes "some gesture is tracking".
  The standback callback changes `runstate`; the switch callbacks call the
  switcher, which `Focus` models.

## Runs

Every `Focus` configuration instantiates `MCFocus` with:

- 2 domain records and slots {0, 1};
- `KbdFollowsMouse` FALSE;
- `NestedDispatch` FALSE, except in the divert run and `FocusNestedGone.cfg`.

### Passing runs

| Run | cfg | Properties | What it shows |
|-----|-----|------------|---------------|
| lifecycle | `Focus.cfg` | `RoutingTargetsLive`, `SurfaceLive` | Without diverts, connects, deaths, shutdown reports, switches and keyboard commands never leave routing or `surface_current` on a dead record. |
| divert | `FocusDivert.cfg` | `ParentsHaveDivert`, `DivertTargetsLive`, `PrevKeybLive` | With the divert RPCs of one caller, and `NestedDispatch` TRUE, parents keep their `divert_info`, live diverts point at live domains, and saved keyboard domains are live. This is the run that fires `SwitchBegin` and `SwitchReply`. |
| keys | `FocusKeys.cfg` | `KeyboardLeavesClean` | Each time the keyboard leaves a running domain that does not have the mouse, every key down is released there. |
| mouse | `FocusMouse.cfg` | `TypeOK` | Buttons, pointer motion and focus modes of a diverted mouse keep `mouse_pressed[]` within its bound, with a table of one entry so the guard at `input.c:1557` binds. |
| keyfilter | `KeyFilter.cfg` | `ModbitsAreHeld` | With two filters (Ctrl+A; Ctrl+Shift+A, which adds Shift to the table), keyboard diverts, switches and presses of Ctrl, Shift and A: while the keyboard is diverted, every bit of `keyb_modbits` names a modifier that is physically down. |
| secure | `Secure.cfg` | `TypeOK`, `SessionRefined`, `LockReturnsToAuth` (liveness) | Over every order of keys, auth D-Bus calls, backend answers, lock-timer ticks and `revert_to_auth`: secure mode implements `SecureSession`, and while a lock with its revert timer armed lasts, the screen comes back to the UIVM, although any switch may fail: this needs `revert_to_auth` to re-arm after a failed switch. |
| socket | `Socket.cfg` | `TypeOK`, `LossRemembered`, `SlotAgrees` | Over reconnects, `EAGAIN`, partial sends, a dying plugin and hot-plug: while connected, a lost event the plugin was not told about is held in `dropped`, `slot_dropped` or a half-sent `SYN_DROPPED`; with no record half sent, `plug->slot` is the slot the plugin last received. |
| touchpad | `Touchpad.cfg` | `TapResolves` (liveness) | Under a weakly fair tap-to-click timer, a pending single tap always becomes a click, a double tap or a drag, whatever packets, hotkeys and settings come meanwhile. |

Every property of a passing run has a mutant in `PROJECT.json`: a plausible bug
in a mapped definition, with which TLC finds the property violated.

### Violation runs

Each violation run checks one property and has a finding.

| Run | Property | Finding |
|-----|----------|---------|
| `gesture_stuck_touch` | `GuestTouchesReleased` | A finger lifted while a two-finger gesture is tracking has its release withheld (the frame passes under the previous report's silence). When the gesture then fails or fires, silence clears, and the guest keeps the touch down: two fingers land at the left edge, which starts `goright`; one lifts there, `goright` fails, and its lift was never sent. |
| `endless_next` | `NoEndlessLoop` | `go_to_next` never ends when `current->slot` is -1. That happens when a switch made a domain without a slot current, or when `current` is a record cleared by `domain_gone`: `switcher_domain_gone` leaves it there unless the domain has a secondary GPU. |
| `lock_not_enforced` | `LockEnforced` | A lock (Ctrl+Alt+Backspace, the idle timer, D-Bus `lock`) sets `AUTH_FLAG_LOCK` without arming `revert_to_auth` when secure mode is already on (`input_secure(1)` returns at once) or when the window is still `"0"` after an `auth_status` hid it (`auth_begin` fails). The guest keeps the screen under a lock. |
| `socket_double_free` | `MemorySafe` | A device change hits `EAGAIN` and is queued; the plugin exits; the next input event flushes the queue. The send fails with `EPIPE`, and `kill_connection` frees `dev_events` without clearing it. `send_to_plugin` still returns true, so the flush writes `dv->add` and reallocs the freed block. Later `EBADF` sends kill again and free it a second time. |

### Further counterexamples

These configurations are not in the run list, but TLC finds each property violated. `PROJECT.json` records them as hazards.

| cfg | Property | What the trace shows |
|-----|----------|----------------------|
| `FocusStuckKey.cfg` | `NoStuckKeys` | A keyboard move that skips `input_keyboard_reset` leaves a key down in the old domain: give-keyboard when keyb == mouse, and `input_set_mouse`. |
| `FocusStuckButton.cfg` | `NoStuckButtons` | A button pressed before a focus switch is released only in the new domain. |
| `FocusPurge.cfg` | `PressedPurgedOnGone` | `input_domain_gone` removes only the first `mouse_pressed[]` entry of the dead domain. |
| `FocusStopIdem.cfg` | `StopMouseDivertIdempotent` | Stopping an inactive mouse divert sets `keyb_waits_for_click`. |
| `FocusNullCaller.cfg` | `NoNullDeref` | `stop_*_divert` from a sender without a record reaches `set_*_domain(NULL)`. |
| `FocusNestedGone.cfg` | `RoutingTargetsLive` | A domain that dies while a switch to it waits on surfman gets the focus when surfman answers. |
| `SecureHash.cfg` | `NoHashWithoutRequest` | `auth_remote_login` writes the local hash, the remote write fails, and the local hash stays on the ramdisk with no login pending. |
| `KeyFilterOverflow.cfg` | `ShortcutsMatchable` | `addmod` allows `MAX_MODS` codes after the count word. With one 17-modifier shortcut (real `MAX_MODS` 20, the four presets), the 16th new modifier is written past `modifers[]` and the 17th gets bit 31, so the shortcut can never match. |
| `TouchpadClickpad.cfg` | `NoStuckButton` | A clickpad sends button events only from packets on the bottom edge. A press there, released after the finger moved up, leaves the button down in the guest. |
| `SocketSlot.cfg` | `EventsOnRightSlot` | `send_plugin_event` calls `send_slot` and sends the event even when the `DEV_SET` was lost. The plugin reads the event under its old slot. This contradicts the comment at `socket.c:163`, which says the dropped slot number implies the first packet was dropped too. |
| `SocketReset.cfg` | `DevicesAgree` | With a reset-all pending (`VM_TAKE_FROM`'s reset hit `EAGAIN`), `send_plugin_dev_event` flushes the queued `DEV_CONF`s before it sends the reset-all, which wipes them: the plugin loses devices the daemon has. `send_plugin_event` uses the right order. With removable devices, `input_dev.types[]` is never cleared on removal, so `sock_plugin_sendconfig` also configures removed devices. |
| `FocusDeadTarget.cfg` | `RoutingTargetsLive` | `domain_gone` switches to the UIVM before it clears diverts. If the UIVM diverts to the dying domain, routing ends on the dead record. |
| `GestureOverread.cfg` | `NoOverread` | A cross's first stroke reads past `singledrag_actions[]` after a contact and a release. With `twotap_actions` next in memory, a cross never completes: with that layout a complete search (184746 states) reaches no stand-back, against spec §8 Scenario B. With zeros next, it works as written; with `twodrag_actions`, only after two more contacts and releases. |
| `KeyFilterStuck.cfg` | `NoKeyLeftDown` | A key pressed before Ctrl and released after it: its press went to the divert, its release matches Ctrl+A and is swallowed. |

## Bounds and why they suffice

- **Two records and up to 2–3 connects:** a record can die and be reused, and two live domains can divert to each other or split keyboard and mouse.
- **Two slots, {0, 1}:** the UIVM plus one guest slot. This is enough for `go_to_next`, the death window and edge switching. A connect without a slot is also enumerated, which gives the slot -1 case.
- **Keys, meta key included:** the stuck-key cases all need a meta key, because in the seamless split (keyboard and mouse in different domains) only meta keys reach `mouse_dest`.
- **One button, `MaxPressed` 2:** enough to fill `mouse_pressed[]` and to log two presses of one domain.
- **KeyFilter:** `MAX_MODS` is the real 20 and the presets the real four. The key codes are the kernel's, so the overflow run needs no scaling. Three keys (Ctrl, Shift, A) give every order of a modifier and a key around a divert or a switch.
- **Touchpad:** x in {0, 2} and y in {1, 2} (the pass run), or {0, 1, 2} (the clickpad run). These give the right edge, a corner, the middle and a move of at least `tap_move`. Three pressures reach both sides of the hysteresis and the band between. The pass run uses the left button alone: a touchpad's right button takes the same path. `scroll_packet_count` is kept at most 4, since only "more than 3" is tested.
- **Secure:** one word for user names and characters; four contexts (a local user; a remote user with no name; a confirm plus root password; a local password change), which reach every tab order and every branch of `auth_end`; `LockTimeout` 5, one tick, so the timer locks on its second firing; `MaxPending` 1 (one remote login in flight, enough for an answer to race a lock or a cancel); the fresh start state of the daemon.
- **Socket:** slots {0, 1}, the second one removable. Two slots are the least with slot changes between devices; one removable device gives removal, re-adding and queued removes without doubling the states. The plugin sends `VM_TAKE_FROM` of the domain or of a missing one, one record per recv. The missing domain detaches the source and answers with `VM_ERROR`, which leaves `plug->error` set when it cannot be sent. A bad code and `VM_SEND_TO` add only another error reply or `dest`, which no property reads. Every send has every outcome, so `EAGAIN`, short writes and `EPIPE` meet every step of the queue and slot code.
- **Choice sets:** surfman replies, PVM type, focus-uuid match, disabled surface and secondary GPU are sets of booleans, and each run enumerates the ones its question needs.

- **Gesture:** two touch slots (two fingers make every gesture of the tables),
  and x, y in {2000, 16383, 30000}: the left or top zone, the middle band and
  the right or bottom zone, so every zone of `position_match` is reachable, and
  any two distinct points are further apart than `MIN_DIST`. One report per
  slot per frame, as a protocol-B device sends for one finger.

## Fairness

`Focus` and `KeyFilter` are checked for safety only, without fairness.

`CHECK_DEADLOCK FALSE` is set in `Focus` because a behaviour that reaches `halted` really stops: the daemon is dead after a NULL dereference or spinning in `go_to_next`. Once `MaxConnects` connects have been used, the model could still deadlock, but every handler except `Connect` stays enabled then. `KeyFilter` and `Touchpad` check deadlock; key presses and packets are always possible.

The touchpad run assumes `WF_vars(LeftClickFires)`. An armed libevent timer runs once the loop is idle, and nothing keeps the single-threaded loop busy for ever. No fairness is assumed for packets, hotkeys or settings, which the user produces.

`Socket` checks safety only and sets `CHECK_DEADLOCK FALSE`: a state with a heap fault stops (the daemon has corrupted its heap).

The secure run assumes `WF_vars(RevertToAuth \/ RevertToAuthFail)`, for the same reason: `revert_to_auth_event` is an armed libevent timer, so it fires. It also assumes `SF_vars(RevertToAuth)`: surfman does not refuse every one of infinitely many switches to the UIVM. This is an assumption about surfman, not something the daemon guarantees. Without it, a surfman that always fails keeps the guest on screen whatever the daemon does. Keys, D-Bus calls, backend answers and the lock timer get none, so the liveness property holds whatever the user, the UIVM and the guests do.

## Not modelled, and the plan

Next sittings, in order:

1. **Key bindings:** `input_add_binding`, `input_exec_bindings`, `check_for_force_binding`. A property: each chord fires once.
2. **Autoscroll timer:** a property that the timer is freed once the finger is lifted, with the timer's firing as an action. The pad turned off or scrolling disabled mid-scroll break it.
3. **Tablet slot start:** `handle_gestures`' first slot is -1 until an `ABS_MT_SLOT` arrives (`usb-tablet.c:74`); the model starts every report on its slot.
4. **Secure mode, rest:** tagging backend answers with the request they answer (a late answer after a cancel), auto-started remote statuses, recovery-key files.
5. **Plugin socket, rest:** `findnext` (junk skipping over the byte buffer) and `VM_SEND_TO` forwarding.
6. **Xen vkbd:** the backend lifecycle.
7. **Pointer scaling:** the round-trip property in spec §8.

Out of reach or pure I/O:

- hashing (`mk_nt_hash`, SHA-256) and script execution (`secure_scripts.c`);
- keymap files;
- LED ioctls;
- device scanning;
- image blitting.
