----------------------------- MODULE KeyFilter -----------------------------
(***************************************************************************)
(* The keyboard filter of a divert (bus.c, input.c).  A domain (Owner)     *)
(* that diverts its keyboard to another (Child) may first register        *)
(* shortcuts with set_divert_keyboard_filter.  While the keyboard is      *)
(* diverted, filter_keys tracks the modifiers in keyb_modbits and         *)
(* swallows a key that completes a shortcut, replaying it to the Owner    *)
(* with send_keypair; every other key goes to keyb_dest.                  *)
(*                                                                         *)
(* The modifier table is dv->modifers[]: entry 0 is the count, entries    *)
(* 1..count the codes, preset with the four Alt and Ctrl keys.  It is     *)
(* modelled as the sequence of the codes; a bit of a mask is the 0-based  *)
(* index of a code, and a mask is the set of its bits.                    *)
(***************************************************************************)
EXTENDS Integers, Sequences, SequencesExt, FiniteSets

CONSTANTS
    Owner, Child, Other,  \* the diverting domain, its divert, another domain
    Keys,                 \* the key codes the user may press
    Filters,              \* the key filter arrays the Owner may send
    PresetMods,           \* the codes check_init_divert_info stores
    MaxMods               \* MAX_MODS, the length of modifers[]

Dests == {Owner, Child, Other}

VARIABLES
    hasDv,      \* Owner->divert_info # NULL
    mods,       \* modifers[1..modifers[0]]
    keylist,    \* keylist[0..num_keys-1], or <<>> for NULL with hasList FALSE
    hasList,    \* keylist # NULL
    keyDomain,  \* dv->key_domain # NULL (it is always Child)
    focus,      \* the domain input_set chose last; mouse_dest follows it
    keybDest,   \* keyb_dest
    keybParent, \* keyb_parent = Owner (it is NULL otherwise)
    modbits,    \* keyb_modbits, as a set of bit numbers
    keyStatus,  \* input_dev.key_status[], the keys it records down
    phys,       \* the keys physically down
    held        \* the keys each domain was sent down and not up

vars == <<hasDv, mods, keylist, hasList, keyDomain, focus, keybDest,
          keybParent, modbits, keyStatus, phys, held>>

Codes == (ToSet(PresetMods) \cup Keys \cup UNION {ToSet(f) : f \in Filters})
         \ {0}

TypeOK ==
    /\ hasDv \in BOOLEAN /\ hasList \in BOOLEAN /\ keyDomain \in BOOLEAN
    /\ mods \in Seq(Codes)
    /\ keylist \in Seq([bits : SUBSET (0..31), key : Codes])
    /\ focus \in {Owner, Other} /\ keybDest \in Dests
    /\ keybParent \in BOOLEAN /\ modbits \in SUBSET (0..31)
    /\ keyStatus \subseteq Keys /\ phys \subseteq Keys
    /\ held \in [Dests -> SUBSET Codes]

\* 1 << a with a = -1 is undefined; x86 masks the shift count to 5 bits,
\* so the build sets bit 31
ShiftBit(a) == IF a >= 0 THEN a ELSE 31

\* addmod: the index of key in the table, appending it when absent.  The
\* bound tests the count against MAX_MODS, not against the MAX_MODS - 1
\* entries after the count, so the last append writes modifers[MAX_MODS]
\* (the next field, dv->mod_bits).  A full table yields -1.
AddMod(key, m) ==
    IF \E i \in 1..Len(m) : m[i] = key
    THEN [idx |-> CHOOSE i \in 0..Len(m) - 1 :
                      m[i + 1] = key /\ \A j \in 1..i : m[j] # key,
          mods |-> m]
    ELSE IF Len(m) < MaxMods
         THEN [idx |-> Len(m), mods |-> Append(m, key)]
         ELSE [idx |-> -1, mods |-> m]

\* the parsing loop of set_divert_keyboard_filter: a nonzero code followed
\* by 0 or by the end is the action key of a shortcut, any other nonzero
\* code a modifier of the next one
RECURSIVE ParseFilter(_, _, _, _, _)
ParseFilter(data, i, m, bits, kl) ==
    IF i > Len(data) THEN [mods |-> m, list |-> kl]
    ELSE IF data[i] = 0 THEN ParseFilter(data, i + 1, m, bits, kl)
    ELSE IF i = Len(data) \/ data[i + 1] = 0
    THEN ParseFilter(data, i + 1, m, {},
                     Append(kl, [bits |-> bits, key |-> data[i]]))
    ELSE LET r == AddMod(data[i], m)
         IN ParseFilter(data, i + 1, r.mods, bits \cup {ShiftBit(r.idx)}, kl)

\* check_init_divert_info: a new divert_info starts with the preset table
InitDivertMods == IF hasDv THEN mods ELSE PresetMods

\* input_keyboard_reset: a key up to keyb_dest (and to mouse_dest when
\* asked) for every key key_status records down, then key_status cleared
KeyboardReset(resetMouse) ==
    LET to == {keybDest} \cup (IF resetMouse THEN {focus} ELSE {})
    IN /\ keyStatus' = {}
       /\ held' = [d \in Dests |-> IF d \in to THEN held[d] \ keyStatus
                                                ELSE held[d]]

\* set_kbd_domain without clearing keyb_modbits
SetKbdDomainKeepBits(d, keyDivert) ==
    /\ keybParent' = (d = Owner /\ keyDivert)
    /\ keybDest' = IF d = Owner /\ keyDivert THEN Child ELSE d
    /\ modbits' = modbits

\* set_kbd_domain(d), with keyDivert = (d->divert_info->key_domain # NULL)
SetKbdDomain(d, keyDivert) ==
    /\ keybParent' = (d = Owner /\ keyDivert)
    /\ keybDest' = IF d = Owner /\ keyDivert THEN Child ELSE d
    /\ modbits' = {}

-----------------------------------------------------------------------------

Init ==
    /\ hasDv = FALSE /\ mods = <<>> /\ keylist = <<>> /\ hasList = FALSE
    /\ keyDomain = FALSE
    /\ focus = Owner /\ keybDest = Owner /\ keybParent = FALSE
    /\ modbits = {} /\ keyStatus = {} /\ phys = {}
    /\ held = [d \in Dests |-> {}]

\* input_daemon_set_divert_keyboard_filter from the Owner.  A filter sent
\* while the divert is on is refused (Busy) after check_init_divert_info;
\* otherwise the keylist is rebuilt, while modifers[] keeps every modifier
\* earlier filters added.
SetFilter(data) ==
    /\ hasDv' = TRUE
    /\ IF keyDomain
       THEN UNCHANGED <<mods, keylist, hasList>>
       ELSE LET r == ParseFilter(data, 1, InitDivertMods, {}, <<>>)
            IN /\ mods' = r.mods /\ keylist' = r.list /\ hasList' = TRUE
    /\ UNCHANGED <<keyDomain, focus, keybDest, keybParent, modbits,
                   keyStatus, phys, held>>

\* input_daemon_divert_keyboard_focus(Child) from the Owner, then
\* sync_kbd_domain(Owner): input_set_keyb when the Owner has the keyboard
DivertKeyboard ==
    /\ hasDv' = TRUE
    /\ mods' = InitDivertMods
    /\ keyDomain' = TRUE
    /\ IF keybParent \/ keybDest = Owner
       THEN KeyboardReset(FALSE) /\ SetKbdDomain(Owner, TRUE)
       ELSE UNCHANGED <<keyStatus, held, keybDest, keybParent, modbits>>
    /\ UNCHANGED <<keylist, hasList, focus, phys>>

\* input_daemon_stop_keyboard_divert from the Owner
StopKeyboardDivert ==
    /\ keyDomain' = FALSE        \* key_domain is only ever set with a divert_info
    /\ IF keybParent \/ keybDest = Owner
       THEN KeyboardReset(FALSE) /\ SetKbdDomain(Owner, keyDomain')
       ELSE UNCHANGED <<keyStatus, held, keybDest, keybParent, modbits>>
    /\ UNCHANGED <<hasDv, mods, keylist, hasList, focus, phys>>

\* input_set(d), from a switch: reset both destinations, then route
\* mouse and keyboard to d
Switch(d) ==
    /\ KeyboardReset(TRUE)
    /\ focus' = d
    /\ SetKbdDomain(d, keyDomain)
    /\ UNCHANGED <<hasDv, mods, keylist, hasList, keyDomain, phys>>

\* the modifier loop of filter_keys: the first table entry equal to the
\* code sets or clears its bit
ModLoop(k, down) ==
    IF \E i \in 1..Len(mods) : mods[i] = k
    THEN LET i == CHOOSE i \in 1..Len(mods) :
                      mods[i] = k /\ \A j \in 1..i - 1 : mods[j] # k
         IN IF down THEN modbits \cup {i - 1} ELSE modbits \ {i - 1}
    ELSE modbits

\* the action loop of filter_keys: the shortcuts the event completes
Matching(k, bits) == {n \in 1..Len(keylist) :
                         keylist[n].key = k /\ keylist[n].bits = bits}

\* send_keypair to the Owner: the shortcut's modifiers down, the key down
\* and up, the modifiers up; a bit at or past the count sends nothing
KeyPairSent(kp) ==
    {mods[i + 1] : i \in {b \in kp.bits : b < Len(mods)}} \cup {kp.key}

\* input_keys_status, then the keyboard path of input_inject: filter_keys
\* (which acts only while keyb_parent is set and a keylist exists), then
\* the key to keyb_dest.  Key bindings, print screen and the video-mode
\* key are left out: no key of Keys is one of them.
KeyEvent(k, down) ==
    LET filtering == keybParent /\ hasList
        bits == IF filtering THEN ModLoop(k, down) ELSE modbits
        match == filtering /\ Matching(k, bits) # {}
        kp == keylist[CHOOSE n \in Matching(k, bits) :
                          \A m \in Matching(k, bits) : n <= m]
    IN /\ down = (k \notin phys)
       /\ phys' = IF down THEN phys \cup {k} ELSE phys \ {k}
       /\ keyStatus' = IF down THEN keyStatus \cup {k} ELSE keyStatus \ {k}
       /\ modbits' = bits
       /\ held' = IF match
                  THEN IF down THEN [held EXCEPT ![Owner] = @ \ KeyPairSent(kp)]
                       ELSE held
                  ELSE [held EXCEPT ![keybDest] = IF down THEN @ \cup {k}
                                                         ELSE @ \ {k}]
       /\ UNCHANGED <<hasDv, mods, keylist, hasList, keyDomain, focus,
                      keybDest, keybParent>>

Next ==
    \/ \E f \in Filters : SetFilter(f)
    \/ DivertKeyboard
    \/ StopKeyboardDivert
    \/ \E d \in {Owner, Other} : Switch(d)
    \/ \E k \in Keys, down \in BOOLEAN : KeyEvent(k, down)

Spec == Init /\ [][Next]_vars

-----------------------------------------------------------------------------
(* Properties *)

\* While the keyboard is diverted, every bit of keyb_modbits names a table
\* modifier that is physically down: filter_keys clears a bit on the
\* modifier's release, and every move of the keyboard (set_kbd_domain)
\* starts from no bits, so no released modifier can complete a shortcut.
ModbitsAreHeld ==
    keybParent => \A b \in modbits : b < Len(mods) /\ mods[b + 1] \in phys

\* No domain keeps a key down that is physically up: a swallowed release
\* is one whose press was swallowed too.
NoKeyLeftDown == \A d \in Dests : held[d] \subseteq phys

\* Every modifier of a registered shortcut has a bit below the table's
\* count, so filter_keys can set it and the shortcut can match.
ShortcutsMatchable ==
    \A n \in 1..Len(keylist) : \A b \in keylist[n].bits : b < Len(mods)
=============================================================================
