---------------------------- MODULE MCKeyFilter ----------------------------
(* Instances of KeyFilter for TLC.  Key codes are the kernel's:          *)
(* KEY_LEFTCTRL 29, KEY_A 30, KEY_LEFTSHIFT 42, KEY_LEFTALT 56,          *)
(* KEY_RIGHTCTRL 97, KEY_RIGHTALT 100; KEY_1 .. KEY_EQUAL are 2 .. 13,   *)
(* KEY_Q .. KEY_Y are 16 .. 21.                                          *)
EXTENDS KeyFilter

\* the table check_init_divert_info stores
MCPresetMods == <<56, 100, 29, 97>>

\* MAX_MODS (switch.h)
MCMaxMods == 20

\* Ctrl, Shift and A
MCKeys == {29, 42, 30}

\* Ctrl+A, and Ctrl+Shift+A (which adds Shift to the table)
MCFilters == {<<29, 30>>, <<29, 42, 30>>}

\* one shortcut with seventeen modifiers besides the presets: four more
\* than modifers[] can hold after its count and the presets
MCLongFilter == {<<2, 3, 4, 5, 6, 7, 8, 9, 10, 11, 12, 13,
                   16, 17, 18, 19, 20, 30>>}
MCNoKeys == {}
=============================================================================
