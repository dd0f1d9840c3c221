------------------------------- MODULE MCFocus -------------------------------
(* Model values and bounds for checking Focus with TLC.                    *)
EXTENDS Focus

CONSTANTS d1, d2, d3, Ctrl, KeyA, BtnLeft, BtnRight

\* three records of domains[]: enough for the UIVM, a guest and a domain
\* that diverts into it, or for a record to be reused
MCDomSeq == <<d1, d2, d3>>
MCSlots == {0, 1}
\* the UIVM slot only: a second domain connects without a slot
MCSlots1 == {0}
MCKeys == {Ctrl, KeyA}
MCMetaKeys == {Ctrl}
MCButtons == {BtnLeft, BtnRight}
MCButton1 == {BtnLeft}
\* mouse_pressed[] holds MAX_NUM_PRESSED = 5 entries; a press is logged while
\* the mouse is diverted and kept across a divert that ends, so one button
\* fills a table of 2
MCMaxPressed == 2
\* one entry: the smallest table that can be full
MCMaxPressed1 == 1
MCCallers == {d1, d2, d3}
MCCallersDom0 == {d1, d2, d3, NoDom}
\* two records: the UIVM and one guest that diverts to it, dies, or is
\* replaced by a new domain in the same record
MCDomSeq2 == <<d1, d2>>
MCCallers2 == {d1, d2}
MCNoCallers == {}
MCCommanders2 == {d1, d2}
MCNoCommanders == {}
\* the first record diverts (the UIVM, or whichever domain it holds)
MCCallers1 == {d1}
MCCallers1Dom0 == {d1, NoDom}
MCModesNone == {{}}
MCModesAll == {{}, {"KeyFollowsMouse"}, {"ClickHold"}, {"Clone"}}
MCModesOnOff == {{}, FocusModes}
MCReasons == {0, 5}
MCReasonsS5 == {5}
MCFlags == {FALSE, TRUE}
MCFlagsOff == {FALSE}
MCFlagsOn == {TRUE}
MCNoKeys == {}
MCNoButtons == {}
====
