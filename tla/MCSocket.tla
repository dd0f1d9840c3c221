------------------------------ MODULE MCSocket ------------------------------
EXTENDS Socket

MCSlots == {0, 1}
MCRequests == {"TAKE", "TAKE_BAD", "EVENT"}
MCSlot1 == {0}
MCNone == {}
MCTake == {"TAKE"}
MCSlot01 == {1}
MCTakeBad == {"TAKE", "TAKE_BAD"}
====
