CONSTANTS
    Slots <- MCSlots
    RemovableSlots <- MCSlot01
    Requests <- MCTakeBad
    MaxBatch = 1
SPECIFICATION Spec
INVARIANTS TypeOK LossRemembered SlotAgrees
CHECK_DEADLOCK FALSE
