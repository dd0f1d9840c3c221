CONSTANTS
    Slots <- MCSlots
    RemovableSlots <- MCSlot01
    Requests <- MCTake
    MaxBatch = 1
SPECIFICATION Spec
INVARIANT EventsOnRightSlot
CHECK_DEADLOCK FALSE
