CONSTANTS
    Slots <- MCSlots
    RemovableSlots <- MCSlot01
    Requests <- MCTake
    MaxBatch = 1
SPECIFICATION Spec
INVARIANT MemorySafe
CHECK_DEADLOCK FALSE
