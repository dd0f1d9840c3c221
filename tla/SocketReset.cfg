CONSTANTS
    Slots <- MCSlots
    RemovableSlots <- MCNone
    Requests <- MCTake
    MaxBatch = 1
SPECIFICATION Spec
INVARIANT DevicesAgree
CHECK_DEADLOCK FALSE
