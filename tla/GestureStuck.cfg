\* A swipe leaves touches down in the guest
CONSTANTS
    Slots = {0, 1}
    Xs <- MCCoords
    Ys <- MCCoords
    Layouts <- MCZero
SPECIFICATION Spec
INVARIANT GuestTouchesReleased
