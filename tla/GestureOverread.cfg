\* A cross reads past singledrag_actions[]
CONSTANTS
    Slots = {0, 1}
    Xs <- MCCoords
    Ys <- MCCoords
    Layouts <- MCLayouts
SPECIFICATION Spec
INVARIANT NoOverread
