\* A clickpad: its one button, faked into two on the bottom edge.
CONSTANTS
    IsClickpad = TRUE
    Xs <- MCXs
    Ys <- MCYs
    NoX <- MCNone
    NoY <- MCNone
    RightEdge = 1
    BottomEdge = 1
    TopEdge = 1
    LeftBtnMaxX = 1
    TapMove = 1
    Pressures <- MCPressures
    NoPressure <- MCNone
    PressUp = 12
    PressDown = 10
    PadButtons <- MCLeftOnly
SPECIFICATION FairSpec
INVARIANT NoStuckButton
