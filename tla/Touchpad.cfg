\* A touchpad (not a clickpad), with the hotkeys and both settings.
CONSTANTS
    IsClickpad = FALSE
    Xs <- MCXs
    Ys <- MCYs2
    NoX <- MCNone
    NoY <- MCNone
    RightEdge = 1
    BottomEdge = 1
    TopEdge = 1
    LeftBtnMaxX <- MCNone
    TapMove = 1
    Pressures <- MCPressures
    NoPressure <- MCNone
    PressUp = 12
    PressDown = 10
    PadButtons <- MCLeftOnly
SPECIFICATION FairSpec
PROPERTY TapResolves
