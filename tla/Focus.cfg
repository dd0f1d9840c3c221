CONSTANTS
    d1 = d1  d2 = d2  d3 = d3
    Ctrl = Ctrl  KeyA = KeyA  BtnLeft = BtnLeft  BtnRight = BtnRight
    NoDom = NoDom  NoDv = NoDv
    DomSeq <- MCDomSeq2
    Slots <- MCSlots
    Keys <- MCNoKeys
    MetaKeys <- MCNoKeys
    Buttons <- MCNoButtons
    MaxPressed <- MCMaxPressed
    MaxConnects = 3
    Callers <- MCNoCallers
    Commanders <- MCCommanders2
    Modes <- MCModesNone
    Reasons <- MCReasons
    PvmTypes <- MCFlags
    UuidMatches <- MCFlags
    Replies <- MCFlags
    DisabledFlags <- MCFlagsOff
    Gpu2Flags <- MCFlags
    KbdFollowsMouse = FALSE
    NestedDispatch = FALSE
SPECIFICATION Spec
INVARIANTS RoutingTargetsLive SurfaceLive
CHECK_DEADLOCK FALSE
