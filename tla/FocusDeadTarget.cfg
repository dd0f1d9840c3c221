CONSTANTS
    d1 = d1  d2 = d2  d3 = d3
    Ctrl = Ctrl  KeyA = KeyA  BtnLeft = BtnLeft  BtnRight = BtnRight
    NoDom = NoDom  NoDv = NoDv
    DomSeq <- MCDomSeq2
    Slots <- MCSlots
    Keys <- MCNoKeys
    MetaKeys <- MCNoKeys
    Buttons <- MCNoButtons
    MaxPressed <- MCMaxPressed
    MaxConnects = 2
    Callers <- MCCallers1
    Commanders <- MCCommanders2
    Modes <- MCModesNone
    Reasons <- MCReasonsS5
    PvmTypes <- MCFlags
    UuidMatches <- MCFlags
    Replies <- MCFlags
    DisabledFlags <- MCFlagsOff
    Gpu2Flags <- MCFlagsOff
    KbdFollowsMouse = FALSE
    NestedDispatch = FALSE
SPECIFICATION Spec
INVARIANTS RoutingTargetsLive
CHECK_DEADLOCK FALSE
