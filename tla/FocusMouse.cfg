CONSTANTS
    d1 = d1  d2 = d2  d3 = d3
    Ctrl = Ctrl  KeyA = KeyA  BtnLeft = BtnLeft  BtnRight = BtnRight
    NoDom = NoDom  NoDv = NoDv
    DomSeq <- MCDomSeq2
    Slots <- MCSlots1
    Keys <- MCNoKeys
    MetaKeys <- MCNoKeys
    Buttons <- MCButton1
    MaxPressed <- MCMaxPressed1
    MaxConnects = 2
    Callers <- MCCallers1
    Commanders <- MCNoCommanders
    Modes <- MCModesOnOff
    Reasons <- MCReasonsS5
    PvmTypes <- MCFlagsOff
    UuidMatches <- MCFlagsOn
    Replies <- MCFlagsOn
    DisabledFlags <- MCFlagsOff
    Gpu2Flags <- MCFlagsOff
    KbdFollowsMouse = FALSE
    NestedDispatch = FALSE
SPECIFICATION Spec
INVARIANTS TypeOK
CHECK_DEADLOCK FALSE
