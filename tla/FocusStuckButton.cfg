CONSTANTS
    d1 = d1  d2 = d2  d3 = d3
    Ctrl = Ctrl  KeyA = KeyA  BtnLeft = BtnLeft  BtnRight = BtnRight
    NoDom = NoDom  NoDv = NoDv
    DomSeq <- MCDomSeq2
    Slots <- MCSlots
    Keys <- MCNoKeys
    MetaKeys <- MCNoKeys
    Buttons <- MCButton1
    MaxPressed <- MCMaxPressed
    MaxConnects = 2
    Callers <- MCCallers1
    Commanders <- MCNoCommanders
    Modes <- MCModesOnOff
    Reasons <- MCReasonsS5
    PvmTypes <- MCFlagsOff
    UuidMatches <- MCFlagsOn
    Replies <- MCFlagsOn
    DisabledFlags <- MCFlagsOff
    Gpu2Flags <- MCFlagsOff
    KbdFollowsMouse = FALSE
    NestedDispatch = FALSE
SPECIFICATION Spec
INVARIANTS NoStuckButtons
CHECK_DEADLOCK FALSE
