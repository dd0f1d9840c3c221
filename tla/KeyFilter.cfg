\* The filter of a keyboard divert: shortcuts, modifiers and key routing.
CONSTANTS
    Owner = Owner
    Child = Child
    Other = Other
    Keys <- MCKeys
    Filters <- MCFilters
    PresetMods <- MCPresetMods
    MaxMods <- MCMaxMods
SPECIFICATION Spec
INVARIANT ModbitsAreHeld
