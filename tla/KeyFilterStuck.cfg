\* A key pressed before its modifier and released after it.
CONSTANTS
    Owner = Owner
    Child = Child
    Other = Other
    Keys <- MCKeys
    Filters <- MCFilters
    PresetMods <- MCPresetMods
    MaxMods <- MCMaxMods
SPECIFICATION Spec
INVARIANT NoKeyLeftDown
