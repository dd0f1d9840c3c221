\* A filter with more modifiers than modifers[] holds.
CONSTANTS
    Owner = Owner
    Child = Child
    Other = Other
    Keys <- MCNoKeys
    Filters <- MCLongFilter
    PresetMods <- MCPresetMods
    MaxMods <- MCMaxMods
SPECIFICATION Spec
INVARIANT ShortcutsMatchable
