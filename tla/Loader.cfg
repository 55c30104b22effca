\* One start of a game, two plugins, one of them builtin, one option; three
\* saves, deaths in a save and starts.
SPECIFICATION Spec
CONSTANTS
    Plugin = {"a", "b"}
    Builtin = {"b"}
    Option = {"o"}
    Foreign = {}
    Text <- MCText
    Path = {"plugins.ini", "hen.ini"}
    NoFile = NoFile
    FirstDisk <- MCDisk
    MaxSaves = 2
    MaxEvents = 3
    MaxLost = 1
    Process = {"p1"}
    Title <- MCTitle
    NoInfo = NoInfo
INVARIANTS
    LoaderTypeOK
    OwnPageOnly
    EnabledByUser
    SettingsKept
    OwnSectionsOnly
    NoneForgotten
PROPERTY LoaderEnds
CHECK_DEADLOCK FALSE
