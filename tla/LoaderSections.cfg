\* hen_settings.xml: "Plugins will be loaded on game (BigApp) launch."
SPECIFICATION Spec
CONSTANTS
    Plugin = {"a", "b"}
    Builtin = {"b"}
    Option = {"o"}
    Foreign = {}
    Text <- MCText
    Path = {"plugins.ini", "hen.ini"}
    NoFile = NoFile
    FirstDisk <- MCDisk
    MaxSaves = 2
    MaxEvents = 3
    MaxLost = 1
    Process = {"p1"}
    Title <- MCTitle
    NoInfo = NoInfo
PROPERTY EnabledGetLoaded
CHECK_DEADLOCK FALSE
