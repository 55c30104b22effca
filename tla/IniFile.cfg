\* Two sections, two keys, one comment; three changes.
SPECIFICATION IniSpec
CONSTANTS
    Section = {"all", "CUSA"}
    Key = {"p", "q"}
    Value = {"0", "1"}
    Text = {"c"}
    Missing = Missing
    NoCopy = NoCopy
    Files <- MCFiles
    MaxOps = 3
INVARIANTS
    IniTypeOK
    KeyCommentsSurvive
    FileSettles
PROPERTY StoreSpec
CHECK_DEADLOCK FALSE
