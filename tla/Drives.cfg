\* Two connections and scans of two drives.
SPECIFICATION DrivesSpec
CONSTANTS
    s1 = s1
    s2 = s2
    Session = {s1, s2}
    Name <- MCName
    Node <- MCNode
    FirstTree <- MCFirstTree
    Roots <- MCRoots
    Pkg <- MCPkg
    Passed = {".", "..", ".git", "node_modules"}
    Absolute <- MCAbsolute
    Relative <- MCRelative
    Process <- MCProcess
    PATH_MAX = 4
    PKG_MAX_RESULTS = 2
    PKG_MAX_DEPTH = 1
    Plans <- MCPlans
INVARIANTS
    DrivesTypeOK
    CwdLeads
    ListTells
    StreamsReturned
    ScanFaithful
PROPERTIES
    CdupGoesUp
CHECK_DEADLOCK FALSE
