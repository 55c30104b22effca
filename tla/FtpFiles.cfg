\* Two connections with two commands each, on two paths and three files.
SPECIFICATION FilesSpec
CONSTANTS
    s1 = s1
    s2 = s2
    a = a
    b = b
    f1 = f1
    f2 = f2
    f3 = f3
    Session = {s1, s2}
    Name = {a, b}
    File = {f1, f2, f3}
    Absent = Absent
    Empty = Empty
    Old = Old
    MaxLen = 2
    Budget = 2
INVARIANTS
    FilesTypeOK
    StorInPlace
PROPERTIES
    StorComplete
    AppendKeeps
    RetrWhole
SYMMETRY Renamings
CHECK_DEADLOCK FALSE
