\* One connection whose client resets the data connection of a STOR.
SPECIFICATION FilesSpec
CONSTANTS
    s1 = s1
    s2 = s2
    a = a
    b = b
    f1 = f1
    f2 = f2
    f3 = f3
    Session = {s1}
    Name = {a, b}
    File = {f1, f2, f3}
    Absent = Absent
    Empty = Empty
    Old = Old
    MaxLen = 2
    Budget = 2
PROPERTY StorKeepsReceived
CHECK_DEADLOCK FALSE
