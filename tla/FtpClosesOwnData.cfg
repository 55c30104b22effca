\* Two connections that each make one transfer and leave.
SPECIFICATION FtpSpec
CONSTANTS
    s1 = s1
    s2 = s2
    Session = {s1, s2}
    Server = Server
    Nobody = Nobody
    Owner = {s1, s2, Server}
    Fd = {3, 4, 5, 6, 7, 8}
    Budget = 2
    Faults = {"bind", "connect", "kill"}
INVARIANT ClosesOwnDataOnly
CHECK_DEADLOCK FALSE
