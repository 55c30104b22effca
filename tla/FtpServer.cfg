\* Two connections, two PASV, PORT or transfer commands each, six numbers:
\* one transfer beside a second connection fills the table.
SPECIFICATION FtpSpec
CONSTANTS
    s1 = s1
    s2 = s2
    Session = {s1, s2}
    Server = Server
    Nobody = Nobody
    Owner = {s1, s2, Server}
    Fd = {3, 4, 5, 6, 7, 8}
    Budget = 2
    Faults = {"bind", "connect", "kill", "ifaddrs"}
INVARIANTS
    FtpTypeOK
    Ownership
    EndedSessionHoldsNothing
PROPERTY FirstStrayIsStale
SYMMETRY Connections
CHECK_DEADLOCK FALSE
