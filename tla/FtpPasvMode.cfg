\* One connection: PORT, then PASV.
SPECIFICATION FtpSpec
CONSTANTS
    s1 = s1
    s2 = s2
    Session = {s1}
    Server = Server
    Nobody = Nobody
    Owner = {s1, Server}
    Fd = {3, 4, 5, 6, 7, 8}
    Budget = 2
    Faults = {"bind", "connect", "kill"}
PROPERTY PasvEntersPassiveMode
CHECK_DEADLOCK FALSE
