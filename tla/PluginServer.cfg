\* One FTP connection with two PASV, PORT or transfer commands, the klog
\* thread with up to two clients, and four numbers, in which a failure of the
\* one service leaves room for a transfer or for the clients of the other:
\* what the one closes the other opens.  Every call of the listener and of
\* the klog thread may fail.
SPECIFICATION Spec
CONSTANTS
    c1 = c1
    Session = {c1}
    Server = Server
    Nobody = Nobody
    Klog = Klog
    Owner = {c1, Server, Klog}
    Fd = {3, 4, 5, 6}
    Budget = 2
    Crowd = 2
    Faults = {"setup", "thread", "accept", "read", "send", "kill", "ifaddrs",
              "select", "jailbreak"}
INVARIANTS
    KlogTypeOK
    ClientsCounted
    KlogHoldsNothingIdle
    ServicesApart
PROPERTIES
    ServicesReturn
    NoIdleLoop
CHECK_DEADLOCK FALSE
