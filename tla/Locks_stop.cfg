SPECIFICATION FairSpec
CONSTANTS
    Client = {c1}
    Device = {d1}
    Probe = {p1}
    Main = main
    Mdns = mdns
    None = none
    Env = {"unknown"}
PROPERTY StopsOnSignal
CHECK_DEADLOCK FALSE
