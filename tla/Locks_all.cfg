SPECIFICATION FairSpec
CONSTANTS
    Client = {c1}
    Device = {d1}
    Probe = {p1}
    Main = main
    Mdns = mdns
    None = none
    Env = {"mdns", "unknown", "early"}
INVARIANT RegistryOutlivesUsers
 
INVARIANT NoCircularWait
PROPERTY HandlersReturn
PROPERTY Stops
CHECK_DEADLOCK FALSE
