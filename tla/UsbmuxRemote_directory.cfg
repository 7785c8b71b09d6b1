\* One thread (option -m), two instances at a time, the local usbmuxd staying up.
CONSTANTS
    e1 = e1  e2 = e2  h1 = h1  h2 = h2  svc = svc
    c1 = c1  c2 = c2  d1 = d1
    MaxSlot = 3
    MaxShared = 1
    MaxId = 2
    Endpoint = {e1, e2}
    HostName <- mcHosts
    Service = {svc}
    Client = {c1}
    Device = {d1}
    Unix = Unix
    None = None
    Gone = Gone
    Env = {}
SPECIFICATION FairSpec
INVARIANTS IdsReleased ConnHasListener ViewExact
PROPERTIES ImplementsDirectory DeadReapedByLocal OneMuxDies
