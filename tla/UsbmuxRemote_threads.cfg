\* Both threads and every failure, further requests too; ids run out and are reused at once.
CONSTANTS
    e1 = e1  e2 = e2  h1 = h1  h2 = h2  svc = svc
    c1 = c1  c2 = c2  d1 = d1
    MaxSlot = 3
    MaxShared = 1
    MaxId = 1
    Endpoint = {e1, e2}
    HostName <- mcHosts
    Service = {svc}
    Client = {c1}
    Device = {d1}
    Unix = Unix
    None = None
    Gone = Gone
    Env = {"mdns", "probe", "sendfail", "eof0", "second"}
SPECIFICATION Spec
SYMMETRY Symmetry
INVARIANTS ListenerIds DeviceHasListener ViewComplete LinksAgree StatesAgree
CHECK_DEADLOCK FALSE
