\* A failed send frees the remote the caller goes on with.
CONSTANTS
    e1 = e1  e2 = e2  h1 = h1  h2 = h2  svc = svc
    c1 = c1  c2 = c2  d1 = d1
    MaxSlot = 3
    MaxShared = 1
    MaxId = 2
    Endpoint = {e1}
    HostName <- mcHost
    Service = {svc}
    Client = {c1, c2}
    Device = {d1}
    Unix = Unix
    None = None
    Gone = Gone
    Env = {"sendfail"}
SPECIFICATION Spec
INVARIANTS NoUseAfterFree
