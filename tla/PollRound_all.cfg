\* One probe, clients that send a second request.
SPECIFICATION Spec
CONSTANTS
    Client = {c1, c2}
    Remote = {r1, r2}
    MaxFd = 3
    MaxProbe = 1
    Pipelined = TRUE
    Prober = prober
    None = none
SYMMETRY Symmetry
INVARIANTS OwnFd StaleOnlyToNew NoDangling
CHECK_DEADLOCK FALSE
