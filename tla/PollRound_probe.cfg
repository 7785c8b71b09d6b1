\* A reachability probe that closes the number of another connection.
SPECIFICATION Spec
CONSTANTS
    Client = {c1}
    Remote = {r1, r2}
    MaxFd = 3
    MaxProbe = 1
    Pipelined = FALSE
    Prober = prober
    None = none
PROPERTY ProbeClosesOwn
CHECK_DEADLOCK FALSE
