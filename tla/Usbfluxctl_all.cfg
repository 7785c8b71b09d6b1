\* Two usbfluxctl, an mDNS service, usbfluxd and usbmuxd coming and going.
CONSTANTS
    Ctl = {p1, p2}
    Host = {h1}
    Port = {1, 2}
    PortMod = 2
    Service = {svc}
    MaxId = 1
    Watched <- mcWatched
    Announced <- mcAnnounced
    h1 = h1
    svc = svc
    None = none
SPECIFICATION FairSpec
INVARIANTS DeletedNotListed
PROPERTIES MessageTrue CtlEnds
