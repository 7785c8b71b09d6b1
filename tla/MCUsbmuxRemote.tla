--------------------------- MODULE MCUsbmuxRemote ---------------------------
(* Constants of UsbmuxRemote for model checking.                           *)
EXTENDS UsbmuxRemote, TLC

CONSTANTS e1, e2, h1, h2, svc, c1, c2, d1

mcHosts == (e1 :> h1) @@ (e2 :> h2)
mcHost  == (e1 :> h1)

(* Clients are interchangeable, and so are instances with their hosts.     *)
Symmetry ==
    {p \in Permutations(Client \cup Endpoint \cup {HostName[e] : e \in Endpoint}) :
        /\ \A c \in Client : p[c] \in Client
        /\ \A e \in Endpoint : p[e] \in Endpoint /\ p[HostName[e]] = HostName[p[e]]}
=============================================================================
