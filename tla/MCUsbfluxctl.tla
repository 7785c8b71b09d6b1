---------------------------- MODULE MCUsbfluxctl ----------------------------
(* Constants of Usbfluxctl for model checking.                             *)
EXTENDS Usbfluxctl

CONSTANTS h1, svc

mcWatched == <<h1, 0>>
mcAnnounced == [s \in {svc} |-> <<h1, 0>>]
=============================================================================
