-------------------------- MODULE DeviceDirectory --------------------------
(***************************************************************************)
(* What usbfluxd promises the programs that use it: one directory of the   *)
(* devices of every usbmuxd it is joined to, the local one and the remote  *)
(* instances, and a view of it for every client that listens.  A device is *)
(* the upstream usbmuxd it hangs on and the number it has there; the ids   *)
(* usbfluxd makes up are not part of the promise.                          *)
(***************************************************************************)
CONSTANTS Where, Device, Client

VARIABLES
    member,     \* the upstream usbmuxds that are joined
    attached,   \* the devices of the directory, pairs in Where \X Device
    subs,       \* the clients that listen
    view        \* what each of them has been told

dvars == <<member, attached, subs, view>>

(* Whoever listens knows the directory as it is.                           *)
Told == view' = [c \in Client |-> IF c \in subs' THEN attached' ELSE {}]

Init ==
    /\ member \in SUBSET Where
    /\ attached = {}
    /\ subs = {}
    /\ view = [c \in Client |-> {}]

Join(w) ==
    /\ w \notin member
    /\ member' = member \cup {w}
    /\ UNCHANGED <<attached, subs, view>>

(* Members leave with their devices; connections of clients may go with them. *)
Leave(W, C) ==
    /\ member' = member \ W
    /\ attached' = {d \in attached : d[1] \notin W}
    /\ subs' = subs \ C
    /\ Told

Attach(w, n) ==
    /\ w \in member
    /\ attached' = attached \cup {<<w, n>>}
    /\ UNCHANGED <<member, subs>>
    /\ Told

Detach(w, n) ==
    /\ w \in member
    /\ attached' = attached \ {<<w, n>>}
    /\ UNCHANGED <<member, subs>>
    /\ Told

Subscribe(c) ==
    /\ subs' = subs \cup {c}
    /\ UNCHANGED <<member, attached>>
    /\ Told

Next ==
    \/ \E w \in Where : Join(w)
    \/ \E W \in SUBSET Where, C \in SUBSET Client : Leave(W, C)
    \/ \E w \in Where, n \in Device : Attach(w, n) \/ Detach(w, n)
    \/ \E c \in Client : Subscribe(c)

Spec == Init /\ [][Next]_dvars
=============================================================================
