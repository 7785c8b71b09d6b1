----------------------------- MODULE DuplexPipe -----------------------------
(***************************************************************************)
(* What a connected client may expect of usbfluxd: a pair of byte streams  *)
(* between the program and the device.  Byte i of a stream is the number   *)
(* i.  Bytes arrive in order, none twice, none skipped; closing may cut a  *)
(* stream short.                                                           *)
(***************************************************************************)
EXTENDS Naturals, Sequences

VARIABLES upSent, upGot, downSent, downGot, open

pvars == <<upSent, upGot, downSent, downGot, open>>

Stream(n) == [i \in 1..n |-> i]

Init ==
    /\ upSent = 0 /\ downSent = 0
    /\ upGot = << >> /\ downGot = << >>
    /\ open = TRUE

SendUp   == upSent' = upSent + 1 /\ UNCHANGED <<upGot, downSent, downGot, open>>
SendDown == downSent' = downSent + 1 /\ UNCHANGED <<upSent, upGot, downGot, open>>

GetUp ==
    /\ open
    /\ \E n \in Len(upGot) + 1 .. upSent : upGot' = Stream(n)
    /\ UNCHANGED <<upSent, downSent, downGot, open>>

GetDown ==
    /\ open
    /\ \E n \in Len(downGot) + 1 .. downSent : downGot' = Stream(n)
    /\ UNCHANGED <<upSent, upGot, downSent, open>>

Close == open /\ open' = FALSE /\ UNCHANGED <<upSent, upGot, downSent, downGot>>

Next == SendUp \/ SendDown \/ GetUp \/ GetDown \/ Close

Spec == Init /\ [][Next]_pvars
=============================================================================
