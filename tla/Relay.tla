------------------------------- MODULE Relay -------------------------------
(***************************************************************************)
(* One client and the remote it is connected to, from the Connect request  *)
(* on its way upstream to the close: client_process in usbfluxd/client.c   *)
(* and usbmux_remote_process in usbfluxd/usbmux_remote.c.  In state        *)
(* CONNECTED both sides work on the buffers of the remote: the client      *)
(* reads into ob_buf and writes from ib_buf, and each side sets the event  *)
(* mask of the other.  The main thread alone does this, one handler at a   *)
(* time; a handler looks at POLLIN first and at POLLOUT only if there is   *)
(* no POLLIN.                                                              *)
(*                                                                         *)
(* Byte i of a stream is the number i; the bytes of the result packet are  *)
(* 0.  A send or receive moves as many bytes as the kernel likes.          *)
(***************************************************************************)
EXTENDS Integers, Sequences

CONSTANTS
    ObCap,      \* remote->ob_capacity
    IbCap,      \* remote->ib_capacity
    ResultLen,  \* bytes of the result packet the client waits for
    MaxUp,      \* bound: bytes the program sends
    MaxDown,    \* bound: bytes the device sends
    Closing,    \* which ends may close: a subset of {"app", "dev"}
    Hangup      \* closing the upstream end raises POLLHUP: unix sockets do,
                \* TCP after a FIN does not

ASSUME RelayAssumption ==
    /\ ObCap \in Nat \ {0} /\ IbCap \in Nat \ {0} /\ ResultLen \in Nat \ {0}
    /\ MaxUp \in Nat /\ MaxDown \in Nat
    /\ Closing \subseteq {"app", "dev"}
    /\ Hangup \in BOOLEAN

VARIABLES
    cstate,     \* client->state
    cevents,    \* client->events
    cdevents,   \* client->devents
    cob,        \* client->ob_size: bytes of the result packet still to send
    rstate,     \* remote->state
    revents,    \* remote->events
    ib,         \* remote->ib_buf: from the device, for the client
    ob,         \* remote->ob_buf: from the client, for the device
    appOut,     \* the program's bytes in the client socket, unread
    appSent,    \* how many it sent
    appGot,     \* what it received
    devOut, devSent, devGot,    \* the same for the device
    appOpen, devOpen            \* neither end has closed

clientVars == <<cstate, cevents, cdevents, cob>>
remoteVars == <<rstate, revents>>
appVars    == <<appOut, appSent, appGot, appOpen>>
devVars    == <<devOut, devSent, devGot, devOpen>>
vars == <<clientVars, remoteVars, ib, ob, appVars, devVars>>

(* Mutant: the last byte sent stays in the buffer.                         *)
Rest_OffByOne(s, k) == SubSeq(s, k, Len(s))

Up(s, k)   == SubSeq(s, 1, k)
Rest(s, k) == SubSeq(s, k + 1, Len(s))

(* After client_command accepted a Connect and the request went upstream.  *)
Init ==
    /\ cstate = "CONNECTING1" /\ cevents = {"IN"} /\ cdevents = {} /\ cob = 0
    /\ rstate = "CONNECTING1" /\ revents = {"IN"}
    /\ ib = << >> /\ ob = << >>
    /\ appOut = << >> /\ appSent = 0 /\ appGot = << >> /\ appOpen = TRUE
    /\ devOut = << >> /\ devSent = 0 /\ devGot = << >> /\ devOpen = TRUE

-----------------------------------------------------------------------------
(* The two ends: external.  The program speaks once it has the result.     *)

Accepted == cstate = "CONNECTED"

app_send ==
    /\ appOpen /\ Accepted /\ appSent < MaxUp
    /\ appSent' = appSent + 1
    /\ appOut' = Append(appOut, appSent + 1)
    /\ UNCHANGED <<clientVars, remoteVars, ib, ob, appGot, appOpen, devVars>>

app_close ==
    /\ "app" \in Closing /\ appOpen
    /\ appOpen' = FALSE
    /\ UNCHANGED <<clientVars, remoteVars, ib, ob, appOut, appSent, appGot, devVars>>

dev_send ==
    /\ devOpen /\ devSent < MaxDown
    /\ devSent' = devSent + 1
    /\ devOut' = Append(devOut, devSent + 1)
    /\ UNCHANGED <<clientVars, remoteVars, ib, ob, appVars, devGot, devOpen>>

dev_close ==
    /\ "dev" \in Closing /\ devOpen
    /\ devOpen' = FALSE
    /\ UNCHANGED <<clientVars, remoteVars, ib, ob, appVars, devOut, devSent, devGot>>

-----------------------------------------------------------------------------
(* What poll reports.  A closed end is readable.                           *)

ClientPollIn  == "IN" \in cevents /\ (appOut # << >> \/ ~ appOpen)
ClientPollOut == "OUT" \in cevents
RemotePollIn  == "IN" \in revents /\ (devOut # << >> \/ ~ devOpen)
RemotePollOut == "OUT" \in revents

(* client_or_events                                                        *)
client_or_events(e) ==
    IF cstate \in {"CONNECTING2", "CONNECTED"}
    THEN /\ cdevents' = cdevents \cup {e}
         /\ cevents' = IF cstate = "CONNECTED" THEN cevents \cup {e} ELSE cevents
    ELSE UNCHANGED <<cdevents, cevents>>

(* client_close and remote_close, whichever side starts: nothing of the    *)
(* two buffers is flushed.                                                 *)
close ==
    /\ cstate' = "CLOSED" /\ rstate' = "CLOSED"
    /\ cevents' = {} /\ revents' = {} /\ ib' = << >> /\ ob' = << >>
    /\ UNCHANGED <<cdevents, cob, appVars, devVars>>

-----------------------------------------------------------------------------
(* The answer to Connect: remote_handle_command_result and                 *)
(* client_notify_connect.  After a refusal the client is back at COMMAND.  *)
remote_connect_result(ok) ==
    /\ rstate = "CONNECTING1" /\ cstate = "CONNECTING1"
    /\ devOpen
    /\ IF ok
       THEN /\ cstate' = "CONNECTING2" /\ cevents' = {"OUT"} /\ cob' = ResultLen
            /\ rstate' = "CONNECTED" /\ revents' = {"IN", "OUT"}
       ELSE /\ cstate' = "COMMAND" /\ cevents' = cevents \cup {"OUT"} /\ cob' = ResultLen
            /\ UNCHANGED remoteVars
    /\ UNCHANGED <<cdevents, ib, ob, appVars, devVars>>

(* Mutant: the events collected in CONNECTING2 are forgotten.              *)
process_send_NoDevents ==
    /\ cstate \in {"CONNECTING2", "COMMAND"}
    /\ ClientPollOut /\ appOpen /\ cob > 0
    /\ \E k \in 1..cob :
        /\ appGot' = appGot \o [i \in 1..k |-> 0]
        /\ cob' = cob - k
        /\ IF k < cob THEN UNCHANGED <<cstate, cevents>>
           ELSE IF cstate = "CONNECTING2"
           THEN cstate' = "CONNECTED" /\ cevents' = {"IN"}
           ELSE UNCHANGED cstate /\ cevents' = cevents \ {"OUT"}
    /\ UNCHANGED <<cdevents, remoteVars, ib, ob, appOut, appSent, appOpen, devVars>>

(* process_send: the result packet goes out; after its last byte the       *)
(* client is CONNECTED and takes over the events collected meanwhile.      *)
process_send ==
    /\ cstate \in {"CONNECTING2", "COMMAND"}
    /\ ClientPollOut /\ appOpen /\ cob > 0
    /\ \E k \in 1..cob :
        /\ appGot' = appGot \o [i \in 1..k |-> 0]
        /\ cob' = cob - k
        /\ IF k < cob THEN UNCHANGED <<cstate, cevents>>
           ELSE IF cstate = "CONNECTING2"
           THEN cstate' = "CONNECTED" /\ cevents' = cdevents \cup {"IN"}
           ELSE UNCHANGED cstate /\ cevents' = cevents \ {"OUT"}
    /\ UNCHANGED <<cdevents, remoteVars, ib, ob, appOut, appSent, appOpen, devVars>>

(* The send fails, or a client that is not CONNECTED is found closed.      *)
client_gone ==
    /\ cstate \in {"CONNECTING1", "CONNECTING2", "COMMAND"}
    /\ ~ appOpen /\ cevents # {}
    /\ close

(* Mutant: the read is not limited to the space that is left.              *)
client_read_NoLimit ==
    /\ cstate = "CONNECTED" /\ ClientPollIn
    /\ Len(ob) < ObCap
    /\ \E k \in 1..Len(appOut) :
        /\ ob' = ob \o Up(appOut, k)
        /\ appOut' = Rest(appOut, k)
    /\ revents' = revents \cup {"OUT"}
    /\ cevents' = cevents \ {"IN"}
    /\ UNCHANGED <<cstate, cdevents, cob, rstate, ib, appSent, appGot, appOpen, devVars>>

(* client_process, CONNECTED and POLLIN: bytes of the program move to      *)
(* ob_buf; a full buffer leaves everything as it is.                       *)
client_read ==
    /\ cstate = "CONNECTED" /\ ClientPollIn
    /\ Len(ob) < ObCap
    /\ \E k \in 1..Len(appOut) :
        /\ k <= ObCap - Len(ob)
        /\ ob' = ob \o Up(appOut, k)
        /\ appOut' = Rest(appOut, k)
    /\ revents' = revents \cup {"OUT"}
    /\ cevents' = cevents \ {"IN"}
    /\ UNCHANGED <<cstate, cdevents, cob, rstate, ib, appSent, appGot, appOpen, devVars>>

(* ... end of file: close, whatever ob_buf still holds.                    *)
client_eof ==
    /\ cstate = "CONNECTED" /\ ClientPollIn
    /\ Len(ob) < ObCap
    /\ appOut = << >>
    /\ close

(* Mutant: after a partial send the wrong end of the buffer is kept.       *)
client_write_WrongMove ==
    /\ cstate = "CONNECTED" /\ ClientPollOut /\ ~ ClientPollIn
    /\ ib # << >> /\ appOpen
    /\ \E k \in 1..Len(ib) :
        /\ appGot' = appGot \o Up(ib, k)
        /\ ib' = Up(ib, Len(ib) - k)
        /\ cevents' = IF k = Len(ib) THEN (cevents \ {"OUT"}) \cup {"IN"} ELSE cevents
    /\ UNCHANGED <<cstate, cdevents, cob, remoteVars, ob, appOut, appSent, appOpen, devVars>>

(* client_process, CONNECTED and POLLOUT without POLLIN.                   *)
client_write ==
    /\ cstate = "CONNECTED" /\ ClientPollOut /\ ~ ClientPollIn
    /\ ib # << >> /\ appOpen
    /\ \E k \in 1..Len(ib) :
        /\ appGot' = appGot \o Up(ib, k)
        /\ ib' = Rest(ib, k)
        /\ cevents' = IF k = Len(ib) THEN (cevents \ {"OUT"}) \cup {"IN"} ELSE cevents
    /\ UNCHANGED <<cstate, cdevents, cob, remoteVars, ob, appOut, appSent, appOpen, devVars>>

(* ... and the send fails.                                                 *)
client_write_fails ==
    /\ cstate = "CONNECTED" /\ ClientPollOut /\ ~ ClientPollIn
    /\ ib # << >> /\ ~ appOpen
    /\ close

-----------------------------------------------------------------------------
(* usbmux_remote_process, CONNECTED and POLLIN: bytes of the device move   *)
(* to ib_buf; a full buffer leaves everything as it is.                    *)
remote_read ==
    /\ rstate = "CONNECTED" /\ RemotePollIn
    /\ Len(ib) < IbCap
    /\ \E k \in 1..Len(devOut) :
        /\ k <= IbCap - Len(ib)
        /\ ib' = ib \o Up(devOut, k)
        /\ devOut' = Rest(devOut, k)
    /\ client_or_events("OUT")
    /\ UNCHANGED <<cstate, cob, remoteVars, ob, appVars, devSent, devGot, devOpen>>

(* Mutant: POLLIN stays in the mask.                                       *)
remote_eof_KeepIn ==
    /\ rstate = "CONNECTED" /\ RemotePollIn
    /\ Len(ib) < IbCap
    /\ devOut = << >>
    /\ UNCHANGED vars

(* ... end of file: POLLIN goes out of the mask and nothing else happens.  *)
remote_eof ==
    /\ rstate = "CONNECTED" /\ RemotePollIn
    /\ Len(ib) < IbCap
    /\ devOut = << >>
    /\ revents' = revents \ {"IN"}
    /\ UNCHANGED <<clientVars, rstate, ib, ob, appVars, devVars>>

(* Mutant: the client is not allowed to read again.                        *)
remote_write_NoIn ==
    /\ rstate = "CONNECTED" /\ RemotePollOut /\ ~ RemotePollIn
    /\ ob = << >> \/ devOpen
    /\ IF ob = << >>
       THEN revents' = revents \ {"OUT"} /\ UNCHANGED <<ob, devGot>>
       ELSE \E k \in 1..Len(ob) :
                /\ devGot' = devGot \o Up(ob, k)
                /\ ob' = Rest(ob, k)
                /\ revents' = IF k = Len(ob) THEN revents \ {"OUT"} ELSE revents
    /\ UNCHANGED <<clientVars, rstate, ib, appVars, devOut, devSent, devOpen>>

(* usbmux_remote_process, CONNECTED and POLLOUT without POLLIN:            *)
(* remote_process_send, then the client may read again.                    *)
remote_write ==
    /\ rstate = "CONNECTED" /\ RemotePollOut /\ ~ RemotePollIn
    /\ ob = << >> \/ devOpen
    /\ IF ob = << >>
       THEN revents' = revents \ {"OUT"} /\ UNCHANGED <<ob, devGot>>
       ELSE \E k \in 1..Len(ob) :
                /\ devGot' = devGot \o Up(ob, k)
                /\ ob' = Rest(ob, k)
                /\ revents' = IF k = Len(ob) THEN revents \ {"OUT"} ELSE revents
    /\ client_or_events("IN")
    /\ UNCHANGED <<cstate, cob, rstate, ib, appVars, devOut, devSent, devOpen>>

(* ... the send fails; or poll reports POLLHUP alone.                      *)
remote_hangup ==
    /\ rstate = "CONNECTED" /\ ~ devOpen /\ ~ RemotePollIn
    /\ \/ RemotePollOut /\ ob # << >>
       \/ ~ RemotePollOut /\ Hangup
    /\ close

(* recv() fails in state CONNECTED: what the kernel held is gone.          *)
remote_read_fails ==
    /\ rstate = "CONNECTED" /\ RemotePollIn /\ ~ devOpen
    /\ Len(ib) < IbCap
    /\ close

(* End of file before the answer to Connect: usbmux_remote_mark_dead, and  *)
(* usbmux_remote_dispose when the dead are reaped.                         *)
remote_dead ==
    /\ rstate = "CONNECTING1" /\ ~ devOpen
    /\ close

-----------------------------------------------------------------------------
ClientHandler == process_send \/ client_gone \/ client_read \/ client_eof
                 \/ client_write \/ client_write_fails
RemoteHandler == (\E ok \in BOOLEAN : remote_connect_result(ok))
                 \/ remote_read \/ remote_eof \/ remote_write \/ remote_hangup
                 \/ remote_dead
Ends == app_send \/ app_close \/ dev_send \/ dev_close

Next == ClientHandler \/ RemoteHandler \/ remote_read_fails \/ Ends

Spec == Init /\ [][Next]_vars

(* main_loop visits every fd that poll reports, round after round; recv()  *)
(* need not fail.                                                          *)
FairSpec == Spec /\ WF_vars(ClientHandler) /\ WF_vars(RemoteHandler)

-----------------------------------------------------------------------------
(***************************************************************************)
(* Properties.                                                             *)
(***************************************************************************)

(* Buffers never exceed their capacity and masks hold poll events only.    *)
TypeOK ==
    /\ cstate \in {"CONNECTING1", "CONNECTING2", "CONNECTED", "COMMAND", "CLOSED"}
    /\ rstate \in {"CONNECTING1", "CONNECTED", "CLOSED"}
    /\ cevents \subseteq {"IN", "OUT"} /\ cdevents \subseteq {"IN", "OUT"}
    /\ revents \subseteq {"IN", "OUT"}
    /\ cob \in 0..ResultLen
    /\ ib \in Seq(1..MaxDown) /\ Len(ib) <= IbCap
    /\ ob \in Seq(1..MaxUp) /\ Len(ob) <= ObCap
    /\ appOut \in Seq(1..MaxUp) /\ appSent \in 0..MaxUp /\ appGot \in Seq(0..MaxDown)
    /\ devOut \in Seq(1..MaxDown) /\ devSent \in 0..MaxDown /\ devGot \in Seq(1..MaxUp)
    /\ appOpen \in BOOLEAN /\ devOpen \in BOOLEAN

Stream(n) == [i \in 1..n |-> i]
Result(n) == [i \in 1..n |-> 0]

(* While the connection is up, what was received, what is buffered and     *)
(* what waits in the socket make up exactly what was sent, in both         *)
(* directions, the result packet going first: partial sends and the        *)
(* memmove after them neither lose, repeat nor reorder a byte.             *)
StreamsIntact ==
    cstate # "CLOSED" =>
        /\ devGot \o ob \o appOut = Stream(appSent)
        /\ cstate # "COMMAND" =>
            LET result == IF cstate = "CONNECTING1" THEN 0 ELSE ResultLen - cob
            IN  appGot \o ib \o devOut = Result(result) \o Stream(devSent)

(* Whenever there is something to move, the event that moves it is asked   *)
(* for: bytes in ib_buf keep POLLOUT in the client's mask, through the     *)
(* switch from CONNECTING2 to CONNECTED too, and only they do (no busy     *)
(* loop); bytes in ob_buf, or a client that stopped reading, keep POLLOUT  *)
(* in the remote's.                                                        *)
NoLostWakeup ==
    /\ cstate = "CONNECTED" => ("OUT" \in cevents <=> ib # << >>)
    /\ cstate = "CONNECTING2" => (ib # << >> => "OUT" \in cdevents)
    /\ rstate = "CONNECTED" /\ ob # << >> => "OUT" \in revents
    /\ cstate = "CONNECTED" /\ "IN" \notin cevents => "OUT" \in revents

(* A relay is a pipe: the program and the device see prefixes of what the  *)
(* other end sent, growing in order, until one of them closes.             *)
Pipe == INSTANCE DuplexPipe WITH
    upSent <- appSent, upGot <- devGot,
    downSent <- devSent, downGot <- SubSeq(appGot, ResultLen + 1, Len(appGot)),
    open <- cstate # "CLOSED"

ImplementsPipe == Pipe!Spec

(* Every byte sent arrives, as long as nobody closes and the request was   *)
(* not refused.                                                            *)
Delivered ==
    /\ \A n \in 1..MaxUp : appSent >= n ~> Len(devGot) >= n \/ cstate = "CLOSED"
    /\ \A n \in 1..MaxDown : devSent >= n ~>
            Len(appGot) >= ResultLen + n \/ cstate \in {"CLOSED", "COMMAND"}

(* Both buffers are full, and more or an end of file waits on both sides.  *)
Stalled ==
    /\ Len(ob) = ObCap /\ (appOut # << >> \/ ~ appOpen)
    /\ Len(ib) = IbCap /\ (devOut # << >> \/ ~ devOpen)

(* Every byte sent arrives, unless somebody closes, the request is refused *)
(* or both buffers fill up at once with more to come: one direction that   *)
(* is slow or stands still never holds up the other.                       *)
DeliveredUnlessStalled ==
    /\ \A n \in 1..MaxUp : appSent >= n ~> Len(devGot) >= n \/ cstate = "CLOSED" \/ Stalled
    /\ \A n \in 1..MaxDown : devSent >= n ~>
            Len(appGot) >= ResultLen + n \/ cstate \in {"CLOSED", "COMMAND"} \/ Stalled

(* When the upstream end closes an established connection, the client's    *)
(* connection is closed too, so that the program notices, if the relay is  *)
(* not stalled.                                                            *)
HangupReachesClient ==
    rstate = "CONNECTED" /\ ~ devOpen ~> cstate = "CLOSED" \/ Stalled
=============================================================================
