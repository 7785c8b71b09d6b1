------------------------------- MODULE Framing -------------------------------
(***************************************************************************)
(* How a connection that is not relaying reads packets and sends answers:  *)
(* process_recv and process_send for a client (usbfluxd/client.c), their   *)
(* twins remote_process_recv and remote_process_send for an upstream       *)
(* usbmuxd (usbfluxd/usbmux_remote.c).                                     *)
(*                                                                         *)
(* The peer's bytes are a stream of packets, each a header of Hdr bytes    *)
(* that holds the packet's length, and a body.  A packet is known by its   *)
(* number; what it says is abstracted to what handling it does.  The peer  *)
(* may send without end: numbers start anew when all packets are handled.  *)
(***************************************************************************)
EXTENDS Integers, Sequences

CONSTANTS
    Hdr,        \* sizeof(struct usbmuxd_header), 16 in the code
    IbCap,      \* ib_capacity
    Length,     \* what a header may hold as length
    MaxPacket,  \* bound: packets of the peer that are counted at a time
    MaxReply    \* bound: this many packets in ob_buf, or more

(***************************************************************************)
(* "ok": answered or sent upstream, and on to the next packet.  "fail":    *)
(* client_command returns -1 without closing (no plist, no MessageType, a  *)
(* pair record request with no usbmuxd to send it to).  "listen": Listen.  *)
(* "connect": Connect, or the good answer to it.                           *)
(***************************************************************************)
Kind == {"ok", "fail", "listen", "connect"}

ASSUME FramingAssumption ==
    /\ Hdr \in Nat \ {0} /\ IbCap \in Nat /\ Hdr <= IbCap
    /\ Length \subseteq Nat
    /\ MaxPacket \in Nat /\ MaxReply \in Nat \ {0}

VARIABLES
    side,       \* "client" or "remote": whose connection it is
    stream,     \* packets of the peer: [at, len, kind], at is the first byte's place
    total,      \* bytes the peer has written
    arrived,    \* bytes that have reached the socket
    eof,        \* the peer has closed
    pos,        \* bytes received
    ib,         \* ib_size
    ob,         \* ob_size, one unit per packet
    out,        \* events & POLLOUT
    state,      \* "COMMAND", "LISTEN", "CONNECT", or "CLOSED"
    done,       \* numbers of the packets that were handled
    again       \* ... more than once

vars == <<side, stream, total, arrived, eof, pos, ib, ob, out, state, done, again>>
peer == <<side, stream, total, arrived, eof>>

(* Mutant: no limit.                                                       *)
Bad_NoLimit(len) == len < Hdr

(* "message is too long", "message is too short".                          *)
Bad(len) == len < Hdr \/ len > IbCap

(* remote: the Listen packet waits to be sent.                             *)
Init ==
    /\ side \in {"client", "remote"}
    /\ stream = <<>> /\ total = 0 /\ arrived = 0 /\ eof = FALSE
    /\ pos = 0 /\ ib = 0 /\ state = "COMMAND"
    /\ ob = (IF side = "remote" THEN 1 ELSE 0) /\ out = (side = "remote")
    /\ done = <<>> /\ again = {}

-----------------------------------------------------------------------------
(* The peer.  Of a packet with a bad length only the header matters.       *)

peer_writes(len, kind) ==
    /\ ~ eof /\ Len(stream) < MaxPacket
    /\ stream' = Append(stream, [at |-> total, len |-> len, kind |-> kind])
    /\ total' = total + (IF Bad(len) THEN Hdr ELSE len)
    /\ UNCHANGED <<side, arrived, eof, pos, ib, ob, out, state, done, again>>

(* It may close in the middle of a packet.                                 *)
peer_closes ==
    /\ ~ eof
    /\ eof' = TRUE
    /\ total' \in arrived..total
    /\ UNCHANGED <<side, stream, arrived, pos, ib, ob, out, state, done, again>>

wire ==
    /\ arrived < total
    /\ arrived' \in (arrived + 1)..total
    /\ UNCHANGED <<side, stream, total, eof, pos, ib, ob, out, state, done, again>>

(* Nothing of the packets so far is left: the next ones are numbered anew. *)
renumber ==
    /\ ~ eof /\ stream # <<>> /\ Len(done) = Len(stream) /\ pos = total /\ ib = 0
    /\ stream' = <<>> /\ total' = 0 /\ arrived' = 0 /\ pos' = 0
    /\ done' = <<>> /\ again' = {}
    /\ UNCHANGED <<side, eof, ib, ob, out, state>>

-----------------------------------------------------------------------------
(* The connection does not relay yet.                                      *)
Framed ==
    \/ state \in {"COMMAND", "LISTEN"}
    \/ state = "CONNECT" /\ side = "client"

(* poll reports POLLIN for bytes and for end of file.                      *)
PollIn == Framed /\ (pos < arrived \/ (eof /\ arrived = total))

(* The packet whose header is at the start of ib_buf.                      *)
Current(k, i, p) == k \in DOMAIN stream /\ stream[k].at = p - i

client_close == state' = "CLOSED" /\ UNCHANGED <<ob, out, done, again>>

(* The packet k was the last one that was looked at.                       *)
Before(k) == done # <<>> /\ done[Len(done)] = k

(* The packet k is looked at, for the first time or again.                 *)
Seen(k) ==
    IF Before(k)
    THEN again' = again \cup {k} /\ UNCHANGED done
    ELSE done' = Append(done, k) /\ UNCHANGED again

Reply == ob' = (IF ob < MaxReply THEN ob + 1 ELSE ob) /\ out' = TRUE

(* The request went upstream: the answer comes from there.                 *)
Later == UNCHANGED <<ob, out>>

(* client_command, with what process_recv makes of its result: ib_size is  *)
(* reset only for 0.  Listen returns how many devices it reported; if it   *)
(* is kept for that, it is looked at again as a command in the wrong state.*)
client_command(k, i) ==
    \/ /\ state # "COMMAND"
       /\ ib' = i /\ state' = "CLOSED"
       /\ again' = again \cup {j \in {k} : Before(j)}
       /\ UNCHANGED <<ob, out, done>>
    \/ /\ state = "COMMAND"
       /\ Seen(k)
       /\ CASE stream[k].kind = "ok"      -> ib' = 0 /\ (Reply \/ Later) /\ UNCHANGED state
            [] stream[k].kind = "fail"    -> ib' = i /\ UNCHANGED <<ob, out, state>>
            [] stream[k].kind = "listen"  -> ib' \in {0, i} /\ Reply /\ state' = "LISTEN"
            [] stream[k].kind = "connect" -> ib' = 0 /\ UNCHANGED <<ob, out>> /\ state' = "CONNECT"

(* Mutant: bytes stay in ib_buf.                                           *)
remote_handle_command_result_Keep(k, i) ==
    /\ Seen(k)
    /\ state' = CASE stream[k].kind = "listen"  -> "LISTEN"
                  [] stream[k].kind = "connect" -> "CONNECT"
                  [] OTHER -> state
    /\ ib' = i
    /\ UNCHANGED <<ob, out>>

(* remote_handle_command_result, and the reset that follows in any case.   *)
remote_handle_command_result(k, i) ==
    /\ Seen(k)
    /\ state' = CASE stream[k].kind = "listen"  -> "LISTEN"
                  [] stream[k].kind = "connect" -> "CONNECT"
                  [] OTHER -> state
    /\ ib' = 0
    /\ UNCHANGED <<ob, out>>

(* i bytes of the packet k are in ib_buf, its header among them.           *)
Complete(k, i) ==
    IF side = "client" THEN client_command(k, i) ELSE remote_handle_command_result(k, i)

(* Mutant: the first receive is not limited to the header.                 *)
recv_header_Greedy(n) ==
    /\ PollIn /\ ib < Hdr
    /\ n \in 1..(arrived - pos) /\ n <= IbCap - ib
    /\ pos' = pos + n
    /\ IF ib + n < Hdr THEN ib' = ib + n /\ UNCHANGED <<ob, out, state, done, again>>
       ELSE \E k \in DOMAIN stream :
            /\ Current(k, ib + n, pos + n)
            /\ \/ Bad(stream[k].len) /\ ib' = ib + n /\ client_close
               \/ ~ Bad(stream[k].len) /\ ib + n >= stream[k].len /\ Complete(k, ib + n)
               \/ ~ Bad(stream[k].len) /\ ib + n < stream[k].len
                  /\ ib' = ib + n /\ UNCHANGED <<ob, out, state, done, again>>
    /\ UNCHANGED peer

(* Mutant: a packet without a body is taken for one that still comes.      *)
recv_header_WaitBody(n) ==
    /\ PollIn /\ ib < Hdr
    /\ n \in 1..(arrived - pos) /\ n <= Hdr - ib
    /\ pos' = pos + n
    /\ IF ib + n < Hdr THEN ib' = ib + n /\ UNCHANGED <<ob, out, state, done, again>>
       ELSE \E k \in DOMAIN stream :
            /\ Current(k, ib + n, pos + n)
            /\ \/ Bad(stream[k].len) /\ ib' = ib + n /\ client_close
               \/ ~ Bad(stream[k].len) /\ ib' = ib + n /\ UNCHANGED <<ob, out, state, done, again>>
    /\ UNCHANGED peer

(* process_recv, the header: too long or too short closes; a body is left  *)
(* to the next event ("maybe we would block").                             *)
recv_header(n) ==
    /\ PollIn /\ ib < Hdr
    /\ n \in 1..(arrived - pos) /\ n <= Hdr - ib
    /\ pos' = pos + n
    /\ IF ib + n < Hdr THEN ib' = ib + n /\ UNCHANGED <<ob, out, state, done, again>>
       ELSE \E k \in DOMAIN stream :
            /\ Current(k, ib + n, pos + n)
            /\ \/ Bad(stream[k].len) /\ ib' = ib + n /\ client_close
               \/ stream[k].len = Hdr /\ Complete(k, Hdr)
               \/ ~ Bad(stream[k].len) /\ stream[k].len > Hdr
                  /\ ib' = ib + n /\ UNCHANGED <<ob, out, state, done, again>>
    /\ UNCHANGED peer

(* process_recv, the body.                                                 *)
recv_body(n) ==
    /\ PollIn /\ ib >= Hdr
    /\ \E k \in DOMAIN stream :
        /\ Current(k, ib, pos)
        /\ ib < stream[k].len
        /\ n \in 1..(arrived - pos) /\ n <= stream[k].len - ib
        /\ IF ib + n = stream[k].len THEN Complete(k, ib + n)
           ELSE ib' = ib + n /\ UNCHANGED <<ob, out, state, done, again>>
    /\ pos' = pos + n
    /\ UNCHANGED peer

(* process_recv, a packet that was kept: nothing is received.              *)
recv_nothing ==
    /\ PollIn /\ ib >= Hdr
    /\ \E k \in DOMAIN stream :
        /\ Current(k, ib, pos)
        /\ ib >= stream[k].len
        /\ Complete(k, ib)
    /\ UNCHANGED <<pos, peer>>

(* Mutant: end of file inside a packet is waited out.                      *)
recv_eof_Ignored ==
    /\ PollIn /\ pos = arrived
    /\ ib = 0
    /\ client_close
    /\ UNCHANGED <<pos, ib, peer>>

(* recv returns 0: the client is closed, the remote marked dead.           *)
recv_eof ==
    /\ PollIn /\ pos = arrived
    /\ \/ ib < Hdr
       \/ \E k \in DOMAIN stream : Current(k, ib, pos) /\ ib < stream[k].len
    /\ client_close
    /\ UNCHANGED <<pos, ib, peer>>

(* Mutant: POLLOUT is cleared by a partial send.                           *)
process_send_Partial ==
    /\ Framed /\ ~ PollIn /\ out
    /\ ob' \in 0..(IF ob = 0 THEN 0 ELSE ob - 1)
    /\ out' = FALSE
    /\ UNCHANGED <<pos, ib, state, done, again, peer>>

(* process_send: looked at only without POLLIN; some of ob_buf, all of it, *)
(* or nothing there.                                                       *)
process_send ==
    /\ Framed /\ ~ PollIn /\ out
    /\ ob' \in 0..(IF ob = 0 THEN 0 ELSE ob - 1)
    /\ out' = (ob' # 0)
    /\ UNCHANGED <<pos, ib, state, done, again, peer>>

(* A receive or send error.                                                *)
io_error ==
    /\ Framed /\ (PollIn \/ out)
    /\ client_close
    /\ UNCHANGED <<pos, ib, peer>>

-----------------------------------------------------------------------------
(* client_process and usbmux_remote_process in these states.               *)
Process ==
    \/ \E n \in 1..IbCap : recv_header(n) \/ recv_body(n)
    \/ recv_nothing \/ recv_eof \/ process_send

Next ==
    \/ \E len \in Length, kind \in Kind : peer_writes(len, kind)
    \/ peer_closes \/ wire \/ renumber
    \/ Process \/ io_error

Spec == Init /\ [][Next]_vars

(* main_loop calls the handler of an fd as long as poll reports it; the    *)
(* peer takes what is sent to it.                                          *)
FairSpec == Spec /\ WF_vars(Process)

-----------------------------------------------------------------------------
(***************************************************************************)
(* Properties.                                                             *)
(***************************************************************************)

(* ib_buf never holds more than its capacity, nor more than was received.  *)
TypeOK ==
    /\ ib \in 0..IbCap /\ ib <= pos
    /\ pos <= arrived /\ arrived <= total
    /\ ob \in Nat /\ out \in BOOLEAN
    /\ state \in {"COMMAND", "LISTEN", "CONNECT", "CLOSED"}

(* Where a packet ends.                                                    *)
End(k) == stream[k].at + stream[k].len

(* Reading keeps to the packets: ib_buf starts where a packet starts and   *)
(* holds nothing of the next one; when the remote begins to relay, every   *)
(* byte after the Connect result is still in the socket and ib_buf empty.  *)
InStep ==
    state # "CLOSED" =>
        /\ ib > 0 => \E k \in DOMAIN stream :
                        stream[k].at = pos - ib /\ (ib >= Hdr => pos <= End(k))
        /\ ib = 0 => pos = 0 \/ \E k \in DOMAIN stream : pos = End(k)
        /\ side = "remote" /\ state = "CONNECT" => ib = 0

(* Packets are handled in the order they were sent, none is left out, and  *)
(* only a client's packet is looked at again: a command that failed, or    *)
(* Listen, which then ends the connection.                                 *)
InOrder ==
    /\ \A i \in DOMAIN done : done[i] = i
    /\ \A k \in again :
        /\ side = "client"
        /\ stream[k].kind = "fail" \/ (stream[k].kind = "listen" /\ state = "CLOSED")

(* A client's command failed: its packet is kept, and in the way of what   *)
(* follows.                                                                *)
Kept ==
    /\ side = "client" /\ state = "COMMAND" /\ ib >= Hdr
    /\ \E k \in DOMAIN stream :
        Current(k, ib, pos) /\ ib = stream[k].len /\ stream[k].kind = "fail"

Over == state \in {"CLOSED", "CONNECT"} \/ Kept

(* A packet that has arrived is handled, however its bytes were split,     *)
(* unless the connection ends or a failed command is in the way.           *)
Handled ==
    \A k \in 1..MaxPacket :
        k \in DOMAIN stream /\ ~ Bad(stream[k].len) /\ arrived >= End(k)
            ~> k \in DOMAIN done \/ Over

(* A peer that closes is noticed, in the middle of a packet too.           *)
EofNoticed == eof /\ arrived = total ~> ~ Framed \/ Kept

(* Answers are sent although input is looked at first, once the peer       *)
(* pauses; one that never does holds its own answers up for ever.          *)
RepliesSent == <>[](~ PollIn) => (ob > 0 ~> ob = 0 \/ Over)
=============================================================================
