---------------------------- MODULE FramingProofs ----------------------------
(***************************************************************************)
(* Proofs about Framing, for any header size, buffer capacity, packet      *)
(* lengths and number of packets, and for both sides: however the bytes    *)
(* of the peer are split, reading keeps to the packets, and packets are    *)
(* handled once each and in order.                                         *)
(***************************************************************************)
EXTENDS Framing, TLAPS

Packet == [at : Nat, len : Length, kind : Kind]

(* The bytes the peer writes for a packet.                                 *)
Size(p) == IF Bad(p.len) THEN Hdr ELSE p.len

FullTypeOK ==
    /\ TypeOK
    /\ side \in {"client", "remote"} /\ eof \in BOOLEAN
    /\ stream \in Seq(Packet) /\ done \in Seq(Nat)
    /\ total \in Nat /\ arrived \in Nat /\ pos \in Nat
    /\ again \subseteq DOMAIN stream

(* The packets follow each other without a gap; when the peer closes, the  *)
(* last ones may be cut off.                                               *)
Layout ==
    /\ \A k \in DOMAIN stream :
        stream[k].at = IF k = 1 THEN 0 ELSE stream[k - 1].at + Size(stream[k - 1])
    /\ \A j, k \in DOMAIN stream : j < k => stream[j].at + Size(stream[j]) <= stream[k].at
    /\ stream = <<>> => total = 0
    /\ stream # <<>> =>
        LET last == stream[Len(stream)]
        IN  /\ total <= last.at + Size(last)
            /\ ~ eof => total = last.at + Size(last)

(* ib_buf is empty at the end of the last packet that was handled,         *)
Between ==
    /\ ib = 0
    /\ IF done = <<>> THEN pos = 0
       ELSE /\ Len(done) \in DOMAIN stream /\ ~ Bad(stream[Len(done)].len)
            /\ pos = End(Len(done))

(* or holds a part of the next packet, less than all of it,                *)
Within ==
    /\ ib > 0 /\ Len(done) + 1 \in DOMAIN stream
    /\ stream[Len(done) + 1].at = pos - ib
    /\ ib >= Hdr => ~ Bad(stream[Len(done) + 1].len) /\ ib < stream[Len(done) + 1].len

(* or all of a client's packet whose command did not return 0.             *)
Held ==
    /\ done # <<>> /\ Len(done) \in DOMAIN stream /\ ~ Bad(stream[Len(done)].len)
    /\ ib = stream[Len(done)].len /\ stream[Len(done)].at = pos - ib
    /\ side = "client"
    /\ \/ state = "COMMAND" /\ stream[Len(done)].kind = "fail"
       \/ state = "LISTEN" /\ stream[Len(done)].kind = "listen"

(* The inductive invariant.                                                *)
Reading ==
    /\ FullTypeOK
    /\ Layout
    /\ InOrder
    /\ state # "CLOSED" => Between \/ Within \/ Held
    /\ side = "remote" /\ state = "CONNECT" => ib = 0

-----------------------------------------------------------------------------
(* Lemmas about the stream.                                                *)

(* What a packet of the stream occupies, good or bad.                      *)
LEMMA SizePositive ==
    ASSUME FullTypeOK, NEW k \in DOMAIN stream
    PROVE  /\ stream[k] \in Packet /\ Size(stream[k]) \in Nat \ {0}
           /\ stream[k].at \in Nat /\ stream[k].len \in Nat
           /\ ~ Bad(stream[k].len) => /\ Size(stream[k]) = stream[k].len
                                      /\ Hdr <= stream[k].len /\ stream[k].len <= IbCap
           /\ stream[k].len = Hdr => ~ Bad(stream[k].len)
<1>1. stream[k] \in Packet
  BY DEF FullTypeOK
<1>2. stream[k].at \in Nat /\ stream[k].len \in Nat
  BY <1>1, FramingAssumption DEF Packet
<1>3. QED
  BY <1>1, <1>2, FramingAssumption DEF Size, Bad

(* A packet is known by the place of its first byte.                       *)
LEMMA OneAtAPlace ==
    ASSUME FullTypeOK, Layout, NEW j \in DOMAIN stream, NEW k \in DOMAIN stream,
           stream[j].at = stream[k].at
    PROVE  j = k
<1>1. j \in Nat /\ k \in Nat
  BY DEF FullTypeOK
<1>2. ~ (j < k) /\ ~ (k < j)
  BY SizePositive, <1>1 DEF Layout
<1>3. QED
  BY <1>1, <1>2

(* When bytes wait behind the last packet that was handled, they are of    *)
(* the next one.                                                           *)
LEMMA NextPacket ==
    ASSUME Reading, Between, pos < arrived
    PROVE  Len(done) + 1 \in DOMAIN stream /\ stream[Len(done) + 1].at = pos
<1> DEFINE d == Len(done)
<1>1. d \in Nat /\ DOMAIN stream = 1..Len(stream) /\ Len(stream) \in Nat
  BY DEF Reading, FullTypeOK
<1>2. pos \in Nat /\ arrived \in Nat /\ total \in Nat /\ pos < total
  BY DEF Reading, FullTypeOK, TypeOK
<1>3. stream # <<>> /\ Len(stream) \in DOMAIN stream
  BY <1>1, <1>2 DEF Reading, Layout, FullTypeOK
<1>4. CASE done = <<>>
  <2>1. d = 0 /\ pos = 0
    BY <1>4 DEF Between
  <2>2. 1 \in DOMAIN stream
    BY <1>1, <1>3
  <2>3. stream[1].at = 0
    BY <2>2 DEF Reading, Layout
  <2>4. QED
    BY <2>1, <2>2, <2>3
<1>5. CASE done # <<>>
  <2>1. d \in DOMAIN stream /\ ~ Bad(stream[d].len) /\ pos = stream[d].at + stream[d].len
    BY <1>5 DEF Between, End
  <2>2. pos = stream[d].at + Size(stream[d])
    BY <2>1, SizePositive DEF Reading
  <2>3. d # Len(stream)
    BY <1>2, <1>3, <2>2, SizePositive DEF Reading, Layout
  <2>4. d + 1 \in DOMAIN stream /\ d + 1 # 1 /\ (d + 1) - 1 = d
    BY <1>1, <2>1, <2>3
  <2>5. QED
    BY <2>2, <2>4 DEF Reading, Layout
<1>6. QED
  BY <1>4, <1>5


(* What the peer does keeps the invariant.                                 *)
LEMMA PeerStep ==
    ASSUME Reading,
           (\E len \in Length, kind \in Kind : peer_writes(len, kind)) \/ peer_closes \/ wire \/ renumber
    PROVE  Reading'
<1>1. ASSUME NEW len \in Length, NEW kind \in Kind, peer_writes(len, kind) PROVE Reading'
  <2> DEFINE new == [at |-> total, len |-> len, kind |-> kind]
             n == Len(stream)
  <2>1. new \in Packet /\ Size(new) \in Nat \ {0} /\ total' = total + Size(new)
    BY <1>1, FramingAssumption DEF Packet, Size, Bad, peer_writes, Reading, FullTypeOK
  <2>2. /\ n \in Nat /\ stream' = Append(stream, new)
        /\ DOMAIN stream = 1..n /\ DOMAIN stream' = 1..(n + 1) /\ Len(stream') = n + 1
        /\ \A k \in 1..n : stream'[k] = stream[k]
        /\ stream'[n + 1] = new /\ stream' \in Seq(Packet) /\ stream' # <<>>
    <3> HIDE DEF new
    <3>1. stream' = Append(stream, new)
      BY <1>1 DEF peer_writes, new
    <3>2. stream \in Seq(Packet) /\ new \in Packet
      BY <2>1 DEF Reading, FullTypeOK
    <3>3. n \in Nat /\ DOMAIN stream = 1..n
      BY <3>2
    <3>4. Len(stream') = n + 1 /\ stream' \in Seq(Packet) /\ DOMAIN stream' = 1..(n + 1)
      BY <3>1, <3>2, <3>3
    <3>5. stream'[n + 1] = new /\ \A k \in 1..n : stream'[k] = stream[k]
      BY <3>1, <3>2, <3>3
    <3>6. stream' # <<>>
      BY <3>3, <3>4
    <3>7. QED
      BY <3>1, <3>3, <3>4, <3>5, <3>6
  <2>3. /\ total \in Nat /\ ~ eof /\ ~ eof'
        /\ n = 0 => total = 0
        /\ n # 0 => total = stream[n].at + Size(stream[n])
    BY <1>1, <2>2 DEF peer_writes, Reading, Layout, FullTypeOK
  <2>4. FullTypeOK'
    BY <1>1, <2>1, <2>2, FramingAssumption DEF peer_writes, Reading, FullTypeOK, TypeOK
  <2>5. Layout'
    <3>1. \A k \in 1..(n + 1) :
            stream'[k].at = IF k = 1 THEN 0 ELSE stream'[k - 1].at + Size(stream'[k - 1])
      <4>1. TAKE k \in 1..(n + 1)
      <4>2. CASE k \in 1..n
        <5>1. k # 1 => k - 1 \in 1..n
          BY <2>2, <4>2
        <5>2. QED
          BY <2>2, <4>2, <5>1 DEF Reading, Layout
      <4>3. CASE k = n + 1
        <5>1. stream'[k].at = total
          BY <2>2, <4>3
        <5>2. CASE n = 0
          BY <2>3, <4>3, <5>1, <5>2
        <5>3. CASE n # 0
          <6>1. k # 1 /\ k - 1 = n /\ n \in 1..n
            BY <2>2, <4>3, <5>3
          <6>2. QED
            BY <2>2, <2>3, <5>1, <5>3, <6>1
        <5>4. QED
          BY <5>2, <5>3
      <4>4. QED
        BY <2>2, <4>2, <4>3
    <3>2. \A j \in 1..n : stream[j].at + Size(stream[j]) <= total
      <4>1. TAKE j \in 1..n
      <4>2. n \in 1..n /\ n # 0 /\ j \in DOMAIN stream /\ n \in DOMAIN stream
        BY <2>2
      <4>3. stream[n].at \in Nat /\ Size(stream[n]) \in Nat
        BY <4>2, SizePositive DEF Reading
      <4>4. j < n => stream[j].at + Size(stream[j]) <= stream[n].at
        BY <2>2, <4>2 DEF Reading, Layout
      <4>5. stream[j].at \in Nat /\ Size(stream[j]) \in Nat
        BY <4>2, SizePositive DEF Reading
      <4>6. QED
        BY <2>2, <2>3, <4>2, <4>3, <4>4, <4>5
    <3>3. \A j, k \in 1..(n + 1) :
            j < k => stream'[j].at + Size(stream'[j]) <= stream'[k].at
      <4>1. TAKE j, k \in 1..(n + 1)
      <4>2. HAVE j < k
      <4>3. j \in 1..n
        BY <2>2, <4>2
      <4>4. CASE k \in 1..n
        BY <2>2, <4>2, <4>3, <4>4 DEF Reading, Layout
      <4>5. CASE k = n + 1
        BY <2>2, <3>2, <4>3, <4>5
      <4>6. QED
        BY <2>2, <4>4, <4>5
    <3>4. total' = stream'[n + 1].at + Size(stream'[n + 1])
      BY <2>1, <2>2
    <3>5. total' \in Nat
      BY <2>1, <2>3
    <3>6. QED
      BY <2>2, <3>1, <3>3, <3>4, <3>5 DEF Layout
  <2>6. InOrder'
    BY <1>1, <2>2 DEF peer_writes, Reading, InOrder, FullTypeOK
  <2>7. state' # "CLOSED" => (Between \/ Within \/ Held)'
    <3>1. UNCHANGED <<side, ib, pos, done, state>>
      BY <1>1 DEF peer_writes
    <3>2. Len(done) \in Nat /\ Len(done)' = Len(done)
      BY <3>1 DEF Reading, FullTypeOK
    <3>3. Between => Between'
      BY <2>2, <3>1 DEF Between, End
    <3>4. Within => Within'
      BY <2>2, <3>1 DEF Within
    <3>5. Held => Held'
      BY <2>2, <3>1 DEF Held
    <3>6. QED
      BY <3>1, <3>3, <3>4, <3>5 DEF Reading
  <2>8. QED
    BY <1>1, <2>4, <2>5, <2>6, <2>7 DEF peer_writes, Reading
<1>2. ASSUME peer_closes PROVE Reading'
  <2> USE <1>2 DEF peer_closes
  <2>1. FullTypeOK' /\ InOrder'
    BY FramingAssumption DEF Reading, FullTypeOK, TypeOK, InOrder
  <2>2. Layout'
    <3>1. stream # <<>> => stream[Len(stream)].at + Size(stream[Len(stream)]) \in Nat
      BY SizePositive DEF Reading, FullTypeOK
    <3>2. QED
      BY <3>1 DEF Reading, FullTypeOK, Layout
  <2>3. QED
    BY <2>1, <2>2 DEF Reading, Between, Within, Held, End
<1>3. ASSUME wire PROVE Reading'
  <2> USE <1>3 DEF wire
  <2>1. FullTypeOK' /\ InOrder'
    BY FramingAssumption DEF Reading, FullTypeOK, TypeOK, InOrder
  <2>2. QED
    BY <2>1 DEF Reading, Layout, Between, Within, Held, End
<1>4. ASSUME renumber PROVE Reading'
  <2>1. /\ stream' = <<>> /\ total' = 0 /\ arrived' = 0 /\ pos' = 0 /\ done' = <<>> /\ again' = {}
        /\ ib = 0 /\ UNCHANGED <<side, eof, ib, ob, out, state>>
    BY <1>4 DEF renumber
  <2>2. stream' \in Seq(Packet) /\ done' \in Seq(Nat) /\ again' \subseteq DOMAIN stream'
    BY <2>1
  <2>3. TypeOK'
    BY <2>1, FramingAssumption DEF Reading, FullTypeOK, TypeOK
  <2>4. FullTypeOK'
    BY <2>1, <2>2, <2>3 DEF Reading, FullTypeOK
  <2>5. Layout' /\ InOrder'
    BY <2>1 DEF Layout, InOrder
  <2>6. Between'
    BY <2>1 DEF Between
  <2>7. QED
    BY <2>1, <2>4, <2>5, <2>6 DEF Reading
<1>5. QED
  BY <1>1, <1>2, <1>3, <1>4

(* The next packet is complete: it is handled, for the first time.         *)
LEMMA CompleteNext ==
    ASSUME Reading, state # "CLOSED", NEW k, k = Len(done) + 1, k \in DOMAIN stream,
           ~ Bad(stream[k].len), UNCHANGED peer,
           pos' \in Nat, pos' <= arrived, stream[k].at = pos' - stream[k].len,
           Complete(k, stream[k].len)
    PROVE  Reading'
<1> DEFINE i == stream[k].len
<1>1. /\ i \in Nat /\ Hdr <= i /\ i <= IbCap /\ i # 0
      /\ pos' = stream[k].at + i /\ stream[k].at \in Nat /\ i <= pos'
  BY SizePositive, FramingAssumption DEF Reading
<1>2. Len(done) \in Nat /\ k \in Nat /\ (done # <<>> => done[Len(done)] # k)
  <2>1. Len(done) \in Nat /\ (done # <<>> => Len(done) \in DOMAIN done)
    BY DEF Reading, FullTypeOK
  <2>2. QED
    BY <2>1 DEF Reading, InOrder
<1>3. Layout'
  BY DEF Reading, Layout, peer
<1>4. ASSUME Seen(k)
      PROVE  /\ done' = Append(done, k) /\ again' = again
             /\ done' # <<>> /\ Len(done') = k /\ done' \in Seq(Nat)
             /\ \A j \in DOMAIN done' : done'[j] = j
  <2>1. done' = Append(done, k) /\ again' = again
    BY <1>2, <1>4 DEF Seen, Before
  <2>2. done \in Seq(Nat) /\ \A j \in DOMAIN done : done[j] = j
    BY DEF Reading, FullTypeOK, InOrder
  <2>3. QED
    BY <1>2, <2>1, <2>2
<1>5. CASE side = "client"
  <2>1. CASE state # "COMMAND"
    <3>1. ib' = i /\ state' = "CLOSED" /\ UNCHANGED <<ob, out, done, again>>
      BY <1>2, <1>5, <2>1 DEF Complete, client_command, Before
    <3>2. FullTypeOK' /\ InOrder'
      BY <1>1, <3>1 DEF Reading, FullTypeOK, TypeOK, InOrder, peer
    <3>3. QED
      BY <1>3, <3>1, <3>2 DEF Reading
  <2>2. CASE state = "COMMAND"
    <3>1. /\ Seen(k)
          /\ \/ ib' = 0 /\ state' \in {"COMMAND", "LISTEN", "CONNECT"}
             \/ ib' = i /\ state' = "COMMAND" /\ stream[k].kind = "fail"
             \/ ib' = i /\ state' = "LISTEN" /\ stream[k].kind = "listen"
          /\ ob' \in Nat /\ out' \in BOOLEAN
      <4>1. stream[k].kind \in Kind /\ ob \in Nat /\ out \in BOOLEAN
        BY SizePositive DEF Packet, Reading, FullTypeOK, TypeOK
      <4>2. client_command(k, i)
        BY <1>5 DEF Complete
      <4>3. CASE stream[k].kind = "ok"
        <5>1. Seen(k) /\ ib' = 0 /\ (Reply \/ Later) /\ state' = state
          BY <2>2, <4>2, <4>3 DEF client_command
        <5>2. ob' \in Nat
          BY <4>1, <5>1 DEF Reply, Later
        <5>3. out' \in BOOLEAN
          BY <4>1, <5>1, Zenon DEF Reply, Later
        <5>4. QED
          BY <2>2, <5>1, <5>2, <5>3
      <4>4. CASE stream[k].kind = "fail"
        BY <2>2, <4>1, <4>2, <4>4 DEF client_command
      <4>5. CASE stream[k].kind = "listen"
        BY <2>2, <4>1, <4>2, <4>5 DEF client_command, Reply
      <4>6. CASE stream[k].kind = "connect"
        BY <2>2, <4>1, <4>2, <4>6 DEF client_command
      <4>7. QED
        BY <4>1, <4>3, <4>4, <4>5, <4>6 DEF Kind
    <3>2. FullTypeOK' /\ InOrder'
      <4>1. ib' \in 0..IbCap /\ ib' <= pos' /\ pos' <= arrived' /\ arrived' <= total'
        <5>1. arrived' = arrived /\ total' = total
          BY DEF peer
        <5>2. IbCap \in Nat /\ arrived <= total
          BY FramingAssumption DEF Reading, FullTypeOK, TypeOK
        <5>3. QED
          BY <1>1, <3>1, <5>1, <5>2
      <4>2. state' \in {"COMMAND", "LISTEN", "CONNECT", "CLOSED"} /\ ob' \in Nat /\ out' \in BOOLEAN
        BY <3>1
      <4>3. FullTypeOK'
        BY <1>4, <3>1, <4>1, <4>2 DEF Reading, FullTypeOK, TypeOK, peer
      <4>4. InOrder'
        BY <1>4, <3>1 DEF Reading, InOrder, peer
      <4>5. QED
        BY <4>3, <4>4
    <3>3. ib' = 0 => Between'
      BY <1>1, <1>4, <3>1 DEF Between, End, peer
    <3>4. ib' = i => Held'
      BY <1>1, <1>4, <1>5, <3>1 DEF Held, peer
    <3>5. QED
      BY <1>3, <1>5, <3>1, <3>2, <3>3, <3>4 DEF Reading, peer
  <2>3. QED
    BY <2>1, <2>2
<1>6. CASE side = "remote"
  <2>1. /\ Seen(k) /\ ib' = 0 /\ UNCHANGED <<ob, out>>
        /\ state' \in {"LISTEN", "CONNECT", state}
    BY <1>6 DEF Complete, remote_handle_command_result
  <2>2. FullTypeOK' /\ InOrder'
    <3>1. UNCHANGED <<side, stream, total, arrived, eof>>
      BY DEF peer
    <3>2. ib' \in 0..IbCap /\ ib' <= pos' /\ pos' <= arrived'
      BY <1>1, <2>1, <3>1, FramingAssumption
    <3>3. TypeOK'
      BY <2>1, <3>1, <3>2 DEF Reading, FullTypeOK, TypeOK
    <3>4. FullTypeOK'
      BY <1>4, <2>1, <3>1, <3>3 DEF Reading, FullTypeOK
    <3>5. InOrder'
      BY <1>4, <2>1, <3>1 DEF Reading, InOrder
    <3>6. QED
      BY <3>4, <3>5
  <2>3. Between'
    BY <1>1, <1>4, <2>1 DEF Between, End, peer
  <2>4. QED
    BY <1>3, <2>1, <2>2, <2>3 DEF Reading
<1>7. QED
  BY <1>5, <1>6 DEF Reading, FullTypeOK

(* A packet that was kept is looked at again: its command fails again, or  *)
(* a second request after Listen closes the connection.                    *)
LEMMA CompleteAgain ==
    ASSUME Reading, Held, UNCHANGED <<pos, peer>>, Complete(Len(done), ib)
    PROVE  Reading'
<1> DEFINE k == Len(done)
<1>1. k \in DOMAIN done /\ done[k] = k /\ k \in DOMAIN stream
  BY DEF Held, Reading, FullTypeOK, InOrder
<1>2. Layout'
  BY DEF Reading, Layout, peer
<1>3. side = "client" /\ client_command(k, ib)
  BY DEF Held, Complete
<1>4. CASE state # "COMMAND"
  <2>1. /\ ib' = ib /\ state' = "CLOSED" /\ again' = again \cup {k}
        /\ UNCHANGED <<ob, out, done>>
    <3>1. {j \in {k} : Before(j)} = {k}
      <4>1. Before(k)
        BY <1>1 DEF Before, Held
      <4>2. QED
        BY <4>1
    <3>2. QED
      BY <1>3, <1>4, <3>1 DEF client_command
  <2>2. stream[k].kind = "listen" /\ UNCHANGED <<side, stream>>
    BY <1>4 DEF Held, peer
  <2>3. FullTypeOK'
    BY <1>1, <2>1 DEF Reading, FullTypeOK, TypeOK, peer
  <2>4. InOrder'
    BY <1>3, <2>1, <2>2 DEF Reading, InOrder
  <2>5. QED
    BY <1>2, <2>1, <2>3, <2>4 DEF Reading
<1>5. CASE state = "COMMAND"
  <2>1. stream[k].kind = "fail"
    BY <1>5 DEF Held
  <2>2. Seen(k) /\ ib' = ib /\ UNCHANGED <<ob, out, state>>
    BY <1>3, <1>5, <2>1 DEF client_command
  <2>3. again' = again \cup {k} /\ done' = done
    BY <1>1, <2>2 DEF Seen, Before, Held
  <2>4. FullTypeOK' /\ InOrder'
    BY <1>1, <1>3, <2>1, <2>2, <2>3 DEF Reading, FullTypeOK, TypeOK, InOrder, peer
  <2>5. Held'
    BY <2>2, <2>3 DEF Held, peer
  <2>6. QED
    BY <1>2, <1>3, <2>4, <2>5 DEF Reading, peer
<1>6. QED
  BY <1>4, <1>5




(* Receiving keeps the invariant.  Only a part of the next packet is there *)
(* before and after:                                                       *)
LEMMA ReceiveMore ==
    ASSUME Reading, state # "CLOSED", NEW n \in Nat \ {0}, n <= arrived - pos,
           Between \/ Within, Framed,
           ib + n < Hdr \/ (~ Bad(stream[Len(done) + 1].len) /\ ib + n < stream[Len(done) + 1].len),
           pos' = pos + n, ib' = ib + n, UNCHANGED <<ob, out, state, done, again, peer>>
    PROVE  Reading'
<1> DEFINE k == Len(done) + 1
<1>1. pos \in Nat /\ arrived \in Nat /\ ib \in Nat /\ pos < arrived /\ ib <= pos
  BY DEF Reading, FullTypeOK, TypeOK
<1>2. k \in DOMAIN stream /\ stream[k].at = pos - ib
  BY <1>1, NextPacket DEF Within, Between
<1>3. stream[k].len \in Nat /\ (~ Bad(stream[k].len) => stream[k].len <= IbCap)
  BY <1>2, SizePositive DEF Reading
<1>4. Within'
  BY <1>1, <1>2, <1>3, FramingAssumption DEF Within, peer
<1>5. Layout' /\ InOrder'
  BY DEF Reading, Layout, InOrder, peer
<1>6. FullTypeOK'
  BY <1>1, <1>3, FramingAssumption DEF Reading, FullTypeOK, TypeOK, peer
<1>7. QED
  BY <1>4, <1>5, <1>6 DEF Reading, Framed, peer

(* process_recv keeps Reading for any number of bytes it gets, the header  *)
(* and the body of a packet.                                               *)
LEMMA ReceiveStep ==
    ASSUME Reading, NEW n \in 1..IbCap, recv_header(n) \/ recv_body(n)
    PROVE  Reading'
<1>1. /\ pos \in Nat /\ arrived \in Nat /\ ib \in Nat /\ Len(done) \in Nat
      /\ n \in Nat \ {0} /\ Framed /\ state # "CLOSED" /\ n <= arrived - pos /\ pos < arrived
      /\ pos' = pos + n /\ pos' \in Nat /\ pos' <= arrived /\ UNCHANGED peer
  BY FramingAssumption
     DEF recv_header, recv_body, PollIn, Framed, Reading, FullTypeOK, TypeOK
<1>2. ASSUME NEW k \in DOMAIN stream, stream[k].at = pos - ib, Between \/ Within
      PROVE  k = Len(done) + 1
  <2>1. Len(done) + 1 \in DOMAIN stream /\ stream[Len(done) + 1].at = pos - ib
    BY <1>1, <1>2, NextPacket DEF Within, Between
  <2>2. QED
    BY <1>2, <2>1, OneAtAPlace DEF Reading
<1>3. ASSUME recv_header(n) PROVE Reading'
  <2>1. ib < Hdr /\ n <= Hdr - ib
    BY <1>3 DEF recv_header
  <2>2. Between \/ Within
    BY <1>1, <2>1, SizePositive, FramingAssumption DEF Reading, Held
  <2>3. CASE ib + n < Hdr
    <3>1. ib' = ib + n /\ UNCHANGED <<ob, out, state, done, again>>
      BY <1>3, <2>3 DEF recv_header
    <3>2. QED
      BY <1>1, <2>2, <2>3, <3>1, ReceiveMore DEF peer
  <2>4. CASE ~ (ib + n < Hdr)
    <3>1. ib + n = Hdr
      BY <1>1, <2>1, <2>4, FramingAssumption
    <3>2. PICK k \in DOMAIN stream :
            /\ Current(k, ib + n, pos + n)
            /\ \/ Bad(stream[k].len) /\ ib' = ib + n /\ client_close
               \/ stream[k].len = Hdr /\ Complete(k, Hdr)
               \/ ~ Bad(stream[k].len) /\ stream[k].len > Hdr
                  /\ ib' = ib + n /\ UNCHANGED <<ob, out, state, done, again>>
      BY <1>3, <2>4 DEF recv_header
    <3>3. stream[k].at = pos - ib /\ stream[k].at = pos' - Hdr
      BY <1>1, <3>1, <3>2 DEF Current
    <3>4. k = Len(done) + 1
      BY <1>2, <2>2, <3>3
    <3>5. CASE Bad(stream[k].len) /\ ib' = ib + n /\ client_close
      <4>1. FullTypeOK'
        BY <1>1, <2>1, <3>1, <3>5, FramingAssumption
           DEF Reading, FullTypeOK, TypeOK, client_close, peer
      <4>2. Layout'
        BY <1>1 DEF Reading, Layout, peer
      <4>3. InOrder'
        BY <1>1, <3>5 DEF Reading, InOrder, client_close, peer
      <4>4. QED
        BY <3>5, <4>1, <4>2, <4>3 DEF Reading, client_close
    <3>6. CASE stream[k].len = Hdr /\ Complete(k, Hdr)
      BY <1>1, <3>3, <3>4, <3>6, SizePositive, CompleteNext DEF Reading
    <3>7. CASE /\ ~ Bad(stream[k].len) /\ stream[k].len > Hdr
               /\ ib' = ib + n /\ UNCHANGED <<ob, out, state, done, again>>
      <4>1. stream[k].len \in Nat /\ ib + n < stream[k].len
        BY <3>1, <3>7, SizePositive, FramingAssumption DEF Reading
      <4>2. QED
        BY <1>1, <2>2, <3>4, <3>7, <4>1, ReceiveMore DEF peer
    <3>8. QED
      BY <3>2, <3>5, <3>6, <3>7
  <2>5. QED
    BY <2>3, <2>4
<1>4. ASSUME recv_body(n) PROVE Reading'
  <2>1. PICK k \in DOMAIN stream :
          /\ Current(k, ib, pos)
          /\ ib < stream[k].len
          /\ n \in 1..(arrived - pos) /\ n <= stream[k].len - ib
          /\ IF ib + n = stream[k].len THEN Complete(k, ib + n)
             ELSE ib' = ib + n /\ UNCHANGED <<ob, out, state, done, again>>
    BY <1>4 DEF recv_body
  <2>2. ib >= Hdr /\ stream[k].at = pos - ib /\ ib > 0
    BY <1>1, <1>4, <2>1, FramingAssumption DEF recv_body, Current
  <2>3. ~ Held
    <3>1. SUFFICES ASSUME Held PROVE FALSE
      OBVIOUS
    <3>2. k = Len(done)
      BY <2>2, <3>1, OneAtAPlace DEF Held, Reading
    <3>3. QED
      BY <1>1, <2>1, <3>1, <3>2 DEF Held
  <2>4. Within
    BY <1>1, <2>2, <2>3 DEF Reading, Between
  <2>5. k = Len(done) + 1
    BY <1>2, <2>2, <2>4
  <2>6. ~ Bad(stream[k].len) /\ stream[k].len \in Nat
    BY <2>2, <2>4, <2>5, SizePositive DEF Within, Reading
  <2>7. CASE ib + n = stream[k].len
    <3>1. stream[k].at = pos' - stream[k].len
      BY <1>1, <2>2, <2>7
    <3>2. QED
      BY <1>1, <2>1, <2>5, <2>6, <2>7, <3>1, CompleteNext
  <2>8. CASE ib + n # stream[k].len
    <3>1. ib + n < stream[k].len
      BY <1>1, <2>1, <2>6, <2>8
    <3>2. QED
      BY <1>1, <2>1, <2>4, <2>5, <2>6, <2>8, <3>1, ReceiveMore DEF peer
  <2>9. QED
    BY <2>7, <2>8
<1>5. QED
  BY <1>3, <1>4

(* Every step keeps the invariant.                                         *)
LEMMA ReadingStep == ASSUME Reading, [Next]_vars PROVE Reading'
<1>1. ASSUME recv_nothing PROVE Reading'
  <2>1. PICK k \in DOMAIN stream : Current(k, ib, pos) /\ ib >= stream[k].len /\ Complete(k, ib)
    BY <1>1 DEF recv_nothing
  <2>2. state # "CLOSED" /\ ib >= Hdr /\ ib \in Nat /\ stream[k].at = pos - ib /\ stream[k].len \in Nat
    BY <1>1, <2>1, SizePositive
       DEF recv_nothing, PollIn, Framed, Current, Reading, FullTypeOK, TypeOK
  <2>3. ~ Within
    <3>1. SUFFICES ASSUME Within PROVE FALSE
      OBVIOUS
    <3>2. k = Len(done) + 1
      BY <2>2, <3>1, OneAtAPlace DEF Within, Reading
    <3>3. QED
      BY <2>1, <2>2, <3>1, <3>2 DEF Within
  <2>4. Held
    BY <2>2, <2>3, FramingAssumption DEF Reading, Between
  <2>5. k = Len(done)
    BY <2>2, <2>4, OneAtAPlace DEF Held, Reading
  <2>6. QED
    BY <1>1, <2>1, <2>4, <2>5, CompleteAgain DEF recv_nothing
<1>2. ASSUME recv_eof \/ io_error PROVE Reading'
  <2>1. state' = "CLOSED" /\ UNCHANGED <<ob, out, done, again, pos, ib, peer>>
    BY <1>2 DEF recv_eof, io_error, client_close
  <2>2. FullTypeOK' /\ Layout' /\ InOrder'
    BY <2>1 DEF Reading, FullTypeOK, TypeOK, Layout, InOrder, peer
  <2>3. QED
    BY <2>1, <2>2 DEF Reading
<1>3. ASSUME process_send PROVE Reading'
  <2>1. ob' \in Nat /\ out' \in BOOLEAN /\ UNCHANGED <<pos, ib, state, done, again, peer>>
    BY <1>3 DEF process_send, Reading, FullTypeOK, TypeOK
  <2>2. FullTypeOK' /\ Layout' /\ InOrder'
    BY <2>1 DEF Reading, FullTypeOK, TypeOK, Layout, InOrder, peer
  <2>3. QED
    BY <2>1, <2>2 DEF Reading, Between, Within, Held, End, peer
<1>4. CASE UNCHANGED vars
  BY <1>4 DEF vars, Reading, FullTypeOK, TypeOK, Layout, InOrder, Between, Within, Held, End
<1>5. QED
  BY <1>1, <1>2, <1>3, <1>4, PeerStep, ReceiveStep DEF Next, Process

(* Reading is an invariant.                                                *)
LEMMA ReadingHolds == Spec => []Reading
<1>1. Init => Reading
  <2>1. SUFFICES ASSUME Init PROVE Reading
    OBVIOUS
  <2>2. ob \in Nat
    BY <2>1 DEF Init
  <2>3. out \in BOOLEAN
    BY <2>1 DEF Init
  <2>4. FullTypeOK
    <3>1. /\ side \in {"client", "remote"} /\ stream = <<>> /\ done = <<>> /\ again = {}
          /\ total = 0 /\ arrived = 0 /\ pos = 0 /\ ib = 0 /\ state = "COMMAND" /\ eof = FALSE
      BY <2>1 DEF Init
    <3>2. TypeOK
      BY <2>2, <2>3, <3>1, FramingAssumption DEF TypeOK
    <3>3. stream \in Seq(Packet) /\ done \in Seq(Nat) /\ again \subseteq DOMAIN stream
      BY <3>1
    <3>4. eof \in BOOLEAN
      BY <3>1
    <3>5. QED
      BY <3>1, <3>2, <3>3, <3>4 DEF FullTypeOK
  <2>5. Layout /\ InOrder /\ Between
    BY <2>1 DEF Init, Layout, InOrder, Between
  <2>6. QED
    BY <2>1, <2>4, <2>5 DEF Init, Reading
<1>2. Reading /\ [Next]_vars => Reading'
  BY ReadingStep
<1>3. QED
  BY <1>1, <1>2, PTL DEF Spec

-----------------------------------------------------------------------------
(* ib_buf never holds more than its capacity, nor more than was received,  *)
(* whatever lengths the headers hold.                                      *)
THEOREM FramingTypes == Spec => []TypeOK
<1>1. Reading => TypeOK
  BY DEF Reading, FullTypeOK
<1>2. QED
  BY <1>1, ReadingHolds, PTL

(* However the stream is split into receives, ib_buf starts where a packet *)
(* starts and holds nothing of the next one, and the remote begins to      *)
(* relay with an empty ib_buf.                                             *)
THEOREM ReadingKeepsStep == Spec => []InStep
<1>1. Reading => InStep
  <2>1. SUFFICES ASSUME Reading, state # "CLOSED"
                 PROVE  /\ ib > 0 => \E k \in DOMAIN stream :
                              stream[k].at = pos - ib /\ (ib >= Hdr => pos <= End(k))
                        /\ ib = 0 => pos = 0 \/ \E k \in DOMAIN stream : pos = End(k)
    BY DEF Reading, InStep
  <2>2. ib \in Nat /\ pos \in Nat
    BY <2>1 DEF Reading, FullTypeOK, TypeOK
  <2>3. CASE Between
    BY <2>2, <2>3 DEF Between
  <2>4. CASE Within
    <3>1. stream[Len(done) + 1].len \in Nat /\ stream[Len(done) + 1].at \in Nat
      BY <2>1, <2>4, SizePositive DEF Within, Reading
    <3>2. ib >= Hdr => pos <= End(Len(done) + 1)
      BY <2>2, <2>4, <3>1 DEF Within, End
    <3>3. QED
      BY <2>2, <2>4, <3>2 DEF Within
  <2>5. CASE Held
    <3>1. /\ stream[Len(done)].len \in Nat /\ stream[Len(done)].at \in Nat
          /\ Hdr <= stream[Len(done)].len
      BY <2>1, <2>5, SizePositive DEF Held, Reading
    <3>2. ib > 0 /\ pos <= End(Len(done))
      BY <2>2, <2>5, <3>1, FramingAssumption DEF Held, End
    <3>3. QED
      BY <2>2, <2>5, <3>2 DEF Held
  <2>6. QED
    BY <2>1, <2>3, <2>4, <2>5 DEF Reading
<1>2. QED
  BY <1>1, ReadingHolds, PTL

(* Packets are handled in the order they were sent, none is left out, and  *)
(* only a client's packet is looked at again: a command that failed, or a  *)
(* Listen that reported devices, and the connection is closed then.        *)
THEOREM PacketsInOrder == Spec => []InOrder
<1>1. Reading => InOrder
  BY DEF Reading
<1>2. QED
  BY <1>1, ReadingHolds, PTL
=============================================================================
