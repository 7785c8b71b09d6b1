----------------------------- MODULE RelayProofs -----------------------------
(***************************************************************************)
(* Proofs about Relay, for any buffer capacities, result length and number *)
(* of bytes: the bytes of both directions stay intact, no event that is    *)
(* needed is ever missing from a mask, and the relay implements a pipe.    *)
(***************************************************************************)
EXTENDS Relay, SequenceTheorems, TLAPS

(* The two state fields go together.                                       *)
Coupled ==
    /\ rstate = "CONNECTED" <=> cstate \in {"CONNECTING2", "CONNECTED"}
    /\ rstate = "CLOSED" <=> cstate = "CLOSED"

(* How far the result packet is, and what cannot have happened before it.  *)
Handshake ==
    /\ cstate = "CONNECTING1" => cob = 0 /\ appGot = << >> /\ ib = << >> /\ cdevents = {}
    /\ cstate \in {"CONNECTING2", "COMMAND"} => appGot = Result(ResultLen - cob)
    /\ cstate = "CONNECTING2" => (ib # << >> <=> "OUT" \in cdevents)
    /\ cstate = "CONNECTED" => cob = 0 /\ Len(appGot) >= ResultLen
    /\ cstate \in {"CONNECTING1", "CONNECTING2", "COMMAND"} =>
        appSent = 0 /\ appOut = << >> /\ ob = << >> /\ devGot = << >>

(* Every byte of the program is in one of three places, and in order.      *)
UpIntact == cstate # "CLOSED" => (devGot \o ob) \o appOut = Stream(appSent)

(* Every byte of the device likewise, once there is a connection.          *)
DownIntact ==
    /\ cstate \in {"CONNECTING1", "CONNECTING2"} => ib \o devOut = Stream(devSent)
    /\ cstate = "CONNECTED" =>
        (appGot \o ib) \o devOut = Result(ResultLen) \o Stream(devSent)

(* The inductive invariant.                                                *)
Carried ==
    TypeOK /\ Coupled /\ Handshake /\ UpIntact /\ DownIntact /\ NoLostWakeup

-----------------------------------------------------------------------------
(* Lemmas about sequences of bytes.                                        *)

(* What a partial send or receive takes, and what it leaves.               *)
LEMMA SplitSeq ==
    ASSUME NEW S, NEW s \in Seq(S), NEW k \in 1..Len(s)
    PROVE  /\ Up(s, k) \in Seq(S) /\ Len(Up(s, k)) = k
           /\ Rest(s, k) \in Seq(S) /\ Len(Rest(s, k)) = Len(s) - k
           /\ Up(s, k) \o Rest(s, k) = s
<1>1. Len(s) \in Nat /\ \A i \in 1..Len(s) : s[i] \in S
  OBVIOUS
<1>2. Up(s, k) \in Seq(S) /\ Len(Up(s, k)) = k
  BY <1>1, SubSeqProperties DEF Up
<1>3. Rest(s, k) \in Seq(S) /\ Len(Rest(s, k)) = Len(s) - k
  BY <1>1, SubSeqProperties DEF Rest
<1>4. Up(s, k) \o Rest(s, k) = SubSeq(s, 1, Len(s))
  BY <1>1, ConcatAdjacentSubSeq, 1 \in 1..(Len(s) + 1), k \in (1 - 1)..Len(s),
     Len(s) \in k..Len(s) DEF Up, Rest
<1>5. QED
  BY <1>2, <1>3, <1>4, SubSeqFull

(* The length of two sequences, one after the other.                       *)
LEMMA ConcatLen ==
    ASSUME NEW S, NEW a \in Seq(S), NEW b \in Seq(S)
    PROVE  a \o b \in Seq(S) /\ Len(a \o b) = Len(a) + Len(b)
OBVIOUS

(* The bytes of two sequences, one after the other.                        *)
LEMMA ConcatAt ==
    ASSUME NEW a \in Seq(Nat), NEW b \in Seq(Nat), NEW i \in 1..(Len(a) + Len(b))
    PROVE  (a \o b)[i] = IF i <= Len(a) THEN a[i] ELSE b[i - Len(a)]
OBVIOUS

(* What a receiver has, what a buffer holds and what waits in a socket.    *)
Joined(a, b, c) == (a \o b) \o c

(* Buffer and socket may be joined first.                                  *)
LEMMA JoinedAssociative ==
    ASSUME NEW a \in Seq(Nat), NEW b \in Seq(Nat), NEW c \in Seq(Nat)
    PROVE  Joined(a, b, c) = a \o (b \o c)
BY DEF Joined

(* Joining two sequences, under a name the provers do not look into.       *)
Cat(a, b) == a \o b

(* It does not matter which two are joined first.                          *)
LEMMA CatIs ==
    ASSUME NEW S, NEW a \in Seq(S), NEW b \in Seq(S)
    PROVE  /\ Cat(a, b) \in Seq(S)
           /\ \A c \in Seq(S) : Cat(Cat(a, b), c) = Cat(a, Cat(b, c))
BY ConcatProperties, ConcatAssociative DEF Cat

(* Bytes move from the socket to the end of the buffer.                    *)
LEMMA ReadKeeps ==
    ASSUME NEW S, NEW a \in Seq(S), NEW b \in Seq(S), NEW c \in Seq(S), NEW k \in 1..Len(c)
    PROVE  Joined(a, b \o Up(c, k), Rest(c, k)) = Joined(a, b, c)
<1>1. Up(c, k) \in Seq(S) /\ Rest(c, k) \in Seq(S) /\ Cat(a, b) \in Seq(S)
  BY SplitSeq, CatIs
<1>2. Cat(a, Cat(b, Up(c, k))) = Cat(Cat(a, b), Up(c, k))
  BY <1>1, CatIs
<1>3. Cat(Cat(Cat(a, b), Up(c, k)), Rest(c, k)) = Cat(Cat(a, b), Cat(Up(c, k), Rest(c, k)))
  BY <1>1, CatIs
<1>4. Cat(Up(c, k), Rest(c, k)) = c
  BY SplitSeq DEF Cat
<1>5. Cat(Cat(a, Cat(b, Up(c, k))), Rest(c, k)) = Cat(Cat(a, b), c)
  BY <1>2, <1>3, <1>4
<1>6. QED
  BY <1>5 DEF Joined, Cat

(* Bytes move from the front of the buffer to the receiver.                *)
LEMMA WriteKeeps ==
    ASSUME NEW S, NEW a \in Seq(S), NEW b \in Seq(S), NEW c \in Seq(S), NEW k \in 1..Len(b)
    PROVE  Joined(a \o Up(b, k), Rest(b, k), c) = Joined(a, b, c)
<1>1. Up(b, k) \in Seq(S) /\ Rest(b, k) \in Seq(S)
  BY SplitSeq
<1>2. Cat(Cat(a, Up(b, k)), Rest(b, k)) = Cat(a, Cat(Up(b, k), Rest(b, k)))
  BY <1>1, CatIs
<1>3. Cat(Up(b, k), Rest(b, k)) = b
  BY SplitSeq DEF Cat
<1>4. Cat(Cat(Cat(a, Up(b, k)), Rest(b, k)), c) = Cat(Cat(a, b), c)
  BY <1>2, <1>3
<1>5. QED
  BY <1>4 DEF Joined, Cat

(* A byte is sent into the socket.                                         *)
LEMMA SendKeeps ==
    ASSUME NEW S, NEW a \in Seq(S), NEW c \in Seq(S), NEW x \in S
    PROVE  a \o Append(c, x) = Append(a \o c, x)
<1>1. Append(c, x) = c \o <<x>> /\ <<x>> \in Seq(S)
  BY AppendIsConcat
<1>2. a \o c \in Seq(S)
  BY ConcatProperties
<1>3. Append(a \o c, x) = (a \o c) \o <<x>>
  BY <1>2, AppendIsConcat
<1>4. QED
  BY <1>1, <1>3, ConcatAssociative

(* A sent stream is 1, 2, ..., and the next byte goes to its end.          *)
LEMMA StreamGrows ==
    ASSUME NEW n \in Nat
    PROVE  /\ Stream(n) \in Seq(Nat) /\ Len(Stream(n)) = n
           /\ \A i \in 1..n : Stream(n)[i] = i
           /\ Append(Stream(n), n + 1) = Stream(n + 1)
<1>1. Stream(n) \in Seq(Nat) /\ Len(Stream(n)) = n
  BY DEF Stream
<1>2. Append(Stream(n), n + 1) = Stream(n + 1)
  <2>1. Stream(n + 1) \in Seq(Nat) /\ Len(Stream(n + 1)) = n + 1
    BY DEF Stream
  <2>2. Append(Stream(n), n + 1) \in Seq(Nat) /\ Len(Append(Stream(n), n + 1)) = n + 1
    BY <1>1
  <2>3. ASSUME NEW i \in 1..(n + 1) PROVE Append(Stream(n), n + 1)[i] = Stream(n + 1)[i]
    BY <1>1 DEF Stream
  <2>4. QED
    BY <2>1, <2>2, <2>3
<1>3. QED
  BY <1>1, <1>2 DEF Stream

(* The bytes of the result packet are zeros.                               *)
LEMMA ResultType ==
    ASSUME NEW n \in Nat
    PROVE  /\ Result(n) \in Seq(Nat) /\ Len(Result(n)) = n
           /\ \A i \in 1..n : Result(n)[i] = 0
           /\ \A m \in Nat : Result(n) \in Seq(0..m)
BY DEF Result

(* A part of the result packet goes out behind an earlier part.            *)
LEMMA ResultGrows ==
    ASSUME NEW n \in Nat, NEW k \in Nat
    PROVE  Result(n) \o [i \in 1..k |-> 0] = Result(n + k)
<1>1. /\ Result(n) \in Seq(Nat) /\ Len(Result(n)) = n
      /\ Result(k) \in Seq(Nat) /\ Len(Result(k)) = k
      /\ Result(n + k) \in Seq(Nat) /\ Len(Result(n + k)) = n + k
  BY ResultType
<1>2. /\ Result(n) \o Result(k) \in Seq(Nat) /\ Len(Result(n) \o Result(k)) = n + k
      /\ \A i \in 1..(n + k) : (Result(n) \o Result(k))[i] = Result(n + k)[i]
  <2>1. \A i \in 1..n : Result(n)[i] = 0
    BY ResultType
  <2>2. \A i \in 1..k : Result(k)[i] = 0
    BY ResultType
  <2>3. \A i \in 1..(n + k) : Result(n + k)[i] = 0
    BY ResultType
  <2>4. Result(n) \o Result(k) \in Seq(Nat) /\ Len(Result(n) \o Result(k)) = n + k
    BY <1>1
  <2>5. ASSUME NEW i \in 1..(n + k) PROVE (Result(n) \o Result(k))[i] = 0
    <3> DEFINE a == Result(n)
               b == Result(k)
    <3>0. a \in Seq(Nat) /\ b \in Seq(Nat) /\ Len(a) = n /\ Len(b) = k
      BY <1>1
    <3>1. (Result(n) \o Result(k))[i] = IF i <= n THEN Result(n)[i] ELSE Result(k)[i - n]
      <4> HIDE DEF a, b
      <4>1. (a \o b)[i] = IF i <= n THEN a[i] ELSE b[i - n]
        BY <3>0, ConcatAt
      <4>2. QED
        BY <4>1 DEF a, b
    <3>2. i > n => i - n \in 1..k
      OBVIOUS
    <3>3. QED
      BY <2>1, <2>2, <3>1, <3>2
  <2>6. QED
    BY <2>3, <2>4, <2>5
<1>3. \A s, t \in Seq(Nat) : Len(s) = Len(t) /\ (\A i \in 1..Len(s) : s[i] = t[i]) => s = t
  OBVIOUS
<1>4. Result(n) \o Result(k) = Result(n + k)
  BY <1>1, <1>2, <1>3
<1>5. QED
  BY <1>4 DEF Result

-----------------------------------------------------------------------------
(* The steps.                                                              *)

(* Every buffer is a sequence of numbers.                                  *)
LEMMA BytesAreNat ==
    ASSUME TypeOK
    PROVE  /\ ib \in Seq(Nat) /\ ob \in Seq(Nat)
           /\ appOut \in Seq(Nat) /\ appGot \in Seq(Nat) /\ appSent \in Nat
           /\ devOut \in Seq(Nat) /\ devGot \in Seq(Nat) /\ devSent \in Nat
<1>1. \A n \in Nat : \A s \in Seq(1..n) : s \in Seq(Nat)
  OBVIOUS
<1>2. \A n \in Nat : \A s \in Seq(0..n) : s \in Seq(Nat)
  OBVIOUS
<1>3. QED
  BY <1>1, <1>2, RelayAssumption DEF TypeOK

(* Closing both connections keeps Carried.                                 *)
LEMMA CloseKeeps == ASSUME Carried, close PROVE Carried'
<1>1. TypeOK'
  BY RelayAssumption DEF Carried, TypeOK, close, appVars, devVars
<1>2. QED
  BY <1>1 DEF Carried, close, Coupled, Handshake, UpIntact, DownIntact, NoLostWakeup

(* What program and device do keeps Carried.                               *)
LEMMA EndsKeep == ASSUME Carried, Ends PROVE Carried'
<1>1. CASE app_send
  <2> USE <1>1 DEF app_send, Accepted, clientVars, remoteVars, devVars
  <2>1. TypeOK'
    <3>1. appSent + 1 \in 1..MaxUp
      BY RelayAssumption DEF Carried, TypeOK
    <3>2. appOut' \in Seq(1..MaxUp) /\ appSent' \in 0..MaxUp
      BY <3>1 DEF Carried, TypeOK
    <3>3. QED
      BY <3>2 DEF Carried, TypeOK
  <2>2. UpIntact'
    <3>1. devGot \o ob \in Seq(Nat) /\ appOut \in Seq(Nat) /\ appSent \in Nat
      BY BytesAreNat DEF Carried
    <3>2. (devGot \o ob) \o Append(appOut, appSent + 1)
            = Append((devGot \o ob) \o appOut, appSent + 1)
      BY <3>1, SendKeeps
    <3>3. (devGot \o ob) \o appOut = Stream(appSent)
      BY DEF Carried, UpIntact
    <3>4. QED
      BY <3>1, <3>2, <3>3, StreamGrows DEF UpIntact
  <2>3. Coupled' /\ Handshake' /\ DownIntact' /\ NoLostWakeup'
    BY DEF Carried, Coupled, Handshake, DownIntact, NoLostWakeup
  <2>4. QED
    BY <2>1, <2>2, <2>3 DEF Carried
<1>2. CASE dev_send
  <2> USE <1>2 DEF dev_send, clientVars, remoteVars, appVars
  <2>1. TypeOK'
    <3>1. devSent + 1 \in 1..MaxDown
      BY RelayAssumption DEF Carried, TypeOK
    <3>2. devOut' \in Seq(1..MaxDown) /\ devSent' \in 0..MaxDown
      BY <3>1 DEF Carried, TypeOK
    <3>3. QED
      BY <3>2 DEF Carried, TypeOK
  <2>2. DownIntact'
    <3> DEFINE x == devSent + 1
    <3>1. /\ appGot \o ib \in Seq(Nat) /\ ib \in Seq(Nat) /\ devOut \in Seq(Nat)
          /\ devSent \in Nat /\ x \in Nat
      BY BytesAreNat DEF Carried
    <3>2. Result(ResultLen) \in Seq(Nat)
      BY ResultType, RelayAssumption
    <3>3. Stream(devSent) \in Seq(Nat) /\ Append(Stream(devSent), x) = Stream(x)
      BY <3>1, StreamGrows
    <3>4. ib \o Append(devOut, x) = Append(ib \o devOut, x)
      BY <3>1, SendKeeps
    <3>5. (appGot \o ib) \o Append(devOut, x) = Append((appGot \o ib) \o devOut, x)
      <4> DEFINE a == appGot \o ib
      <4>1. a \in Seq(Nat)
        BY <3>1
      <4> HIDE DEF a, x
      <4>2. a \o Append(devOut, x) = Append(a \o devOut, x)
        BY <3>1, <4>1, SendKeeps, SMTT(30)
      <4>3. QED
        BY <4>2 DEF a
    <3>6. Result(ResultLen) \o Append(Stream(devSent), x)
            = Append(Result(ResultLen) \o Stream(devSent), x)
      <4> DEFINE a == Result(ResultLen)
                 c == Stream(devSent)
      <4>1. a \in Seq(Nat) /\ c \in Seq(Nat)
        BY <3>2, <3>3
      <4> HIDE DEF a, c, x
      <4>2. a \o Append(c, x) = Append(a \o c, x)
        BY <3>1, <4>1, SendKeeps, SMTT(30)
      <4>3. QED
        BY <4>2 DEF a, c
    <3>7. QED
      BY <3>3, <3>4, <3>5, <3>6 DEF Carried, DownIntact
  <2>3. Coupled' /\ Handshake' /\ UpIntact' /\ NoLostWakeup'
    BY DEF Carried, Coupled, Handshake, UpIntact, NoLostWakeup
  <2>4. QED
    BY <2>1, <2>2, <2>3 DEF Carried
<1>3. CASE app_close \/ dev_close
  BY <1>3 DEF app_close, dev_close, clientVars, remoteVars, appVars, devVars,
     Carried, TypeOK, Coupled, Handshake, UpIntact, DownIntact, NoLostWakeup
<1>4. QED
  BY <1>1, <1>2, <1>3 DEF Ends

(* The connect result, on its way into the client's buffer and out of it,  *)
(* keeps Carried.                                                          *)
LEMMA ResultKeeps ==
    ASSUME Carried, (\E ok \in BOOLEAN : remote_connect_result(ok)) \/ process_send
    PROVE  Carried'
<1>1. ASSUME NEW ok \in BOOLEAN, remote_connect_result(ok) PROVE Carried'
  <2>1. /\ cstate = "CONNECTING1" /\ rstate = "CONNECTING1" /\ cob' = ResultLen
        /\ \/ /\ cstate' = "CONNECTING2" /\ cevents' = {"OUT"}
              /\ rstate' = "CONNECTED" /\ revents' = {"IN", "OUT"}
           \/ /\ cstate' = "COMMAND" /\ cevents' = cevents \cup {"OUT"}
              /\ UNCHANGED <<rstate, revents>>
        /\ UNCHANGED <<cdevents, ib, ob, appOut, appSent, appGot, appOpen>>
        /\ UNCHANGED <<devOut, devSent, devGot, devOpen>>
    BY <1>1 DEF remote_connect_result, remoteVars, appVars, devVars
  <2>2. TypeOK'
    <3>1. cstate' \in {"CONNECTING2", "COMMAND"} /\ rstate' \in {"CONNECTING1", "CONNECTED"}
      BY <2>1
    <3>2. cevents' \subseteq {"IN", "OUT"} /\ revents' \subseteq {"IN", "OUT"}
      BY <2>1 DEF Carried, TypeOK
    <3>3. cob' \in 0..ResultLen
      BY <2>1, RelayAssumption
    <3>4. QED
      BY <2>1, <3>1, <3>2, <3>3 DEF Carried, TypeOK
  <2>3. appGot = Result(ResultLen - cob')
    <3>1. ResultLen - cob' = 0 /\ appGot = << >>
      BY <2>1, RelayAssumption DEF Carried, Handshake
    <3>2. QED
      BY <3>1 DEF Result
  <2>4. Coupled' /\ UpIntact' /\ DownIntact'
    BY <2>1 DEF Carried, Coupled, UpIntact, DownIntact
  <2>5. Handshake' /\ NoLostWakeup'
    BY <2>1, <2>3 DEF Carried, Coupled, Handshake, NoLostWakeup
  <2>6. QED
    BY <2>2, <2>4, <2>5 DEF Carried
<1>2. CASE process_send
  <2>0. /\ cstate \in {"CONNECTING2", "COMMAND"}
        /\ UNCHANGED <<cdevents, rstate, revents, ib, ob, appOut, appSent, appOpen>>
        /\ UNCHANGED <<devOut, devSent, devGot, devOpen>>
    BY <1>2 DEF process_send, remoteVars, devVars
  <2>1. PICK k \in 1..cob :
          /\ appGot' = appGot \o [i \in 1..k |-> 0]
          /\ cob' = cob - k
          /\ IF k < cob THEN UNCHANGED <<cstate, cevents>>
             ELSE IF cstate = "CONNECTING2"
             THEN cstate' = "CONNECTED" /\ cevents' = cdevents \cup {"IN"}
             ELSE UNCHANGED cstate /\ cevents' = cevents \ {"OUT"}
    BY <1>2 DEF process_send
  <2>2. cob \in Nat /\ ResultLen \in Nat /\ cob <= ResultLen /\ k \in Nat /\ k <= cob
    BY <2>0, <2>1, RelayAssumption DEF Carried, TypeOK
  <2>3. appGot' = Result(ResultLen - cob') /\ Len(appGot') = ResultLen - cob'
    <3>1. /\ ResultLen - cob \in Nat /\ ResultLen - cob' \in Nat
          /\ (ResultLen - cob) + k = ResultLen - cob'
      BY <2>0, <2>1, <2>2
    <3>2. appGot = Result(ResultLen - cob)
      BY <2>0 DEF Carried, Handshake
    <3>3. appGot' = Result(ResultLen - cob')
      BY <2>0, <2>1, <2>2, <3>1, <3>2, ResultGrows
    <3>4. QED
      BY <2>2, <3>1, <3>3, ResultType
  <2>4. TypeOK'
    <3>1. Result(ResultLen - cob') \in Seq(0..MaxDown)
      <4>1. ResultLen - cob' \in Nat /\ MaxDown \in Nat
        BY <2>1, <2>2, RelayAssumption
      <4>2. QED
        BY <4>1, ResultType
    <3>2. cob' \in 0..ResultLen
      BY <2>1, <2>2
    <3>5. cevents' \subseteq {"IN", "OUT"}
      BY <2>1 DEF Carried, TypeOK
    <3>3. cstate' \in {"CONNECTING2", "CONNECTED", "COMMAND"}
      BY <2>0, <2>1
    <3>4. QED
      BY <2>0, <2>3, <3>1, <3>2, <3>3, <3>5 DEF Carried, TypeOK
  <2>5. cstate' = "CONNECTED" => k = cob /\ cob' = 0 /\ cstate = "CONNECTING2"
    BY <2>0, <2>1, <2>2
  <2>6. cstate' # "CONNECTED" => cstate' = cstate
    BY <2>0, <2>1
  <2>7. Coupled'
    BY <2>0, <2>5, <2>6 DEF Carried, Coupled
  <2>8. Handshake'
    BY <2>0, <2>2, <2>3, <2>5, <2>6 DEF Carried, Handshake
  <2>9. UpIntact'
    BY <2>0, <2>5, <2>6 DEF Carried, UpIntact
  <2>10. DownIntact'
    <3>1. CASE cstate' = "CONNECTED"
      <4>1. appGot' = Result(ResultLen) /\ ib \o devOut = Stream(devSent)
        BY <2>0, <2>2, <2>3, <2>5, <3>1 DEF Carried, DownIntact
      <4>2. Result(ResultLen) \in Seq(Nat) /\ ib \in Seq(Nat) /\ devOut \in Seq(Nat)
        BY <2>0, <2>2, BytesAreNat, ResultType DEF Carried
      <4>3. (Result(ResultLen) \o ib) \o devOut = Result(ResultLen) \o (ib \o devOut)
        BY <2>0, <4>2
      <4>4. QED
        BY <2>0, <3>1, <4>1, <4>3 DEF DownIntact
    <3>2. CASE cstate' # "CONNECTED"
      BY <2>0, <2>6, <3>2 DEF Carried, DownIntact
    <3>3. QED
      BY <2>0, <3>1, <3>2
  <2>11. NoLostWakeup'
    <3>1. CASE cstate' = "CONNECTED"
      <4>1. cevents' = cdevents \cup {"IN"}
        BY <2>0, <2>1, <2>2, <2>5, <3>1
      <4>2. QED
        BY <2>0, <2>5, <3>1, <4>1 DEF Carried, Handshake, NoLostWakeup
    <3>2. CASE cstate' # "CONNECTED"
      BY <2>0, <2>6, <3>2 DEF Carried, NoLostWakeup
    <3>3. QED
      BY <2>0, <3>1, <3>2
  <2>12. QED
    BY <2>0, <2>4, <2>7, <2>8, <2>9, <2>10, <2>11 DEF Carried
<1>3. QED
  BY <1>1, <1>2

(* The client's bytes go to the end of ob_buf.                             *)
LEMMA ClientReadKeeps == ASSUME Carried, client_read PROVE Carried'
<1>1. PICK k \in 1..Len(appOut) :
        k <= ObCap - Len(ob) /\ ob' = ob \o Up(appOut, k) /\ appOut' = Rest(appOut, k)
  BY DEF client_read
<1>2. /\ cstate = "CONNECTED" /\ revents' = revents \cup {"OUT"} /\ cevents' = cevents \ {"IN"}
      /\ UNCHANGED <<cstate, cdevents, cob, rstate, ib, appSent, appGot, appOpen>>
      /\ UNCHANGED <<devOut, devSent, devGot, devOpen>>
  BY DEF client_read, devVars
<1>3. TypeOK'
  <2>1. ob \in Seq(1..MaxUp) /\ appOut \in Seq(1..MaxUp) /\ Len(ob) \in Nat
    BY DEF Carried, TypeOK
  <2>2. /\ Up(appOut, k) \in Seq(1..MaxUp) /\ Len(Up(appOut, k)) = k
        /\ Rest(appOut, k) \in Seq(1..MaxUp)
    BY <2>1, SplitSeq
  <2>3. ob' \in Seq(1..MaxUp) /\ Len(ob') = Len(ob) + k
    BY <1>1, <2>1, <2>2, ConcatLen
  <2>4. Len(ob') <= ObCap
    BY <1>1, <2>1, <2>3, RelayAssumption
  <2>5. QED
    BY <1>1, <1>2, <2>2, <2>3, <2>4 DEF Carried, TypeOK
<1>4. UpIntact'
  <2>1. devGot \in Seq(Nat) /\ ob \in Seq(Nat) /\ appOut \in Seq(Nat)
    BY BytesAreNat DEF Carried
  <2>2. Joined(devGot, ob \o Up(appOut, k), Rest(appOut, k)) = Joined(devGot, ob, appOut)
    BY <1>1, <2>1, ReadKeeps
  <2>3. QED
    BY <1>1, <1>2, <2>2 DEF Carried, UpIntact, Joined
<1>5. Coupled' /\ Handshake' /\ DownIntact'
  BY <1>2 DEF Carried, Coupled, Handshake, DownIntact
<1>6. NoLostWakeup'
  BY <1>2 DEF Carried, NoLostWakeup
<1>7. QED
  BY <1>3, <1>4, <1>5, <1>6 DEF Carried

(* The first bytes of ib_buf go to the client.                             *)
LEMMA ClientWriteKeeps == ASSUME Carried, client_write PROVE Carried'
<1>1. PICK k \in 1..Len(ib) :
        /\ appGot' = appGot \o Up(ib, k)
        /\ ib' = Rest(ib, k)
        /\ cevents' = IF k = Len(ib) THEN (cevents \ {"OUT"}) \cup {"IN"} ELSE cevents
  BY DEF client_write
<1>2. /\ cstate = "CONNECTED" /\ "OUT" \in cevents
      /\ UNCHANGED <<cstate, cdevents, cob, rstate, revents, ob, appOut, appSent, appOpen>>
      /\ UNCHANGED <<devOut, devSent, devGot, devOpen>>
  BY DEF client_write, ClientPollOut, remoteVars, devVars
<1>3. /\ appGot \in Seq(Nat) /\ ib \in Seq(Nat) /\ devOut \in Seq(Nat)
      /\ Up(ib, k) \in Seq(Nat) /\ Len(Up(ib, k)) = k
      /\ Rest(ib, k) \in Seq(Nat) /\ Len(Rest(ib, k)) = Len(ib) - k
  BY BytesAreNat, SplitSeq DEF Carried
<1>4. TypeOK'
  <2>1. ib \in Seq(1..MaxDown) /\ appGot \in Seq(0..MaxDown) /\ Len(ib) \in Nat /\ Len(ib) <= IbCap
    BY DEF Carried, TypeOK
  <2>2. Up(ib, k) \in Seq(1..MaxDown) /\ Rest(ib, k) \in Seq(1..MaxDown)
    BY <2>1, SplitSeq
  <2>3. Up(ib, k) \in Seq(0..MaxDown)
    BY <2>2, RelayAssumption
  <2>4. appGot' \in Seq(0..MaxDown)
    BY <1>1, <2>1, <2>3
  <2>5. ib' \in Seq(1..MaxDown) /\ Len(ib') <= IbCap
    BY <1>1, <1>3, <2>1, <2>2, RelayAssumption
  <2>6. cevents' \subseteq {"IN", "OUT"}
    BY <1>1 DEF Carried, TypeOK
  <2>7. QED
    BY <1>2, <2>4, <2>5, <2>6 DEF Carried, TypeOK
<1>5. DownIntact'
  <2>1. Joined(appGot \o Up(ib, k), Rest(ib, k), devOut) = Joined(appGot, ib, devOut)
    BY <1>1, <1>3, WriteKeeps
  <2>2. QED
    BY <1>1, <1>2, <2>1 DEF Carried, DownIntact, Joined
<1>6. Handshake'
  <2>1. Len(appGot') = Len(appGot) + k
    BY <1>1, <1>3, ConcatLen
  <2>2. Len(appGot') >= ResultLen
    BY <1>2, <1>3, <2>1, RelayAssumption DEF Carried, Handshake
  <2>3. QED
    BY <1>2, <2>2 DEF Carried, Handshake
<1>7. Coupled' /\ UpIntact'
  BY <1>2 DEF Carried, Coupled, UpIntact
<1>8. NoLostWakeup'
  <2>1. k = Len(ib) <=> ib' = << >>
    BY <1>1, <1>3
  <2>2. QED
    BY <1>1, <1>2, <2>1 DEF Carried, NoLostWakeup
<1>9. QED
  BY <1>4, <1>5, <1>6, <1>7, <1>8 DEF Carried

(* The remote's bytes go to the end of ib_buf.                             *)
LEMMA RemoteReadKeeps == ASSUME Carried, remote_read PROVE Carried'
<1>1. PICK k \in 1..Len(devOut) :
        k <= IbCap - Len(ib) /\ ib' = ib \o Up(devOut, k) /\ devOut' = Rest(devOut, k)
  BY DEF remote_read
<1>2. /\ rstate = "CONNECTED" /\ cstate \in {"CONNECTING2", "CONNECTED"}
      /\ cdevents' = cdevents \cup {"OUT"}
      /\ cevents' = IF cstate = "CONNECTED" THEN cevents \cup {"OUT"} ELSE cevents
      /\ UNCHANGED <<cstate, cob, rstate, revents, ob, appOut, appSent, appGot, appOpen>>
      /\ UNCHANGED <<devSent, devGot, devOpen>>
  BY DEF remote_read, client_or_events, remoteVars, appVars, Carried, Coupled
<1>3. /\ appGot \in Seq(Nat) /\ ib \in Seq(Nat) /\ devOut \in Seq(Nat)
      /\ Up(devOut, k) \in Seq(Nat) /\ Len(Up(devOut, k)) = k /\ Rest(devOut, k) \in Seq(Nat)
  BY BytesAreNat, SplitSeq DEF Carried
<1>4. Len(ib') = Len(ib) + k /\ ib' # << >>
  <2>1. Len(ib') = Len(ib) + k
    BY <1>1, <1>3, ConcatLen
  <2>2. QED
    BY <1>1, <1>3, <2>1
<1>5. TypeOK'
  <2>1. ib \in Seq(1..MaxDown) /\ devOut \in Seq(1..MaxDown) /\ Len(ib) \in Nat
    BY DEF Carried, TypeOK
  <2>2. Up(devOut, k) \in Seq(1..MaxDown) /\ Rest(devOut, k) \in Seq(1..MaxDown)
    BY <2>1, SplitSeq
  <2>3. ib' \in Seq(1..MaxDown)
    BY <1>1, <2>1, <2>2
  <2>4. Len(ib') <= IbCap
    BY <1>1, <1>4, <2>1, RelayAssumption
  <2>5. cevents' \subseteq {"IN", "OUT"} /\ cdevents' \subseteq {"IN", "OUT"}
    BY <1>2 DEF Carried, TypeOK
  <2>6. QED
    BY <1>1, <1>2, <2>2, <2>3, <2>4, <2>5 DEF Carried, TypeOK
<1>6. DownIntact'
  <2>1. Joined(appGot, ib \o Up(devOut, k), Rest(devOut, k)) = Joined(appGot, ib, devOut)
    BY <1>1, <1>3, ReadKeeps
  <2>2. (ib \o Up(devOut, k)) \o Rest(devOut, k) = ib \o (Up(devOut, k) \o Rest(devOut, k))
    <3>1. ib \in Seq(Nat) /\ Up(devOut, k) \in Seq(Nat) /\ Rest(devOut, k) \in Seq(Nat)
      BY <1>3
    <3>2. QED
      BY <3>1
  <2>3. Up(devOut, k) \o Rest(devOut, k) = devOut
    BY <1>3, SplitSeq
  <2>4. QED
    BY <1>1, <1>2, <2>1, <2>2, <2>3 DEF Carried, DownIntact, Joined
<1>7. Coupled' /\ UpIntact'
  <2>1. Coupled'
    BY <1>2 DEF Carried, Coupled
  <2>2. UpIntact'
    <3>1. cstate = "CONNECTING2" \/ cstate = "CONNECTED"
      BY <1>2
    <3>2. QED
      BY <1>2, <3>1 DEF Carried, UpIntact
  <2>3. QED
    BY <2>1, <2>2
<1>8. Handshake' /\ NoLostWakeup'
  BY <1>2, <1>4 DEF Carried, Handshake, NoLostWakeup
<1>9. QED
  BY <1>5, <1>6, <1>7, <1>8 DEF Carried

(* The first bytes of ob_buf go to the remote.                             *)
LEMMA RemoteWriteKeeps == ASSUME Carried, remote_write PROVE Carried'
<1>1. /\ rstate = "CONNECTED" /\ cstate \in {"CONNECTING2", "CONNECTED"}
      /\ cdevents' = cdevents \cup {"IN"}
      /\ cevents' = IF cstate = "CONNECTED" THEN cevents \cup {"IN"} ELSE cevents
      /\ UNCHANGED <<cstate, cob, rstate, ib, appOut, appSent, appGot, appOpen>>
      /\ UNCHANGED <<devOut, devSent, devOpen>>
  BY DEF remote_write, client_or_events, appVars, Carried, Coupled
<1>2. /\ ob \in Seq(1..MaxUp) /\ devGot \in Seq(1..MaxUp) /\ Len(ob) \in Nat /\ Len(ob) <= ObCap
      /\ ob \in Seq(Nat) /\ devGot \in Seq(Nat) /\ appOut \in Seq(Nat)
  BY BytesAreNat DEF Carried, TypeOK
<1>3. /\ ob' \in Seq(1..MaxUp) /\ Len(ob') <= ObCap /\ devGot' \in Seq(1..MaxUp)
      /\ Joined(devGot', ob', appOut) = Joined(devGot, ob, appOut)
      /\ revents' = IF ob' = << >> THEN revents \ {"OUT"} ELSE revents
      /\ ob = << >> => ob' = << >> /\ devGot' = devGot
  <2>1. CASE ob = << >>
    BY <1>2, <2>1 DEF remote_write
  <2>2. CASE ob # << >>
    <3>1. PICK k \in 1..Len(ob) :
            /\ devGot' = devGot \o Up(ob, k)
            /\ ob' = Rest(ob, k)
            /\ revents' = IF k = Len(ob) THEN revents \ {"OUT"} ELSE revents
      BY <2>2 DEF remote_write
    <3>2. /\ Up(ob, k) \in Seq(1..MaxUp) /\ Rest(ob, k) \in Seq(1..MaxUp)
          /\ Len(Rest(ob, k)) = Len(ob) - k
      BY <1>2, SplitSeq
    <3>3. ob' \in Seq(1..MaxUp) /\ Len(ob') <= ObCap /\ (k = Len(ob) <=> ob' = << >>)
      BY <1>2, <3>1, <3>2, RelayAssumption
    <3>4. devGot' \in Seq(1..MaxUp)
      BY <1>2, <3>1, <3>2
    <3>5. Joined(devGot', ob', appOut) = Joined(devGot, ob, appOut)
      BY <1>2, <3>1, WriteKeeps
    <3>6. QED
      BY <2>2, <3>1, <3>3, <3>4, <3>5
  <2>3. QED
    BY <2>1, <2>2
<1>4. TypeOK'
  <2>1. /\ cevents' \subseteq {"IN", "OUT"} /\ cdevents' \subseteq {"IN", "OUT"}
        /\ revents' \subseteq {"IN", "OUT"}
    BY <1>1, <1>3 DEF Carried, TypeOK
  <2>2. QED
    BY <1>1, <1>3, <2>1 DEF Carried, TypeOK
<1>5. UpIntact'
  BY <1>1, <1>3 DEF Carried, UpIntact, Joined
<1>6. Coupled' /\ DownIntact'
  BY <1>1 DEF Carried, Coupled, DownIntact
<1>7. Handshake' /\ NoLostWakeup'
  BY <1>1, <1>3 DEF Carried, Handshake, NoLostWakeup
<1>8. QED
  BY <1>4, <1>5, <1>6, <1>7 DEF Carried

(* Every step keeps the invariant.                                         *)
LEMMA CarriedStep == ASSUME Carried, [Next]_vars PROVE Carried'
<1>1. CASE client_gone \/ client_eof \/ client_write_fails
  BY <1>1, CloseKeeps DEF client_gone, client_eof, client_write_fails
<1>2. CASE remote_hangup \/ remote_read_fails \/ remote_dead
  BY <1>2, CloseKeeps DEF remote_hangup, remote_read_fails, remote_dead
<1>3. CASE remote_eof
  <2>1. /\ rstate = "CONNECTED" /\ revents' = revents \ {"IN"}
        /\ UNCHANGED <<cstate, cevents, cdevents, cob, rstate, ib, ob>>
        /\ UNCHANGED <<appOut, appSent, appGot, appOpen, devOut, devSent, devGot, devOpen>>
    BY <1>3 DEF remote_eof, clientVars, appVars, devVars
  <2>2. TypeOK'
    BY <2>1 DEF Carried, TypeOK
  <2>3. QED
    BY <2>1, <2>2
       DEF Carried, Coupled, Handshake, UpIntact, DownIntact, NoLostWakeup
<1>4. CASE UNCHANGED vars
  BY <1>4 DEF vars, clientVars, remoteVars, appVars, devVars, Carried, TypeOK, Coupled,
     Handshake, UpIntact, DownIntact, NoLostWakeup
<1>5. QED
  BY <1>1, <1>2, <1>3, <1>4, EndsKeep, ResultKeeps, ClientReadKeeps, ClientWriteKeeps,
     RemoteReadKeeps, RemoteWriteKeeps DEF Next, ClientHandler, RemoteHandler

(* Carried is an invariant.                                                *)
LEMMA CarriedHolds == Spec => []Carried
<1>1. Init => Carried
  <2>1. SUFFICES ASSUME Init PROVE Carried
    OBVIOUS
  <2>2. TypeOK
    BY <2>1, RelayAssumption DEF Init, TypeOK
  <2>3. Stream(0) = << >>
    BY DEF Stream
  <2>4. UpIntact /\ DownIntact
    BY <2>1, <2>3 DEF Init, UpIntact, DownIntact
  <2>5. Coupled /\ Handshake /\ NoLostWakeup
    BY <2>1 DEF Init, Coupled, Handshake, NoLostWakeup
  <2>6. QED
    BY <2>2, <2>4, <2>5 DEF Carried
<1>2. Carried /\ [Next]_vars => Carried'
  BY CarriedStep
<1>3. QED
  BY <1>1, <1>2, PTL DEF Spec

-----------------------------------------------------------------------------
(* Buffers never exceed their capacity, whatever is sent and however it is *)
(* split, and masks hold poll events only.                                 *)
THEOREM RelayTypes == Spec => []TypeOK
<1>1. Carried => TypeOK
  BY DEF Carried
<1>2. QED
  BY <1>1, CarriedHolds, PTL

(* While the connection is up, no byte is lost, repeated or reordered in   *)
(* either direction, and the result packet goes first.                     *)
THEOREM BytesStayIntact == Spec => []StreamsIntact
<1>1. Carried => StreamsIntact
  <2>1. SUFFICES ASSUME Carried, cstate # "CLOSED"
                 PROVE  /\ (devGot \o ob) \o appOut = Stream(appSent)
                        /\ cstate # "COMMAND" =>
                            LET result == IF cstate = "CONNECTING1" THEN 0 ELSE ResultLen - cob
                            IN  (appGot \o ib) \o devOut = Result(result) \o Stream(devSent)
    BY DEF StreamsIntact
  <2>2. (devGot \o ob) \o appOut = Stream(appSent)
    BY <2>1 DEF Carried, UpIntact
  <2>3. /\ ib \in Seq(Nat) /\ devOut \in Seq(Nat) /\ devSent \in Nat
        /\ ResultLen - cob \in Nat /\ ResultLen \in Nat
    BY <2>1, BytesAreNat, RelayAssumption DEF Carried, TypeOK
  <2>4. CASE cstate \in {"CONNECTING1", "CONNECTING2"}
    <3> DEFINE result == IF cstate = "CONNECTING1" THEN 0 ELSE ResultLen - cob
    <3>1. result \in Nat /\ Result(result) \in Seq(Nat)
      BY <2>3, ResultType
    <3>2. appGot = Result(result)
      <4>1. Result(0) = << >>
        BY DEF Result
      <4>2. QED
        BY <2>1, <2>4, <4>1 DEF Carried, Handshake
    <3>3. ib \o devOut = Stream(devSent)
      BY <2>1, <2>4 DEF Carried, DownIntact
    <3>4. (Result(result) \o ib) \o devOut = Result(result) \o (ib \o devOut)
      <4>1. Result(result) \in Seq(Nat) /\ ib \in Seq(Nat) /\ devOut \in Seq(Nat)
        BY <2>3, <3>1
      <4>2. QED
        BY <4>1, JoinedAssociative, SMTT(30) DEF Joined
    <3>5. QED
      BY <2>2, <3>2, <3>3, <3>4
  <2>5. CASE cstate = "CONNECTED"
    <3>1. cob = 0 /\ ResultLen - cob = ResultLen
      BY <2>1, <2>3, <2>5 DEF Carried, Handshake
    <3>2. QED
      BY <2>1, <2>2, <2>5, <3>1 DEF Carried, DownIntact
  <2>6. QED
    BY <2>1, <2>2, <2>4, <2>5 DEF Carried, TypeOK
<1>2. QED
  BY <1>1, CarriedHolds, PTL

(* Whenever there is something to move, the event that moves it is asked   *)
(* for, and the client is not polled for POLLOUT with nothing to send.     *)
THEOREM NoWakeupIsLost == Spec => []NoLostWakeup
<1>1. Carried => NoLostWakeup
  BY DEF Carried
<1>2. QED
  BY <1>1, CarriedHolds, PTL

-----------------------------------------------------------------------------
(* The refinement.                                                         *)

(* What a receiver has is a prefix of what it will have.                   *)
LEMMA FirstOfJoined ==
    ASSUME NEW a \in Seq(Nat), NEW b \in Seq(Nat), NEW c \in Seq(Nat)
    PROVE  /\ Joined(a, b, c) \in Seq(Nat) /\ Len(a) <= Len(Joined(a, b, c))
           /\ \A i \in 1..Len(a) : a[i] = Joined(a, b, c)[i]
<1>1. /\ a \o b \in Seq(Nat) /\ Len(a \o b) = Len(a) + Len(b)
      /\ \A i \in 1..Len(a) : (a \o b)[i] = a[i]
  OBVIOUS
<1> DEFINE d == a \o b
<1>2. d \in Seq(Nat) /\ Len(d) \in Nat /\ Len(a) \in Nat /\ Len(b) \in Nat /\ Len(c) \in Nat
  BY <1>1
<1> HIDE DEF d
<1>3. /\ d \o c \in Seq(Nat) /\ Len(d \o c) = Len(d) + Len(c)
      /\ \A i \in 1..Len(d) : (d \o c)[i] = d[i]
  BY <1>2
<1>4. QED
  BY <1>1, <1>2, <1>3 DEF d, Joined

(* What the device has is a prefix of what the program sent.               *)
LEMMA UpIsPrefix ==
    ASSUME Carried, cstate # "CLOSED"
    PROVE  Len(devGot) \in 0..appSent /\ devGot = Stream(Len(devGot))
<1>1. /\ devGot \in Seq(Nat) /\ ob \in Seq(Nat) /\ appOut \in Seq(Nat) /\ appSent \in Nat
      /\ Joined(devGot, ob, appOut) = Stream(appSent)
  BY BytesAreNat DEF Carried, UpIntact, Joined
<1>2. Len(Stream(appSent)) = appSent /\ \A i \in 1..appSent : Stream(appSent)[i] = i
  BY <1>1, StreamGrows
<1>3. Len(devGot) <= appSent /\ \A i \in 1..Len(devGot) : devGot[i] = Stream(appSent)[i]
  BY <1>1, <1>2, FirstOfJoined
<1>4. Len(devGot) \in Nat /\ \A i \in 1..Len(devGot) : devGot[i] = i
  BY <1>1, <1>2, <1>3
<1>5. QED
  BY <1>1, <1>3, <1>4 DEF Stream

(* What the program has behind the result packet likewise.                 *)
downGot == SubSeq(appGot, ResultLen + 1, Len(appGot))

(* The program has the result packet and then a prefix of what the device  *)
(* sent.                                                                   *)
LEMMA DownIsPrefix ==
    ASSUME Carried
    PROVE  /\ cstate \in {"CONNECTING1", "CONNECTING2", "COMMAND"} => downGot = << >>
           /\ cstate = "CONNECTED" =>
                /\ Len(appGot) - ResultLen \in 0..devSent
                /\ downGot = Stream(Len(appGot) - ResultLen)
<1>1. /\ appGot \in Seq(Nat) /\ ib \in Seq(Nat) /\ devOut \in Seq(Nat) /\ devSent \in Nat
      /\ Len(appGot) \in Nat /\ ResultLen \in Nat /\ cob \in Nat /\ cob <= ResultLen
  BY BytesAreNat, RelayAssumption DEF Carried, TypeOK
<1>2. CASE cstate \in {"CONNECTING1", "CONNECTING2", "COMMAND"}
  <2>1. Len(appGot) <= ResultLen
    <3>1. CASE cstate = "CONNECTING1"
      BY <1>1, <3>1 DEF Carried, Handshake
    <3>2. CASE cstate # "CONNECTING1"
      <4>1. appGot = Result(ResultLen - cob) /\ ResultLen - cob \in Nat
        BY <1>1, <1>2, <3>2 DEF Carried, Handshake
      <4>2. QED
        BY <1>1, <4>1, ResultType
    <3>3. QED
      BY <3>1, <3>2
  <2>2. QED
    BY <1>1, <1>2, <2>1, SubSeqEmpty DEF downGot
<1>3. CASE cstate = "CONNECTED"
  <2> DEFINE n == Len(appGot) - ResultLen
             t == Result(ResultLen) \o Stream(devSent)
  <2>1. /\ Result(ResultLen) \in Seq(Nat) /\ Len(Result(ResultLen)) = ResultLen
        /\ Stream(devSent) \in Seq(Nat) /\ Len(Stream(devSent)) = devSent
        /\ \A i \in 1..devSent : Stream(devSent)[i] = i
    BY <1>1, ResultType, StreamGrows
  <2>2. Len(t) = ResultLen + devSent
    BY <2>1
  <2>3. \A i \in 1..devSent : t[ResultLen + i] = i
    <3>1. TAKE i \in 1..devSent
    <3>2. t[ResultLen + i] = Stream(devSent)[i]
      BY <1>1, <2>1
    <3>3. QED
      BY <2>1, <3>2
  <2>4. Joined(appGot, ib, devOut) = t
    BY <1>3 DEF Carried, DownIntact, Joined
  <2> HIDE DEF t
  <2>5. Len(appGot) <= ResultLen + devSent /\ \A i \in 1..Len(appGot) : appGot[i] = t[i]
    <3>1. Len(appGot) <= Len(t) /\ \A i \in 1..Len(appGot) : appGot[i] = t[i]
      BY <1>1, <2>4, FirstOfJoined
    <3>2. QED
      BY <2>2, <3>1
  <2>6. n \in 0..devSent
    BY <1>1, <1>3, <2>5 DEF Carried, Handshake
  <2>7. \A i \in 1..n : appGot[ResultLen + i] = i
    <3>1. TAKE i \in 1..n
    <3>2. ResultLen + i \in 1..Len(appGot) /\ i \in 1..devSent
      BY <1>1, <2>6
    <3>3. QED
      BY <2>3, <2>5, <3>2
  <2>8. downGot = Stream(n)
    <3>1. downGot = [i \in 1..n |-> appGot[ResultLen + i]]
      <4>1. /\ downGot \in Seq(Nat) /\ Len(downGot) = n
            /\ \A i \in 1..n : downGot[i] = appGot[ResultLen + i]
        BY <1>1, <2>6 DEF downGot
      <4>2. QED
        BY <4>1
    <3>2. QED
      BY <2>7, <3>1 DEF Stream
  <2>9. QED
    BY <1>3, <2>6, <2>8
<1>4. QED
  BY <1>2, <1>3
(* Both, and the same in the next state.                                   *)
UpPrefix == cstate # "CLOSED" =>
    Len(devGot) \in 0..appSent /\ devGot = Stream(Len(devGot))
DownPrefix == cstate = "CONNECTED" =>
    Len(appGot) - ResultLen \in 0..devSent /\ downGot = Stream(Len(appGot) - ResultLen)

(* Both receivers have a prefix of what was sent,                          *)
LEMMA PrefixesNow == Carried => UpPrefix /\ DownPrefix
BY UpIsPrefix, DownIsPrefix DEF UpPrefix, DownPrefix

(* ... also after the step.                                                *)
LEMMA PrefixesNext == Carried' => UpPrefix' /\ DownPrefix'
BY PrefixesNow, PTL

(* Every step of the relay is a step of the pipe, or leaves it alone.      *)
LEMMA PipeStep == Carried /\ [Next]_vars => [Pipe!Next]_(Pipe!pvars)
<1> SUFFICES ASSUME Carried, [Next]_vars
             PROVE  \/ Pipe!Next
                    \/ /\ UNCHANGED <<appSent, devGot, devSent, downGot>>
                       /\ (cstate # "CLOSED")' = (cstate # "CLOSED")
  BY DEF Pipe!pvars, downGot
<1>1. /\ appSent \in Nat /\ devSent \in Nat /\ Len(appGot) \in Nat /\ Len(devGot) \in Nat
      /\ ResultLen \in Nat /\ cob \in Nat /\ cob <= ResultLen /\ appGot \in Seq(Nat)
      /\ ib \in Seq(Nat) /\ ob \in Seq(Nat) /\ devGot \in Seq(Nat)
  BY BytesAreNat, RelayAssumption DEF Carried, TypeOK
<1>2. Carried'
  BY CarriedStep
<1>3. CASE app_send
  <2>1. /\ appSent' = appSent + 1
        /\ UNCHANGED <<devGot, devSent, appGot, cstate>>
    BY <1>3 DEF app_send, clientVars, devVars
  <2>2. QED
    BY <2>1 DEF Pipe!Next, Pipe!SendUp
<1>4. CASE dev_send
  <2>1. /\ devSent' = devSent + 1
        /\ UNCHANGED <<devGot, appSent, appGot, cstate>>
    BY <1>4 DEF dev_send, clientVars, appVars
  <2>2. QED
    BY <2>1 DEF Pipe!Next, Pipe!SendDown
<1>5. CASE close /\ cstate # "CLOSED"
  <2>1. cstate' = "CLOSED" /\ UNCHANGED <<devGot, devSent, appSent, appGot>>
    BY <1>5 DEF close, devVars, appVars
  <2>2. QED
    BY <1>5, <2>1 DEF Pipe!Next, Pipe!Close
<1>6. CASE \/ app_close \/ dev_close \/ client_read \/ remote_read \/ remote_eof
           \/ UNCHANGED vars
  <2>1. UNCHANGED <<appSent, devGot, devSent, appGot, cstate>>
    BY <1>6 DEF app_close, dev_close, client_read, remote_read, remote_eof, vars,
       clientVars, appVars, devVars
  <2>2. QED
    BY <2>1 DEF downGot
<1>7. CASE \E ok \in BOOLEAN : remote_connect_result(ok)
  <2>1. /\ cstate = "CONNECTING1" /\ cstate' # "CLOSED"
        /\ UNCHANGED <<appSent, devGot, devSent, appGot>>
    BY <1>7 DEF remote_connect_result, appVars, devVars
  <2>2. QED
    BY <2>1 DEF downGot
<1>8. CASE process_send
  <2>1. PICK k \in 1..cob : appGot' = appGot \o [i \in 1..k |-> 0]
    BY <1>8 DEF process_send
  <2>2. /\ cstate \in {"CONNECTING2", "COMMAND"} /\ cstate' # "CLOSED"
        /\ UNCHANGED <<appSent, devGot, devSent>>
    BY <1>8 DEF process_send, devVars
  <2>3. appGot = Result(ResultLen - cob) /\ ResultLen - cob \in Nat
    BY <1>1, <2>2 DEF Carried, Handshake
  <2>4. Len(appGot) = ResultLen - cob
    BY <2>3, ResultType
  <2>5. k \in Nat /\ k <= cob
    BY <1>1, <2>1
  <2>6. Result(k) \in Seq(Nat) /\ Len(Result(k)) = k /\ appGot' = appGot \o Result(k)
    BY <2>1, <2>5, ResultType DEF Result
  <2>7. appGot' \in Seq(Nat) /\ Len(appGot') = Len(appGot) + k
    BY <1>1, <2>6, ConcatLen
  <2>8. appGot' \in Seq(Nat) /\ Len(appGot') \in Nat /\ Len(appGot') <= ResultLen
    BY <1>1, <2>4, <2>5, <2>7
  <2>9. downGot' = << >>
    BY <1>1, <2>8, SubSeqEmpty DEF downGot
  <2>10. downGot = << >>
    BY <2>2, DownIsPrefix
  <2>11. QED
    BY <2>2, <2>9, <2>10
<1>9. CASE client_write
  <2>1. PICK k \in 1..Len(ib) : appGot' = appGot \o Up(ib, k)
    BY <1>9 DEF client_write
  <2>2. /\ cstate = "CONNECTED" /\ cstate' = cstate
        /\ UNCHANGED <<appSent, devGot, devSent>>
    BY <1>9 DEF client_write, devVars
  <2>3. Len(appGot') = Len(appGot) + k /\ k \in Nat \ {0}
    <3>1. Up(ib, k) \in Seq(Nat) /\ Len(Up(ib, k)) = k
      BY <1>1, <2>1, SplitSeq
    <3>2. k \in Nat \ {0}
      BY <1>1, <2>1
    <3>3. QED
      BY <1>1, <2>1, <3>1, <3>2, ConcatLen
  <2>4. /\ Len(appGot) - ResultLen \in 0..devSent
        /\ downGot = Stream(Len(appGot) - ResultLen)
    BY <2>2, DownIsPrefix
  <2>5. /\ (Len(appGot) - ResultLen \in 0..devSent)'
        /\ (downGot = Stream(Len(appGot) - ResultLen))'
    BY <1>2, <2>2, PrefixesNext DEF DownPrefix
  <2> DEFINE n == Len(appGot) - ResultLen
  <2>6. n \in Nat /\ n + k \in (n + 1)..devSent /\ Len(appGot') - ResultLen = n + k
    BY <1>1, <2>2, <2>3, <2>4, <2>5
  <2>7. Len(downGot) = n
    BY <2>4, <2>6, StreamGrows
  <2>8. downGot' = Pipe!Stream(n + k)
    BY <2>5, <2>6 DEF Stream, Pipe!Stream
  <2> HIDE DEF n
  <2>9. /\ \E m \in Len(downGot) + 1 .. devSent : downGot' = Pipe!Stream(m)
    BY <2>6, <2>7, <2>8
  <2>10. Pipe!GetDown
    BY <2>2, <2>9 DEF Pipe!GetDown, downGot
  <2>11. QED
    BY <2>10 DEF Pipe!Next
<1>10. CASE remote_write /\ ob = << >>
  <2>1. UNCHANGED <<appSent, devGot, devSent, appGot, cstate>>
    BY <1>10 DEF remote_write, appVars
  <2>2. QED
    BY <2>1 DEF downGot
<1>11. CASE remote_write /\ ob # << >>
  <2>1. PICK k \in 1..Len(ob) : devGot' = devGot \o Up(ob, k)
    BY <1>11 DEF remote_write
  <2>2. /\ rstate = "CONNECTED" /\ UNCHANGED <<cstate, appSent, devSent, appGot>>
    BY <1>11 DEF remote_write, appVars
  <2>3. cstate # "CLOSED"
    BY <2>2 DEF Carried, Coupled
  <2>4. Len(devGot') = Len(devGot) + k /\ k \in Nat \ {0}
    <3>1. Up(ob, k) \in Seq(Nat) /\ Len(Up(ob, k)) = k
      BY <1>1, <2>1, SplitSeq
    <3>2. k \in Nat \ {0}
      BY <1>1, <2>1
    <3>3. QED
      BY <1>1, <2>1, <3>1, <3>2, ConcatLen
  <2>5. (Len(devGot) \in 0..appSent /\ devGot = Stream(Len(devGot)))'
    BY <1>2, <2>2, <2>3, PrefixesNext DEF UpPrefix
  <2>6. Len(devGot') \in Len(devGot) + 1 .. appSent
    BY <1>1, <2>2, <2>4, <2>5
  <2>7. devGot' = Pipe!Stream(Len(devGot'))
    BY <2>5 DEF Stream, Pipe!Stream
  <2>8. \E m \in Len(devGot) + 1 .. appSent : devGot' = Pipe!Stream(m)
    BY <2>6, <2>7
  <2>9. Pipe!GetUp
    BY <2>2, <2>3, <2>8 DEF Pipe!GetUp
  <2>10. QED
    BY <2>9 DEF Pipe!Next
<1>12. CASE \/ client_gone \/ client_eof \/ client_write_fails
            \/ remote_hangup \/ remote_read_fails \/ remote_dead
  <2>1. close /\ cstate # "CLOSED"
    BY <1>12 DEF client_gone, client_eof, client_write_fails, remote_hangup,
       remote_read_fails, remote_dead, Carried, Coupled
  <2>2. QED
    BY <1>5, <2>1
<1>13. QED
  BY <1>3, <1>4, <1>6, <1>7, <1>8, <1>9, <1>10, <1>11, <1>12
     DEF Next, ClientHandler, RemoteHandler, Ends

(* The relay is a pair of streams: what each end receives is a growing     *)
(* prefix of what the other sent, until one of them closes.                *)
THEOREM RelayIsAPipe == Spec => ImplementsPipe
<1>1. Init => Pipe!Init
  <2>1. SUFFICES ASSUME Init PROVE Pipe!Init
    OBVIOUS
  <2>2. ResultLen \in Nat /\ << >> \in Seq(Nat) /\ Len(<< >>) = 0
    BY RelayAssumption
  <2>3. SubSeq(<< >>, ResultLen + 1, Len(<< >>)) = << >>
    BY <2>2, SubSeqEmpty
  <2>4. QED
    BY <2>1, <2>3 DEF Init, Pipe!Init
<1>2. Carried /\ [Next]_vars => [Pipe!Next]_(Pipe!pvars)
  BY PipeStep
<1>3. QED
  BY <1>1, <1>2, CarriedHolds, PTL DEF Spec, ImplementsPipe, Pipe!Spec
=============================================================================
