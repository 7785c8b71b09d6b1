----------------------------- MODULE LocksProofs -----------------------------
(***************************************************************************)
(* Safety of Locks for any number of clients, devices and probes: nothing  *)
(* uses remote_list_mutex once it is destroyed, client_list_mutex is       *)
(* locked late only to report devices, and the threads never wait for each *)
(* other in a circle.                                                      *)
(*                                                                         *)
(* What a thread holds is read off what it still has to do: it holds a     *)
(* mutex when the next thing it does with it is to unlock it.              *)
(***************************************************************************)
EXTENDS Locks, SequenceTheorems, TLAPS

(* The words of the operations that name no mutex and no client.           *)
Word == {"gethostbyname", "connect", "check", "device", "accepted", "detach",
         "dispose", "dispose_all", "close_all", "poll_new", "poll_loop",
         "poll_there", "poll_quit", "join", "exit"}

Op == {Lock(m) : m \in Mutex} \cup {Unlock(m) : m \in Mutex} \cup {Destroy(m) : m \in Mutex}
      \cup {Close(c) : c \in Client} \cup {Link(c) : c \in Client} \cup {Do(w) : w \in Word}

One(a) == <<a>>
Cons(a, s) == <<a>> \o s

(* The mutexes, and clients, that s is about.                              *)
Held(s)  == {m \in Mutex : \E k \in 1 .. Len(s) :
                /\ s[k] = Unlock(m)
                /\ \A j \in 1 .. (k - 1) : s[j] # Lock(m)}
Asks(s)  == {m \in Mutex : \E k \in 1 .. Len(s) : s[k] = Lock(m)}
Links(s) == {c \in Client : \E k \in 1 .. Len(s) : s[k] = Link(c)}

(* The mutexes that may be held when m is locked: remote_list_mutex is the *)
(* outer one.                                                              *)
Above(m) == IF m = "R" THEN {} ELSE {"R"}

(* How a thread that does a may go on, with y: it unlocks what it locks,   *)
(* once, and locks in order; the early returns of socket_connect_timeout   *)
(* skip an unlock and a connect; whoever closes clients, joins or waits    *)
(* for avahi holds nothing, whoever disposes of remotes only their mutex;  *)
(* and a client is linked last.                                            *)
Fits(a, y) ==
    /\ \A m \in Mutex : a = Lock(m) => m \in Held(y) /\ Held(y) \subseteq {m} \cup Above(m)
    /\ \A m \in Mutex : a = Unlock(m) => m \notin Held(y)
    /\ a = Unlock("G") => "G" \notin Asks(y)
    /\ a = Do("gethostbyname") => /\ y # <<>> /\ Head(y) = Unlock("G")
                                  /\ Tail(y) # <<>> /\ Head(Tail(y)) = Do("connect")
    /\ a[1] \in {"dispose", "dispose_all"} => Held(y) \subseteq {"R"}
    /\ a[1] \in {"close", "close_all", "join", "poll_new", "poll_loop"} => Held(y) = {}
    /\ a[1] \in {"link", "close", "close_all"} => Links(y) = {}

(* Everything in s fits what follows it.                                   *)
Disciplined(s) == \A i \in 1 .. Len(s) : Fits(s[i], SubSeq(s, i + 1, Len(s)))

(* What the threads do: a probe; both other threads; the mDNS thread; the  *)
(* main thread while it is in its loop.                                    *)
ProbeOp  == {Lock("G"), Unlock("G"), Do("gethostbyname"), Do("connect")}
SharedOp == ProbeOp \cup {Lock("R"), Unlock("R"), Lock("C"), Unlock("C"), Do("dispose"), Do("detach")}
MdnsOp   == SharedOp \cup {Do("poll_new"), Do("poll_loop")}
WorkOp   == SharedOp \cup {Do("device"), Do("check"), Do("accepted")}
            \cup {Close(c) : c \in Client} \cup {Link(c) : c \in Client}

(* What main() still has to do at each point of its shutdown, from the end.*)
Exit      == Cons(Do("exit"), <<>>)
DestroyG  == Cons(Destroy("G"), Exit)
DestroyR  == Cons(Destroy("R"), DestroyG)
UnlockR   == Cons(Unlock("R"), DestroyR)
Detached  == Cons(Unlock("C"), UnlockR)
Detaching == Cons(Do("detach"), Detached)
Telling   == Cons(Lock("C"), Detaching)
Disposing == Cons(Do("dispose_all"), UnlockR)
Entering  == Cons(Lock("R"), Disposing)
Joining   == Cons(Do("join"), Entering)
Quitting  == Cons(Do("poll_quit"), Joining)
Asking    == Cons(Do("poll_there"), Quitting)
DestroyC  == Cons(Destroy("C"), IF "mdns" \in Env THEN Asking ELSE Entering)
Closing   == Cons(Do("close_all"), DestroyC)
CloseLast(c) == Cons(Close(c), Closing)
Unlisted  == Cons(Unlock("C"), Closing)
Unlisting == Cons(Lock("C"), Unlisted)
Unlinked  == Cons(Unlock("R"), Unlisting)
Unlinking == Cons(Lock("R"), Unlinked)

(* client_shutdown; what comes after client_list_mutex is destroyed; and   *)
(* the part of that which comes after the join.                            *)
ClientStages == {Closing, Unlisted, Unlisting, Unlinked, Unlinking} \cup {CloseLast(c) : c \in Client}
EndStages    == {Entering, Disposing, Telling, Detaching, Detached, UnlockR, DestroyR, DestroyG, Exit}
LateStages   == {Asking, Quitting, Joining} \cup EndStages

(* How far the main thread is, and what is gone and what is over by then.  *)
Working     == todo[Main] \in Seq(WorkOp) /\ gone = {}
ClosingDown == todo[Main] \in ClientStages /\ gone = {}
AllClosed   == todo[Main] = DestroyC /\ gone = {} /\ open = {}
Late ==
    /\ todo[Main] \in LateStages
    /\ "C" \in gone /\ open = {}
    /\ todo[Main] \in EndStages => todo[Mdns] = <<>>
    /\ "R" \in gone => todo[Main] \in {DestroyG, Exit}

Stage == Working \/ ClosingDown \/ AllClosed \/ Late

(* Each thread does what it is for, in order.                              *)
Threads ==
    /\ \A t \in Thread : todo[t] \in Seq(Op) /\ Disciplined(todo[t])
    /\ \A p \in Probe : todo[p] \in Seq(ProbeOp)
    /\ todo[Mdns] \in Seq(MdnsOp)
    /\ "mdns" \notin Env => todo[Mdns] = <<>>

(* A client to link is connected and has no remote yet.                    *)
LinksFree == Links(todo[Main]) \subseteq open \ linked

(* Whoever still has to unlock a mutex holds it, and whoever holds one has *)
(* to unlock it; but an unknown host leaks gethostbyname_mutex.            *)
Owners ==
    /\ \A t \in Thread, m \in Mutex \ gone : m \in Held(todo[t]) => owner[m] = t
    /\ \A m \in Mutex : owner[m] # None /\ (m = "G" => "unknown" \notin Env)
                            => m \in Held(todo[owner[m]])

(* The inductive invariant.                                                *)
IInv == TypeOK /\ Threads /\ LinksFree /\ Owners /\ Stage

-----------------------------------------------------------------------------
(* Operations and sequences of them.                                       *)

(* An operation is told apart by its first part.                           *)
LEMMA OpParts ==
    /\ \A x : /\ Lock(x)[1] = "lock" /\ Unlock(x)[1] = "unlock" /\ Destroy(x)[1] = "destroy"
              /\ Close(x)[1] = "close" /\ Link(x)[1] = "link" /\ Do(x)[1] = x
    /\ \A x : /\ Lock(x)[2] = x /\ Unlock(x)[2] = x /\ Destroy(x)[2] = x
              /\ Close(x)[2] = x /\ Link(x)[2] = x
BY DEF Lock, Unlock, Destroy, Close, Link, Do

(* What is in front of a sequence, and what is behind.                     *)
LEMMA ConsFacts ==
    ASSUME NEW S, NEW a \in S, NEW s \in Seq(S)
    PROVE  /\ Cons(a, s) \in Seq(S)
           /\ Cons(a, s) # <<>>
           /\ Head(Cons(a, s)) = a
           /\ Tail(Cons(a, s)) = s
           /\ Len(Cons(a, s)) = Len(s) + 1
           /\ Cons(a, s)[1] = a
           /\ \A i \in 1 .. Len(s) : Cons(a, s)[i + 1] = s[i]
<1>1. <<a>> \in Seq(S) /\ Len(<<a>>) = 1 /\ <<a>>[1] = a
    OBVIOUS
<1>2. Len(s) \in Nat
    BY LenProperties
<1>3. /\ Cons(a, s) \in Seq(S)
      /\ Len(Cons(a, s)) = Len(s) + 1
      /\ \A i \in 1 .. Len(s) + 1 : Cons(a, s)[i] = IF i <= 1 THEN a ELSE s[i - 1]
    BY <1>1, <1>2, ConcatProperties DEF Cons
<1>4. Cons(a, s)[1] = a /\ \A i \in 1 .. Len(s) : Cons(a, s)[i + 1] = s[i]
    BY <1>2, <1>3
<1>5. Cons(a, s) # <<>>
    BY <1>2, <1>3
<1>6. Head(Cons(a, s)) = a
    BY <1>3, <1>4, <1>5
<1>7. Tail(Cons(a, s)) = s
  <2>. DEFINE c == Cons(a, s)
  <2>1. Tail(c) \in Seq(S) /\ Len(Tail(c)) = Len(c) - 1 /\ \A i \in 1 .. Len(Tail(c)) : Tail(c)[i] = c[i + 1]
      BY <1>3, <1>5, HeadTailProperties
  <2>2. Len(Tail(c)) = Len(s)
      BY <2>1, <1>2, <1>3
  <2>3. \A i \in 1 .. Len(Tail(c)) : Tail(c)[i] = s[i]
      BY <2>1, <2>2, <1>4
  <2>. HIDE DEF c
  <2>4. Tail(c) = s
      BY <2>1, <2>2, <2>3, SeqEqual
  <2>. QED
      BY <2>4 DEF c
<1>. QED
    BY <1>3, <1>4, <1>5, <1>6, <1>7

(* The same for operations.                                                *)
LEMMA OpCons ==
    ASSUME NEW a \in Op, NEW s \in Seq(Op)
    PROVE  /\ Cons(a, s) \in Seq(Op)
           /\ Cons(a, s) # <<>>
           /\ Head(Cons(a, s)) = a
           /\ Tail(Cons(a, s)) = s
           /\ Len(Cons(a, s)) = Len(s) + 1
           /\ Cons(a, s)[1] = a
           /\ \A i \in 1 .. Len(s) : Cons(a, s)[i + 1] = s[i]
<1>1. Cons(a, s) \in Seq(Op) /\ Cons(a, s) # <<>>
    BY ConsFacts
<1>2. Head(Cons(a, s)) = a
    BY ConsFacts
<1>3. Tail(Cons(a, s)) = s
    BY ConsFacts
<1>4. Len(Cons(a, s)) = Len(s) + 1 /\ Cons(a, s)[1] = a
    BY ConsFacts
<1>5. \A i \in 1 .. Len(s) : Cons(a, s)[i + 1] = s[i]
    BY ConsFacts
<1>. QED
    BY <1>1, <1>2, <1>3, <1>4, <1>5

(* A sequence that is not empty has a head and a tail.                     *)
LEMMA Decons ==
    ASSUME NEW S, NEW s \in Seq(S), s # <<>>
    PROVE  Head(s) \in S /\ Tail(s) \in Seq(S) /\ s = Cons(Head(s), Tail(s))
<1>1. Head(s) \in S /\ Tail(s) \in Seq(S) /\ Len(Tail(s)) = Len(s) - 1
      /\ \A i \in 1 .. Len(Tail(s)) : Tail(s)[i] = s[i + 1]
    BY HeadTailProperties
<1>. DEFINE a == Head(s)
            r == Tail(s)
            c == Cons(a, r)
<1>2. a = s[1] /\ Len(s) \in Nat /\ Len(s) # 0
    BY EmptySeq, LenProperties
<1>0. a \in S /\ r \in Seq(S)
    BY <1>1
<1>. HIDE DEF a, r
<1>3. /\ c \in Seq(S) /\ Len(c) = Len(r) + 1 /\ c[1] = a
      /\ \A i \in 1 .. Len(r) : c[i + 1] = r[i]
    BY <1>0, ConsFacts
<1>4. Len(c) = Len(s)
    BY <1>1, <1>2, <1>3 DEF r
<1>5. \A i \in 1 .. Len(s) : s[i] = c[i]
  <2>. SUFFICES ASSUME NEW i \in 1 .. Len(s) PROVE s[i] = c[i]
      OBVIOUS
  <2>1. CASE i = 1
      BY <2>1, <1>2, <1>3
  <2>2. CASE i # 1
    <3>1. i - 1 \in 1 .. Len(r) /\ (i - 1) + 1 = i
        BY <2>2, <1>1, <1>2 DEF r
    <3>2. c[(i - 1) + 1] = r[i - 1] /\ r[i - 1] = s[(i - 1) + 1]
        BY <3>1, <1>1, <1>3 DEF r
    <3>. QED
        BY <3>1, <3>2
  <2>. QED
      BY <2>1, <2>2
<1>. HIDE DEF c
<1>6. s = c
    BY <1>3, <1>4, <1>5, SeqEqual
<1>. QED
    BY <1>1, <1>6 DEF c, a, r

(* What holds of the positions of a sequence with a in front.              *)
LEMMA ConsIndex ==
    ASSUME NEW a \in Op, NEW s \in Seq(Op), NEW k \in 1 .. Len(Cons(a, s))
    PROVE  \/ k = 1 /\ Cons(a, s)[k] = a
           \/ k - 1 \in 1 .. Len(s) /\ k # 1 /\ Cons(a, s)[k] = s[k - 1]
<1>1. Len(s) \in Nat /\ Len(Cons(a, s)) = Len(s) + 1 /\ Cons(a, s)[1] = a
      /\ \A i \in 1 .. Len(s) : Cons(a, s)[i + 1] = s[i]
    BY ConsFacts, LenProperties
<1>2. CASE k = 1
    BY <1>1, <1>2
<1>3. CASE k # 1
  <2>1. k - 1 \in 1 .. Len(s) /\ (k - 1) + 1 = k
      BY <1>1, <1>3
  <2>. QED
      BY <1>1, <1>3, <2>1
<1>. QED
    BY <1>2, <1>3

(* What is asked for, and who is linked, with a in front.                  *)
LEMMA AsksCons ==
    ASSUME NEW a \in Op, NEW s \in Seq(Op)
    PROVE  /\ \A m \in Mutex : a = Lock(m) => Asks(Cons(a, s)) = Asks(s) \cup {m}
           /\ a[1] # "lock" => Asks(Cons(a, s)) = Asks(s)
<1>. DEFINE c == Cons(a, s)
<1>1. Len(s) \in Nat /\ Len(c) = Len(s) + 1 /\ c[1] = a
      /\ \A i \in 1 .. Len(s) : c[i + 1] = s[i]
    BY ConsFacts, LenProperties
<1>2. \A k \in 1 .. Len(c) : \/ k = 1 /\ c[k] = a
                             \/ k - 1 \in 1 .. Len(s) /\ k # 1 /\ c[k] = s[k - 1]
    BY ConsIndex
<1>. HIDE DEF c
<1>3. \A m \in Mutex : m \in Asks(c) <=> a = Lock(m) \/ m \in Asks(s)
  <2>. SUFFICES ASSUME NEW m \in Mutex
                PROVE  m \in Asks(c) <=> a = Lock(m) \/ m \in Asks(s)
      OBVIOUS
  <2>1. ASSUME m \in Asks(c) PROVE a = Lock(m) \/ m \in Asks(s)
      BY <2>1, <1>1, <1>2 DEF Asks
  <2>2. ASSUME a = Lock(m) PROVE m \in Asks(c)
    <3>1. 1 \in 1 .. Len(c)
        BY <1>1
    <3>. QED
        BY <2>2, <3>1, <1>1 DEF Asks
  <2>3. ASSUME m \in Asks(s) PROVE m \in Asks(c)
    <3>1. PICK k \in 1 .. Len(s) : s[k] = Lock(m)
        BY <2>3 DEF Asks
    <3>2. k + 1 \in 1 .. Len(c) /\ c[k + 1] = Lock(m)
        BY <3>1, <1>1
    <3>. QED
        BY <3>2 DEF Asks
  <2>. QED
      BY <2>1, <2>2, <2>3
<1>4. Asks(c) \subseteq Mutex /\ Asks(s) \subseteq Mutex
    BY DEF Asks
<1>5. \A m, n : Lock(m) = Lock(n) => m = n
    BY OpParts
<1>6. \A m : a = Lock(m) => a[1] = "lock"
    BY OpParts
<1>7. a[1] # "lock" => Asks(c) = Asks(s)
    BY <1>3, <1>4, <1>6
<1>8. ASSUME NEW m \in Mutex, a = Lock(m) PROVE Asks(c) = Asks(s) \cup {m}
    BY <1>3, <1>4, <1>5, <1>8
<1>. QED
    BY <1>7, <1>8 DEF c

(* Who is linked, with a in front.                                         *)
LEMMA LinksCons ==
    ASSUME NEW a \in Op, NEW s \in Seq(Op)
    PROVE  /\ \A d \in Client : a = Link(d) => Links(Cons(a, s)) = Links(s) \cup {d}
           /\ a[1] # "link" => Links(Cons(a, s)) = Links(s)
<1>. DEFINE c == Cons(a, s)
<1>1. Len(s) \in Nat /\ Len(c) = Len(s) + 1 /\ c[1] = a
      /\ \A i \in 1 .. Len(s) : c[i + 1] = s[i]
    BY ConsFacts, LenProperties
<1>2. \A k \in 1 .. Len(c) : \/ k = 1 /\ c[k] = a
                             \/ k - 1 \in 1 .. Len(s) /\ k # 1 /\ c[k] = s[k - 1]
    BY ConsIndex
<1>. HIDE DEF c
<1>3. \A d \in Client : d \in Links(c) <=> a = Link(d) \/ d \in Links(s)
  <2>. SUFFICES ASSUME NEW d \in Client
                PROVE  d \in Links(c) <=> a = Link(d) \/ d \in Links(s)
      OBVIOUS
  <2>1. ASSUME d \in Links(c) PROVE a = Link(d) \/ d \in Links(s)
      BY <2>1, <1>1, <1>2 DEF Links
  <2>2. ASSUME a = Link(d) PROVE d \in Links(c)
    <3>1. 1 \in 1 .. Len(c)
        BY <1>1
    <3>. QED
        BY <2>2, <3>1, <1>1 DEF Links
  <2>3. ASSUME d \in Links(s) PROVE d \in Links(c)
    <3>1. PICK k \in 1 .. Len(s) : s[k] = Link(d)
        BY <2>3 DEF Links
    <3>2. k + 1 \in 1 .. Len(c) /\ c[k + 1] = Link(d)
        BY <3>1, <1>1
    <3>. QED
        BY <3>2 DEF Links
  <2>. QED
      BY <2>1, <2>2, <2>3
<1>4. Links(c) \subseteq Client /\ Links(s) \subseteq Client
    BY DEF Links
<1>5. \A d, e : Link(d) = Link(e) => d = e
    BY OpParts
<1>6. \A d : a = Link(d) => a[1] = "link"
    BY OpParts
<1>7. a[1] # "link" => Links(c) = Links(s)
    BY <1>3, <1>4, <1>6
<1>8. ASSUME NEW d \in Client, a = Link(d) PROVE Links(c) = Links(s) \cup {d}
    BY <1>3, <1>4, <1>5, <1>8
<1>. QED
    BY <1>7, <1>8 DEF c

(* What is held, with a in front.                                          *)
LEMMA HeldCons ==
    ASSUME NEW a \in Op, NEW s \in Seq(Op)
    PROVE  /\ \A m \in Mutex : a = Lock(m) => Held(Cons(a, s)) = Held(s) \ {m}
           /\ \A m \in Mutex : a = Unlock(m) => Held(Cons(a, s)) = Held(s) \cup {m}
           /\ a[1] # "lock" /\ a[1] # "unlock" => Held(Cons(a, s)) = Held(s)
<1>. DEFINE c == Cons(a, s)
<1>1. Len(s) \in Nat /\ Len(c) = Len(s) + 1 /\ c[1] = a
      /\ \A i \in 1 .. Len(s) : c[i + 1] = s[i]
    BY ConsFacts, LenProperties
<1>2. \A k \in 1 .. Len(c) : \/ k = 1 /\ c[k] = a
                             \/ k - 1 \in 1 .. Len(s) /\ k # 1 /\ c[k] = s[k - 1]
    BY ConsIndex
<1>. HIDE DEF c
<1>a. \A m, n : Lock(m) # Unlock(n)
    BY OpParts
<1>3. \A m \in Mutex : m \in Held(c) <=> a = Unlock(m) \/ (a # Lock(m) /\ m \in Held(s))
  <2>. SUFFICES ASSUME NEW m \in Mutex
                PROVE  m \in Held(c) <=> a = Unlock(m) \/ (a # Lock(m) /\ m \in Held(s))
      OBVIOUS
  <2>1. ASSUME m \in Held(c), a # Unlock(m) PROVE a # Lock(m) /\ m \in Held(s)
    <3>1. PICK k \in 1 .. Len(c) : c[k] = Unlock(m) /\ \A j \in 1 .. (k - 1) : c[j] # Lock(m)
        BY <2>1 DEF Held
    <3>2. k # 1 /\ k - 1 \in 1 .. Len(s) /\ s[k - 1] = Unlock(m)
        BY <2>1, <3>1, <1>2
    <3>3. a # Lock(m)
      <4>1. 1 \in 1 .. (k - 1)
          BY <3>2
      <4>. QED
          BY <4>1, <3>1, <1>1
    <3>4. \A j \in 1 .. ((k - 1) - 1) : s[j] # Lock(m)
      <4>. SUFFICES ASSUME NEW j \in 1 .. ((k - 1) - 1) PROVE s[j] # Lock(m)
          OBVIOUS
      <4>1. j + 1 \in 1 .. (k - 1) /\ j \in 1 .. Len(s)
          BY <3>2, <1>1
      <4>. QED
          BY <4>1, <3>1, <1>1
    <3>. QED
        BY <3>2, <3>3, <3>4 DEF Held
  <2>2. ASSUME a = Unlock(m) PROVE m \in Held(c)
    <3>1. 1 \in 1 .. Len(c) /\ 1 .. (1 - 1) = {}
        BY <1>1
    <3>. QED
        BY <2>2, <3>1, <1>1 DEF Held
  <2>3. ASSUME a # Lock(m), m \in Held(s) PROVE m \in Held(c)
    <3>1. PICK k \in 1 .. Len(s) : s[k] = Unlock(m) /\ \A j \in 1 .. (k - 1) : s[j] # Lock(m)
        BY <2>3 DEF Held
    <3>2. k + 1 \in 1 .. Len(c) /\ c[k + 1] = Unlock(m)
        BY <3>1, <1>1
    <3>3. \A j \in 1 .. ((k + 1) - 1) : c[j] # Lock(m)
      <4>. SUFFICES ASSUME NEW j \in 1 .. ((k + 1) - 1) PROVE c[j] # Lock(m)
          OBVIOUS
      <4>1. j \in 1 .. Len(c) /\ (j # 1 => j - 1 \in 1 .. (k - 1))
          BY <1>1
      <4>. QED
          BY <4>1, <3>1, <1>2, <2>3
    <3>. QED
        BY <3>2, <3>3 DEF Held
  <2>. QED
      BY <2>1, <2>2, <2>3
<1>4. Held(c) \subseteq Mutex /\ Held(s) \subseteq Mutex
    BY DEF Held
<1>5. \A m, n : (Lock(m) = Lock(n) => m = n) /\ (Unlock(m) = Unlock(n) => m = n)
    BY OpParts
<1>6. \A m : (a = Lock(m) => a[1] = "lock") /\ (a = Unlock(m) => a[1] = "unlock")
    BY OpParts
<1>7. a[1] # "lock" /\ a[1] # "unlock" => Held(c) = Held(s)
    BY <1>3, <1>4, <1>6
<1>8. ASSUME NEW m \in Mutex, a = Lock(m) PROVE Held(c) = Held(s) \ {m}
  <2>1. \A n \in Mutex : (a = Unlock(n) <=> FALSE) /\ (a = Lock(n) <=> n = m)
      BY <1>8, <1>a, <1>5
  <2>. QED
      BY <1>3, <1>4, <2>1
<1>9. ASSUME NEW m \in Mutex, a = Unlock(m) PROVE Held(c) = Held(s) \cup {m}
  <2>1. \A n \in Mutex : (a = Lock(n) <=> FALSE) /\ (a = Unlock(n) <=> n = m)
      BY <1>9, <1>a, <1>5
  <2>. QED
      BY <1>3, <1>4, <2>1
<1>. QED
    BY <1>7, <1>8, <1>9 DEF c

(* A thread that is done holds, locks and links nothing.                   *)
LEMMA NothingInEmpty ==
    /\ <<>> \in Seq(Op)
    /\ Held(<<>>) = {} /\ Asks(<<>>) = {} /\ Links(<<>>) = {}
<1>1. <<>> \in Seq(Op) /\ Len(<<>>) = 0
    BY EmptySeq
<1>2. 1 .. Len(<<>>) = {}
    BY <1>1
<1>. QED
    BY <1>1, <1>2 DEF Held, Asks, Links

(* What follows a position of s, with a in front.                          *)
LEMMA DropCons ==
    ASSUME NEW a \in Op, NEW s \in Seq(Op)
    PROVE  /\ SubSeq(Cons(a, s), 2, Len(Cons(a, s))) = s
           /\ \A i \in 1 .. Len(s) : SubSeq(Cons(a, s), i + 2, Len(Cons(a, s)))
                                     = SubSeq(s, i + 1, Len(s))
<1>. DEFINE c == Cons(a, s)
<1>0. Len(s) \in Nat
    BY LenProperties
<1>5. /\ c \in Seq(Op) /\ c # <<>> /\ Tail(c) = s /\ Len(c) = Len(s) + 1
      /\ \A i \in 1 .. Len(s) : c[i + 1] = s[i]
    BY OpCons
<1>. HIDE DEF c
<1>1. Len(s) \in Nat /\ Len(c) = Len(s) + 1 /\ c \in Seq(Op) /\ c # <<>> /\ Tail(c) = s
      /\ \A i \in 1 .. Len(s) : c[i + 1] = s[i]
    BY <1>0, <1>5
<1>4. (\A i \in 1 .. Len(s) : s[i] \in Op) /\ (\A i \in 1 .. Len(c) : c[i] \in Op)
    BY <1>1, ElementOfSeq
<1>2. SubSeq(c, 2, Len(c)) = s
    BY <1>1, TailIsSubSeq
<1>3. ASSUME NEW i \in 1 .. Len(s)
      PROVE  SubSeq(c, i + 2, Len(c)) = SubSeq(s, i + 1, Len(s))
  <2>. DEFINE x == SubSeq(c, i + 2, Len(c))
              y == SubSeq(s, i + 1, Len(s))
  <2>1. /\ i + 2 \in Int /\ i + 1 \in Int /\ Len(c) \in Int /\ Len(s) \in Int
        /\ \A j \in (i + 2) .. Len(c) : c[j] \in Op
        /\ \A j \in (i + 1) .. Len(s) : s[j] \in Op
      BY <1>1, <1>4
  <2>2. /\ x \in Seq(Op) /\ Len(x) = (IF i + 2 <= Len(c) THEN Len(c) - (i + 2) + 1 ELSE 0)
        /\ \A j \in 1 .. Len(c) - (i + 2) + 1 : x[j] = c[i + 2 + j - 1]
      BY <2>1, SubSeqProperties
  <2>3. /\ y \in Seq(Op) /\ Len(y) = (IF i + 1 <= Len(s) THEN Len(s) - (i + 1) + 1 ELSE 0)
        /\ \A j \in 1 .. Len(s) - (i + 1) + 1 : y[j] = s[i + 1 + j - 1]
      BY <2>1, SubSeqProperties
  <2>. HIDE DEF x, y
  <2>4. Len(x) = Len(y) /\ Len(x) = Len(s) - i
      BY <1>1, <2>2, <2>3
  <2>5. \A j \in 1 .. Len(x) : x[j] = y[j]
    <3>. SUFFICES ASSUME NEW j \in 1 .. Len(x) PROVE x[j] = y[j]
        OBVIOUS
    <3>1. i + j \in 1 .. Len(s) /\ i + 2 + j - 1 = (i + j) + 1 /\ i + 1 + j - 1 = i + j
          /\ j \in 1 .. Len(c) - (i + 2) + 1 /\ j \in 1 .. Len(s) - (i + 1) + 1
        BY <1>1, <2>4
    <3>2. x[j] = c[(i + j) + 1] /\ y[j] = s[i + j]
        BY <3>1, <2>2, <2>3
    <3>. QED
        BY <3>1, <3>2, <1>1
  <2>6. x = y
      BY <2>2, <2>3, <2>4, <2>5, SeqEqual
  <2>. QED
      BY <2>6 DEF x, y
<1>. QED
    BY <1>2, <1>3 DEF c

(* A sequence is disciplined when its head fits its tail, which is.        *)
LEMMA DisciplinedCons ==
    ASSUME NEW a \in Op, NEW s \in Seq(Op)
    PROVE  Disciplined(Cons(a, s)) <=> Fits(a, s) /\ Disciplined(s)
<1>. DEFINE c == Cons(a, s)
<1>1. Len(s) \in Nat /\ Len(c) = Len(s) + 1 /\ c[1] = a
      /\ \A i \in 1 .. Len(s) : c[i + 1] = s[i]
    BY ConsFacts, LenProperties
<1>2. \A k \in 1 .. Len(c) : \/ k = 1 /\ c[k] = a
                             \/ k - 1 \in 1 .. Len(s) /\ k # 1 /\ c[k] = s[k - 1]
    BY ConsIndex
<1>3. SubSeq(c, 2, Len(c)) = s
      /\ \A i \in 1 .. Len(s) : SubSeq(c, i + 2, Len(c)) = SubSeq(s, i + 1, Len(s))
    BY DropCons
<1>. HIDE DEF c
<1>4. ASSUME Disciplined(c) PROVE Fits(a, s) /\ Disciplined(s)
  <2>1. 1 \in 1 .. Len(c) /\ 1 + 1 = 2
      BY <1>1
  <2>2. Fits(c[1], SubSeq(c, 1 + 1, Len(c)))
      BY <1>4, <2>1 DEF Disciplined
  <2>3. Fits(a, s)
      BY <2>1, <2>2, <1>1, <1>3
  <2>4. ASSUME NEW i \in 1 .. Len(s) PROVE Fits(s[i], SubSeq(s, i + 1, Len(s)))
    <3>1. i + 1 \in 1 .. Len(c) /\ (i + 1) + 1 = i + 2
        BY <1>1
    <3>2. Fits(c[i + 1], SubSeq(c, (i + 1) + 1, Len(c)))
        BY <1>4, <3>1 DEF Disciplined
    <3>. QED
        BY <3>1, <3>2, <1>1, <1>3
  <2>. QED
      BY <2>3, <2>4 DEF Disciplined
<1>5. ASSUME Fits(a, s), Disciplined(s) PROVE Disciplined(c)
  <2>. SUFFICES ASSUME NEW k \in 1 .. Len(c) PROVE Fits(c[k], SubSeq(c, k + 1, Len(c)))
      BY DEF Disciplined
  <2>1. CASE k = 1
    <3>1. c[k] = a /\ SubSeq(c, k + 1, Len(c)) = s
        BY <2>1, <1>1, <1>3
    <3>. QED
        BY <3>1, <1>5
  <2>2. CASE k # 1
    <3>1. k - 1 \in 1 .. Len(s) /\ c[k] = s[k - 1]
        BY <2>2, <1>2
    <3>2. (k - 1) + 2 = k + 1
        BY <3>1
    <3>3. SubSeq(c, k + 1, Len(c)) = SubSeq(s, (k - 1) + 1, Len(s))
        BY <3>1, <3>2, <1>3
    <3>4. Fits(s[k - 1], SubSeq(s, (k - 1) + 1, Len(s)))
        BY <3>1, <1>5 DEF Disciplined
    <3>. QED
        BY <3>1, <3>3, <3>4
  <2>. QED
      BY <2>1, <2>2
<1>. QED
    BY <1>4, <1>5 DEF c

(* A thread that does its next operation goes on as it should.             *)
LEMMA NextFits ==
    ASSUME NEW s \in Seq(Op), s # <<>>, Disciplined(s)
    PROVE  /\ Head(s) \in Op /\ Tail(s) \in Seq(Op)
           /\ s = Cons(Head(s), Tail(s))
           /\ Fits(Head(s), Tail(s)) /\ Disciplined(Tail(s))
<1>. DEFINE a == Head(s)
            r == Tail(s)
<1>1. a \in Op /\ r \in Seq(Op) /\ s = Cons(a, r)
    BY Decons
<1>. HIDE DEF a, r
<1>2. Fits(a, r) /\ Disciplined(r)
    BY <1>1, DisciplinedCons
<1>. QED
    BY <1>1, <1>2 DEF a, r

(* It breaks no order either.                                              *)
LEMMA EmptyDisciplined == Disciplined(<<>>)
<1>1. 1 .. Len(<<>>) = {}
    BY EmptySeq
<1>. QED
    BY <1>1 DEF Disciplined

-----------------------------------------------------------------------------
(* Building the handlers from the back.                                    *)

Fine(S, s) == s \in Seq(S) /\ Disciplined(s)

(* Such a sequence is one of operations.                                   *)
LEMMA FineOp ==
    ASSUME NEW S \in SUBSET Op, NEW s, Fine(S, s)
    PROVE  s \in Seq(Op) /\ s \in Seq(S) /\ Disciplined(s)
BY SeqMonotonic DEF Fine

(* With a in front, if it fits.                                            *)
LEMMA Put ==
    ASSUME NEW S \in SUBSET Op, NEW s, Fine(S, s), NEW a \in S, Fits(a, s)
    PROVE  Fine(S, Cons(a, s))
<1>1. s \in Seq(Op) /\ s \in Seq(S) /\ Disciplined(s) /\ a \in Op
    BY FineOp
<1>2. Cons(a, s) \in Seq(S)
    BY <1>1, ConsFacts
<1>3. Disciplined(Cons(a, s))
    BY <1>1, DisciplinedCons
<1>. QED
    BY <1>2, <1>3 DEF Fine

(* With a lock in front of code that unlocks.                              *)
LEMMA PutLock ==
    ASSUME NEW S \in SUBSET Op, NEW s, Fine(S, s), NEW m \in Mutex, Lock(m) \in S,
           m \in Held(s), Held(s) \subseteq {m} \cup Above(m)
    PROVE  /\ Fine(S, Cons(Lock(m), s))
           /\ Held(Cons(Lock(m), s)) = Held(s) \ {m}
           /\ Asks(Cons(Lock(m), s)) = Asks(s) \cup {m}
           /\ Links(Cons(Lock(m), s)) = Links(s)
<1>. DEFINE a == Lock(m)
<1>1. s \in Seq(Op) /\ a \in Op /\ a \in S
    BY FineOp
<1>2. Fits(a, s)
  <2>1. a[1] = "lock" /\ \A n : (a = Lock(n) => n = m) /\ a # Unlock(n) /\ a # Do("gethostbyname")
      BY OpParts
  <2>. HIDE DEF a
  <2>. QED
      BY <2>1 DEF Fits
<1>3. a[1] = "lock"
    BY OpParts
<1>4. Held(Cons(a, s)) = Held(s) \ {m} /\ Asks(Cons(a, s)) = Asks(s) \cup {m}
    BY <1>1, HeldCons, AsksCons
<1>. HIDE DEF a
<1>5. Links(Cons(a, s)) = Links(s)
    BY <1>1, <1>3, LinksCons
<1>6. Fine(S, Cons(a, s))
    BY <1>1, <1>2, Put
<1>. QED
    BY <1>4, <1>5, <1>6 DEF a

(* With an unlock in front of code that does not hold the mutex.           *)
LEMMA PutUnlock ==
    ASSUME NEW S \in SUBSET Op, NEW s, Fine(S, s), NEW m \in Mutex, Unlock(m) \in S,
           m \notin Held(s), m = "G" => "G" \notin Asks(s)
    PROVE  /\ Fine(S, Cons(Unlock(m), s))
           /\ Held(Cons(Unlock(m), s)) = Held(s) \cup {m}
           /\ Asks(Cons(Unlock(m), s)) = Asks(s)
           /\ Links(Cons(Unlock(m), s)) = Links(s)
<1>. DEFINE a == Unlock(m)
<1>1. s \in Seq(Op) /\ a \in Op /\ a \in S
    BY FineOp
<1>2. Fits(a, s)
  <2>1. a[1] = "unlock" /\ \A n : (a = Unlock(n) => n = m) /\ a # Lock(n) /\ a # Do("gethostbyname")
      BY OpParts
  <2>. HIDE DEF a
  <2>. QED
      BY <2>1 DEF Fits
<1>3. a[1] = "unlock"
    BY OpParts
<1>4. Held(Cons(a, s)) = Held(s) \cup {m}
    BY <1>1, HeldCons
<1>. HIDE DEF a
<1>5. Links(Cons(a, s)) = Links(s)
    BY <1>1, <1>3, LinksCons
<1>7. Asks(Cons(a, s)) = Asks(s)
    BY <1>1, <1>3, AsksCons
<1>6. Fine(S, Cons(a, s))
    BY <1>1, <1>2, Put
<1>. QED
    BY <1>4, <1>5, <1>6, <1>7 DEF a

(* With anything else in front.                                            *)
LEMMA PutOther ==
    ASSUME NEW S \in SUBSET Op, NEW s, Fine(S, s), NEW a \in S,
           a[1] \notin {"lock", "unlock", "gethostbyname", "link"},
           a[1] \in {"dispose", "dispose_all"} => Held(s) \subseteq {"R"},
           a[1] \in {"close", "close_all", "join", "poll_new", "poll_loop"} => Held(s) = {},
           a[1] \in {"close", "close_all"} => Links(s) = {}
    PROVE  /\ Fine(S, Cons(a, s))
           /\ Held(Cons(a, s)) = Held(s)
           /\ Asks(Cons(a, s)) = Asks(s)
           /\ Links(Cons(a, s)) = Links(s)
<1>1. s \in Seq(Op) /\ a \in Op
    BY FineOp
<1>2. Fits(a, s)
  <2>1. \A n : a # Unlock(n) /\ a # Lock(n) /\ a # Do("gethostbyname")
      BY OpParts
  <2>. QED
      BY <2>1 DEF Fits
<1>4. Held(Cons(a, s)) = Held(s)
    BY <1>1, HeldCons
<1>5. Links(Cons(a, s)) = Links(s)
    BY <1>1, LinksCons
<1>7. Asks(Cons(a, s)) = Asks(s)
    BY <1>1, AsksCons
<1>6. Fine(S, Cons(a, s))
    BY <1>1, <1>2, Put
<1>. QED
    BY <1>4, <1>5, <1>6, <1>7

(* A client is linked last.                                                *)
LEMMA PutLink ==
    ASSUME NEW S \in SUBSET Op, NEW s, Fine(S, s), NEW d \in Client, Link(d) \in S, Links(s) = {}
    PROVE  /\ Fine(S, Cons(Link(d), s))
           /\ Held(Cons(Link(d), s)) = Held(s)
           /\ Asks(Cons(Link(d), s)) = Asks(s)
           /\ Links(Cons(Link(d), s)) = {d}
<1>. DEFINE a == Link(d)
<1>1. s \in Seq(Op) /\ a \in Op /\ a \in S
    BY FineOp
<1>2. Fits(a, s)
  <2>1. a[1] = "link" /\ \A n : a # Unlock(n) /\ a # Lock(n) /\ a # Do("gethostbyname")
      BY OpParts
  <2>. HIDE DEF a
  <2>. QED
      BY <2>1 DEF Fits
<1>3. a[1] = "link"
    BY OpParts
<1>4. Links(Cons(a, s)) = Links(s) \cup {d}
    BY <1>1, LinksCons
<1>. HIDE DEF a
<1>5. Held(Cons(a, s)) = Held(s)
    BY <1>1, <1>3, HeldCons
<1>7. Asks(Cons(a, s)) = Asks(s)
    BY <1>1, <1>3, AsksCons
<1>6. Fine(S, Cons(a, s))
    BY <1>1, <1>2, Put
<1>. QED
    BY <1>4, <1>5, <1>6, <1>7 DEF a

(* Operations one after the other.                                         *)
InARow(a, b, c) == (a \o b) \o c = a \o (b \o c)

(* It does not matter which two of three sequences are joined first.       *)
LEMMA OpConcat ==
    ASSUME NEW a \in Seq(Op), NEW b \in Seq(Op), NEW c \in Seq(Op)
    PROVE  InARow(a, b, c)
BY ConcatAssociative, SMTT(30) DEF InARow

(* A critical section and what comes after it.                             *)
LEMMA HoldingThen ==
    ASSUME NEW m \in Mutex, NEW b \in Seq(Op), NEW y \in Seq(Op)
    PROVE  /\ Holding(m, b) \in Seq(Op)
           /\ Holding(m, b) \o y = Cons(Lock(m), b \o Cons(Unlock(m), y))
<1>. DEFINE l == <<Lock(m)>>
            u == <<Unlock(m)>>
<1>1. l \in Seq(Op) /\ u \in Seq(Op)
    BY DEF Op
<1>2. Holding(m, b) = (l \o b) \o u
    BY DEF Holding
<1>3. Cons(Lock(m), b \o Cons(Unlock(m), y)) = l \o (b \o (u \o y))
    BY DEF Cons
<1>. HIDE DEF l, u
<1>4. l \o b \in Seq(Op) /\ (l \o b) \o u \in Seq(Op) /\ u \o y \in Seq(Op)
    BY <1>1, ConcatProperties
<1>. DEFINE uy == u \o y
            lb == l \o b
<1>5. (lb \o u) \o y = lb \o uy
  <2>1. InARow(lb, u, y)
      BY <1>1, <1>4, OpConcat
  <2>. QED
      BY <2>1 DEF InARow
<1>6. uy \in Seq(Op)
    BY <1>4
<1>. HIDE DEF uy
<1>7. lb \o uy = l \o (b \o uy)
  <2>1. InARow(l, b, uy)
      BY <1>1, <1>6, OpConcat
  <2>. QED
      BY <2>1 DEF InARow
<1>. QED
    BY <1>2, <1>3, <1>4, <1>5, <1>7 DEF uy

(* A critical section with nothing after it.                               *)
LEMMA HoldingAlone ==
    ASSUME NEW m \in Mutex, NEW b \in Seq(Op)
    PROVE  Holding(m, b) = Cons(Lock(m), b \o Cons(Unlock(m), <<>>))
<1>. DEFINE e == <<>>
            h == Holding(m, b)
<1>1. e \in Seq(Op)
    BY EmptySeq
<1>2. h \in Seq(Op) /\ h \o e = Cons(Lock(m), b \o Cons(Unlock(m), e))
    BY <1>1, HoldingThen
<1>. HIDE DEF h
<1>3. h \o e = h
    BY <1>2, ConcatEmptySeq
<1>. QED
    BY <1>2, <1>3 DEF h

(* Which operations the sets of operations have.                           *)
LEMMA OpSets ==
    /\ ProbeOp \subseteq SharedOp /\ SharedOp \subseteq MdnsOp /\ SharedOp \subseteq WorkOp
    /\ MdnsOp \subseteq Op /\ WorkOp \subseteq Op
    /\ SharedOp \subseteq Op /\ ProbeOp \subseteq Op
    /\ \A m \in Mutex : Lock(m) \in SharedOp /\ Unlock(m) \in SharedOp
    /\ \A m \in Mutex : Lock(m) \in Op /\ Unlock(m) \in Op /\ Destroy(m) \in Op
    /\ \A c \in Client : Link(c) \in WorkOp /\ Close(c) \in WorkOp /\ Close(c) \in Op
    /\ \A w \in Word : Do(w) \in Op
<1>1. ProbeOp \subseteq SharedOp /\ SharedOp \subseteq MdnsOp /\ SharedOp \subseteq WorkOp
    BY DEF ProbeOp, SharedOp, MdnsOp, WorkOp
<1>2. \A m \in Mutex : Lock(m) \in SharedOp /\ Unlock(m) \in SharedOp
    BY DEF ProbeOp, SharedOp, Mutex
<1>3. \A w \in Word : Do(w) \in Op
    BY DEF Op
<1>4. \A m \in Mutex : Lock(m) \in Op /\ Unlock(m) \in Op /\ Destroy(m) \in Op
    BY DEF Op
<1>5. \A c \in Client : Close(c) \in Op /\ Link(c) \in Op
    BY DEF Op
<1>6. \A c \in Client : Link(c) \in WorkOp /\ Close(c) \in WorkOp
    BY DEF WorkOp
<1>7. ProbeOp \subseteq Op
    BY <1>3, <1>4 DEF ProbeOp, Word, Mutex
<1>8. SharedOp \subseteq Op
    BY <1>3, <1>4, <1>7 DEF SharedOp, Word, Mutex
<1>9. MdnsOp \subseteq Op
    BY <1>3, <1>8 DEF MdnsOp, Word
<1>10. WorkOp \subseteq Op
    BY <1>3, <1>5, <1>8 DEF WorkOp, Word
<1>. QED
    BY <1>1, <1>2, <1>3, <1>4, <1>5, <1>6, <1>7, <1>8, <1>9, <1>10

ConnectThen(y) ==
    Cons(Lock("G"), Cons(Do("gethostbyname"), Cons(Unlock("G"), Cons(Do("connect"), y))))

(* socket_connect_timeout, then y.                                         *)
LEMMA ConnectIs ==
    ASSUME NEW y \in Seq(Op)
    PROVE  socket_connect \in Seq(Op) /\ socket_connect \o y = ConnectThen(y)
<1>. DEFINE g == <<Do("gethostbyname")>>
            h == Holding("G", g)
            k == <<Do("connect")>>
            ky == k \o y
<1>1. g \in Seq(Op) /\ k \in Seq(Op) /\ "G" \in Mutex
    BY OpSets DEF Word, Mutex
<1>2. h \in Seq(Op) /\ ky \in Seq(Op)
    BY <1>1, HoldingThen, ConcatProperties
<1>3. socket_connect = h \o k
    BY DEF socket_connect
<1>4. ConnectThen(y) = Cons(Lock("G"), g \o Cons(Unlock("G"), ky))
    BY DEF ConnectThen, Cons
<1>. HIDE DEF g, k
<1>5. h \o ky = Cons(Lock("G"), g \o Cons(Unlock("G"), ky))
  <2>. HIDE DEF ky
  <2>. QED
      BY <1>1, <1>2, HoldingThen
<1>. HIDE DEF h
<1>6. (h \o k) \o y = h \o ky
  <2>1. InARow(h, k, y)
      BY <1>1, <1>2, OpConcat
  <2>. QED
      BY <2>1 DEF InARow
<1>7. h \o k \in Seq(Op)
    BY <1>1, <1>2, ConcatProperties
<1>. QED
    BY <1>3, <1>4, <1>5, <1>6, <1>7

(* A connect, in front of code that holds at most remote_list_mutex.       *)
LEMMA PutConnect ==
    ASSUME NEW S \in SUBSET Op, NEW y, Fine(S, y), ProbeOp \subseteq S,
           Held(y) \subseteq {"R"}, "G" \notin Asks(y)
    PROVE  /\ Fine(S, ConnectThen(y))
           /\ Held(ConnectThen(y)) = Held(y)
           /\ Links(ConnectThen(y)) = Links(y)
<1>. DEFINE k == Cons(Do("connect"), y)
            u == Cons(Unlock("G"), k)
            g == Cons(Do("gethostbyname"), u)
            l == Cons(Lock("G"), g)
<1>1. Lock("G") \in S /\ Unlock("G") \in S /\ Do("connect") \in S /\ Do("gethostbyname") \in S
      /\ "G" \in Mutex
    BY DEF ProbeOp, Mutex
<1>0. Do("connect")[1] = "connect" /\ Do("gethostbyname")[1] = "gethostbyname"
    BY OpParts
<1>a. y \in Seq(S)
    BY DEF Fine
<1>2. Fine(S, k) /\ Held(k) = Held(y) /\ Asks(k) = Asks(y) /\ Links(k) = Links(y)
    BY <1>0, <1>1, PutOther
<1>b. k \in Seq(S) /\ k # <<>> /\ Head(k) = Do("connect")
    BY <1>1, <1>a, ConsFacts
<1>. HIDE DEF k
<1>3. Fine(S, u) /\ Held(u) = Held(k) \cup {"G"} /\ Asks(u) = Asks(k) /\ Links(u) = Links(k)
    BY <1>1, <1>2, PutUnlock
<1>c. u # <<>> /\ Head(u) = Unlock("G") /\ Tail(u) = k
    BY <1>1, <1>b, ConsFacts
<1>. HIDE DEF u
<1>4. Fits(Do("gethostbyname"), u)
  <2>1. \A n : Do("gethostbyname") # Unlock(n) /\ Do("gethostbyname") # Lock(n)
      BY OpParts
  <2>. QED
      BY <2>1, <1>0, <1>b, <1>c DEF Fits
<1>5. Fine(S, g)
    BY <1>1, <1>3, <1>4, Put
<1>d. Do("gethostbyname") \in Op /\ u \in Seq(Op)
    BY <1>1, <1>3, FineOp
<1>6. Held(g) = Held(u) /\ Links(g) = Links(u)
    BY <1>d, <1>0, HeldCons, LinksCons
<1>. HIDE DEF g
<1>7. Fine(S, l) /\ Held(l) = Held(g) \ {"G"} /\ Links(l) = Links(g)
  <2>1. "G" \in Held(g) /\ Held(g) \subseteq {"G"} \cup Above("G")
      BY <1>2, <1>3, <1>6 DEF Above
  <2>. QED
      BY <1>1, <1>5, <2>1, PutLock
<1>8. Held(l) = Held(y) /\ Links(l) = Links(y)
    BY <1>2, <1>3, <1>6, <1>7
<1>9. l = ConnectThen(y)
    BY DEF l, g, u, k, ConnectThen
<1>. QED
    BY <1>7, <1>8, <1>9

(* An empty critical section, in front of code that holds at most what may *)
(* be held outside it.                                                     *)
LEMMA PutEmptySection ==
    ASSUME NEW S \in SUBSET Op, NEW y, Fine(S, y), SharedOp \subseteq S,
           NEW m \in {"R", "C"}, Held(y) \subseteq Above(m)
    PROVE  LET h == Holding(m, <<>>) \o y
           IN  /\ h = Cons(Lock(m), Cons(Unlock(m), y))
               /\ Fine(S, h) /\ Held(h) = Held(y)
               /\ Asks(h) = Asks(y) \cup {m} /\ Links(h) = Links(y)
<1>. DEFINE e == <<>>
            u == Cons(Unlock(m), y)
            l == Cons(Lock(m), u)
<1>0. m \in Mutex /\ m # "G" /\ m \notin Above(m)
    BY DEF Mutex, Above
<1>1. Lock(m) \in S /\ Unlock(m) \in S
    BY <1>0, OpSets
<1>2. y \in Seq(Op) /\ e \in Seq(Op)
    BY FineOp, EmptySeq
<1>3. Fine(S, u) /\ Held(u) = Held(y) \cup {m} /\ Asks(u) = Asks(y) /\ Links(u) = Links(y)
    BY <1>0, <1>1, PutUnlock
<1>4. Holding(m, e) \o y = Cons(Lock(m), e \o u)
    BY <1>0, <1>2, HoldingThen
<1>5. u \in Seq(Op)
    BY <1>3, FineOp
<1>. HIDE DEF u
<1>6. e \o u = u
    BY <1>5, ConcatEmptySeq
<1>7. Fine(S, l) /\ Held(l) = Held(u) \ {m} /\ Asks(l) = Asks(u) \cup {m} /\ Links(l) = Links(u)
  <2>1. m \in Held(u) /\ Held(u) \subseteq {m} \cup Above(m)
      BY <1>3
  <2>. QED
      BY <1>0, <1>1, <1>3, <2>1, PutLock
<1>8. Held(l) = Held(y) /\ Asks(l) = Asks(y) \cup {m} /\ Links(l) = Links(y)
    BY <1>0, <1>3, <1>7
<1>9. Holding(m, <<>>) \o y = l
    BY <1>4, <1>6
<1>10. l = Cons(Lock(m), Cons(Unlock(m), y))
    BY DEF u
<1>. HIDE DEF l
<1>. QED
    BY <1>7, <1>8, <1>9, <1>10

(* One with something to do in it: when that fits.                         *)
SectionFits(S, y, m, a) ==
    /\ S \subseteq Op /\ SharedOp \subseteq S
    /\ Fine(S, y)
    /\ m \in {"R", "C"} /\ Held(y) \subseteq Above(m)
    /\ a \in S /\ a[1] \in {"dispose", "detach", "accepted", "check"}
    /\ a[1] = "dispose" => m = "R"

(* A critical section around one operation.                                *)
LEMMA PutSection ==
    ASSUME NEW S, NEW y, NEW m, NEW a, SectionFits(S, y, m, a)
    PROVE  LET h == Holding(m, One(a)) \o y
           IN  /\ h = Cons(Lock(m), Cons(a, Cons(Unlock(m), y)))
               /\ Fine(S, h) /\ Held(h) = Held(y)
               /\ Asks(h) = Asks(y) \cup {m} /\ Links(h) = Links(y)
<1>s. /\ S \in SUBSET Op /\ Fine(S, y) /\ SharedOp \subseteq S
      /\ m \in {"R", "C"} /\ Held(y) \subseteq Above(m)
      /\ a \in S /\ a[1] \in {"dispose", "detach", "accepted", "check"}
      /\ a[1] = "dispose" => m = "R"
    BY DEF SectionFits
<1>. DEFINE b == One(a)
            u == Cons(Unlock(m), y)
            k == Cons(a, u)
            l == Cons(Lock(m), k)
<1>0. m \in Mutex /\ m # "G" /\ m \notin Above(m) /\ (m = "R" => Above(m) = {})
    BY <1>s DEF Mutex, Above
<1>1. Lock(m) \in S /\ Unlock(m) \in S
    BY <1>s, <1>0, OpSets
<1>a. y \in Seq(Op) /\ a \in Op
    BY <1>s, FineOp
<1>2. y \in Seq(Op) /\ b \in Seq(Op)
    BY <1>a DEF One
<1>3. Fine(S, u) /\ Held(u) = Held(y) \cup {m} /\ Asks(u) = Asks(y) /\ Links(u) = Links(y)
    BY <1>s, <1>0, <1>1, PutUnlock
<1>. HIDE DEF b
<1>4. Holding(m, b) \o y = Cons(Lock(m), b \o u)
    BY <1>0, <1>2, HoldingThen
<1>. HIDE DEF u
<1>5. b \o u = k
    BY DEF b, One, Cons
<1>6. Fine(S, k) /\ Held(k) = Held(u) /\ Asks(k) = Asks(u) /\ Links(k) = Links(u)
  <2>1. a[1] = "dispose" => Held(u) \subseteq {"R"}
      BY <1>s, <1>0, <1>3
  <2>2. /\ a[1] \notin {"lock", "unlock", "gethostbyname", "link"}
        /\ a[1] \in {"dispose", "dispose_all"} => Held(u) \subseteq {"R"}
        /\ a[1] \in {"close", "close_all", "join", "poll_new", "poll_loop"} => Held(u) = {}
        /\ a[1] \in {"close", "close_all"} => Links(u) = {}
      BY <1>s, <2>1
  <2>3. S \in SUBSET Op /\ a \in S /\ Fine(S, u)
      BY <1>s, <1>3
  <2>. QED
      BY <2>2, <2>3, PutOther
<1>. HIDE DEF k
<1>7. Fine(S, l) /\ Held(l) = Held(k) \ {m} /\ Asks(l) = Asks(k) \cup {m} /\ Links(l) = Links(k)
  <2>1. m \in Held(k) /\ Held(k) \subseteq {m} \cup Above(m)
      BY <1>s, <1>3, <1>6
  <2>. QED
      BY <1>s, <1>0, <1>1, <1>6, <2>1, PutLock
<1>8. Held(l) = Held(y) /\ Asks(l) = Asks(y) \cup {m} /\ Links(l) = Links(y)
    BY <1>s, <1>0, <1>3, <1>6, <1>7
<1>9. Holding(m, One(a)) \o y = l
    BY <1>4, <1>5 DEF b
<1>10. l = Cons(Lock(m), Cons(a, Cons(Unlock(m), y)))
    BY DEF k, u
<1>. HIDE DEF l
<1>. QED
    BY <1>7, <1>8, <1>9, <1>10

(* A connection under remote_list_mutex.                                   *)
LEMMA PutConnectSection ==
    ASSUME NEW S \in SUBSET Op, NEW y, Fine(S, y), SharedOp \subseteq S,
           Held(y) = {}, "G" \notin Asks(y)
    PROVE  LET h == Holding("R", socket_connect) \o y
           IN  Fine(S, h) /\ Held(h) = {} /\ Links(h) = Links(y)
<1>. DEFINE m == "R"
            u == Cons(Unlock(m), y)
            k == ConnectThen(u)
            l == Cons(Lock(m), k)
            h == Holding(m, socket_connect) \o y
<1>0. m \in Mutex /\ m # "G" /\ Above(m) = {}
    BY DEF Mutex, Above
<1>1. Lock(m) \in S /\ Unlock(m) \in S /\ ProbeOp \subseteq S
    BY <1>0, OpSets
<1>2. y \in Seq(Op)
    BY FineOp
<1>3. Fine(S, u) /\ Held(u) = Held(y) \cup {m} /\ Asks(u) = Asks(y) /\ Links(u) = Links(y)
    BY <1>0, <1>1, PutUnlock
<1>4. u \in Seq(Op)
    BY <1>3, FineOp
<1>5. h = Cons(Lock(m), socket_connect \o u)
    BY <1>0, <1>2, ConnectIs, HoldingThen
<1>6. Held(u) = {"R"} /\ "G" \notin Asks(u)
    BY <1>3
<1>. HIDE DEF u
<1>7. socket_connect \o u = k
    BY <1>4, ConnectIs
<1>8. Fine(S, k) /\ Held(k) = Held(u) /\ Links(k) = Links(u)
    BY <1>1, <1>3, <1>6, PutConnect
<1>. HIDE DEF k
<1>9. Fine(S, l) /\ Held(l) = Held(k) \ {m} /\ Links(l) = Links(k)
  <2>1. m \in Held(k) /\ Held(k) \subseteq {m} \cup Above(m)
      BY <1>6, <1>8
  <2>. QED
      BY <1>0, <1>1, <1>8, <2>1, PutLock
<1>10. Held(l) = {} /\ Links(l) = Links(y)
    BY <1>3, <1>6, <1>8, <1>9
<1>11. h = l
    BY <1>5, <1>7
<1>. HIDE DEF h, l
<1>12. Fine(S, h) /\ Held(h) = {} /\ Links(h) = Links(y)
    BY <1>9, <1>10, <1>11
<1>. QED
    BY <1>12 DEF h

(* What both threads do under remote_list_mutex.                           *)
LEMMA SharedHandlers ==
    ASSUME NEW S \in SUBSET Op, NEW y, Fine(S, y), SharedOp \subseteq S,
           Held(y) = {}, "G" \notin Asks(y), NEW s \in remote_mux_new \cup {remote_reap}
    PROVE  /\ s \in Seq(Op) /\ Fine(S, s \o y)
           /\ Held(s \o y) = {} /\ Links(s \o y) = Links(y)
<1>. DEFINE e == <<>>
            d == <<Do("dispose")>>
            r == "R"
<1>1. e \in Seq(Op) /\ d \in Seq(Op) /\ r \in Mutex /\ r \in {"R", "C"}
    BY EmptySeq, OpSets DEF Word, Mutex
<1>2. Do("dispose") \in S /\ Do("dispose")[1] = "dispose"
    BY OpParts DEF SharedOp
<1>3. y \in Seq(Op) /\ Held(y) \subseteq Above(r)
    BY FineOp
<1>4. CASE s = Holding("R", socket_connect)
  <2>1. s \in Seq(Op)
      BY <1>1, <1>4, ConnectIs, HoldingThen
  <2>. QED
      BY <1>4, <2>1, PutConnectSection
<1>5. CASE s = Holding("R", <<>>)
  <2>1. s \in Seq(Op)
      BY <1>1, <1>5, HoldingThen
  <2>. QED
      BY <1>3, <1>1, <1>5, <2>1, PutEmptySection
<1>6. CASE s = Holding("R", <<Do("dispose")>>)
  <2>1. s \in Seq(Op)
      BY <1>1, <1>6, HoldingThen
  <2>. DEFINE a == Do("dispose")
  <2>2. SectionFits(S, y, r, a) /\ s = Holding(r, One(a))
      BY <1>1, <1>2, <1>3, <1>6 DEF One, SectionFits
  <2>. HIDE DEF a
  <2>. QED
      BY <2>1, <2>2, PutSection
<1>. QED
    BY <1>4, <1>5, <1>6 DEF remote_mux_new, remote_reap

-----------------------------------------------------------------------------
(* The handlers of the main thread.                                        *)

(* s can be handed to the main thread when it is in its loop.              *)
Handler(s) == Fine(WorkOp, s) /\ Held(s) = {}

(* One operation.                                                          *)
LEMMA OneIsCons ==
    ASSUME NEW a \in Op
    PROVE  <<a>> = Cons(a, <<>>)
BY DEF Cons

(* Nothing to do.                                                          *)
LEMMA EmptyFine ==
    ASSUME NEW S \in SUBSET Op
    PROVE  /\ Fine(S, <<>>)
           /\ Held(<<>>) = {} /\ Asks(<<>>) = {} /\ Links(<<>>) = {}
BY EmptySeq, EmptyDisciplined, NothingInEmpty DEF Fine

(* One of the critical sections both threads have.                         *)
LEMMA SharedAlone ==
    ASSUME NEW s \in remote_mux_new \cup {remote_reap}
    PROVE  Handler(s) /\ Links(s) = {}
<1>. DEFINE y == <<>>
            S == WorkOp
<1>1. S \in SUBSET Op /\ SharedOp \subseteq S
    BY OpSets
<1>. HIDE DEF S
<1>2. Fine(S, y) /\ Held(y) = {} /\ Asks(y) = {} /\ Links(y) = {}
    BY <1>1, EmptyFine
<1>. HIDE DEF y
<1>3. "G" \notin Asks(y)
    BY <1>2
<1>4. s \in Seq(Op) /\ Fine(S, s \o y) /\ Held(s \o y) = {} /\ Links(s \o y) = Links(y)
    BY <1>1, <1>2, <1>3, SharedHandlers
<1>5. s \o y = s
    BY <1>4, ConcatEmptySeq DEF y
<1>. QED
    BY <1>2, <1>4, <1>5 DEF Handler, S

(* What starts or ends with an empty critical section.                     *)
LEMMA EmptySectionFirst ==
    ASSUME NEW m \in {"R", "C"}, NEW y, Handler(y)
    PROVE  /\ Handler(Holding(m, <<>>) \o y)
           /\ Links(Holding(m, <<>>) \o y) = Links(y)
           /\ Asks(Holding(m, <<>>) \o y) = Asks(y) \cup {m}
<1>. DEFINE S == WorkOp
<1>1. S \in SUBSET Op /\ SharedOp \subseteq S /\ Fine(S, y) /\ Held(y) = {}
    BY OpSets DEF Handler
<1>2. Held(y) \subseteq Above(m)
    BY <1>1
<1>. HIDE DEF S
<1>. DEFINE h == Holding(m, <<>>) \o y
<1>3. Fine(S, h) /\ Held(h) = Held(y) /\ Links(h) = Links(y) /\ Asks(h) = Asks(y) \cup {m}
    BY <1>1, <1>2, PutEmptySection
<1>. QED
    BY <1>1, <1>3 DEF Handler, S

(* A critical section that does nothing else.                              *)
LEMMA EmptySectionAlone ==
    ASSUME NEW m \in {"R", "C"}
    PROVE  Handler(Holding(m, <<>>)) /\ Links(Holding(m, <<>>)) = {}
           /\ Asks(Holding(m, <<>>)) = {m}
<1>. DEFINE y == <<>>
            h == Holding(m, <<>>)
<1>1. y \in Seq(Op) /\ m \in Mutex
    BY EmptySeq DEF Mutex
<1>2. h \in Seq(Op)
    BY <1>1, HoldingThen
<1>3. Handler(y) /\ Links(y) = {} /\ Asks(y) = {}
    BY EmptyFine, OpSets DEF Handler
<1>. HIDE DEF y
<1>4. Handler(h \o y) /\ Links(h \o y) = {} /\ Asks(h \o y) = {m}
    BY <1>3, EmptySectionFirst
<1>. HIDE DEF h
<1>5. h \o y = h
    BY <1>2, ConcatEmptySeq DEF y
<1>. QED
    BY <1>4, <1>5 DEF h

(* A critical section with something to do in it.                          *)
LEMMA SectionAlone ==
    ASSUME NEW m \in {"R", "C"}, NEW a \in WorkOp, a[1] \in {"accepted", "check"}
    PROVE  Handler(Holding(m, <<a>>)) /\ Links(Holding(m, <<a>>)) = {}
<1>. DEFINE y == <<>>
            S == WorkOp
            h == Holding(m, One(a))
<1>1. S \subseteq Op /\ SharedOp \subseteq S /\ a \in S /\ a \in Op
    BY OpSets
<1>. HIDE DEF S
<1>2. Fine(S, y) /\ Held(y) = {} /\ Links(y) = {} /\ y \in Seq(Op)
    BY <1>1, EmptyFine, EmptySeq
<1>. HIDE DEF y
<1>3. SectionFits(S, y, m, a)
    BY <1>1, <1>2 DEF SectionFits
<1>4. Fine(S, h \o y) /\ Held(h \o y) = Held(y) /\ Links(h \o y) = Links(y)
    BY <1>3, PutSection
<1>5. h \in Seq(Op)
  <2>. DEFINE b == One(a)
  <2>1. b \in Seq(Op) /\ m \in Mutex
      BY <1>1 DEF One, Mutex
  <2>. HIDE DEF b
  <2>2. Holding(m, b) \in Seq(Op)
      BY <2>1, <1>2, HoldingThen
  <2>. QED
      BY <2>2 DEF b
<1>. HIDE DEF h
<1>6. h \o y = h
    BY <1>5, ConcatEmptySeq DEF y
<1>7. Fine(S, h) /\ Held(h) = {} /\ Links(h) = {}
    BY <1>2, <1>4, <1>6
<1>8. h = Holding(m, <<a>>)
    BY DEF h, One
<1>. QED
    BY <1>7, <1>8 DEF Handler, S

(* client_close by itself.                                                 *)
LEMMA CloseAlone ==
    ASSUME NEW c \in Client
    PROVE  Handler(<<Close(c)>>) /\ Links(<<Close(c)>>) = {} /\ Asks(<<Close(c)>>) = {}
<1>. DEFINE a == Close(c)
            y == <<>>
            S == WorkOp
<1>1. S \in SUBSET Op /\ a \in S /\ a \in Op /\ a[1] = "close"
    BY OpSets, OpParts
<1>2. <<a>> = Cons(a, y)
    BY <1>1, OneIsCons
<1>. HIDE DEF a, S
<1>3. Fine(S, y) /\ Held(y) = {} /\ Links(y) = {} /\ Asks(y) = {}
    BY <1>1, EmptyFine
<1>. HIDE DEF y
<1>4. Fine(S, Cons(a, y)) /\ Held(Cons(a, y)) = Held(y) /\ Asks(Cons(a, y)) = Asks(y)
      /\ Links(Cons(a, y)) = Links(y)
    BY <1>1, <1>3, PutOther
<1>. QED
    BY <1>2, <1>3, <1>4 DEF Handler, S, a

(* A request that makes a connection to link the client to.                *)
LEMMA RequestFine ==
    ASSUME NEW c \in Client, NEW s \in usbmux_remote_request(c)
    PROVE  Handler(s) /\ Links(s) \subseteq {c} \ linked
<1>. DEFINE S == WorkOp
            e == <<>>
            a == Link(c)
            r == "R"
            u == Cons(Unlock(r), e)
            k == Cons(a, u)
<1>0. c \notin linked /\ (s = Holding(r, socket_connect \o <<a>>) \/ s = Holding(r, <<a>>))
    BY DEF usbmux_remote_request
<1>1. /\ S \in SUBSET Op /\ r \in Mutex /\ Lock(r) \in S /\ Unlock(r) \in S /\ a \in S /\ a \in Op
      /\ ProbeOp \subseteq S /\ r # "G" /\ Above(r) = {} /\ Unlock(r) \in Op
    BY OpSets DEF Mutex, Above
<1>. HIDE DEF S
<1>2. Fine(S, e) /\ Held(e) = {} /\ Links(e) = {} /\ Asks(e) = {} /\ e \in Seq(Op)
    BY <1>1, EmptyFine, EmptySeq
<1>. HIDE DEF e
<1>3. Fine(S, u) /\ Held(u) = Held(e) \cup {r} /\ Asks(u) = Asks(e) /\ Links(u) = Links(e)
    BY <1>1, <1>2, PutUnlock
<1>a. u \in Seq(Op)
    BY <1>1, <1>3, FineOp
<1>4. Fine(S, k) /\ Held(k) = Held(u) /\ Asks(k) = Asks(u) /\ Links(k) = {c}
  <2>. HIDE DEF u
  <2>1. Links(u) = {}
      BY <1>2, <1>3
  <2>. QED
      BY <1>1, <1>3, <2>1, PutLink
<1>5. k \in Seq(Op) /\ Held(k) = {"R"} /\ "G" \notin Asks(k)
    BY <1>1, <1>2, <1>3, <1>4, FineOp
<1>6. CASE s = Holding(r, socket_connect \o <<a>>)
  <2>. DEFINE b == <<a>>
              x == ConnectThen(k)
              l == Cons(Lock(r), x)
  <2>1. b \in Seq(Op) /\ b \o u = k
      BY <1>1 DEF Cons
  <2>. HIDE DEF b, k, u, r
  <2>2. socket_connect \in Seq(Op) /\ socket_connect \o k = x
      BY <1>5, ConnectIs
  <2>. DEFINE sb == socket_connect \o b
  <2>3. sb \in Seq(Op)
      BY <2>1, <2>2, ConcatProperties
  <2>4. sb \o u = socket_connect \o (b \o u)
    <3>. DEFINE sc == socket_connect
    <3>1. sc \in Seq(Op) /\ b \in Seq(Op) /\ u \in Seq(Op)
        BY <2>1, <2>2, <1>a
    <3>. HIDE DEF sc
    <3>2. (sc \o b) \o u = sc \o (b \o u)
      <4>1. InARow(sc, b, u)
          BY <3>1, OpConcat
      <4>. QED
          BY <4>1 DEF InARow
    <3>. QED
        BY <3>2 DEF sc
  <2>5. s = Holding(r, sb)
      BY <1>6 DEF b
  <2>. HIDE DEF sb
  <2>6. s = Cons(Lock(r), sb \o Cons(Unlock(r), <<>>))
      BY <2>3, <2>5, <1>1, HoldingAlone
  <2>7. s = l
      BY <2>1, <2>2, <2>4, <2>6 DEF u, e
  <2>8. Fine(S, x) /\ Held(x) = Held(k) /\ Links(x) = Links(k)
      BY <1>1, <1>4, <1>5, PutConnect
  <2>. HIDE DEF x
  <2>9. Fine(S, l) /\ Held(l) = Held(x) \ {r} /\ Links(l) = Links(x)
    <3>1. r \in Held(x) /\ Held(x) \subseteq {r} \cup Above(r)
        BY <2>8, <1>5 DEF r
    <3>. QED
        BY <1>1, <2>8, <3>1, PutLock
  <2>10. Held(l) = {}
      BY <2>8, <2>9, <1>5 DEF r
  <2>. QED
      BY <2>7, <2>8, <2>9, <2>10, <1>0, <1>4 DEF Handler, S
<1>7. CASE s = Holding(r, <<a>>)
  <2>. DEFINE b == <<a>>
              l == Cons(Lock(r), k)
  <2>1. b \in Seq(Op) /\ b \o u = k
      BY <1>1 DEF Cons
  <2>2. s = Holding(r, b)
      BY <1>7
  <2>. HIDE DEF b, k, u, r
  <2>3. s = Cons(Lock(r), b \o Cons(Unlock(r), <<>>))
      BY <2>1, <2>2, <1>1, HoldingAlone
  <2>4. s = l
      BY <2>1, <2>3 DEF u, e
  <2>5. Fine(S, l) /\ Held(l) = Held(k) \ {r} /\ Links(l) = Links(k)
    <3>1. r \in Held(k) /\ Held(k) \subseteq {r} \cup Above(r)
        BY <1>5 DEF r
    <3>. QED
        BY <1>1, <1>4, <3>1, PutLock
  <2>6. Held(l) = {}
      BY <2>5, <1>5 DEF r
  <2>. QED
      BY <2>4, <2>5, <2>6, <1>0, <1>4 DEF Handler, S
<1>. QED
    BY <1>0, <1>6, <1>7

(* Dead remotes are reaped before anything else.                           *)
LEMMA ReapFirst ==
    ASSUME NEW y, Handler(y)
    PROVE  Handler(remote_reap \o y) /\ Links(remote_reap \o y) = Links(y)
<1>. DEFINE S == WorkOp
            a == Do("dispose")
            r == "R"
<1>1. S \subseteq Op /\ SharedOp \subseteq S /\ a \in S /\ a[1] = "dispose"
    BY OpSets, OpParts DEF WorkOp, SharedOp
<1>2. remote_reap = Holding(r, One(a))
    BY DEF remote_reap, One
<1>3. Fine(S, y) /\ Held(y) = {}
    BY DEF Handler
<1>. HIDE DEF S, a
<1>4. SectionFits(S, y, r, a)
    BY <1>1, <1>3 DEF SectionFits
<1>. HIDE DEF r
<1>5. LET h == Holding(r, One(a)) \o y IN Fine(S, h) /\ Held(h) = Held(y) /\ Links(h) = Links(y)
    BY <1>4, PutSection
<1>. QED
    BY <1>2, <1>3, <1>5 DEF Handler, S

(* A device comes or goes: both mutexes, the registry's first.             *)
LEMMA DeviceFine == Handler(client_device_change) /\ Links(client_device_change) = {}
<1>. DEFINE S == WorkOp
            e == <<>>
            r == "R"
            c == "C"
            a == Do("device")
            d == <<a>>
            u == Cons(Unlock(r), e)
            hc == Holding(c, <<>>)
            w == hc \o u
            k == Cons(a, w)
            l == Cons(Lock(r), k)
            b == d \o hc
<1>0. client_device_change = Holding(r, b)
    BY DEF client_device_change
<1>1. /\ S \in SUBSET Op /\ SharedOp \subseteq S /\ r \in Mutex /\ c \in Mutex
      /\ Lock(r) \in S /\ Unlock(r) \in S /\ a \in S /\ a \in Op /\ a[1] = "device"
      /\ r # "G" /\ Above(r) = {} /\ Above(c) = {"R"}
    BY OpSets, OpParts DEF Mutex, Above, WorkOp
<1>a. d \in Seq(Op)
    BY <1>1
<1>. HIDE DEF S, a
<1>2. Fine(S, e) /\ Held(e) = {} /\ Links(e) = {} /\ e \in Seq(Op)
    BY <1>1, EmptyFine, EmptySeq
<1>. HIDE DEF e
<1>3. Fine(S, u) /\ Held(u) = Held(e) \cup {r} /\ Links(u) = Links(e)
    BY <1>1, <1>2, PutUnlock
<1>b. Held(u) = {"R"} /\ Links(u) = {}
    BY <1>2, <1>3
<1>c. u \in Seq(Op)
    BY <1>1, <1>3, FineOp
<1>4. hc \in Seq(Op)
    BY <1>1, <1>2, HoldingThen DEF e
<1>d. d \o w = k
    BY DEF Cons
<1>. HIDE DEF u, d
<1>5. Fine(S, w) /\ Held(w) = Held(u) /\ Links(w) = Links(u)
  <2>1. c \in {"R", "C"} /\ Held(u) \subseteq Above(c)
      BY <1>1, <1>b
  <2>. QED
      BY <1>1, <1>3, <2>1, PutEmptySection
<1>. HIDE DEF hc
<1>e. b \in Seq(Op)
    BY <1>a, <1>4, ConcatProperties
<1>6. b \o u = d \o w
  <2>1. InARow(d, hc, u)
      BY <1>a, <1>c, <1>4, OpConcat
  <2>. QED
      BY <2>1 DEF InARow
<1>. HIDE DEF w, b
<1>7. Fine(S, k) /\ Held(k) = Held(w) /\ Links(k) = Links(w)
    BY <1>1, <1>5, PutOther
<1>. HIDE DEF r, k
<1>8. Holding(r, b) = Cons(Lock(r), b \o Cons(Unlock(r), <<>>))
    BY <1>1, <1>e, HoldingAlone
<1>9. Holding(r, b) = l
    BY <1>6, <1>8, <1>d DEF u, e
<1>10. Fine(S, l) /\ Held(l) = Held(k) \ {r} /\ Links(l) = Links(k)
  <2>1. r \in Held(k) /\ Held(k) \subseteq {r} \cup Above(r)
      BY <1>b, <1>5, <1>7 DEF r
  <2>. QED
      BY <1>1, <1>7, <2>1, PutLock
<1>11. Held(l) = {} /\ Links(l) = {}
    BY <1>b, <1>5, <1>7, <1>10 DEF r
<1>. QED
    BY <1>0, <1>9, <1>10, <1>11 DEF Handler, S

(* What client_process may hand to the main thread.                        *)
LEMMA ClientProcessFine ==
    ASSUME NEW c \in Client, NEW s \in client_process(c)
    PROVE  Handler(s) /\ Links(s) \subseteq {c} \ linked
<1>1. PICK y \in client_command(c) : s = Holding("C", <<>>) \o y
    BY DEF client_process
<1>2. Handler(y) /\ Links(y) \subseteq {c} \ linked
  <2>1. CASE y \in usbmux_remote_request(c)
      BY <2>1, RequestFine
  <2>2. CASE y \in remote_mux_new \cup {remote_reap}
      BY <2>2, SharedAlone
  <2>3. CASE y = Holding("R", <<>>) \/ y = Holding("C", <<>>)
      BY <2>3, EmptySectionAlone
  <2>4. CASE y = <<Close(c)>>
      BY <2>4, CloseAlone
  <2>5. CASE y = <<>>
      BY <2>5, EmptyFine, OpSets DEF Handler
  <2>. QED
      BY <1>1, <2>1, <2>2, <2>3, <2>4, <2>5
      DEF client_command, usbmux_remote_copy, send_listener_list
<1>. DEFINE m == "C"
<1>3. m \in {"R", "C"}
    OBVIOUS
<1>. HIDE DEF m
<1>4. Handler(Holding(m, <<>>) \o y) /\ Links(Holding(m, <<>>) \o y) = Links(y)
    BY <1>2, <1>3, EmptySectionFirst
<1>. QED
    BY <1>1, <1>2, <1>4 DEF m

(* What usbmux_remote_process may.                                         *)
LEMMA RemoteProcessFine ==
    ASSUME NEW s \in usbmux_remote_process, linked \subseteq Client
    PROVE  Handler(s) /\ Links(s) = {}
<1>1. PICK y \in {<<>>, client_device_change, remote_reap, Holding("R", <<>>)}
                 \cup {<<Close(c)>> : c \in linked} : s = remote_reap \o y
    BY DEF usbmux_remote_process
<1>2. Handler(y) /\ Links(y) = {}
  <2>1. CASE y = <<>>
      BY <2>1, EmptyFine, OpSets DEF Handler
  <2>2. CASE y = client_device_change
      BY <2>2, DeviceFine
  <2>3. CASE y = remote_reap
      BY <2>3, SharedAlone
  <2>4. CASE y = Holding("R", <<>>)
      BY <2>4, EmptySectionAlone
  <2>5. ASSUME NEW c \in linked, y = <<Close(c)>> PROVE Handler(y) /\ Links(y) = {}
      BY <2>5, CloseAlone
  <2>. QED
      BY <1>1, <2>1, <2>2, <2>3, <2>4, <2>5
<1>. QED
    BY <1>1, <1>2, ReapFirst

(* The rounds of main_loop, and a client that is accepted.                 *)
LEMMA RoundFine ==
    /\ Handler(client_get_fds \o usbmux_remote_get_fds)
    /\ Links(client_get_fds \o usbmux_remote_get_fds) = {}
    /\ \A c : Handler(client_accept(c)) /\ Links(client_accept(c)) = {}
<1>. DEFINE a == Do("check")
            b == Do("accepted")
            r == "R"
            l == "C"
<1>1. a \in WorkOp /\ b \in WorkOp /\ a[1] = "check" /\ b[1] = "accepted"
    BY OpParts DEF WorkOp
<1>2. r \in {"R", "C"} /\ l \in {"R", "C"}
    OBVIOUS
<1>3. usbmux_remote_get_fds = Holding(r, <<a>>) /\ client_get_fds = Holding(l, <<>>)
      /\ \A c : client_accept(c) = Holding(l, <<b>>)
    BY DEF usbmux_remote_get_fds, client_get_fds, client_accept
<1>. HIDE DEF a, b, r, l
<1>4. Handler(usbmux_remote_get_fds) /\ Links(usbmux_remote_get_fds) = {}
    BY <1>1, <1>2, <1>3, SectionAlone
<1>5. \A c : Handler(client_accept(c)) /\ Links(client_accept(c)) = {}
    BY <1>1, <1>2, <1>3, SectionAlone
<1>6. Handler(client_get_fds \o usbmux_remote_get_fds)
      /\ Links(client_get_fds \o usbmux_remote_get_fds) = {}
    BY <1>2, <1>3, <1>4, EmptySectionFirst
<1>. QED
    BY <1>5, <1>6

-----------------------------------------------------------------------------
(* The shutdown of the main thread.                                        *)

(* Two operations, then y.                                                 *)
LEMMA PairThen ==
    ASSUME NEW a \in Op, NEW b \in Op, NEW y \in Seq(Op)
    PROVE  <<a, b>> \in Seq(Op) /\ <<a, b>> \o y = Cons(a, Cons(b, y))
<1>. DEFINE p == <<a>>
            q == <<b>>
<1>a. p \in Seq(Op) /\ q \in Seq(Op)
    OBVIOUS
<1>c. <<a, b>> \in Seq(Op)
    OBVIOUS
<1>b. <<a, b>> = p \o q
  <2>. DEFINE x == <<a, b>>
              z == p \o q
  <2>1. Len(p) = 1 /\ Len(q) = 1 /\ p[1] = a /\ q[1] = b
      OBVIOUS
  <2>2. x \in Seq(Op) /\ Len(x) = 2 /\ x[1] = a /\ x[2] = b
      BY <1>c
  <2>. HIDE DEF p, q, x
  <2>3. z \in Seq(Op) /\ Len(z) = 2 /\ z[1] = a /\ z[2] = b
      BY <1>a, <2>1, ConcatProperties
  <2>. HIDE DEF z
  <2>4. \A i \in 1 .. 2 : i = 1 \/ i = 2
      OBVIOUS
  <2>5. x = z
      BY <2>2, <2>3, <2>4, SeqEqual
  <2>. QED
      BY <2>5 DEF x, z
<1>1. p \in Seq(Op) /\ q \in Seq(Op) /\ <<a, b>> = p \o q /\ <<a, b>> \in Seq(Op)
    BY <1>a, <1>b, <1>c
<1>2. Cons(a, Cons(b, y)) = p \o (q \o y)
    BY DEF Cons
<1>. HIDE DEF p, q
<1>3. (p \o q) \o y = p \o (q \o y)
  <2>1. InARow(p, q, y)
      BY <1>1, OpConcat
  <2>. QED
      BY <2>1 DEF InARow
<1>. QED
    BY <1>1, <1>2, <1>3

(* Three operations, then y.                                               *)
LEMMA TripleThen ==
    ASSUME NEW a \in Op, NEW b \in Op, NEW c \in Op, NEW y \in Seq(Op)
    PROVE  /\ <<a, b, c>> \in Seq(Op)
           /\ <<a, b, c>> \o y = Cons(a, Cons(b, Cons(c, y)))
<1>. DEFINE p == <<a, b>>
            q == <<c>>
            cy == q \o y
<1>1. p \in Seq(Op) /\ q \in Seq(Op) /\ <<a, b, c>> = p \o q /\ <<a, b, c>> \in Seq(Op)
    OBVIOUS
<1>2. Cons(c, y) = cy
    BY DEF Cons
<1>3. cy \in Seq(Op)
    BY <1>1, ConcatProperties
<1>. HIDE DEF q
<1>4. p \o cy = Cons(a, Cons(b, cy))
  <2>. HIDE DEF cy
  <2>. QED
      BY <1>3, PairThen
<1>. HIDE DEF p
<1>5. (p \o q) \o y = p \o cy
  <2>1. InARow(p, q, y)
      BY <1>1, OpConcat
  <2>. QED
      BY <2>1 DEF InARow
<1>. QED
    BY <1>1, <1>2, <1>4, <1>5

(* What follows in each stage, and what is held there.                     *)
StageFacts(s, a, r) == Fine(Op, s) /\ s # <<>> /\ Head(s) = a /\ Tail(s) = r /\ Links(s) = {}

(* One more step of shutdown, which locks and unlocks nothing.             *)
LEMMA PutStage ==
    ASSUME NEW a \in Op, NEW r, Fine(Op, r), Links(r) = {},
           a[1] \in {"destroy", "exit", "detach", "dispose_all", "join", "poll_quit",
                     "poll_there", "close_all", "close"},
           Held(r) = {} \/ a[1] = "detach" \/ (a[1] = "dispose_all" /\ Held(r) = {"R"})
    PROVE  StageFacts(Cons(a, r), a, r) /\ Held(Cons(a, r)) = Held(r)
<1>. DEFINE S == Op
<1>1. S \in SUBSET Op /\ a \in S /\ Fine(S, r) /\ r \in Seq(Op)
    BY DEF Fine
<1>. HIDE DEF S
<1>2. Fine(S, Cons(a, r)) /\ Held(Cons(a, r)) = Held(r) /\ Links(Cons(a, r)) = Links(r)
    BY <1>1, PutOther
<1>3. Cons(a, r) # <<>> /\ Head(Cons(a, r)) = a /\ Tail(Cons(a, r)) = r
    BY <1>1, OpCons
<1>. QED
    BY <1>2, <1>3 DEF StageFacts, S

(* One more lock.                                                          *)
LEMMA LockStage ==
    ASSUME NEW m \in Mutex, NEW r, Fine(Op, r), Links(r) = {},
           m \in Held(r), Held(r) \subseteq {m} \cup Above(m)
    PROVE  StageFacts(Cons(Lock(m), r), Lock(m), r) /\ Held(Cons(Lock(m), r)) = Held(r) \ {m}
<1>. DEFINE S == Op
            a == Lock(m)
<1>1. S \in SUBSET Op /\ a \in S /\ Fine(S, r) /\ r \in Seq(Op) /\ a \in Op
    BY OpSets DEF Fine
<1>2. Fine(S, Cons(a, r)) /\ Held(Cons(a, r)) = Held(r) \ {m} /\ Links(Cons(a, r)) = Links(r)
  <2>. HIDE DEF S
  <2>. QED
      BY <1>1, PutLock
<1>. HIDE DEF S, a
<1>3. Cons(a, r) # <<>> /\ Head(Cons(a, r)) = a /\ Tail(Cons(a, r)) = r
    BY <1>1, OpCons
<1>. QED
    BY <1>2, <1>3 DEF StageFacts, S, a

(* One more unlock.                                                        *)
LEMMA UnlockStage ==
    ASSUME NEW m \in Mutex, m # "G", NEW r, Fine(Op, r), Links(r) = {}, m \notin Held(r)
    PROVE  StageFacts(Cons(Unlock(m), r), Unlock(m), r)
           /\ Held(Cons(Unlock(m), r)) = Held(r) \cup {m}
<1>. DEFINE S == Op
            a == Unlock(m)
<1>1. S \in SUBSET Op /\ a \in S /\ Fine(S, r) /\ r \in Seq(Op) /\ a \in Op
    BY OpSets DEF Fine
<1>2. Fine(S, Cons(a, r)) /\ Held(Cons(a, r)) = Held(r) \cup {m} /\ Links(Cons(a, r)) = Links(r)
  <2>. HIDE DEF S
  <2>. QED
      BY <1>1, PutUnlock
<1>. HIDE DEF S, a
<1>3. Cons(a, r) # <<>> /\ Head(Cons(a, r)) = a /\ Tail(Cons(a, r)) = r
    BY <1>1, OpCons
<1>. QED
    BY <1>2, <1>3 DEF StageFacts, S, a

(* The end of it.                                                          *)
LEMMA EndFacts ==
    /\ StageFacts(Exit, Do("exit"), <<>>) /\ Held(Exit) = {}
    /\ StageFacts(DestroyG, Destroy("G"), Exit) /\ Held(DestroyG) = {}
    /\ StageFacts(DestroyR, Destroy("R"), DestroyG) /\ Held(DestroyR) = {}
    /\ StageFacts(UnlockR, Unlock("R"), DestroyR) /\ Held(UnlockR) = {"R"}
    /\ StageFacts(Detached, Unlock("C"), UnlockR) /\ Held(Detached) = {"R", "C"}
    /\ StageFacts(Detaching, Do("detach"), Detached) /\ Held(Detaching) = {"R", "C"}
    /\ StageFacts(Telling, Lock("C"), Detaching) /\ Held(Telling) = {"R"}
    /\ StageFacts(Disposing, Do("dispose_all"), UnlockR) /\ Held(Disposing) = {"R"}
    /\ StageFacts(Entering, Lock("R"), Disposing) /\ Held(Entering) = {}
<1>0. /\ Do("exit") \in Op /\ Do("detach") \in Op /\ Do("dispose_all") \in Op
      /\ Destroy("G") \in Op /\ Destroy("R") \in Op
      /\ "R" \in Mutex /\ "C" \in Mutex /\ Above("R") = {} /\ Above("C") = {"R"}
    BY OpSets DEF Word, Mutex, Above
<1>a. /\ Do("exit")[1] = "exit" /\ Do("detach")[1] = "detach" /\ Do("dispose_all")[1] = "dispose_all"
      /\ Destroy("G")[1] = "destroy" /\ Destroy("R")[1] = "destroy"
    BY OpParts
<1>1. StageFacts(Exit, Do("exit"), <<>>) /\ Held(Exit) = {}
    BY <1>0, <1>a, EmptyFine, PutStage DEF Exit
<1>2. StageFacts(DestroyG, Destroy("G"), Exit) /\ Held(DestroyG) = {}
    BY <1>0, <1>a, <1>1, PutStage DEF DestroyG, StageFacts
<1>3. StageFacts(DestroyR, Destroy("R"), DestroyG) /\ Held(DestroyR) = {}
    BY <1>0, <1>a, <1>2, PutStage DEF DestroyR, StageFacts
<1>4. StageFacts(UnlockR, Unlock("R"), DestroyR) /\ Held(UnlockR) = {"R"}
    BY <1>0, <1>3, UnlockStage DEF UnlockR, StageFacts
<1>5. StageFacts(Detached, Unlock("C"), UnlockR) /\ Held(Detached) = {"R", "C"}
    BY <1>0, <1>4, UnlockStage DEF Detached, StageFacts
<1>6. StageFacts(Detaching, Do("detach"), Detached) /\ Held(Detaching) = {"R", "C"}
    BY <1>0, <1>a, <1>5, PutStage DEF Detaching, StageFacts
<1>7. StageFacts(Telling, Lock("C"), Detaching) /\ Held(Telling) = {"R"}
    BY <1>0, <1>6, LockStage DEF Telling, StageFacts
<1>8. StageFacts(Disposing, Do("dispose_all"), UnlockR) /\ Held(Disposing) = {"R"}
    BY <1>0, <1>a, <1>4, PutStage DEF Disposing, StageFacts
<1>9. StageFacts(Entering, Lock("R"), Disposing) /\ Held(Entering) = {}
    BY <1>0, <1>8, LockStage DEF Entering, StageFacts
<1>. QED
    BY <1>1, <1>2, <1>3, <1>4, <1>5, <1>6, <1>7, <1>8, <1>9

(* The mDNS thread is told and joined, and before that all clients closed. *)
LEMMA FirstFacts ==
    /\ StageFacts(Joining, Do("join"), Entering) /\ Held(Joining) = {}
    /\ StageFacts(Quitting, Do("poll_quit"), Joining) /\ Held(Quitting) = {}
    /\ StageFacts(Asking, Do("poll_there"), Quitting) /\ Held(Asking) = {}
    /\ StageFacts(DestroyC, Destroy("C"), IF "mdns" \in Env THEN Asking ELSE Entering)
    /\ Held(DestroyC) = {}
    /\ StageFacts(Closing, Do("close_all"), DestroyC) /\ Held(Closing) = {}
    /\ \A c \in Client : StageFacts(CloseLast(c), Close(c), Closing) /\ Held(CloseLast(c)) = {}
    /\ StageFacts(Unlisted, Unlock("C"), Closing) /\ Held(Unlisted) = {"C"}
    /\ StageFacts(Unlisting, Lock("C"), Unlisted) /\ Held(Unlisting) = {}
    /\ StageFacts(Unlinked, Unlock("R"), Unlisting) /\ Held(Unlinked) = {"R"}
    /\ StageFacts(Unlinking, Lock("R"), Unlinked) /\ Held(Unlinking) = {}
<1>0. /\ Do("join") \in Op /\ Do("poll_quit") \in Op /\ Do("poll_there") \in Op
      /\ Do("close_all") \in Op /\ Destroy("C") \in Op /\ \A c \in Client : Close(c) \in Op
    BY OpSets DEF Word, Mutex
<1>a. /\ Do("join")[1] = "join" /\ Do("poll_quit")[1] = "poll_quit" /\ Do("poll_there")[1] = "poll_there"
      /\ Do("close_all")[1] = "close_all" /\ Destroy("C")[1] = "destroy"
      /\ \A c : Close(c)[1] = "close"
    BY OpParts
<1>b. "R" \in Mutex /\ "C" \in Mutex /\ Above("R") = {} /\ Above("C") = {"R"}
    BY DEF Mutex, Above
<1>c. Fine(Op, Entering) /\ Links(Entering) = {} /\ Held(Entering) = {}
    BY EndFacts DEF StageFacts
<1>1. StageFacts(Joining, Do("join"), Entering) /\ Held(Joining) = {}
    BY <1>0, <1>a, <1>c, PutStage DEF Joining
<1>2. StageFacts(Quitting, Do("poll_quit"), Joining) /\ Held(Quitting) = {}
    BY <1>0, <1>a, <1>1, PutStage DEF Quitting, StageFacts
<1>3. StageFacts(Asking, Do("poll_there"), Quitting) /\ Held(Asking) = {}
    BY <1>0, <1>a, <1>2, PutStage DEF Asking, StageFacts
<1>4. StageFacts(DestroyC, Destroy("C"), IF "mdns" \in Env THEN Asking ELSE Entering)
      /\ Held(DestroyC) = {}
  <2>. DEFINE r == IF "mdns" \in Env THEN Asking ELSE Entering
  <2>1. Fine(Op, r) /\ Links(r) = {} /\ Held(r) = {}
      BY <1>3, <1>c DEF StageFacts
  <2>2. DestroyC = Cons(Destroy("C"), r)
      BY DEF DestroyC
  <2>. HIDE DEF r
  <2>3. StageFacts(DestroyC, Destroy("C"), r) /\ Held(DestroyC) = {}
      BY <1>0, <1>a, <2>1, <2>2, PutStage
  <2>. QED
      BY <2>3 DEF r
<1>5. StageFacts(Closing, Do("close_all"), DestroyC) /\ Held(Closing) = {}
    BY <1>0, <1>a, <1>4, PutStage DEF Closing, StageFacts
<1>d. Fine(Op, Closing) /\ Links(Closing) = {} /\ Held(Closing) = {}
    BY <1>5 DEF StageFacts
<1>6. ASSUME NEW c \in Client
      PROVE  StageFacts(CloseLast(c), Close(c), Closing) /\ Held(CloseLast(c)) = {}
    BY <1>0, <1>a, <1>d, PutStage DEF CloseLast
<1>7. StageFacts(Unlisted, Unlock("C"), Closing) /\ Held(Unlisted) = {"C"}
    BY <1>b, <1>d, UnlockStage DEF Unlisted
<1>8. StageFacts(Unlisting, Lock("C"), Unlisted) /\ Held(Unlisting) = {}
    BY <1>b, <1>7, LockStage DEF Unlisting, StageFacts
<1>9. StageFacts(Unlinked, Unlock("R"), Unlisting) /\ Held(Unlinked) = {"R"}
    BY <1>b, <1>8, UnlockStage DEF Unlinked, StageFacts
<1>10. StageFacts(Unlinking, Lock("R"), Unlinked) /\ Held(Unlinking) = {}
    BY <1>b, <1>9, LockStage DEF Unlinking, StageFacts
<1>. QED
    BY <1>1, <1>2, <1>3, <1>4, <1>5, <1>6, <1>7, <1>8, <1>9, <1>10

(* The rest of main() begins by closing the clients.                       *)
LEMMA ShutdownIs == shutdown = Closing
<1>. DEFINE e == <<>>
            d == <<Do("dispose_all")>>
            T == <<Destroy("R"), Destroy("G"), Do("exit")>>
            H == Holding("R", d)
            A == IF "mdns" \in Env THEN <<Do("poll_there"), Do("poll_quit"), Do("join")>> ELSE <<>>
            B == IF "mdns" \in Env THEN Asking ELSE Entering
            HT == H \o T
<1>0. /\ Do("join") \in Op /\ Do("poll_quit") \in Op /\ Do("poll_there") \in Op
      /\ Do("close_all") \in Op /\ Destroy("C") \in Op /\ Destroy("R") \in Op /\ Destroy("G") \in Op
      /\ Do("exit") \in Op /\ Do("dispose_all") \in Op /\ "R" \in Mutex
    BY OpSets DEF Word, Mutex
<1>1. e \in Seq(Op) /\ d \in Seq(Op)
    BY <1>0, EmptySeq
<1>2. T \in Seq(Op) /\ T \o e = DestroyR
  <2>. DEFINE x == Destroy("R")
              y == Destroy("G")
              z == Do("exit")
  <2>1. x \in Op /\ y \in Op /\ z \in Op /\ T = <<x, y, z>> /\ DestroyR = Cons(x, Cons(y, Cons(z, e)))
      BY <1>0 DEF DestroyR, DestroyG, Exit
  <2>. HIDE DEF x, y, z, e, T
  <2>2. <<x, y, z>> \in Seq(Op) /\ <<x, y, z>> \o e = Cons(x, Cons(y, Cons(z, e)))
      BY <1>1, <2>1, TripleThen
  <2>. QED
      BY <2>1, <2>2
<1>3. shutdown = client_shutdown \o usbmux_remote_shutdown
      /\ usbmux_remote_shutdown = (A \o H) \o T
    BY DEF shutdown, usbmux_remote_shutdown
<1>4. Disposing = d \o Cons(Unlock("R"), DestroyR) /\ Entering = Cons(Lock("R"), Disposing)
    BY DEF Entering, Disposing, UnlockR, Cons
<1>. HIDE DEF T
<1>5. T = DestroyR
    BY <1>2, ConcatEmptySeq
<1>. HIDE DEF d
<1>6. H \in Seq(Op) /\ HT = Cons(Lock("R"), d \o Cons(Unlock("R"), T))
    BY <1>0, <1>1, <1>2, HoldingThen
<1>7. HT = Entering
    BY <1>4, <1>5, <1>6
<1>8. Entering \in Seq(Op)
    BY EndFacts DEF StageFacts, Fine
<1>9. A \in Seq(Op) /\ A \o Entering = B
  <2>1. CASE "mdns" \in Env
    <3>. DEFINE X == <<Do("poll_there"), Do("poll_quit"), Do("join")>>
    <3>1. X \in Seq(Op) /\ X \o Entering = Cons(Do("poll_there"), Cons(Do("poll_quit"), Cons(Do("join"), Entering)))
        BY <1>0, <1>8, TripleThen
    <3>2. A = X /\ B = Asking
        BY <2>1
    <3>. HIDE DEF X, A, B
    <3>. QED
        BY <3>1, <3>2 DEF Asking, Quitting, Joining
  <2>2. CASE "mdns" \notin Env
    <3>1. A = e /\ B = Entering
        BY <2>2
    <3>. HIDE DEF A, B
    <3>2. <<>> \o Entering = Entering
        BY <1>8, ConcatEmptySeq
    <3>. QED
        BY <3>1, <3>2, <1>1
  <2>. QED
      BY <2>1, <2>2
<1>. HIDE DEF A, H, B
<1>10. (A \o H) \o T = A \o HT
  <2>1. A \in Seq(Op) /\ H \in Seq(Op) /\ T \in Seq(Op)
      BY <1>9, <1>6, <1>2
  <2>2. InARow(A, H, T)
      BY <2>1, OpConcat
  <2>. QED
      BY <2>2 DEF InARow
<1>11. usbmux_remote_shutdown = B
    BY <1>3, <1>7, <1>9, <1>10
<1>12. B \in Seq(Op)
    BY <1>8, <1>9, ConcatProperties
<1>13. client_shutdown \o B = Cons(Do("close_all"), Cons(Destroy("C"), B))
    BY <1>0, <1>12, PairThen DEF client_shutdown
<1>. QED
    BY <1>3, <1>11, <1>13 DEF Closing, DestroyC, B

-----------------------------------------------------------------------------
(* What client_close and usbmux_remote_dispose turn into.                  *)

(* client_close holds and links nothing.                                   *)
LEMMA ClosePartFine ==
    ASSUME NEW S \in SUBSET Op, SharedOp \subseteq S, NEW y, Fine(S, y), Held(y) = {}, NEW c
    PROVE  /\ Fine(S, ClosePart(c) \o y)
           /\ Held(ClosePart(c) \o y) = {} /\ Links(ClosePart(c) \o y) = Links(y)
           /\ ClosePart(c) \o y = IF c \in linked
                THEN Cons(Lock("R"), Cons(Unlock("R"), Cons(Lock("C"), Cons(Unlock("C"), y))))
                ELSE Cons(Lock("C"), Cons(Unlock("C"), y))
<1>. DEFINE e == <<>>
            r == "R"
            l == "C"
            X == IF c \in linked THEN Holding(r, e) ELSE e
            Y == Holding(l, e)
            Yy == Y \o y
<1>1. e \in Seq(Op) /\ r \in Mutex /\ l \in Mutex /\ r \in {"R", "C"} /\ l \in {"R", "C"}
    BY EmptySeq DEF Mutex
<1>2. y \in Seq(Op)
    BY FineOp
<1>3. ClosePart(c) = X \o Y
    BY DEF ClosePart
<1>4. Holding(r, e) \in Seq(Op) /\ Y \in Seq(Op)
    BY <1>1, HoldingThen
<1>5. Held(y) \subseteq Above(r) /\ Held(y) \subseteq Above(l)
    OBVIOUS
<1>6. Yy = Cons(Lock(l), Cons(Unlock(l), y)) /\ Fine(S, Yy) /\ Held(Yy) = Held(y) /\ Links(Yy) = Links(y)
    BY <1>1, <1>5, PutEmptySection
<1>7. X \in Seq(Op)
    BY <1>1, <1>4
<1>8. (X \o Y) \o y = X \o Yy
  <2>. HIDE DEF X, Y
  <2>1. InARow(X, Y, y)
      BY <1>7, <1>4, <1>2, OpConcat
  <2>. QED
      BY <2>1 DEF InARow
<1>a. Yy \in Seq(Op) /\ Held(Yy) \subseteq Above(r)
    BY <1>6, FineOp
<1>. HIDE DEF Yy, Y
<1>9. CASE c \in linked
  <2>1. X = Holding(r, e)
      BY <1>9
  <2>. HIDE DEF X
  <2>. DEFINE h == Holding(r, e) \o Yy
  <2>2. h = Cons(Lock(r), Cons(Unlock(r), Yy)) /\ Fine(S, h) /\ Held(h) = Held(Yy) /\ Links(h) = Links(Yy)
      BY <1>1, <1>a, <1>6, PutEmptySection
  <2>3. ClosePart(c) \o y = h
      BY <1>3, <1>8, <2>1
  <2>. HIDE DEF h
  <2>. QED
      BY <1>6, <1>9, <2>2, <2>3
<1>10. CASE c \notin linked
  <2>1. X = e
      BY <1>10
  <2>. HIDE DEF X
  <2>2. e \o Yy = Yy
      BY <1>a, ConcatEmptySeq
  <2>3. ClosePart(c) \o y = Yy
      BY <1>3, <1>8, <2>1, <2>2
  <2>. QED
      BY <1>6, <1>10, <2>3
<1>. QED
    BY <1>9, <1>10

(* The clients are told that devices are gone, before y.                   *)
TellThen(y) == Cons(Lock("C"), Cons(Do("detach"), Cons(Unlock("C"), y)))

(* A thread that goes on with y may hold remote_list_mutex by now.         *)
MayHoldR(S, y) == S \subseteq Op /\ SharedOp \subseteq S /\ Fine(S, y) /\ Held(y) \subseteq {"R"}

(* usbmux_remote_dispose leaves held and linked what was.                  *)
LEMMA DisposePartFine ==
    ASSUME NEW S, NEW y, MayHoldR(S, y), NEW D, NEW K
    PROVE  /\ Fine(S, DisposePart(D, K) \o y)
           /\ Held(DisposePart(D, K) \o y) = Held(y) /\ Links(DisposePart(D, K) \o y) = Links(y)
           /\ K = {} => DisposePart(D, K) \o y = IF D # {} THEN TellThen(y) ELSE y
<1>. DEFINE e == <<>>
            l == "C"
            a == Do("detach")
            X == IF D # {} THEN Holding(l, One(a)) ELSE e
            Y == IF K # {} THEN Holding(l, e) ELSE e
            Yy == Y \o y
<1>h. S \in SUBSET Op /\ SharedOp \subseteq S /\ Fine(S, y) /\ Held(y) \subseteq {"R"}
    BY DEF MayHoldR
<1>0. DisposePart(D, K) = X \o Y
    BY DEF DisposePart, One
<1>1. e \in Seq(Op) /\ l \in Mutex /\ l \in {"R", "C"} /\ Above(l) = {"R"}
    BY EmptySeq DEF Mutex, Above
<1>2. y \in Seq(Op)
    BY <1>h, FineOp
<1>3. a \in S /\ a \in Op /\ a[1] = "detach"
    BY <1>h, OpParts DEF SharedOp
<1>4. Holding(l, e) \in Seq(Op)
    BY <1>1, HoldingThen
<1>5. Holding(l, One(a)) \in Seq(Op)
  <2>. DEFINE b == One(a)
  <2>1. b \in Seq(Op)
      BY <1>3 DEF One
  <2>. HIDE DEF b
  <2>2. Holding(l, b) \in Seq(Op)
      BY <1>1, <2>1, HoldingThen
  <2>. QED
      BY <2>2 DEF b
<1>6. X \in Seq(Op) /\ Y \in Seq(Op)
    BY <1>1, <1>4, <1>5
<1>7. Fine(S, Yy) /\ Held(Yy) = Held(y) /\ Links(Yy) = Links(y) /\ (K = {} => Yy = y)
  <2>1. CASE K # {}
    <3>1. Y = Holding(l, e)
        BY <2>1
    <3>. DEFINE h == Holding(l, e) \o y
    <3>2. Fine(S, h) /\ Held(h) = Held(y) /\ Links(h) = Links(y)
        BY <1>h, <1>1, PutEmptySection
    <3>3. Yy = h
        BY <3>1
    <3>. HIDE DEF Yy, h
    <3>. QED
        BY <2>1, <3>2, <3>3
  <2>2. CASE K = {}
    <3>1. Yy = e \o y
        BY <2>2
    <3>2. e \o y = y
        BY <1>2, ConcatEmptySeq
    <3>. HIDE DEF Yy
    <3>. QED
        BY <1>h, <3>1, <3>2
  <2>. QED
      BY <2>1, <2>2
<1>8. (X \o Y) \o y = X \o Yy
  <2>. HIDE DEF X, Y
  <2>1. InARow(X, Y, y)
      BY <1>6, <1>2, OpConcat
  <2>. QED
      BY <2>1 DEF InARow
<1>9. Yy \in Seq(Op)
    BY <1>h, <1>7, FineOp
<1>. HIDE DEF Yy, Y, a
<1>10. CASE D # {}
  <2>1. X = Holding(l, One(a))
      BY <1>10
  <2>. HIDE DEF X
  <2>2. SectionFits(S, Yy, l, a)
      BY <1>h, <1>1, <1>3, <1>7 DEF SectionFits
  <2>. DEFINE h == Holding(l, One(a)) \o Yy
  <2>3. h = Cons(Lock(l), Cons(a, Cons(Unlock(l), Yy))) /\ Fine(S, h) /\ Held(h) = Held(Yy) /\ Links(h) = Links(Yy)
      BY <2>2, PutSection
  <2>4. DisposePart(D, K) \o y = h
      BY <1>0, <1>8, <2>1
  <2>. HIDE DEF h
  <2>5. K = {} => h = TellThen(y)
      BY <2>3, <1>7 DEF a, TellThen
  <2>. QED
      BY <1>7, <1>10, <2>3, <2>4, <2>5
<1>11. CASE D = {}
  <2>1. X = e
      BY <1>11
  <2>. HIDE DEF X
  <2>2. e \o Yy = Yy
      BY <1>9, ConcatEmptySeq
  <2>3. DisposePart(D, K) \o y = Yy
      BY <1>0, <1>8, <2>1, <2>2
  <2>. QED
      BY <1>7, <1>11, <2>3
<1>. QED
    BY <1>10, <1>11

-----------------------------------------------------------------------------
(* Steps of the threads.                                                   *)

(* The threads are different threads.                                      *)
LEMMA Distinct ==
    /\ Main \in Thread /\ Mdns \in Thread /\ Main # Mdns
    /\ Main \notin Probe /\ Mdns \notin Probe /\ None \notin Thread
    /\ Probe \subseteq Thread /\ \A t \in Thread : t = Main \/ t = Mdns \/ t \in Probe
BY LockAssumption DEF Thread

(* s is what t may have to do.                                             *)
OwnOps(t, s) ==
    /\ t \in Probe => s \in Seq(ProbeOp)
    /\ t = Mdns => s \in Seq(MdnsOp) /\ ("mdns" \notin Env => s = <<>>)

(* The next operation of t, and what it goes on with.                      *)
LEMMA AtIs ==
    ASSUME Threads, NEW t \in Thread, NEW a, At(t, a)
    PROVE  /\ a \in Op /\ Rest(t) \in Seq(Op) /\ todo[t] # <<>>
           /\ todo[t] = Cons(a, Rest(t))
           /\ Fits(a, Rest(t)) /\ Disciplined(Rest(t))
           /\ OwnOps(t, Rest(t))
           /\ t \in Probe => a \in ProbeOp
           /\ t = Mdns => a \in MdnsOp /\ "mdns" \in Env
<1>1. todo[t] \in Seq(Op) /\ Disciplined(todo[t]) /\ todo[t] # <<>> /\ Head(todo[t]) = a
    BY DEF Threads, At
<1>. DEFINE s == todo[t]
<1>2. /\ Head(s) \in Op /\ Tail(s) \in Seq(Op) /\ s = Cons(Head(s), Tail(s))
      /\ Fits(Head(s), Tail(s)) /\ Disciplined(Tail(s))
  <2>1. s \in Seq(Op) /\ s # <<>> /\ Disciplined(s)
      BY <1>1
  <2>. HIDE DEF s
  <2>. QED
      BY <2>1, NextFits
<1>3. ASSUME NEW S, s \in Seq(S) PROVE Head(s) \in S /\ Tail(s) \in Seq(S)
  <2>1. s # <<>>
      BY <1>1
  <2>. HIDE DEF s
  <2>. QED
      BY <1>3, <2>1, HeadTailProperties
<1>4. t \in Probe => s \in Seq(ProbeOp)
    BY DEF Threads
<1>5. t = Mdns => s \in Seq(MdnsOp) /\ "mdns" \in Env
    BY <1>1 DEF Threads
<1>6. OwnOps(t, Tail(s)) /\ (t \in Probe => a \in ProbeOp) /\ (t = Mdns => a \in MdnsOp)
    BY <1>1, <1>3, <1>4, <1>5 DEF OwnOps
<1>. QED
    BY <1>1, <1>2, <1>5, <1>6 DEF Rest

(* Each thread still does what it is for.                                  *)
LEMMA ThreadsKept ==
    ASSUME Threads, NEW t \in Thread, NEW s \in Seq(Op), Disciplined(s), OwnOps(t, s),
           todo'[t] = s, \A u \in Thread : u # t => todo'[u] = todo[u]
    PROVE  Threads'
<1>1. \A u \in Thread : todo'[u] \in Seq(Op) /\ Disciplined(todo'[u])
    BY DEF Threads
<1>2. \A p \in Probe : todo'[p] \in Seq(ProbeOp)
    BY Distinct DEF Threads, OwnOps
<1>3. todo'[Mdns] \in Seq(MdnsOp) /\ ("mdns" \notin Env => todo'[Mdns] = <<>>)
    BY Distinct DEF Threads, OwnOps
<1>. QED
    BY <1>1, <1>2, <1>3 DEF Threads

(* Threads that go on holding what they held.                              *)
LEMMA OwnersKept ==
    ASSUME TypeOK, Owners, owner' = owner, gone \subseteq gone',
           \A u \in Thread : Held(todo'[u]) = Held(todo[u])
    PROVE  Owners'
<1>1. \A m \in Mutex : owner[m] \in Thread \cup {None}
    BY DEF TypeOK
<1>2. ASSUME NEW u \in Thread, NEW m \in Mutex \ gone', m \in Held(todo'[u])
      PROVE  owner'[m] = u
    BY <1>2 DEF Owners
<1>3. ASSUME NEW m \in Mutex, owner'[m] # None, m = "G" => "unknown" \notin Env
      PROVE  m \in Held(todo'[owner'[m]])
    BY <1>1, <1>3 DEF Owners
<1>. QED
    BY <1>2, <1>3 DEF Owners

(* A thread that goes on with what it may do, holding what it held.        *)
LEMMA SyncKept ==
    ASSUME TypeOK, Threads, Owners, NEW t \in Thread, NEW s \in Seq(Op), Disciplined(s),
           OwnOps(t, s), Held(s) = Held(todo[t]), Goes(t, s),
           owner' = owner, gone \subseteq gone'
    PROVE  Threads' /\ Owners'
<1>1. todo' = [todo EXCEPT ![t] = s] /\ DOMAIN todo = Thread
    BY DEF Goes, TypeOK
<1>2. todo'[t] = s /\ \A u \in Thread : u # t => todo'[u] = todo[u]
    BY <1>1
<1>3. Threads'
    BY <1>2, ThreadsKept
<1>4. \A u \in Thread : Held(todo'[u]) = Held(todo[u])
    BY <1>2
<1>5. Owners'
    BY <1>4, OwnersKept
<1>. QED
    BY <1>3, <1>5

(* An operation on no mutex.                                               *)
LEMMA PopSync ==
    ASSUME TypeOK, Threads, Owners, NEW t \in Thread, NEW a, At(t, a),
           a[1] # "lock", a[1] # "unlock", Goes(t, Rest(t)), owner' = owner, gone \subseteq gone'
    PROVE  Threads' /\ Owners'
<1>. DEFINE s == Rest(t)
<1>1. a \in Op /\ s \in Seq(Op) /\ todo[t] = Cons(a, s) /\ Disciplined(s) /\ OwnOps(t, s)
    BY AtIs
<1>2. Goes(t, s)
    OBVIOUS
<1>. HIDE DEF s
<1>3. Held(s) = Held(todo[t])
    BY <1>1, HeldCons
<1>. QED
    BY <1>1, <1>2, <1>3, SyncKept

(* pthread_mutex_lock.                                                     *)
LEMMA LockSync ==
    ASSUME TypeOK, Threads, Owners, NEW t \in Thread, NEW m \in Mutex, lock(t, m)
    PROVE  Threads' /\ Owners'
<1>. DEFINE s == Rest(t)
            a == Lock(m)
<1>1. a \in Op /\ s \in Seq(Op) /\ todo[t] = Cons(a, s) /\ Fits(a, s) /\ Disciplined(s) /\ OwnOps(t, s)
    BY AtIs DEF lock
<1>2. todo' = [todo EXCEPT ![t] = s] /\ DOMAIN todo = Thread
    BY DEF lock, Goes, TypeOK
<1>3. /\ owner' = [owner EXCEPT ![m] = IF m \in gone THEN @ ELSE t]
      /\ owner[m] = None \/ m \in gone
      /\ gone' = gone
    BY DEF lock
<1>4. m \in Held(s) /\ Held(todo[t]) = Held(s) \ {m}
  <2>1. Held(Cons(a, s)) = Held(s) \ {m}
      BY <1>1, HeldCons
  <2>. QED
      BY <1>1, <2>1 DEF Fits
<1>. HIDE DEF s, a
<1>5. todo'[t] = s /\ \A u \in Thread : u # t => todo'[u] = todo[u]
    BY <1>2
<1>6. Threads'
    BY <1>1, <1>5, ThreadsKept
<1>7. /\ \A n \in Mutex : owner[n] \in Thread \cup {None}
      /\ \A n \in Mutex : owner'[n] = IF n = m /\ m \notin gone THEN t ELSE owner[n]
    BY <1>3 DEF TypeOK
<1>8. /\ \A u \in Thread, n \in Mutex : n # m => (n \in Held(todo'[u]) <=> n \in Held(todo[u]))
      /\ \A u \in Thread : u # t => (m \in Held(todo'[u]) <=> m \in Held(todo[u]))
      /\ m \in Held(todo'[t]) /\ m \notin Held(todo[t])
    BY <1>4, <1>5
<1>9. ASSUME NEW u \in Thread, NEW n \in Mutex \ gone', n \in Held(todo'[u])
      PROVE  owner'[n] = u
  <2>0. n \in Mutex \ gone
      BY <1>3
  <2>1. CASE n # m
      BY <1>7, <1>8, <1>9, <2>0, <2>1 DEF Owners
  <2>2. CASE n = m /\ u = t
      BY <1>7, <2>0, <2>2
  <2>3. CASE n = m /\ u # t
    <3>1. owner[m] = u /\ owner[m] = None
        BY <1>3, <1>8, <1>9, <2>0, <2>3 DEF Owners
    <3>. QED
        BY <3>1, Distinct
  <2>. QED
      BY <2>1, <2>2, <2>3
<1>10. ASSUME NEW n \in Mutex, owner'[n] # None, n = "G" => "unknown" \notin Env
       PROVE  n \in Held(todo'[owner'[n]])
  <2>1. CASE n = m /\ m \notin gone
      BY <1>7, <1>8, <2>1
  <2>2. CASE ~ (n = m /\ m \notin gone)
    <3>1. owner'[n] = owner[n] /\ owner[n] \in Thread /\ n \in Held(todo[owner[n]])
        BY <1>7, <1>10, <2>2 DEF Owners
    <3>. QED
        BY <3>1, <1>8
  <2>. QED
      BY <2>1, <2>2
<1>11. Owners'
    BY <1>9, <1>10 DEF Owners
<1>. QED
    BY <1>6, <1>11

(* pthread_mutex_unlock.                                                   *)
LEMMA UnlockSync ==
    ASSUME TypeOK, Threads, Owners, NEW t \in Thread, NEW m \in Mutex, unlock(t, m)
    PROVE  Threads' /\ Owners' /\ (m \notin gone => owner[m] = t)
<1>. DEFINE s == Rest(t)
            a == Unlock(m)
<1>1. a \in Op /\ s \in Seq(Op) /\ todo[t] = Cons(a, s) /\ Fits(a, s) /\ Disciplined(s) /\ OwnOps(t, s)
    BY AtIs DEF unlock
<1>2. todo' = [todo EXCEPT ![t] = s] /\ DOMAIN todo = Thread
    BY DEF unlock, Goes, TypeOK
<1>3. owner' = [owner EXCEPT ![m] = None] /\ gone' = gone
    BY DEF unlock
<1>4. m \notin Held(s) /\ Held(todo[t]) = Held(s) \cup {m}
  <2>1. Held(Cons(a, s)) = Held(s) \cup {m}
      BY <1>1, HeldCons
  <2>. QED
      BY <1>1, <2>1 DEF Fits
<1>. HIDE DEF s, a
<1>5. todo'[t] = s /\ \A u \in Thread : u # t => todo'[u] = todo[u]
    BY <1>2
<1>6. Threads'
    BY <1>1, <1>5, ThreadsKept
<1>7. /\ \A n \in Mutex : owner[n] \in Thread \cup {None}
      /\ \A n \in Mutex : owner'[n] = IF n = m THEN None ELSE owner[n]
    BY <1>3 DEF TypeOK
<1>8. /\ \A u \in Thread, n \in Mutex : n # m => (n \in Held(todo'[u]) <=> n \in Held(todo[u]))
      /\ \A u \in Thread : u # t => (m \in Held(todo'[u]) <=> m \in Held(todo[u]))
      /\ m \notin Held(todo'[t]) /\ m \in Held(todo[t])
    BY <1>4, <1>5
<1>a. m \notin gone => owner[m] = t
    BY <1>8 DEF Owners
<1>9. ASSUME NEW u \in Thread, NEW n \in Mutex \ gone', n \in Held(todo'[u])
      PROVE  owner'[n] = u
  <2>0. n \in Mutex \ gone
      BY <1>3
  <2>1. CASE n # m
      BY <1>7, <1>8, <1>9, <2>0, <2>1 DEF Owners
  <2>2. CASE n = m
    <3>1. u # t /\ m \in Held(todo[u]) /\ m \in Mutex \ gone
        BY <1>8, <1>9, <2>0, <2>2
    <3>2. owner[m] = u
        BY <3>1 DEF Owners
    <3>. QED
        BY <3>1, <3>2, <1>a
  <2>. QED
      BY <2>1, <2>2
<1>10. ASSUME NEW n \in Mutex, owner'[n] # None, n = "G" => "unknown" \notin Env
       PROVE  n \in Held(todo'[owner'[n]])
  <2>1. n # m
      BY <1>7, <1>10
  <2>2. owner'[n] = owner[n] /\ owner[n] \in Thread /\ n \in Held(todo[owner[n]])
      BY <1>7, <1>10, <2>1 DEF Owners
  <2>. QED
      BY <2>1, <2>2, <1>8
<1>11. Owners'
    BY <1>9, <1>10 DEF Owners
<1>. QED
    BY <1>6, <1>11, <1>a

(* The early returns of socket_connect_timeout: what is skipped.           *)
LEMMA UnknownIs ==
    ASSUME Threads, NEW t \in Thread, unknown_host(t)
    PROVE  \E s \in Seq(Op) :
              /\ todo' = [todo EXCEPT ![t] = s]
              /\ Disciplined(s) /\ OwnOps(t, s)
              /\ Held(todo[t]) = Held(s) \cup {"G"} /\ "G" \notin Held(s)
              /\ Links(s) \subseteq Links(todo[t])
              /\ \A S : todo[t] \in Seq(S) => s \in Seq(S)
<1>. DEFINE a == Do("gethostbyname")
            u == Unlock("G")
            k == Do("connect")
            y == Rest(t)
            z == Tail(y)
            w == Tail(z)
            s == IF w # <<>> /\ Head(w)[1] = "link" THEN Tail(w) ELSE w
<1>1. /\ a \in Op /\ y \in Seq(Op) /\ todo[t] # <<>> /\ todo[t] = Cons(a, y)
      /\ Fits(a, y) /\ Disciplined(y)
    BY AtIs DEF unknown_host
<1>2. todo' = [todo EXCEPT ![t] = s]
    BY DEF unknown_host, Goes
<1>3. a[1] = "gethostbyname" /\ u[1] = "unlock" /\ k[1] = "connect" /\ "G" \in Mutex
    BY OpParts DEF Mutex
<1>4. y # <<>> /\ Head(y) = u /\ Tail(y) # <<>> /\ Head(Tail(y)) = k
    BY <1>1 DEF Fits
<1>. HIDE DEF y, a
<1>5. /\ u \in Op /\ z \in Seq(Op) /\ y = Cons(u, z) /\ Fits(u, z) /\ Disciplined(z)
    BY <1>1, <1>4, NextFits
<1>6. "G" \notin Held(z)
    BY <1>3, <1>5 DEF Fits
<1>a. Held(Cons(u, z)) = Held(z) \cup {"G"}
    BY <1>3, <1>5, HeldCons
<1>. HIDE DEF z
<1>7. /\ k \in Op /\ w \in Seq(Op) /\ z = Cons(k, w) /\ Disciplined(w)
  <2>1. z # <<>> /\ Head(z) = k
      BY <1>4 DEF z
  <2>. QED
      BY <1>5, <2>1, NextFits
<1>. HIDE DEF u, k
<1>8. /\ Held(todo[t]) = Held(y) /\ Links(todo[t]) = Links(y)
    BY <1>1, <1>3, HeldCons, LinksCons
<1>9. Held(y) = Held(z) \cup {"G"} /\ Links(y) = Links(z)
    BY <1>3, <1>5, <1>a, LinksCons
<1>10. Held(z) = Held(w) /\ Links(z) = Links(w)
    BY <1>3, <1>7, HeldCons, LinksCons
<1>11. s \in Seq(Op) /\ Disciplined(s) /\ Held(s) = Held(w) /\ Links(s) \subseteq Links(w)
  <2>1. CASE w # <<>> /\ Head(w)[1] = "link"
    <3>. DEFINE h == Head(w)
                v == Tail(w)
    <3>1. h \in Op /\ v \in Seq(Op) /\ w = Cons(h, v) /\ Disciplined(v)
      <4>. HIDE DEF w
      <4>. QED
          BY <1>7, <2>1, NextFits
    <3>2. h[1] = "link" /\ s = v
        BY <2>1
    <3>. HIDE DEF h, v, w, s
    <3>3. Held(Cons(h, v)) = Held(v)
        BY <3>1, <3>2, HeldCons
    <3>4. Links(v) \subseteq Links(Cons(h, v))
      <4>1. \E d \in Client : h = Link(d)
          BY <3>1, <3>2, OpParts DEF Op, Word
      <4>. QED
          BY <3>1, <4>1, LinksCons
    <3>. QED
        BY <3>1, <3>2, <3>3, <3>4
  <2>2. CASE ~ (w # <<>> /\ Head(w)[1] = "link")
    <3>1. s = w
        BY <2>2
    <3>. HIDE DEF s, w
    <3>. QED
        BY <3>1, <1>7
  <2>. QED
      BY <2>1, <2>2
<1>12. ASSUME NEW S, todo[t] \in Seq(S) PROVE s \in Seq(S)
  <2>1. y \in Seq(S)
      BY <1>1, <1>12, HeadTailProperties DEF y, Rest
  <2>2. z \in Seq(S)
      BY <2>1, <1>4, HeadTailProperties DEF z
  <2>3. w \in Seq(S)
    <3>1. z # <<>>
        BY <1>4 DEF z
    <3>. QED
        BY <2>2, <3>1, HeadTailProperties
  <2>. HIDE DEF w
  <2>4. w # <<>> => Tail(w) \in Seq(S)
      BY <2>3, HeadTailProperties
  <2>. QED
      BY <2>3, <2>4
<1>13. OwnOps(t, s)
  <2>1. t = Mdns => "mdns" \in Env
      BY AtIs DEF unknown_host
  <2>. HIDE DEF s
  <2>. QED
      BY <1>12, <2>1 DEF OwnOps, Threads
<1>14. Held(todo[t]) = Held(s) \cup {"G"} /\ "G" \notin Held(s) /\ Links(s) \subseteq Links(todo[t])
  <2>. HIDE DEF s, w
  <2>. QED
      BY <1>6, <1>8, <1>9, <1>10, <1>11
<1>. HIDE DEF s
<1>. QED
    BY <1>2, <1>11, <1>12, <1>13, <1>14

(* An unknown host leaks gethostbyname_mutex, and nothing else.            *)
LEMMA UnknownSync ==
    ASSUME TypeOK, Threads, Owners, NEW t \in Thread, unknown_host(t)
    PROVE  Threads' /\ Owners'
<1>1. PICK s \in Seq(Op) :
              /\ todo' = [todo EXCEPT ![t] = s]
              /\ Disciplined(s) /\ OwnOps(t, s)
              /\ Held(todo[t]) = Held(s) \cup {"G"} /\ "G" \notin Held(s)
    BY UnknownIs
<1>2. DOMAIN todo = Thread /\ owner' = owner /\ gone' = gone /\ "unknown" \in Env
      /\ \A n \in Mutex : owner[n] \in Thread \cup {None}
    BY DEF TypeOK, unknown_host
<1>3. todo'[t] = s /\ \A u \in Thread : u # t => todo'[u] = todo[u]
    BY <1>1, <1>2
<1>4. Threads'
    BY <1>1, <1>3, ThreadsKept
<1>5. \A u \in Thread, n \in Mutex : /\ n \in Held(todo'[u]) => n \in Held(todo[u])
                                     /\ n # "G" /\ n \in Held(todo[u]) => n \in Held(todo'[u])
    BY <1>1, <1>3
<1>6. ASSUME NEW u \in Thread, NEW n \in Mutex \ gone', n \in Held(todo'[u])
      PROVE  owner'[n] = u
    BY <1>2, <1>5, <1>6 DEF Owners
<1>7. ASSUME NEW n \in Mutex, owner'[n] # None, n = "G" => "unknown" \notin Env
      PROVE  n \in Held(todo'[owner'[n]])
    BY <1>2, <1>5, <1>7 DEF Owners
<1>8. Owners'
    BY <1>6, <1>7 DEF Owners
<1>. QED
    BY <1>4, <1>8

-----------------------------------------------------------------------------
(* How far the main thread is.                                             *)

(* The heads tell the stages apart.                                        *)
LEMMA StageHeads ==
    /\ \A s \in EndStages :
          s # <<>> /\ Head(s)[1] \in {"lock", "dispose_all", "detach", "unlock", "destroy", "exit"}
    /\ Asking # <<>> /\ Quitting # <<>> /\ Joining # <<>> /\ DestroyC # <<>>
    /\ Head(Asking)[1] = "poll_there" /\ Head(Quitting)[1] = "poll_quit" /\ Head(Joining)[1] = "join"
    /\ Head(DestroyC)[1] = "destroy"
    /\ \A s \in ClientStages : s # <<>> /\ Head(s)[1] \in {"close_all", "close", "lock", "unlock"}
<1>1. ASSUME NEW s \in EndStages
      PROVE  s # <<>> /\ Head(s)[1] \in {"lock", "dispose_all", "detach", "unlock", "destroy", "exit"}
    BY EndFacts, OpParts DEF EndStages, StageFacts
<1>2. /\ Asking # <<>> /\ Quitting # <<>> /\ Joining # <<>> /\ DestroyC # <<>>
      /\ Head(Asking)[1] = "poll_there" /\ Head(Quitting)[1] = "poll_quit" /\ Head(Joining)[1] = "join"
      /\ Head(DestroyC)[1] = "destroy"
    BY FirstFacts, OpParts DEF StageFacts
<1>3. ASSUME NEW s \in ClientStages
      PROVE  s # <<>> /\ Head(s)[1] \in {"close_all", "close", "lock", "unlock"}
  <2>1. ASSUME NEW c \in Client, s = CloseLast(c) PROVE s # <<>> /\ Head(s)[1] = "close"
    <3>1. CloseLast(c) # <<>> /\ Head(CloseLast(c)) = Close(c)
        BY FirstFacts DEF StageFacts
    <3>. QED
        BY <2>1, <3>1, OpParts
  <2>2. CASE s = Closing
      BY <2>2, FirstFacts, OpParts DEF StageFacts
  <2>3. CASE s = Unlisted \/ s = Unlisting
      BY <2>3, FirstFacts, OpParts DEF StageFacts
  <2>4. CASE s = Unlinked \/ s = Unlinking
      BY <2>4, FirstFacts, OpParts DEF StageFacts
  <2>. QED
      BY <2>1, <2>2, <2>3, <2>4 DEF ClientStages
<1>. QED
    BY <1>1, <1>2, <1>3

(* What main() does once client_list_mutex is destroyed.                   *)
LEMMA LateStep ==
    ASSUME Late, NEW a, At(Main, a)
    PROVE  /\ a[1] \in {"poll_there", "poll_quit", "join", "lock", "dispose_all", "detach",
                        "unlock", "destroy", "exit"}
           /\ a[1] = "poll_there" => Rest(Main) = Quitting
           /\ a[1] = "poll_quit" => Rest(Main) = Joining
           /\ a[1] = "join" => Rest(Main) = Entering
           /\ a[1] = "dispose_all" => Rest(Main) = UnlockR
           /\ a[1] = "destroy" => \/ a = Destroy("R") /\ Rest(Main) = DestroyG
                                  \/ a = Destroy("G") /\ Rest(Main) = Exit
           /\ a[1] \in {"lock", "unlock", "detach", "destroy"} => Rest(Main) \in EndStages
           /\ a[1] \notin {"poll_there", "poll_quit", "join"} => todo[Main] \in EndStages
           /\ a[1] \notin {"destroy", "exit"} => "R" \notin gone
<1>. DEFINE s == todo[Main]
<1>1. s \in LateStages /\ Head(s) = a /\ ("R" \in gone => s \in {DestroyG, Exit})
    BY DEF Late, At
<1>2. Rest(Main) = Tail(s)
    BY DEF Rest
<1>. HIDE DEF s
<1>3. /\ Head(DestroyG)[1] = "destroy" /\ Head(Exit)[1] = "exit"
    BY EndFacts, OpParts DEF StageFacts
<1>4. a[1] \notin {"destroy", "exit"} => "R" \notin gone
    BY <1>1, <1>3
<1>5. CASE s = Asking
  <2>1. a = Do("poll_there") /\ a[1] = "poll_there" /\ Rest(Main) = Quitting
      BY <1>1, <1>2, <1>5, FirstFacts, OpParts DEF StageFacts
  <2>. QED
      BY <2>1, <1>4
<1>6. CASE s = Quitting
  <2>1. a = Do("poll_quit") /\ a[1] = "poll_quit" /\ Rest(Main) = Joining
      BY <1>1, <1>2, <1>6, FirstFacts, OpParts DEF StageFacts
  <2>. QED
      BY <2>1, <1>4
<1>7. CASE s = Joining
  <2>1. a = Do("join") /\ a[1] = "join" /\ Rest(Main) = Entering
      BY <1>1, <1>2, <1>7, FirstFacts, OpParts DEF StageFacts
  <2>. QED
      BY <2>1, <1>4
<1>8. CASE s = Entering
  <2>1. a = Lock("R") /\ a[1] = "lock" /\ Rest(Main) = Disposing
      BY <1>1, <1>2, <1>8, EndFacts, OpParts DEF StageFacts
  <2>2. s \in EndStages /\ Disposing \in EndStages
      BY <1>8 DEF EndStages
  <2>. QED
      BY <2>1, <2>2, <1>4 DEF s
<1>9. CASE s = Disposing
  <2>1. a = Do("dispose_all") /\ a[1] = "dispose_all" /\ Rest(Main) = UnlockR
      BY <1>1, <1>2, <1>9, EndFacts, OpParts DEF StageFacts
  <2>2. s \in EndStages /\ UnlockR \in EndStages
      BY <1>9 DEF EndStages
  <2>. QED
      BY <2>1, <2>2, <1>4 DEF s
<1>10. CASE s = Telling
  <2>1. a = Lock("C") /\ a[1] = "lock" /\ Rest(Main) = Detaching
      BY <1>1, <1>2, <1>10, EndFacts, OpParts DEF StageFacts
  <2>2. s \in EndStages /\ Detaching \in EndStages
      BY <1>10 DEF EndStages
  <2>. QED
      BY <2>1, <2>2, <1>4 DEF s
<1>11. CASE s = Detaching
  <2>1. a = Do("detach") /\ a[1] = "detach" /\ Rest(Main) = Detached
      BY <1>1, <1>2, <1>11, EndFacts, OpParts DEF StageFacts
  <2>2. s \in EndStages /\ Detached \in EndStages
      BY <1>11 DEF EndStages
  <2>. QED
      BY <2>1, <2>2, <1>4 DEF s
<1>12. CASE s = Detached
  <2>1. a = Unlock("C") /\ a[1] = "unlock" /\ Rest(Main) = UnlockR
      BY <1>1, <1>2, <1>12, EndFacts, OpParts DEF StageFacts
  <2>2. s \in EndStages /\ UnlockR \in EndStages
      BY <1>12 DEF EndStages
  <2>. QED
      BY <2>1, <2>2, <1>4 DEF s
<1>13. CASE s = UnlockR
  <2>1. a = Unlock("R") /\ a[1] = "unlock" /\ Rest(Main) = DestroyR
      BY <1>1, <1>2, <1>13, EndFacts, OpParts DEF StageFacts
  <2>2. s \in EndStages /\ DestroyR \in EndStages
      BY <1>13 DEF EndStages
  <2>. QED
      BY <2>1, <2>2, <1>4 DEF s
<1>14. CASE s = DestroyR
  <2>1. a = Destroy("R") /\ a[1] = "destroy" /\ Rest(Main) = DestroyG
      BY <1>1, <1>2, <1>14, EndFacts, OpParts DEF StageFacts
  <2>2. s \in EndStages /\ DestroyG \in EndStages
      BY <1>14 DEF EndStages
  <2>. QED
      BY <2>1, <2>2, <1>4 DEF s
<1>15. CASE s = DestroyG
  <2>1. a = Destroy("G") /\ a[1] = "destroy" /\ Rest(Main) = Exit
      BY <1>1, <1>2, <1>15, EndFacts, OpParts DEF StageFacts
  <2>2. s \in EndStages /\ Exit \in EndStages
      BY <1>15 DEF EndStages
  <2>. QED
      BY <2>1, <2>2, <1>4 DEF s
<1>16. CASE s = Exit
  <2>1. a = Do("exit") /\ a[1] = "exit"
      BY <1>1, <1>2, <1>16, EndFacts, OpParts DEF StageFacts
  <2>2. s \in EndStages
      BY <1>16 DEF EndStages
  <2>. QED
      BY <2>1, <2>2, <1>4 DEF s
<1>. QED
    BY <1>1, <1>5, <1>6, <1>7, <1>8, <1>9, <1>10, <1>11, <1>12, <1>13, <1>14, <1>15, <1>16 DEF LateStages, EndStages

(* What client_shutdown does.                                              *)
LEMMA ClosingStep ==
    ASSUME ClosingDown, NEW a, At(Main, a)
    PROVE  /\ a[1] \in {"close_all", "close", "lock", "unlock"}
           /\ a[1] = "close_all" => todo[Main] = Closing /\ Rest(Main) = DestroyC
           /\ a[1] = "close" => Rest(Main) = Closing
           /\ a[1] \in {"lock", "unlock"} => Rest(Main) \in ClientStages
<1>. DEFINE s == todo[Main]
<1>1. s \in ClientStages /\ Head(s) = a
    BY DEF ClosingDown, At
<1>2. Rest(Main) = Tail(s)
    BY DEF Rest
<1>. HIDE DEF s
<1>3. CASE s = Closing
  <2>1. a = Do("close_all") /\ a[1] = "close_all" /\ Rest(Main) = DestroyC
      BY <1>1, <1>2, <1>3, FirstFacts, OpParts DEF StageFacts
  <2>. QED
      BY <2>1, <1>3 DEF s
<1>4. ASSUME NEW c \in Client, s = CloseLast(c)
      PROVE  a[1] = "close" /\ Rest(Main) = Closing
  <2>1. Head(CloseLast(c)) = Close(c) /\ Tail(CloseLast(c)) = Closing
      BY FirstFacts DEF StageFacts
  <2>. QED
      BY <1>1, <1>2, <1>4, <2>1, OpParts
<1>5. CASE s \in {Unlisted, Unlisting, Unlinked, Unlinking}
  <2>1. Tail(s) \in ClientStages
      BY <1>5, FirstFacts DEF StageFacts, ClientStages
  <2>2. a[1] \in {"lock", "unlock"}
      BY <1>1, <1>5, FirstFacts, OpParts DEF StageFacts
  <2>. QED
      BY <1>2, <2>1, <2>2
<1>. QED
    BY <1>1, <1>3, <1>4, <1>5 DEF ClientStages

(* What main_loop's handlers do.                                           *)
LEMMA WorkingStep ==
    ASSUME Working, NEW a, At(Main, a)
    PROVE  /\ a \in WorkOp /\ Rest(Main) \in Seq(WorkOp)
           /\ a[1] \in {"lock", "unlock", "gethostbyname", "connect", "dispose", "detach",
                        "device", "check", "accepted", "close", "link"}
<1>. DEFINE s == todo[Main]
<1>1. s \in Seq(WorkOp) /\ s # <<>> /\ Head(s) = a /\ Rest(Main) = Tail(s)
    BY DEF Working, At, Rest
<1>. HIDE DEF s
<1>2. a \in WorkOp /\ Rest(Main) \in Seq(WorkOp)
    BY <1>1, HeadTailProperties
<1>3. a[1] \in {"lock", "unlock", "gethostbyname", "connect", "dispose", "detach",
                "device", "check", "accepted", "close", "link"}
    BY <1>2, OpParts DEF WorkOp, SharedOp, ProbeOp
<1>. QED
    BY <1>2, <1>3

(* What main() does when all clients are closed.                           *)
LEMMA AllClosedStep ==
    ASSUME AllClosed, NEW a, At(Main, a)
    PROVE  a = Destroy("C") /\ Rest(Main) = IF "mdns" \in Env THEN Asking ELSE Entering
BY FirstFacts DEF AllClosed, At, Rest, StageFacts

(* A step of another thread.                                               *)
LEMMA StageKept ==
    ASSUME Stage, todo'[Main] = todo[Main], gone' = gone, open' \subseteq open,
           todo[Mdns] = <<>> => todo'[Mdns] = <<>>
    PROVE  Stage'
<1>1. Working => Working'
    BY DEF Working
<1>2. ClosingDown => ClosingDown'
    BY DEF ClosingDown
<1>3. AllClosed => AllClosed'
    BY DEF AllClosed
<1>4. Late => Late'
    BY DEF Late
<1>. QED
    BY <1>1, <1>2, <1>3, <1>4 DEF Stage

(* A step of the main thread that ends no stage.                           *)
LEMMA StageGoesOn ==
    ASSUME Stage, NEW a, At(Main, a), todo'[Main] = Rest(Main), todo'[Mdns] = todo[Mdns],
           gone' = gone, open' \subseteq open,
           a[1] \in {"lock", "unlock", "gethostbyname", "connect", "accepted", "detach",
                     "device", "check", "link"}
    PROVE  Stage'
<1>1. CASE Working
    BY <1>1, WorkingStep DEF Working, Stage
<1>2. CASE ClosingDown
    BY <1>2, ClosingStep DEF ClosingDown, Stage
<1>3. CASE AllClosed
    BY <1>3, AllClosedStep, OpParts
<1>4. CASE Late
  <2>1. Rest(Main) \in EndStages /\ todo[Main] \in EndStages /\ "R" \notin gone
      BY <1>4, LateStep
  <2>2. Late'
      BY <1>4, <2>1 DEF Late, LateStages
  <2>. QED
      BY <2>2 DEF Stage
<1>. QED
    BY <1>1, <1>2, <1>3, <1>4 DEF Stage

-----------------------------------------------------------------------------
(* Every step keeps the invariant.                                         *)

(* Only what t does changes.                                               *)
LEMMA GoesIs ==
    ASSUME TypeOK, NEW t \in Thread, NEW s, Goes(t, s)
    PROVE  /\ DOMAIN todo' = Thread /\ todo'[t] = s
           /\ \A u \in Thread : u # t => todo'[u] = todo[u]
BY DEF TypeOK, Goes

(* What follows an operation links the same clients, or fewer.             *)
LEMMA LinksRest ==
    ASSUME Threads, NEW a, At(Main, a)
    PROVE  /\ Links(Rest(Main)) \subseteq Links(todo[Main])
           /\ a[1] # "link" => Links(Rest(Main)) = Links(todo[Main])
<1>. DEFINE s == Rest(Main)
<1>1. a \in Op /\ s \in Seq(Op) /\ todo[Main] = Cons(a, s)
    BY AtIs, Distinct
<1>. HIDE DEF s
<1>2. a[1] # "link" => Links(Cons(a, s)) = Links(s)
    BY <1>1, LinksCons
<1>3. a[1] = "link" => \E d \in Client : a = Link(d)
    BY <1>1, OpParts DEF Op, Word
<1>4. \A d \in Client : a = Link(d) => Links(Cons(a, s)) = Links(s) \cup {d}
    BY <1>1, LinksCons
<1>. QED
    BY <1>1, <1>2, <1>3, <1>4 DEF s

(* An operation that changes at most the devices.                          *)
LEMMA InvPop ==
    ASSUME IInv, NEW t \in Thread, NEW a, At(t, a), Goes(t, Rest(t)),
           a[1] \in {"gethostbyname", "connect", "accepted", "detach", "device", "check"},
           UNCHANGED <<owner, gone, open, linked, simple_poll, life>>, devices' \subseteq Device
    PROVE  IInv'
<1>0. TypeOK /\ Threads /\ LinksFree /\ Owners /\ Stage
    BY DEF IInv
<1>u. owner' = owner /\ gone' = gone /\ open' = open /\ linked' = linked
      /\ simple_poll' = simple_poll /\ life' = life
    OBVIOUS
<1>1. DOMAIN todo' = Thread /\ todo'[t] = Rest(t) /\ \A u \in Thread : u # t => todo'[u] = todo[u]
    BY <1>0, GoesIs
<1>2. TypeOK'
    BY <1>0, <1>u, <1>1 DEF TypeOK
<1>3. Threads' /\ Owners'
    BY <1>0, <1>u, PopSync
<1>4. LinksFree'
  <2>1. CASE t = Main
      BY <2>1, <1>0, <1>u, <1>1, LinksRest DEF LinksFree
  <2>2. CASE t # Main
      BY <2>2, <1>0, <1>u, <1>1, Distinct DEF LinksFree
  <2>. QED
      BY <2>1, <2>2
<1>5. Stage'
  <2>1. CASE t = Main
      BY <2>1, <1>0, <1>u, <1>1, Distinct, StageGoesOn
  <2>2. CASE t # Main
    <3>1. todo'[Main] = todo[Main] /\ (todo[Mdns] = <<>> => todo'[Mdns] = <<>>)
        BY <2>2, <1>1, Distinct DEF At
    <3>. QED
        BY <3>1, <1>0, <1>u, StageKept
  <2>. QED
      BY <2>1, <2>2
<1>. QED
    BY <1>2, <1>3, <1>4, <1>5 DEF IInv

(* pthread_mutex_lock and pthread_mutex_unlock.                            *)
LEMMA InvLock ==
    ASSUME IInv, NEW t \in Thread, NEW m \in Mutex, lock(t, m) \/ unlock(t, m)
    PROVE  IInv'
<1>0. TypeOK /\ Threads /\ LinksFree /\ Owners /\ Stage
    BY DEF IInv
<1>u. gone' = gone /\ open' = open /\ linked' = linked /\ devices' = devices
      /\ simple_poll' = simple_poll /\ life' = life /\ Goes(t, Rest(t))
    BY DEF lock, unlock
<1>1. DOMAIN todo' = Thread /\ todo'[t] = Rest(t) /\ \A u \in Thread : u # t => todo'[u] = todo[u]
    BY <1>0, <1>u, GoesIs
<1>2. TypeOK'
  <2>1. owner' \in [Mutex -> Thread \cup {None}]
      BY <1>0 DEF TypeOK, lock, unlock
  <2>. QED
      BY <2>1, <1>0, <1>u, <1>1 DEF TypeOK
<1>3. Threads' /\ Owners'
    BY <1>0, LockSync, UnlockSync
<1>4. PICK a : At(t, a) /\ a[1] \in {"lock", "unlock"}
    BY OpParts DEF lock, unlock
<1>5. LinksFree'
  <2>1. CASE t = Main
      BY <2>1, <1>0, <1>u, <1>1, <1>4, LinksRest DEF LinksFree
  <2>2. CASE t # Main
      BY <2>2, <1>0, <1>u, <1>1, Distinct DEF LinksFree
  <2>. QED
      BY <2>1, <2>2
<1>6. Stage'
  <2>1. CASE t = Main
      BY <2>1, <1>0, <1>u, <1>1, <1>4, Distinct, StageGoesOn
  <2>2. CASE t # Main
    <3>1. todo'[Main] = todo[Main] /\ (todo[Mdns] = <<>> => todo'[Mdns] = <<>>)
        BY <2>2, <1>1, <1>4, Distinct DEF At
    <3>. QED
        BY <3>1, <1>0, <1>u, StageKept
  <2>. QED
      BY <2>1, <2>2
<1>. QED
    BY <1>2, <1>3, <1>5, <1>6 DEF IInv

(* The early returns of socket_connect_timeout.                            *)
LEMMA InvUnknown ==
    ASSUME IInv, NEW t \in Thread, unknown_host(t)
    PROVE  IInv'
<1>0. TypeOK /\ Threads /\ LinksFree /\ Owners /\ Stage
    BY DEF IInv
<1>u. owner' = owner /\ gone' = gone /\ open' = open /\ linked' = linked /\ devices' = devices
      /\ simple_poll' = simple_poll /\ life' = life
    BY DEF unknown_host
<1>1. PICK s \in Seq(Op) :
              /\ todo' = [todo EXCEPT ![t] = s]
              /\ Links(s) \subseteq Links(todo[t])
              /\ \A S : todo[t] \in Seq(S) => s \in Seq(S)
    BY <1>0, UnknownIs
<1>2. DOMAIN todo' = Thread /\ todo'[t] = s /\ \A u \in Thread : u # t => todo'[u] = todo[u]
    BY <1>0, <1>1, GoesIs DEF Goes
<1>3. TypeOK'
    BY <1>0, <1>u, <1>2 DEF TypeOK
<1>4. Threads' /\ Owners'
    BY <1>0, UnknownSync
<1>5. LinksFree'
    BY <1>0, <1>u, <1>1, <1>2, Distinct DEF LinksFree
<1>6. Stage'
  <2>1. CASE t = Main
    <3>. DEFINE a == Do("gethostbyname")
    <3>1. At(Main, a) /\ a[1] = "gethostbyname"
        BY <2>1, OpParts DEF unknown_host
    <3>. HIDE DEF a
    <3>2. Working
        BY <1>0, <3>1, ClosingStep, AllClosedStep, LateStep, OpParts DEF Stage
    <3>3. Working'
        BY <2>1, <3>2, <1>u, <1>1, <1>2 DEF Working
    <3>. QED
        BY <3>3 DEF Stage
  <2>2. CASE t # Main
    <3>1. todo'[Main] = todo[Main] /\ (todo[Mdns] = <<>> => todo'[Mdns] = <<>>)
        BY <2>2, <1>2, Distinct DEF At, unknown_host
    <3>. QED
        BY <3>1, <1>0, <1>u, StageKept
  <2>. QED
      BY <2>1, <2>2
<1>. QED
    BY <1>3, <1>4, <1>5, <1>6 DEF IInv

(* pthread_mutex_destroy: only main() does that, in its order.             *)
LEMMA InvDestroy ==
    ASSUME IInv, NEW t \in Thread, NEW m \in Mutex, destroy(t, m)
    PROVE  IInv'
<1>0. TypeOK /\ Threads /\ LinksFree /\ Owners /\ Stage
    BY DEF IInv
<1>. DEFINE a == Destroy(m)
<1>u. owner' = owner /\ open' = open /\ linked' = linked /\ devices' = devices
      /\ simple_poll' = simple_poll /\ life' = life /\ gone' = gone \cup {m}
      /\ Goes(t, Rest(t)) /\ At(t, a)
    BY DEF destroy
<1>a. a[1] = "destroy" /\ a[2] = m
    BY OpParts
<1>1. DOMAIN todo' = Thread /\ todo'[t] = Rest(t) /\ \A u \in Thread : u # t => todo'[u] = todo[u]
    BY <1>0, <1>u, GoesIs
<1>2. TypeOK'
    BY <1>0, <1>u, <1>1 DEF TypeOK
<1>. HIDE DEF a
<1>3. Threads' /\ Owners'
    BY <1>0, <1>u, <1>a, PopSync
<1>4. t = Main
  <2>1. (t \in Probe => a \in ProbeOp) /\ (t = Mdns => a \in MdnsOp)
      BY <1>0, <1>u, AtIs
  <2>2. \A x \in MdnsOp : x[1] # "destroy"
      BY OpParts DEF MdnsOp, SharedOp, ProbeOp
  <2>. QED
      BY <2>1, <2>2, <1>a, OpSets, Distinct
<1>5. LinksFree'
    BY <1>0, <1>u, <1>a, <1>1, <1>4, LinksRest DEF LinksFree
<1>b. Destroy("C")[2] = "C" /\ Destroy("R")[2] = "R" /\ Destroy("G")[2] = "G"
    BY OpParts
<1>6. CASE AllClosed
  <2>1. m = "C" /\ todo'[Main] = IF "mdns" \in Env THEN Asking ELSE Entering
      BY <1>6, <1>u, <1>a, <1>b, <1>1, <1>4, AllClosedStep
  <2>2. todo'[Main] \in LateStages /\ (todo'[Main] \in EndStages => "mdns" \notin Env)
    <3>1. Asking \notin EndStages
        BY StageHeads
    <3>. QED
        BY <2>1, <3>1 DEF LateStages, EndStages
  <2>3. "mdns" \notin Env => todo'[Mdns] = <<>>
      BY <1>3 DEF Threads
  <2>4. gone' = {"C"} /\ open' = {}
      BY <1>6, <1>u, <2>1 DEF AllClosed
  <2>5. Late'
      BY <2>2, <2>3, <2>4 DEF Late
  <2>. QED
      BY <2>5, <1>2, <1>3, <1>5 DEF IInv, Stage
<1>7. CASE Late
  <2>1. \/ m = "R" /\ Rest(Main) = DestroyG
        \/ m = "G" /\ Rest(Main) = Exit
      BY <1>7, <1>u, <1>a, <1>b, <1>4, LateStep
  <2>2. todo[Main] \in EndStages /\ Rest(Main) \in EndStages
      BY <1>7, <1>u, <1>a, <1>4, LateStep
  <2>3. todo'[Mdns] = todo[Mdns] /\ todo'[Main] = Rest(Main)
      BY <1>1, <1>4, Distinct
  <2>4. Late'
      BY <1>7, <1>u, <2>1, <2>2, <2>3 DEF Late, LateStages
  <2>. QED
      BY <2>4, <1>2, <1>3, <1>5 DEF IInv, Stage
<1>8. ~ Working /\ ~ ClosingDown
    BY <1>u, <1>a, <1>4, WorkingStep, ClosingStep
<1>. QED
    BY <1>0, <1>6, <1>7, <1>8 DEF Stage

(* A remote gets its client.                                               *)
LEMMA InvLink ==
    ASSUME IInv, NEW c \in Client, link(c)
    PROVE  IInv'
<1>0. TypeOK /\ Threads /\ LinksFree /\ Owners /\ Stage
    BY DEF IInv
<1>. DEFINE a == Link(c)
            s == Rest(Main)
<1>u. owner' = owner /\ gone' = gone /\ open' = open /\ linked' = linked \cup {c} /\ devices' = devices
      /\ simple_poll' = simple_poll /\ life' = life /\ Goes(Main, s) /\ At(Main, a)
    BY DEF link
<1>a. a[1] = "link"
    BY OpParts
<1>1. DOMAIN todo' = Thread /\ todo'[Main] = s /\ \A u \in Thread : u # Main => todo'[u] = todo[u]
    BY <1>0, <1>u, GoesIs, Distinct
<1>2. a \in Op /\ s \in Seq(Op) /\ todo[Main] = Cons(a, s) /\ Fits(a, s)
    BY <1>0, <1>u, AtIs, Distinct
<1>3. Links(Cons(a, s)) = Links(s) \cup {c}
    BY <1>2, LinksCons
<1>. HIDE DEF a
<1>4. c \in open /\ Links(s) = {}
  <2>1. Links(s) = {}
      BY <1>2, <1>a DEF Fits
  <2>. QED
      BY <2>1, <1>0, <1>2, <1>3 DEF LinksFree
<1>5. TypeOK'
    BY <1>0, <1>u, <1>1, <1>4 DEF TypeOK
<1>6. Threads' /\ Owners'
    BY <1>0, <1>u, <1>a, Distinct, PopSync
<1>7. LinksFree'
    BY <1>1, <1>4 DEF LinksFree
<1>8. Stage'
    BY <1>0, <1>u, <1>a, <1>1, Distinct, StageGoesOn
<1>. QED
    BY <1>5, <1>6, <1>7, <1>8 DEF IInv

(* usbmux_remote_dispose, from any of its callers.                         *)
LEMMA InvDispose ==
    ASSUME IInv, NEW t \in Thread, usbmux_remote_dispose(t)
    PROVE  IInv'
<1>0. TypeOK /\ Threads /\ LinksFree /\ Owners /\ Stage
    BY DEF IInv
<1>1. PICK D \in SUBSET devices, K \in SUBSET linked :
        /\ \/ At(t, Do("dispose"))
           \/ At(t, Do("dispose_all")) /\ D = devices /\ K = linked
        /\ devices' = devices \ D
        /\ open' = open \ K /\ linked' = linked \ K
        /\ Goes(t, DisposePart(D, K) \o Rest(t))
    BY DEF usbmux_remote_dispose
<1>u. owner' = owner /\ gone' = gone /\ simple_poll' = simple_poll /\ life' = life
    BY DEF usbmux_remote_dispose
<1>2. PICK a : At(t, a) /\ a[1] \in {"dispose", "dispose_all"}
    BY <1>1, OpParts
<1>. DEFINE y == Rest(t)
            s == DisposePart(D, K) \o y
<1>3. /\ a \in Op /\ y \in Seq(Op) /\ todo[t] = Cons(a, y)
      /\ Fits(a, y) /\ Disciplined(y) /\ OwnOps(t, y)
      /\ (t \in Probe => a \in ProbeOp) /\ (t = Mdns => a \in MdnsOp /\ "mdns" \in Env)
    BY <1>0, <1>2, AtIs
<1>4. DOMAIN todo' = Thread /\ todo'[t] = s /\ \A u \in Thread : u # t => todo'[u] = todo[u]
    BY <1>0, <1>1, GoesIs
<1>5. Goes(t, s)
    BY <1>1
<1>. HIDE DEF y
<1>6. Held(y) \subseteq {"R"}
    BY <1>2, <1>3 DEF Fits
<1>7. Held(todo[t]) = Held(y) /\ Links(todo[t]) = Links(y)
    BY <1>2, <1>3, HeldCons, LinksCons
<1>8. \A S \in SUBSET Op : SharedOp \subseteq S /\ y \in Seq(S) =>
        /\ Fine(S, s) /\ Held(s) = Held(y) /\ Links(s) = Links(y)
        /\ K = {} => s = IF D # {} THEN TellThen(y) ELSE y
  <2>. SUFFICES ASSUME NEW S \in SUBSET Op, SharedOp \subseteq S, y \in Seq(S)
       PROVE  /\ Fine(S, s) /\ Held(s) = Held(y) /\ Links(s) = Links(y)
              /\ K = {} => s = IF D # {} THEN TellThen(y) ELSE y
      OBVIOUS
  <2>1. MayHoldR(S, y)
      BY <1>3, <1>6 DEF Fine, MayHoldR
  <2>2. Fine(S, s) /\ Held(s) = Held(y) /\ Links(s) = Links(y)
      BY <2>1, DisposePartFine
  <2>3. K = {} => s = IF D # {} THEN TellThen(y) ELSE y
      BY <2>1, DisposePartFine
  <2>. QED
      BY <2>2, <2>3
<1>. HIDE DEF s
<1>9. Fine(Op, s) /\ Held(s) = Held(y) /\ Links(s) = Links(y)
    BY <1>8, <1>3, OpSets
<1>10. t \notin Probe
  <2>1. \A x \in ProbeOp : x[1] \notin {"dispose", "dispose_all"}
      BY OpParts DEF ProbeOp
  <2>. QED
      BY <2>1, <1>2, <1>3
<1>11. OwnOps(t, s)
  <2>1. CASE t = Mdns
    <3>1. Fine(MdnsOp, s)
        BY <2>1, <1>3, <1>8, OpSets DEF OwnOps
    <3>. QED
        BY <2>1, <3>1, <1>3, <1>10 DEF OwnOps, Fine
  <2>2. CASE t # Mdns
      BY <2>2, <1>10 DEF OwnOps
  <2>. QED
      BY <2>1, <2>2
<1>12. Threads' /\ Owners'
  <2>1. s \in Seq(Op) /\ Disciplined(s) /\ Held(s) = Held(todo[t])
      BY <1>7, <1>9 DEF Fine
  <2>. QED
      BY <2>1, <1>0, <1>u, <1>5, <1>11, SyncKept
<1>13. TypeOK'
    BY <1>0, <1>u, <1>1, <1>4 DEF TypeOK
<1>14. LinksFree'
  <2>1. open \ linked \subseteq open' \ linked'
      BY <1>1
  <2>2. Links(todo'[Main]) = Links(todo[Main])
      BY <1>4, <1>7, <1>9, Distinct
  <2>. QED
      BY <2>1, <2>2, <1>0 DEF LinksFree
<1>15. Stage'
  <2>1. CASE t # Main
    <3>1. todo'[Main] = todo[Main] /\ (todo[Mdns] = <<>> => todo'[Mdns] = <<>>) /\ open' \subseteq open
        BY <2>1, <1>1, <1>2, <1>4, Distinct DEF At
    <3>. QED
        BY <3>1, <1>0, <1>u, StageKept
  <2>2. CASE t = Main /\ Working
    <3>1. y \in Seq(WorkOp)
        BY <2>2, <1>2, WorkingStep DEF y
    <3>2. Fine(WorkOp, s)
        BY <3>1, <1>8, OpSets
    <3>. QED
        BY <2>2, <3>2, <1>4, <1>u DEF Working, Stage, Fine
  <2>3. CASE t = Main /\ Late
    <3>1. y = UnlockR /\ todo[Main] \in EndStages /\ "R" \notin gone
        BY <2>3, <1>2, LateStep DEF y
    <3>2. K = {} /\ open' = {}
        BY <2>3, <1>0, <1>1 DEF Late, TypeOK
    <3>3. s = Telling \/ s = UnlockR
        BY <3>1, <3>2, <1>3, <1>8, OpSets DEF Telling, Detaching, Detached, TellThen
    <3>4. todo'[Mdns] = todo[Mdns] /\ todo'[Main] = s
        BY <2>3, <1>4, Distinct
    <3>5. Late'
        BY <2>3, <3>1, <3>2, <3>3, <3>4, <1>u DEF Late, LateStages, EndStages
    <3>. QED
        BY <3>5 DEF Stage
  <2>4. CASE t = Main /\ (ClosingDown \/ AllClosed)
      BY <2>4, <1>2, ClosingStep, AllClosedStep, OpParts
  <2>. QED
      BY <2>1, <2>2, <2>3, <2>4, <1>0 DEF Stage
<1>. QED
    BY <1>12, <1>13, <1>14, <1>15 DEF IInv

(* client_close.                                                           *)
LEMMA InvClose ==
    ASSUME IInv, NEW c \in Client, client_close(c)
    PROVE  IInv'
<1>0. TypeOK /\ Threads /\ LinksFree /\ Owners /\ Stage
    BY DEF IInv
<1>. DEFINE a == Close(c)
            y == Rest(Main)
            s == ClosePart(c) \o y
<1>u. owner' = owner /\ gone' = gone /\ open' = open \ {c} /\ linked' = linked \ {c} /\ devices' = devices
      /\ simple_poll' = simple_poll /\ life' = life /\ Goes(Main, s) /\ At(Main, a)
    BY DEF client_close
<1>a. a[1] = "close"
    BY OpParts
<1>1. /\ a \in Op /\ y \in Seq(Op) /\ todo[Main] = Cons(a, y) /\ Fits(a, y) /\ Disciplined(y)
    BY <1>0, <1>u, AtIs, Distinct
<1>2. DOMAIN todo' = Thread /\ todo'[Main] = s /\ \A u \in Thread : u # Main => todo'[u] = todo[u]
    BY <1>0, <1>u, GoesIs, Distinct
<1>. HIDE DEF a
<1>3. Held(y) = {} /\ Links(y) = {}
    BY <1>1, <1>a DEF Fits
<1>4. Held(todo[Main]) = {}
    BY <1>1, <1>3, <1>a, HeldCons
<1>5. \A S \in SUBSET Op : SharedOp \subseteq S /\ y \in Seq(S) =>
        /\ Fine(S, s) /\ Held(s) = {} /\ Links(s) = Links(y)
        /\ s = IF c \in linked
                THEN Cons(Lock("R"), Cons(Unlock("R"), Cons(Lock("C"), Cons(Unlock("C"), y))))
                ELSE Cons(Lock("C"), Cons(Unlock("C"), y))
  <2>. SUFFICES ASSUME NEW S \in SUBSET Op, SharedOp \subseteq S, y \in Seq(S)
       PROVE  /\ Fine(S, s) /\ Held(s) = {} /\ Links(s) = Links(y)
              /\ s = IF c \in linked
                THEN Cons(Lock("R"), Cons(Unlock("R"), Cons(Lock("C"), Cons(Unlock("C"), y))))
                ELSE Cons(Lock("C"), Cons(Unlock("C"), y))
      OBVIOUS
  <2>1. Fine(S, y)
      BY <1>1 DEF Fine
  <2>. HIDE DEF y
  <2>. QED
      BY <2>1, <1>3, ClosePartFine
<1>. HIDE DEF s, y
<1>6. Fine(Op, s) /\ Held(s) = {} /\ Links(s) = {}
    BY <1>1, <1>3, <1>5, OpSets
<1>7. Threads' /\ Owners'
  <2>1. s \in Seq(Op) /\ Disciplined(s) /\ Held(s) = Held(todo[Main]) /\ OwnOps(Main, s)
      BY <1>4, <1>6, Distinct DEF Fine, OwnOps
  <2>. QED
      BY <2>1, <1>0, <1>u, Distinct, SyncKept
<1>8. TypeOK'
    BY <1>0, <1>u, <1>2 DEF TypeOK
<1>9. LinksFree'
    BY <1>2, <1>6 DEF LinksFree
<1>10. Stage'
  <2>1. CASE Working
    <3>1. y \in Seq(WorkOp)
        BY <2>1, <1>u, WorkingStep DEF y
    <3>2. Fine(WorkOp, s)
        BY <3>1, <1>5, OpSets
    <3>. QED
        BY <2>1, <3>2, <1>2, <1>u DEF Working, Stage, Fine
  <2>2. CASE ClosingDown
    <3>1. y = Closing
        BY <2>2, <1>u, <1>a, ClosingStep DEF y
    <3>2. s = Unlinking \/ s = Unlisting
        BY <3>1, <1>1, <1>5, OpSets DEF Unlinking, Unlinked, Unlisting, Unlisted
    <3>. QED
        BY <2>2, <3>2, <1>2, <1>u DEF ClosingDown, Stage, ClientStages
  <2>3. CASE AllClosed \/ Late
      BY <2>3, <1>u, <1>a, AllClosedStep, LateStep, OpParts
  <2>. QED
      BY <2>1, <2>2, <2>3, <1>0 DEF Stage
<1>. QED
    BY <1>7, <1>8, <1>9, <1>10 DEF IInv

(* client_shutdown's loop.                                                 *)
LEMMA InvCloseAll ==
    ASSUME IInv, close_all
    PROVE  IInv'
<1>0. TypeOK /\ Threads /\ LinksFree /\ Owners /\ Stage
    BY DEF IInv
<1>. DEFINE a == Do("close_all")
<1>u. owner' = owner /\ gone' = gone /\ open' = open /\ linked' = linked /\ devices' = devices
      /\ simple_poll' = simple_poll /\ life' = life /\ At(Main, a)
    BY DEF close_all
<1>a. a[1] = "close_all"
    BY OpParts
<1>g. \/ open = {} /\ Goes(Main, Rest(Main))
      \/ \E c \in open : Goes(Main, Cons(Close(c), todo[Main]))
    BY DEF close_all, Cons
<1>. HIDE DEF a
<1>1. ClosingDown /\ todo[Main] = Closing /\ Rest(Main) = DestroyC
    BY <1>0, <1>u, <1>a, WorkingStep, ClosingStep, AllClosedStep, LateStep, OpParts DEF Stage
<1>2. Links(Closing) = {} /\ Held(Closing) = {} /\ Fine(Op, Closing)
    BY FirstFacts DEF StageFacts
<1>3. CASE open = {} /\ Goes(Main, Rest(Main))
  <2>1. DOMAIN todo' = Thread /\ todo'[Main] = DestroyC /\ \A u \in Thread : u # Main => todo'[u] = todo[u]
      BY <1>0, <1>1, <1>3, GoesIs, Distinct
  <2>2. TypeOK'
      BY <1>0, <1>u, <2>1 DEF TypeOK
  <2>3. Threads' /\ Owners'
      BY <1>0, <1>u, <1>a, <1>3, Distinct, PopSync
  <2>4. LinksFree'
      BY <2>1, FirstFacts DEF LinksFree, StageFacts
  <2>5. AllClosed'
      BY <1>1, <1>3, <1>u, <2>1 DEF AllClosed, ClosingDown
  <2>. QED
      BY <2>2, <2>3, <2>4, <2>5 DEF IInv, Stage
<1>4. ASSUME NEW c \in open, Goes(Main, Cons(Close(c), todo[Main])) PROVE IInv'
  <2>. DEFINE s == CloseLast(c)
  <2>0. c \in Client
      BY <1>0 DEF TypeOK
  <2>1. Goes(Main, s)
      BY <1>1, <1>4 DEF CloseLast
  <2>2. Fine(Op, s) /\ Held(s) = {} /\ Links(s) = {}
      BY <2>0, FirstFacts DEF StageFacts
  <2>. HIDE DEF s
  <2>3. DOMAIN todo' = Thread /\ todo'[Main] = s /\ \A u \in Thread : u # Main => todo'[u] = todo[u]
      BY <1>0, <2>1, GoesIs, Distinct
  <2>4. Threads' /\ Owners'
    <3>1. s \in Seq(Op) /\ Disciplined(s) /\ Held(s) = Held(todo[Main]) /\ OwnOps(Main, s)
        BY <1>1, <1>2, <2>2, Distinct DEF Fine, OwnOps
    <3>. QED
        BY <3>1, <2>1, <1>0, <1>u, Distinct, SyncKept
  <2>5. TypeOK'
      BY <1>0, <1>u, <2>3 DEF TypeOK
  <2>6. LinksFree'
      BY <2>2, <2>3 DEF LinksFree
  <2>7. ClosingDown'
      BY <2>0, <2>3, <1>1, <1>u DEF ClosingDown, ClientStages, s
  <2>. QED
      BY <2>4, <2>5, <2>6, <2>7 DEF IInv, Stage
<1>. QED
    BY <1>g, <1>3, <1>4

(* A probe does what socket_connect_timeout does.                          *)
LEMMA ProbeFine == Fine(ProbeOp, socket_connect) /\ Held(socket_connect) = {}
<1>. DEFINE e == <<>>
<1>1. ProbeOp \in SUBSET Op
    BY OpSets
<1>2. e \in Seq(Op) /\ Fine(ProbeOp, e) /\ Held(e) = {} /\ Asks(e) = {}
    BY <1>1, EmptyFine, NothingInEmpty
<1>. HIDE DEF e
<1>3. Fine(ProbeOp, ConnectThen(e)) /\ Held(ConnectThen(e)) = Held(e)
    BY <1>1, <1>2, PutConnect
<1>4. socket_connect \in Seq(Op) /\ socket_connect \o e = ConnectThen(e)
    BY <1>2, ConnectIs
<1>5. socket_connect \o e = socket_connect
    BY <1>4, ConcatEmptySeq DEF e
<1>. QED
    BY <1>2, <1>3, <1>4, <1>5

(* usbmux_remote_get_fds starts a probe, or none is due.                   *)
LEMMA InvCheck ==
    ASSUME IInv, check_remote
    PROVE  IInv'
<1>0. TypeOK /\ Threads /\ LinksFree /\ Owners /\ Stage
    BY DEF IInv
<1>. DEFINE a == Do("check")
            s == Rest(Main)
            q == socket_connect
<1>u. owner' = owner /\ gone' = gone /\ open' = open /\ linked' = linked /\ devices' = devices
      /\ simple_poll' = simple_poll /\ life' = life /\ At(Main, a)
    BY DEF check_remote
<1>a. a[1] = "check"
    BY OpParts
<1>. HIDE DEF a
<1>1. CASE Goes(Main, Rest(Main))
    BY <1>0, <1>1, <1>a, <1>u, Distinct, InvPop DEF TypeOK
<1>2. ASSUME NEW p \in Probe, todo[p] = <<>>, todo' = [todo EXCEPT ![Main] = Tail(@), ![p] = q]
      PROVE  IInv'
  <2>1. a \in Op /\ s \in Seq(Op) /\ todo[Main] = Cons(a, s) /\ Disciplined(s)
      BY <1>0, <1>u, AtIs, Distinct
  <2>2. Held(todo[Main]) = Held(s)
      BY <2>1, <1>a, HeldCons
  <2>3. /\ DOMAIN todo' = Thread /\ todo'[Main] = s /\ todo'[p] = q
        /\ \A u \in Thread : u # Main /\ u # p => todo'[u] = todo[u]
      BY <1>2, <1>0, Distinct DEF TypeOK, Rest
  <2>. HIDE DEF s, q
  <2>4. q \in Seq(ProbeOp) /\ q \in Seq(Op) /\ Disciplined(q) /\ Held(q) = {}
      BY ProbeFine, FineOp, OpSets DEF q
  <2>5. TypeOK'
      BY <1>0, <1>u, <2>3 DEF TypeOK
  <2>6. Threads'
      BY <1>0, <2>1, <2>3, <2>4, Distinct DEF Threads
  <2>7. \A u \in Thread : Held(todo'[u]) = Held(todo[u])
      BY <2>2, <2>3, <2>4, <1>2, NothingInEmpty
  <2>8. Owners'
      BY <1>0, <1>u, <2>7, OwnersKept
  <2>9. LinksFree'
      BY <1>0, <1>u, <1>a, <2>3, LinksRest DEF LinksFree, s
  <2>10. Stage'
      BY <1>0, <1>u, <1>a, <2>3, Distinct, StageGoesOn DEF s
  <2>. QED
      BY <2>5, <2>6, <2>8, <2>9, <2>10 DEF IInv
<1>. QED
    BY <1>1, <1>2 DEF check_remote

(* The main thread in its loop has no stage of shutdown behind it.         *)
LEMMA IdleWorks ==
    ASSUME Stage, todo[Main] = <<>>
    PROVE  Working
BY StageHeads DEF Stage, ClosingDown, AllClosed, Late, LateStages

(* main_loop goes on with a handler.                                       *)
LEMMA InvHandle ==
    ASSUME IInv, NEW s, Handler(s), Handle(s), todo[Main] = <<>>,
           owner' = owner, gone' = gone, open \subseteq open', open' \subseteq Client,
           linked' = linked, devices' = devices, simple_poll' = simple_poll,
           life' \in {"run", "killed", "caught", "ended"},
           Links(s) \subseteq open \ linked
    PROVE  IInv'
<1>0. TypeOK /\ Threads /\ LinksFree /\ Owners /\ Stage
    BY DEF IInv
<1>1. Goes(Main, s)
    BY DEF Goes, Handle
<1>2. DOMAIN todo' = Thread /\ todo'[Main] = s /\ \A u \in Thread : u # Main => todo'[u] = todo[u]
    BY <1>0, <1>1, GoesIs, Distinct
<1>3. Fine(WorkOp, s) /\ Held(s) = {}
    BY DEF Handler
<1>4. s \in Seq(Op) /\ s \in Seq(WorkOp) /\ Disciplined(s)
    BY <1>3, FineOp, OpSets
<1>5. TypeOK'
    BY <1>0, <1>2 DEF TypeOK
<1>6. Threads' /\ Owners'
  <2>1. Held(s) = Held(todo[Main]) /\ OwnOps(Main, s)
      BY <1>3, NothingInEmpty, Distinct DEF OwnOps
  <2>. QED
      BY <2>1, <1>0, <1>1, <1>4, Distinct, SyncKept
<1>7. LinksFree'
    BY <1>2 DEF LinksFree
<1>8. Stage'
    BY <1>0, <1>2, <1>4, IdleWorks DEF Working, Stage
<1>. QED
    BY <1>5, <1>6, <1>7, <1>8 DEF IInv

(* main_loop has ended: main() goes on to shut down.                       *)
LEMMA InvShutdown ==
    ASSUME IInv, Handle(shutdown), todo[Main] = <<>>,
           owner' = owner, gone' = gone, open' = open, linked' = linked, devices' = devices,
           simple_poll' = simple_poll, life' \in {"run", "killed", "caught", "ended"}
    PROVE  IInv'
<1>0. TypeOK /\ Threads /\ LinksFree /\ Owners /\ Stage
    BY DEF IInv
<1>. DEFINE s == Closing
<1>1. Goes(Main, s)
    BY ShutdownIs DEF Goes, Handle
<1>3. Fine(Op, s) /\ Held(s) = {} /\ Links(s) = {}
    BY FirstFacts DEF StageFacts
<1>. HIDE DEF s
<1>2. DOMAIN todo' = Thread /\ todo'[Main] = s /\ \A u \in Thread : u # Main => todo'[u] = todo[u]
    BY <1>0, <1>1, GoesIs, Distinct
<1>5. TypeOK'
    BY <1>0, <1>2 DEF TypeOK
<1>6. Threads' /\ Owners'
  <2>1. s \in Seq(Op) /\ Disciplined(s) /\ Held(s) = Held(todo[Main]) /\ OwnOps(Main, s)
      BY <1>3, NothingInEmpty, Distinct DEF OwnOps, Fine
  <2>. QED
      BY <2>1, <1>0, <1>1, Distinct, SyncKept
<1>7. LinksFree'
    BY <1>2, <1>3 DEF LinksFree
<1>8. Stage'
  <2>1. gone = {}
      BY <1>0, IdleWorks DEF Working
  <2>. QED
      BY <2>1, <1>2 DEF ClosingDown, Stage, ClientStages, s
<1>. QED
    BY <1>5, <1>6, <1>7, <1>8 DEF IInv

(* A round of main_loop, whatever fd was reported.                         *)
LEMMA InvMainLoop ==
    ASSUME IInv, main_loop
    PROVE  IInv'
<1>0. TypeOK /\ todo[Main] = <<>>
    BY DEF IInv, main_loop
<1>1. open \subseteq Client /\ linked \subseteq Client /\ life \in {"run", "killed", "caught", "ended"}
    BY <1>0 DEF TypeOK
<1>u. owner' = owner /\ gone' = gone /\ linked' = linked /\ devices' = devices
      /\ simple_poll' = simple_poll /\ life' = life
    BY DEF main_loop
<1>2. CASE Handle(client_get_fds \o usbmux_remote_get_fds) /\ UNCHANGED open
  <2>. DEFINE s == client_get_fds \o usbmux_remote_get_fds
  <2>1. Handler(s) /\ Links(s) = {} /\ Handle(s) /\ open' = open
      BY <1>2, RoundFine
  <2>. HIDE DEF s
  <2>. QED
      BY <2>1, <1>0, <1>1, <1>u, InvHandle
<1>3. ASSUME NEW c \in Client \ open, Handle(client_accept(c)), open' = open \cup {c} PROVE IInv'
  <2>. DEFINE s == client_accept(c)
  <2>1. Handler(s) /\ Links(s) = {} /\ Handle(s)
      BY <1>3, RoundFine
  <2>. HIDE DEF s
  <2>. QED
      BY <2>1, <1>0, <1>1, <1>u, <1>3, InvHandle
<1>4. ASSUME NEW c \in open, NEW s \in client_process(c), Handle(s), open' = open PROVE IInv'
  <2>1. Handler(s) /\ Links(s) \subseteq {c} \ linked
      BY <1>1, <1>4, ClientProcessFine
  <2>2. Links(s) \subseteq open \ linked
      BY <2>1
  <2>. QED
      BY <2>1, <2>2, <1>0, <1>1, <1>u, <1>4, InvHandle
<1>5. ASSUME NEW s \in usbmux_remote_process, Handle(s), open' = open PROVE IInv'
  <2>1. Handler(s) /\ Links(s) = {}
      BY <1>1, <1>5, RemoteProcessFine
  <2>. QED
      BY <2>1, <1>0, <1>1, <1>u, <1>5, InvHandle
<1>6. CASE Handle(shutdown) /\ UNCHANGED open
    BY <1>6, <1>0, <1>1, <1>u, InvShutdown
<1>. QED
    BY <1>2, <1>3, <1>4, <1>5, <1>6 DEF main_loop

(* handle_signal.                                                          *)
LEMMA InvSignal ==
    ASSUME IInv, handle_signal
    PROVE  IInv'
BY InvShutdown DEF handle_signal

(* The callbacks of the mDNS thread.                                       *)
LEMMA InvCallback ==
    ASSUME IInv, mdns_callback
    PROVE  IInv'
<1>0. TypeOK /\ Threads /\ LinksFree /\ Owners /\ Stage
    BY DEF IInv
<1>u. owner' = owner /\ gone' = gone /\ open' = open /\ linked' = linked /\ devices' = devices
      /\ simple_poll' = simple_poll /\ life' = life
    BY DEF mdns_callback
<1>. DEFINE y == Cons(Do("poll_loop"), <<>>)
<1>1. Do("poll_loop") \in MdnsOp /\ Do("poll_loop") \in Op /\ MdnsOp \in SUBSET Op /\ SharedOp \subseteq MdnsOp
    BY OpSets DEF MdnsOp
<1>2. Fine(MdnsOp, y) /\ Held(y) = {} /\ Asks(y) = {}
  <2>. DEFINE a == Do("poll_loop")
              e == <<>>
  <2>1. a[1] = "poll_loop" /\ a \in MdnsOp
      BY <1>1, OpParts
  <2>2. Fine(MdnsOp, e) /\ Held(e) = {} /\ Asks(e) = {}
      BY <1>1, EmptyFine
  <2>. HIDE DEF a, e
  <2>3. Fine(MdnsOp, Cons(a, e)) /\ Held(Cons(a, e)) = Held(e) /\ Asks(Cons(a, e)) = Asks(e)
      BY <2>1, <2>2, <1>1, PutOther
  <2>. QED
      BY <2>2, <2>3 DEF a, e
<1>3. todo[Mdns] = y
    BY <1>1, OneIsCons DEF mdns_callback
<1>4. PICK s \in remote_mux_new \cup {remote_reap} : todo' = [todo EXCEPT ![Mdns] = s \o @]
    BY DEF mdns_callback
<1>. HIDE DEF y
<1>. DEFINE h == s \o y
<1>5. Fine(MdnsOp, h) /\ Held(h) = {}
    BY <1>1, <1>2, SharedHandlers
<1>6. Goes(Mdns, h)
    BY <1>0, <1>3, <1>4, Distinct DEF Goes, TypeOK
<1>. HIDE DEF h
<1>7. DOMAIN todo' = Thread /\ \A u \in Thread : u # Mdns => todo'[u] = todo[u]
    BY <1>0, <1>6, GoesIs, Distinct
<1>8. y # <<>>
    BY <1>1, NothingInEmpty, OpCons DEF y
<1>9. h \in Seq(Op) /\ h \in Seq(MdnsOp) /\ Disciplined(h)
    BY <1>1, <1>5, FineOp
<1>10. Threads' /\ Owners'
  <2>1. "mdns" \in Env
      BY <1>0, <1>3, <1>8 DEF Threads
  <2>2. Held(h) = Held(todo[Mdns]) /\ OwnOps(Mdns, h)
      BY <2>1, <1>2, <1>3, <1>5, <1>9, Distinct DEF OwnOps
  <2>. QED
      BY <2>2, <1>0, <1>u, <1>6, <1>9, Distinct, SyncKept
<1>11. TypeOK'
    BY <1>0, <1>u, <1>7 DEF TypeOK
<1>12. LinksFree'
    BY <1>0, <1>u, <1>7, Distinct DEF LinksFree
<1>13. Stage'
    BY <1>0, <1>u, <1>3, <1>7, <1>8, Distinct, StageKept
<1>. QED
    BY <1>10, <1>11, <1>12, <1>13 DEF IInv

(* The mDNS thread goes on with its loop, or ends.                         *)
LEMMA InvPoll ==
    ASSUME IInv, simple_poll_new \/ simple_poll_free
    PROVE  IInv'
<1>0. TypeOK /\ Threads /\ LinksFree /\ Owners /\ Stage
    BY DEF IInv
<1>u. owner' = owner /\ gone' = gone /\ open' = open /\ linked' = linked /\ devices' = devices
      /\ simple_poll' \in {"null", "set", "quit"} /\ life' = life
    BY <1>0 DEF simple_poll_new, simple_poll_free, TypeOK
<1>1. PICK a : At(Mdns, a) /\ a[1] \in {"poll_new", "poll_loop"}
    BY OpParts DEF simple_poll_new, simple_poll_free
<1>. DEFINE r == Rest(Mdns)
            e == <<>>
<1>2. Goes(Mdns, r) \/ Goes(Mdns, e)
    BY DEF simple_poll_new, simple_poll_free
<1>3. a \in Op /\ r \in Seq(Op) /\ todo[Mdns] = Cons(a, r) /\ Fits(a, r) /\ Disciplined(r) /\ OwnOps(Mdns, r)
    BY <1>0, <1>1, AtIs, Distinct
<1>4. todo[Mdns] # <<>>
    BY <1>1 DEF At
<1>5. e \in Seq(Op) /\ Disciplined(e) /\ Held(e) = {} /\ OwnOps(Mdns, e)
    BY EmptyDisciplined, NothingInEmpty, EmptySeq DEF OwnOps
<1>. HIDE DEF r, e
<1>6. Held(r) = {} /\ Held(todo[Mdns]) = {}
  <2>1. Held(r) = {}
      BY <1>1, <1>3 DEF Fits
  <2>2. Held(Cons(a, r)) = Held(r)
      BY <1>1, <1>3, HeldCons
  <2>. QED
      BY <2>1, <2>2, <1>3
<1>7. PICK s : Goes(Mdns, s) /\ s \in Seq(Op) /\ Disciplined(s) /\ Held(s) = {} /\ OwnOps(Mdns, s)
    BY <1>2, <1>3, <1>5, <1>6
<1>8. DOMAIN todo' = Thread /\ \A u \in Thread : u # Mdns => todo'[u] = todo[u]
    BY <1>0, <1>7, GoesIs, Distinct
<1>9. Threads' /\ Owners'
    BY <1>0, <1>u, <1>6, <1>7, Distinct, SyncKept
<1>10. TypeOK'
    BY <1>0, <1>u, <1>8 DEF TypeOK
<1>11. LinksFree'
    BY <1>0, <1>u, <1>8, Distinct DEF LinksFree
<1>12. Stage'
    BY <1>0, <1>u, <1>4, <1>8, Distinct, StageKept
<1>. QED
    BY <1>9, <1>10, <1>11, <1>12 DEF IInv

(* usbmux_remote_shutdown stops the mDNS thread, step by step.             *)
LEMMA InvStop ==
    ASSUME IInv, NEW a, At(Main, a), Late, a[1] \in {"poll_there", "poll_quit", "join"},
           NEW s \in {Quitting, Joining, Entering}, Goes(Main, s),
           s = Entering => todo[Mdns] = <<>>,
           owner' = owner, gone' = gone, open' = open, linked' = linked, devices' = devices,
           simple_poll' \in {"null", "set", "quit"}, life' = life
    PROVE  IInv'
<1>0. TypeOK /\ Threads /\ LinksFree /\ Owners /\ Stage
    BY DEF IInv
<1>1. Fine(Op, s) /\ Held(s) = {} /\ Links(s) = {}
  <2>1. CASE s = Entering
      BY <2>1, EndFacts DEF StageFacts
  <2>2. CASE s = Joining
      BY <2>2, FirstFacts DEF StageFacts
  <2>3. CASE s = Quitting
      BY <2>3, FirstFacts DEF StageFacts
  <2>. QED
      BY <2>1, <2>2, <2>3
<1>2. DOMAIN todo' = Thread /\ todo'[Main] = s /\ \A u \in Thread : u # Main => todo'[u] = todo[u]
    BY <1>0, GoesIs, Distinct
<1>3. Held(todo[Main]) = {}
  <2>1. todo[Main] \in {Asking, Quitting, Joining}
    <3>1. todo[Main] \in LateStages /\ Head(todo[Main]) = a
        BY DEF Late, At
    <3>2. todo[Main] \notin EndStages
        BY <3>1, StageHeads
    <3>. QED
        BY <3>1, <3>2 DEF LateStages
  <2>. QED
      BY <2>1, FirstFacts
<1>4. Threads' /\ Owners'
  <2>1. s \in Seq(Op) /\ Disciplined(s) /\ Held(s) = Held(todo[Main]) /\ OwnOps(Main, s)
      BY <1>1, <1>3, Distinct DEF OwnOps, Fine
  <2>. QED
      BY <2>1, <1>0, Distinct, SyncKept
<1>5. TypeOK'
    BY <1>0, <1>2 DEF TypeOK
<1>6. LinksFree'
    BY <1>1, <1>2 DEF LinksFree
<1>7. Stage'
  <2>1. "R" \notin gone
      BY LateStep
  <2>2. Quitting \notin EndStages /\ Joining \notin EndStages
      BY StageHeads
  <2>3. s \in LateStages /\ (s \in EndStages => s = Entering)
      BY <2>2 DEF LateStages, EndStages
  <2>4. todo'[Mdns] = todo[Mdns]
      BY <1>2, Distinct
  <2>5. todo'[Main] \in LateStages /\ "C" \in gone' /\ open' = {} /\ "R" \notin gone'
      BY <1>2, <2>1, <2>3 DEF Late
  <2>6. todo'[Main] \in EndStages => todo'[Mdns] = <<>>
      BY <1>2, <2>3, <2>4
  <2>7. Late'
      BY <2>5, <2>6 DEF Late
  <2>. QED
      BY <2>7 DEF Stage
<1>. QED
    BY <1>4, <1>5, <1>6, <1>7 DEF IInv

(* Only main() at its end asks for the poll object or joins.               *)
LEMMA StopsLate ==
    ASSUME Stage, NEW a, At(Main, a), a[1] \in {"poll_there", "poll_quit", "join", "exit"}
    PROVE  Late
BY WorkingStep, ClosingStep, AllClosedStep, OpParts DEF Stage

(* Nothing but the process changes.                                        *)
LEMMA InvLife ==
    ASSUME IInv, life' \in {"run", "killed", "caught", "ended"},
           UNCHANGED <<owner, gone, todo, open, linked, devices, simple_poll>>
    PROVE  IInv'
<1>0. TypeOK /\ Threads /\ LinksFree /\ Owners /\ Stage
    BY DEF IInv
<1>u. owner' = owner /\ gone' = gone /\ todo' = todo /\ open' = open /\ linked' = linked
      /\ devices' = devices /\ simple_poll' = simple_poll
    OBVIOUS
<1>1. TypeOK'
    BY <1>0, <1>u DEF TypeOK
<1>2. Threads'
    BY <1>0, <1>u DEF Threads
<1>3. LinksFree'
    BY <1>0, <1>u DEF LinksFree
<1>4. Owners'
    BY <1>0, <1>u DEF Owners
<1>5. Stage'
    BY <1>0, <1>u, StageKept
<1>. QED
    BY <1>1, <1>2, <1>3, <1>4, <1>5 DEF IInv

(* if (simple_poll) avahi_simple_poll_quit(simple_poll); and the join.     *)
LEMMA InvStopMdns ==
    ASSUME IInv, simple_poll_there \/ simple_poll_quit \/ join
    PROVE  IInv'
<1>0. TypeOK /\ Stage
    BY DEF IInv
<1>1. CASE simple_poll_there
  <2>. DEFINE a == Do("poll_there")
  <2>1. At(Main, a) /\ a[1] = "poll_there"
      BY <1>1, OpParts DEF simple_poll_there
  <2>2. Goes(Main, Tail(Rest(Main))) \/ Goes(Main, Rest(Main))
      BY <1>1 DEF simple_poll_there
  <2>3. owner' = owner /\ gone' = gone /\ open' = open /\ linked' = linked /\ devices' = devices
        /\ simple_poll' \in {"null", "set", "quit"} /\ life' = life
      BY <1>0, <1>1 DEF simple_poll_there, TypeOK
  <2>. HIDE DEF a
  <2>4. Late
      BY <1>0, <2>1, StopsLate
  <2>5. Rest(Main) = Quitting /\ Tail(Quitting) = Joining
      BY <2>1, <2>4, LateStep, FirstFacts DEF StageFacts
  <2>6. PICK s \in {Quitting, Joining} : Goes(Main, s)
      BY <2>2, <2>5
  <2>7. Entering # s
      BY StageHeads DEF EndStages
  <2>. QED
      BY <2>1, <2>3, <2>4, <2>6, <2>7, InvStop
<1>2. CASE simple_poll_quit
  <2>. DEFINE a == Do("poll_quit")
  <2>1. At(Main, a) /\ a[1] = "poll_quit"
      BY <1>2, OpParts DEF simple_poll_quit
  <2>. HIDE DEF a
  <2>2. Late
      BY <1>0, <2>1, StopsLate
  <2>3. Rest(Main) = Joining /\ Entering # Joining
      BY <2>1, <2>2, LateStep, StageHeads DEF EndStages
  <2>4. CASE life' = "ended" /\ UNCHANGED <<simple_poll, todo>>
      BY <1>2, <2>4, InvLife DEF simple_poll_quit
  <2>5. CASE Goes(Main, Rest(Main)) /\ UNCHANGED life
            /\ simple_poll' = IF simple_poll = "set" THEN "quit" ELSE simple_poll
    <3>1. owner' = owner /\ gone' = gone /\ open' = open /\ linked' = linked /\ devices' = devices
          /\ simple_poll' \in {"null", "set", "quit"} /\ life' = life
        BY <1>0, <1>2, <2>5 DEF simple_poll_quit, TypeOK
    <3>2. Goes(Main, Joining)
        BY <2>3, <2>5
    <3>. QED
        BY <3>1, <3>2, <2>1, <2>2, <2>3, InvStop
  <2>. QED
      BY <1>2, <2>4, <2>5 DEF simple_poll_quit
<1>3. CASE join
  <2>. DEFINE a == Do("join")
  <2>1. At(Main, a) /\ a[1] = "join"
      BY <1>3, OpParts DEF join
  <2>2. todo[Mdns] = <<>> /\ Goes(Main, Rest(Main))
        /\ owner' = owner /\ gone' = gone /\ open' = open /\ linked' = linked /\ devices' = devices
        /\ simple_poll' \in {"null", "set", "quit"} /\ life' = life
      BY <1>0, <1>3 DEF join, TypeOK
  <2>. HIDE DEF a
  <2>3. Late
      BY <1>0, <2>1, StopsLate
  <2>4. Goes(Main, Entering)
      BY <2>1, <2>2, <2>3, LateStep
  <2>. QED
      BY <2>1, <2>2, <2>3, <2>4, InvStop
<1>. QED
    BY <1>1, <1>2, <1>3

(* main() has not entered its loop yet.                                    *)
LEMMA InvInit == Init => IInv
<1>. SUFFICES ASSUME Init PROVE IInv
    OBVIOUS
<1>. DEFINE e == <<>>
            a == Do("poll_new")
            b == Do("poll_loop")
            s == Cons(a, Cons(b, e))
<1>1. a \in MdnsOp /\ b \in MdnsOp /\ a[1] = "poll_new" /\ b[1] = "poll_loop" /\ MdnsOp \in SUBSET Op
    BY OpSets, OpParts DEF MdnsOp
<1>2. e \in Seq(Op) /\ e \in Seq(MdnsOp) /\ e \in Seq(ProbeOp) /\ e \in Seq(WorkOp)
      /\ Fine(MdnsOp, e) /\ Disciplined(e) /\ Held(e) = {} /\ Links(e) = {}
    BY <1>1, EmptyFine, EmptyDisciplined, EmptySeq
<1>3. todo[Mdns] = s \/ todo[Mdns] = e
  <2>1. <<a, b>> \o e = s
      BY <1>1, <1>2, PairThen
  <2>2. <<a, b>> \o <<>> = <<a, b>>
      OBVIOUS
  <2>. QED
      BY <2>1, <2>2, Distinct DEF Init
<1>4. \A t \in Thread : t # Mdns => todo[t] = e
    BY DEF Init
<1>5. "mdns" \notin Env => todo[Mdns] = e
    BY Distinct DEF Init
<1>6. DOMAIN todo = Thread /\ owner = [m \in Mutex |-> None] /\ gone = {} /\ open = {} /\ linked = {}
      /\ devices = {} /\ simple_poll = "null" /\ life = "run"
    BY DEF Init
<1>. HIDE DEF a, b, e
<1>7. Fine(MdnsOp, s) /\ Held(s) = {}
  <2>1. Fine(MdnsOp, Cons(b, e)) /\ Held(Cons(b, e)) = Held(e)
      BY <1>1, <1>2, PutOther
  <2>. DEFINE c == Cons(b, e)
  <2>. HIDE DEF c
  <2>2. Fine(MdnsOp, c) /\ Held(c) = {}
      BY <2>1, <1>2 DEF c
  <2>3. Fine(MdnsOp, Cons(a, c)) /\ Held(Cons(a, c)) = Held(c)
      BY <2>2, <1>1, PutOther
  <2>. QED
      BY <2>2, <2>3 DEF c
<1>8. s \in Seq(Op) /\ s \in Seq(MdnsOp) /\ Disciplined(s)
    BY <1>1, <1>7, FineOp
<1>. HIDE DEF s
<1>9. TypeOK
    BY <1>6 DEF TypeOK
<1>10. Threads
    BY <1>2, <1>3, <1>4, <1>5, <1>8, Distinct DEF Threads, e
<1>11. LinksFree
    BY <1>2, <1>4, Distinct DEF LinksFree
<1>12. Owners
  <2>1. \A t \in Thread : Held(todo[t]) = {}
      BY <1>2, <1>3, <1>4, <1>7
  <2>2. \A m \in Mutex : owner[m] = None
      BY <1>6
  <2>. QED
      BY <2>1, <2>2 DEF Owners
<1>13. Stage
    BY <1>2, <1>4, <1>6, Distinct DEF Stage, Working
<1>. QED
    BY <1>9, <1>10, <1>11, <1>12, <1>13 DEF IInv

(* The operations every thread may come to.                                *)
LEMMA InvStep ==
    ASSUME IInv, NEW t \in Thread, Step(t)
    PROVE  IInv'
<1>0. devices \subseteq Device
    BY DEF IInv, TypeOK
<1>1. ASSUME NEW m \in Mutex, lock(t, m) \/ unlock(t, m) PROVE IInv'
    BY <1>1, InvLock
<1>2. ASSUME NEW m \in Mutex, destroy(t, m) PROVE IInv'
    BY <1>2, InvDestroy
<1>3. CASE gethostbyname(t) \/ proceed(t)
  <2>1. PICK a : At(t, a) /\ a[1] \in {"gethostbyname", "connect", "accepted", "detach"}
      BY <1>3, OpParts DEF gethostbyname, proceed
  <2>2. Goes(t, Rest(t)) /\ UNCHANGED <<owner, gone, open, linked, simple_poll, life>> /\ devices' \subseteq Device
      BY <1>0, <1>3 DEF gethostbyname, proceed
  <2>. QED
      BY <2>1, <2>2, InvPop
<1>4. CASE unknown_host(t)
    BY <1>4, InvUnknown
<1>5. CASE usbmux_remote_dispose(t)
    BY <1>5, InvDispose
<1>. QED
    BY <1>1, <1>2, <1>3, <1>4, <1>5 DEF Step

(* A device comes or goes.                                                 *)
LEMMA InvDevice ==
    ASSUME IInv, device_change
    PROVE  IInv'
<1>0. devices \subseteq Device
    BY DEF IInv, TypeOK
<1>. DEFINE a == Do("device")
<1>1. At(Main, a) /\ a[1] = "device"
    BY OpParts DEF device_change
<1>2. Goes(Main, Rest(Main)) /\ UNCHANGED <<owner, gone, open, linked, simple_poll, life>> /\ devices' \subseteq Device
    BY <1>0 DEF device_change
<1>. HIDE DEF a
<1>. QED
    BY <1>1, <1>2, Distinct, InvPop

(* The invariant is inductive.                                             *)
LEMMA InvNext ==
    ASSUME IInv, [Next]_vars
    PROVE  IInv'
<1>0. life \in {"run", "killed", "caught", "ended"}
    BY DEF IInv, TypeOK
<1>1. CASE main_loop
    BY <1>1, InvMainLoop
<1>2. CASE kill
    BY <1>2, InvLife DEF kill
<1>3. CASE handle_signal
    BY <1>3, InvSignal
<1>4. CASE MainStep
  <2>1. CASE Step(Main)
      BY <2>1, InvStep, Distinct
  <2>2. ASSUME NEW c \in Client, link(c) PROVE IInv'
      BY <2>2, InvLink
  <2>3. ASSUME NEW c \in Client, client_close(c) PROVE IInv'
      BY <2>3, InvClose
  <2>4. CASE device_change
      BY <2>4, InvDevice
  <2>5. CASE check_remote
      BY <2>5, InvCheck
  <2>6. CASE close_all
      BY <2>6, InvCloseAll
  <2>7. CASE simple_poll_there \/ simple_poll_quit \/ join
      BY <2>7, InvStopMdns
  <2>8. CASE exit
      BY <2>8, InvLife DEF exit
  <2>. QED
      BY <1>4, <2>1, <2>2, <2>3, <2>4, <2>5, <2>6, <2>7, <2>8 DEF MainStep
<1>5. CASE mdns_callback
    BY <1>5, InvCallback
<1>6. CASE MdnsStep
    BY <1>6, InvStep, InvPoll, Distinct DEF MdnsStep
<1>7. CASE simple_poll_free
    BY <1>7, InvPoll
<1>8. ASSUME NEW p \in Probe, Step(p) PROVE IInv'
    BY <1>8, InvStep, Distinct
<1>9. CASE UNCHANGED vars
    BY <1>0, <1>9, InvLife DEF vars
<1>. QED
    BY <1>1, <1>2, <1>3, <1>4, <1>5, <1>6, <1>7, <1>8, <1>9 DEF Next

(***************************************************************************)
(* In every state of every behaviour each thread does what it is for, in   *)
(* the order of the locks, and holds what it has still to unlock; and main *)
(* is in a handler or at one of the points of its shutdown.                *)
(***************************************************************************)
THEOREM LocksInductive == Spec => []IInv
<1>1. IInv /\ [Next]_vars => IInv'
    BY InvNext
<1>. QED
    BY InvInit, <1>1, PTL DEF Spec

(* Mutexes are held by threads, and only clients in client_list have a     *)
(* remote, however handlers, callbacks and shutdown interleave.            *)
THEOREM LocksTypeCorrect == Spec => []TypeOK
<1>1. IInv => TypeOK
    BY DEF IInv
<1>. QED
    BY <1>1, LocksInductive, PTL

-----------------------------------------------------------------------------
(* What the invariant says.                                                *)

(* Locking and unlocking, as members of a range.                           *)
LEMMA InRange ==
    ASSUME NEW s \in Seq(Op), NEW m \in Mutex
    PROVE  /\ Lock(m) \in Range(s) <=> m \in Asks(s)
           /\ m \in Held(s) => Unlock(m) \in Range(s)
           /\ Unlock(m) \in Range(s) /\ m \notin Asks(s) => m \in Held(s)
<1>1. DOMAIN s = 1 .. Len(s) /\ Len(s) \in Nat
    BY LenProperties
<1>2. \A x : x \in Range(s) <=> \E k \in 1 .. Len(s) : s[k] = x
    BY <1>1 DEF Range
<1>3. Lock(m) \in Range(s) <=> m \in Asks(s)
    BY <1>2 DEF Asks
<1>4. m \in Held(s) => Unlock(m) \in Range(s)
    BY <1>2 DEF Held
<1>5. ASSUME Unlock(m) \in Range(s), m \notin Asks(s) PROVE m \in Held(s)
  <2>1. PICK k \in 1 .. Len(s) : s[k] = Unlock(m)
      BY <1>2, <1>5
  <2>2. \A j \in 1 .. (k - 1) : j \in 1 .. Len(s)
      BY <1>1
  <2>3. \A j \in 1 .. (k - 1) : s[j] # Lock(m)
      BY <2>2, <1>5 DEF Asks
  <2>. QED
      BY <2>1, <2>3 DEF Held
<1>. QED
    BY <1>3, <1>4, <1>5

(* A probe does nothing with remote_list_mutex.                            *)
LEMMA ProbesApart ==
    ASSUME NEW s \in Seq(ProbeOp)
    PROVE  "R" \notin Held(s) /\ "R" \notin Asks(s)
<1>1. \A k \in 1 .. Len(s) : s[k] \in ProbeOp
    BY ElementOfSeq
<1>2. \A x \in ProbeOp : x # Lock("R") /\ x # Unlock("R")
  <2>1. Lock("R")[1] = "lock" /\ Unlock("R")[1] = "unlock" /\ Lock("R")[2] = "R" /\ Unlock("R")[2] = "R"
      BY OpParts
  <2>2. \A x \in ProbeOp : x[1] \in {"lock", "unlock"} => x[2] = "G"
      BY OpParts DEF ProbeOp
  <2>. QED
      BY <2>1, <2>2
<1>. QED
    BY <1>1, <1>2 DEF Held, Asks

(* usbmux_remote_shutdown destroys remote_list_mutex when no thread holds  *)
(* it and none will lock it.                                               *)
LEMMA OutlivesUsers == IInv => RegistryOutlivesUsers
<1>. SUFFICES ASSUME IInv, "R" \in gone
              PROVE  owner["R"] = None /\ \A t \in Thread : ~ Wants(t, "R")
    BY DEF RegistryOutlivesUsers
<1>0. TypeOK /\ Threads /\ Owners /\ Stage
    BY DEF IInv
<1>1. todo[Main] \in {DestroyG, Exit} /\ todo[Mdns] = <<>>
    BY <1>0 DEF Stage, Working, ClosingDown, AllClosed, Late, EndStages
<1>2. Exit \in Seq(Op) /\ DestroyG \in Seq(Op) /\ Held(Exit) = {} /\ Held(DestroyG) = {}
    BY EndFacts DEF StageFacts, Fine
<1>3. Asks(Exit) = {} /\ Asks(DestroyG) = {}
  <2>. DEFINE a == Do("exit")
              b == Destroy("G")
              e == <<>>
  <2>1. a \in Op /\ b \in Op /\ a[1] = "exit" /\ b[1] = "destroy"
      BY OpSets, OpParts DEF Word, Mutex
  <2>2. e \in Seq(Op) /\ Asks(e) = {}
      BY NothingInEmpty
  <2>. HIDE DEF a, b, e
  <2>3. Asks(Cons(a, e)) = {}
      BY <2>1, <2>2, AsksCons
  <2>4. Exit = Cons(a, e) /\ DestroyG = Cons(b, Exit)
      BY DEF Exit, DestroyG, a, b, e
  <2>5. Asks(Exit) = {}
      BY <2>3, <2>4
  <2>6. Asks(Cons(b, Exit)) = Asks(Exit)
      BY <2>1, <1>2, AsksCons
  <2>. QED
      BY <2>4, <2>5, <2>6
<1>4. "R" \in Mutex
    BY DEF Mutex
<1>5. ASSUME NEW t \in Thread PROVE "R" \notin Held(todo[t]) /\ ~ Wants(t, "R")
  <2>1. todo[t] \in Seq(Op)
      BY <1>0 DEF Threads
  <2>2. "R" \notin Held(todo[t]) /\ "R" \notin Asks(todo[t])
    <3>1. CASE t = Main
        BY <3>1, <1>1, <1>2, <1>3
    <3>2. CASE t = Mdns
        BY <3>2, <1>1, NothingInEmpty
    <3>3. CASE t \in Probe
        BY <3>3, <1>0, ProbesApart DEF Threads
    <3>. QED
        BY <3>1, <3>2, <3>3, Distinct
  <2>. QED
      BY <2>1, <2>2, <1>4, InRange DEF Wants
<1>6. owner["R"] = None
  <2>1. owner["R"] \in Thread \cup {None}
      BY <1>0, <1>4 DEF TypeOK
  <2>2. owner["R"] # None => "R" \in Held(todo[owner["R"]])
      BY <1>0, <1>4 DEF Owners
  <2>. QED
      BY <2>1, <2>2, <1>5
<1>. QED
    BY <1>5, <1>6

(* For every number of clients, devices and probes: when                   *)
(* usbmux_remote_shutdown has destroyed remote_list_mutex, nobody holds it *)
(* and nobody will lock it.                                                *)
THEOREM RegistryOutlivesUsersAlways == Spec => []RegistryOutlivesUsers
BY LocksInductive, OutlivesUsers, PTL

(* Every lock of client_list_mutex in s is to report devices.              *)
ForDevices(s) ==
    /\ s \in Seq(Op)
    /\ \A i \in 1 .. Len(s) : s[i] = Lock("C") => i < Len(s) /\ s[i + 1] = Do("detach")

(* One more operation in front.                                            *)
LEMMA ForDevicesCons ==
    ASSUME NEW a \in Op, NEW s, ForDevices(s), a = Lock("C") => s # <<>> /\ Head(s) = Do("detach")
    PROVE  ForDevices(Cons(a, s))
<1>. DEFINE c == Cons(a, s)
<1>0. s \in Seq(Op) /\ Len(s) \in Nat
    BY LenProperties DEF ForDevices
<1>1. c \in Seq(Op) /\ Len(c) = Len(s) + 1 /\ \A i \in 1 .. Len(s) : c[i + 1] = s[i]
    BY <1>0, OpCons
<1>2. \A k \in 1 .. Len(c) : \/ k = 1 /\ c[k] = a
                             \/ k - 1 \in 1 .. Len(s) /\ k # 1 /\ c[k] = s[k - 1]
    BY <1>0, ConsIndex
<1>. HIDE DEF c
<1>3. ASSUME NEW i \in 1 .. Len(c), c[i] = Lock("C") PROVE i < Len(c) /\ c[i + 1] = Do("detach")
  <2>1. CASE i = 1
    <3>1. s # <<>> /\ Head(s) = Do("detach")
        BY <2>1, <1>2, <1>3
    <3>2. 1 \in 1 .. Len(s) /\ s[1] = Do("detach")
        BY <3>1, <1>0, EmptySeq
    <3>. QED
        BY <2>1, <3>2, <1>1
  <2>2. CASE i # 1
    <3>1. i - 1 \in 1 .. Len(s) /\ s[i - 1] = Lock("C") /\ (i - 1) + 1 = i
        BY <2>2, <1>2, <1>3
    <3>2. i - 1 < Len(s) /\ s[(i - 1) + 1] = Do("detach")
        BY <3>1 DEF ForDevices
    <3>3. i \in 1 .. Len(s) /\ s[i] = Do("detach")
        BY <3>1, <3>2, <1>0
    <3>. QED
        BY <3>3, <1>0, <1>1
  <2>. QED
      BY <2>1, <2>2
<1>. QED
    BY <1>1, <1>3 DEF ForDevices, c

(* What main() does after client_shutdown.                                 *)
LEMMA LateForDevices == \A s \in LateStages : ForDevices(s)
<1>1. /\ Do("exit") \in Op /\ Do("detach") \in Op /\ Do("dispose_all") \in Op /\ Do("join") \in Op
      /\ Do("poll_quit") \in Op /\ Do("poll_there") \in Op
      /\ Destroy("G") \in Op /\ Destroy("R") \in Op /\ Unlock("R") \in Op /\ Unlock("C") \in Op
      /\ Lock("C") \in Op /\ Lock("R") \in Op
    BY OpSets DEF Word, Mutex
<1>2. /\ Do("exit") # Lock("C") /\ Do("detach") # Lock("C") /\ Do("dispose_all") # Lock("C")
      /\ Do("join") # Lock("C") /\ Do("poll_quit") # Lock("C") /\ Do("poll_there") # Lock("C")
      /\ Destroy("G") # Lock("C") /\ Destroy("R") # Lock("C") /\ Unlock("R") # Lock("C")
      /\ Unlock("C") # Lock("C") /\ Lock("R") # Lock("C")
  <2>1. Lock("C")[1] = "lock" /\ Lock("C")[2] = "C" /\ Lock("R")[2] = "R"
      BY OpParts
  <2>2. /\ Do("exit")[1] = "exit" /\ Do("detach")[1] = "detach" /\ Do("dispose_all")[1] = "dispose_all"
        /\ Do("join")[1] = "join" /\ Do("poll_quit")[1] = "poll_quit" /\ Do("poll_there")[1] = "poll_there"
      BY OpParts
  <2>3. /\ Destroy("G")[1] = "destroy" /\ Destroy("R")[1] = "destroy" /\ Unlock("R")[1] = "unlock"
        /\ Unlock("C")[1] = "unlock"
      BY OpParts
  <2>. QED
      BY <2>1, <2>2, <2>3
<1>3. ForDevices(<<>>)
    BY NothingInEmpty DEF ForDevices
<1>4. ForDevices(Exit)
    BY <1>1, <1>2, <1>3, ForDevicesCons DEF Exit
<1>5. ForDevices(DestroyG)
    BY <1>1, <1>2, <1>4, ForDevicesCons DEF DestroyG
<1>6. ForDevices(DestroyR)
    BY <1>1, <1>2, <1>5, ForDevicesCons DEF DestroyR
<1>7. ForDevices(UnlockR)
    BY <1>1, <1>2, <1>6, ForDevicesCons DEF UnlockR
<1>8. ForDevices(Detached)
    BY <1>1, <1>2, <1>7, ForDevicesCons DEF Detached
<1>9. ForDevices(Detaching)
    BY <1>1, <1>2, <1>8, ForDevicesCons DEF Detaching
<1>10. ForDevices(Telling)
  <2>1. Detaching # <<>> /\ Head(Detaching) = Do("detach")
      BY EndFacts DEF StageFacts
  <2>. QED
      BY <1>1, <1>9, <2>1, ForDevicesCons DEF Telling
<1>11. ForDevices(Disposing)
    BY <1>1, <1>2, <1>7, ForDevicesCons DEF Disposing
<1>12. ForDevices(Entering)
    BY <1>1, <1>2, <1>11, ForDevicesCons DEF Entering
<1>13. ForDevices(Joining)
    BY <1>1, <1>2, <1>12, ForDevicesCons DEF Joining
<1>14. ForDevices(Quitting)
    BY <1>1, <1>2, <1>13, ForDevicesCons DEF Quitting
<1>15. ForDevices(Asking)
    BY <1>1, <1>2, <1>14, ForDevicesCons DEF Asking
<1>. QED
    BY <1>4, <1>5, <1>6, <1>7, <1>8, <1>9, <1>10, <1>11, <1>12, <1>13, <1>14, <1>15 DEF LateStages, EndStages

(* For every number of clients, devices and probes: once client_shutdown   *)
(* has destroyed client_list_mutex, main() locks it only to report devices *)
(* that are still listed, never for a client.                              *)
THEOREM LateLocksForDevicesAlways == Spec => []LateLocksForDevices
<1>1. IInv => LateLocksForDevices
  <2>. SUFFICES ASSUME IInv, "C" \in gone PROVE LateLocksForDevices
      BY DEF LateLocksForDevices
  <2>1. todo[Main] \in LateStages
      BY DEF IInv, Stage, Working, ClosingDown, AllClosed, Late
  <2>2. ForDevices(todo[Main])
      BY <2>1, LateForDevices
  <2>3. DOMAIN todo[Main] = 1 .. Len(todo[Main])
      BY <2>2 DEF ForDevices
  <2>. QED
      BY <2>2, <2>3 DEF LateLocksForDevices, ForDevices
<1>. QED
    BY <1>1, LocksInductive, PTL

-----------------------------------------------------------------------------
(* Waiting.                                                                *)

(* A thread that still has to unlock gethostbyname_mutex before it locks   *)
(* it has no reason to lock it after that.                                 *)
LEMMA UnlockGLast ==
    ASSUME NEW s \in Seq(Op), Disciplined(s), "G" \in Held(s)
    PROVE  "G" \notin Asks(s)
<1>0. Len(s) \in Nat /\ "G" \in Mutex
    BY LenProperties DEF Mutex
<1>1. PICK k \in 1 .. Len(s) : s[k] = Unlock("G") /\ \A j \in 1 .. (k - 1) : s[j] # Lock("G")
    BY DEF Held
<1>. DEFINE r == SubSeq(s, k + 1, Len(s))
<1>2. Fits(s[k], r)
    BY DEF Disciplined
<1>3. /\ Len(r) = Len(s) - k
      /\ \A i \in 1 .. Len(r) : r[i] = s[k + i]
    BY <1>0
<1>. HIDE DEF r
<1>4. "G" \notin Asks(r)
    BY <1>1, <1>2 DEF Fits
<1>5. ASSUME NEW j \in 1 .. Len(s), s[j] = Lock("G") PROVE FALSE
  <2>1. CASE j \in 1 .. (k - 1)
      BY <2>1, <1>1, <1>5
  <2>2. CASE j = k
      BY <2>2, <1>1, <1>5, OpParts
  <2>3. CASE j > k
    <3>1. j - k \in 1 .. Len(r) /\ r[j - k] = s[k + (j - k)] /\ k + (j - k) = j
        BY <2>3, <1>0, <1>3
    <3>2. r[j - k] = Lock("G")
        BY <3>1, <1>5
    <3>. QED
        BY <3>1, <3>2, <1>0, <1>4 DEF Asks
  <2>. QED
      BY <2>1, <2>2, <2>3, <1>0
<1>. QED
    BY <1>5 DEF Asks

(* gethostbyname_mutex is leaked when its owner does not still have to     *)
(* unlock it.                                                              *)
LEMMA LeakedIs ==
    ASSUME IInv
    PROVE  Leaked <=> owner["G"] # None /\ "G" \notin Held(todo[owner["G"]])
<1>1. CASE owner["G"] = None
    BY <1>1 DEF Leaked
<1>2. CASE owner["G"] # None
  <2>. DEFINE s == todo[owner["G"]]
  <2>1. "G" \in Mutex /\ owner["G"] \in Thread
      BY <1>2 DEF IInv, TypeOK, Mutex
  <2>2. s \in Seq(Op) /\ Disciplined(s)
      BY <2>1 DEF IInv, Threads
  <2>3. Leaked <=> (Unlock("G") \in Range(s) => Lock("G") \in Range(s))
      BY <1>2 DEF Leaked, Wants
  <2>. HIDE DEF s
  <2>4. "G" \in Held(s) => "G" \notin Asks(s)
      BY <2>2, UnlockGLast
  <2>5. /\ Lock("G") \in Range(s) <=> "G" \in Asks(s)
        /\ "G" \in Held(s) => Unlock("G") \in Range(s)
        /\ Unlock("G") \in Range(s) /\ "G" \notin Asks(s) => "G" \in Held(s)
      BY <2>1, <2>2, InRange
  <2>6. Leaked <=> "G" \notin Held(s)
      BY <2>3, <2>4, <2>5
  <2>. QED
      BY <1>2, <2>6 DEF s
<1>. QED
    BY <1>1, <1>2

(* What a thread holds when it waits: only what is above the mutex it is   *)
(* about to lock, nothing when it joins; and what it is about to unlock.   *)
LEMMA HoldsAt ==
    ASSUME IInv, NEW t \in Thread
    PROVE  /\ \A m \in Mutex : At(t, Lock(m)) => Held(todo[t]) \subseteq Above(m) \ {m}
           /\ \A m \in Mutex : At(t, Unlock(m)) => m \in Held(todo[t])
           /\ At(t, Do("join")) => t = Main /\ Held(todo[t]) = {}
<1>. DEFINE y == Rest(t)
<1>0. Threads
    BY DEF IInv
<1>1. ASSUME NEW a, At(t, a)
      PROVE  /\ a \in Op /\ y \in Seq(Op) /\ todo[t] = Cons(a, y) /\ Fits(a, y)
             /\ (t \in Probe => a \in ProbeOp) /\ (t = Mdns => a \in MdnsOp)
    BY <1>0, <1>1, AtIs
<1>. HIDE DEF y
<1>2. ASSUME NEW m \in Mutex, At(t, Lock(m)) PROVE Held(todo[t]) \subseteq Above(m) \ {m}
  <2>. DEFINE a == Lock(m)
  <2>1. a \in Op /\ y \in Seq(Op) /\ todo[t] = Cons(a, y) /\ Fits(a, y)
      BY <1>1, <1>2
  <2>2. Held(y) \subseteq {m} \cup Above(m)
      BY <2>1 DEF Fits
  <2>3. Held(Cons(a, y)) = Held(y) \ {m}
      BY <2>1, HeldCons
  <2>. QED
      BY <2>1, <2>2, <2>3
<1>3. ASSUME NEW m \in Mutex, At(t, Unlock(m)) PROVE m \in Held(todo[t])
  <2>. DEFINE a == Unlock(m)
  <2>1. a \in Op /\ y \in Seq(Op) /\ todo[t] = Cons(a, y)
      BY <1>1, <1>3
  <2>2. Held(Cons(a, y)) = Held(y) \cup {m}
      BY <2>1, HeldCons
  <2>. QED
      BY <2>1, <2>2
<1>4. ASSUME At(t, Do("join")) PROVE t = Main /\ Held(todo[t]) = {}
  <2>. DEFINE a == Do("join")
  <2>1. /\ a \in Op /\ y \in Seq(Op) /\ todo[t] = Cons(a, y) /\ Fits(a, y)
        /\ (t \in Probe => a \in ProbeOp) /\ (t = Mdns => a \in MdnsOp)
      BY <1>1, <1>4
  <2>2. a[1] = "join" /\ \A x \in MdnsOp : x[1] # "join"
      BY OpParts DEF MdnsOp, SharedOp, ProbeOp
  <2>. HIDE DEF a
  <2>3. t = Main
      BY <2>1, <2>2, OpSets, Distinct
  <2>4. Held(y) = {}
      BY <2>1, <2>2 DEF Fits
  <2>5. Held(Cons(a, y)) = Held(y)
      BY <2>1, <2>2, HeldCons
  <2>. QED
      BY <2>1, <2>3, <2>4, <2>5
<1>. QED
    BY <1>2, <1>3, <1>4

(* A mutex that keeps someone waiting is unlocked by its owner.            *)
LEMMA OwnersHold ==
    ASSUME IInv, ~ Leaked, NEW m \in Mutex, NEW u \in Thread, owner[m] = u
    PROVE  m \in Held(todo[u])
<1>1. CASE m = "G"
    BY <1>1, LeakedIs, Distinct
<1>2. CASE m # "G"
    BY <1>2, Distinct DEF IInv, Owners
<1>. QED
    BY <1>1, <1>2

(* A thread that waits for another, and for which a third waits because of *)
(* a mutex, holds remote_list_mutex and waits for one of the others.       *)
LEMMA MiddleOfWait ==
    ASSUME IInv, NEW u \in Thread, NEW v, WaitsFor(u, v), NEW m \in Held(todo[u])
    PROVE  m = "R" /\ \E n \in Mutex \ gone : n # "R" /\ At(u, Lock(n)) /\ owner[n] = v
<1>1. CASE At(u, Do("join"))
    BY <1>1, HoldsAt
<1>2. ASSUME NEW n \in Mutex \ gone, At(u, Lock(n)), owner[n] = v
      PROVE  m = "R" /\ n # "R"
  <2>1. m \in Above(n) \ {n}
      BY <1>2, HoldsAt
  <2>. QED
      BY <2>1 DEF Above
<1>. QED
    BY <1>1, <1>2 DEF WaitsFor

(* No three threads wait in a row.                                         *)
LEMMA NoThreeWait == IInv => NoCircularWait
<1>. SUFFICES ASSUME IInv, ~ Leaked, NEW t \in Thread, NEW u \in Thread, NEW v \in Thread,
                     NEW w \in Thread, WaitsFor(t, u), WaitsFor(u, v), WaitsFor(v, w)
              PROVE  FALSE
    BY DEF NoCircularWait
<1>1. ASSUME NEW m \in Mutex \ gone, At(t, Lock(m)), owner[m] = u PROVE FALSE
  <2>1. m \in Held(todo[u])
      BY <1>1, OwnersHold
  <2>2. PICK n \in Mutex \ gone : n # "R" /\ owner[n] = v
      BY <2>1, MiddleOfWait
  <2>3. n \in Held(todo[v])
      BY <2>2, OwnersHold
  <2>. QED
      BY <2>2, <2>3, MiddleOfWait
<1>2. CASE At(t, Do("join")) /\ u = Mdns
  <2>1. t = Main /\ Held(todo[Main]) = {}
      BY <1>2, HoldsAt
  <2>2. ~ At(Mdns, Do("join"))
      BY HoldsAt, Distinct
  <2>3. PICK m \in Mutex \ gone : At(Mdns, Lock(m)) /\ owner[m] = v
      BY <1>2, <2>2 DEF WaitsFor
  <2>4. m \in Held(todo[v])
      BY <2>3, OwnersHold
  <2>5. m = "R"
      BY <2>4, MiddleOfWait
  <2>6. v # Main
      BY <2>1, <2>4
  <2>7. v # Mdns
      BY <2>3, <2>4, HoldsAt, Distinct
  <2>8. v \notin Probe
    <3>1. v \in Probe => todo[v] \in Seq(ProbeOp)
        BY DEF IInv, Threads
    <3>. QED
        BY <3>1, <2>4, <2>5, ProbesApart
  <2>. QED
      BY <2>6, <2>7, <2>8, Distinct
<1>. QED
    BY <1>1, <1>2 DEF WaitsFor

(* For every number of threads: whatever a handler, a callback, a probe or *)
(* shutdown holds when it locks the next mutex or joins, the threads never *)
(* wait for each other in a circle, unless a host name was unknown.        *)
THEOREM NoCircularWaitAlways == Spec => []NoCircularWait
BY LocksInductive, NoThreeWait, PTL

(* Only the early returns of socket_connect_timeout for a name that        *)
(* gethostbyname does not know leave gethostbyname_mutex locked.           *)
LeaksOnlyUnknown == Leaked => "unknown" \in Env

(* As long as every name is known gethostbyname_mutex is never left locked:*)
(* the exceptions of the other properties of Locks are this one defect.    *)
THEOREM LeaksOnlyUnknownAlways == Spec => []LeaksOnlyUnknown
<1>1. IInv => LeaksOnlyUnknown
  <2>. SUFFICES ASSUME IInv, Leaked, "unknown" \notin Env PROVE FALSE
      BY DEF LeaksOnlyUnknown
  <2>1. owner["G"] # None /\ "G" \notin Held(todo[owner["G"]])
      BY LeakedIs
  <2>2. owner["G"] # None => "G" \in Held(todo[owner["G"]])
      BY DEF IInv, Owners, Mutex
  <2>. QED
      BY <2>1, <2>2
<1>. QED
    BY <1>1, LocksInductive, PTL

(* A mutex is unlocked by the thread that locked it, and no thread locks   *)
(* one that it holds, with the same exception.                             *)
OwnMutexes ==
    \A t \in Thread, m \in Mutex \ gone :
        /\ At(t, Unlock(m)) => owner[m] = t
        /\ At(t, Lock(m)) /\ owner[m] = t => m = "G" /\ "unknown" \in Env

(* pthread_mutex_lock and pthread_mutex_unlock are called as POSIX demands *)
(* of mutexes that are neither recursive nor checked: no thread unlocks    *)
(* what another has locked, or locks again what it holds.                  *)
THEOREM OwnMutexesAlways == Spec => []OwnMutexes
<1>1. IInv => OwnMutexes
  <2>. SUFFICES ASSUME IInv, NEW t \in Thread, NEW m \in Mutex \ gone
                PROVE  /\ At(t, Unlock(m)) => owner[m] = t
                       /\ At(t, Lock(m)) /\ owner[m] = t => m = "G" /\ "unknown" \in Env
      BY DEF OwnMutexes
  <2>1. ASSUME At(t, Unlock(m)) PROVE owner[m] = t
    <3>1. m \in Held(todo[t])
        BY <2>1, HoldsAt
    <3>. QED
        BY <3>1 DEF IInv, Owners
  <2>2. ASSUME At(t, Lock(m)), owner[m] = t, ~ (m = "G" /\ "unknown" \in Env) PROVE FALSE
    <3>1. m \in Held(todo[t])
        BY <2>2, Distinct DEF IInv, Owners
    <3>. QED
        BY <3>1, <2>2, HoldsAt
  <2>. QED
      BY <2>1, <2>2
<1>. QED
    BY <1>1, LocksInductive, PTL
=============================================================================
