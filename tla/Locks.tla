-------------------------------- MODULE Locks --------------------------------
(***************************************************************************)
(* The mutexes of usbfluxd, the threads that take them, and shutdown:      *)
(* remote_list_mutex "R" (usbmux_remote.c), client_list_mutex "C"          *)
(* (client.c) and gethostbyname_mutex "G" (socket.c).                      *)
(*                                                                         *)
(* What a thread still has to do is todo[t], a sequence of operations.  A  *)
(* handler is the sequence of operations of its body; an operation whose   *)
(* length depends on the lists (closing clients, disposing of remotes)     *)
(* puts what it turns into in front of the rest when it is reached.        *)
(* What each critical section does to the lists is in UsbmuxRemote.        *)
(***************************************************************************)
EXTENDS Sequences, Functions

CONSTANTS
    Client,     \* bound: client connections that exist at the same time
    Device,     \* devices that may be listed
    Probe,      \* bound: check_remote_func threads at the same time
    Main, Mdns, \* the other two threads
    None,       \* no thread
    Env         \* what may happen in this model, a subset of Chance

(***************************************************************************)
(* "mdns": the mDNS thread runs (no -m option).  "unknown": gethostbyname  *)
(* may fail.  "early": a signal may come before the mDNS thread has its    *)
(* poll object.                                                            *)
(***************************************************************************)
Chance == {"mdns", "unknown", "early"}

Thread == {Main, Mdns} \cup Probe
Mutex  == {"R", "C", "G"}

ASSUME LockAssumption ==
    /\ Main # Mdns /\ Main \notin Probe /\ Mdns \notin Probe
    /\ None \notin Thread
    /\ Env \subseteq Chance

VARIABLES
    owner,        \* the thread that holds a mutex
    gone,         \* mutexes that were destroyed
    todo,         \* what each thread still has to do
    open,         \* client_list
    linked,       \* clients that have a remote
    devices,      \* remote_device_list
    simple_poll,  \* the mDNS thread's poll object
    life          \* "run", "killed" (a signal is pending), "caught", "ended"

vars == <<owner, gone, todo, open, linked, devices, simple_poll, life>>

-----------------------------------------------------------------------------
(* Operations.                                                             *)

Lock(m)    == <<"lock", m>>
Unlock(m)  == <<"unlock", m>>
Destroy(m) == <<"destroy", m>>
Close(c)   == <<"close", c>>
Link(c)    == <<"link", c>>
Do(what)   == <<what>>

Holding(m, body) == <<Lock(m)>> \o body \o <<Unlock(m)>>

-----------------------------------------------------------------------------
(* Handlers.                                                               *)

(* socket_connect_timeout: the connect itself ends after its timeout.      *)
socket_connect == Holding("G", <<Do("gethostbyname")>>) \o <<Do("connect")>>

client_get_fds == Holding("C", <<>>)
usbmux_remote_get_fds == Holding("R", <<Do("check")>>)

(* remote_mux_service_add, and the requests that make a connection to a    *)
(* host; the service may be there already, the connection may be local.    *)
remote_mux_new == {Holding("R", socket_connect), Holding("R", <<>>)}

(* Connect, ReadBUID and the pair records: the new remote gets the client, *)
(* which makes one such request per connection.                            *)
usbmux_remote_request(c) ==
    IF c \in linked THEN {}
    ELSE {Holding("R", socket_connect \o <<Link(c)>>), Holding("R", <<Link(c)>>)}

(* usbmux_remote_copy_device_list and usbmux_remote_copy_instances.        *)
usbmux_remote_copy == Holding("R", <<>>)

(* remote_mux_service_remove, usbmux_remote_mark_dead, and the reaping in  *)
(* usbmux_remote_process.                                                  *)
remote_reap == Holding("R", <<Do("dispose")>>)

send_listener_list == Holding("C", <<>>)

(* What client_process may do once it has found the client c.              *)
client_command(c) ==
    usbmux_remote_request(c) \cup remote_mux_new \cup
    {usbmux_remote_copy, remote_reap, send_listener_list, <<Close(c)>>, <<>>}

client_process(c) == {Holding("C", <<>>) \o s : s \in client_command(c)}

(* Mutant: client_list_mutex is taken before remote_list_mutex.            *)
client_device_change_Inverted == Holding("C", Holding("R", <<Do("device")>>))

(* usbmux_remote_process: a device comes or goes, the remote or its client *)
(* is closed, the remote is marked dead.                                   *)
client_device_change == Holding("R", <<Do("device")>> \o Holding("C", <<>>))

usbmux_remote_process ==
    {remote_reap \o s : s \in {<<>>, client_device_change, remote_reap, Holding("R", <<>>)}
                              \cup {<<Close(c)>> : c \in linked}}

client_accept(c) == Holding("C", <<Do("accepted")>>)

(* Mutant: the mDNS thread is not joined.                                  *)
usbmux_remote_shutdown_NoJoin ==
    Holding("R", <<Do("dispose_all")>>) \o <<Destroy("R"), Destroy("G"), Do("exit")>>

(* Mutant: the mDNS thread is joined while its mutex is held.              *)
usbmux_remote_shutdown_JoinInside ==
    <<Do("poll_there"), Do("poll_quit")>>
    \o Holding("R", <<Do("join"), Do("dispose_all")>>)
    \o <<Destroy("R"), Destroy("G"), Do("exit")>>

(* Mutant: clients keep their connections.                                 *)
client_shutdown_KeepClients == <<Destroy("C")>>

client_shutdown == <<Do("close_all"), Destroy("C")>>

usbmux_remote_shutdown ==
    (IF "mdns" \in Env THEN <<Do("poll_there"), Do("poll_quit"), Do("join")>> ELSE <<>>)
    \o Holding("R", <<Do("dispose_all")>>)
    \o <<Destroy("R"), Destroy("G"), Do("exit")>>

(* The rest of main() once main_loop has returned.                         *)
shutdown == client_shutdown \o usbmux_remote_shutdown

-----------------------------------------------------------------------------
(* usbmux_remote_init has run: the mDNS thread is created.                 *)
Init ==
    /\ owner = [m \in Mutex |-> None]
    /\ gone = {}
    /\ todo = [t \in Thread |-> IF t = Mdns /\ "mdns" \in Env
                                THEN <<Do("poll_new"), Do("poll_loop")>> ELSE <<>>]
    /\ open = {} /\ linked = {} /\ devices = {}
    /\ simple_poll = "null"
    /\ life = "run"

(* main_loop goes on with the handler s.                                   *)
Handle(s) == todo' = [todo EXCEPT ![Main] = s]

(* A round of main_loop collects the fds, or handles one that was reported.*)
main_loop ==
    /\ todo[Main] = <<>> /\ life \in {"run", "killed"}
    /\ \/ Handle(client_get_fds \o usbmux_remote_get_fds) /\ UNCHANGED open
       \/ \E c \in Client \ open : Handle(client_accept(c)) /\ open' = open \cup {c}
       \/ \E c \in open : \E s \in client_process(c) : Handle(s) /\ UNCHANGED open
       \/ \E s \in usbmux_remote_process : Handle(s) /\ UNCHANGED open
       \/ Handle(shutdown) /\ UNCHANGED open            \* accept() failed
    /\ UNCHANGED <<owner, gone, linked, devices, simple_poll, life>>

(* killall sends SIGTERM, which is blocked outside ppoll.                  *)
kill ==
    /\ life = "run"
    /\ "early" \in Env \/ "mdns" \notin Env \/ simple_poll # "null"
    /\ life' = "killed"
    /\ UNCHANGED <<owner, gone, todo, open, linked, devices, simple_poll>>

(* handle_signal, in ppoll: main_loop ends.                                *)
handle_signal ==
    /\ todo[Main] = <<>> /\ life = "killed"
    /\ life' = "caught"
    /\ Handle(shutdown)
    /\ UNCHANGED <<owner, gone, open, linked, devices, simple_poll>>

(* service_resolve_cb and service_browse_cb, called from the poll loop.    *)
mdns_callback ==
    /\ todo[Mdns] = <<Do("poll_loop")>> /\ life # "ended"
    /\ \E s \in remote_mux_new \cup {remote_reap} :
        todo' = [todo EXCEPT ![Mdns] = s \o @]
    /\ UNCHANGED <<owner, gone, open, linked, devices, simple_poll, life>>

-----------------------------------------------------------------------------
(* The next operation of t is op; afterwards it goes on with s.            *)
At(t, op) == life # "ended" /\ todo[t] # <<>> /\ Head(todo[t]) = op
Goes(t, s) == todo' = [todo EXCEPT ![t] = s]
Rest(t) == Tail(todo[t])

(* pthread_mutex_lock: waits, for ever if t holds m itself.  A destroyed   *)
(* mutex does not keep anyone waiting.                                     *)
lock(t, m) ==
    /\ At(t, Lock(m))
    /\ owner[m] = None \/ m \in gone
    /\ owner' = [owner EXCEPT ![m] = IF m \in gone THEN @ ELSE t]
    /\ Goes(t, Rest(t))
    /\ UNCHANGED <<gone, open, linked, devices, simple_poll, life>>

unlock(t, m) ==
    /\ At(t, Unlock(m))
    /\ owner' = [owner EXCEPT ![m] = None]
    /\ Goes(t, Rest(t))
    /\ UNCHANGED <<gone, open, linked, devices, simple_poll, life>>

destroy(t, m) ==
    /\ At(t, Destroy(m))
    /\ gone' = gone \cup {m}
    /\ Goes(t, Rest(t))
    /\ UNCHANGED <<owner, open, linked, devices, simple_poll, life>>

(* The address was found.                                                  *)
gethostbyname(t) ==
    /\ At(t, Do("gethostbyname"))
    /\ Goes(t, Rest(t))
    /\ UNCHANGED <<owner, gone, open, linked, devices, simple_poll, life>>

(* The early returns of socket_connect_timeout: neither unlock nor connect,*)
(* and no remote to link a client to.                                      *)
unknown_host(t) ==
    /\ "unknown" \in Env
    /\ At(t, Do("gethostbyname"))
    /\ LET after == Tail(Tail(Rest(t)))
       IN  Goes(t, IF after # <<>> /\ Head(after)[1] = "link" THEN Tail(after) ELSE after)
    /\ UNCHANGED <<owner, gone, open, linked, devices, simple_poll, life>>

(* connect() or its timeout; also what needs no model of its own here.     *)
proceed(t) ==
    /\ At(t, Do("connect")) \/ At(t, Do("accepted")) \/ At(t, Do("detach"))
    /\ Goes(t, Rest(t))
    /\ UNCHANGED <<owner, gone, open, linked, devices, simple_poll, life>>

link(c) ==
    /\ At(Main, Link(c))
    /\ linked' = linked \cup {c}
    /\ Goes(Main, Rest(Main))
    /\ UNCHANGED <<owner, gone, open, devices, simple_poll, life>>

device_change ==
    /\ At(Main, Do("device"))
    /\ \E d \in Device : devices' \in {devices \cup {d}, devices \ {d}}
    /\ Goes(Main, Rest(Main))
    /\ UNCHANGED <<owner, gone, open, linked, simple_poll, life>>

(* usbmux_remote_get_fds starts a probe, or none is due.                   *)
check_remote ==
    /\ At(Main, Do("check"))
    /\ \/ Goes(Main, Rest(Main))
       \/ \E p \in Probe :
            /\ todo[p] = <<>>
            /\ todo' = [todo EXCEPT ![Main] = Tail(@), ![p] = socket_connect]
    /\ UNCHANGED <<owner, gone, open, linked, devices, simple_poll, life>>

(* client_close: the remote first, under its own mutex, then the list.     *)
ClosePart(c) == (IF c \in linked THEN Holding("R", <<>>) ELSE <<>>) \o Holding("C", <<>>)

client_close(c) ==
    /\ At(Main, Close(c))
    /\ open' = open \ {c} /\ linked' = linked \ {c}
    /\ Goes(Main, ClosePart(c) \o Rest(Main))
    /\ UNCHANGED <<owner, gone, devices, simple_poll, life>>

(* client_shutdown's loop.                                                 *)
close_all ==
    /\ At(Main, Do("close_all"))
    /\ IF open = {} THEN Goes(Main, Rest(Main))
       ELSE \E c \in open : Goes(Main, <<Close(c)>> \o todo[Main])
    /\ UNCHANGED <<owner, gone, open, linked, devices, simple_poll, life>>

(* Mutant: client_clear_remote is not compiled in, so that client_close    *)
(* turns to the remote again.                                              *)
DisposePart_KeepLink(D, S) ==
    (IF D # {} THEN Holding("C", <<Do("detach")>>) ELSE <<>>)
    \o (IF S # {} THEN Holding("R", <<>>) \o Holding("C", <<>>) ELSE <<>>)

(* usbmux_remote_dispose of remotes with the devices D and the clients S:  *)
(* a critical section for the devices, and one for the clients.            *)
DisposePart(D, S) ==
    (IF D # {} THEN Holding("C", <<Do("detach")>>) ELSE <<>>)
    \o (IF S # {} THEN Holding("C", <<>>) ELSE <<>>)

usbmux_remote_dispose(t) ==
    /\ \E D \in SUBSET devices, S \in SUBSET linked :
        /\ \/ At(t, Do("dispose"))
           \/ At(t, Do("dispose_all")) /\ D = devices /\ S = linked
        /\ devices' = devices \ D
        /\ open' = open \ S /\ linked' = linked \ S
        /\ Goes(t, DisposePart(D, S) \o Rest(t))
    /\ UNCHANGED <<owner, gone, simple_poll, life>>

(* mdns_monitor_thread: its poll object; its loop ends when told, or when  *)
(* avahi fails; cleanup.                                                   *)
simple_poll_new ==
    /\ At(Mdns, Do("poll_new"))
    /\ \/ simple_poll' = "set" /\ Goes(Mdns, Rest(Mdns))
       \/ UNCHANGED simple_poll /\ Goes(Mdns, <<>>)
    /\ UNCHANGED <<owner, gone, open, linked, devices, life>>

simple_poll_free ==
    /\ At(Mdns, Do("poll_loop"))
    /\ simple_poll' = "null"
    /\ Goes(Mdns, <<>>)
    /\ UNCHANGED <<owner, gone, open, linked, devices, life>>

(* usbmux_remote_shutdown: if (simple_poll) ...                            *)
simple_poll_there ==
    /\ At(Main, Do("poll_there"))
    /\ Goes(Main, IF simple_poll = "null" THEN Tail(Rest(Main)) ELSE Rest(Main))
    /\ UNCHANGED <<owner, gone, open, linked, devices, simple_poll, life>>

(* ... avahi_simple_poll_quit(simple_poll): the object may be freed by now,*)
(* and the call harmless or fatal.                                         *)
simple_poll_quit ==
    /\ At(Main, Do("poll_quit"))
    /\ \/ /\ simple_poll' = IF simple_poll = "set" THEN "quit" ELSE simple_poll
          /\ Goes(Main, Rest(Main))
          /\ UNCHANGED life
       \/ /\ simple_poll = "null"
          /\ life' = "ended"
          /\ UNCHANGED <<simple_poll, todo>>
    /\ UNCHANGED <<owner, gone, open, linked, devices>>

join ==
    /\ At(Main, Do("join"))
    /\ todo[Mdns] = <<>>
    /\ Goes(Main, Rest(Main))
    /\ UNCHANGED <<owner, gone, open, linked, devices, simple_poll, life>>

exit ==
    /\ At(Main, Do("exit"))
    /\ life' = "ended"
    /\ UNCHANGED <<owner, gone, todo, open, linked, devices, simple_poll>>

-----------------------------------------------------------------------------
(* One step of what a thread has begun.                                    *)
Step(t) ==
    \/ \E m \in Mutex : lock(t, m) \/ unlock(t, m) \/ destroy(t, m)
    \/ gethostbyname(t) \/ unknown_host(t) \/ proceed(t) \/ usbmux_remote_dispose(t)

MainStep ==
    \/ Step(Main)
    \/ \E c \in Client : link(c) \/ client_close(c)
    \/ device_change \/ check_remote \/ close_all
    \/ simple_poll_there \/ simple_poll_quit \/ join \/ exit

MdnsStep == Step(Mdns) \/ simple_poll_new

Next ==
    \/ main_loop \/ kill \/ handle_signal \/ MainStep
    \/ mdns_callback \/ MdnsStep \/ simple_poll_free
    \/ \E p \in Probe : Step(p)

Spec == Init /\ [][Next]_vars

(* What a thread has begun it ends, connects by their timeout; a mutex that*)
(* is free again and again is got; and a signal is taken in ppoll, which   *)
(* every round of main_loop calls.                                         *)
Fairness ==
    /\ SF_vars(MainStep) /\ SF_vars(handle_signal)
    /\ SF_vars(MdnsStep) /\ SF_vars(simple_poll = "quit" /\ simple_poll_free)
    /\ \A p \in Probe : SF_vars(Step(p))

FairSpec == Spec /\ Fairness

-----------------------------------------------------------------------------
(***************************************************************************)
(* Properties.                                                             *)
(***************************************************************************)

(* Mutexes are held by threads, and a client that has a remote is in the   *)
(* list of clients.                                                        *)
TypeOK ==
    /\ owner \in [Mutex -> Thread \cup {None}]
    /\ gone \subseteq Mutex
    /\ DOMAIN todo = Thread
    /\ open \subseteq Client /\ linked \subseteq open
    /\ devices \subseteq Device
    /\ simple_poll \in {"null", "set", "quit"}
    /\ life \in {"run", "killed", "caught", "ended"}

Wants(t, m) == Lock(m) \in Range(todo[t])

(* usbmux_remote_shutdown destroys remote_list_mutex when nobody holds or  *)
(* will lock it: the mDNS thread has ended, probes never take it.          *)
RegistryOutlivesUsers ==
    "R" \in gone /\ life # "ended" => owner["R"] = None /\ \A t \in Thread : ~ Wants(t, "R")

(* client_list_mutex is destroyed before the remotes are disposed of; what *)
(* the main thread locks it for afterwards is to report the devices still  *)
(* listed: every client, and the remote linked to it, is closed by then.   *)
LateLocksForDevices ==
    "C" \in gone => \A i \in DOMAIN todo[Main] :
        todo[Main][i] = Lock("C") => todo[Main][i + 1] = Do("detach")

(* gethostbyname_mutex is held by a thread that has left the code it is    *)
(* for: it will not unlock it, or not before it locks it again.            *)
Leaked ==
    /\ owner["G"] # None
    /\ Unlock("G") \in Range(todo[owner["G"]]) => Wants(owner["G"], "G")

(* What t waits for: a mutex that u holds, or the end of the mDNS thread.  *)
WaitsFor(t, u) ==
    \/ \E m \in Mutex \ gone : At(t, Lock(m)) /\ owner[m] = u
    \/ At(t, Do("join")) /\ u = Mdns /\ todo[Mdns] # <<>>

(* Threads never wait for each other in a circle, whatever they hold when  *)
(* they lock the next mutex, call back into client.c or join, except where *)
(* a host name was unknown: no three wait in a row, which every circle,    *)
(* a thread that waits for itself included, would do.                      *)
NoCircularWait ==
    Leaked \/ \A t, u \in Thread : WaitsFor(t, u) =>
                \A v \in Thread : WaitsFor(u, v) => \A w \in Thread : ~ WaitsFor(v, w)

(* Shutdown waits for an mDNS thread that had no poll object to tell.      *)
Missed == At(Main, Do("join")) /\ simple_poll = "set"

(* No handler of the main thread waits for ever, whatever the other        *)
(* threads hold meanwhile, except where a host name was unknown.           *)
HandlersReturn ==
    todo[Main] # <<>> ~> todo[Main] = <<>> \/ life = "ended" \/ Leaked \/ Missed

(* A signal ends usbfluxd, except where a host name was unknown or the     *)
(* signal came before the mDNS thread was ready.                           *)
Stops == life = "killed" ~> life = "ended" \/ Leaked \/ Missed

(* "To stop usbfluxd immediately, run: sudo killall usbfluxd".             *)
StopsOnSignal == life = "killed" ~> life = "ended"
=============================================================================
