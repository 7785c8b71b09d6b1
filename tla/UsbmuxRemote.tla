---------------------------- MODULE UsbmuxRemote ----------------------------
(***************************************************************************)
(* The registry of upstream usbmuxd connections of usbfluxd                *)
(* (usbfluxd/usbmux_remote.c) together with the state of the downstream    *)
(* clients it is linked to (usbfluxd/client.c).                            *)
(*                                                                         *)
(* Two threads change this state.  The main thread runs the poll loop: it  *)
(* looks a client or a remote up under its list mutex, releases the mutex  *)
(* and then works on the pointer it found; `pc`, `cur` and `me` are what   *)
(* it holds between the two.  The mDNS thread adds and removes instances,  *)
(* each time in one critical section of remote_list_mutex.  One critical   *)
(* section, or one handler of the main thread, is one step here.           *)
(*                                                                         *)
(* A remote is its position in remote_list: collection_add takes the first *)
(* empty position and FOREACH walks them in order.  Packets are abstracted *)
(* to what they make the registry do; the byte streams are in Relay.       *)
(***************************************************************************)
EXTENDS Integers, FiniteSets

CONSTANTS
    MaxSlot,    \* bound: connections in remote_list (the code grows the list)
    MaxId,      \* largest id get_new_remote_id hands out; 255 in the code
    Endpoint,   \* host:port pairs of upstream usbmuxd instances
    HostName,   \* HostName[e]: the host part of e, its service name if added by hand
    Service,    \* service names announced by mDNS
    Client,     \* bound: client connections that exist at the same time
    MaxShared,  \* bound: remotes of clients with several, for one more to be made
    Device,     \* device numbers an upstream usbmuxd uses (the low 24 bits)
    Unix,       \* the local usbmuxd behind the renamed socket
    None,       \* the NULL pointer
    Gone,       \* a pointer to a client that was freed
    Env         \* what may go wrong in this model, a subset of Hazard

(***************************************************************************)
(* "mdns": the mDNS thread runs (no -m option).  "probe": check_remote_func *)
(* may find an idle instance unreachable.  "sendfail": send() to a remote  *)
(* may fail.  "eof0": a connection whose id field is 0 may be closed by    *)
(* its upstream end.  "second": a client may send more commands after one  *)
(* that was handed upstream; libusbmuxd opens a connection for each.       *)
(***************************************************************************)
Hazard == {"mdns", "probe", "sendfail", "eof0", "second"}

Slot  == 1..MaxSlot
Id    == 0..MaxId
DevId == Id \X Device
Name  == Service \cup {HostName[e] : e \in Endpoint}
Where == Endpoint \cup {Unix}

ASSUME ConstAssumption ==
    /\ MaxSlot \in Nat \ {0}
    /\ MaxId \in Nat \ {0}
    /\ Unix \notin Endpoint
    /\ None \notin Client \cup Name \cup Endpoint
    /\ Gone \notin Client \cup {None}
    /\ DOMAIN HostName = Endpoint
    /\ Env \subseteq Hazard

VARIABLES
    remote,     \* remote_list: position -> struct remote_mux
    idmap,      \* remote_id_map: the ids whose bit is set
    devices,    \* the keys of remote_device_list
    client,     \* client_list: struct mux_client, and what it was told
    pc,         \* what the main thread is doing; "freed" once it uses freed memory
    cur,        \* the remote the main thread found and works on
    me,         \* the client the main thread found and works on
    snap        \* start_listen's copy of the device list

vars == <<remote, idmap, devices, client, pc, cur, me, snap>>

RemoteState == {"FREE", "COMMAND", "LISTEN", "CONNECTING1", "CONNECTED", "DEAD"}
ClientState == {"FREE", "COMMAND", "LISTEN", "CONNECTING1", "CONNECTING2", "CONNECTED"}
PC == {"poll", "in", "out", "listened", "connected", "client", "listen", "freed"}

RemoteMux == [state    : RemoteState,
              id       : Id,
              listener : BOOLEAN,               \* is_listener
              where    : Where,                 \* host and port, or is_unix
              name     : Name \cup {None},      \* service_name
              cmd      : {"NONE", "LISTEN", "REQUEST", "CONNECT"},  \* not answered yet
              client   : Client \cup {None, Gone},
              shared   : BOOLEAN,               \* its client made other requests too
              ob       : BOOLEAN,               \* ob_size > 0
              out      : BOOLEAN]               \* events & POLLOUT

MuxClient == [state  : ClientState,
              remote : Slot \cup {0},           \* 0 is NULL
              view   : SUBSET DevId]            \* Attached and not Detached since

(* What malloc and memset leave in a struct remote_mux: id 0, no client.   *)
Blank == [state |-> "FREE", id |-> 0, listener |-> FALSE, where |-> Unix,
          name |-> None, cmd |-> "NONE", client |-> None, shared |-> FALSE,
          ob |-> FALSE, out |-> FALSE]

BlankClient == [state |-> "FREE", remote |-> 0, view |-> {}]

-----------------------------------------------------------------------------
(* Sets of positions.                                                      *)

InList(R) == {s \in Slot : R[s].state # "FREE"}
Dead(R)   == {s \in Slot : R[s].state = "DEAD"}
Alive(R)  == InList(R) \ Dead(R)

(* The first element FOREACH meets.                                        *)
First(S) == CHOOSE s \in S : \A t \in S : s <= t

(* collection_add: the position a new remote gets.                         *)
FreeSlot(s) == s \in Slot \ InList(remote) /\ s = First(Slot \ InList(remote))

(* get_new_remote_id: the smallest id in 1..MaxId whose bit is clear.      *)
FreeIds == (1..MaxId) \ idmap
get_new_remote_id == CHOOSE i \in FreeIds : \A j \in FreeIds : i <= j

(* remote_mux_new_with_fd and its two callers.                             *)
NewRemote(w) == [Blank EXCEPT !.state = "COMMAND", !.where = w]

(* remote_send_pkt, and bytes a client adds: something to send.            *)
Queued(r) == [r EXCEPT !.ob = TRUE, !.out = TRUE]

(* remote_process_send: ob_buf is empty.                                   *)
Sent(r) == [r EXCEPT !.ob = FALSE, !.out = FALSE]

(* A Listen, or a Connect, was answered.                                   *)
Answered(r)  == [r EXCEPT !.cmd = "NONE"]
Listens(r)   == [r EXCEPT !.cmd = "NONE", !.state = "LISTEN"]
Connected(r) == [r EXCEPT !.state = "CONNECTED", !.out = TRUE]

(* remote_mux_service_add: the listener of an instance.                    *)
NewListener(w, i, n) ==
    Queued([NewRemote(w) EXCEPT !.id = i, !.name = n, !.listener = TRUE, !.cmd = "LISTEN"])

-----------------------------------------------------------------------------
(* The parts the handlers are built from.                                  *)

(* Attached and Detached messages for the devices K to the client x.       *)
notify_device_add(x, K)    == [x EXCEPT !.view = @ \cup K]
notify_device_remove(x, K) == [x EXCEPT !.view = @ \ K]

(* ... and to every client that listens.                                   *)
client_device_add(K) ==
    [c \in Client |-> IF client[c].state = "LISTEN"
                      THEN notify_device_add(client[c], K) ELSE client[c]]

client_device_remove(K) ==
    [c \in Client |-> IF client[c].state = "LISTEN"
                      THEN notify_device_remove(client[c], K) ELSE client[c]]

(* Mutant: the devices of a disposed remote stay in the list.              *)
Lost_Nothing(R, S) == {}

(* What disposing of the remotes S of R takes out of the device list: every *)
(* key with the id of one of them, its own or not.                         *)
Lost(R, S) == {d \in devices : \E s \in S : R[s].id = d[1]}

(* Mutant: no Detached for the devices that go with a remote.              *)
ClientsAfterDispose_Silent(R, S) ==
    [c \in Client |-> IF \E s \in S : R[s].client = c THEN BlankClient ELSE client[c]]

(* usbmux_remote_dispose closes the client a remote is linked to and sends *)
(* Detached to the clients that listen.                                    *)
ClientsAfterDispose(R, S) ==
    [c \in Client |->
        IF \E s \in S : R[s].client = c THEN BlankClient
        ELSE client_device_remove(Lost(R, S))[c]]

(* The clients K are freed: remotes still linked to one are not told.      *)
Orphaned(R, K) ==
    [s \in Slot |-> IF R[s].client \in K THEN [R[s] EXCEPT !.client = Gone] ELSE R[s]]

(* usbmux_remote_dispose, for every remote in S, closes a client that was  *)
(* freed before, or by another one in S.                                   *)
Dangles(R, S) ==
    \E s \in S : \/ R[s].client = Gone
                 \/ R[s].client # None /\ \E t \in S \ {s} : R[t].client = R[s].client

(* Mutant: the id is not given back.                                       *)
usbmux_remote_dispose_KeepId(R, S) ==
    /\ remote' = [s \in Slot |->
            IF s \in S THEN Blank ELSE Orphaned(R, {R[t].client : t \in S} \ {None})[s]]
    /\ devices' = devices \ Lost(R, S)
    /\ client' = ClientsAfterDispose(R, S)
    /\ UNCHANGED idmap

(* usbmux_remote_dispose, for every remote in S, R being remote_list.      *)
usbmux_remote_dispose(R, S) ==
    /\ remote' = [s \in Slot |->
            IF s \in S THEN Blank ELSE Orphaned(R, {R[t].client : t \in S} \ {None})[s]]
    /\ devices' = devices \ Lost(R, S)
    /\ idmap' = idmap \ {R[s].id : s \in {t \in S : R[t].listener /\ R[t].where # Unix}}
    /\ client' = ClientsAfterDispose(R, S)

(* Mutants: only the remote itself is marked; every listener is marked.    *)
MarkedDead_One(s) == [remote EXCEPT ![s].state = "DEAD"]
MarkedDead_Listeners(s) ==
    [t \in Slot |-> IF remote[t].state # "FREE" /\ (remote[t].listener \/ t = s)
                    THEN [remote[t] EXCEPT !.state = "DEAD"] ELSE remote[t]]

(* Every remote with the id of s is dead.                                  *)
MarkedDead(s) ==
    [t \in Slot |-> IF remote[t].state # "FREE" /\ remote[t].id = remote[s].id
                    THEN [remote[t] EXCEPT !.state = "DEAD"] ELSE remote[t]]

(* Mutant: no dummy event.                                                 *)
remote_mark_dead_NoEvent(s) ==
    LET R == MarkedDead(s) IN
    IF Alive(R) # {}
    THEN remote' = R /\ UNCHANGED <<devices, idmap, client>>
    ELSE usbmux_remote_dispose(R, InList(R))

(* remote_mark_dead: the first remote still alive gets a dummy event; if   *)
(* there is none the dead ones are disposed of at once.                    *)
remote_mark_dead(s) ==
    LET R == MarkedDead(s) IN
    IF Alive(R) # {}
    THEN /\ remote' = [R EXCEPT ![First(Alive(R))].out = TRUE]
         /\ UNCHANGED <<devices, idmap, client>>
    ELSE usbmux_remote_dispose(R, InList(R))

(* ... and disposing of them uses a client that was freed.                 *)
DeadDangle(s) ==
    LET R == MarkedDead(s) IN Alive(R) = {} /\ Dangles(R, InList(R))

(* remote_close: leaves id map and device list alone.                      *)
remote_close(R, s) ==
    /\ remote' = [R EXCEPT ![s] = Blank]
    /\ UNCHANGED <<devices, idmap>>

(* Mutant: the remote is not told.                                         *)
client_close_KeepRemote(c) ==
    /\ client' = [client EXCEPT ![c] = BlankClient]
    /\ UNCHANGED <<remote, devices, idmap>>

(* client_close, with usbmux_remote_notify_client_close.                   *)
client_close(c) ==
    /\ client' = [client EXCEPT ![c] = BlankClient]
    /\ IF client[c].remote # 0
       THEN remote_close(Orphaned(remote, {c}), client[c].remote)
       ELSE remote' = Orphaned(remote, {c}) /\ UNCHANGED <<devices, idmap>>

(* usbmux_remote_close: through the client if there is one, whichever      *)
(* remote that client has now.                                             *)
usbmux_remote_close(s) ==
    CASE remote[s].client = None -> remote_close(remote, s) /\ UNCHANGED client
      [] remote[s].client = Gone -> UNCHANGED <<remote, devices, idmap, client>>
      [] OTHER -> client_close(remote[s].client)

(* A listener that already serves the service name or the endpoint.        *)
Duplicate(n, e) ==
    \E s \in InList(remote) :
        /\ remote[s].listener /\ remote[s].where # Unix
        /\ remote[s].name = n \/ remote[s].where = e

(* Mutant: the id is not marked as used.                                   *)
remote_mux_service_add_IdNotMarked(n, e) ==
    /\ ~ Duplicate(n, e)
    /\ FreeIds # {}
    /\ \E s \in Slot :
        /\ FreeSlot(s)
        /\ remote' = [remote EXCEPT ![s] = NewListener(e, get_new_remote_id, n)]
    /\ UNCHANGED <<devices, client, idmap>>

(* remote_mux_service_add once the connection to e is up and an id is left.*)
remote_mux_service_add(n, e) ==
    /\ ~ Duplicate(n, e)
    /\ FreeIds # {}
    /\ \E s \in Slot :
        /\ FreeSlot(s)
        /\ remote' = [remote EXCEPT ![s] = NewListener(e, get_new_remote_id, n)]
    /\ idmap' = idmap \cup {get_new_remote_id}
    /\ UNCHANGED <<devices, client>>

(* The listener remote_mux_service_remove picks, by name or by endpoint.   *)
Serving(s, n, e) ==
    LET M == {t \in InList(remote) : /\ remote[t].listener /\ remote[t].where # Unix
                                     /\ remote[t].name = n \/ remote[t].where = e}
    IN  M # {} /\ s = First(M)

-----------------------------------------------------------------------------
(* The main thread returns to the poll loop.                               *)
Return == pc' = "poll" /\ cur' = 0 /\ me' = None /\ snap' = {}

(* ... unless it used memory that was freed: the model ends there.         *)
ReturnUnless(freed) ==
    IF freed THEN pc' = "freed" /\ UNCHANGED <<cur, me, snap>> ELSE Return

(* A step of the mDNS thread frees what the main thread holds, or not.     *)
Holding(R, C) ==
    \/ pc \in {"in", "out", "listened", "connected"} /\ R[cur].state = "FREE"
    \/ pc \in {"client", "listen"} /\ C[me].state = "FREE"

(* usbmux_remote_init: the local usbmuxd is there or not.                  *)
Init ==
    /\ \E local \in BOOLEAN :
        /\ remote = [s \in Slot |->
                        IF s = 1 /\ local
                        THEN NewListener(Unix, 0, None) ELSE Blank]
        /\ idmap = IF local THEN {0} ELSE {}
    /\ devices = {}
    /\ client = [c \in Client |-> BlankClient]
    /\ pc = "poll" /\ cur = 0 /\ me = None /\ snap = {}

-----------------------------------------------------------------------------
(* The main thread: clients.                                               *)

client_accept(c) ==
    /\ pc = "poll"
    /\ client[c].state = "FREE"
    /\ client' = [client EXCEPT ![c].state = "COMMAND"]
    /\ UNCHANGED <<remote, idmap, devices, pc, cur, me, snap>>

(* client_process finds the client of an fd and releases client_list_mutex.*)
client_process(c) ==
    /\ pc = "poll"
    /\ client[c].state # "FREE"
    /\ pc' = "client" /\ me' = c
    /\ UNCHANGED <<remote, idmap, devices, client, cur, snap>>

SharedSlots == {s \in Slot : remote[s].shared}

(* client_command takes commands in state COMMAND, also from a client that *)
(* waits for the answer to an earlier one or whose Connect was refused.    *)
Commanding ==
    /\ pc = "client" /\ client[me].state = "COMMAND"
    /\ client[me].remote # 0 => "second" \in Env /\ Cardinality(SharedSlots) < MaxShared

(* The request r of the client that is being served gets position s; an    *)
(* earlier one keeps its pointer to the client.                            *)
Requested(s, r) ==
    LET o == client[me].remote IN
    [t \in Slot |-> CASE t = s -> [r EXCEPT !.shared = (o # 0)]
                      [] t # s /\ t = o -> [remote[t] EXCEPT !.shared = TRUE]
                      [] OTHER -> remote[t]]

usbmux_remote_copy_device_list == devices

(* client_command, Listen: start_listen up to its copy of the device list. *)
start_listen ==
    /\ Commanding
    /\ client' = [client EXCEPT ![me].state = "LISTEN"]
    /\ snap' = usbmux_remote_copy_device_list
    /\ pc' = "listen"
    /\ UNCHANGED <<remote, idmap, devices, cur, me>>

(* ... and its loop over the copy.                                         *)
start_listen_notify ==
    /\ pc = "listen"
    /\ client' = [client EXCEPT ![me] = notify_device_add(@, snap)]
    /\ Return
    /\ UNCHANGED <<remote, idmap, devices>>

(* The upstream usbmuxd a request for the id i goes to.                    *)
Upstream(i, w) ==
    \/ i = 0 /\ w = Unix
    \/ i # 0 /\ \E r \in InList(remote) :
                    remote[r].id = i /\ remote[r].state = "LISTEN" /\ remote[r].where = w

(* client_command, Connect, with usbmux_remote_connect, the connection to  *)
(* the upstream end being up.                                              *)
usbmux_remote_connect(i) ==
    /\ Commanding
    /\ \E w \in Where, s \in Slot :
        /\ Upstream(i, w)
        /\ FreeSlot(s)
        /\ remote' = Requested(s, Queued([NewRemote(w) EXCEPT
                !.id = i, !.state = "CONNECTING1", !.client = me, !.cmd = "CONNECT"]))
        /\ client' = [client EXCEPT ![me] = [@ EXCEPT !.state = "CONNECTING1", !.remote = s]]
    /\ Return
    /\ UNCHANGED <<idmap, devices>>

(* A connection for one request to the upstream usbmuxd of the id i: its   *)
(* id field keeps the 0 of the allocation.                                 *)
Request(i) ==
    /\ Commanding
    /\ \E w \in Where, s \in Slot :
        /\ Upstream(i, w)
        /\ FreeSlot(s)
        /\ remote' = Requested(s, Queued([NewRemote(w) EXCEPT
                !.client = me, !.cmd = "REQUEST"]))
        /\ client' = [client EXCEPT ![me].remote = s]
    /\ Return
    /\ UNCHANGED <<idmap, devices>>

(* client_command, ReadBUID: the usbmuxd of some device, the local one if  *)
(* there is none.                                                          *)
usbmux_remote_read_buid(i) ==
    /\ IF devices = {} THEN i = 0 ELSE \E d \in devices : d[1] = i
    /\ Request(i)

(* The device with the serial number asked for has the id i.               *)
match_device(i) == \E d \in devices : d[1] = i

(* client_command, Read-, Save- and DeletePairRecord: the usbmuxd of the   *)
(* device, the local one if it is not connected.                           *)
usbmux_remote_pair_record(i) ==
    /\ i = 0 \/ match_device(i)
    /\ Request(i)

(* client_command, AddInstance.                                            *)
AddInstance(e) ==
    /\ Commanding
    /\ remote_mux_service_add(HostName[e], e)
    /\ Return

(* client_command, RemoveInstance, which answers the client afterwards.    *)
RemoveInstance(e) ==
    /\ Commanding
    /\ \E s \in Slot :
        /\ Serving(s, None, e)
        /\ remote_mark_dead(s)
        /\ ReturnUnless(DeadDangle(s) \/ client'[me].state = "FREE")

(* Every client handler that changes nothing here: lists, refusals, failed *)
(* connections, partial packets, replies sent.                             *)
client_other ==
    /\ pc = "client"
    /\ Return
    /\ UNCHANGED <<remote, idmap, devices, client>>

(* End of file, a receive or send error, or a command in the wrong state.  *)
client_disconnect ==
    /\ pc = "client"
    /\ client_close(me)
    /\ Return

(* process_send: the Connect result is out.                                *)
process_send ==
    /\ pc = "client"
    /\ client[me].state = "CONNECTING2"
    /\ client' = [client EXCEPT ![me].state = "CONNECTED"]
    /\ Return
    /\ UNCHANGED <<remote, idmap, devices>>

(* client_process in state CONNECTED: bytes go into the remote's ob_buf.   *)
client_relay ==
    /\ pc = "client"
    /\ client[me].state = "CONNECTED"
    /\ remote' = [remote EXCEPT ![client[me].remote] = Queued(@)]
    /\ Return
    /\ UNCHANGED <<idmap, devices, client>>

-----------------------------------------------------------------------------
(* The main thread: remotes.                                               *)

(* usbmux_remote_process, its critical section: dead remotes are disposed  *)
(* of, the remote of the fd is found unless it was one of them.  "out" is  *)
(* POLLOUT alone, "in" every other event: POLLIN, POLLHUP, POLLERR.        *)
usbmux_remote_process(s, e) ==
    /\ pc = "poll"
    /\ s \in InList(remote)
    /\ e = "out" => remote[s].out
    /\ usbmux_remote_dispose(remote, Dead(remote))
    /\ IF s \in Alive(remote) /\ ~ Dangles(remote, Dead(remote))
       THEN pc' = e /\ cur' = s /\ UNCHANGED <<me, snap>>
       ELSE ReturnUnless(Dangles(remote, Dead(remote)))

(* check_remote_func closed the fd and poll reports POLLNVAL alone: this   *)
(* remote goes too.                                                        *)
usbmux_remote_process_nval(s) ==
    /\ "probe" \in Env
    /\ pc = "poll"
    /\ s \in Alive(remote) /\ remote[s].where # Unix
    /\ usbmux_remote_dispose(remote, Dead(remote) \cup {s})
    /\ ReturnUnless(Dangles(remote, Dead(remote) \cup {s}))

(* remote_process_recv: end of file, an error, a bad length.               *)
remote_recv_eof ==
    /\ pc = "in"
    /\ remote[cur].state # "CONNECTED"
    /\ remote[cur].id # 0 \/ "eof0" \in Env
    /\ remote_mark_dead(cur)
    /\ ReturnUnless(DeadDangle(cur))

(* remote_handle_command_result, the answer to Listen: the state is looked *)
(* at ...                                                                  *)
remote_listen_result(ok) ==
    /\ pc = "in"
    /\ remote[cur].state = "COMMAND" /\ remote[cur].cmd = "LISTEN" /\ ~ remote[cur].ob
    /\ IF ok
       THEN pc' = "listened" /\ UNCHANGED <<remote, cur, me, snap>>
       ELSE remote' = [remote EXCEPT ![cur] = Answered(@)] /\ Return
    /\ UNCHANGED <<idmap, devices, client>>

(* ... and set, without remote_list_mutex: over a DEAD of the mDNS thread. *)
remote_listens ==
    /\ pc = "listened"
    /\ remote' = [remote EXCEPT ![cur] = Listens(@)]
    /\ Return
    /\ UNCHANGED <<idmap, devices, client>>

(* ... the answer to a BUID or pair record request, copied to the client.  *)
remote_request_result ==
    /\ pc = "in"
    /\ remote[cur].state = "COMMAND" /\ remote[cur].cmd = "REQUEST" /\ ~ remote[cur].ob
    /\ remote' = [remote EXCEPT ![cur] = Answered(@)]
    /\ ReturnUnless(remote[cur].client = Gone)
    /\ UNCHANGED <<idmap, devices, client>>

(* Mutant: listening clients are not told.                                 *)
remote_device_add_Silent(d) ==
    /\ pc = "in"
    /\ remote[cur].state = "LISTEN"
    /\ devices' = devices \cup {<<remote[cur].id, d>>}
    /\ Return
    /\ UNCHANGED <<remote, idmap, client>>

(* ... Attached, with client_device_add.                                   *)
remote_device_add(d) ==
    /\ pc = "in"
    /\ remote[cur].state = "LISTEN"
    /\ LET k == <<remote[cur].id, d>> IN
        /\ devices' = devices \cup {k}
        /\ client' = client_device_add({k})
    /\ Return
    /\ UNCHANGED <<remote, idmap>>

(* Mutant: listening clients are not told.                                 *)
remote_device_remove_Silent(d) ==
    /\ pc = "in"
    /\ remote[cur].state = "LISTEN"
    /\ devices' = devices \ {<<remote[cur].id, d>>}
    /\ Return
    /\ UNCHANGED <<remote, idmap, client>>

(* ... Detached, with client_device_remove.                                *)
remote_device_remove(d) ==
    /\ pc = "in"
    /\ remote[cur].state = "LISTEN"
    /\ LET k == <<remote[cur].id, d>> IN
        /\ devices' = devices \ {k}
        /\ client' = client_device_remove({k})
    /\ Return
    /\ UNCHANGED <<remote, idmap>>

(* client_notify_connect: a client in another state is left alone.         *)
client_notify_connect(c, ok) ==
    IF c \in Client /\ client[c].state = "CONNECTING1"
    THEN [client EXCEPT ![c].state = IF ok THEN "CONNECTING2" ELSE "COMMAND"]
    ELSE client

(* ... the answer to Connect: the state is looked at and the client told ...*)
remote_connect_result(ok) ==
    /\ pc = "in"
    /\ remote[cur].state = "CONNECTING1" /\ remote[cur].cmd = "CONNECT" /\ ~ remote[cur].ob
    /\ client' = client_notify_connect(remote[cur].client, ok)
    /\ remote' = [remote EXCEPT ![cur] = Answered(@)]
    /\ IF ok /\ remote[cur].client # Gone
       THEN pc' = "connected" /\ UNCHANGED <<cur, me, snap>>
       ELSE ReturnUnless(remote[cur].client = Gone)
    /\ UNCHANGED <<idmap, devices>>

(* Mutant: the remote does not switch to CONNECTED.                        *)
remote_connected_NoSwitch ==
    /\ pc = "connected"
    /\ Return
    /\ UNCHANGED <<remote, idmap, devices, client>>

(* ... and set, without remote_list_mutex: over a DEAD of the mDNS thread. *)
remote_connected ==
    /\ pc = "connected"
    /\ remote' = [remote EXCEPT ![cur] = Connected(@)]
    /\ Return
    /\ UNCHANGED <<idmap, devices, client>>

(* remote_process_send: everything went out, or there was nothing to send. *)
remote_process_send ==
    /\ pc = "out"
    /\ remote' = [remote EXCEPT ![cur] = Sent(@)]
    /\ ReturnUnless(remote[cur].state = "CONNECTED" /\ remote[cur].client = Gone)
    /\ UNCHANGED <<idmap, devices, client>>

(* remote_process_send fails and closes the remote; usbmux_remote_process  *)
(* then reads remote->client of a CONNECTED one that is gone.              *)
remote_send_fails ==
    /\ "sendfail" \in Env
    /\ pc = "out"
    /\ remote[cur].ob
    /\ usbmux_remote_close(cur)
    /\ ReturnUnless(remote[cur].state = "CONNECTED" \/ remote[cur].client = Gone)

(* A receive error in state CONNECTED, or only POLLHUP or POLLERR.         *)
remote_hangup ==
    /\ pc = "in"
    /\ remote[cur].state = "CONNECTED"
    /\ usbmux_remote_close(cur)
    /\ ReturnUnless(remote[cur].client = Gone)

(* Bytes relayed from the remote, or a part of those for it sent: the      *)
(* client's event mask is changed.                                         *)
remote_relay ==
    /\ pc \in {"in", "out"}
    /\ remote[cur].state = "CONNECTED"
    /\ ReturnUnless(remote[cur].client = Gone)
    /\ UNCHANGED <<remote, idmap, devices, client>>

(* End of the upstream's bytes, partial packets, messages that are dropped.*)
remote_other ==
    /\ pc \in {"in", "out"}
    /\ Return
    /\ UNCHANGED <<remote, idmap, devices, client>>

-----------------------------------------------------------------------------
(* The mDNS thread.                                                        *)

(* service_resolve_cb: AVAHI_RESOLVER_FOUND.                               *)
service_resolve(n, e) ==
    /\ "mdns" \in Env /\ pc # "freed"
    /\ remote_mux_service_add(n, e)
    /\ UNCHANGED <<pc, cur, me, snap>>

(* service_browse_cb: AVAHI_BROWSER_REMOVE.                                *)
service_browse_remove(n) ==
    /\ "mdns" \in Env /\ pc # "freed"
    /\ \E s \in Slot :
        /\ Serving(s, n, None)
        /\ remote_mark_dead(s)
        /\ pc' = IF DeadDangle(s) \/ Holding(remote', client') THEN "freed" ELSE pc
    /\ UNCHANGED <<cur, me, snap>>

-----------------------------------------------------------------------------
ClientStep ==
    \/ \E c \in Client : client_accept(c) \/ client_process(c)
    \/ start_listen \/ start_listen_notify
    \/ \E i \in Id : \/ usbmux_remote_connect(i)
                    \/ usbmux_remote_read_buid(i) \/ usbmux_remote_pair_record(i)
    \/ \E e \in Endpoint : AddInstance(e) \/ RemoveInstance(e)
    \/ client_other \/ client_disconnect \/ process_send \/ client_relay

RemoteStep ==
    \/ \E s \in Slot, e \in {"in", "out"} : usbmux_remote_process(s, e)
    \/ \E s \in Slot : usbmux_remote_process_nval(s)
    \/ remote_recv_eof \/ remote_request_result \/ remote_listens \/ remote_connected
    \/ \E ok \in BOOLEAN : remote_listen_result(ok) \/ remote_connect_result(ok)
    \/ \E d \in Device : remote_device_add(d) \/ remote_device_remove(d)
    \/ remote_process_send \/ remote_send_fails \/ remote_hangup
    \/ remote_relay \/ remote_other

MdnsStep ==
    \/ \E n \in Service, e \in Endpoint : service_resolve(n, e)
    \/ \E n \in Service : service_browse_remove(n)

Next == ClientStep \/ RemoteStep \/ MdnsStep

Spec == Init /\ [][Next]_vars

-----------------------------------------------------------------------------
(***************************************************************************)
(* Properties.                                                             *)
(***************************************************************************)

(* Every variable stays in its type: list positions hold a remote_mux or   *)
(* nothing, links are NULL or in range, and what the main thread holds     *)
(* fits what it is doing.                                                  *)
TypeOK ==
    /\ remote \in [Slot -> RemoteMux]
    /\ idmap \subseteq Id
    /\ devices \subseteq DevId
    /\ client \in [Client -> MuxClient]
    /\ pc \in PC
    /\ cur \in Slot \cup {0}
    /\ me \in Client \cup {None}
    /\ snap \subseteq DevId
    /\ pc \in {"in", "out", "listened", "connected"} => cur \in Slot
    /\ pc \in {"client", "listen"} => me \in Client

Listeners == {s \in InList(remote) : remote[s].listener}

(* No two listeners share an id, dead or alive, and the bit of every       *)
(* listener's id is set: set_remote_id_used and get_new_remote_id never    *)
(* hand out an id that is still the prefix of somebody's devices.          *)
ListenerIds ==
    \A s \in Listeners :
        /\ remote[s].id \in idmap
        /\ \A t \in Listeners : remote[s].id = remote[t].id => s = t

(* The id map holds no id that nobody uses: an id is given back when its   *)
(* listener goes, whatever way it goes.                                    *)
IdsReleased == \A i \in idmap \ {0} : \E s \in Listeners : remote[s].id = i

(* A connection that carries an instance's id was made to the endpoint of  *)
(* the listener with that id, and does not outlive it: what                *)
(* remote_mark_dead kills by id is one upstream usbmuxd.                   *)
ConnHasListener ==
    \A s \in InList(remote) : remote[s].id # 0 =>
        \E t \in Listeners : remote[t].id = remote[s].id /\ remote[t].where = remote[s].where

(* Every key of remote_device_list has the id of a listener that is still  *)
(* in the list and whose Listen succeeded: a Connect to a listed device    *)
(* can be routed, or its listener is about to be reaped.                   *)
DeviceHasListener ==
    \A d \in devices : \E s \in Listeners :
        remote[s].id = d[1] /\ remote[s].state \in {"LISTEN", "DEAD"}

Listening(c) == client[c].state = "LISTEN" /\ ~ (pc = "listen" /\ me = c)

(* A client that listens has been told of every device in the list.        *)
ViewComplete == \A c \in Client : Listening(c) => devices \subseteq client[c].view

(* ... and was sent Detached for every device that left it, whether the    *)
(* upstream usbmuxd reported it or its listener was disposed of.           *)
ViewExact == \A c \in Client : Listening(c) => client[c].view = devices

(* The pointers between a client and its remote are mutual: neither points *)
(* to something freed or linked elsewhere, so that whichever closes first  *)
(* takes the other with it.  Only a client that sent another request on    *)
(* the same connection leaves remotes behind that point at it and that it  *)
(* does not know; its own pointer is good even then.                       *)
LinksAgree ==
    /\ \A s \in InList(remote) : remote[s].client # None /\ ~ remote[s].shared =>
            /\ remote[s].client \in Client
            /\ client[remote[s].client].state # "FREE" /\ client[remote[s].client].remote = s
    /\ \A c \in Client : client[c].remote # 0 =>
            client[c].state # "FREE" /\ remote[client[c].remote].client = c

(* The states of a client and its remote fit: a relaying client has a      *)
(* remote that relays, and a connected remote a client that does or will,  *)
(* from the moment the handler of the answer to Connect is done.           *)
StatesAgree ==
    \A c \in Client : client[c].state \in {"CONNECTING2", "CONNECTED"} =>
        /\ client[c].remote # 0
        /\ \/ remote[client[c].remote].state \in {"CONNECTED", "DEAD"}
           \/ pc \in {"connected", "freed"} /\ cur = client[c].remote

(* The main thread never goes on with a remote or client that was freed    *)
(* between its lookup and its use.                                         *)
NoUseAfterFree == pc # "freed"

-----------------------------------------------------------------------------
(* A handler of the main thread finishes, and upstream sockets take data.  *)
(* Each round of main_loop visits every fd that poll reported, so a remote *)
(* that waits for POLLOUT is processed although other fds are too: strong  *)
(* fairness.                                                               *)
Fairness ==
    /\ WF_vars(pc # "poll" /\ (ClientStep \/ RemoteStep))
    /\ \A s \in Slot : SF_vars(usbmux_remote_process(s, "out"))

FairSpec == Spec /\ Fairness

(* A remote marked dead is reaped: the dummy event remote_mark_dead leaves *)
(* on another remote brings usbmux_remote_process to it.                   *)
DeadReaped == \A s \in Slot : remote[s].state = "DEAD" ~> remote[s].state # "DEAD"

(* What remote_mark_dead kills in one go is one upstream usbmuxd: "mark as *)
(* dead, and all others with same remote id".                              *)
OneMuxDies ==
    [][\A s, t \in Alive(remote) :
          remote[s].where # remote[t].where
          => ~ (remote'[s].state = "DEAD" /\ remote'[t].state = "DEAD")]_vars

(* With the local usbmuxd as the first remote in the list, dead remotes    *)
(* are reaped whatever clients do.                                         *)
DeadReapedByLocal == remote[1].listener => DeadReaped

-----------------------------------------------------------------------------
(* The registry implements the directory: an id stands for one upstream    *)
(* usbmuxd, from before its first device is listed until after its last    *)
(* one is gone, and no listening client sees anything else.                *)
Named(D) == {<<remote[p[1]].where, p[2][2]>> :
                 p \in {q \in Listeners \X D : remote[q[1]].id = q[2][1]}}

Directory == INSTANCE DeviceDirectory WITH
    member   <- {remote[s].where : s \in Listeners},
    attached <- Named(devices),
    subs     <- {c \in Client : Listening(c)},
    view     <- [c \in Client |-> IF Listening(c) THEN Named(client[c].view) ELSE {}]

ImplementsDirectory == Directory!Spec
=============================================================================
