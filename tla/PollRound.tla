------------------------------ MODULE PollRound ------------------------------
(***************************************************************************)
(* A round of main_loop (usbfluxd/main.c) and the file descriptors its     *)
(* handlers open and close.                                                *)
(*                                                                         *)
(* A round collects the fds of the listening socket, the clients and the   *)
(* remotes, polls them, and calls a handler for each number that has       *)
(* events: client_process and usbmux_remote_process look the number up     *)
(* again.  Meanwhile earlier handlers, the mDNS thread and the threads of  *)
(* check_remote_func close numbers and open connections, which take the    *)
(* lowest free number.  `file` is the kernel's table.  Every client and    *)
(* remote ever made is an element of its own, so that what a number led to *)
(* when it was polled, and what was freed, can be told.                    *)
(***************************************************************************)
EXTENDS Integers, FiniteSets

CONSTANTS
    Client,     \* bound: clients over the whole run
    Remote,     \* bound: remotes over the whole run
    MaxFd,      \* RLIMIT_NOFILE, without the numbers that are always in use
    MaxProbe,   \* bound: check_remote_func threads at the same time
    Pipelined,  \* whether a client may send a second request on a connection
    Prober,     \* the socket of a check_remote_func thread
    None

Fd  == 1..MaxFd
Id  == {0, 1}   \* the local usbmuxd and one instance
Obj == Client \cup Remote

ASSUME PollAssumption ==
    /\ MaxFd \in Nat \ {0} /\ MaxProbe \in Nat /\ Pipelined \in BOOLEAN
    /\ Client \cap Remote = {} /\ {Prober, None} \cap Obj = {} /\ Prober # None

VARIABLES
    file,       \* what an open number leads to
    at,         \* at[x]: the fd field of a client or remote
    state,      \* "new" (not made yet), "live", "dead" (REMOTE_DEAD), "freed"
    mux,        \* mux[r]: the id of a remote, is_listener, not is_unix, made by Connect
    link,       \* client->remote and remote->client
    pending,    \* entries of pollfds still to be looked at
    half,       \* a remote its client points at, but not yet it at the client
    probes,     \* check_remote_func threads
    exit,       \* main_loop has returned
    \* History
    fresh,      \* made since the fds were collected
    second,     \* clients that sent a second request
    failed,     \* connected remotes a send to failed
    cut,        \* clients and remotes whose number somebody else closed
    wrong,      \* handler calls for the events of another connection
    dangling    \* freed clients and remotes that were used

lists == <<at, state, mux, link>>
history == <<fresh, second, failed, cut, wrong, dangling>>
vars == <<file, lists, pending, half, probes, exit, history>>

Entry == [kind : {"LISTEN", "CLIENT", "REMOTE"}, fd : Fd \cup {0}, of : Obj \cup {Prober, None}]
Mux == [id : Id, listener : BOOLEAN, tcp : BOOLEAN, conn : BOOLEAN]
Blank == [id |-> 0, listener |-> FALSE, tcp |-> FALSE, conn |-> FALSE]
Probe == [of : Remote, fd : Fd \cup {0}, sock : Fd \cup {0}]

-----------------------------------------------------------------------------
Listed == {x \in Obj : state[x] \in {"live", "dead"}}
Clients == Listed \cap Client
Remotes == Listed \cap Remote
Alive == {r \in Remotes : state[r] = "live"}
Dead == Remotes \ Alive
Instances == {r \in Remotes : mux[r].listener /\ mux[r].tcp}

FreeFds == {f \in Fd : file[f] = None}
LowestFd == CHOOSE f \in FreeFds : \A g \in FreeFds : f <= g

(* What x points at, if anything.                                          *)
Linked(x) == {link[x]} \ {None}

(* A new client or remote x gets the lowest free number.                   *)
Opened(x) ==
    /\ state[x] = "new" /\ FreeFds # {}
    /\ file' = [file EXCEPT ![LowestFd] = x]
    /\ at' = [at EXCEPT ![x] = LowestFd]
    /\ state' = [state EXCEPT ![x] = "live"]
    /\ fresh' = fresh \cup {x}

(* client_close takes client->remote along.                                *)
client_close(c) == {c} \cup Linked(c)

(* usbmux_remote_close closes the client, if there is one, and leaves the  *)
(* rest to it.                                                             *)
usbmux_remote_close(r) ==
    IF link[r] = None THEN {r} ELSE UNION {client_close(c) : c \in Linked(r)}

(* Mutant: the clients are forgotten, not closed.                          *)
usbmux_remote_dispose_NoClose(S) == S

(* usbmux_remote_dispose for each of S: its client is told to forget it,   *)
(* and closed.                                                             *)
usbmux_remote_dispose(S) == S \cup UNION {Linked(r) : r \in S}

(* Freed clients used when all of S is disposed of or closed.              *)
Used(S) ==
    {link[r] : r \in {s \in S \cap Remote :
        /\ link[s] # None
        /\ link[s] \notin Listed \/ \E t \in S \ {s} : link[t] = link[s]}}

(* S is freed, D marked dead.                                              *)
Marked(S, D) ==
    /\ state' = [x \in Obj |-> IF x \in S THEN "freed" ELSE IF x \in D THEN "dead" ELSE state[x]]
    /\ at' = [x \in Obj |-> IF x \in S THEN 0 ELSE at[x]]
    /\ mux' = [r \in Remote |-> IF r \in S THEN Blank ELSE mux[r]]
    /\ link' = [x \in Obj |-> IF x \in S THEN None ELSE link[x]]
    /\ fresh' = fresh \ S

(* Mutant: the number stays open.                                          *)
Frees_KeepOpen(S, D) == Marked(S, D) /\ UNCHANGED <<file, cut>>

(* ... and the numbers of S are closed, whoever has them by now.           *)
Frees(S, D) ==
    /\ Marked(S, D)
    /\ file' = [f \in Fd |-> IF \E x \in S : at[x] = f THEN None ELSE file[f]]
    /\ cut' = (cut \cup {file[at[x]] : x \in S}) \ (S \cup {Prober, None})

(* ... or X is closed after that: a client of S may be in X.               *)
Dangles(S, X) == Used(S) \cup (X \ Listed) \cup (X \cap UNION {Linked(r) : r \in S})

(* R is disposed of, X closed, D marked dead; a freed client ends it all.  *)
Goes(R, X, D) ==
    IF Dangles(R, X) # {}
    THEN /\ dangling' = Dangles(R, X)
         /\ UNCHANGED <<file, lists, fresh, cut>>
    ELSE /\ Frees(usbmux_remote_dispose(R) \cup X, D)
         /\ UNCHANGED dangling

(* remote_mark_dead, when R is disposed of anyway: the remotes with the id *)
(* of r die, and if none is left alive, all are disposed of.               *)
remote_mark_dead(r, R) ==
    LET D == {s \in Remotes \ R : mux[s].id = mux[r].id} IN
    IF Alive \subseteq D \cup R
    THEN Goes(Remotes, {}, {})
    ELSE Goes(R, {}, D)

-----------------------------------------------------------------------------
(* usbmux_remote_init: the connection to the local usbmuxd, if it is there *)
(* and wanted.                                                             *)
Init ==
    \E l \in Remote \cup {None} :
        /\ file = [f \in Fd |-> IF f = 1 THEN l ELSE None]
        /\ at = [x \in Obj |-> IF x = l THEN 1 ELSE 0]
        /\ state = [x \in Obj |-> IF x = l THEN "live" ELSE "new"]
        /\ mux = [r \in Remote |-> [Blank EXCEPT !.listener = r = l]]
        /\ link = [x \in Obj |-> None]
        /\ pending = {} /\ half = None /\ probes = {} /\ exit = FALSE
        /\ fresh = {} /\ second = {} /\ failed = {} /\ cut = {} /\ wrong = {} /\ dangling = {}

Running == ~exit /\ dangling = {}

(* The main thread is in none of its handlers.                             *)
Idle == Running /\ half = None

(* fdlist_add: an entry carries the number, poll what happens there.       *)
fdlist_add(k, x) == [kind |-> k, fd |-> at[x], of |-> file[at[x]]]

(* Mutant: an entry that was not looked at stays in the list.              *)
main_loop_NoReset(C, R) ==
    /\ Idle
    /\ C \subseteq Clients /\ R \subseteq Remotes
    /\ pending' = pending \cup {fdlist_add("CLIENT", c) : c \in C}
                          \cup {fdlist_add("REMOTE", r) : r \in R}
    /\ fresh' = {}
    /\ UNCHANGED <<file, lists, half, probes, exit, second, failed, cut, wrong, dangling>>

(* main_loop: the fds are collected and polled; C and R have events, and   *)
(* perhaps the listening socket.                                           *)
main_loop(C, R) ==
    /\ Idle /\ pending = {}
    /\ C \subseteq Clients /\ R \subseteq Remotes
    /\ \E L \in SUBSET {[kind |-> "LISTEN", fd |-> 0, of |-> None]} :
        pending' = L \cup {fdlist_add("CLIENT", c) : c \in C}
                     \cup {fdlist_add("REMOTE", r) : r \in R}
    /\ fresh' = {}
    /\ UNCHANGED <<file, lists, half, probes, exit, second, failed, cut, wrong, dangling>>

(* The entries that come next: the listening socket is the first in the    *)
(* list, remotes come last.                                                *)
Turn(k) ==
    {e \in pending :
        /\ Idle /\ e.kind = k
        /\ k # "LISTEN" => \A g \in pending : g.kind # "LISTEN"
        /\ k = "REMOTE" => \A g \in pending : g.kind = "REMOTE"}

(* The events of e are handled for x.                                      *)
Given(e, x) ==
    wrong' = IF e.of = x THEN wrong
             ELSE wrong \cup {[fresh |-> x \in fresh, cut |-> x \in cut]}

(* client_accept.                                                          *)
client_accept(e, c) ==
    /\ e \in Turn("LISTEN")
    /\ Opened(c)
    /\ pending' = pending \ {e}
    /\ UNCHANGED <<mux, link, half, probes, exit, second, failed, cut, wrong, dangling>>

(* accept() fails for want of a number: main_loop returns -1.              *)
client_accept_fails(e) ==
    /\ e \in Turn("LISTEN")
    /\ FreeFds = {}
    /\ exit' = TRUE
    /\ UNCHANGED <<file, lists, pending, half, probes, history>>

(* client_process for a number no client has.                              *)
client_process_none(e) ==
    /\ e \in Turn("CLIENT")
    /\ \A c \in Clients : at[c] # e.fd
    /\ pending' = pending \ {e}
    /\ UNCHANGED <<file, lists, half, probes, exit, history>>

(* client_process finds c.  It opens and closes nothing, or c closes.      *)
client_process(e, c) ==
    /\ e \in Turn("CLIENT")
    /\ c \in Clients /\ at[c] = e.fd
    /\ Given(e, c)
    /\ \/ UNCHANGED <<file, lists, fresh, cut, dangling>>
       \/ Goes({}, client_close(c), {})
    /\ pending' = pending \ {e}
    /\ UNCHANGED <<half, probes, exit, second, failed>>

(* client_process finds c, and a request makes a connection r: by unix     *)
(* socket, or by TCP to the instance.  Connect gives r the id of the       *)
(* device's usbmuxd, and links both ways under the lock.  The others leave *)
(* the id 0, and remote->client to the time after the lock.                *)
client_process_request(e, c, r, i, byTcp, late) ==
    /\ e \in Turn("CLIENT")
    /\ c \in Clients /\ at[c] = e.fd
    /\ link[c] = None \/ Pipelined
    /\ IF late THEN i = 0 ELSE i = 1 <=> byTcp
    /\ byTcp => Instances \cap Alive # {}
    /\ Given(e, c)
    /\ Opened(r)
    /\ mux' = [mux EXCEPT ![r] = [id |-> i, listener |-> FALSE, tcp |-> byTcp, conn |-> ~late]]
    /\ link' = [link EXCEPT ![c] = r, ![r] = IF late THEN None ELSE c]
    /\ half' = IF late THEN r ELSE None
    /\ second' = IF link[c] = None THEN second ELSE second \cup {c}
    /\ pending' = pending \ {e}
    /\ UNCHANGED <<probes, exit, failed, cut, dangling>>

(* remote_send_plist_pkt, and remote->client = client.                     *)
client_process_linked(c) ==
    /\ Running /\ half # None
    /\ c \in Clients /\ link[c] = half
    /\ IF half \in Listed
       THEN link' = [link EXCEPT ![half] = c] /\ UNCHANGED dangling
       ELSE dangling' = {half} /\ UNCHANGED link
    /\ half' = None
    /\ UNCHANGED <<file, at, state, mux, pending, probes, exit, fresh, second, failed, cut, wrong>>

(* usbmux_remote_process: dead remotes are disposed of, and the live one   *)
(* with the number handles the events; POLLNVAL disposes of it too.        *)
usbmux_remote_process(e) ==
    /\ e \in Turn("REMOTE")
    /\ \/ /\ \A r \in Alive : at[r] # e.fd
          /\ Goes(Dead, {}, {})
          /\ UNCHANGED wrong
       \/ \E r \in Alive :
            /\ at[r] = e.fd
            /\ Given(e, r)
            /\ IF e.of = None
               THEN Goes(Dead \cup {r}, {}, {})
               ELSE \/ Goes(Dead, {}, {})                     \* bytes, answers, devices
                    \/ Goes(Dead, usbmux_remote_close(r), {}) \* hangup, a failed recv
                    \/ remote_mark_dead(r, Dead)              \* end of file
    /\ pending' = pending \ {e}
    /\ UNCHANGED <<half, probes, exit, second, failed>>

(* A send to the connected remote r fails: remote_process_send closes it   *)
(* and its client, and the freed remote is asked for its client.           *)
remote_process_send_fails(e, r) ==
    /\ e \in Turn("REMOTE") /\ e.of # None
    /\ r \in Alive /\ at[r] = e.fd /\ mux[r].conn
    /\ Given(e, r)
    /\ dangling' = Dangles(Dead, usbmux_remote_close(r)) \cup {r}
    /\ failed' = failed \cup {r}
    /\ pending' = pending \ {e}
    /\ UNCHANGED <<file, lists, half, probes, exit, fresh, second, cut>>

(* remote_mux_service_add, by AddInstance or in the mDNS thread.           *)
remote_mux_service_add(r) ==
    /\ Running
    /\ Instances = {}
    /\ Opened(r)
    /\ mux' = [mux EXCEPT ![r] = [id |-> 1, listener |-> TRUE, tcp |-> TRUE, conn |-> FALSE]]
    /\ UNCHANGED <<link, pending, half, probes, exit, second, failed, cut, wrong, dangling>>

(* remote_mux_service_remove, by RemoveInstance or in the mDNS thread.     *)
remote_mux_service_remove(r) ==
    /\ Running
    /\ r \in Instances
    /\ remote_mark_dead(r, {})
    /\ UNCHANGED <<pending, half, probes, exit, second, failed, wrong>>

(* usbmux_remote_get_fds starts a thread for a remote that has been idle   *)
(* for 10 seconds.                                                         *)
check_remote_start(r) ==
    /\ Idle /\ pending = {}
    /\ r \in Remotes /\ mux[r].tcp /\ Cardinality(probes) < MaxProbe
    /\ probes' = probes \cup {[of |-> r, fd |-> 0, sock |-> 0]}
    /\ UNCHANGED <<file, lists, pending, half, exit, history>>

(* The thread reads remote->fd, anything if the remote is freed, and makes *)
(* a socket of its own, if there is a number for it.                       *)
check_remote_func(p, f) ==
    /\ Running /\ p \in probes /\ p.fd = 0
    /\ state[p.of] # "freed" => f = at[p.of]
    /\ LET s == IF FreeFds = {} THEN 0 ELSE LowestFd IN
        /\ file' = [g \in Fd |-> IF g = s THEN Prober ELSE file[g]]
        /\ probes' = (probes \ {p}) \cup {[p EXCEPT !.fd = f, !.sock = s]}
    /\ UNCHANGED <<lists, pending, half, exit, history>>

(* It ends: its socket is closed, and the fd it read, unless the instance  *)
(* answered.                                                               *)
check_remote_end(p, answered) ==
    /\ Running /\ p \in probes /\ p.fd # 0
    /\ p.sock = 0 => ~answered
    /\ probes' = probes \ {p}
    /\ LET shut == ({p.sock} \cup IF answered THEN {} ELSE {p.fd}) \ {0} IN
        /\ file' = [f \in Fd |-> IF f \in shut THEN None ELSE file[f]]
        /\ cut' = cut \cup ({file[f] : f \in shut} \ {Prober, None})
    /\ UNCHANGED <<lists, pending, half, exit, fresh, second, failed, wrong, dangling>>

-----------------------------------------------------------------------------
Next ==
    \/ \E C \in SUBSET Clients, R \in SUBSET Remotes : main_loop(C, R)
    \/ \E r \in Remote : \/ check_remote_start(r)
                         \/ remote_mux_service_add(r) \/ remote_mux_service_remove(r)
    \/ \E e \in pending :
        \/ \E c \in Client : client_accept(e, c) \/ client_process(e, c)
        \/ \E c \in Client, r \in Remote, i \in Id, byTcp, late \in BOOLEAN :
            client_process_request(e, c, r, i, byTcp, late)
        \/ client_accept_fails(e) \/ client_process_none(e) \/ usbmux_remote_process(e)
        \/ \E r \in Remote : remote_process_send_fails(e, r)
    \/ \E c \in Client : client_process_linked(c)
    \/ \E p \in probes : \/ \E f \in Fd : check_remote_func(p, f)
                         \/ \E answered \in BOOLEAN : check_remote_end(p, answered)

Spec == Init /\ [][Next]_vars

-----------------------------------------------------------------------------
(***************************************************************************)
(* Properties.                                                             *)
(***************************************************************************)

(* Every table stays in its type.                                          *)
TypeOK ==
    /\ file \in [Fd -> Obj \cup {Prober, None}]
    /\ at \in [Obj -> Fd \cup {0}]
    /\ state \in [Obj -> {"new", "live", "dead", "freed"}]
    /\ mux \in [Remote -> Mux]
    /\ link \in [Obj -> Obj \cup {None}]
    /\ pending \subseteq Entry /\ half \in Remote \cup {None} /\ probes \subseteq Probe /\ exit \in BOOLEAN
    /\ fresh \subseteq Obj /\ second \subseteq Client /\ failed \subseteq Remote /\ cut \subseteq Obj
    /\ wrong \subseteq [fresh : BOOLEAN, cut : BOOLEAN]
    /\ dangling \subseteq Obj

(* However clients and remotes close each other, in the main loop and in   *)
(* the mDNS thread, each one in the lists has the number it was given, but *)
(* for the victims of a close by somebody else; and no number stays open   *)
(* that is not in the lists.                                               *)
OwnFd ==
    /\ \A x \in Listed \ cut : file[at[x]] = x
    /\ \A f \in Fd : file[f] \in Obj => file[f] \in Listed /\ at[file[f]] = f

(* An event that was polled for one connection is handled for another only *)
(* if that was made in the same round, on a number closed in it, or has    *)
(* lost its number.                                                        *)
StaleOnlyToNew == \A w \in wrong : w.fresh \/ w.cut

(* Where a handler of the main loop or a callback of the mDNS thread uses  *)
(* a freed client or remote, the client sent a second request on its       *)
(* connection, or it is the connected remote a send just failed to, which  *)
(* usbmux_remote_process goes on to use; no other close does, and a remote *)
(* still to be linked to its client is not freed meanwhile: it carries the *)
(* id 0, which no instance has that the mDNS thread removes.  (A handler   *)
(* is one step here; what the mDNS thread frees in the middle of one is    *)
(* the matter of UsbmuxRemote.)                                            *)
NoDangling == dangling \subseteq second \cup failed

(* check_remote_func closes a connection of the remote it checked: "check  *)
(* if any remotes became unavailable due to network error".                *)
ProbeClosesOwn ==
    [][\A p \in probes \ probes', f \in Fd :
        p.fd # 0 /\ file[f] \in Obj /\ file'[f] = None => file[f] = p.of]_vars
=============================================================================
