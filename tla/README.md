# A TLA+ model of usbfluxd

usbfluxd takes the place of usbmuxd's unix socket. Programs that talk to usbmuxd reach usbfluxd
instead, which shows them the devices of the local usbmuxd and of remote instances as one list and
relays their connections to the usbmuxd a device hangs on.

## 1. The system

| Component | State | Operations | Hard behaviour |
|---|---|---|---|
| Remote registry, `usbmux_remote.c` | `remote_list`, `remote_id_map`, `remote_device_list` | add and remove an instance, connect, request, results, mark dead, reap, close | two threads; ids are reused; death spreads by id; reaping needs an event |
| Clients, `client.c` | `client_list`, state and link of each client | accept, commands, Listen, connect result, close | client and remote close each other; Listen reports a copy of the device list |
| Relay, `client.c` and `usbmux_remote.c` | `ib_buf`, `ob_buf`, event masks of both sides | read, write, end of file, hangup | shared buffers, partial sends, masks set by the other side |
| Framing, `process_recv`, `process_send` and their twins for remotes | `ib_size`, `ob_size`, POLLOUT | receive a header, a body, end of file; send | packets split anywhere; failing commands; input before output |
| Startup, `main.c`, `socket.c` | the two socket paths, `renamed`, `opt_no_usbmuxd`, the pipe to the launcher | check, rename, daemonize, unlink, bind, report, restore | crashes, a second instance, a restarted usbmuxd |
| Main loop | fd list of a round | collect, poll, dispatch by number | numbers closed and reused within a round |
| mDNS thread | its poll object | add and remove instances | runs beside the main loop, and is stopped by it |
| Probe, `check_remote_func` | the fd it read | closes the fd of an unreachable instance | runs in a thread of its own, up to two seconds |
| Mutexes and shutdown | three mutexes | lock, unlock, destroy, join | connects under a lock; the order of destruction |
| usbfluxctl | one request | add, del, list | what it prints comes from another process |
| Collections, logging, GUI | | | |

The main thread alone runs client and remote handlers; `main_loop` calls them for the fds poll
reports. The mDNS thread changes the registry in critical sections of `remote_list_mutex`, and may
dispose of remotes, and of the clients linked to them, there. Handlers of the main thread hold that
mutex only to look a remote up and to change the list.

What makes each part correct:

* registry: an id names one usbmuxd from before its first device is listed until after its last is
  gone; the id comes back; a dead instance is reaped and takes only its own connections along;
* clients: a listening client knows exactly the listed devices; client and remote point at each
  other or not at all, unless a client left an earlier request behind, and their states fit;
* relay: two byte streams, nothing lost, repeated or reordered, nothing stuck;
* framing: reading stays in step with the packets, each is handled once and in order, replies get
  out, end of file is noticed;
* startup: a running usbmuxd stays reachable under one of the two names, is behind the usbfluxd that
  serves, gets its name back, and has one usbfluxd in front of it; whoever started the daemon is
  answered, and truthfully;
* main loop: events reach the connection they were polled for, no fd leaks, and a close never leaves
  a pointer to freed memory that is used;
* locks: threads never wait for each other in a circle, every handler returns, a signal ends the
  daemon, no mutex is destroyed before its users;
* usbfluxctl: what it prints is so, and it ends.

## 2. Modules

| Module | Models |
|---|---|
| `UsbmuxRemote` | registry and clients, both threads |
| `MCUsbmuxRemote` | its constants for TLC, and the symmetry |
| `DeviceDirectory` | what registry and clients promise: a directory of devices by usbmuxd and number |
| `Relay` | one connected client and its remote, byte by byte |
| `DuplexPipe` | what a relay promises |
| `SocketFiles` | the two socket paths, `main()` up to its loop, the launcher of the daemon |
| `Framing` | a connection that does not relay, packet by packet |
| `PollRound`, `MCPollRound` | rounds of `main_loop` with fds as numbers, the probe, the mDNS thread |
| `Locks` | the three mutexes, the threads, shutdown |
| `Usbfluxctl`, `MCUsbfluxctl` | usbfluxctl and what usbfluxd does for it |
| `UsbmuxRemoteProofs`, `UsbmuxDirectoryProofs` | the theorems about `UsbmuxRemote`: types, and what holds whatever goes wrong; what holds unless something does, and the refinement of `DeviceDirectory` |
| `SocketFilesProofs`, `FramingProofs`, `RelayProofs`, `PollRoundProofs`, `UsbfluxctlProofs`, `LocksProofs` | the theorems about the module each is named after |

### UsbmuxRemote

`remote[s]` is the remote at position `s` of `remote_list`, `"FREE"` for an empty position;
`idmap`, `devices` and `client` are `remote_id_map`, the keys of `remote_device_list` and
`client_list`. A device number is the pair of id and low 24 bits. `client[c].view` is what a client
was sent: Attached and not Detached since. `pc`, `cur`, `me` and `snap` are what the main thread
keeps between looking a remote or client up and returning to `main_loop`: the lookup
(`usbmux_remote_process`, `client_process`) is one step, the handler another, and the mDNS thread
may come between the two, and between the copy of the device list in `start_listen` and its report.
If it frees what the main thread holds, `pc` becomes `"freed"` and the run ends: what follows is
undefined.

The handlers of the answers to Listen and Connect look at `remote->state` and set it later, without
`remote_list_mutex`. They are two steps each (`remote_listen_result` and `remote_listens`,
`remote_connect_result` and `remote_connected`): what the mDNS thread sets in between is overwritten.

`client_command` looks only at the client's state, so a client whose request was handed upstream may
send more commands (`"second" \in Env`); another request replaces `client->remote`, and the remote of
the earlier one keeps its pointer to the client. Such remotes are `shared`; when the client is freed
they point at `Gone`, and using that pointer ends the run. `MaxShared` bounds them.

Each command of `client_command` and each branch of `remote_handle_command_result`,
`remote_process_recv`, `remote_process_send` and `usbmux_remote_process` is an action. Commands that
only send a reply, refusals, failed connects and partial packets change nothing here and are
`client_other` and `remote_other`. `usbmux_remote_dispose` and `remote_mark_dead` work on sets of
positions where the code loops. `REMOTE_CONNECTING2` is never assigned in the code and left out.

`Env` selects what goes wrong: the mDNS thread, the probe, failing sends, end of file on a connection
with id 0, and further requests of a client. The runs that must pass without a known defect leave out
what triggers it. Theorems either hold for every `Env` or name the members they exclude.

Assumptions:

* a critical section is one step, and so is a handler of the main thread but for those just named and
  `start_listen`. In particular the time between the end of the critical section of a Connect or
  request (`usbmux_remote.c:278`, `:323`) and the last assignments to client and remote
  (`client.c:741`, `usbmux_remote.c:339`) is not a point where the mDNS thread comes in here.
  `PollRound` splits the handler that links a client and a remote in two steps, `Locks` splits all of
  them at their locks;
* poll reports fds that belong to the remote they were collected for; `PollRound` drops this;
* upstream ends are usbmuxds: they answer what was sent, and only then;
* `usbmux_remote_read_buid` takes the first device of a dictionary whose order libplist decides: any
  device;
* `plist_dict_foreach` visits every device although items are removed on the way (the source marks
  this "TODO: verify if this is safe").

### Relay

Byte *i* of a stream is the number *i*, so that a stream is intact when it is `1..n` in order; the
result packet's bytes are 0. Every send and receive moves any number of bytes up to what is there.
A handler looks at POLLIN first and at POLLOUT only without it, as the code does. The program sends
once the result packet is out: libusbmuxd waits for it. `Hangup` tells a unix socket, whose close
raises POLLHUP, from TCP, where end of file only clears POLLIN. `ObCap` and `IbCap` are the
capacities of the remote's buffers. Both ends send a bounded number of bytes: that a device which
never stops sending keeps POLLOUT of its remote from being looked at (`usbmux_remote.c:1390`, `:1418`)
is outside what `DeliveredUnlessStalled` claims.

### SocketFiles

A path holds nothing, a live socket of usbmuxd or of a usbfluxd, or a stale one. Each `access`,
`connect`, `unlink`, `rename`, `bind` and `listen` of `main()` and `socket_create_unix` is a step, and
those that are checked for failure may fail; a bound socket refuses connections until `listen`. A
crash may come after any step. `terminate` is a step of its own, so that a restarted usbmuxd may come
before it. The process that shuts down leaves its socket stale.

usbfluxd processes start and usbmuxd stops and starts at any time. `main()` does not guard against
two of the former starting together (a check and the rename or unlink it is for are separate steps),
nor against the latter while a usbfluxd is there (the flag `renamed` is stale then). The history
variable `upset` records that either happened; it is cleared when no usbfluxd is left. The safety
properties claim something while `Calm`: nothing has upset the paths, and usbmuxd can be reached.
They thus also say that a disturbance ends with the processes it hit.

The launcher is the process that was started; `pipe` is what it will read: nothing yet, the status
0 of `notify_parent`, an error, or end of file when the daemon is gone. Nothing in `main()` up to its
loop waits for another process, hence the weak fairness of `Step` and of the launcher; the one thing
it may wait for is `gethostbyname_mutex`, for the host of option `-r`, if the mDNS thread leaked it
before (`usbmux_remote_add_remote`, `pc = "blocked"`). `start`, `shutdown` and `crash` are up to others
and not fair.

### Framing

The peer writes packets of lengths from `Length`, good and bad, and may close in the middle of one;
`wire` lets any part of what was written arrive. `pos` counts the bytes received, so that the packet
in `ib_buf` is the one that starts at `pos - ib`. `side` chooses between the client's functions and
the remote's, which differ in what follows a packet: a client's packet stays in `ib_buf` when its
command failed, a remote's never does. `done` and `again` record which packets were handled. A
Listen that reported devices is kept too, and the connection closed when it is looked at again. The
peer may go on for ever: when all packets are handled, `renumber` lets their numbers start anew.

### PollRound

`file` is the kernel's table, `at[x]` the fd field of a client or remote; every client and remote
ever made is an element of its own, so that the model can tell which connection an event was polled
for, and what was freed. A number is the lowest free one; `MaxFd` is `RLIMIT_NOFILE`. Handlers run
in the order of the list: the listening socket, clients, remotes. A request (ReadBUID, pair
records) is two steps, `client_process_request` and `client_process_linked`, as the code links the
remote to the client after the lock. `check_remote_func` is three: its start, its read of the fd
(anything if the remote is freed by then), its end. A failed send to a connected remote
(`remote_process_send_fails`) closes it, and its caller uses it. The model stops where freed memory is
used; `second` and `failed` record the two known ways there.

### Locks

Each thread has a sequence of operations to do; a handler is the sequence of its locks, unlocks and
what lies between, closing clients and disposing of remotes expand when they are reached. What the
critical sections change is in `UsbmuxRemote`; here only what decides which locks are taken: which
clients there are, which have a remote, which devices are listed. Built with avahi (`simple_poll`).

### Usbfluxctl

A request goes through connecting, handling in usbfluxd or usbmuxd, a reply sent in two parts and
the message printed. `facts` records what was so in usbfluxd when it handled the request; the message
is compared with it. Ports are cut to `PortMod` as `client_command` does. `server_changes` lets the
other server take the socket at any time, closing every connection. `lookup` is
`gethostbyname_mutex`: an unknown host, of a usbfluxctl, the mDNS thread or another client's Connect,
leaves it locked, and the next lookup never returns, with it `main_loop`. A request that does not fit
in `req_xml` (`"long"`) is cut off and gets no reply; a header that is not received in one piece ends
usbfluxctl.

## 3. Runs

| Run | Config | Result |
|---|---|---|
| `threads` | `UsbmuxRemote_threads` | ids, devices, views, links and states stay consistent with both threads, all failures and further requests of a client, up to a use of freed memory |
| `directory` | `UsbmuxRemote_directory` | with one thread and two instances at a time ids are given back, views are exact, connections belong to the listener with their id, the registry implements `DeviceDirectory`, dead remotes are reaped while the local usbmuxd is up, and what dies together is one instance |
| `relay` | `Relay_all` | streams intact, buffers in bounds, event masks complete, implements `DuplexPipe`; every byte arrives, and a closed upstream unix socket closes the client's connection, unless both buffers are full at once |
| `socket_crash` | `SocketFiles_crash` | while `Calm` usbmuxd is never lost, has one usbfluxd in front of it, and is restored, and the launcher is told of success only when usbfluxd serves; it is answered in any case, unless the daemon itself waits for the leaked lock |
| `locks` | `Locks_all` | handlers return and signals end the daemon, but for an unknown host name (`Leaked`) and a signal before the mDNS thread is ready (`Missed`); no three threads wait in a row for mutexes or the join; `remote_list_mutex` outlives its users; `client_list_mutex` does not: after it is destroyed the main thread still locks it, but only to report devices, and the mDNS thread may, until it is joined |
| `framing` | `Framing_both` | reading stays in step, packets are handled once and in order, end of file is noticed, but for a failed command in the way (`Kept`); replies are sent to a peer that pauses |
| `poll_round` | `PollRound_all` | no fd leaks; events reach another connection only if it was made in the same round or lost its number; a close leads to the use of a freed client or remote only after a second request of the client or a failed send |
| `usbfluxctl` | `Usbfluxctl_all` | messages are true, a removed instance is not listed, and usbfluxctl ends unless the server goes between the parts of a reply, the request was cut off, or usbfluxd waits for the leaked lock |

Runs that show where the code does not do what its comments and documents say:

| Run | Property | What happens |
|---|---|---|
| `one_mux` | `OneMuxDies` | a request connection carries id 0 wherever it leads; its end of file kills the local usbmuxd |
| `send_use` | `NoUseAfterFree` | a failed send frees the remote, its caller goes on with it |
| `locks_stop` | `StopsOnSignal` | an unknown host name leaves `gethostbyname_mutex` locked; the next connect never returns and the signal is never taken |
| `probe_fd` | `ProbeClosesOwn` | a late probe closes the fd of another connection |

With other constants or without their exceptions the same properties fail for other reasons:

* `IdsReleased` with `Env = {"sendfail"}`: a listener that cannot send is closed
  (`usbmux_remote.c:1291`, `:939-958`) without giving its id back;
* `OneMuxDies` with two instances, two clients and `Env = {"probe"}`: the probe gives an id back that connections
  still carry; the next instance gets it, and the end of an old connection kills that instance;
* `ConnHasListener` and `OneMuxDies` with two instances, two clients and `Env = {"mdns"}`: the mDNS
  thread marks listener and connection dead between the two halves of the handler of the answer to
  Connect (`usbmux_remote.c:1262-1268`), which brings the connection back; it outlives its listener,
  and its id is given to the next instance;
* `NoUseAfterFree` with `Env = {"second"}`: the answer to an earlier request arrives when its client is
  gone; with `Env = {"mdns"}`: the mDNS thread disposes of the last remotes
  (`usbmux_remote.c:555-560`) while the main thread holds one of them or its client;
* `DeadReaped` under `FairSpec`, two positions: the dummy event is left on a client's connection
  and goes with it, so nothing reaps the dead remotes until some remote has an event of its own.
  `directory` checks `DeadReapedByLocal` instead: the local usbmuxd, first in the list, gets the
  event;
* `Delivered` in `Relay`: both buffers full and input on both sides (`Stalled`), neither is drained;
  an end of file that waits on both sides has the same effect, and the pair is never closed;
* the properties of `SocketFiles` without `Calm`: two usbfluxd that start together in front of
  usbmuxd both serve, the later one in front of the earlier, and usbmuxd is lost (`OneFront`,
  `MuxNeverLost`); when usbmuxd is restarted under a usbfluxd, the stale socket is renamed over its
  new one (`Restored`). Without a reachable usbmuxd, a usbfluxd with `-n` leaves no renamed socket; a
  second one takes its socket for usbmuxd's, renames it and serves;
* `RepliesSent` without its premise: a peer that always has more to say is never answered
  (`client.c:1062` looks at POLLOUT only without POLLIN);
* `NoDangling` without `second` or `failed`: the first of two requests keeps pointing at a client that
  is freed; a failed send is what `send_use` shows;
* `StopsOnSignal` with `Env = {"mdns", "early"}`: the signal comes before `simple_poll` is set, and
  shutdown joins a thread nobody told to end.

`ViewExact` is not among the properties of `threads`: an instance that goes between the copy of the
device list and its report leaves devices the client is never told are gone. `IdsReleased` and
`ConnHasListener` are not either, for the reasons just shown.

`TypeOK` of `UsbmuxRemote`, `SocketFiles`, `PollRound`, `Usbfluxctl` and `Locks` is proved (section 4)
and not listed as a property of a run. Those of `Relay` and `Framing`, which bound the buffers, are both.

What else the models show of the code:

* the window between the two links of a request (`usbmux_remote.c:323` and `:339`) is safe from the
  mDNS thread only because requests keep the id 0, which is what `one_mux` is about: with the id of
  their instance, `NoDangling` fails within eight steps;
* a removed instance stays in the list until it is reaped, so that adding it again at once is
  answered with "Remote is already present"; so is another port of the same host, since an instance
  added by hand has its host as service name. Running out of ids is reported as a wrong address;
* at the limit of open files a probe gets no socket and cuts a healthy instance off, and `accept`
  ends the daemon;
* a launcher that is killed before it was told takes the daemon with it (`notify_parent` fails);
* `main()` refuses to continue with exit status 0.

Bounds. `threads` has one client, which may have two requests under way at a time or listen after
one, two instances, and one id, so that the ids run out and the second instance takes the id of the
first as soon as it is free; three positions let a list hold a listener, a connection and a request
connection at once. More clients are in the proofs, which cover the same properties.
`directory` has two ids and one client: two instances at a time. Ids and list positions are handed
out in order, so more of them repeat these cases. Instances with their host names are
interchangeable (`Symmetry`); runs with liveness use no symmetry. Relay buffers of two and three
bytes, below what the ends send, make them full, partly drained and empty; two usbfluxd are enough
for one to come between any two steps of the other. `Framing`: a header of two bytes can be split,
the lengths are too short, a bare header, a header with a body that fills the buffer, and too long;
two packets at a time show what a first does to a second, and may repeat for ever (`MaxReply` bounds
the count of replies that wait). `PollRound`: two clients, two remotes and three
numbers, so that numbers run out and are reused in the round they were closed in; one probe, whose
close may fall anywhere. `Locks`: one client, one device and one probe; the other clients and devices
would repeat the same locks. `Usbfluxctl`: two processes, an endpoint that is also announced by mDNS,
port numbers that agree in the bits that are kept and ones that do not, and one id, so that it runs
out.

Fairness. `main_loop` polls for ever and calls the handler of every fd reported in a round: a
handler that has begun ends (weak fairness), and a remote that waits for POLLOUT is processed
although other fds are reported too (strong fairness, `UsbmuxRemote!Fairness`; upstream sockets
accept data). In `Relay` and `Framing` each side's handler is called again and again while it has an
event (weak fairness). In `Locks` a thread goes on with what it has begun, name lookups and connects
end, if by their timeout, a mutex that is free again and again is got in the end, and a pending
signal is taken since every round calls `ppoll` (strong fairness); new rounds and mDNS callbacks are
not fair. In `Usbfluxctl` both programs run, usbfluxd until it waits for the leaked lock: none of its
steps is enabled then. Nothing is assumed of clients, programs, devices, peers
or whoever starts and ends the servers.

Deadlock is not checked in `threads` and `poll_round`, which end at a use of freed memory, in
`relay` and `framing`, which end when all bytes are moved or the connection is closed, and in
`locks`, which ends with the daemon.

## 4. Proofs

Every theorem is about all values of the constants that meet the named assumption of its module
(`ConstAssumption`, `SocketAssumption`, `FramingAssumption`, `RelayAssumption`, `PollAssumption`,
`CtlAssumption`, `LockAssumption`): any number of clients, list positions, ids, bytes, packets, file
numbers, processes, threads. Where a theorem needs more than that it says so as an `ASSUME` of its own, and section 3
shows what happens without.

| Module | Theorem | States | Under |
|---|---|---|---|
| `UsbmuxRemoteProofs` | `TypeCorrect` | `[]TypeOK` | any `Env` |
| | `IdsUnique`, `DevicesRouted`, `LinksMutual`, `StatesFit`, `ViewsComplete` | `[]ListenerIds`, `[]DeviceHasListener`, `[]LinksAgree`, `[]StatesAgree`, `[]ViewComplete` | any `Env` |
| `UsbmuxDirectoryProofs` | `IdsComeBack` | `[]IdsReleased` | no `sendfail` |
| | `ConnectionsHaveListener` | `[]ConnHasListener` | no `probe`, `sendfail`, `mdns` |
| | `OneDies` | `OneMuxDies` | no `probe`, `sendfail`, `eof0`, `mdns` |
| | `ViewsExact` | `[]ViewExact` | no `mdns` |
| | `RegistryIsADirectory` | `ImplementsDirectory` | no `mdns`, `probe` |
| `SocketFilesProofs` | `SocketTypes` | `[]TypeOK` | |
| | `MuxIsNeverLost`, `MuxIsBehind`, `OneServes`, `NameGivenBack`, `ToldWhenReady` | `MuxNeverLost`, `[]MuxBehind`, `[]OneFront`, `Restored`, `ReadyWhenTold` | |
| `FramingProofs` | `FramingTypes`, `ReadingKeepsStep`, `PacketsInOrder` | `[]TypeOK`, `[]InStep`, `[]InOrder` | |
| `RelayProofs` | `RelayTypes`, `BytesStayIntact`, `NoWakeupIsLost`, `RelayIsAPipe` | `[]TypeOK`, `[]StreamsIntact`, `[]NoLostWakeup`, `ImplementsPipe` | |
| `PollRoundProofs` | `PollTypes`, `FdsAreOwned`, `StaleEventsOnlyToNew`, `OnlyKnownDangle` | `[]TypeOK`, `[]OwnFd`, `[]StaleOnlyToNew`, `[]NoDangling` | |
| `UsbfluxctlProofs` | `CtlTypes`, `RemovedIsNotListed`, `MessagesAreTrue` | `[]TypeOK`, `[]DeletedNotListed`, `MessageTrue` | |
| `LocksProofs` | `LocksTypeCorrect`, `RegistryOutlivesUsersAlways`, `LateLocksForDevicesAlways`, `NoCircularWaitAlways` | `[]TypeOK`, `[]RegistryOutlivesUsers`, `[]LateLocksForDevices`, `[]NoCircularWait` | any `Env` |
| | `LeaksOnlyUnknownAlways`, `OwnMutexesAlways` | `[]LeaksOnlyUnknown`, `[]OwnMutexes` | any `Env` |

Each module has an inductive invariant, one lemma or step per action that it is kept, and the
theorems as consequences.

### The registry, whatever goes wrong

`TypeCorrect` needs that `get_new_remote_id` returns a free id (`NewIdIsFree`, from the well-ordering
of the naturals). `IInv` is `TypeOK`, the parts of `RegistryInv`, `ViewComplete`, `SnapFresh` and
`HeldFit`. The properties are not inductive alone:

* `BlanksAlone` (an empty position has no client): what is about a remote in the list would else
  say nothing about the links of clients;
* `ListenersAlone` (a listener has no client; only a listener waits for an answer to Listen or is in
  state LISTEN; one whose Listen is still in `ob_buf` has no devices): otherwise closing a client
  could take a listener along, a failed send could close one that has devices, and both would leave
  devices without a listener;
* `OneRemote`, `HasRemote` and `ConnectsPending` (a client with one request has one remote; a client
  some remote points at has a remote; an unanswered Connect is its client's last request): a client
  may send further requests, so several remotes may point at it and it at one of them only, and a
  Connect's answer must still find the client that waits for it;
* `HeldFit` (between the two halves of the handler of an answer the remote is as the first half left
  it, or dead): the mDNS thread may mark it dead there, and the second half overwrites that;
* `SnapFresh` (between copy and report, `devices` is contained in the copy): nothing is added while
  the main thread is in `start_listen`, since only the main thread adds devices. This is why
  `ViewComplete` survives the mDNS thread and `ViewExact` does not.

The steps that dispose of or close a set of remotes are treated once, as lemmas about
`usbmux_remote_dispose`, `remote_mark_dead` and `client_close`; each action then cites the lemma
that fits.

### The registry, unless something goes wrong

What each failure costs is part of the invariant `OwnIds`, which holds under every `Env` and says
more the less may happen. `ListenersFit` needs nothing: listeners lead to different usbmuxds and only
the local one has id 0. Without failed sends ids are given back. Without the probe and the mDNS
thread (`Lasting`) `DeadTogether` and `IdsHeld` hold: a dead connection's listener is dead and the other way round, and no id is given
back that somebody carries. This is what keeps the next instance from inheriting connections of the
one before, and without both of them `ConnHasListener` is not inductive. For id 0 `DeadTogether`
holds in one direction only: a Connect to the local usbmuxd does not look for its listener.

Every step changes the list in one of seven ways (`Keeps`, `Marks`, `Clears`, `Disposes`, `Frees`,
`Adds`, `Connects`): that each action is one of them, and that each of them keeps `OwnIds`, are
separate lemmas. `DieById` is read off the same ways.

`Views` adds to `ViewExact` that clients that do not listen were told nothing, and that
`start_listen`'s copy is the device list while the main thread is in it. Every other step only takes
listening clients along with the device list (`Follows`).

`RegistryIsADirectory`: a usbmuxd is a member while it has a listener, its devices are the listed
ones with that listener's id. AddInstance is a Join, `remote_device_add` and `remote_device_remove`
are Attach and Detach, `start_listen_notify` is a Subscribe, and every other step a Leave, of
nobody if need be (`Shrinks`). The argument of the last is that disposing of dead remotes takes no
device from a listener that stays, which is `DeadTogether`. With the probe this fails:
`usbmux_remote_process_nval` of a connection drops the devices of the listener with its id
(`usbmux_remote.c:973-990`), which goes on listening. Failed sends and the end of connections with
id 0 are not excluded.

### Startup

The theorems are about every behaviour; what `main()` does not guard against is excepted within the
properties (`Calm`, section 2). `TakeOver` has what holds always (`FilesOfLiving`: a live socket file
belongs to a process that bound it; `MuxAtOneName`), that one usbfluxd at most is starting unless
`upset`, and while `Calm` what `main()` has found out and done at each program counter (`Found`): in
particular that between its check of the socket and its rename the socket is still usbmuxd's, and
that a process that counts on the renamed socket (`Owns`) is the only one. `Calm` begins again only
when no usbfluxd is there, where `Found` says nothing.

### Framing, relay

`Reading` describes `ib_buf` against the layout of the peer's packets (`Layout`): it is empty at the
end of the last packet handled, holds a part of the next one, or all of a failed command's or of a
Listen that was kept. The
properties alone do not say at which packet the reader is.

`Carried` says that what a receiver has, what the buffer holds and what waits in the socket make up
what was sent, which every partial send and receive keeps (`ReadKeeps`, `WriteKeeps`). The two state
fields are tied together (`Coupled`), and nothing of the program moves before the result packet is out
(`Handshake`). `RelayIsAPipe` maps every step to one of `DuplexPipe` or to none.

### Main loop

`Kept` has the numbers of connections (`Numbered`, `OwnFd`), the entries of the round (`EntriesFit`:
an entry is about the connection with its number, unless that is new or was robbed of it), and the
links between clients and remotes with their exceptions: a client with a second request, a remote
to which a send failed, and the remote between its two links, which is alive and has id 0, so that the mDNS thread does not take it
(`HalfSafe`).

### usbfluxctl

`Honest`: an answer means what was so when the request was handled (`Told`), nothing is known before
(`Unanswered`), endpoints are unique in the registry, so that one removal is enough
(`OnePerEndpoint`), and what was removed stays so until it is added or announced again
(`StillGone`).

### Locks

What a thread holds is read off what it still has to do: a mutex is in `Held(s)` when the next thing
`s` does with it is to unlock it. `Owners` says that this is what `owner` says, but for
`gethostbyname_mutex` after an unknown host. The properties are not inductive without it, nor without

* `Disciplined`, an invariant about whole sequences: each operation `Fits` what follows it. A lock is
  followed by its unlock and taken only under `remote_list_mutex` (`remote_list_mutex` itself under
  none), whoever closes, joins or polls holds nothing, a client is linked at most once. Handlers are
  built from the end with the lemmas `Put...`, one for each kind of operation; an operation that
  expands (`client_close`, `usbmux_remote_dispose`) leaves held and linked what was;
* the operations each kind of thread has at all (`ProbeOp`, `MdnsOp`, `WorkOp`): that no probe locks
  `remote_list_mutex` is one of the two reasons why destroying it is safe;
* `Stage`: the main thread is in a handler and nothing is destroyed (`Working`), or is at one of the
  points of its shutdown (`ClientStages`, `DestroyC`, `LateStages`), and no client is left when
  `client_list_mutex` goes, nothing of the mDNS thread is left after the join, nothing uses
  `remote_list_mutex` once it is gone. The join is the other reason;
* `LinksFree`: the client to be linked is connected and has no remote, so that `linked` stays within
  `open` and all remotes with clients are closed together with them.

`NoCircularWait` follows: whoever waits for a mutex and is waited for because of one holds
`remote_list_mutex` and waits for one of the other two, whose owner holds it and so waits for
nothing; and the main thread holds nothing when it joins. `LeaksOnlyUnknown` says that the exception
`Leaked` is the early return of `socket_connect_timeout` and nothing else, `OwnMutexes` that mutexes
are locked and unlocked as POSIX asks: by their owner, and not twice. The invariant was checked by
TLC on the instance of `locks`, and with two clients, before it was proved.

### Model-checked only

Liveness, which is outside what the prover handles: `DeadReapedByLocal`, `DeliveredUnlessStalled`,
`HangupReachesClient`, `LauncherAnswered`, `HandlersReturn`, `Stops`, `Handled`, `EofNoticed`,
`RepliesSent`, `CtlEnds`. Every invariant and every other action property of a passing run, and both
refinements, are proved.

## 5. Not modelled

Growth of the lists and of reply buffers, and failing allocations; logging; the macOS GUI, which is
a client, and the HTTP library it uses; the event loops inside avahi and CFNetwork, whose callbacks
are the actions of the mDNS thread; libplist, which is not part of the repository. The string and
file helpers of `utils.c` are not used by the daemon's state. `PROJECT.json` lists the parts with
reasons, and the hazards they hold.

## 6. Plan

Done: all modules of section 2, the theorems of section 4. What remains for TLC is what the prover
cannot express (liveness under fairness). Left out, and worth a module if the code grows there:
the growth of collections and buffers, and what happens when an allocation fails.
