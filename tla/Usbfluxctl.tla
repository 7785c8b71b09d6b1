----------------------------- MODULE Usbfluxctl -----------------------------
(***************************************************************************)
(* usbfluxctl (tools/usbfluxctl.c) and what usbfluxd does for it           *)
(* (usbfluxd/client.c, usbfluxd/usbmux_remote.c).                          *)
(*                                                                         *)
(* usbfluxctl connects to the usbmuxd socket, sends AddInstance,           *)
(* RemoveInstance or Instances, receives one reply, prints what its result *)
(* means and ends.  Behind the socket is usbfluxd, or usbmuxd itself if    *)
(* usbfluxd does not run; that may change in the middle, and connecting    *)
(* may fail.  The mDNS thread adds and removes instances too.              *)
(*                                                                         *)
(* A host that is not found leaves gethostbyname_mutex locked; the next    *)
(* one to look up a host waits for it for ever, with remote_list_mutex     *)
(* held, and with it all of usbfluxd.                                      *)
(***************************************************************************)
EXTENDS Integers, FiniteSets

CONSTANTS
    Ctl,        \* usbfluxctl processes
    Host,       \* addresses
    Port,       \* the port numbers people type
    PortMod,    \* 2^16: what usbfluxd keeps of a port number
    Service,    \* names of mDNS services
    Announced,  \* Announced[s]: the host and port such a service is resolved to
    MaxId,      \* 255: the ids for instances
    Watched,    \* an endpoint, for the history variable gone
    None

ASSUME CtlAssumption ==
    /\ Port \subseteq Nat /\ PortMod \in Nat \ {0} /\ MaxId \in Nat
    /\ Watched \in Host \X (0..(PortMod - 1))
    /\ Announced \in [Service -> Host \X (0..(PortMod - 1))]
    /\ Host \cap Service = {} /\ None \notin Ctl \cup Host \cup Service

Endpoint == Host \X (0..(PortMod - 1))
Instance == [service : Host \cup Service, at : Endpoint,
             state : {"COMMAND", "LISTEN", "DEAD"}]

(* A "long" request is an "add" or "del" that req_xml has no room for.     *)
Request  == [cmd : {"add", "del"}, host : Host, port : Port]
            \cup [cmd : {"list", "long"}, host : {None}, port : {0}]

(* enum usbmuxd_result                                                     *)
RESULT_OK          == 0
RESULT_BADCOMMAND  == 1
RESULT_BADDEV      == 2
RESULT_CONNREFUSED == 3
Result == 0..3

VARIABLES
    server,     \* who listens on the socket
    inst,       \* usbfluxd: its listeners, without the local one
    lookup,     \* gethostbyname_mutex: "free", "leaked", "awaited" (leaked, and
                \* usbfluxd waits for it)
    pc,         \* usbfluxctl: "done", "connect", "sent", "ignored", "answered"
    req,        \* its request
    number,     \* the result in the reply
    shown,      \* the instances in the reply
    sent,       \* how much of the reply is sent: 0, 1 a part, 2 all
    cut,        \* connections whose other end is closed
    \* History
    facts,      \* what was so when the request was handled
    gone        \* None: a finished "del" removed Watched, and nobody added it
                \* again; p: that was so when p was started, and still is

reply == <<number, shown, sent>>
history == <<facts, gone>>
vars == <<server, inst, lookup, pc, req, reply, cut, history>>

Idle == [cmd |-> "list", host |-> None, port |-> 0]

-----------------------------------------------------------------------------
Init ==
    /\ server \in {"usbfluxd", "usbmuxd"}
    /\ inst = {} /\ lookup = "free"
    /\ pc = [p \in Ctl |-> "done"]
    /\ req = [p \in Ctl |-> Idle]
    /\ number = [p \in Ctl |-> 0] /\ shown = [p \in Ctl |-> {}] /\ sent = [p \in Ctl |-> 0]
    /\ cut = {}
    /\ facts = [p \in Ctl |-> {}]
    /\ gone = {}

(* The endpoint of a request, in the 16 bits of client_command.            *)
Asked(p) == <<req[p].host, req[p].port % PortMod>>

Alive(I, e) == \E i \in I : i.at = e /\ i.state # "DEAD"

(* An instance with this service name, or at this host and port.           *)
Duplicate(s, e) == \E i \in inst : i.service = s \/ i.at = e

(* main_loop and the mDNS thread of usbfluxd do not wait for ever.         *)
Running == server = "usbfluxd" /\ lookup # "awaited"

(* remote_mux_service_add returns: a duplicate, or else an unknown host,   *)
(* an address that refuses or for which no id is left, or a new instance.  *)
remote_mux_service_add(s, e, res) ==
    \/ res = -2 /\ Duplicate(s, e) /\ UNCHANGED <<inst, lookup, gone>>
    \/ /\ res = -1 /\ ~ Duplicate(s, e) /\ lookup = "free"
       /\ lookup' \in {"free", "leaked"}
       /\ UNCHANGED <<inst, gone>>
    \/ /\ res = 0 /\ ~ Duplicate(s, e) /\ lookup = "free" /\ Cardinality(inst) < MaxId
       /\ inst' = inst \cup {[service |-> s, at |-> e, state |-> "COMMAND"]}
       /\ gone' = IF e = Watched THEN {} ELSE gone
       /\ UNCHANGED lookup

(* ... or it does not return.                                              *)
remote_mux_service_add_waits(s, e) ==
    /\ ~ Duplicate(s, e) /\ lookup = "leaked"
    /\ lookup' = "awaited"
    /\ UNCHANGED <<inst, gone>>

(* remote_mark_dead: it stays in the list until it is reaped, or all go at *)
(* once because none is left alive.                                        *)
remote_mark_dead(i) ==
    LET dead == (inst \ {i}) \cup {[i EXCEPT !.state = "DEAD"]} IN
    \/ inst' = dead
    \/ (\A j \in dead : j.state = "DEAD") /\ inst' = {}

(* remote_mux_service_remove, for those that match.                        *)
remote_mux_service_remove(M, res) ==
    \/ res = 0 /\ \E i \in M : remote_mark_dead(i)
    \/ res = -1 /\ M = {} /\ UNCHANGED inst

(* Mutant: dead instances are listed.                                      *)
usbmux_remote_copy_instances_Dead == {i.at : i \in inst}

(* usbmux_remote_copy_instances                                            *)
usbmux_remote_copy_instances == {i.at : i \in {j \in inst : j.state = "LISTEN"}}

-----------------------------------------------------------------------------
(* usbfluxctl                                                              *)

(* main, handle_add, handle_del, handle_list.                              *)
start(p, r) ==
    /\ pc[p] = "done"
    /\ pc' = [pc EXCEPT ![p] = "connect"]
    /\ req' = [req EXCEPT ![p] = r]
    /\ gone' = gone \cup {q \in {p} : r.cmd = "list" /\ None \in gone}
    /\ UNCHANGED <<server, inst, lookup, reply, cut, facts>>

(* A "del" has its answer: it removed Watched, and nobody added it again.  *)
Removed(p) ==
    /\ "removed" \in facts[p] /\ sent[p] = 2 /\ number[p] = RESULT_OK
    /\ Asked(p) = Watched /\ ~ Alive(inst, Watched)

(* The process ends, and all it had.                                       *)
Ends(p) ==
    /\ pc' = [pc EXCEPT ![p] = "done"]
    /\ req' = [req EXCEPT ![p] = Idle]
    /\ number' = [number EXCEPT ![p] = 0]
    /\ shown' = [shown EXCEPT ![p] = {}]
    /\ sent' = [sent EXCEPT ![p] = 0]
    /\ cut' = cut \ {p}
    /\ facts' = [facts EXCEPT ![p] = {}]
    /\ gone' = (gone \ {p}) \cup {q \in {None} : Removed(p)}

(* usbfluxd_query: connect and send the request; either may fail.          *)
usbfluxd_query_send(p) ==
    /\ pc[p] = "connect"
    /\ \/ Ends(p)
       \/ pc' = [pc EXCEPT ![p] = "sent"] /\ UNCHANGED <<req, reply, cut, history>>
    /\ UNCHANGED <<server, inst, lookup>>

(* ... receive nothing but the end of the connection: no header.           *)
usbfluxd_query_eof(p) ==
    /\ pc[p] \in {"sent", "ignored", "answered"} /\ sent[p] = 0 /\ p \in cut
    /\ Ends(p)
    /\ UNCHANGED <<server, inst, lookup>>

(* ... receive a part of the header, if no more of the reply was sent: it  *)
(* gets one recv().                                                        *)
usbfluxd_query_short(p) ==
    /\ pc[p] = "answered" /\ sent[p] = 1
    /\ Ends(p)
    /\ UNCHANGED <<server, inst, lookup>>

(* ... receive header and payload.  The loop over the payload ends with    *)
(* all of it, or an error of recv(), which the end of the connection is    *)
(* not.                                                                    *)
usbfluxd_query_payload(p) ==
    /\ pc[p] = "answered" /\ sent[p] = 2
    /\ Ends(p)
    /\ UNCHANGED <<server, inst, lookup>>

(* What handle_add and handle_del print for a result.                      *)
Printed(p) ==
    CASE number[p] = 0 -> "SUCCESS"
      [] number[p] = 1 -> "Make sure that usbfluxd is running."
      [] number[p] = 2 /\ req[p].cmd = "add" -> "Remote is already present."
      [] OTHER -> "Make sure the remote address and/or port is correct."

-----------------------------------------------------------------------------
(* usbfluxd                                                                *)

(* send_result, or a list.                                                 *)
Replies(p, n, I) ==
    /\ number' = [number EXCEPT ![p] = n]
    /\ shown' = [shown EXCEPT ![p] = I]
    /\ pc' = [pc EXCEPT ![p] = "answered"]
    /\ UNCHANGED sent

Commands(p, cmd) ==
    /\ Running /\ pc[p] = "sent" /\ p \notin cut
    /\ req[p].cmd = cmd

(* What was so: usbfluxd itself handled it, the endpoint was in the list,  *)
(* or only its host; the endpoint is new, and it is not up afterwards.     *)
Facts(p) ==
    facts' = [facts EXCEPT ![p] =
        {"usbfluxd"}
        \cup {x \in {"listed"}  : \E i \in inst : i.at = Asked(p)}
        \cup {x \in {"host"}    : \E i \in inst : i.service = req[p].host}
        \cup {x \in {"added"}   : Alive(inst', Asked(p)) /\ ~ Alive(inst, Asked(p))}
        \cup {x \in {"removed"} : req[p].cmd = "del" /\ ~ Alive(inst', Asked(p))}]

(* Mutant: all failures are the same.                                      *)
AddInstance_OneCode(p) ==
    /\ Commands(p, "add")
    /\ \E res \in {0, -1, -2} :
        /\ remote_mux_service_add(req[p].host, Asked(p), res)
        /\ Replies(p, IF res = 0 THEN RESULT_OK ELSE RESULT_BADDEV, {})
    /\ Facts(p)
    /\ UNCHANGED <<server, req, cut>>

(* client_command: AddInstance.                                            *)
AddInstance(p) ==
    /\ Commands(p, "add")
    /\ \E res \in {0, -1, -2} :
        /\ remote_mux_service_add(req[p].host, Asked(p), res)
        /\ Replies(p, IF res = 0 THEN RESULT_OK
                      ELSE IF res = -2 THEN RESULT_BADDEV ELSE RESULT_CONNREFUSED, {})
    /\ Facts(p)
    /\ UNCHANGED <<server, req, cut>>

(* ... waits for the lock that a lookup before it has left.                *)
AddInstance_waits(p) ==
    /\ Commands(p, "add")
    /\ remote_mux_service_add_waits(req[p].host, Asked(p))
    /\ UNCHANGED <<server, pc, req, reply, cut, facts>>

(* client_command: RemoveInstance.                                         *)
RemoveInstance(p) ==
    /\ Commands(p, "del")
    /\ \E res \in {0, -1} :
        /\ remote_mux_service_remove({i \in inst : i.at = Asked(p)}, res)
        /\ Replies(p, IF res = 0 THEN RESULT_OK ELSE RESULT_BADDEV, {})
    /\ Facts(p)
    /\ UNCHANGED <<server, lookup, req, cut, gone>>

(* client_command: Instances, send_instances.                              *)
Instances(p) ==
    /\ Commands(p, "list")
    /\ Replies(p, 0, usbmux_remote_copy_instances)
    /\ UNCHANGED <<server, inst, lookup, req, cut, history>>

(* client_command: what was cut off does not parse, and gets no reply (of  *)
(* usbmuxd, which is external, neither).                                   *)
client_command_ignores(p) ==
    /\ lookup # "awaited" /\ pc[p] = "sent" /\ p \notin cut /\ req[p].cmd = "long"
    /\ pc' = [pc EXCEPT ![p] = "ignored"]
    /\ UNCHANGED <<server, inst, lookup, req, reply, cut, history>>

(* usbmuxd, external: it knows none of the commands.                       *)
usbmuxd_command(p) ==
    /\ server = "usbmuxd" /\ pc[p] = "sent" /\ p \notin cut /\ req[p].cmd # "long"
    /\ Replies(p, RESULT_BADCOMMAND, {})
    /\ UNCHANGED <<server, inst, lookup, req, cut, history>>

(* Mutant: the rest of a partly sent reply is dropped.                     *)
process_send_Drop(p) ==
    /\ pc[p] = "answered" /\ p \notin cut /\ sent[p] = 0 /\ lookup # "awaited"
    /\ sent' = [sent EXCEPT ![p] = 1]
    /\ UNCHANGED <<server, inst, lookup, pc, req, number, shown, cut, history>>

(* process_send: what the socket takes.                                    *)
process_send(p) ==
    /\ pc[p] = "answered" /\ p \notin cut /\ lookup # "awaited"
    /\ \E n \in (sent[p] + 1)..2 : sent' = [sent EXCEPT ![p] = n]
    /\ UNCHANGED <<server, inst, lookup, pc, req, number, shown, cut, history>>

(* service_resolve_cb and service_browse_cb, in the mDNS thread.           *)
service_resolve(s) ==
    /\ Running
    /\ \/ \E res \in {0, -1} : remote_mux_service_add(s, Announced[s], res)
       \/ remote_mux_service_add_waits(s, Announced[s])
    /\ UNCHANGED <<server, pc, req, reply, cut, facts>>

service_browse_remove(s) ==
    /\ Running
    /\ remote_mux_service_remove({i \in inst : i.service = s}, 0)
    /\ UNCHANGED <<server, lookup, pc, req, reply, cut, history>>

(* The connections that other clients ask for look a host up too.          *)
usbmux_remote_connect ==
    /\ Running
    /\ \/ lookup = "free" /\ lookup' = "leaked"
       \/ lookup = "leaked" /\ lookup' = "awaited"
    /\ UNCHANGED <<server, inst, pc, req, reply, cut, history>>

(* The answer to Listen; the end of the connection; reaping.               *)
remote_listen_result(i) ==
    /\ Running /\ i.state = "COMMAND"
    /\ inst' = (inst \ {i}) \cup {[i EXCEPT !.state = "LISTEN"]}
    /\ UNCHANGED <<server, lookup, pc, req, reply, cut, history>>

remote_recv_eof(i) ==
    /\ Running /\ i.state # "DEAD"
    /\ remote_mark_dead(i)
    /\ UNCHANGED <<server, lookup, pc, req, reply, cut, history>>

usbmux_remote_process ==
    /\ Running /\ \E i \in inst : i.state = "DEAD"
    /\ inst' = {i \in inst : i.state # "DEAD"}
    /\ UNCHANGED <<server, lookup, pc, req, reply, cut, history>>

(* The server ends or another takes the socket: connections are closed.    *)
server_changes ==
    /\ server' = IF server = "usbfluxd" THEN "usbmuxd" ELSE "usbfluxd"
    /\ inst' = {} /\ lookup' = "free"
    /\ cut' = cut \cup {p \in Ctl : pc[p] \notin {"done", "connect"}}
    /\ UNCHANGED <<pc, req, reply, history>>

-----------------------------------------------------------------------------
CtlStep(p) ==
    usbfluxd_query_send(p) \/ usbfluxd_query_eof(p) \/ usbfluxd_query_payload(p)

ServerStep(p) ==
    \/ AddInstance(p) \/ AddInstance_waits(p) \/ RemoveInstance(p) \/ Instances(p)
    \/ client_command_ignores(p) \/ usbmuxd_command(p) \/ process_send(p)

Next ==
    \/ \E p \in Ctl : (\E r \in Request : start(p, r)) \/ CtlStep(p)
                   \/ usbfluxd_query_short(p) \/ ServerStep(p)
    \/ \E s \in Service : service_resolve(s) \/ service_browse_remove(s)
    \/ \E i \in inst : remote_listen_result(i) \/ remote_recv_eof(i)
    \/ usbmux_remote_connect \/ usbmux_remote_process
    \/ server_changes

Spec == Init /\ [][Next]_vars

(* Both programs run: usbfluxctl is alone in its process, and main_loop    *)
(* gets to every client that waits, until it waits itself for a lock that  *)
(* nobody gives back: no step of usbfluxd is enabled then.  A short header *)
(* depends on how much of the reply one send() took, and is not fair.      *)
FairSpec == Spec /\ \A p \in Ctl : WF_vars(CtlStep(p)) /\ WF_vars(ServerStep(p))

-----------------------------------------------------------------------------
(***************************************************************************)
(* Properties.                                                             *)
(***************************************************************************)

(* Every variable stays in its type: results are ones usbfluxctl has a     *)
(* message for.                                                            *)
TypeOK ==
    /\ server \in {"usbfluxd", "usbmuxd"}
    /\ inst \subseteq Instance /\ Cardinality(inst) <= MaxId
    /\ lookup \in {"free", "leaked", "awaited"}
    /\ pc \in [Ctl -> {"done", "connect", "sent", "ignored", "answered"}]
    /\ req \in [Ctl -> Request]
    /\ number \in [Ctl -> Result] /\ shown \in [Ctl -> SUBSET Endpoint] /\ sent \in [Ctl -> 0..2]
    /\ cut \subseteq Ctl
    /\ facts \in [Ctl -> SUBSET {"usbfluxd", "listed", "host", "added", "removed"}]
    /\ gone \subseteq Ctl \cup {None}

(* What usbfluxctl prints was so when usbfluxd handled its request:        *)
(* SUCCESS of "add" means that this call added the endpoint, of "del" that *)
(* it is not up any more; "Remote is already present" that the endpoint is *)
(* listed or another one of its host is; the address is called wrong by    *)
(* "del" if it is not listed, by "add" if it is not listed either; and     *)
(* usbfluxd is said not to run only if another program answered.           *)
MessageTrue ==
    [][\A p \in Ctl : usbfluxd_query_payload(p) /\ req[p].cmd # "list" =>
        CASE Printed(p) = "SUCCESS" ->
                (IF req[p].cmd = "add" THEN "added" ELSE "removed") \in facts[p]
          [] Printed(p) = "Make sure that usbfluxd is running." -> facts[p] = {}
          [] Printed(p) = "Remote is already present." -> facts[p] \cap {"listed", "host"} # {}
          [] OTHER -> "usbfluxd" \in facts[p] /\ "listed" \notin facts[p]]_vars

(* An instance that a finished "del" removed is not in a "list" started    *)
(* afterwards, unless it was added again.                                  *)
DeletedNotListed == \A p \in Ctl \cap gone : Watched \notin shown[p]

(* usbfluxctl ends, unless the server goes when the header but not all of  *)
(* its reply has been received, its request was too long for req_xml, or   *)
(* usbfluxd hangs: a host was not found, and another was looked up after   *)
(* that.                                                                   *)
CtlEnds ==
    \A p \in Ctl : pc[p] = "connect" ~>
        \/ pc[p] = "done" \/ (p \in cut /\ sent[p] = 1)
        \/ pc[p] = "ignored" \/ lookup = "awaited"
=============================================================================
