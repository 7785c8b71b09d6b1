------------------------- MODULE UsbmuxRemoteProofs -------------------------
(***************************************************************************)
(* Safety of UsbmuxRemote for any number of connections, ids, endpoints,   *)
(* clients and devices, with both threads and every failure of the model:  *)
(* variables keep their types, ids are unique, devices have a listener,    *)
(* clients and remotes point at each other, and who listens knows every    *)
(* device.                                                                 *)
(***************************************************************************)
EXTENDS UsbmuxRemote, WellFoundedInduction, TLAPS

-----------------------------------------------------------------------------
(* What the helpers return.                                                *)

(* A set of naturals that is not empty has a smallest element.             *)
LEMMA Smallest ==
    ASSUME NEW S \in SUBSET Nat, S # {}
    PROVE  \E i \in S : \A j \in S : i <= j
<1>. DEFINE R == OpToRel(<, Nat)
<1>1. PICK i \in S : \A j \in S : ~ (<<j, i>> \in R)
    BY WFMin, NatLessThanWellFounded
<1>2. \A j \in S : j < i => <<j, i>> \in R
    BY DEF OpToRel
<1>. HIDE DEF R
<1>3. \A j \in S : ~ (j < i)
    BY <1>1, <1>2
<1>. QED
    BY <1>3

(* get_new_remote_id returns an id whose bit is clear, if there is one.    *)
LEMMA NewIdIsFree ==
    ASSUME FreeIds # {}
    PROVE  get_new_remote_id \in FreeIds
<1>1. FreeIds \subseteq Nat
    BY ConstAssumption DEF FreeIds
<1>. QED
    BY <1>1, Smallest DEF get_new_remote_id

(* The first of a set of positions is one of them.                         *)
LEMMA FirstIsMember ==
    ASSUME NEW S \in SUBSET Slot, S # {}
    PROVE  First(S) \in S
<1>1. S \subseteq Nat
    BY ConstAssumption DEF Slot
<1>. QED
    BY <1>1, Smallest DEF First

(* Empty positions and clients are well typed.                             *)
LEMMA BlankType ==
    /\ Blank \in RemoteMux
    /\ BlankClient \in MuxClient
    /\ \A w \in Where : NewRemote(w) \in RemoteMux
<1>1. 0 \in Id
    BY ConstAssumption DEF Id
<1>2. Blank \in RemoteMux
    BY <1>1 DEF Blank, RemoteMux, RemoteState, Where
<1>3. BlankClient \in MuxClient
    BY DEF BlankClient, MuxClient, ClientState
<1>4. ASSUME NEW w \in Where
      PROVE  NewRemote(w) \in RemoteMux
    BY <1>2 DEF NewRemote, RemoteMux, RemoteState
<1>. QED
    BY <1>2, <1>3, <1>4

(* ... and so are the records of the connections that requests make.       *)
LEMMA MadeType ==
    ASSUME NEW b \in RemoteMux, NEW i \in Id, NEW c \in Client
    PROVE  /\ [b EXCEPT !.id = i, !.state = "CONNECTING1", !.client = c, !.cmd = "CONNECT"]
                  \in RemoteMux
           /\ [b EXCEPT !.client = c, !.cmd = "REQUEST"] \in RemoteMux
BY DEF RemoteMux, RemoteState

(* The updates of a remote keep it a remote.                               *)
LEMMA UpdateType ==
    /\ \A r \in RemoteMux : /\ Queued(r) \in RemoteMux
                            /\ Sent(r) \in RemoteMux
                            /\ Answered(r) \in RemoteMux
                            /\ Listens(r) \in RemoteMux
                            /\ Connected(r) \in RemoteMux
    /\ \A w \in Where, i \in Id, n \in Name \cup {None} : NewListener(w, i, n) \in RemoteMux
<1>1. ASSUME NEW r \in RemoteMux
      PROVE  /\ Queued(r) \in RemoteMux
             /\ Sent(r) \in RemoteMux
             /\ Answered(r) \in RemoteMux
             /\ Listens(r) \in RemoteMux
             /\ Connected(r) \in RemoteMux
    BY DEF Queued, Sent, Answered, Listens, Connected, RemoteMux, RemoteState
<1>2. ASSUME NEW w \in Where, NEW i \in Id, NEW n \in Name \cup {None}
      PROVE  NewListener(w, i, n) \in RemoteMux
  <2>1. [NewRemote(w) EXCEPT !.id = i, !.name = n, !.listener = TRUE, !.cmd = "LISTEN"]
            \in RemoteMux
      BY BlankType DEF RemoteMux
  <2>. QED
      BY <2>1, <1>1 DEF NewListener
<1>. QED
    BY <1>1, <1>2

-----------------------------------------------------------------------------
(* Type correctness, building block by building block.                     *)

(* The part of TypeOK that the building blocks change.                     *)
ListsOK ==
    /\ remote \in [Slot -> RemoteMux]
    /\ idmap \subseteq Id
    /\ devices \subseteq DevId
    /\ client \in [Client -> MuxClient]

(* Pointers to freed clients are typed.                                    *)
LEMMA OrphanedType ==
    ASSUME NEW R \in [Slot -> RemoteMux], NEW K
    PROVE  Orphaned(R, K) \in [Slot -> RemoteMux]
BY DEF Orphaned, RemoteMux

(* ... and nothing else changes.                                           *)
LEMMA OrphanedSame ==
    ASSUME NEW R \in [Slot -> RemoteMux], NEW K, NEW t \in Slot
    PROVE  /\ Orphaned(R, K)[t].id = R[t].id
           /\ Orphaned(R, K)[t].where = R[t].where
           /\ Orphaned(R, K)[t].listener = R[t].listener
           /\ Orphaned(R, K)[t].state = R[t].state
<1>1. Orphaned(R, K)[t] = R[t] \/ Orphaned(R, K)[t] = [R[t] EXCEPT !.client = Gone]
    BY DEF Orphaned
<1>2. R[t] \in RemoteMux
    OBVIOUS
<1>. QED
    BY <1>1, <1>2 DEF RemoteMux

(* usbmux_remote_dispose keeps the lists well typed.                       *)
LEMMA DisposeType ==
    ASSUME ListsOK, NEW R \in [Slot -> RemoteMux], NEW S \in SUBSET Slot,
           usbmux_remote_dispose(R, S)
    PROVE  ListsOK'
<1>. DEFINE Q == Orphaned(R, {R[t].client : t \in S} \ {None})
<1>0. Q \in [Slot -> RemoteMux] /\ remote' = [s \in Slot |-> IF s \in S THEN Blank ELSE Q[s]]
    BY OrphanedType DEF usbmux_remote_dispose
<1>. HIDE DEF Q
<1>1. remote' \in [Slot -> RemoteMux]
    BY <1>0, BlankType
<1>2. idmap' \subseteq Id /\ devices' \subseteq DevId
    BY DEF usbmux_remote_dispose, ListsOK
<1>3. \A c \in Client : ClientsAfterDispose(R, S)[c] \in MuxClient
    BY BlankType
    DEF ClientsAfterDispose, client_device_remove, notify_device_remove, MuxClient,
        ListsOK
<1>4. client' \in [Client -> MuxClient]
    BY <1>3 DEF usbmux_remote_dispose, ClientsAfterDispose
<1>. QED
    BY <1>1, <1>2, <1>4 DEF ListsOK

(* Marking remotes dead keeps the list well typed.                         *)
LEMMA MarkedDeadType ==
    ASSUME ListsOK, NEW s \in Slot
    PROVE  MarkedDead(s) \in [Slot -> RemoteMux]
BY DEF ListsOK, MarkedDead, RemoteMux, RemoteState

(* remote_mark_dead keeps the lists well typed, the first live remote      *)
(* being one of them.                                                      *)
LEMMA MarkDeadType ==
    ASSUME ListsOK, NEW s \in Slot, remote_mark_dead(s)
    PROVE  ListsOK'
<1>. DEFINE R == MarkedDead(s)
<1>1. R \in [Slot -> RemoteMux]
    BY MarkedDeadType
<1>. HIDE DEF R
<1>2. CASE Alive(R) # {}
  <2>1. remote' = [R EXCEPT ![First(Alive(R))].out = TRUE]
        /\ UNCHANGED <<devices, idmap, client>>
      BY <1>2 DEF remote_mark_dead, R
  <2>2. remote' \in [Slot -> RemoteMux]
    <3>. DEFINE f == First(Alive(R))
    <3>. HIDE DEF f
    <3>1. remote' = [R EXCEPT ![f] = [R[f] EXCEPT !.out = TRUE]]
        BY <2>1 DEF f
    <3>2. f \in Slot => [R[f] EXCEPT !.out = TRUE] \in RemoteMux
        BY <1>1 DEF RemoteMux
    <3>. QED
        BY <3>1, <3>2, <1>1
  <2>. QED
      BY <2>1, <2>2 DEF ListsOK
<1>3. CASE Alive(R) = {}
  <2>1. usbmux_remote_dispose(R, InList(R))
      BY <1>3 DEF remote_mark_dead, R
  <2>. QED
      BY <1>1, <2>1, DisposeType DEF InList
<1>. QED
    BY <1>2, <1>3

(* client_close keeps the lists well typed.                                *)
LEMMA ClientCloseType ==
    ASSUME ListsOK, NEW c \in Client, client_close(c)
    PROVE  ListsOK'
<1>. DEFINE Q == Orphaned(remote, {c})
<1>1. Q \in [Slot -> RemoteMux]
    BY OrphanedType DEF ListsOK
<1>2. \/ remote' = [Q EXCEPT ![client[c].remote] = Blank]
      \/ remote' = Q
    BY DEF client_close, remote_close
<1>. HIDE DEF Q
<1>3. remote' \in [Slot -> RemoteMux]
    BY <1>1, <1>2, BlankType
<1>4. UNCHANGED <<devices, idmap>> /\ client' = [client EXCEPT ![c] = BlankClient]
    BY DEF client_close, remote_close
<1>. QED
    BY <1>3, <1>4, BlankType DEF ListsOK

(* usbmux_remote_close keeps the lists well typed.                         *)
LEMMA RemoteCloseType ==
    ASSUME ListsOK, NEW s \in Slot, usbmux_remote_close(s)
    PROVE  ListsOK'
<1>1. remote[s].client \in Client \cup {None, Gone}
    BY DEF ListsOK, RemoteMux
<1>2. CASE remote[s].client \in Client
    BY <1>2, ClientCloseType, ConstAssumption DEF usbmux_remote_close
<1>3. CASE remote[s].client = None
    BY <1>3, BlankType DEF usbmux_remote_close, remote_close, ListsOK
<1>4. CASE remote[s].client = Gone
    BY <1>4, ConstAssumption DEF usbmux_remote_close, ListsOK
<1>. QED
    BY <1>1, <1>2, <1>3, <1>4

(* remote_mux_service_add keeps the lists well typed: the id it takes is   *)
(* in range.                                                               *)
LEMMA ServiceAddType ==
    ASSUME ListsOK, NEW n \in Name, NEW e \in Endpoint, remote_mux_service_add(n, e)
    PROVE  ListsOK'
<1>1. get_new_remote_id \in Id
    BY NewIdIsFree, ConstAssumption DEF remote_mux_service_add, FreeIds, Id
<1>2. NewListener(e, get_new_remote_id, n) \in RemoteMux
    BY <1>1, UpdateType DEF Where
<1>4. remote' \in [Slot -> RemoteMux]
    BY <1>2 DEF remote_mux_service_add, ListsOK
<1>. QED
    BY <1>1, <1>4 DEF remote_mux_service_add, ListsOK

(* What the main thread holds between two steps.                           *)
HoldOK ==
    /\ pc \in PC
    /\ cur \in Slot \cup {0}
    /\ me \in Client \cup {None}
    /\ snap \subseteq DevId
    /\ pc \in {"in", "out", "listened", "connected"} => cur \in Slot
    /\ pc \in {"client", "listen"} => me \in Client

(* The type invariant is about the lists and about what the main thread    *)
(* holds.                                                                  *)
LEMMA TypeSplit == TypeOK <=> ListsOK /\ HoldOK
BY DEF TypeOK, ListsOK, HoldOK

(* Back in the poll loop the main thread holds nothing.                    *)
LEMMA ReturnHolds ==
    ASSUME Return
    PROVE  HoldOK'
BY DEF Return, HoldOK, PC

(* ... and after the use of freed memory, what it held.                    *)
LEMMA ReturnUnlessHolds ==
    ASSUME HoldOK, NEW freed, ReturnUnless(freed)
    PROVE  HoldOK'
<1>1. CASE Return
    BY <1>1, ReturnHolds
<1>2. CASE pc' = "freed" /\ UNCHANGED <<cur, me, snap>>
    BY <1>2 DEF HoldOK, PC
<1>. QED
    BY <1>1, <1>2 DEF ReturnUnless

(* A new request keeps the list well typed.                                *)
LEMMA RequestedType ==
    ASSUME ListsOK, NEW s \in Slot, NEW r \in RemoteMux, me \in Client
    PROVE  Requested(s, r) \in [Slot -> RemoteMux]
<1>. DEFINE f == Requested(s, r)
<1>1. ASSUME NEW t \in Slot
      PROVE  f[t] \in RemoteMux
  <2>1. [r EXCEPT !.shared = (client[me].remote # 0)] \in RemoteMux
      BY DEF RemoteMux
  <2>2. remote[t] \in RemoteMux
      BY DEF ListsOK
  <2>3. [remote[t] EXCEPT !.shared = TRUE] \in RemoteMux
      BY <2>2 DEF RemoteMux
  <2>. QED
      BY <2>1, <2>2, <2>3 DEF Requested
<1>. QED
    BY <1>1 DEF Requested

(* usbmux_remote_init leaves everything well typed.                        *)
LEMMA TypeInit == Init => TypeOK
<1>. SUFFICES ASSUME Init PROVE TypeOK
    OBVIOUS
<1>1. PICK local \in BOOLEAN :
        /\ remote = [s \in Slot |->
                        IF s = 1 /\ local
                        THEN NewListener(Unix, 0, None) ELSE Blank]
        /\ idmap = IF local THEN {0} ELSE {}
    BY DEF Init
<1>3. NewListener(Unix, 0, None) \in RemoteMux
    BY UpdateType, ConstAssumption DEF Where, Id
<1>4. remote \in [Slot -> RemoteMux]
    BY <1>1, <1>3, BlankType
<1>5. idmap \subseteq Id
    BY <1>1, ConstAssumption DEF Id
<1>6. client \in [Client -> MuxClient]
    BY BlankType DEF Init
<1>. QED
    BY <1>4, <1>5, <1>6 DEF Init, TypeOK, PC

(* The handlers of client.c keep everything well typed.                    *)
LEMMA TypeClient == TypeOK /\ ClientStep => TypeOK'
<1>. SUFFICES ASSUME TypeOK, ClientStep
              PROVE  ListsOK' /\ HoldOK'
    BY TypeSplit DEF TypeOK, ListsOK, HoldOK
<1>0. ListsOK /\ HoldOK
    BY TypeSplit
<1>1. ASSUME NEW c \in Client, client_accept(c)
      PROVE  ListsOK' /\ HoldOK'
    BY <1>0, <1>1 DEF client_accept, ListsOK, HoldOK, MuxClient, ClientState
<1>2. ASSUME NEW c \in Client, client_process(c)
      PROVE  ListsOK' /\ HoldOK'
    BY <1>0, <1>2 DEF client_process, ListsOK, HoldOK, PC
<1>3. CASE start_listen
    BY <1>0, <1>3
    DEF start_listen, usbmux_remote_copy_device_list, Commanding, ListsOK, HoldOK,
        MuxClient, ClientState, PC
<1>4. CASE start_listen_notify
  <2>1. ListsOK'
      BY <1>0, <1>4
      DEF start_listen_notify, notify_device_add, ListsOK, HoldOK, MuxClient
  <2>. QED
      BY <2>1, <1>4, ReturnHolds DEF start_listen_notify
<1>5. ASSUME NEW i \in Id, usbmux_remote_connect(i)
      PROVE  ListsOK' /\ HoldOK'
  <2>1. PICK w \in Where, s \in Slot :
        /\ remote' = Requested(s, Queued([NewRemote(w) EXCEPT
                !.id = i, !.state = "CONNECTING1", !.client = me, !.cmd = "CONNECT"]))
        /\ client' = [client EXCEPT ![me] = [@ EXCEPT !.state = "CONNECTING1", !.remote = s]]
      BY <1>5 DEF usbmux_remote_connect
  <2>0. me \in Client
      BY <1>0, <1>5 DEF usbmux_remote_connect, Commanding, HoldOK
  <2>2. NewRemote(w) \in RemoteMux
      BY BlankType
  <2>. DEFINE q == [NewRemote(w) EXCEPT !.id = i, !.state = "CONNECTING1",
                                        !.client = me, !.cmd = "CONNECT"]
  <2>3. q \in RemoteMux
      BY <2>2, <1>0 DEF RemoteMux, RemoteState, HoldOK
  <2>. HIDE DEF q
  <2>6. Queued(q) \in RemoteMux
      BY <2>3, UpdateType
  <2>4. remote' \in [Slot -> RemoteMux]
      BY <2>0, <2>1, <2>6, <1>0, RequestedType DEF q
  <2>5. client' \in [Client -> MuxClient]
      BY <2>1, <1>0 DEF ListsOK, MuxClient, ClientState
  <2>. QED
      BY <2>4, <2>5, <1>0, <1>5, ReturnHolds DEF usbmux_remote_connect, ListsOK
<1>6. ASSUME NEW i \in Id, usbmux_remote_read_buid(i) \/ usbmux_remote_pair_record(i)
      PROVE  ListsOK' /\ HoldOK'
  <2>1. PICK w \in Where, s \in Slot :
        /\ remote' = Requested(s, Queued([NewRemote(w) EXCEPT
                !.client = me, !.cmd = "REQUEST"]))
        /\ client' = [client EXCEPT ![me].remote = s]
      BY <1>6 DEF usbmux_remote_read_buid, usbmux_remote_pair_record, Request
  <2>0. me \in Client
      BY <1>0, <1>6 DEF usbmux_remote_read_buid, usbmux_remote_pair_record, Request,
                        Commanding, HoldOK
  <2>2. NewRemote(w) \in RemoteMux
      BY BlankType
  <2>. DEFINE q == [NewRemote(w) EXCEPT !.client = me, !.cmd = "REQUEST"]
  <2>3. q \in RemoteMux
      BY <2>2, <1>0 DEF RemoteMux, HoldOK
  <2>. HIDE DEF q
  <2>6. Queued(q) \in RemoteMux
      BY <2>3, UpdateType
  <2>4. remote' \in [Slot -> RemoteMux]
      BY <2>0, <2>1, <2>6, <1>0, RequestedType DEF q
  <2>5. client' \in [Client -> MuxClient]
      BY <2>1, <1>0 DEF ListsOK, MuxClient
  <2>. QED
      BY <2>4, <2>5, <1>0, <1>6, ReturnHolds
      DEF usbmux_remote_read_buid, usbmux_remote_pair_record, Request, ListsOK
<1>7. ASSUME NEW e \in Endpoint, AddInstance(e)
      PROVE  ListsOK' /\ HoldOK'
    BY <1>0, <1>7, ServiceAddType, ReturnHolds DEF AddInstance, Name
<1>8. ASSUME NEW e \in Endpoint, RemoveInstance(e)
      PROVE  ListsOK' /\ HoldOK'
    BY <1>0, <1>8, MarkDeadType, ReturnUnlessHolds DEF RemoveInstance
<1>9. CASE client_other
    BY <1>0, <1>9, ReturnHolds DEF client_other, ListsOK
<1>10. CASE client_disconnect
    BY <1>0, <1>10, ClientCloseType, ReturnHolds DEF client_disconnect, HoldOK
<1>11. CASE process_send
  <2>1. ListsOK'
      BY <1>0, <1>11 DEF process_send, ListsOK, MuxClient, ClientState
  <2>. QED
      BY <2>1, <1>11, ReturnHolds DEF process_send
<1>12. CASE client_relay
  <2>1. ListsOK'
      BY <1>0, <1>12, UpdateType DEF client_relay, ListsOK
  <2>. QED
      BY <2>1, <1>12, ReturnHolds DEF client_relay
<1>. QED
    BY <1>1, <1>2, <1>3, <1>4, <1>5, <1>6, <1>7, <1>8, <1>9, <1>10, <1>11, <1>12
    DEF ClientStep

(* The answer to Connect changes at most the state of the waiting client.  *)
LEMMA ConnectResultClient ==
    ASSUME NEW ok \in BOOLEAN, remote_connect_result(ok)
    PROVE  \/ client' = client
           \/ client' = [client EXCEPT ![remote[cur].client].state = "CONNECTING2"]
           \/ client' = [client EXCEPT ![remote[cur].client].state = "COMMAND"]
<1>1. CASE ok = TRUE
    BY <1>1 DEF remote_connect_result, client_notify_connect
<1>2. CASE ok = FALSE
    BY <1>2 DEF remote_connect_result, client_notify_connect
<1>. QED
    BY <1>1, <1>2

(* The handlers of usbmux_remote.c keep everything well typed.             *)
LEMMA TypeRemote == TypeOK /\ RemoteStep => TypeOK'
<1>. SUFFICES ASSUME TypeOK, RemoteStep
              PROVE  ListsOK' /\ HoldOK'
    BY TypeSplit DEF TypeOK, ListsOK, HoldOK
<1>0. ListsOK /\ HoldOK
    BY TypeSplit
<1>1. ASSUME NEW s \in Slot, NEW e \in {"in", "out"}, usbmux_remote_process(s, e)
      PROVE  ListsOK' /\ HoldOK'
  <2>1. ListsOK'
      BY <1>0, <1>1, DisposeType DEF usbmux_remote_process, ListsOK, Dead
  <2>2. CASE pc' = e /\ cur' = s /\ UNCHANGED <<me, snap>>
      BY <1>0, <2>1, <2>2 DEF HoldOK, PC
  <2>3. CASE ReturnUnless(Dangles(remote, Dead(remote)))
      BY <1>0, <2>1, <2>3, ReturnUnlessHolds
  <2>. QED
      BY <1>1, <2>2, <2>3 DEF usbmux_remote_process
<1>2. ASSUME NEW s \in Slot, usbmux_remote_process_nval(s)
      PROVE  ListsOK' /\ HoldOK'
  <2>1. Dead(remote) \cup {s} \in SUBSET Slot
      BY DEF Dead
  <2>2. ListsOK'
      BY <1>0, <1>2, <2>1, DisposeType DEF usbmux_remote_process_nval, ListsOK
  <2>3. HoldOK'
      BY <1>0, <1>2, ReturnUnlessHolds DEF usbmux_remote_process_nval
  <2>. QED
      BY <2>2, <2>3
<1>3. CASE remote_recv_eof
  <2>1. ListsOK'
      BY <1>0, <1>3, MarkDeadType DEF remote_recv_eof, HoldOK
  <2>. QED
      BY <2>1, <1>0, <1>3, ReturnUnlessHolds DEF remote_recv_eof
<1>4. CASE remote_request_result
  <2>1. ListsOK'
      BY <1>0, <1>4, UpdateType DEF remote_request_result, ListsOK
  <2>. QED
      BY <2>1, <1>0, <1>4, ReturnUnlessHolds DEF remote_request_result
<1>5. ASSUME NEW ok \in BOOLEAN, remote_listen_result(ok)
      PROVE  ListsOK' /\ HoldOK'
  <2>1. UNCHANGED <<idmap, devices, client>>
      BY <1>5 DEF remote_listen_result
  <2>2. CASE pc' = "listened" /\ UNCHANGED <<remote, cur, me, snap>>
      BY <1>0, <1>5, <2>1, <2>2 DEF ListsOK, HoldOK, PC, remote_listen_result
  <2>3. CASE remote' = [remote EXCEPT ![cur] = Answered(@)] /\ Return
      BY <1>0, <2>1, <2>3, UpdateType, ReturnHolds DEF ListsOK
  <2>. QED
      BY <1>5, <2>2, <2>3 DEF remote_listen_result
<1>6. ASSUME NEW ok \in BOOLEAN, remote_connect_result(ok)
      PROVE  ListsOK' /\ HoldOK'
  <2>1. remote' \in [Slot -> RemoteMux]
      BY <1>0, <1>6, UpdateType DEF ListsOK, remote_connect_result
  <2>2. client' \in [Client -> MuxClient]
      BY <1>0, ConnectResultClient, <1>6 DEF ListsOK, MuxClient, ClientState
  <2>3. ListsOK'
      BY <2>1, <2>2, <1>0, <1>6 DEF remote_connect_result, ListsOK
  <2>4. CASE pc' = "connected" /\ UNCHANGED <<cur, me, snap>>
      BY <1>0, <1>6, <2>3, <2>4 DEF HoldOK, PC, remote_connect_result
  <2>5. CASE ReturnUnless(remote[cur].client = Gone)
      BY <1>0, <2>3, <2>5, ReturnUnlessHolds
  <2>. QED
      BY <1>6, <2>4, <2>5 DEF remote_connect_result
<1>13. CASE remote_listens
  <2>1. ListsOK'
      BY <1>0, <1>13, UpdateType DEF remote_listens, ListsOK
  <2>. QED
      BY <2>1, <1>13, ReturnHolds DEF remote_listens
<1>14. CASE remote_connected
  <2>1. ListsOK'
      BY <1>0, <1>14, UpdateType DEF remote_connected, ListsOK
  <2>. QED
      BY <2>1, <1>14, ReturnHolds DEF remote_connected
<1>7. ASSUME NEW d \in Device, remote_device_add(d)
      PROVE  ListsOK' /\ HoldOK'
  <2>1. <<remote[cur].id, d>> \in DevId
      BY <1>0, <1>7 DEF remote_device_add, ListsOK, HoldOK, RemoteMux, DevId
  <2>2. ListsOK'
      BY <1>0, <1>7, <2>1
      DEF remote_device_add, client_device_add, notify_device_add, ListsOK, MuxClient
  <2>. QED
      BY <2>2, <1>7, ReturnHolds DEF remote_device_add
<1>8. ASSUME NEW d \in Device, remote_device_remove(d)
      PROVE  ListsOK' /\ HoldOK'
  <2>1. ListsOK'
      BY <1>0, <1>8
      DEF remote_device_remove, client_device_remove, notify_device_remove, ListsOK,
          MuxClient
  <2>. QED
      BY <2>1, <1>8, ReturnHolds DEF remote_device_remove
<1>9. CASE remote_process_send
  <2>1. ListsOK'
      BY <1>0, <1>9, UpdateType DEF remote_process_send, ListsOK
  <2>. QED
      BY <2>1, <1>0, <1>9, ReturnUnlessHolds DEF remote_process_send
<1>10. CASE remote_send_fails
  <2>1. ListsOK'
      BY <1>0, <1>10, RemoteCloseType DEF remote_send_fails, HoldOK
  <2>. QED
      BY <2>1, <1>0, <1>10, ReturnUnlessHolds DEF remote_send_fails
<1>11. CASE remote_hangup
  <2>1. ListsOK'
      BY <1>0, <1>11, RemoteCloseType DEF remote_hangup, HoldOK
  <2>. QED
      BY <2>1, <1>0, <1>11, ReturnUnlessHolds DEF remote_hangup
<1>12. CASE remote_other
    BY <1>0, <1>12, ReturnHolds DEF remote_other, ListsOK
<1>15. CASE remote_relay
    BY <1>0, <1>15, ReturnUnlessHolds DEF remote_relay, ListsOK
<1>. QED
    BY <1>1, <1>2, <1>3, <1>4, <1>5, <1>6, <1>7, <1>8, <1>9, <1>10, <1>11, <1>12,
       <1>13, <1>14, <1>15
    DEF RemoteStep

(* The mDNS thread keeps everything well typed.                            *)
LEMMA TypeMdns == TypeOK /\ MdnsStep => TypeOK'
<1>. SUFFICES ASSUME TypeOK, MdnsStep
              PROVE  ListsOK' /\ HoldOK'
    BY TypeSplit DEF TypeOK, ListsOK, HoldOK
<1>0. ListsOK /\ HoldOK
    BY TypeSplit
<1>1. ASSUME NEW n \in Service, NEW e \in Endpoint, service_resolve(n, e)
      PROVE  ListsOK' /\ HoldOK'
  <2>1. ListsOK'
      BY <1>0, <1>1, ServiceAddType DEF service_resolve, Name
  <2>2. HoldOK'
      BY <1>0, <1>1 DEF service_resolve, HoldOK
  <2>. QED
      BY <2>1, <2>2
<1>2. ASSUME NEW n \in Service, service_browse_remove(n)
      PROVE  ListsOK' /\ HoldOK'
  <2>1. ListsOK'
      BY <1>0, <1>2, MarkDeadType DEF service_browse_remove
  <2>2. HoldOK'
      BY <1>0, <1>2 DEF service_browse_remove, HoldOK, PC
  <2>. QED
      BY <2>1, <2>2
<1>. QED
    BY <1>1, <1>2 DEF MdnsStep

(* Every variable of the registry keeps its type, for every number of      *)
(* connections, ids, clients and devices.                                  *)
THEOREM TypeCorrect == Spec => []TypeOK
<1>1. Init => TypeOK
    BY TypeInit
<1>2. TypeOK /\ [Next]_vars => TypeOK'
  <2>1. TypeOK /\ UNCHANGED vars => TypeOK'
      BY DEF TypeOK, vars
  <2>. QED
      BY <2>1, TypeClient, TypeRemote, TypeMdns DEF Next
<1>. QED
    BY <1>1, <1>2, PTL DEF Spec

-----------------------------------------------------------------------------
(* Safety, whatever goes wrong.                                            *)

(* A position that holds no remote has no client either.                   *)
BlanksAlone == \A s \in Slot : remote[s].state = "FREE" => remote[s].client = None

(* A listener belongs to no client, so closing a client never takes one    *)
(* away; who listens upstream is one, and has sent its request; one whose  *)
(* request is still in ob_buf, the only kind remote_process_send may       *)
(* close, has no devices yet.                                              *)
ListenersAlone ==
    \A s \in InList(remote) :
        /\ remote[s].listener => remote[s].client = None
        /\ remote[s].state = "LISTEN" => remote[s].listener /\ ~ remote[s].ob
        /\ remote[s].cmd = "LISTEN" => remote[s].listener
        /\ remote[s].cmd = "CONNECT" => ~ remote[s].listener
        /\ remote[s].listener /\ remote[s].ob => \A d \in devices : d[1] # remote[s].id

(* A client with one request has one remote.                               *)
OneRemote ==
    \A s, t \in InList(remote) :
        remote[s].client # None /\ ~ remote[s].shared /\ remote[t].client = remote[s].client
        => t = s

(* A client that a remote points at has a remote.                          *)
HasRemote ==
    \A s \in InList(remote) :
        remote[s].client \in Client => client[remote[s].client].remote # 0

(* A Connect that is not answered yet is the last request of its client,   *)
(* which waits for it and is served nothing else.                          *)
ConnectsPending ==
    \A s \in InList(remote) : remote[s].cmd = "CONNECT" /\ remote[s].client \in Client =>
        client[remote[s].client].state = "CONNECTING1" /\ client[remote[s].client].remote = s

(* The copy start_listen works through misses no device.                   *)
SnapFresh == pc = "listen" => devices \subseteq snap

(* Between the two halves of an answer's handler the mDNS thread may have  *)
(* marked the remote dead, and nothing else.                               *)
HeldFit ==
    /\ pc = "listened" => /\ remote[cur].state \in {"COMMAND", "DEAD"}
                          /\ remote[cur].listener /\ ~ remote[cur].ob
    /\ pc = "connected" => /\ remote[cur].state \in {"CONNECTING1", "DEAD"}
                           /\ ~ remote[cur].listener
    /\ "mdns" \notin Env /\ pc \in {"listened", "connected"} => remote[cur].state # "DEAD"

RegistryInv ==
    /\ BlanksAlone
    /\ ListenersAlone
    /\ ListenerIds
    /\ DeviceHasListener
    /\ LinksAgree
    /\ HasRemote
    /\ OneRemote
    /\ ConnectsPending
    /\ StatesAgree

(* The inductive invariant.                                                *)
IInv ==
    /\ TypeOK
    /\ RegistryInv
    /\ ViewComplete
    /\ SnapFresh
    /\ HeldFit

-----------------------------------------------------------------------------
(* The building blocks preserve RegistryInv.                               *)

(* R is remote_list with some remotes marked dead; event masks may differ. *)
Dying(R) ==
    /\ R \in [Slot -> RemoteMux]
    /\ \A s \in Slot :
        /\ R[s].id = remote[s].id
        /\ R[s].listener = remote[s].listener
        /\ R[s].client = remote[s].client
        /\ R[s].shared = remote[s].shared
        /\ R[s].cmd = remote[s].cmd
        /\ R[s].ob = remote[s].ob
        /\ \/ R[s].state = remote[s].state
           \/ remote[s].state # "FREE" /\ R[s].state = "DEAD"

(* What the main thread holds after the first half of the answer to        *)
(* Connect, it holds until the second.                                     *)
Stays ==
    pc \in {"connected", "freed"} => pc' \in {"connected", "freed"} /\ cur' = cur

(* The list as it is.                                                      *)
LEMMA DyingSame ==
    ASSUME TypeOK
    PROVE  Dying(remote)
BY DEF Dying, TypeOK

(* remote_mark_dead, its loop over the list: only the state changes, to    *)
(* DEAD.                                                                   *)
LEMMA DyingMarked ==
    ASSUME TypeOK, NEW s \in Slot
    PROVE  Dying(MarkedDead(s))
<1>1. MarkedDead(s) \in [Slot -> RemoteMux]
    BY MarkedDeadType, TypeSplit
<1>2. ASSUME NEW t \in Slot
      PROVE  \/ MarkedDead(s)[t] = remote[t]
             \/ /\ remote[t].state # "FREE"
                /\ MarkedDead(s)[t] = [remote[t] EXCEPT !.state = "DEAD"]
    BY DEF MarkedDead
<1>3. \A t \in Slot : remote[t] \in RemoteMux
    BY DEF TypeOK
<1>. QED
    BY <1>1, <1>2, <1>3 DEF Dying, RemoteMux

(* ... and the dummy event, which changes no field the registry is about.  *)
LEMMA DyingEvent ==
    ASSUME NEW R, Dying(R), NEW t \in Slot
    PROVE  Dying([R EXCEPT ![t].out = TRUE])
<1>. DEFINE Q == [R EXCEPT ![t].out = TRUE]
<1>1. ASSUME NEW s \in Slot
      PROVE  Q[s] = R[s] \/ Q[s] = [R[s] EXCEPT !.out = TRUE]
    BY DEF Dying
<1>0. R \in [Slot -> RemoteMux]
    BY DEF Dying
<1>2. Q \in [Slot -> RemoteMux]
    BY <1>0 DEF RemoteMux
<1>3. \A s \in Slot : R[s] \in RemoteMux
    BY <1>0
<1>. HIDE DEF Q
<1>4. ASSUME NEW s \in Slot
      PROVE  /\ Q[s].id = R[s].id
             /\ Q[s].listener = R[s].listener
             /\ Q[s].client = R[s].client
             /\ Q[s].shared = R[s].shared
             /\ Q[s].cmd = R[s].cmd
             /\ Q[s].ob = R[s].ob
             /\ Q[s].state = R[s].state
    BY <1>1, <1>3 DEF RemoteMux
<1>5. Dying(Q)
    BY <1>2, <1>4 DEF Dying
<1>. QED
    BY <1>5 DEF Q

(* A step that changes neither the lists nor the id map.                   *)
LEMMA UnchangedInv ==
    ASSUME RegistryInv, UNCHANGED <<remote, devices, idmap, client>>, Stays
    PROVE  RegistryInv'
<1>1. StatesAgree'
    BY DEF RegistryInv, StatesAgree, Stays
<1>2. (BlanksAlone /\ ListenersAlone /\ ListenerIds /\ DeviceHasListener)'
    BY DEF RegistryInv, BlanksAlone, ListenersAlone, ListenerIds, DeviceHasListener,
           Listeners, InList
<1>3. (LinksAgree /\ HasRemote /\ OneRemote /\ ConnectsPending)'
    BY DEF RegistryInv, LinksAgree, HasRemote, OneRemote, ConnectsPending, InList
<1>. QED
    BY <1>1, <1>2, <1>3 DEF RegistryInv

(* Marking remotes dead keeps the registry in order.                       *)
LEMMA MarkInv ==
    ASSUME TypeOK, RegistryInv, NEW R, Dying(R), remote' = R,
           UNCHANGED <<devices, idmap, client>>, Stays
    PROVE  RegistryInv'
<1>0. \A s \in Slot :
        /\ remote'[s].id = remote[s].id
        /\ remote'[s].listener = remote[s].listener
        /\ remote'[s].client = remote[s].client
        /\ remote'[s].shared = remote[s].shared
        /\ remote'[s].cmd = remote[s].cmd
        /\ remote'[s].ob = remote[s].ob
        /\ \/ remote'[s].state = remote[s].state
           \/ remote[s].state # "FREE" /\ remote'[s].state = "DEAD"
    BY DEF Dying
<1>1. BlanksAlone'
    BY <1>0 DEF RegistryInv, BlanksAlone
<1>2. ListenersAlone'
    BY <1>0 DEF RegistryInv, ListenersAlone, InList
<1>3. ListenerIds'
    BY <1>0 DEF RegistryInv, ListenerIds, Listeners, InList
<1>4. DeviceHasListener'
    BY <1>0 DEF RegistryInv, DeviceHasListener, Listeners, InList
<1>5. LinksAgree'
  <2>1. \A c \in Client : client[c].remote \in Slot \cup {0}
      BY DEF TypeOK, MuxClient
  <2>. QED
      BY <1>0, <2>1 DEF RegistryInv, LinksAgree, InList
<1>6. StatesAgree'
  <2>1. \A c \in Client : client[c].remote \in Slot \cup {0}
      BY DEF TypeOK, MuxClient
  <2>. QED
      BY <1>0, <2>1 DEF RegistryInv, StatesAgree, Stays
<1>7. ConnectsPending'
    BY <1>0 DEF RegistryInv, ConnectsPending, InList
<1>8. OneRemote'
    BY <1>0 DEF RegistryInv, OneRemote, InList
<1>9. HasRemote'
    BY <1>0 DEF RegistryInv, HasRemote, InList
<1>. QED
    BY <1>1, <1>2, <1>3, <1>4, <1>5, <1>6, <1>7, <1>8, <1>9 DEF RegistryInv

(* usbmux_remote_dispose keeps it in order: it drops the devices, the link *)
(* and the id of whatever it takes out of the list.                        *)
LEMMA DisposeInv ==
    ASSUME TypeOK, RegistryInv, NEW R, Dying(R), NEW S \in SUBSET InList(R),
           usbmux_remote_dispose(R, S), Stays
    PROVE  RegistryInv'
<1>. DEFINE K == {R[t].client : t \in S} \ {None}
<1>0. S \subseteq Slot
    BY DEF InList
<1>1. ASSUME NEW s \in Slot, s \notin S
      PROVE  /\ remote'[s].id = R[s].id
             /\ remote'[s].listener = R[s].listener
             /\ remote'[s].shared = R[s].shared
             /\ remote'[s].cmd = R[s].cmd
             /\ remote'[s].ob = R[s].ob
             /\ remote'[s].state = R[s].state
             /\ R[s].client \in K => remote'[s].client = Gone
             /\ R[s].client \notin K => remote'[s].client = R[s].client
  <2>1. remote'[s] = IF R[s].client \in K THEN [R[s] EXCEPT !.client = Gone] ELSE R[s]
      BY <1>1 DEF usbmux_remote_dispose, Orphaned
  <2>2. R[s] \in RemoteMux
      BY DEF Dying
  <2>. HIDE DEF K
  <2>. QED
      BY <2>1, <2>2 DEF RemoteMux
<1>2. ASSUME NEW s \in S
      PROVE  remote'[s] = Blank
    BY <1>0 DEF usbmux_remote_dispose
<1>9. \A c \in Client : c \in K <=> \E s \in S : remote[s].client = c
  <2>1. \A s \in S : R[s].client = remote[s].client
      BY <1>0 DEF Dying
  <2>. QED
      BY <2>1, ConstAssumption
<1>10. None \notin K
    OBVIOUS
<1>3. ASSUME NEW c \in Client
      PROVE  /\ c \in K => client'[c] = BlankClient
             /\ c \notin K => /\ client'[c].state = client[c].state
                             /\ client'[c].remote = client[c].remote
  <2>1. client[c] \in MuxClient
      BY DEF TypeOK
  <2>2. \A s \in S : R[s].client = remote[s].client
      BY <1>0 DEF Dying
  <2>. HIDE DEF K
  <2>. QED
      BY <2>1, <2>2, <1>9
      DEF usbmux_remote_dispose, ClientsAfterDispose, client_device_remove,
          notify_device_remove, MuxClient
<1>. HIDE DEF K
<1>4. \A s \in S : remote[s].state # "FREE"
    BY DEF Dying, InList
<1>5. \A d \in devices' : d \in devices /\ \A s \in S : remote[s].id # d[1]
    BY <1>0 DEF usbmux_remote_dispose, Lost, Dying
<1>6. \A s \in Slot : s \notin S /\ remote[s].state # "FREE" /\ remote[s].listener
                      => remote[s].id \in idmap'
    BY <1>0, <1>4
    DEF usbmux_remote_dispose, RegistryInv, ListenerIds, Listeners, InList, Dying
<1>11. BlanksAlone'
    BY <1>1, <1>2, <1>10 DEF BlanksAlone, RegistryInv, Blank, Dying
<1>12. ListenersAlone'
    BY <1>1, <1>2, <1>5, <1>10 DEF ListenersAlone, RegistryInv, InList, Blank, Dying
<1>13. ListenerIds'
    BY <1>1, <1>2, <1>6 DEF ListenerIds, RegistryInv, Listeners, InList, Blank, Dying
<1>14. DeviceHasListener'
    BY <1>1, <1>2, <1>5
    DEF DeviceHasListener, RegistryInv, Listeners, InList, Blank, Dying
<1>15. \A c \in Client : client[c].remote \in Slot \cup {0}
    BY DEF TypeOK, MuxClient
<1>16. ASSUME NEW c \in Client, client'[c].remote # 0
       PROVE  /\ c \notin K
              /\ client'[c].state = client[c].state
              /\ client'[c].remote = client[c].remote
              /\ client[c].remote \in Slot \ S
              /\ remote[client[c].remote].client = c
    BY <1>3, <1>9, <1>15, <1>16 DEF RegistryInv, LinksAgree, BlankClient
<1>17. LinksAgree'
  <2>1. ASSUME NEW s \in InList(remote)', remote'[s].client # None, ~ remote'[s].shared
        PROVE  /\ remote'[s].client \in Client
               /\ client'[remote'[s].client].state # "FREE"
               /\ client'[remote'[s].client].remote = s
    <3>1. s \in Slot /\ s \notin S
        BY <1>2 DEF InList, Blank
    <3>2. /\ remote[s].state # "FREE"
          /\ ~ remote[s].shared
        BY <3>1, <1>1, <2>1 DEF Dying, InList, TypeOK, RemoteMux
    <3>5. remote[s].client # None
      <4>1. R[s].client = remote[s].client
          BY <3>1 DEF Dying
      <4>. QED
          BY <4>1, <3>1, <1>1, <1>10, <2>1
    <3>3. /\ remote[s].client \in Client
          /\ client[remote[s].client].state # "FREE" /\ client[remote[s].client].remote = s
        BY <3>1, <3>2, <3>5 DEF RegistryInv, LinksAgree, InList
    <3>4. remote[s].client \notin K
      <4>1. SUFFICES ASSUME NEW t \in S, remote[t].client = remote[s].client
                     PROVE  FALSE
          BY <3>3, <1>9
      <4>2. t \in Slot /\ remote[t].state # "FREE" /\ t # s
          BY <1>0, <1>4, <3>1
      <4>. QED
          BY <4>1, <4>2, <3>1, <3>2, <3>5 DEF RegistryInv, OneRemote, InList
    <3>. QED
        BY <3>1, <3>3, <3>4, <1>1, <1>3 DEF Dying
  <2>2. ASSUME NEW c \in Client, client'[c].remote # 0
        PROVE  client'[c].state # "FREE" /\ remote'[client'[c].remote].client = c
      BY <1>16, <2>2, <1>1 DEF RegistryInv, LinksAgree, Dying
  <2>. QED
      BY <2>1, <2>2 DEF LinksAgree
<1>18. StatesAgree'
  <2>. SUFFICES ASSUME NEW c \in Client, client'[c].state \in {"CONNECTING2", "CONNECTED"}
                PROVE  /\ client'[c].remote # 0
                       /\ \/ remote'[client'[c].remote].state \in {"CONNECTED", "DEAD"}
                          \/ pc' \in {"connected", "freed"} /\ cur' = client'[c].remote
      BY DEF StatesAgree
  <2>1. client'[c].state = client[c].state /\ client'[c].remote = client[c].remote
      BY <1>3 DEF BlankClient
  <2>2. /\ client[c].remote # 0
        /\ \/ remote[client[c].remote].state \in {"CONNECTED", "DEAD"}
           \/ pc \in {"connected", "freed"} /\ cur = client[c].remote
      BY <2>1 DEF RegistryInv, StatesAgree
  <2>. QED
      BY <2>1, <2>2, <1>16, <1>1 DEF Dying, Stays
<1>19. ConnectsPending'
  <2>. SUFFICES ASSUME NEW s \in InList(remote)', remote'[s].cmd = "CONNECT",
                       remote'[s].client \in Client
                PROVE  /\ client'[remote'[s].client].state = "CONNECTING1"
                       /\ client'[remote'[s].client].remote = s
      BY DEF ConnectsPending
  <2>1. s \in Slot /\ s \notin S
      BY <1>2 DEF InList, Blank
  <2>2. remote'[s].client \notin K /\ remote'[s].client = remote[s].client
      BY <2>1, <1>1, ConstAssumption DEF Dying
  <2>3. remote[s].state # "FREE" /\ remote[s].cmd = "CONNECT"
      BY <2>1, <1>1 DEF Dying, InList
  <2>4. /\ client[remote[s].client].state = "CONNECTING1"
        /\ client[remote[s].client].remote = s
      BY <2>1, <2>2, <2>3 DEF RegistryInv, ConnectsPending, InList
  <2>. QED
      BY <2>2, <2>4, <1>3
<1>20. OneRemote'
  <2>. SUFFICES ASSUME NEW s \in InList(remote)', NEW t \in InList(remote)',
                       remote'[s].client # None, ~ remote'[s].shared,
                       remote'[t].client = remote'[s].client
                PROVE  t = s
      BY DEF OneRemote
  <2>1. s \in Slot \ S /\ t \in Slot \ S
      BY <1>2 DEF InList, Blank
  <2>2. remote'[s].client \in Client
      BY <1>17 DEF LinksAgree
  <2>3. /\ remote'[s].client = remote[s].client
        /\ remote'[t].client = remote[t].client
      BY <2>1, <2>2, <1>1, ConstAssumption DEF Dying
  <2>4. remote[s].state # "FREE" /\ remote[t].state # "FREE" /\ ~ remote[s].shared
      BY <2>1, <1>1 DEF Dying, InList
  <2>. QED
      BY <2>1, <2>3, <2>4 DEF RegistryInv, OneRemote, InList
<1>21. HasRemote'
  <2>. SUFFICES ASSUME NEW s \in InList(remote)', remote'[s].client \in Client
                PROVE  client'[remote'[s].client].remote # 0
      BY DEF HasRemote
  <2>1. s \in Slot /\ s \notin S
      BY <1>2 DEF InList, Blank
  <2>2. remote'[s].client \notin K /\ remote'[s].client = remote[s].client
      BY <2>1, <1>1, ConstAssumption DEF Dying
  <2>3. remote[s].state # "FREE"
      BY <2>1, <1>1 DEF Dying, InList
  <2>. QED
      BY <2>1, <2>2, <2>3, <1>3 DEF RegistryInv, HasRemote, InList
<1>. QED
    BY <1>11, <1>12, <1>13, <1>14, <1>17, <1>18, <1>19, <1>20, <1>21 DEF RegistryInv

(* remote_mark_dead as a whole, whichever branch it takes.                 *)
LEMMA MarkDeadInv ==
    ASSUME TypeOK, RegistryInv, NEW s \in Slot, remote_mark_dead(s), Stays
    PROVE  RegistryInv'
<1>. DEFINE R == MarkedDead(s)
<1>1. Dying(R)
    BY DyingMarked
<1>2. \/ /\ Alive(R) # {}
         /\ remote' = [R EXCEPT ![First(Alive(R))].out = TRUE]
         /\ UNCHANGED <<devices, idmap, client>>
      \/ usbmux_remote_dispose(R, InList(R))
    BY DEF remote_mark_dead
<1>. HIDE DEF R
<1>3. CASE usbmux_remote_dispose(R, InList(R))
    BY <1>1, <1>3, DisposeInv
<1>4. CASE /\ Alive(R) # {}
           /\ remote' = [R EXCEPT ![First(Alive(R))].out = TRUE]
           /\ UNCHANGED <<devices, idmap, client>>
  <2>1. First(Alive(R)) \in Slot
      BY <1>4, FirstIsMember DEF Alive, InList
  <2>2. Dying([R EXCEPT ![First(Alive(R))].out = TRUE])
      BY <1>1, <2>1, DyingEvent
  <2>. QED
      BY <1>4, <2>2, MarkInv
<1>. QED
    BY <1>2, <1>3, <1>4

(* What LinksAgree says of one client and the remote it points to.         *)
LEMMA Linked ==
    ASSUME TypeOK, RegistryInv, NEW c \in Client, client[c].remote # 0
    PROVE  /\ client[c].remote \in Slot
           /\ client[c].state # "FREE"
           /\ remote[client[c].remote].client = c
           /\ remote[client[c].remote].state # "FREE"
           /\ ~ remote[client[c].remote].listener
<1>1. client[c].remote \in Slot
    BY DEF TypeOK, MuxClient
<1>2. c # None
    BY ConstAssumption
<1>. QED
    BY <1>1, <1>2 DEF RegistryInv, LinksAgree, BlanksAlone, ListenersAlone, InList

(* Position t keeps what it holds, but for a pointer to a freed client.    *)
Spared(t) ==
    /\ remote'[t].id = remote[t].id
    /\ remote'[t].where = remote[t].where
    /\ remote'[t].listener = remote[t].listener
    /\ remote'[t].cmd = remote[t].cmd
    /\ remote'[t].ob = remote[t].ob
    /\ remote'[t].state = remote[t].state
    /\ remote[t].client = None => remote'[t].client = None

(* Only position s may be given up, and its remote has no devices.         *)
LEMMA FreedInv ==
    ASSUME TypeOK, RegistryInv, NEW s \in Slot \cup {0},
           s # 0 => /\ remote'[s] = Blank
                    /\ remote[s].state = "CONNECTED" \/ remote[s].ob \/ ~ remote[s].listener,
           \A t \in Slot : t # s => Spared(t),
           UNCHANGED <<devices, idmap>>
    PROVE  (BlanksAlone /\ ListenersAlone /\ ListenerIds /\ DeviceHasListener)'
<1>1. ASSUME NEW t \in Slot, t # s
      PROVE  /\ remote'[t].id = remote[t].id
             /\ remote'[t].listener = remote[t].listener
             /\ remote'[t].cmd = remote[t].cmd
             /\ remote'[t].ob = remote[t].ob
             /\ remote'[t].state = remote[t].state
             /\ remote[t].client = None => remote'[t].client = None
    BY <1>1 DEF Spared
<1>0. \A t \in Slot : t = s => remote'[t] = Blank
    BY ConstAssumption DEF Slot
<1>2. BlanksAlone'
    BY <1>0, <1>1 DEF RegistryInv, BlanksAlone, Blank
<1>3. ListenersAlone'
    BY <1>0, <1>1 DEF RegistryInv, ListenersAlone, InList, Blank
<1>4. ListenerIds'
    BY <1>0, <1>1 DEF RegistryInv, ListenerIds, Listeners, InList, Blank
<1>5. DeviceHasListener'
  <2>. SUFFICES ASSUME NEW d \in devices
                PROVE  \E t \in Slot : /\ remote'[t].state \in {"LISTEN", "DEAD"}
                                       /\ remote'[t].listener
                                       /\ remote'[t].id = d[1]
      BY DEF DeviceHasListener, Listeners, InList
  <2>1. PICK t \in Slot : /\ remote[t].state \in {"LISTEN", "DEAD"}
                          /\ remote[t].listener
                          /\ remote[t].id = d[1]
      BY DEF RegistryInv, DeviceHasListener, Listeners, InList
  <2>2. t # s
      BY <2>1, ConstAssumption DEF RegistryInv, ListenersAlone, InList, Slot
  <2>. QED
      BY <1>1, <2>1, <2>2
<1>. QED
    BY <1>2, <1>3, <1>4, <1>5

(* client_close takes the linked remote along, which is no listener, and   *)
(* leaves the others of a client with several.                             *)
LEMMA ClientCloseInv ==
    ASSUME TypeOK, RegistryInv, NEW c \in Client, client_close(c), Stays
    PROVE  RegistryInv'
<1>. DEFINE s == client[c].remote
<1>1. client'[c] = BlankClient /\ \A b \in Client : b # c => client'[b] = client[b]
    BY DEF client_close, TypeOK
<1>2. \A b \in Client : client[b].remote \in Slot \cup {0}
    BY DEF TypeOK, MuxClient
<1>3. c # None /\ c # Gone /\ 0 \notin Slot
    BY ConstAssumption DEF Slot
<1>4. s # 0 => s \in Slot /\ remote[s].client = c /\ ~ remote[s].listener
    BY Linked
<1>5. UNCHANGED <<devices, idmap>>
    BY DEF client_close, remote_close
<1>6. /\ s # 0 => remote'[s] = Blank
      /\ \A t \in Slot : t # s => remote'[t] = Orphaned(remote, {c})[t]
  <2>. DEFINE Q == Orphaned(remote, {c})
  <2>1. Q \in [Slot -> RemoteMux]
      BY OrphanedType DEF TypeOK
  <2>2. IF s # 0 THEN remote' = [Q EXCEPT ![s] = Blank] ELSE remote' = Q
      BY DEF client_close, remote_close
  <2>. HIDE DEF Q
  <2>3. (s # 0 => remote'[s] = Blank) /\ \A t \in Slot : t # s => remote'[t] = Q[t]
      BY <2>1, <2>2, <1>4
  <2>. QED
      BY <2>3 DEF Q
<1>. HIDE DEF s
<1>7. ASSUME NEW t \in Slot, t # s
      PROVE  /\ Spared(t)
             /\ remote'[t].shared = remote[t].shared
             /\ remote'[t].cmd = remote[t].cmd
             /\ remote'[t].state = remote[t].state
             /\ remote[t].client = c => remote'[t].client = Gone
             /\ remote[t].client # c => remote'[t].client = remote[t].client
  <2>1. remote'[t] = IF remote[t].client \in {c} THEN [remote[t] EXCEPT !.client = Gone] ELSE remote[t]
      BY <1>6, <1>7 DEF Orphaned
  <2>2. remote[t] \in RemoteMux
      BY DEF TypeOK
  <2>. QED
      BY <2>1, <2>2, <1>3 DEF RemoteMux, Spared
<1>8. s \in Slot \cup {0}
    BY <1>2 DEF s
<1>9. (BlanksAlone /\ ListenersAlone /\ ListenerIds /\ DeviceHasListener)'
    BY <1>4, <1>5, <1>6, <1>7, <1>8, FreedInv
<1>10. \A t \in InList(remote)' : t \in InList(remote) /\ t # s
    BY <1>3, <1>6, <1>7 DEF InList, Blank
<1>11. \A b \in Client : client'[b].remote # 0 => b # c /\ client[b].remote # s
    BY <1>1, <1>4 DEF BlankClient, RegistryInv, LinksAgree
<1>12. LinksAgree'
  <2>1. ASSUME NEW t \in InList(remote)', remote'[t].client # None, ~ remote'[t].shared
        PROVE  /\ remote'[t].client \in Client
               /\ client'[remote'[t].client].state # "FREE"
               /\ client'[remote'[t].client].remote = t
    <3>1. t \in Slot /\ t # s /\ remote[t].state # "FREE" /\ ~ remote[t].shared
        BY <2>1, <1>7, <1>10 DEF InList
    <3>2. remote[t].client # None
        BY <2>1, <3>1, <1>3, <1>7
    <3>3. /\ client[remote[t].client].state # "FREE"
          /\ client[remote[t].client].remote = t
          /\ remote[t].client \in Client
        BY <3>1, <3>2 DEF RegistryInv, LinksAgree, InList
    <3>4. remote[t].client # c
        BY <3>1, <3>3 DEF s
    <3>. QED
        BY <3>1, <3>3, <3>4, <1>1, <1>7
  <2>2. ASSUME NEW b \in Client, client'[b].remote # 0
        PROVE  client'[b].state # "FREE" /\ remote'[client'[b].remote].client = b
      BY <2>2, <1>1, <1>2, <1>7, <1>11 DEF RegistryInv, LinksAgree
  <2>. QED
      BY <2>1, <2>2 DEF LinksAgree
<1>13. StatesAgree'
  <2>1. ASSUME NEW b \in Client, client'[b].state \in {"CONNECTING2", "CONNECTED"}
        PROVE  /\ client'[b].remote # 0
               /\ \/ remote'[client'[b].remote].state \in {"CONNECTED", "DEAD"}
                  \/ pc' \in {"connected", "freed"} /\ cur' = client'[b].remote
    <3>1. b # c /\ client'[b] = client[b]
        BY <2>1, <1>1 DEF BlankClient
    <3>2. /\ client[b].remote # 0
          /\ \/ remote[client[b].remote].state \in {"CONNECTED", "DEAD"}
             \/ pc \in {"connected", "freed"} /\ cur = client[b].remote
        BY <2>1, <3>1 DEF RegistryInv, StatesAgree
    <3>3. client[b].remote \in Slot /\ client[b].remote # s
        BY <1>2, <1>11, <3>1, <3>2
    <3>. QED
        BY <3>1, <3>2, <3>3, <1>7 DEF Stays
  <2>. QED
      BY <2>1 DEF StatesAgree
<1>14. ConnectsPending'
  <2>1. ASSUME NEW t \in InList(remote)', remote'[t].cmd = "CONNECT", remote'[t].client \in Client
        PROVE  /\ client'[remote'[t].client].state = "CONNECTING1"
               /\ client'[remote'[t].client].remote = t
    <3>1. t \in Slot /\ t # s /\ remote[t].state # "FREE" /\ remote[t].cmd = "CONNECT"
        BY <2>1, <1>7, <1>10 DEF InList
    <3>2. remote[t].client # c /\ remote'[t].client = remote[t].client
        BY <2>1, <3>1, <1>7, ConstAssumption
    <3>. QED
        BY <2>1, <3>1, <3>2, <1>1 DEF RegistryInv, ConnectsPending, InList
  <2>. QED
      BY <2>1 DEF ConnectsPending
<1>15. OneRemote'
  <2>1. ASSUME NEW t \in InList(remote)', NEW u \in InList(remote)',
               remote'[t].client # None, ~ remote'[t].shared, remote'[u].client = remote'[t].client
        PROVE  u = t
    <3>1. /\ t \in Slot /\ t # s /\ remote[t].state # "FREE" /\ ~ remote[t].shared
          /\ u \in Slot /\ u # s /\ remote[u].state # "FREE"
        BY <2>1, <1>7, <1>10 DEF InList
    <3>2. remote'[t].client \in Client
        BY <2>1, <1>12 DEF LinksAgree
    <3>3. remote'[t].client = remote[t].client /\ remote'[u].client = remote[u].client
        BY <2>1, <3>1, <3>2, <1>7, ConstAssumption
    <3>. QED
        BY <2>1, <3>1, <3>3 DEF RegistryInv, OneRemote, InList
  <2>. QED
      BY <2>1 DEF OneRemote
<1>16. HasRemote'
  <2>1. ASSUME NEW t \in InList(remote)', remote'[t].client \in Client
        PROVE  client'[remote'[t].client].remote # 0
    <3>1. t \in Slot /\ t # s /\ remote[t].state # "FREE"
        BY <2>1, <1>7, <1>10 DEF InList
    <3>2. remote[t].client # c /\ remote'[t].client = remote[t].client
        BY <2>1, <3>1, <1>7, ConstAssumption
    <3>. QED
        BY <2>1, <3>1, <3>2, <1>1 DEF RegistryInv, HasRemote, InList
  <2>. QED
      BY <2>1 DEF HasRemote
<1>. QED
    BY <1>9, <1>12, <1>13, <1>14, <1>15, <1>16 DEF RegistryInv

(* usbmux_remote_close, for the remotes remote_process_send and the relay  *)
(* close.                                                                  *)
LEMMA RemoteCloseInv ==
    ASSUME TypeOK, RegistryInv, NEW s \in Slot, usbmux_remote_close(s), Stays,
           remote[s].state = "CONNECTED" \/ remote[s].ob
    PROVE  RegistryInv'
<1>1. remote[s].client \in Client \cup {None, Gone}
    BY DEF TypeOK, RemoteMux
<1>2. CASE remote[s].client \in Client
    BY <1>2, ClientCloseInv, ConstAssumption DEF usbmux_remote_close
<1>3. CASE remote[s].client = None
  <2>1. remote' = [remote EXCEPT ![s] = Blank] /\ UNCHANGED <<devices, idmap, client>>
      BY <1>3, ConstAssumption DEF usbmux_remote_close, remote_close
  <2>3. remote'[s] = Blank /\ \A t \in Slot : t # s => remote'[t] = remote[t]
      BY <2>1 DEF TypeOK
  <2>2. (BlanksAlone /\ ListenersAlone /\ ListenerIds /\ DeviceHasListener)'
      BY <2>1, <2>3, FreedInv DEF Spared
  <2>4. \A c \in Client : client[c].remote # s /\ client[c].remote \in Slot \cup {0}
    <3>1. \A c \in Client : c # None
        BY ConstAssumption
    <3>2. s # 0
        BY ConstAssumption DEF Slot
    <3>. QED
        BY <1>3, <3>1, <3>2 DEF RegistryInv, LinksAgree, TypeOK, MuxClient
  <2>5. LinksAgree'
      BY <2>1, <2>3, <2>4 DEF RegistryInv, LinksAgree, InList, Blank
  <2>6. StatesAgree'
      BY <2>1, <2>3, <2>4 DEF RegistryInv, StatesAgree, Stays
  <2>7. ConnectsPending' /\ OneRemote' /\ HasRemote'
      BY <2>1, <2>3 DEF RegistryInv, ConnectsPending, OneRemote, HasRemote, InList, Blank
  <2>. QED
      BY <2>2, <2>5, <2>6, <2>7 DEF RegistryInv
<1>4. CASE remote[s].client = Gone
  <2>1. UNCHANGED <<remote, devices, idmap, client>>
    <3>1. remote[s].client # None
        BY <1>4, ConstAssumption
    <3>. QED
        BY <1>4, <3>1 DEF usbmux_remote_close
  <2>. QED
      BY <2>1, UnchangedInv
<1>. QED
    BY <1>1, <1>2, <1>3, <1>4

(* remote_mux_service_add: the new listener has an id nobody uses.         *)
LEMMA ServiceAddInv ==
    ASSUME TypeOK, RegistryInv, NEW n, NEW e, remote_mux_service_add(n, e), Stays
    PROVE  RegistryInv'
<1>. DEFINE i == get_new_remote_id
<1>1. i \in FreeIds
    BY NewIdIsFree DEF remote_mux_service_add
<1>2. i \notin idmap
    BY <1>1 DEF FreeIds
<1>3. PICK s \in Slot : /\ remote[s].state = "FREE"
                        /\ remote' = [remote EXCEPT ![s] = NewListener(e, i, n)]
    BY DEF remote_mux_service_add, FreeSlot, InList
<1>4. idmap' = idmap \cup {i} /\ UNCHANGED <<devices, client>>
    BY DEF remote_mux_service_add
<1>. HIDE DEF i
<1>5. \A t \in Slot : t # s => remote'[t] = remote[t]
    BY <1>3 DEF TypeOK
<1>6. /\ remote'[s].state = "COMMAND"
      /\ remote'[s].id = i
      /\ remote'[s].listener = TRUE
      /\ remote'[s].client = None
      /\ remote'[s].cmd = "LISTEN"
    BY <1>3 DEF TypeOK, NewListener, Queued, NewRemote, Blank
<1>7. \A d \in devices : d[1] # i
    BY <1>2 DEF RegistryInv, DeviceHasListener, ListenerIds
<1>8. \A c \in Client : client[c].remote # s /\ client[c].remote \in Slot \cup {0}
    BY <1>3, Linked, ConstAssumption DEF TypeOK, MuxClient, Slot
<1>11. BlanksAlone'
    BY <1>5, <1>6 DEF RegistryInv, BlanksAlone
<1>12. ListenersAlone'
    BY <1>4, <1>5, <1>6, <1>7 DEF RegistryInv, ListenersAlone, InList
<1>13. ListenerIds'
    BY <1>2, <1>4, <1>5, <1>6 DEF RegistryInv, ListenerIds, Listeners, InList
<1>14. DeviceHasListener'
    BY <1>3, <1>4, <1>5 DEF RegistryInv, DeviceHasListener, Listeners, InList
<1>15. LinksAgree'
    BY <1>4, <1>5, <1>6, <1>8 DEF RegistryInv, LinksAgree, InList
<1>16. StatesAgree'
    BY <1>4, <1>5, <1>8 DEF RegistryInv, StatesAgree, Stays
<1>17. OneRemote'
    BY <1>5, <1>6 DEF RegistryInv, OneRemote, InList
<1>18. ConnectsPending'
    BY <1>4, <1>5, <1>6 DEF RegistryInv, ConnectsPending, InList
<1>19. HasRemote'
    BY <1>4, <1>5, <1>6, ConstAssumption DEF RegistryInv, HasRemote, InList
<1>. QED
    BY <1>11, <1>12, <1>13, <1>14, <1>15, <1>16, <1>17, <1>18, <1>19 DEF RegistryInv

(* The step gives position s and the state x to client c, which had o.     *)
NewConn(c, s, x, o) ==
    /\ o = client[c].remote /\ remote[s].state = "FREE" /\ client[c].state = "COMMAND"
    /\ \A t \in Slot \ {s} : /\ Spared(t)
                             /\ remote'[t].client = remote[t].client
                             /\ remote'[t].shared = (remote[t].shared \/ t = o)
    /\ remote'[s].client = c /\ remote'[s].listener = FALSE
    /\ remote'[s].cmd \in {"REQUEST", "CONNECT"} /\ remote'[s].shared = (o # 0)
    /\ remote'[s].state \in {"COMMAND", "CONNECTING1"}
    /\ client' = [client EXCEPT ![c] = x]
    /\ x.remote = s /\ x.state \in {"COMMAND", "CONNECTING1"}
    /\ remote'[s].cmd = "CONNECT" => x.state = "CONNECTING1"

(* A new connection for client c, for a Connect or another request; one it *)
(* has already is marked as shared, and so is the new one then.            *)
LEMMA NewConnInv ==
    ASSUME TypeOK, RegistryInv, Stays, UNCHANGED <<idmap, devices>>,
           NEW c \in Client, NEW s \in Slot, NEW x, NEW o, NewConn(c, s, x, o)
    PROVE  RegistryInv'
<1>0. /\ o = client[c].remote /\ remote[s].state = "FREE" /\ client[c].state = "COMMAND"
      /\ \A t \in Slot \ {s} : /\ Spared(t)
                               /\ remote'[t].client = remote[t].client
                               /\ remote'[t].shared = (remote[t].shared \/ t = o)
      /\ remote'[s].client = c /\ remote'[s].listener = FALSE
      /\ remote'[s].cmd \in {"REQUEST", "CONNECT"} /\ remote'[s].shared = (o # 0)
      /\ remote'[s].state \in {"COMMAND", "CONNECTING1"}
      /\ client' = [client EXCEPT ![c] = x]
      /\ x.remote = s /\ x.state \in {"COMMAND", "CONNECTING1"}
      /\ remote'[s].cmd = "CONNECT" => x.state = "CONNECTING1"
    BY DEF NewConn
<1>. USE <1>0
<1>1. \A t \in Slot : t # s =>
        /\ remote'[t].id = remote[t].id
        /\ remote'[t].listener = remote[t].listener
        /\ remote'[t].cmd = remote[t].cmd
        /\ remote'[t].ob = remote[t].ob
        /\ remote'[t].state = remote[t].state
        /\ remote'[t].client = remote[t].client
        /\ remote'[t].shared = (remote[t].shared \/ t = o)
    BY DEF Spared
<1>2. client'[c] = x /\ \A b \in Client : b # c => client'[b] = client[b]
    BY DEF TypeOK
<1>3. s # 0 /\ c # None /\ 0 \notin Slot
    BY ConstAssumption DEF Slot
<1>4. \A b \in Client : client[b].remote # s /\ client[b].remote \in Slot \cup {0}
    BY Linked, <1>3 DEF TypeOK, MuxClient
<1>5. ASSUME NEW t \in Slot, t # s, remote[t].state # "FREE", remote[t].client = c
      PROVE  remote'[t].shared /\ o # 0 /\ remote[t].cmd # "CONNECT"
  <2>1. remote[t].shared \/ t = o
      BY <1>3, <1>5 DEF RegistryInv, LinksAgree, InList
  <2>2. o # 0
      BY <1>5 DEF RegistryInv, HasRemote, InList
  <2>3. remote[t].cmd # "CONNECT"
      BY <1>5 DEF RegistryInv, ConnectsPending, InList
  <2>. QED
      BY <2>1, <2>2, <2>3, <1>1, <1>5
<1>11. BlanksAlone'
    BY <1>1, <1>3 DEF RegistryInv, BlanksAlone
<1>12. ListenersAlone'
    BY <1>1 DEF RegistryInv, ListenersAlone, InList
<1>13. ListenerIds'
    BY <1>1 DEF RegistryInv, ListenerIds, Listeners, InList
<1>14. DeviceHasListener'
    BY <1>1 DEF RegistryInv, DeviceHasListener, Listeners, InList
<1>15. LinksAgree'
  <2>1. ASSUME NEW t \in InList(remote)', remote'[t].client # None, ~ remote'[t].shared
        PROVE  /\ remote'[t].client \in Client
               /\ client'[remote'[t].client].state # "FREE"
               /\ client'[remote'[t].client].remote = t
    <3>1. CASE t = s
        BY <3>1, <1>2
    <3>2. CASE t # s
      <4>1. /\ t \in Slot
            /\ remote[t].state # "FREE"
            /\ remote'[t].client = remote[t].client
            /\ ~ remote[t].shared
          BY <3>2, <1>1, <2>1 DEF InList
      <4>2. remote[t].client # c
          BY <4>1, <3>2, <2>1, <1>5
      <4>. QED
          BY <4>1, <4>2, <2>1, <1>2 DEF RegistryInv, LinksAgree, InList
    <3>. QED
        BY <3>1, <3>2
  <2>2. ASSUME NEW b \in Client, client'[b].remote # 0
        PROVE  client'[b].state # "FREE" /\ remote'[client'[b].remote].client = b
    <3>1. CASE b = c
        BY <3>1, <1>2
    <3>2. CASE b # c
        BY <3>2, <2>2, <1>1, <1>2, <1>4 DEF RegistryInv, LinksAgree
    <3>. QED
        BY <3>1, <3>2
  <2>. QED
      BY <2>1, <2>2 DEF LinksAgree
<1>16. StatesAgree'
    BY <1>1, <1>2, <1>4 DEF RegistryInv, StatesAgree, Stays
<1>17. OneRemote'
  <2>1. ASSUME NEW t \in InList(remote)', NEW u \in InList(remote)',
               remote'[t].client # None, ~ remote'[t].shared, remote'[u].client = remote'[t].client
        PROVE  u = t
    <3>0. t \in Slot /\ u \in Slot
        BY DEF InList
    <3>1. CASE t = s
      <4>1. SUFFICES ASSUME u # s PROVE FALSE
          BY <3>1
      <4>2. remote[u].state # "FREE" /\ remote[u].client = c
          BY <3>0, <3>1, <4>1, <2>1, <1>1 DEF InList
      <4>3. o # 0
          BY <3>0, <4>1, <4>2, <1>5
      <4>. QED
          BY <3>1, <4>3, <2>1
    <3>2. CASE t # s
      <4>1. remote[t].state # "FREE" /\ remote'[t].client = remote[t].client /\ ~ remote[t].shared
          BY <3>0, <3>2, <1>1, <2>1 DEF InList
      <4>2. remote[t].client # c
          BY <4>1, <3>0, <3>2, <2>1, <1>5
      <4>3. u # s
          BY <4>1, <4>2, <2>1
      <4>4. remote[u].state # "FREE" /\ remote'[u].client = remote[u].client
          BY <3>0, <4>3, <1>1 DEF InList
      <4>. QED
          BY <3>0, <4>1, <4>4, <2>1 DEF RegistryInv, OneRemote, InList
    <3>. QED
        BY <3>1, <3>2
  <2>. QED
      BY <2>1 DEF OneRemote
<1>18. HasRemote'
    BY <1>1, <1>2, <1>3 DEF RegistryInv, HasRemote, InList
<1>19. ConnectsPending'
  <2>1. ASSUME NEW t \in InList(remote)', remote'[t].cmd = "CONNECT", remote'[t].client \in Client
        PROVE  /\ client'[remote'[t].client].state = "CONNECTING1"
               /\ client'[remote'[t].client].remote = t
    <3>0. t \in Slot
        BY DEF InList
    <3>1. CASE t = s
        BY <3>1, <1>2, <2>1
    <3>2. CASE t # s
      <4>1. /\ remote[t].state # "FREE" /\ remote[t].cmd = "CONNECT"
            /\ remote'[t].client = remote[t].client
          BY <3>0, <3>2, <1>1, <2>1 DEF InList
      <4>2. remote[t].client # c
          BY <4>1, <3>0, <3>2, <1>5
      <4>. QED
          BY <3>0, <4>1, <4>2, <2>1, <1>2 DEF RegistryInv, ConnectsPending, InList
    <3>. QED
        BY <3>1, <3>2
  <2>. QED
      BY <2>1 DEF ConnectsPending
<1>. QED
    BY <1>11, <1>12, <1>13, <1>14, <1>15, <1>16, <1>17, <1>18, <1>19 DEF RegistryInv

(* What Requested does to each field of each remote.                       *)
LEMMA RequestedFields ==
    ASSUME TypeOK, NEW s \in Slot, NEW r \in RemoteMux, NEW o, o = client[me].remote,
           remote' = Requested(s, r)
    PROVE  /\ \A t \in Slot \ {s} : /\ Spared(t)
                                    /\ remote'[t].client = remote[t].client
                                    /\ remote'[t].shared = (remote[t].shared \/ t = o)
           /\ remote'[s].client = r.client
           /\ remote'[s].id = r.id
           /\ remote'[s].where = r.where
           /\ remote'[s].listener = r.listener
           /\ remote'[s].cmd = r.cmd
           /\ remote'[s].state = r.state
           /\ remote'[s].shared = (o # 0)
<1>1. ASSUME NEW t \in Slot \ {s}
      PROVE  /\ Spared(t)
             /\ remote'[t].client = remote[t].client
             /\ remote'[t].shared = (remote[t].shared \/ t = o)
  <2>0. remote[t] \in RemoteMux
      BY DEF TypeOK
  <2>1. CASE t = o
    <3>1. remote'[t] = [remote[t] EXCEPT !.shared = TRUE]
        BY <2>1 DEF Requested
    <3>. QED
        BY <2>0, <2>1, <3>1 DEF RemoteMux, Spared
  <2>2. CASE t # o
    <3>1. remote'[t] = remote[t]
        BY <2>2 DEF Requested
    <3>2. remote[t].shared \in BOOLEAN
        BY <2>0 DEF RemoteMux
    <3>. QED
        BY <2>2, <3>1, <3>2 DEF Spared
  <2>. QED
      BY <2>1, <2>2
<1>2. remote'[s] = [r EXCEPT !.shared = (o # 0)]
    BY DEF Requested
<1>. QED
    BY <1>1, <1>2 DEF RemoteMux

(* A remote gets bytes to send, sends them, or has a request answered.     *)
LEMMA QuietInv ==
    ASSUME TypeOK, RegistryInv, NEW s \in Slot, NEW r,
           remote' = [remote EXCEPT ![s] = r],
           r.state = remote[s].state, r.id = remote[s].id,
           r.listener = remote[s].listener, r.client = remote[s].client,
           r.shared = remote[s].shared, r.cmd \in {remote[s].cmd, "NONE"},
           r.ob => remote[s].ob \/ ~ remote[s].listener,
           UNCHANGED <<idmap, devices, client>>, Stays
    PROVE  RegistryInv'
<1>1. remote'[s] = r /\ \A t \in Slot : t # s => remote'[t] = remote[t]
    BY DEF TypeOK
<1>2. \A b \in Client : client[b].remote \in Slot \cup {0}
    BY DEF TypeOK, MuxClient
<1>3. \A t \in Slot : /\ remote'[t].state = remote[t].state
                      /\ remote'[t].id = remote[t].id
                      /\ remote'[t].listener = remote[t].listener
                      /\ remote'[t].client = remote[t].client
                      /\ remote'[t].shared = remote[t].shared
                      /\ remote'[t].cmd \in {remote[t].cmd, "NONE"}
                      /\ remote'[t].ob => remote[t].ob \/ ~ remote[t].listener
    BY <1>1
<1>11. BlanksAlone'
    BY <1>3 DEF RegistryInv, BlanksAlone
<1>12. ListenersAlone'
    BY <1>3 DEF RegistryInv, ListenersAlone, InList
<1>13. ListenerIds'
    BY <1>3 DEF RegistryInv, ListenerIds, Listeners, InList
<1>14. DeviceHasListener'
    BY <1>3 DEF RegistryInv, DeviceHasListener, Listeners, InList
<1>15. LinksAgree'
    BY <1>2, <1>3 DEF RegistryInv, LinksAgree, InList
<1>16. StatesAgree'
    BY <1>2, <1>3 DEF RegistryInv, StatesAgree, Stays
<1>17. (HasRemote /\ OneRemote)'
    BY <1>3 DEF RegistryInv, HasRemote, OneRemote, InList
<1>18. ConnectsPending'
    BY <1>3 DEF RegistryInv, ConnectsPending, InList
<1>. QED
    BY <1>11, <1>12, <1>13, <1>14, <1>15, <1>16, <1>17, <1>18 DEF RegistryInv

(* A client changes state, or its view changes, and nothing else.          *)
LEMMA ClientOnlyInv ==
    ASSUME TypeOK, RegistryInv, UNCHANGED <<remote, idmap, devices>>, Stays,
           \A c \in Client :
              /\ client'[c].remote = client[c].remote
              /\ client[c].state # "FREE" => client'[c].state # "FREE"
              /\ client[c].state = "CONNECTING1" => client'[c].state = "CONNECTING1"
              /\ client'[c].state \in {"CONNECTING2", "CONNECTED"} =>
                    client[c].state \in {"CONNECTING2", "CONNECTED"}
    PROVE  RegistryInv'
<1>1. LinksAgree'
    BY DEF RegistryInv, LinksAgree, InList
<1>2. StatesAgree'
    BY DEF RegistryInv, StatesAgree, Stays
<1>3. (HasRemote /\ OneRemote)'
    BY DEF RegistryInv, HasRemote, OneRemote, InList
<1>4. ConnectsPending'
    BY DEF RegistryInv, ConnectsPending, InList
<1>5. (BlanksAlone /\ ListenersAlone /\ ListenerIds /\ DeviceHasListener)'
    BY DEF RegistryInv, BlanksAlone, ListenersAlone, ListenerIds,
           DeviceHasListener, Listeners, InList
<1>. QED
    BY <1>1, <1>2, <1>3, <1>4, <1>5 DEF RegistryInv

-----------------------------------------------------------------------------
(* Every action preserves RegistryInv.                                     *)

(* usbmux_remote_init leaves a registry in order.                          *)
LEMMA RegistryInit == Init => RegistryInv
<1>. SUFFICES ASSUME Init PROVE RegistryInv
    OBVIOUS
<1>1. PICK local \in BOOLEAN :
        /\ remote = [s \in Slot |->
                        IF s = 1 /\ local THEN NewListener(Unix, 0, None) ELSE Blank]
        /\ idmap = IF local THEN {0} ELSE {}
    BY DEF Init
<1>2. \A s \in Slot : /\ remote[s].client = None
                      /\ remote[s].id = 0
                      /\ remote[s].state \in {"FREE", "COMMAND"}
                      /\ remote[s].state = "COMMAND" => s = 1 /\ local = TRUE
                      /\ remote[s].cmd = "LISTEN" => remote[s].listener
                      /\ remote[s].cmd # "CONNECT"
    BY <1>1 DEF NewListener, Queued, NewRemote, Blank
<1>3. \A c \in Client : client[c].state = "FREE" /\ client[c].remote = 0
    BY DEF Init, BlankClient
<1>4. devices = {}
    BY DEF Init
<1>5. BlanksAlone /\ ListenersAlone /\ ListenerIds /\ DeviceHasListener
    BY <1>1, <1>2, <1>4
    DEF BlanksAlone, ListenersAlone, ListenerIds, DeviceHasListener, Listeners, InList
<1>6. None \notin Client
    BY ConstAssumption
<1>7. LinksAgree /\ StatesAgree /\ HasRemote /\ OneRemote /\ ConnectsPending
    BY <1>2, <1>3, <1>6
    DEF LinksAgree, StatesAgree, HasRemote, OneRemote, ConnectsPending, InList
<1>. QED
    BY <1>5, <1>7 DEF RegistryInv

(* The handlers of client.c keep the registry in order.                    *)
LEMMA RegistryClient == TypeOK /\ RegistryInv /\ ClientStep => RegistryInv'
<1>. SUFFICES ASSUME TypeOK, RegistryInv, ClientStep
              PROVE  RegistryInv'
    OBVIOUS
<1>0. /\ client \in [Client -> MuxClient]
      /\ remote \in [Slot -> RemoteMux]
      /\ pc \in {"client", "listen"} => me \in Client
    BY DEF TypeOK
<1>1. ASSUME NEW c \in Client, client_accept(c)
      PROVE  RegistryInv'
    BY <1>0, <1>1, ClientOnlyInv DEF client_accept, MuxClient, Stays
<1>2. ASSUME NEW c \in Client, client_process(c)
      PROVE  RegistryInv'
    BY <1>2, ClientOnlyInv DEF client_process, Stays
<1>3. CASE start_listen
    BY <1>0, <1>3, ClientOnlyInv
    DEF start_listen, usbmux_remote_copy_device_list, Commanding, MuxClient, Stays
<1>4. CASE start_listen_notify
    BY <1>0, <1>4, ClientOnlyInv
    DEF start_listen_notify, notify_device_add, MuxClient, Stays
<1>5. ASSUME NEW i \in Id, usbmux_remote_connect(i)
      PROVE  RegistryInv'
  <2>1. PICK w \in Where, s \in Slot :
        /\ remote[s].state = "FREE"
        /\ remote' = Requested(s, Queued([NewRemote(w) EXCEPT
              !.id = i, !.state = "CONNECTING1", !.client = me, !.cmd = "CONNECT"]))
        /\ client' = [client EXCEPT ![me] = [@ EXCEPT !.state = "CONNECTING1", !.remote = s]]
      BY <1>5 DEF usbmux_remote_connect, FreeSlot, InList
  <2>. DEFINE n == [NewRemote(w) EXCEPT
                      !.id = i, !.state = "CONNECTING1", !.client = me, !.cmd = "CONNECT"]
              r == Queued(n)
              x == [client[me] EXCEPT !.state = "CONNECTING1", !.remote = s]
              o == client[me].remote
  <2>3. me \in Client /\ client[me].state = "COMMAND"
      BY <1>0, <1>5 DEF usbmux_remote_connect, Commanding
  <2>0. r \in RemoteMux
    <3>1. n \in RemoteMux
        BY <2>3, BlankType, MadeType
    <3>. QED
        BY <3>1, UpdateType
  <2>2. r.client = me /\ r.listener = FALSE /\ r.cmd = "CONNECT" /\ r.state = "CONNECTING1"
      BY DEF Queued, NewRemote, Blank
  <2>4. x.remote = s /\ x.state = "CONNECTING1"
      BY <1>0, <2>3 DEF MuxClient
  <2>5. remote' = Requested(s, r) /\ client' = [client EXCEPT ![me] = x]
      BY <2>1
  <2>6. UNCHANGED <<idmap, devices>> /\ Stays
      BY <1>5 DEF usbmux_remote_connect, Commanding, Stays
  <2>7. remote[s].state = "FREE" /\ o = client[me].remote
      BY <2>1
  <2>. HIDE DEF n, r, x, o
  <2>8. /\ \A t \in Slot \ {s} : /\ Spared(t)
                                 /\ remote'[t].client = remote[t].client
                                 /\ remote'[t].shared = (remote[t].shared \/ t = o)
        /\ remote'[s].client = me
        /\ remote'[s].listener = FALSE
        /\ remote'[s].cmd = "CONNECT"
        /\ remote'[s].state = "CONNECTING1"
        /\ remote'[s].shared = (o # 0)
      BY <2>0, <2>2, <2>5, <2>7, RequestedFields
  <2>9. NewConn(me, s, x, o)
      BY <2>3, <2>4, <2>5, <2>7, <2>8 DEF NewConn
  <2>. QED
      BY <2>3, <2>6, <2>9, NewConnInv
<1>6. ASSUME NEW i \in Id, usbmux_remote_read_buid(i) \/ usbmux_remote_pair_record(i)
      PROVE  RegistryInv'
  <2>1. PICK w \in Where, s \in Slot :
        /\ remote[s].state = "FREE"
        /\ remote' = Requested(s,
              Queued([NewRemote(w) EXCEPT !.client = me, !.cmd = "REQUEST"]))
        /\ client' = [client EXCEPT ![me].remote = s]
      BY <1>6
      DEF usbmux_remote_read_buid, usbmux_remote_pair_record, Request, FreeSlot, InList
  <2>. DEFINE n == [NewRemote(w) EXCEPT !.client = me, !.cmd = "REQUEST"]
              r == Queued(n)
              x == [client[me] EXCEPT !.remote = s]
              o == client[me].remote
  <2>3. me \in Client /\ client[me].state = "COMMAND"
      BY <1>0, <1>6
      DEF usbmux_remote_read_buid, usbmux_remote_pair_record, Request, Commanding
  <2>0. r \in RemoteMux
    <3>1. n \in RemoteMux
        BY <2>3, BlankType, MadeType
    <3>. QED
        BY <3>1, UpdateType
  <2>2. r.client = me /\ r.listener = FALSE /\ r.cmd = "REQUEST" /\ r.state = "COMMAND"
      BY DEF Queued, NewRemote, Blank
  <2>4. x.remote = s /\ x.state = "COMMAND"
      BY <1>0, <2>3 DEF MuxClient
  <2>5. remote' = Requested(s, r) /\ client' = [client EXCEPT ![me] = x]
      BY <2>1
  <2>6. UNCHANGED <<idmap, devices>> /\ Stays
      BY <1>6
      DEF usbmux_remote_read_buid, usbmux_remote_pair_record, Request, Commanding, Stays
  <2>7. remote[s].state = "FREE" /\ o = client[me].remote
      BY <2>1
  <2>. HIDE DEF n, r, x, o
  <2>8. /\ \A t \in Slot \ {s} : /\ Spared(t)
                                 /\ remote'[t].client = remote[t].client
                                 /\ remote'[t].shared = (remote[t].shared \/ t = o)
        /\ remote'[s].client = me
        /\ remote'[s].listener = FALSE
        /\ remote'[s].cmd = "REQUEST"
        /\ remote'[s].state = "COMMAND"
        /\ remote'[s].shared = (o # 0)
      BY <2>0, <2>2, <2>5, <2>7, RequestedFields
  <2>9. NewConn(me, s, x, o)
      BY <2>3, <2>4, <2>5, <2>7, <2>8 DEF NewConn
  <2>. QED
      BY <2>3, <2>6, <2>9, NewConnInv
<1>7. ASSUME NEW e \in Endpoint, AddInstance(e)
      PROVE  RegistryInv'
    BY <1>7, ServiceAddInv DEF AddInstance, Commanding, Stays
<1>8. ASSUME NEW e \in Endpoint, RemoveInstance(e)
      PROVE  RegistryInv'
    BY <1>8, MarkDeadInv DEF RemoveInstance, Commanding, Stays
<1>9. CASE client_other
    BY <1>9, ClientOnlyInv DEF client_other, Stays
<1>10. CASE client_disconnect
    BY <1>0, <1>10, ClientCloseInv DEF client_disconnect, Stays
<1>11. CASE process_send
    BY <1>0, <1>11, ClientOnlyInv DEF process_send, MuxClient, Stays
<1>12. CASE client_relay
  <2>. DEFINE s == client[me].remote
              r == Queued(remote[s])
  <2>1. me \in Client /\ s # 0
      BY <1>0, <1>12 DEF client_relay, RegistryInv, StatesAgree
  <2>2. s \in Slot /\ ~ remote[s].listener
      BY <2>1, Linked
  <2>3. /\ r.state = remote[s].state /\ r.id = remote[s].id
        /\ r.listener = remote[s].listener /\ r.client = remote[s].client
        /\ r.cmd = remote[s].cmd /\ r.shared = remote[s].shared
      BY <1>0, <2>2 DEF Queued, RemoteMux
  <2>4. /\ remote' = [remote EXCEPT ![s] = r]
        /\ UNCHANGED <<idmap, devices, client>>
        /\ Stays
      BY <1>12 DEF client_relay, Stays
  <2>. HIDE DEF s, r
  <2>. QED
      BY <2>2, <2>3, <2>4, QuietInv
<1>. QED
    BY <1>1, <1>2, <1>3, <1>4, <1>5, <1>6, <1>7, <1>8, <1>9, <1>10, <1>11, <1>12
    DEF ClientStep

(* The answer to Listen: a refused one is forgotten.                       *)
LEMMA ListenResultInv ==
    ASSUME TypeOK, RegistryInv, NEW ok \in BOOLEAN, remote_listen_result(ok)
    PROVE  RegistryInv'
<1>1. cur \in Slot /\ remote[cur] \in RemoteMux
    BY DEF TypeOK, remote_listen_result
<1>2. UNCHANGED <<idmap, devices, client>> /\ Stays
    BY DEF remote_listen_result, Stays
<1>3. CASE ok = FALSE
  <2>1. remote' = [remote EXCEPT ![cur] = Answered(remote[cur])]
      BY <1>3 DEF remote_listen_result
  <2>. DEFINE r == Answered(remote[cur])
  <2>2. /\ r.state = remote[cur].state /\ r.id = remote[cur].id
        /\ r.listener = remote[cur].listener /\ r.client = remote[cur].client
        /\ r.cmd = "NONE" /\ r.ob = remote[cur].ob /\ r.shared = remote[cur].shared
      BY <1>1 DEF Answered, RemoteMux
  <2>. HIDE DEF r
  <2>. QED
      BY <1>1, <1>2, <2>1, <2>2, QuietInv DEF r
<1>4. CASE ok = TRUE
    BY <1>2, <1>4, UnchangedInv DEF remote_listen_result
<1>. QED
    BY <1>3, <1>4

(* ... and for one that succeeds the listener has sent its request; it     *)
(* listens even if it was marked dead in the meantime.                     *)
LEMMA ListensInv ==
    ASSUME TypeOK, RegistryInv, HeldFit, remote_listens
    PROVE  RegistryInv'
<1>1. cur \in Slot /\ remote[cur] \in RemoteMux
    BY DEF TypeOK, remote_listens
<1>2. UNCHANGED <<idmap, devices, client>> /\ Stays
    BY DEF remote_listens, Stays
<1>3. remote' = [remote EXCEPT ![cur] = Listens(remote[cur])]
    BY DEF remote_listens
<1>4. \A t \in Slot : t # cur => remote'[t] = remote[t]
    BY <1>3, <1>1 DEF TypeOK
<1>5. /\ remote'[cur].state = "LISTEN" /\ remote'[cur].id = remote[cur].id
      /\ remote'[cur].listener = remote[cur].listener
      /\ remote'[cur].client = remote[cur].client
      /\ remote'[cur].shared = remote[cur].shared
      /\ remote'[cur].cmd = "NONE" /\ remote'[cur].ob = remote[cur].ob
    BY <1>3, <1>1 DEF Listens, RemoteMux, TypeOK
<1>6. /\ remote[cur].state \in {"COMMAND", "DEAD"} /\ ~ remote[cur].ob
      /\ remote[cur].listener
    BY DEF remote_listens, HeldFit
<1>7. remote[cur].client = None
    BY <1>1, <1>6 DEF RegistryInv, ListenersAlone, InList
<1>8. \A b \in Client : client[b].remote \in Slot \cup {0} /\ client[b].remote # cur
    BY <1>1, <1>7, ConstAssumption
    DEF RegistryInv, LinksAgree, TypeOK, MuxClient, Slot
<1>11. BlanksAlone'
    BY <1>4, <1>5 DEF RegistryInv, BlanksAlone
<1>12. ListenersAlone'
  <2>1. remote'[cur].listener /\ ~ remote'[cur].ob /\ remote'[cur].client = None
      BY <1>5, <1>6, <1>7
  <2>2. UNCHANGED devices
      BY <1>2
  <2>. QED
      BY <2>1, <2>2, <1>4, <1>5 DEF RegistryInv, ListenersAlone, InList
<1>13. ListenerIds'
    BY <1>2, <1>4, <1>5, <1>6 DEF RegistryInv, ListenerIds, Listeners, InList
<1>14. DeviceHasListener'
  <2>. SUFFICES ASSUME NEW d \in devices
                PROVE  \E t \in Slot : /\ remote'[t].state \in {"LISTEN", "DEAD"}
                                       /\ remote'[t].listener
                                       /\ remote'[t].id = d[1]
      BY <1>2 DEF DeviceHasListener, Listeners, InList
  <2>1. PICK t \in Slot : /\ remote[t].state \in {"LISTEN", "DEAD"}
                          /\ remote[t].listener
                          /\ remote[t].id = d[1]
      BY DEF RegistryInv, DeviceHasListener, Listeners, InList
  <2>. QED
      BY <2>1, <1>4, <1>5
<1>15. LinksAgree'
    BY <1>2, <1>4, <1>5, <1>7, <1>8 DEF RegistryInv, LinksAgree, InList
<1>16. StatesAgree'
    BY <1>2, <1>4, <1>8 DEF RegistryInv, StatesAgree, Stays
<1>17. (HasRemote /\ OneRemote)'
    BY <1>2, <1>4, <1>5, <1>7, ConstAssumption DEF RegistryInv, HasRemote, OneRemote, InList
<1>18. ConnectsPending'
    BY <1>2, <1>4, <1>5 DEF RegistryInv, ConnectsPending, InList
<1>. QED
    BY <1>11, <1>12, <1>13, <1>14, <1>15, <1>16, <1>17, <1>18 DEF RegistryInv

(* The answer to Connect: the client is told, and waits for the remote to  *)
(* switch if it was a good one.                                            *)
LEMMA ConnectResultInv ==
    ASSUME TypeOK, RegistryInv, NEW ok \in BOOLEAN, remote_connect_result(ok)
    PROVE  RegistryInv'
<1>. DEFINE a == remote[cur].client
<1>1. /\ cur \in Slot /\ remote[cur] \in RemoteMux /\ remote[cur].state = "CONNECTING1"
      /\ remote[cur].cmd = "CONNECT"
    BY DEF TypeOK, remote_connect_result
<1>2. UNCHANGED <<idmap, devices>> /\ pc = "in"
    BY DEF remote_connect_result
<1>3. a \in Client \cup {None, Gone} /\ 0 \notin Slot
    BY <1>1, ConstAssumption DEF RemoteMux, Slot
<1>4. a \in Client => client[a].remote = cur /\ client[a].state = "CONNECTING1"
    BY <1>1 DEF RegistryInv, ConnectsPending, InList
<1>5. client \in [Client -> MuxClient]
    BY DEF TypeOK
<1>6. \A b \in Client : client[b].remote \in Slot \cup {0}
    BY <1>5 DEF MuxClient
<1>7. remote' = [remote EXCEPT ![cur] = Answered(remote[cur])]
    BY DEF remote_connect_result
<1>8. \A t \in Slot : t # cur => remote'[t] = remote[t]
    BY <1>7, <1>1 DEF TypeOK
<1>9. /\ remote'[cur].state = "CONNECTING1" /\ remote'[cur].id = remote[cur].id
      /\ remote'[cur].listener = remote[cur].listener
      /\ remote'[cur].client = remote[cur].client
      /\ remote'[cur].shared = remote[cur].shared
      /\ remote'[cur].cmd = "NONE" /\ remote'[cur].ob = remote[cur].ob
    BY <1>7, <1>1 DEF Answered, RemoteMux, TypeOK
<1>10. \A b \in Client :
        /\ client'[b].remote = client[b].remote
        /\ b # a => client'[b].state = client[b].state
        /\ b = a /\ ~ ok => client'[b].state = "COMMAND"
        /\ b = a /\ ok => client'[b].state = "CONNECTING2"
    BY <1>4, <1>5 DEF remote_connect_result, client_notify_connect, MuxClient
<1>11. ok /\ a \in Client => pc' = "connected" /\ cur' = cur
    BY ConstAssumption DEF remote_connect_result
<1>. HIDE DEF a
<1>12. \A t \in Slot :
        /\ remote'[t].state = remote[t].state
        /\ remote'[t].id = remote[t].id
        /\ remote'[t].listener = remote[t].listener
        /\ remote'[t].client = remote[t].client
        /\ remote'[t].shared = remote[t].shared
        /\ remote'[t].cmd \in {remote[t].cmd, "NONE"}
        /\ remote'[t].ob = remote[t].ob
    BY <1>1, <1>8, <1>9
<1>21. BlanksAlone'
    BY <1>12 DEF RegistryInv, BlanksAlone
<1>22. ListenersAlone'
    BY <1>2, <1>12 DEF RegistryInv, ListenersAlone, InList
<1>23. ListenerIds'
    BY <1>2, <1>12 DEF RegistryInv, ListenerIds, Listeners, InList
<1>24. DeviceHasListener'
    BY <1>2, <1>12 DEF RegistryInv, DeviceHasListener, Listeners, InList
<1>25. \A b \in Client : client[b].state # "FREE" => client'[b].state # "FREE"
    BY <1>10
<1>26. LinksAgree'
    BY <1>6, <1>10, <1>12, <1>25 DEF RegistryInv, LinksAgree, InList
<1>27. (HasRemote /\ OneRemote)'
    BY <1>10, <1>12 DEF RegistryInv, HasRemote, OneRemote, InList
<1>28. ConnectsPending'
  <2>1. ASSUME NEW t \in InList(remote)', remote'[t].cmd = "CONNECT", remote'[t].client \in Client
        PROVE  /\ client'[remote'[t].client].state = "CONNECTING1"
               /\ client'[remote'[t].client].remote = t
    <3>1. /\ t \in Slot /\ t # cur /\ remote[t].state # "FREE" /\ remote[t].cmd = "CONNECT"
          /\ remote'[t].client = remote[t].client
        BY <2>1, <1>8, <1>9 DEF InList
    <3>2. /\ client[remote[t].client].state = "CONNECTING1"
          /\ client[remote[t].client].remote = t
        BY <2>1, <3>1 DEF RegistryInv, ConnectsPending, InList
    <3>3. remote[t].client # a
        BY <3>1, <3>2, <2>1, <1>4
    <3>. QED
        BY <3>1, <3>2, <3>3, <2>1, <1>10
  <2>. QED
      BY <2>1 DEF ConnectsPending
<1>29. StatesAgree'
  <2>1. ASSUME NEW b \in Client, client'[b].state \in {"CONNECTING2", "CONNECTED"}
        PROVE  /\ client'[b].remote # 0
               /\ \/ remote'[client'[b].remote].state \in {"CONNECTED", "DEAD"}
                  \/ pc' \in {"connected", "freed"} /\ cur' = client'[b].remote
    <3>1. CASE b = a
      <4>1. ok
          BY <2>1, <3>1, <1>10
      <4>. QED
          BY <2>1, <3>1, <4>1, <1>1, <1>3, <1>4, <1>10, <1>11
    <3>2. CASE b # a
        BY <2>1, <3>2, <1>2, <1>6, <1>10, <1>12 DEF RegistryInv, StatesAgree
    <3>. QED
        BY <3>1, <3>2
  <2>. QED
      BY <2>1 DEF StatesAgree
<1>. QED
    BY <1>21, <1>22, <1>23, <1>24, <1>26, <1>27, <1>28, <1>29 DEF RegistryInv

(* ... and the remote switches, dead or not.                               *)
LEMMA ConnectedInv ==
    ASSUME TypeOK, RegistryInv, HeldFit, remote_connected
    PROVE  RegistryInv'
<1>1. cur \in Slot /\ remote[cur] \in RemoteMux
    BY DEF TypeOK, remote_connected
<1>2. UNCHANGED <<idmap, devices, client>>
    BY DEF remote_connected
<1>3. remote[cur].state \in {"CONNECTING1", "DEAD"} /\ ~ remote[cur].listener
    BY DEF remote_connected, HeldFit
<1>4. remote' = [remote EXCEPT ![cur] = Connected(remote[cur])]
    BY DEF remote_connected
<1>5. \A t \in Slot : t # cur => remote'[t] = remote[t]
    BY <1>4, <1>1 DEF TypeOK
<1>6. /\ remote'[cur].state = "CONNECTED" /\ remote'[cur].id = remote[cur].id
      /\ remote'[cur].listener = remote[cur].listener
      /\ remote'[cur].client = remote[cur].client
      /\ remote'[cur].shared = remote[cur].shared
      /\ remote'[cur].cmd = remote[cur].cmd /\ remote'[cur].ob = remote[cur].ob
    BY <1>4, <1>1 DEF Connected, RemoteMux, TypeOK
<1>7. \A t \in Slot :
        /\ remote'[t].id = remote[t].id
        /\ remote'[t].listener = remote[t].listener
        /\ remote'[t].client = remote[t].client
        /\ remote'[t].shared = remote[t].shared
        /\ remote'[t].cmd = remote[t].cmd
        /\ remote'[t].ob = remote[t].ob
        /\ \/ remote'[t].state = remote[t].state
           \/ t = cur /\ remote[t].state # "FREE" /\ remote'[t].state = "CONNECTED"
    BY <1>1, <1>3, <1>5, <1>6
<1>8. \A b \in Client : client[b].remote \in Slot \cup {0}
    BY DEF TypeOK, MuxClient
<1>11. BlanksAlone'
    BY <1>7 DEF RegistryInv, BlanksAlone
<1>12. ListenersAlone'
    BY <1>2, <1>7 DEF RegistryInv, ListenersAlone, InList
<1>13. ListenerIds'
    BY <1>2, <1>7 DEF RegistryInv, ListenerIds, Listeners, InList
<1>14. DeviceHasListener'
    BY <1>2, <1>3, <1>7 DEF RegistryInv, DeviceHasListener, Listeners, InList
<1>15. LinksAgree'
    BY <1>2, <1>7, <1>8 DEF RegistryInv, LinksAgree, InList
<1>16. StatesAgree'
  <2>1. \A t \in Slot : /\ t = cur => remote'[t].state = "CONNECTED"
                        /\ t # cur => remote'[t].state = remote[t].state
      BY <1>5, <1>6
  <2>2. pc = "connected"
      BY DEF remote_connected
  <2>. QED
      BY <1>2, <1>8, <2>1, <2>2 DEF RegistryInv, StatesAgree
<1>17. (HasRemote /\ OneRemote)'
    BY <1>2, <1>7 DEF RegistryInv, HasRemote, OneRemote, InList
<1>18. ConnectsPending'
    BY <1>2, <1>7 DEF RegistryInv, ConnectsPending, InList
<1>. QED
    BY <1>11, <1>12, <1>13, <1>14, <1>15, <1>16, <1>17, <1>18 DEF RegistryInv

(* Attached: the device gets the id of the listener that reports it.       *)
LEMMA DeviceAddInv ==
    ASSUME TypeOK, RegistryInv, NEW d \in Device, remote_device_add(d)
    PROVE  RegistryInv'
<1>1. cur \in Slot /\ remote[cur].state = "LISTEN"
    BY DEF TypeOK, remote_device_add
<1>2. remote[cur].listener /\ ~ remote[cur].ob
    BY <1>1 DEF RegistryInv, ListenersAlone, InList
<1>3. UNCHANGED <<remote, idmap>> /\ devices' = devices \cup {<<remote[cur].id, d>>}
    BY DEF remote_device_add
<1>4. \A c \in Client : client'[c].remote = client[c].remote /\ client'[c].state = client[c].state
    BY DEF remote_device_add, client_device_add, notify_device_add, TypeOK, MuxClient
<1>5. Stays
    BY DEF remote_device_add, Stays
<1>12. ListenersAlone'
    BY <1>1, <1>2, <1>3 DEF RegistryInv, ListenersAlone, ListenerIds, Listeners, InList
<1>14. DeviceHasListener'
    BY <1>1, <1>2, <1>3 DEF RegistryInv, DeviceHasListener, Listeners, InList
<1>15. LinksAgree'
    BY <1>3, <1>4 DEF RegistryInv, LinksAgree, InList
<1>16. StatesAgree'
    BY <1>3, <1>4, <1>5 DEF RegistryInv, StatesAgree, Stays
<1>17. (HasRemote /\ OneRemote /\ ConnectsPending)'
    BY <1>3, <1>4 DEF RegistryInv, HasRemote, OneRemote, ConnectsPending, InList
<1>. QED
    BY <1>3, <1>12, <1>14, <1>15, <1>16, <1>17
    DEF RegistryInv, BlanksAlone, ListenerIds, Listeners, InList

(* Detached: one device less.                                              *)
LEMMA DeviceRemoveInv ==
    ASSUME TypeOK, RegistryInv, NEW d \in Device, remote_device_remove(d)
    PROVE  RegistryInv'
<1>3. UNCHANGED <<remote, idmap>> /\ devices' \subseteq devices
    BY DEF remote_device_remove
<1>4. \A c \in Client : client'[c].remote = client[c].remote /\ client'[c].state = client[c].state
    BY
    DEF remote_device_remove, client_device_remove, notify_device_remove, TypeOK,
        MuxClient
<1>5. Stays
    BY DEF remote_device_remove, Stays
<1>12. ListenersAlone'
    BY <1>3 DEF RegistryInv, ListenersAlone, InList
<1>14. DeviceHasListener'
    BY <1>3 DEF RegistryInv, DeviceHasListener, Listeners, InList
<1>15. LinksAgree'
    BY <1>3, <1>4 DEF RegistryInv, LinksAgree, InList
<1>16. StatesAgree'
    BY <1>3, <1>4, <1>5 DEF RegistryInv, StatesAgree, Stays
<1>17. (HasRemote /\ OneRemote /\ ConnectsPending)'
    BY <1>3, <1>4 DEF RegistryInv, HasRemote, OneRemote, ConnectsPending, InList
<1>. QED
    BY <1>3, <1>12, <1>14, <1>15, <1>16, <1>17
    DEF RegistryInv, BlanksAlone, ListenerIds, Listeners, InList

(* The handlers of usbmux_remote.c keep the registry in order.             *)
LEMMA RegistryRemote == TypeOK /\ RegistryInv /\ HeldFit /\ RemoteStep => RegistryInv'
<1>. SUFFICES ASSUME TypeOK, RegistryInv, HeldFit, RemoteStep
              PROVE  RegistryInv'
    OBVIOUS
<1>0. /\ remote \in [Slot -> RemoteMux]
      /\ pc \in {"in", "out"} => cur \in Slot
    BY DEF TypeOK
<1>1. ASSUME NEW s \in Slot, NEW e \in {"in", "out"}, usbmux_remote_process(s, e)
      PROVE  RegistryInv'
  <2>1. Dead(remote) \in SUBSET InList(remote)
      BY DEF Dead, InList
  <2>. QED
      BY <2>1, <1>1, DyingSame, DisposeInv DEF usbmux_remote_process, Stays
<1>2. ASSUME NEW s \in Slot, usbmux_remote_process_nval(s)
      PROVE  RegistryInv'
  <2>1. Dead(remote) \cup {s} \in SUBSET InList(remote)
      BY <1>2 DEF usbmux_remote_process_nval, Alive, Dead, InList
  <2>. QED
      BY <2>1, <1>2, DyingSame, DisposeInv DEF usbmux_remote_process_nval, Stays
<1>3. CASE remote_recv_eof
    BY <1>0, <1>3, MarkDeadInv DEF remote_recv_eof, Stays
<1>4. CASE remote_request_result
  <2>. DEFINE r == Answered(remote[cur])
  <2>1. cur \in Slot
      BY <1>0, <1>4 DEF remote_request_result
  <2>2. /\ r.state = remote[cur].state /\ r.id = remote[cur].id
        /\ r.listener = remote[cur].listener /\ r.client = remote[cur].client
        /\ r.cmd = "NONE" /\ r.ob = remote[cur].ob /\ r.shared = remote[cur].shared
      BY <1>0, <2>1 DEF Answered, RemoteMux
  <2>3. /\ remote' = [remote EXCEPT ![cur] = r]
        /\ UNCHANGED <<idmap, devices, client>>
        /\ Stays
      BY <1>4 DEF remote_request_result, Stays
  <2>. HIDE DEF r
  <2>. QED
      BY <2>1, <2>2, <2>3, QuietInv
<1>5. ASSUME NEW ok \in BOOLEAN, remote_listen_result(ok)
      PROVE  RegistryInv'
    BY <1>5, ListenResultInv
<1>6. ASSUME NEW ok \in BOOLEAN, remote_connect_result(ok)
      PROVE  RegistryInv'
    BY <1>6, ConnectResultInv
<1>7. ASSUME NEW d \in Device, remote_device_add(d)
      PROVE  RegistryInv'
    BY <1>7, DeviceAddInv
<1>8. ASSUME NEW d \in Device, remote_device_remove(d)
      PROVE  RegistryInv'
    BY <1>8, DeviceRemoveInv
<1>9. CASE remote_process_send
  <2>. DEFINE r == Sent(remote[cur])
  <2>1. cur \in Slot
      BY <1>0, <1>9 DEF remote_process_send
  <2>2. /\ r.state = remote[cur].state /\ r.id = remote[cur].id
        /\ r.listener = remote[cur].listener /\ r.client = remote[cur].client
        /\ r.cmd = remote[cur].cmd /\ r.ob = FALSE /\ r.shared = remote[cur].shared
      BY <1>0, <2>1 DEF Sent, RemoteMux
  <2>3. /\ remote' = [remote EXCEPT ![cur] = r]
        /\ UNCHANGED <<idmap, devices, client>>
        /\ Stays
      BY <1>9 DEF remote_process_send, Stays
  <2>. HIDE DEF r
  <2>. QED
      BY <2>1, <2>2, <2>3, QuietInv
<1>10. CASE remote_send_fails
    BY <1>0, <1>10, RemoteCloseInv DEF remote_send_fails, Stays
<1>11. CASE remote_hangup
    BY <1>0, <1>11, RemoteCloseInv DEF remote_hangup, Stays
<1>12. CASE remote_other
    BY <1>12, UnchangedInv DEF remote_other, Stays
<1>13. CASE remote_relay
    BY <1>13, UnchangedInv DEF remote_relay, Stays
<1>14. CASE remote_listens
    BY <1>14, ListensInv
<1>15. CASE remote_connected
    BY <1>15, ConnectedInv
<1>. QED
    BY <1>1, <1>2, <1>3, <1>4, <1>5, <1>6, <1>7, <1>8, <1>9, <1>10, <1>11, <1>12, <1>13,
       <1>14, <1>15
    DEF RemoteStep

(* ... and so do the callbacks of the mDNS thread, wherever the main       *)
(* thread is.                                                              *)
LEMMA RegistryMdns == TypeOK /\ RegistryInv /\ MdnsStep => RegistryInv'
<1>. SUFFICES ASSUME TypeOK, RegistryInv, MdnsStep
              PROVE  RegistryInv'
    OBVIOUS
<1>1. ASSUME NEW n \in Service, NEW e \in Endpoint, service_resolve(n, e)
      PROVE  RegistryInv'
    BY <1>1, ServiceAddInv DEF service_resolve, Stays
<1>2. ASSUME NEW n \in Service, service_browse_remove(n)
      PROVE  RegistryInv'
  <2>1. Stays
      BY <1>2 DEF service_browse_remove, Stays
  <2>. QED
      BY <1>2, <2>1, MarkDeadInv DEF service_browse_remove
<1>. QED
    BY <1>1, <1>2 DEF MdnsStep

-----------------------------------------------------------------------------
(* What the main thread holds between the two halves of a handler.         *)

(* The handlers of client.c leave the main thread with no remote.          *)
LEMMA HeldClient == ClientStep => HeldFit'
<1>. SUFFICES ASSUME ClientStep PROVE pc' \notin {"listened", "connected"}
    BY DEF HeldFit
<1>1. ASSUME NEW c \in Client, client_accept(c) \/ client_process(c)
      PROVE  pc' \notin {"listened", "connected"}
    BY <1>1 DEF client_accept, client_process
<1>2. CASE start_listen \/ start_listen_notify
    BY <1>2 DEF start_listen, start_listen_notify, Return
<1>3. ASSUME NEW i \in Id, \/ usbmux_remote_connect(i)
                          \/ usbmux_remote_read_buid(i) \/ usbmux_remote_pair_record(i)
      PROVE  pc' \notin {"listened", "connected"}
    BY <1>3
    DEF usbmux_remote_connect, usbmux_remote_read_buid, usbmux_remote_pair_record,
        Request, Return
<1>4. ASSUME NEW e \in Endpoint, AddInstance(e) \/ RemoveInstance(e)
      PROVE  pc' \notin {"listened", "connected"}
    BY <1>4 DEF AddInstance, RemoveInstance, Return, ReturnUnless
<1>5. CASE client_other \/ client_disconnect \/ process_send \/ client_relay
    BY <1>5 DEF client_other, client_disconnect, process_send, client_relay, Return
<1>. QED
    BY <1>1, <1>2, <1>3, <1>4, <1>5 DEF ClientStep

(* The first half of an answer's handler leaves it with a remote that fits. *)
LEMMA HeldRemote == TypeOK /\ RegistryInv /\ RemoteStep => HeldFit'
<1>. SUFFICES ASSUME TypeOK, RegistryInv, RemoteStep PROVE HeldFit'
    OBVIOUS
<1>1. ASSUME NEW ok \in BOOLEAN, remote_listen_result(ok)
      PROVE  HeldFit'
  <2>1. /\ cur \in Slot /\ remote[cur].state = "COMMAND" /\ ~ remote[cur].ob
        /\ remote[cur].listener
      BY <1>1
      DEF TypeOK, remote_listen_result, RegistryInv, ListenersAlone, InList
  <2>2. \/ pc' = "listened" /\ UNCHANGED <<remote, cur>>
        \/ pc' = "poll"
      BY <1>1 DEF remote_listen_result, Return
  <2>. QED
      BY <2>1, <2>2 DEF HeldFit
<1>2. ASSUME NEW ok \in BOOLEAN, remote_connect_result(ok)
      PROVE  HeldFit'
  <2>1. /\ cur \in Slot /\ remote[cur].state = "CONNECTING1"
        /\ ~ remote[cur].listener /\ remote[cur] \in RemoteMux
      BY <1>2
      DEF TypeOK, remote_connect_result, RegistryInv, ListenersAlone, InList
  <2>2. remote' = [remote EXCEPT ![cur] = Answered(remote[cur])]
      BY <1>2 DEF remote_connect_result
  <2>3. remote'[cur].state = "CONNECTING1" /\ remote'[cur].listener = remote[cur].listener
      BY <2>1, <2>2 DEF Answered, RemoteMux, TypeOK
  <2>4. \/ pc' = "connected" /\ cur' = cur
        \/ pc' \in {"poll", "freed"}
      BY <1>2 DEF remote_connect_result, Return, ReturnUnless
  <2>. QED
      BY <2>1, <2>3, <2>4 DEF HeldFit
<1>3. SUFFICES ASSUME ~ \E ok \in BOOLEAN : remote_listen_result(ok) \/ remote_connect_result(ok)
               PROVE  pc' \notin {"listened", "connected"}
    BY <1>1, <1>2 DEF HeldFit
<1>4. ASSUME NEW s \in Slot, NEW e \in {"in", "out"}, usbmux_remote_process(s, e)
      PROVE  pc' \notin {"listened", "connected"}
    BY <1>4 DEF usbmux_remote_process, Return, ReturnUnless
<1>5. ASSUME NEW s \in Slot, usbmux_remote_process_nval(s)
      PROVE  pc' \notin {"listened", "connected"}
    BY <1>5 DEF usbmux_remote_process_nval, Return, ReturnUnless
<1>6. ASSUME NEW d \in Device, remote_device_add(d) \/ remote_device_remove(d)
      PROVE  pc' \notin {"listened", "connected"}
    BY <1>6 DEF remote_device_add, remote_device_remove, Return
<1>7. CASE remote_recv_eof \/ remote_request_result \/ remote_listens \/ remote_connected
    BY <1>7
    DEF remote_recv_eof, remote_request_result, remote_listens, remote_connected,
        Return, ReturnUnless
<1>8. CASE remote_process_send \/ remote_send_fails \/ remote_hangup
    BY <1>8
    DEF remote_process_send, remote_send_fails, remote_hangup, Return, ReturnUnless
<1>9. CASE remote_relay \/ remote_other
    BY <1>9 DEF remote_relay, remote_other, Return, ReturnUnless
<1>. QED
    BY <1>3, <1>4, <1>5, <1>6, <1>7, <1>8, <1>9 DEF RemoteStep

(* The mDNS thread may mark it dead; if it takes it out of the list the    *)
(* main thread uses freed memory.                                          *)
LEMMA HeldMdns == TypeOK /\ HeldFit /\ MdnsStep => HeldFit'
<1>. SUFFICES ASSUME TypeOK, HeldFit, MdnsStep PROVE HeldFit'
    OBVIOUS
<1>0. "mdns" \in Env
    BY DEF MdnsStep, service_resolve, service_browse_remove
<1>1. ASSUME NEW n \in Service, NEW e \in Endpoint, service_resolve(n, e)
      PROVE  HeldFit'
  <2>1. PICK s \in Slot : /\ remote[s].state = "FREE"
                          /\ \A t \in Slot : t # s => remote'[t] = remote[t]
      BY <1>1 DEF service_resolve, remote_mux_service_add, FreeSlot, InList, TypeOK
  <2>2. pc' = pc /\ cur' = cur
      BY <1>1 DEF service_resolve
  <2>3. pc \in {"listened", "connected"} => cur \in Slot /\ remote[cur].state # "FREE"
      BY DEF TypeOK, HeldFit
  <2>4. pc \in {"listened", "connected"} => remote'[cur] = remote[cur]
      BY <2>1, <2>3
  <2>. QED
      BY <2>2, <2>4 DEF HeldFit
<1>2. ASSUME NEW n \in Service, service_browse_remove(n)
      PROVE  HeldFit'
  <2>. SUFFICES ASSUME pc' \in {"listened", "connected"}
                PROVE  HeldFit'
      BY DEF HeldFit
  <2>1. PICK s \in Slot : remote_mark_dead(s)
      BY <1>2 DEF service_browse_remove
  <2>2. pc' = pc /\ cur' = cur /\ remote'[cur].state # "FREE"
      BY <1>2 DEF service_browse_remove, Holding
  <2>3. cur \in Slot
      BY <2>2 DEF TypeOK
  <2>. DEFINE R == MarkedDead(s)
  <2>4. Dying(R)
      BY DyingMarked
  <2>5. \/ Alive(R) # {} /\ remote' = [R EXCEPT ![First(Alive(R))].out = TRUE]
        \/ usbmux_remote_dispose(R, InList(R))
      BY <2>1 DEF remote_mark_dead
  <2>. HIDE DEF R
  <2>6. CASE usbmux_remote_dispose(R, InList(R))
    <3>1. cur \notin InList(R)
        BY <2>2, <2>3, <2>6 DEF usbmux_remote_dispose, Blank
    <3>2. FALSE
        BY <3>1, <2>2, <2>3, <2>4 DEF InList, Dying, HeldFit
    <3>. QED
        BY <3>2
  <2>7. CASE Alive(R) # {} /\ remote' = [R EXCEPT ![First(Alive(R))].out = TRUE]
    <3>1. First(Alive(R)) \in Slot
        BY <2>7, FirstIsMember DEF Alive, InList
    <3>2. Dying(remote')
        BY <2>4, <2>7, <3>1, DyingEvent
    <3>. QED
        BY <1>0, <2>2, <2>3, <3>2 DEF Dying, HeldFit
  <2>. QED
      BY <2>5, <2>6, <2>7
<1>. QED
    BY <1>1, <1>2 DEF MdnsStep

-----------------------------------------------------------------------------
(* Who listens knows every device.                                         *)

(* A step that adds no device and no listening client, and takes no device *)
(* that is still there out of a view.                                      *)
ViewsKept ==
    /\ devices' \subseteq devices
    /\ \A c \in Client : client'[c].state = "LISTEN" =>
            client[c].state = "LISTEN" /\ client[c].view \cap devices' \subseteq client'[c].view

(* A step that adds no device and keeps what listening clients know keeps  *)
(* their views complete.                                                   *)
LEMMA KeptView ==
    ASSUME ViewComplete, SnapFresh, ViewsKept, pc # "listen", pc' # "listen"
    PROVE  (ViewComplete /\ SnapFresh)'
BY DEF ViewComplete, SnapFresh, ViewsKept, Listening

(* usbmux_remote_dispose is such a step: Detached goes out only for        *)
(* devices that leave the list.                                            *)
LEMMA DisposeView ==
    ASSUME TypeOK, NEW R, NEW S, usbmux_remote_dispose(R, S)
    PROVE  ViewsKept
<1>1. devices' = devices \ Lost(R, S)
    BY DEF usbmux_remote_dispose
<1>2. ASSUME NEW c \in Client, client'[c].state = "LISTEN"
      PROVE  client[c].state = "LISTEN" /\ client'[c].view = client[c].view \ Lost(R, S)
    BY <1>2
    DEF usbmux_remote_dispose, ClientsAfterDispose, client_device_remove,
        notify_device_remove, BlankClient, TypeOK, MuxClient
<1>. QED
    BY <1>1, <1>2 DEF ViewsKept

(* remote_mark_dead is one too.                                            *)
LEMMA MarkDeadView ==
    ASSUME TypeOK, NEW s, remote_mark_dead(s)
    PROVE  ViewsKept
<1>1. CASE UNCHANGED <<devices, idmap, client>>
    BY <1>1 DEF ViewsKept
<1>2. CASE usbmux_remote_dispose(MarkedDead(s), InList(MarkedDead(s)))
    BY <1>2, DisposeView
<1>. QED
    BY <1>1, <1>2 DEF remote_mark_dead

(* client_close is one: the client that goes listens no more.              *)
LEMMA ClientCloseView ==
    ASSUME TypeOK, NEW c, client_close(c)
    PROVE  ViewsKept
<1>1. UNCHANGED devices
    BY DEF client_close, remote_close
<1>2. \A b \in Client : client'[b] \in {client[b], BlankClient}
    BY DEF client_close, TypeOK
<1>. QED
    BY <1>1, <1>2 DEF ViewsKept, BlankClient

(* usbmux_remote_close is one.                                             *)
LEMMA RemoteCloseView ==
    ASSUME TypeOK, NEW s, usbmux_remote_close(s)
    PROVE  ViewsKept
<1>1. CASE client_close(remote[s].client)
    BY <1>1, ClientCloseView
<1>2. CASE UNCHANGED <<devices, client>>
    BY <1>2 DEF ViewsKept
<1>. QED
    BY <1>1, <1>2 DEF usbmux_remote_close, remote_close

(* The handlers of client.c keep the views complete, start_listen by way   *)
(* of its copy.                                                            *)
LEMMA ViewClient ==
    TypeOK /\ ViewComplete /\ SnapFresh /\ ClientStep => (ViewComplete /\ SnapFresh)'
<1>. SUFFICES ASSUME TypeOK, ViewComplete, SnapFresh, ClientStep
              PROVE  (ViewComplete /\ SnapFresh)'
    OBVIOUS
<1>0. client \in [Client -> MuxClient]
    BY DEF TypeOK
<1>1. ASSUME NEW c \in Client, client_accept(c)
      PROVE  (ViewComplete /\ SnapFresh)'
    BY <1>0, <1>1, KeptView DEF client_accept, ViewsKept, MuxClient
<1>2. ASSUME NEW c \in Client, client_process(c)
      PROVE  (ViewComplete /\ SnapFresh)'
    BY <1>2, KeptView DEF client_process, ViewsKept
<1>3. CASE start_listen
  <2>1. \A c \in Client : c # me => client'[c] = client[c]
      BY <1>0, <1>3 DEF start_listen
  <2>2. pc # "listen" /\ pc' = "listen" /\ me' = me /\ snap' = devices /\ devices' = devices
      BY <1>3 DEF start_listen, usbmux_remote_copy_device_list, Commanding
  <2>. QED
      BY <2>1, <2>2 DEF ViewComplete, SnapFresh, Listening
<1>4. CASE start_listen_notify
  <2>1. \A c \in Client : c # me => client'[c] = client[c]
      BY <1>0, <1>4 DEF start_listen_notify
  <2>2. pc = "listen" /\ pc' = "poll" /\ devices' = devices
      BY <1>4 DEF start_listen_notify, Return
  <2>3. me \in Client => client'[me].view = client[me].view \cup snap
      BY <1>0, <1>4 DEF start_listen_notify, notify_device_add, MuxClient
  <2>. QED
      BY <2>1, <2>2, <2>3 DEF ViewComplete, SnapFresh, Listening
<1>5. ASSUME NEW i \in Id, usbmux_remote_connect(i)
      PROVE  (ViewComplete /\ SnapFresh)'
  <2>1. PICK s \in Slot :
            client' = [client EXCEPT ![me] = [@ EXCEPT !.state = "CONNECTING1", !.remote = s]]
      BY <1>5 DEF usbmux_remote_connect
  <2>2. \A c \in Client : client'[c] = client[c] \/ client'[c].state = "CONNECTING1"
      BY <2>1, <1>0 DEF MuxClient
  <2>. QED
      BY <2>2, <1>5, KeptView DEF usbmux_remote_connect, Commanding, Return, ViewsKept
<1>6. ASSUME NEW i \in Id, usbmux_remote_read_buid(i) \/ usbmux_remote_pair_record(i)
      PROVE  (ViewComplete /\ SnapFresh)'
  <2>1. PICK s \in Slot : client' = [client EXCEPT ![me].remote = s]
      BY <1>6 DEF usbmux_remote_read_buid, usbmux_remote_pair_record, Request
  <2>2. \A c \in Client : client'[c].state = client[c].state /\ client'[c].view = client[c].view
      BY <2>1, <1>0 DEF MuxClient
  <2>. QED
      BY <2>2, <1>6, KeptView
      DEF usbmux_remote_read_buid, usbmux_remote_pair_record, Request, Commanding,
          Return, ViewsKept
<1>7. ASSUME NEW e \in Endpoint, AddInstance(e)
      PROVE  (ViewComplete /\ SnapFresh)'
    BY <1>7, KeptView
    DEF AddInstance, remote_mux_service_add, Commanding, Return, ViewsKept
<1>8. ASSUME NEW e \in Endpoint, RemoveInstance(e)
      PROVE  (ViewComplete /\ SnapFresh)'
    BY <1>8, MarkDeadView, KeptView DEF RemoveInstance, Commanding, Return, ReturnUnless
<1>9. CASE client_other
    BY <1>9, KeptView DEF client_other, Return, ViewsKept
<1>10. CASE client_disconnect
    BY <1>10, ClientCloseView, KeptView DEF client_disconnect, Return
<1>11. CASE process_send
    BY <1>0, <1>11, KeptView DEF process_send, Return, ViewsKept, MuxClient
<1>12. CASE client_relay
    BY <1>12, KeptView DEF client_relay, Return, ViewsKept
<1>. QED
    BY <1>1, <1>2, <1>3, <1>4, <1>5, <1>6, <1>7, <1>8, <1>9, <1>10, <1>11, <1>12
    DEF ClientStep

(* The handlers of usbmux_remote.c keep them complete: the main thread is  *)
(* not in start_listen then.                                               *)
LEMMA ViewRemote ==
    TypeOK /\ ViewComplete /\ SnapFresh /\ RemoteStep => (ViewComplete /\ SnapFresh)'
<1>. SUFFICES ASSUME TypeOK, ViewComplete, SnapFresh, RemoteStep
              PROVE  (ViewComplete /\ SnapFresh)'
    OBVIOUS
<1>0. client \in [Client -> MuxClient]
    BY DEF TypeOK
<1>1. ASSUME NEW s \in Slot, NEW e \in {"in", "out"}, usbmux_remote_process(s, e)
      PROVE  (ViewComplete /\ SnapFresh)'
    BY <1>1, DisposeView, KeptView DEF usbmux_remote_process, Return, ReturnUnless
<1>2. ASSUME NEW s \in Slot, usbmux_remote_process_nval(s)
      PROVE  (ViewComplete /\ SnapFresh)'
    BY <1>2, DisposeView, KeptView
    DEF usbmux_remote_process_nval, Return, ReturnUnless
<1>3. CASE remote_recv_eof
    BY <1>3, MarkDeadView, KeptView DEF remote_recv_eof, Return, ReturnUnless
<1>4. CASE remote_request_result
    BY <1>4, KeptView DEF remote_request_result, Return, ReturnUnless, ViewsKept
<1>5. ASSUME NEW ok \in BOOLEAN, remote_listen_result(ok)
      PROVE  (ViewComplete /\ SnapFresh)'
    BY <1>5, KeptView DEF remote_listen_result, Return, ViewsKept
<1>6. ASSUME NEW ok \in BOOLEAN, remote_connect_result(ok)
      PROVE  (ViewComplete /\ SnapFresh)'
  <2>1. \A c \in Client : \/ client'[c] = client[c]
                          \/ client'[c].state \in {"CONNECTING2", "COMMAND"}
      BY <1>0, <1>6, ConnectResultClient DEF MuxClient
  <2>2. UNCHANGED devices /\ pc = "in" /\ pc' # "listen"
      BY <1>6 DEF remote_connect_result, Return, ReturnUnless
  <2>. QED
      BY <2>1, <2>2, KeptView DEF ViewsKept
<1>7. ASSUME NEW d \in Device, remote_device_add(d)
      PROVE  (ViewComplete /\ SnapFresh)'
  <2>. DEFINE k == <<remote[cur].id, d>>
  <2>1. devices' = devices \cup {k} /\ pc = "in" /\ pc' = "poll"
      BY <1>7 DEF remote_device_add, Return
  <2>2. \A c \in Client : client'[c].state = "LISTEN" =>
            client[c].state = "LISTEN" /\ client'[c].view = client[c].view \cup {k}
      BY <1>0, <1>7
      DEF remote_device_add, client_device_add, notify_device_add, MuxClient
  <2>. HIDE DEF k
  <2>. QED
      BY <2>1, <2>2 DEF ViewComplete, SnapFresh, Listening
<1>8. ASSUME NEW d \in Device, remote_device_remove(d)
      PROVE  (ViewComplete /\ SnapFresh)'
  <2>. DEFINE k == <<remote[cur].id, d>>
  <2>1. devices' = devices \ {k} /\ pc = "in" /\ pc' = "poll"
      BY <1>8 DEF remote_device_remove, Return
  <2>2. \A c \in Client : client'[c].state = "LISTEN" =>
            client[c].state = "LISTEN" /\ client'[c].view = client[c].view \ {k}
      BY <1>0, <1>8
      DEF remote_device_remove, client_device_remove, notify_device_remove, MuxClient
  <2>. HIDE DEF k
  <2>. QED
      BY <2>1, <2>2 DEF ViewComplete, SnapFresh, Listening
<1>9. CASE remote_process_send
    BY <1>9, KeptView DEF remote_process_send, Return, ReturnUnless, ViewsKept
<1>10. CASE remote_send_fails
    BY <1>10, RemoteCloseView, KeptView DEF remote_send_fails, Return, ReturnUnless
<1>11. CASE remote_hangup
    BY <1>11, RemoteCloseView, KeptView DEF remote_hangup, Return, ReturnUnless
<1>12. CASE remote_other
    BY <1>12, KeptView DEF remote_other, Return, ViewsKept
<1>13. CASE remote_relay
    BY <1>13, KeptView DEF remote_relay, Return, ReturnUnless, ViewsKept
<1>14. CASE remote_listens \/ remote_connected
    BY <1>14, KeptView DEF remote_listens, remote_connected, Return, ViewsKept
<1>. QED
    BY <1>1, <1>2, <1>3, <1>4, <1>5, <1>6, <1>7, <1>8, <1>9, <1>10, <1>11, <1>12, <1>13,
       <1>14
    DEF RemoteStep

(* The mDNS thread adds no device, so the copy start_listen holds stays    *)
(* complete.                                                               *)
LEMMA ViewMdns ==
    TypeOK /\ RegistryInv /\ ViewComplete /\ SnapFresh /\ MdnsStep
    => (ViewComplete /\ SnapFresh)'
<1>. SUFFICES ASSUME TypeOK, RegistryInv, ViewComplete, SnapFresh, MdnsStep
              PROVE  (ViewComplete /\ SnapFresh)'
    OBVIOUS
<1>1. ASSUME NEW n \in Service, NEW e \in Endpoint, service_resolve(n, e)
      PROVE  (ViewComplete /\ SnapFresh)'
    BY <1>1
    DEF service_resolve, remote_mux_service_add, ViewComplete, SnapFresh, Listening
<1>2. ASSUME NEW n \in Service, service_browse_remove(n)
      PROVE  (ViewComplete /\ SnapFresh)'
  <2>1. ViewsKept
      BY <1>2, MarkDeadView DEF service_browse_remove
  <2>2. PICK s \in Slot :
        /\ remote_mark_dead(s)
        /\ pc' = IF DeadDangle(s) \/ Holding(remote', client') THEN "freed" ELSE pc
      BY <1>2 DEF service_browse_remove
  <2>3. UNCHANGED <<me, snap>>
      BY <1>2 DEF service_browse_remove
  <2>4. CASE DeadDangle(s)
    <3>. DEFINE R == MarkedDead(s)
    <3>1. usbmux_remote_dispose(R, InList(R)) /\ pc' = "freed"
        BY <2>2, <2>4 DEF remote_mark_dead, DeadDangle
    <3>2. Dying(R)
        BY DyingMarked
    <3>. HIDE DEF R
    <3>3. devices' = {}
        BY <3>1, <3>2
        DEF usbmux_remote_dispose, Lost, Dying, RegistryInv, DeviceHasListener, Listeners,
            InList
    <3>. QED
        BY <3>1, <3>3 DEF ViewComplete, SnapFresh
  <2>5. CASE ~ DeadDangle(s)
    <3>1. \/ pc' = pc
          \/ pc' = "freed" /\ (pc = "listen" => client'[me].state = "FREE")
        BY <2>2, <2>5 DEF Holding
    <3>. QED
        BY <2>1, <2>3, <3>1 DEF ViewsKept, ViewComplete, SnapFresh, Listening
  <2>. QED
      BY <2>4, <2>5
<1>. QED
    BY <1>1, <1>2 DEF MdnsStep

-----------------------------------------------------------------------------
(* IInv is an invariant.                                                   *)
THEOREM Inductive == Spec => []IInv
<1>1. Init => IInv
  <2>1. Init => ViewComplete /\ SnapFresh /\ HeldFit
      BY DEF Init, ViewComplete, SnapFresh, HeldFit, Listening, BlankClient
  <2>. QED
      BY <2>1, TypeInit, RegistryInit DEF IInv
<1>2. IInv /\ [Next]_vars => IInv'
  <2>. SUFFICES ASSUME IInv, [Next]_vars
                PROVE  IInv'
      OBVIOUS
  <2>1. CASE ClientStep
      BY <2>1, TypeClient, RegistryClient, ViewClient, HeldClient DEF IInv
  <2>2. CASE RemoteStep
      BY <2>2, TypeRemote, RegistryRemote, ViewRemote, HeldRemote DEF IInv
  <2>3. CASE MdnsStep
      BY <2>3, TypeMdns, RegistryMdns, ViewMdns, HeldMdns DEF IInv
  <2>4. CASE UNCHANGED vars
    <3>1. UNCHANGED <<remote, devices, idmap, client>> /\ Stays
        BY <2>4 DEF vars, Stays
    <3>2. RegistryInv'
        BY <3>1, UnchangedInv DEF IInv
    <3>3. (TypeOK /\ ViewComplete /\ SnapFresh /\ HeldFit)'
        BY <2>4 DEF vars, IInv, TypeOK, ViewComplete, SnapFresh, HeldFit, Listening
    <3>. QED
        BY <3>2, <3>3 DEF IInv
  <2>. QED
      BY <2>1, <2>2, <2>3, <2>4 DEF Next
<1>. QED
    BY <1>1, <1>2, PTL DEF Spec

(* set_remote_id_used and get_new_remote_id: ids of listeners are unique   *)
(* and marked, whatever order instances come, die and are reaped in and    *)
(* whichever of their sends fail.                                          *)
THEOREM IdsUnique == Spec => []ListenerIds
<1>1. IInv => ListenerIds
    BY DEF IInv, RegistryInv
<1>. QED
    BY <1>1, Inductive, PTL

(* Every device a client may ask for has its listener in remote_list.      *)
THEOREM DevicesRouted == Spec => []DeviceHasListener
<1>1. IInv => DeviceHasListener
    BY DEF IInv, RegistryInv
<1>. QED
    BY <1>1, Inductive, PTL

(* A client's pointer to its remote never dangles and the remote's pointer *)
(* back is mutual, unless it was left behind by a client that sent another *)
(* request; with the mDNS thread disposing of remotes at any moment.       *)
THEOREM LinksMutual == Spec => []LinksAgree
<1>1. IInv => LinksAgree
    BY DEF IInv, RegistryInv
<1>. QED
    BY <1>1, Inductive, PTL

(* A relaying client has a remote that relays or is dead, or that the main *)
(* thread is about to switch.                                              *)
THEOREM StatesFit == Spec => []StatesAgree
<1>1. IInv => StatesAgree
    BY DEF IInv, RegistryInv
<1>. QED
    BY <1>1, Inductive, PTL

(* start_listen, client_device_add and client_device_remove: a client that *)
(* listens misses no device, although the mDNS thread may change the list  *)
(* between the copy and the loop of start_listen.                          *)
THEOREM ViewsComplete == Spec => []ViewComplete
<1>1. IInv => ViewComplete
    BY DEF IInv
<1>. QED
    BY <1>1, Inductive, PTL
=============================================================================
