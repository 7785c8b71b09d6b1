----------------------- MODULE UsbmuxDirectoryProofs -----------------------
(***************************************************************************)
(* What UsbmuxRemote keeps only while some things do not go wrong: ids are *)
(* given back, connections belong to the listener with their id, what dies *)
(* together is one usbmuxd, views are exact, and the registry implements   *)
(* DeviceDirectory.  Each theorem names the members of Env it excludes.    *)
(***************************************************************************)
EXTENDS UsbmuxRemoteProofs

(* A listener waits for its answer, listens or is dead; only the local     *)
(* usbmuxd has the id 0; and no two listeners lead to the same usbmuxd.    *)
ListenersFit ==
    \A s \in Listeners :
        /\ remote[s].state \in {"COMMAND", "LISTEN", "DEAD"}
        /\ remote[s].where = Unix <=> remote[s].id = 0
        /\ \A t \in Listeners : remote[s].where = remote[t].where => s = t

(* A dead connection has a dead listener, if any; a dead listener has only *)
(* dead connections.  Id 0 is the exception: Connect to the local usbmuxd  *)
(* does not look for its listener.                                         *)
DeadTogether ==
    \A s \in InList(remote), t \in Listeners : remote[s].id = remote[t].id =>
        /\ remote[s].state = "DEAD" => remote[t].state = "DEAD"
        /\ remote[t].state = "DEAD" /\ remote[t].id # 0 => remote[s].state = "DEAD"

(* No id is given back while a connection carries it.                      *)
IdsHeld == \A s \in InList(remote) : remote[s].id # 0 => remote[s].id \in idmap

(* A remote that is dead stays dead, and a listener is not taken away      *)
(* alone: no probe closes its connection, and no mDNS thread marks a       *)
(* remote dead while the answer it got is handled.                         *)
Lasting == "probe" \notin Env /\ "mdns" \notin Env

(* What is true of ids, by what may go wrong.                              *)
OwnIds ==
    /\ ListenersFit
    /\ "sendfail" \notin Env => IdsReleased
    /\ Lasting => DeadTogether /\ IdsHeld
    /\ Lasting /\ "sendfail" \notin Env => ConnHasListener

(* Clients that do not listen were told nothing; while the main thread is  *)
(* in start_listen its copy is the device list.                            *)
Views ==
    /\ ViewExact
    /\ \A c \in Client : ~ Listening(c) => client[c].view = {}
    /\ pc = "listen" => client[me].state = "LISTEN" /\ snap = devices

-----------------------------------------------------------------------------
(* What a step may do to the list and to the ids.                          *)

(* The remote at t leads where it led, with the same id.                   *)
Same(t) ==
    /\ remote'[t].id = remote[t].id
    /\ remote'[t].listener = remote[t].listener
    /\ remote'[t].where = remote[t].where

(* ... and is as dead or alive as it was.                                  *)
Stands(t) == Same(t) /\ remote'[t].state = remote[t].state

(* No remote comes, goes or dies.                                          *)
Keeps ==
    /\ \A t \in Slot :
        /\ Same(t)
        /\ remote'[t].state = "FREE" <=> remote[t].state = "FREE"
        /\ remote'[t].state = "DEAD" => remote[t].state = "DEAD"
        /\ Lasting /\ remote[t].state = "DEAD" => remote'[t].state = "DEAD"
        /\ remote[t].listener => remote'[t].state \in {remote[t].state, "LISTEN"}
    /\ idmap' = idmap

(* remote_mark_dead with others alive: those with the id of x die.         *)
Marks(x) ==
    /\ remote[x].id # 0 \/ "eof0" \in Env
    /\ \A t \in Slot :
        /\ Same(t)
        /\ remote'[t].state = IF remote[t].state # "FREE" /\ remote[t].id = remote[x].id
                              THEN "DEAD" ELSE remote[t].state
    /\ idmap' = idmap

(* The ids that go with the remotes S.                                     *)
IdsOf(S) == {remote[s].id : s \in {t \in S : remote[t].listener /\ remote[t].where # Unix}}

(* remote_mark_dead with nobody alive.                                     *)
Clears ==
    /\ \A t \in Slot : remote'[t].state = "FREE"
    /\ idmap' = idmap \ IdsOf(InList(remote))

(* usbmux_remote_process: the dead are disposed of.                        *)
Disposes(S) ==
    /\ Dead(remote) \subseteq S /\ S \subseteq InList(remote)
    /\ S = Dead(remote) \/ "probe" \in Env
    /\ \A t \in Slot : IF t \in S THEN remote'[t] = Blank ELSE Stands(t)
    /\ idmap' = idmap \ IdsOf(S)

(* remote_close, which gives no id back.                                   *)
Frees(s) ==
    /\ ~ remote[s].listener \/ "sendfail" \in Env
    /\ \A t \in Slot : IF t = s THEN remote'[t] = Blank ELSE Stands(t)
    /\ idmap' = idmap

(* remote_mux_service_add.                                                 *)
Adds(s) ==
    /\ remote[s].state = "FREE"
    /\ remote'[s].state = "COMMAND" /\ remote'[s].listener = TRUE
    /\ remote'[s].id \notin idmap \cup {0} /\ remote'[s].where # Unix
    /\ \A t \in Listeners : remote[t].where # remote'[s].where
    /\ \A t \in Slot : t # s => Stands(t)
    /\ idmap' = idmap \cup {remote'[s].id}

(* A connection for a client.                                              *)
Connects(s) ==
    /\ remote[s].state = "FREE"
    /\ remote'[s].state \notin {"FREE", "DEAD"} /\ remote'[s].listener = FALSE
    /\ remote'[s].id # 0 => \E r \in Listeners :
            /\ remote[r].state = "LISTEN"
            /\ remote[r].id = remote'[s].id /\ remote[r].where = remote'[s].where
    /\ \A t \in Slot : t # s => Stands(t)
    /\ idmap' = idmap

(* No listener comes.                                                      *)
Leaves ==
    \/ Keeps \/ Clears
    \/ \E s \in Slot : Marks(s) \/ Frees(s) \/ Connects(s)
    \/ \E S \in SUBSET Slot : Disposes(S)

ListStep == Leaves \/ \E s \in Slot : Adds(s)

(* Remotes that die in the same step have the same id, and it is not 0     *)
(* unless a connection with id 0 may come to its end.                      *)
DieById ==
    \A s, t \in Alive(remote) : remote'[s].state = "DEAD" /\ remote'[t].state = "DEAD" =>
        remote[s].id = remote[t].id /\ (remote[s].id # 0 \/ "eof0" \in Env)

-----------------------------------------------------------------------------
(* Each of them keeps the ids in order.                                    *)

(* Nothing that ids depend on changes.                                     *)
LEMMA KeepsIds ==
    ASSUME OwnIds, Keeps
    PROVE  OwnIds' /\ DieById
<1>1. InList(remote)' = InList(remote) /\ Listeners' = Listeners
  BY DEF Keeps, Same, InList, Listeners
<1>2. /\ \A t \in Slot : /\ Same(t)
                         /\ remote'[t].state = "DEAD" => remote[t].state = "DEAD"
                         /\ Lasting /\ remote[t].state = "DEAD" => remote'[t].state = "DEAD"
      /\ \A t \in Listeners : remote'[t].state \in {remote[t].state, "LISTEN"}
      /\ InList(remote) \subseteq Slot /\ Listeners \subseteq Slot /\ idmap' = idmap
  BY DEF Keeps, InList, Listeners
<1>3. ListenersFit'
  BY <1>1, <1>2 DEF OwnIds, ListenersFit, Same
<1>4. IdsReleased => IdsReleased'
  BY <1>1, <1>2 DEF IdsReleased, Same
<1>5. Lasting /\ DeadTogether => DeadTogether'
  BY <1>1, <1>2 DEF DeadTogether, Same
<1>6. IdsHeld => IdsHeld'
  BY <1>1, <1>2 DEF IdsHeld, Same
<1>7. ConnHasListener => ConnHasListener'
  BY <1>1, <1>2 DEF ConnHasListener, Same
<1>8. DieById
  BY <1>2 DEF DieById, Alive, Dead, InList
<1>9. QED
  BY <1>3, <1>4, <1>5, <1>6, <1>7, <1>8 DEF OwnIds

(* Marking by id: what shares an id dies together.                         *)
LEMMA MarksIds ==
    ASSUME OwnIds, NEW x \in Slot, Marks(x)
    PROVE  OwnIds' /\ DieById
<1>1. InList(remote)' = InList(remote) /\ Listeners' = Listeners
  BY DEF Marks, Same, InList, Listeners
<1>2. /\ \A t \in Slot : Same(t)
      /\ \A t \in InList(remote) :
            remote'[t].state = IF remote[t].id = remote[x].id THEN "DEAD" ELSE remote[t].state
      /\ InList(remote) \subseteq Slot /\ Listeners \subseteq InList(remote) /\ idmap' = idmap
  BY DEF Marks, InList, Listeners
<1>3. ListenersFit'
  BY <1>1, <1>2 DEF OwnIds, ListenersFit, Same
<1>4. IdsReleased => IdsReleased'
  BY <1>1, <1>2 DEF IdsReleased, Same
<1>5. DeadTogether => DeadTogether'
  BY <1>1, <1>2 DEF DeadTogether, Same
<1>6. IdsHeld => IdsHeld'
  BY <1>1, <1>2 DEF IdsHeld, Same
<1>7. ConnHasListener => ConnHasListener'
  BY <1>1, <1>2 DEF ConnHasListener, Same
<1>8. DieById
  BY DEF DieById, Alive, Dead, InList, Marks
<1>9. QED
  BY <1>3, <1>4, <1>5, <1>6, <1>7, <1>8 DEF OwnIds

(* With the last remote every id but 0 is given back.                      *)
LEMMA ClearsIds ==
    ASSUME OwnIds, Clears
    PROVE  OwnIds' /\ DieById
<1>1. InList(remote)' = {} /\ Listeners' = {}
  BY DEF Clears, InList, Listeners
<1>2. IdsReleased => IdsReleased'
  <2>1. SUFFICES ASSUME IdsReleased, NEW i \in idmap', i # 0 PROVE FALSE
    BY DEF IdsReleased
  <2>2. PICK s \in Listeners : remote[s].id = i
    BY <2>1 DEF IdsReleased, Clears
  <2>3. remote[s].where # Unix
    BY <2>1, <2>2 DEF OwnIds, ListenersFit
  <2>4. QED
    BY <2>1, <2>2, <2>3 DEF Clears, IdsOf, Listeners
<1>3. QED
  BY <1>1, <1>2
  DEF OwnIds, ListenersFit, DeadTogether, IdsHeld, ConnHasListener, DieById, Alive, InList,
      Clears

(* A disposed listener gives its id back, and nothing that stays carries   *)
(* it: its connections were dead with it.                                  *)
LEMMA DisposesIds ==
    ASSUME OwnIds, NEW S \in SUBSET Slot, Disposes(S)
    PROVE  OwnIds' /\ DieById
<1>1. InList(remote)' = InList(remote) \ S /\ Listeners' = Listeners \ S
  BY DEF Disposes, InList, Listeners, Blank, Stands, Same
<1>2. /\ \A t \in InList(remote)' : Stands(t)
      /\ Dead(remote) \subseteq S /\ Listeners \subseteq InList(remote)
  BY <1>1 DEF Disposes, InList, Listeners
<1>3. ListenersFit'
  BY <1>1, <1>2 DEF OwnIds, ListenersFit, Stands, Same
<1>4. IdsReleased => IdsReleased'
  <2>1. SUFFICES ASSUME IdsReleased, NEW i \in idmap', i # 0
                 PROVE  \E s \in Listeners' : remote'[s].id = i
    BY DEF IdsReleased
  <2>2. PICK s \in Listeners : remote[s].id = i
    BY <2>1 DEF IdsReleased, Disposes
  <2>3. remote[s].where # Unix
    BY <2>1, <2>2 DEF OwnIds, ListenersFit
  <2>4. s \notin S
    BY <2>1, <2>2, <2>3 DEF Disposes, IdsOf, Listeners
  <2>5. QED
    BY <1>1, <1>2, <2>2, <2>4 DEF Stands, Same
<1>5. DeadTogether => DeadTogether'
  BY <1>1, <1>2 DEF DeadTogether, Stands, Same
<1>6. Lasting => IdsHeld'
  <2>1. SUFFICES ASSUME Lasting, NEW s \in InList(remote) \ S, remote[s].id # 0
                 PROVE  remote[s].id \in idmap'
    BY <1>1, <1>2 DEF IdsHeld, Stands, Same
  <2>2. remote[s].id \in idmap /\ S = Dead(remote) /\ remote[s].state # "DEAD"
    BY <2>1 DEF OwnIds, IdsHeld, Disposes, Dead, InList, Lasting
  <2>3. ASSUME NEW t \in S, remote[t].listener, remote[t].id = remote[s].id PROVE FALSE
    <3>1. t \in Listeners /\ remote[t].state = "DEAD"
      BY <2>2, <2>3 DEF Listeners, InList, Dead
    <3>2. QED
      BY <2>1, <2>2, <2>3, <3>1 DEF OwnIds, DeadTogether
  <2>4. QED
    BY <2>2, <2>3 DEF Disposes, IdsOf
<1>7. Lasting /\ "sendfail" \notin Env => ConnHasListener'
  <2>1. SUFFICES ASSUME Lasting, "sendfail" \notin Env,
                        NEW s \in InList(remote) \ S, remote[s].id # 0
                 PROVE  \E t \in Listeners \ S :
                            remote[t].id = remote[s].id /\ remote[t].where = remote[s].where
    BY <1>1, <1>2 DEF ConnHasListener, Stands, Same
  <2>2. PICK t \in Listeners :
            remote[t].id = remote[s].id /\ remote[t].where = remote[s].where
    BY <2>1 DEF OwnIds, ConnHasListener
  <2>3. S = Dead(remote) /\ remote[s].state # "DEAD"
    BY <2>1 DEF Disposes, Dead, InList, Lasting
  <2>4. remote[t].state # "DEAD"
    BY <2>1, <2>2, <2>3 DEF OwnIds, DeadTogether
  <2>5. QED
    BY <2>2, <2>3, <2>4 DEF Dead
<1>8. DieById
  BY DEF DieById, Alive, Dead, InList, Disposes, Blank, Stands
<1>9. QED
  BY <1>3, <1>4, <1>5, <1>6, <1>7, <1>8 DEF OwnIds

(* A connection that goes alone leaves the ids alone.                      *)
LEMMA FreesIds ==
    ASSUME OwnIds, NEW s \in Slot, Frees(s)
    PROVE  OwnIds' /\ DieById
<1>1. InList(remote)' = InList(remote) \ {s} /\ Listeners' = Listeners \ {s}
  BY DEF Frees, InList, Listeners, Blank, Stands, Same
<1>2. /\ \A t \in InList(remote)' : Stands(t)
      /\ Listeners \subseteq InList(remote) /\ idmap' = idmap
      /\ "sendfail" \notin Env => s \notin Listeners
  BY <1>1 DEF Frees, InList, Listeners
<1>3. ListenersFit'
  BY <1>1, <1>2 DEF OwnIds, ListenersFit, Stands, Same
<1>4. "sendfail" \notin Env => IdsReleased'
  BY <1>1, <1>2 DEF OwnIds, IdsReleased, Stands, Same
<1>5. DeadTogether => DeadTogether'
  BY <1>1, <1>2 DEF DeadTogether, Stands, Same
<1>6. IdsHeld => IdsHeld'
  BY <1>1, <1>2 DEF IdsHeld, Stands, Same
<1>7. Lasting /\ "sendfail" \notin Env => ConnHasListener'
  BY <1>1, <1>2 DEF OwnIds, ConnHasListener, Stands, Same
<1>8. DieById
  BY DEF DieById, Alive, Dead, InList, Frees, Blank, Stands
<1>9. QED
  BY <1>3, <1>4, <1>5, <1>6, <1>7, <1>8 DEF OwnIds

(* A new id is carried by nobody, not even by a connection of an earlier   *)
(* instance.                                                               *)
LEMMA AddsIds ==
    ASSUME RegistryInv, OwnIds, NEW s \in Slot, Adds(s)
    PROVE  OwnIds' /\ DieById
<1>1. InList(remote)' = InList(remote) \cup {s} /\ Listeners' = Listeners \cup {s}
  BY DEF Adds, InList, Listeners, Stands, Same
<1>2. /\ \A t \in InList(remote) : Stands(t) /\ t # s
      /\ Listeners \subseteq InList(remote)
  BY DEF Adds, InList, Listeners, Stands, Same
<1>3. ListenersFit'
  BY <1>1, <1>2 DEF OwnIds, ListenersFit, Adds, Stands, Same
<1>4. IdsReleased => IdsReleased'
  BY <1>1, <1>2 DEF IdsReleased, Adds, Stands, Same
<1>5. DeadTogether /\ IdsHeld => DeadTogether'
  <2>1. \A t \in Listeners : remote[t].id # remote'[s].id
    BY DEF RegistryInv, ListenerIds, Adds
  <2>2. IdsHeld => \A t \in InList(remote) : remote[t].id # remote'[s].id
    BY DEF IdsHeld, Adds
  <2>3. QED
    BY <1>1, <1>2, <2>1, <2>2 DEF DeadTogether, Adds, Stands, Same
<1>6. IdsHeld => IdsHeld'
  BY <1>1, <1>2 DEF IdsHeld, Adds, Stands, Same
<1>7. ConnHasListener => ConnHasListener'
  BY <1>1, <1>2 DEF ConnHasListener, Adds, Stands, Same
<1>8. DieById
  BY <1>2 DEF DieById, Alive, Dead, InList, Stands
<1>9. QED
  BY <1>3, <1>4, <1>5, <1>6, <1>7, <1>8 DEF OwnIds

(* A connection takes the id of a listener that is not dead.               *)
LEMMA ConnectsIds ==
    ASSUME RegistryInv, OwnIds, NEW s \in Slot, Connects(s)
    PROVE  OwnIds' /\ DieById
<1>1. InList(remote)' = InList(remote) \cup {s} /\ Listeners' = Listeners
  BY DEF Connects, InList, Listeners, Stands, Same
<1>2. /\ \A t \in InList(remote) : Stands(t) /\ t # s
      /\ Listeners \subseteq InList(remote) /\ idmap' = idmap
  BY DEF Connects, InList, Listeners, Stands, Same
<1>3. ListenersFit'
  BY <1>1, <1>2 DEF OwnIds, ListenersFit, Stands, Same
<1>4. IdsReleased => IdsReleased'
  BY <1>1, <1>2 DEF IdsReleased, Stands, Same
<1>5. DeadTogether => DeadTogether'
  <2>1. \A t \in Listeners :
            remote[t].id = remote'[s].id /\ remote[t].id # 0 => remote[t].state # "DEAD"
    BY DEF RegistryInv, ListenerIds, Connects
  <2>2. QED
    BY <1>1, <1>2, <2>1 DEF DeadTogether, Connects, Stands, Same
<1>6. IdsHeld => IdsHeld'
  BY <1>1, <1>2 DEF IdsHeld, Connects, RegistryInv, ListenerIds, Stands, Same
<1>7. ConnHasListener => ConnHasListener'
  BY <1>1, <1>2 DEF ConnHasListener, Connects, Stands, Same
<1>8. DieById
  BY <1>2 DEF DieById, Alive, Dead, InList, Stands
<1>9. QED
  BY <1>3, <1>4, <1>5, <1>6, <1>7, <1>8 DEF OwnIds

(* Every such step keeps the ids in order.                                 *)
LEMMA ListStepIds ==
    ASSUME RegistryInv, OwnIds, ListStep
    PROVE  OwnIds' /\ DieById
BY KeepsIds, MarksIds, ClearsIds, DisposesIds, FreesIds, AddsIds, ConnectsIds
DEF ListStep, Leaves

-----------------------------------------------------------------------------
(* Every step is one of them.                                              *)

(* The list is left alone.                                                 *)
LEMMA SameKeeps ==
    ASSUME UNCHANGED <<remote, idmap>>
    PROVE  Keeps
BY DEF Keeps, Same

(* One remote changes, but not what it is.                                 *)
LEMMA QuietKeeps ==
    ASSUME TypeOK, NEW s \in Slot, NEW r, remote' = [remote EXCEPT ![s] = r],
           r.id = remote[s].id, r.listener = remote[s].listener, r.where = remote[s].where,
           r.state = "FREE" <=> remote[s].state = "FREE",
           r.state = "DEAD" => remote[s].state = "DEAD",
           Lasting /\ remote[s].state = "DEAD" => r.state = "DEAD",
           remote[s].listener => r.state \in {remote[s].state, "LISTEN"},
           UNCHANGED idmap
    PROVE  Keeps
<1>1. remote'[s] = r /\ \A t \in Slot : t # s => remote'[t] = remote[t]
  BY DEF TypeOK
<1>2. QED
  BY <1>1 DEF Keeps, Same

(* remote_mark_dead, with or without a remote that is left alive.          *)
LEMMA MarkDeadIs ==
    ASSUME TypeOK, NEW s \in Slot, remote_mark_dead(s),
           remote[s].id # 0 \/ "eof0" \in Env
    PROVE  Clears \/ Marks(s)
<1> DEFINE R == MarkedDead(s)
<1>1. \A t \in Slot : remote[t] \in RemoteMux
  BY DEF TypeOK
<1>2. /\ R \in [Slot -> RemoteMux]
      /\ \A t \in Slot :
            /\ R[t].id = remote[t].id /\ R[t].listener = remote[t].listener
            /\ R[t].where = remote[t].where
            /\ R[t].state = IF remote[t].state # "FREE" /\ remote[t].id = remote[s].id
                            THEN "DEAD" ELSE remote[t].state
  <2>1. R \in [Slot -> RemoteMux]
    BY MarkedDeadType, TypeSplit
  <2>2. \A t \in Slot :
            R[t] = IF remote[t].state # "FREE" /\ remote[t].id = remote[s].id
                   THEN [remote[t] EXCEPT !.state = "DEAD"] ELSE remote[t]
    BY DEF MarkedDead
  <2>3. QED
    BY <1>1, <2>1, <2>2 DEF RemoteMux
<1>3. \/ /\ remote' = [R EXCEPT ![First(Alive(R))].out = TRUE]
         /\ UNCHANGED <<devices, idmap, client>>
      \/ usbmux_remote_dispose(R, InList(R))
  BY DEF remote_mark_dead
<1> HIDE DEF R
<1>4. CASE usbmux_remote_dispose(R, InList(R))
  <2>1. InList(R) = InList(remote)
    BY <1>2 DEF InList
  <2>2. \A t \in Slot : remote'[t].state = "FREE"
    <3> DEFINE K == {R[u].client : u \in InList(R)} \ {None}
    <3>1. \A t \in Slot : remote'[t] = IF t \in InList(R) THEN Blank ELSE Orphaned(R, K)[t]
      BY <1>4 DEF usbmux_remote_dispose
    <3> HIDE DEF K
    <3>2. \A t \in Slot : Orphaned(R, K)[t].state = R[t].state
      BY <1>2, OrphanedSame
    <3>3. QED
      BY <3>1, <3>2 DEF InList, Blank
  <2>3. idmap' = idmap \ IdsOf(InList(remote))
    <3>1. \A t \in InList(remote) : /\ R[t].id = remote[t].id
                                   /\ R[t].listener = remote[t].listener
                                   /\ R[t].where = remote[t].where
      BY <1>2 DEF InList
    <3>2. idmap' = idmap \ {R[t].id :
                    t \in {u \in InList(remote) : R[u].listener /\ R[u].where # Unix}}
      BY <1>4, <2>1 DEF usbmux_remote_dispose
    <3>3. QED
      BY <3>1, <3>2 DEF IdsOf
  <2>4. QED
    BY <2>2, <2>3 DEF Clears
<1>5. CASE /\ remote' = [R EXCEPT ![First(Alive(R))].out = TRUE]
           /\ UNCHANGED <<devices, idmap, client>>
  <2>1. \A t \in Slot : remote'[t] = R[t] \/ remote'[t] = [R[t] EXCEPT !.out = TRUE]
    BY <1>2, <1>5
  <2>2. ASSUME NEW t \in Slot
        PROVE  /\ remote'[t].id = R[t].id /\ remote'[t].listener = R[t].listener
               /\ remote'[t].where = R[t].where /\ remote'[t].state = R[t].state
    <3>1. R[t] \in RemoteMux
      BY <1>2
    <3>2. CASE remote'[t] = R[t]
      BY <3>2
    <3>3. CASE remote'[t] = [R[t] EXCEPT !.out = TRUE]
      BY <3>1, <3>3 DEF RemoteMux
    <3>4. QED
      BY <2>1, <3>2, <3>3
  <2>3. \A t \in Slot :
        /\ Same(t)
        /\ remote'[t].state = IF remote[t].state # "FREE" /\ remote[t].id = remote[s].id
                              THEN "DEAD" ELSE remote[t].state
    BY <1>2, <2>2 DEF Same
  <2>4. QED
    BY <1>5, <2>3 DEF Marks
<1>6. QED
  BY <1>3, <1>4, <1>5

(* client_close takes the linked remote along, which is no listener.       *)
LEMMA ClientCloseIs ==
    ASSUME TypeOK, RegistryInv, NEW c \in Client, client_close(c)
    PROVE  Keeps \/ \E s \in Slot : Frees(s)
<1> DEFINE s == client[c].remote
           Q == Orphaned(remote, {c})
<1>1. /\ idmap' = idmap
      /\ s = 0 => remote' = Q
      /\ s # 0 => remote' = [Q EXCEPT ![s] = Blank]
  BY DEF client_close, remote_close
<1>2. s # 0 => s \in Slot /\ ~ remote[s].listener
  BY Linked
<1>3. /\ Q \in [Slot -> RemoteMux]
      /\ \A t \in Slot : /\ Q[t].id = remote[t].id /\ Q[t].where = remote[t].where
                         /\ Q[t].listener = remote[t].listener
                         /\ Q[t].state = remote[t].state
  BY OrphanedType, OrphanedSame DEF TypeOK
<1> HIDE DEF s, Q
<1>4. CASE s = 0
  BY <1>1, <1>3, <1>4 DEF Keeps, Same
<1>5. CASE s # 0
  <2>1. remote'[s] = Blank /\ \A t \in Slot : t # s => Stands(t)
    BY <1>1, <1>2, <1>3, <1>5 DEF Stands, Same
  <2>2. Frees(s)
    BY <1>1, <1>2, <1>5, <2>1 DEF Frees
  <2>3. QED
    BY <1>2, <1>5, <2>2
<1>6. QED
  BY <1>4, <1>5

(* usbmux_remote_close closes a relaying remote, or one that cannot send.  *)
LEMMA RemoteCloseIs ==
    ASSUME TypeOK, RegistryInv, ListenersFit, NEW s \in Slot, usbmux_remote_close(s),
           remote[s].state = "CONNECTED" \/ "sendfail" \in Env
    PROVE  Keeps \/ \E t \in Slot : Frees(t)
<1>0. remote[s].client \in Client \cup {None, Gone} /\ None # Gone
  BY ConstAssumption DEF TypeOK, RemoteMux
<1>1. CASE remote[s].client \in Client
  BY <1>1, ClientCloseIs, ConstAssumption DEF usbmux_remote_close
<1>2. CASE remote[s].client = None
  <2>1. remote' = [remote EXCEPT ![s] = Blank] /\ idmap' = idmap
    BY <1>0, <1>2 DEF usbmux_remote_close, remote_close
  <2>2. ~ remote[s].listener \/ "sendfail" \in Env
    BY DEF ListenersFit, Listeners, InList
  <2>3. remote'[s] = Blank /\ \A t \in Slot : t # s => Stands(t)
    BY <2>1 DEF TypeOK, Stands, Same
  <2>4. Frees(s)
    BY <2>1, <2>2, <2>3 DEF Frees
  <2>5. QED
    BY <2>4
<1>3. CASE remote[s].client = Gone
  BY <1>0, <1>3, SameKeeps DEF usbmux_remote_close
<1>4. QED
  BY <1>0, <1>1, <1>2, <1>3

(* remote_mux_service_add: a new id and, after the search for duplicates,  *)
(* a new endpoint.                                                         *)
LEMMA ServiceAddIs ==
    ASSUME TypeOK, NEW n, NEW e \in Endpoint, remote_mux_service_add(n, e)
    PROVE  \E s \in Slot : Adds(s) /\ remote'[s].where = e
<1> DEFINE i == get_new_remote_id
<1>1. i \in FreeIds
  BY NewIdIsFree DEF remote_mux_service_add
<1>2. i \notin idmap \cup {0}
  <2>1. \A j \in 1..MaxId : j # 0
    OBVIOUS
  <2>2. QED
    BY <1>1, <2>1 DEF FreeIds
<1>3. PICK s \in Slot : /\ remote[s].state = "FREE"
                        /\ remote' = [remote EXCEPT ![s] = NewListener(e, i, n)]
  BY DEF remote_mux_service_add, FreeSlot, InList
<1>4. idmap' = idmap \cup {i}
  BY DEF remote_mux_service_add
<1> HIDE DEF i
<1>5. \A t \in Slot : t # s => remote'[t] = remote[t]
  BY <1>3 DEF TypeOK
<1>6. /\ remote'[s].state = "COMMAND" /\ remote'[s].id = i
      /\ remote'[s].listener = TRUE /\ remote'[s].where = e
  BY <1>3 DEF TypeOK, NewListener, Queued, NewRemote, Blank
<1>7. e # Unix
  BY ConstAssumption
<1>8. \A t \in Listeners : remote[t].where # e
  BY <1>7 DEF remote_mux_service_add, Duplicate, Listeners
<1>9. QED
  BY <1>2, <1>3, <1>4, <1>5, <1>6, <1>7, <1>8 DEF Adds, Stands, Same

(* A connection for client me, to the listener with its id or with id 0.   *)
LEMMA ConnectIs ==
    ASSUME TypeOK, NEW s \in Slot, NEW r \in RemoteMux, remote[s].state = "FREE",
           remote' = Requested(s, r), UNCHANGED idmap,
           r.state \in {"COMMAND", "CONNECTING1"}, r.listener = FALSE,
           r.id # 0 => \E t \in Listeners :
                /\ remote[t].state = "LISTEN"
                /\ remote[t].id = r.id /\ remote[t].where = r.where
    PROVE  Connects(s)
<1> DEFINE o == client[me].remote
<1>1. /\ \A t \in Slot \ {s} : Spared(t)
      /\ remote'[s].id = r.id /\ remote'[s].where = r.where
      /\ remote'[s].listener = r.listener /\ remote'[s].state = r.state
  BY RequestedFields
<1>2. \A t \in Slot : t # s => Stands(t)
  BY <1>1 DEF Spared, Stands, Same
<1>3. QED
  BY <1>1, <1>2 DEF Connects

(* The listener a RemoveInstance or a vanished service is about is not the *)
(* local usbmuxd.                                                          *)
LEMMA ServingId ==
    ASSUME ListenersFit, NEW s \in Slot, NEW n, NEW e, Serving(s, n, e)
    PROVE  remote[s].id # 0
<1> DEFINE M == {t \in InList(remote) : /\ remote[t].listener /\ remote[t].where # Unix
                                        /\ remote[t].name = n \/ remote[t].where = e}
<1>1. M # {} /\ s = First(M) /\ M \subseteq Slot
  BY DEF Serving, InList
<1>2. \A t \in M : t \in Listeners /\ remote[t].where # Unix
  BY DEF Listeners
<1> HIDE DEF M
<1>3. s \in M
  BY <1>1, FirstIsMember
<1>4. QED
  BY <1>2, <1>3 DEF ListenersFit

(* The usbmuxd a Connect or a request goes to has a listener, unless it is *)
(* the local one.                                                          *)
LEMMA UpstreamListens ==
    ASSUME RegistryInv, NEW i, NEW w, Upstream(i, w), i # 0
    PROVE  \E t \in Listeners :
                remote[t].state = "LISTEN" /\ remote[t].id = i /\ remote[t].where = w
BY DEF Upstream, RegistryInv, ListenersAlone, Listeners, InList

(* The handlers of client.c.                                               *)
LEMMA ClientLists ==
    ASSUME TypeOK, RegistryInv, ListenersFit, ClientStep,
           \A e \in Endpoint : ~ AddInstance(e)
    PROVE  Leaves
<1>0. /\ remote \in [Slot -> RemoteMux]
      /\ pc \in {"client", "listen"} => me \in Client
  BY DEF TypeOK
<1>1. ASSUME UNCHANGED <<remote, idmap>> PROVE Leaves
  BY <1>1, SameKeeps DEF Leaves
<1>2. ASSUME NEW c \in Client, client_accept(c) \/ client_process(c) PROVE Leaves
  BY <1>1, <1>2 DEF client_accept, client_process
<1>3. CASE start_listen \/ start_listen_notify \/ client_other \/ process_send
  BY <1>1, <1>3 DEF start_listen, start_listen_notify, client_other, process_send
<1>4. ASSUME NEW i \in Id, usbmux_remote_connect(i) PROVE Leaves
  <2>1. PICK w \in Where, s \in Slot :
            /\ Upstream(i, w) /\ remote[s].state = "FREE"
            /\ remote' = Requested(s, Queued([NewRemote(w) EXCEPT
                  !.id = i, !.state = "CONNECTING1", !.client = me, !.cmd = "CONNECT"]))
    BY <1>4 DEF usbmux_remote_connect, FreeSlot, InList
  <2> DEFINE n == [NewRemote(w) EXCEPT
                      !.id = i, !.state = "CONNECTING1", !.client = me, !.cmd = "CONNECT"]
             r == Queued(n)
  <2>2. r.state = "CONNECTING1" /\ r.listener = FALSE /\ r.id = i /\ r.where = w
    BY DEF Queued, NewRemote, Blank
  <2>3. remote' = Requested(s, r) /\ remote[s].state = "FREE" /\ UNCHANGED idmap
    BY <1>4, <2>1 DEF usbmux_remote_connect
  <2>4. i # 0 => \E t \in Listeners :
                    remote[t].state = "LISTEN" /\ remote[t].id = i /\ remote[t].where = w
    BY <2>1, UpstreamListens
  <2>5. r \in RemoteMux
    <3>1. me \in Client
      BY <1>0, <1>4 DEF usbmux_remote_connect, Commanding
    <3>2. n \in RemoteMux
      BY <3>1, BlankType DEF RemoteMux, RemoteState
    <3>3. QED
      BY <3>2, UpdateType
  <2> HIDE DEF n, r
  <2>6. Connects(s)
    BY <2>2, <2>3, <2>4, <2>5, ConnectIs
  <2>7. QED
    BY <2>6 DEF Leaves
<1>5. ASSUME NEW i \in Id, usbmux_remote_read_buid(i) \/ usbmux_remote_pair_record(i)
      PROVE  Leaves
  <2>1. PICK w \in Where, s \in Slot :
            /\ remote[s].state = "FREE"
            /\ remote' = Requested(s,
                  Queued([NewRemote(w) EXCEPT !.client = me, !.cmd = "REQUEST"]))
    BY <1>5
    DEF usbmux_remote_read_buid, usbmux_remote_pair_record, Request, FreeSlot, InList
  <2> DEFINE n == [NewRemote(w) EXCEPT !.client = me, !.cmd = "REQUEST"]
             r == Queued(n)
  <2>2. r.state = "COMMAND" /\ r.listener = FALSE /\ r.id = 0
    BY DEF Queued, NewRemote, Blank
  <2>3. remote' = Requested(s, r) /\ remote[s].state = "FREE" /\ UNCHANGED idmap
    BY <1>5, <2>1 DEF usbmux_remote_read_buid, usbmux_remote_pair_record, Request
  <2>4. r \in RemoteMux
    <3>1. me \in Client
      BY <1>0, <1>5
      DEF usbmux_remote_read_buid, usbmux_remote_pair_record, Request, Commanding
    <3>2. n \in RemoteMux
      BY <3>1, BlankType DEF RemoteMux, RemoteState
    <3>3. QED
      BY <3>2, UpdateType
  <2> HIDE DEF n, r
  <2>5. Connects(s)
    BY <2>2, <2>3, <2>4, ConnectIs
  <2>6. QED
    BY <2>5 DEF Leaves
<1>6. ASSUME NEW e \in Endpoint, RemoveInstance(e) PROVE Leaves
  <2>1. PICK s \in Slot : Serving(s, None, e) /\ remote_mark_dead(s)
    BY <1>6 DEF RemoveInstance
  <2>2. remote[s].id # 0
    BY <2>1, ServingId
  <2>3. QED
    BY <2>1, <2>2, MarkDeadIs DEF Leaves
<1>7. CASE client_disconnect
  BY <1>0, <1>7, ClientCloseIs DEF client_disconnect, Leaves
<1>8. CASE client_relay
  <2> DEFINE s == client[me].remote
             r == Queued(remote[s])
  <2>1. me \in Client /\ s # 0
    BY <1>0, <1>8 DEF client_relay, RegistryInv, StatesAgree
  <2>2. s \in Slot
    BY <2>1, Linked
  <2>3. /\ r.state = remote[s].state /\ r.id = remote[s].id
        /\ r.listener = remote[s].listener /\ r.where = remote[s].where
    BY <1>0, <2>2 DEF Queued, RemoteMux
  <2>4. remote' = [remote EXCEPT ![s] = r] /\ UNCHANGED idmap
    BY <1>8 DEF client_relay
  <2> HIDE DEF s, r
  <2>5. QED
    BY <2>2, <2>3, <2>4, QuietKeeps DEF Leaves
<1>9. QED
  BY <1>2, <1>3, <1>4, <1>5, <1>6, <1>7, <1>8 DEF ClientStep

(* The handlers of usbmux_remote.c.                                        *)
LEMMA RemoteLists ==
    ASSUME TypeOK, RegistryInv, HeldFit, ListenersFit, RemoteStep
    PROVE  Leaves
<1>0. /\ remote \in [Slot -> RemoteMux]
      /\ pc \in {"in", "out", "listened", "connected"} => cur \in Slot
  BY DEF TypeOK
<1>1. ASSUME NEW S \in SUBSET InList(remote), Dead(remote) \subseteq S,
             S = Dead(remote) \/ "probe" \in Env, usbmux_remote_dispose(remote, S)
      PROVE  Leaves
  <2>1. S \in SUBSET Slot
    BY DEF InList
  <2>2. \A t \in Slot : IF t \in S THEN remote'[t] = Blank ELSE Stands(t)
    <3> DEFINE K == {remote[u].client : u \in S} \ {None}
    <3>1. \A t \in Slot : remote'[t] = IF t \in S THEN Blank ELSE Orphaned(remote, K)[t]
      BY <1>1 DEF usbmux_remote_dispose
    <3> HIDE DEF K
    <3>2. QED
      BY <1>0, <3>1, OrphanedSame DEF Stands, Same
  <2>3. Disposes(S)
    BY <1>1, <2>2 DEF Disposes, usbmux_remote_dispose, IdsOf
  <2>4. QED
    BY <2>1, <2>3 DEF Leaves
<1>2. ASSUME NEW s \in Slot, NEW e \in {"in", "out"}, usbmux_remote_process(s, e)
      PROVE  Leaves
  <2>1. Dead(remote) \in SUBSET InList(remote)
    BY DEF Dead, InList
  <2>2. QED
    BY <1>1, <1>2, <2>1 DEF usbmux_remote_process
<1>3. ASSUME NEW s \in Slot, usbmux_remote_process_nval(s) PROVE Leaves
  <2>1. Dead(remote) \cup {s} \in SUBSET InList(remote)
    BY <1>3 DEF usbmux_remote_process_nval, Alive, Dead, InList
  <2>2. QED
    BY <1>1, <1>3, <2>1 DEF usbmux_remote_process_nval
<1>4. CASE remote_recv_eof
  BY <1>0, <1>4, MarkDeadIs DEF remote_recv_eof, Leaves
<1>5. ASSUME NEW r, cur \in Slot, remote' = [remote EXCEPT ![cur] = r],
             r.id = remote[cur].id, r.listener = remote[cur].listener,
             r.where = remote[cur].where, remote[cur].state \notin {"FREE", "DEAD"},
             r.state \in {remote[cur].state, "LISTEN"}, UNCHANGED idmap
      PROVE  Leaves
  BY <1>5, QuietKeeps DEF Leaves
<1>6. CASE remote_request_result
  <2> DEFINE r == Answered(remote[cur])
  <2>1. cur \in Slot /\ remote[cur].state = "COMMAND"
    BY <1>0, <1>6 DEF remote_request_result
  <2>2. /\ r.state = remote[cur].state /\ r.id = remote[cur].id
        /\ r.listener = remote[cur].listener /\ r.where = remote[cur].where
    BY <1>0, <2>1 DEF Answered, RemoteMux
  <2>3. remote' = [remote EXCEPT ![cur] = r] /\ UNCHANGED idmap
    BY <1>6 DEF remote_request_result
  <2> HIDE DEF r
  <2>4. QED
    BY <1>5, <2>1, <2>2, <2>3
<1>7. ASSUME NEW ok \in BOOLEAN, remote_listen_result(ok) \/ remote_connect_result(ok)
      PROVE  Leaves
  <2> DEFINE r == Answered(remote[cur])
  <2>1. cur \in Slot /\ remote[cur].state \in {"COMMAND", "CONNECTING1"}
    BY <1>0, <1>7 DEF remote_listen_result, remote_connect_result
  <2>2. /\ r.state = remote[cur].state /\ r.id = remote[cur].id
        /\ r.listener = remote[cur].listener /\ r.where = remote[cur].where
    BY <1>0, <2>1 DEF Answered, RemoteMux
  <2>3. /\ remote' = remote \/ remote' = [remote EXCEPT ![cur] = r]
        /\ UNCHANGED idmap
    BY <1>7 DEF remote_listen_result, remote_connect_result
  <2> HIDE DEF r
  <2>4. CASE remote' = remote
    BY <2>3, <2>4, SameKeeps DEF Leaves
  <2>5. CASE remote' = [remote EXCEPT ![cur] = r]
    BY <1>5, <2>1, <2>2, <2>3, <2>5
  <2>6. QED
    BY <2>3, <2>4, <2>5
<1>8. CASE remote_listens \/ remote_connected
  <2> DEFINE r == IF remote_listens THEN Listens(remote[cur]) ELSE Connected(remote[cur])
  <2>1. /\ cur \in Slot /\ remote[cur].state # "FREE"
        /\ Lasting => remote[cur].state # "DEAD"
        /\ remote_listens \/ ~ remote[cur].listener
    BY <1>0, <1>8 DEF remote_listens, remote_connected, HeldFit, Lasting
  <2>2. /\ r.state = IF remote_listens THEN "LISTEN" ELSE "CONNECTED"
        /\ r.id = remote[cur].id
        /\ r.listener = remote[cur].listener /\ r.where = remote[cur].where
    BY <1>0, <2>1 DEF Listens, Connected, RemoteMux
  <2>3. remote' = [remote EXCEPT ![cur] = r] /\ UNCHANGED idmap
    BY <1>8 DEF remote_listens, remote_connected
  <2>4. r.state \in {"LISTEN", "CONNECTED"} /\ (remote[cur].listener => r.state = "LISTEN")
    BY <2>1, <2>2
  <2> HIDE DEF r
  <2>5. QED
    BY <2>1, <2>2, <2>3, <2>4, QuietKeeps DEF Leaves
<1>9. ASSUME NEW d \in Device, remote_device_add(d) \/ remote_device_remove(d)
      PROVE  Leaves
  BY <1>9, SameKeeps DEF remote_device_add, remote_device_remove, Leaves
<1>10. CASE remote_process_send
  <2> DEFINE r == Sent(remote[cur])
  <2>1. cur \in Slot
    BY <1>0, <1>10 DEF remote_process_send
  <2>2. /\ r.state = remote[cur].state /\ r.id = remote[cur].id
        /\ r.listener = remote[cur].listener /\ r.where = remote[cur].where
    BY <1>0, <2>1 DEF Sent, RemoteMux
  <2>3. remote' = [remote EXCEPT ![cur] = r] /\ UNCHANGED idmap
    BY <1>10 DEF remote_process_send
  <2> HIDE DEF r
  <2>4. QED
    BY <2>1, <2>2, <2>3, QuietKeeps DEF Leaves
<1>11. CASE remote_send_fails \/ remote_hangup
  <2>1. cur \in Slot /\ usbmux_remote_close(cur)
        /\ (remote[cur].state = "CONNECTED" \/ "sendfail" \in Env)
    BY <1>0, <1>11 DEF remote_send_fails, remote_hangup
  <2>2. QED
    BY <2>1, RemoteCloseIs DEF Leaves
<1>12. CASE remote_other \/ remote_relay
  BY <1>12, SameKeeps DEF remote_other, remote_relay, Leaves
<1>13. QED
  BY <1>2, <1>3, <1>4, <1>6, <1>7, <1>8, <1>9, <1>10, <1>11, <1>12 DEF RemoteStep

(* The callbacks of the mDNS thread.                                       *)
LEMMA MdnsLists ==
    ASSUME TypeOK, RegistryInv, ListenersFit, MdnsStep
    PROVE  ListStep
<1>1. ASSUME NEW n \in Service, NEW e \in Endpoint, service_resolve(n, e) PROVE ListStep
  BY <1>1, ServiceAddIs DEF service_resolve, ListStep
<1>2. ASSUME NEW n \in Service, service_browse_remove(n) PROVE ListStep
  <2>1. PICK s \in Slot : Serving(s, n, None) /\ remote_mark_dead(s)
    BY <1>2 DEF service_browse_remove
  <2>2. remote[s].id # 0
    BY <2>1, ServingId
  <2>3. QED
    BY <2>1, <2>2, MarkDeadIs DEF Leaves, ListStep
<1>3. QED
  BY <1>1, <1>2 DEF MdnsStep

(* Every step does one of these things to the list.                        *)
LEMMA StepLists ==
    ASSUME TypeOK, RegistryInv, HeldFit, ListenersFit, [Next]_vars
    PROVE  ListStep
<1>1. CASE UNCHANGED vars
  BY <1>1, SameKeeps DEF vars, Leaves, ListStep
<1>2. ASSUME NEW e \in Endpoint, AddInstance(e) PROVE ListStep
  BY <1>2, ServiceAddIs DEF AddInstance, ListStep
<1>3. QED
  BY <1>1, <1>2, ClientLists, RemoteLists, MdnsLists DEF Next, ListStep

-----------------------------------------------------------------------------
(* Ids are in order, and remotes die by id.                                *)
LEMMA OwnIdsHold == Spec => []OwnIds /\ [][DieById]_vars
<1>1. Init => OwnIds
  <2>1. SUFFICES ASSUME Init PROVE OwnIds
    OBVIOUS
  <2>2. PICK local \in BOOLEAN :
            /\ remote = [s \in Slot |->
                            IF s = 1 /\ local THEN NewListener(Unix, 0, None) ELSE Blank]
            /\ idmap = IF local THEN {0} ELSE {}
    BY <2>1 DEF Init
  <2>3. \A s \in Slot : /\ remote[s].id = 0 /\ remote[s].where = Unix
                        /\ remote[s].state \in {"FREE", "COMMAND"}
                        /\ remote[s].state = "COMMAND" => s = 1
    BY <2>2 DEF NewListener, Queued, NewRemote, Blank
  <2>4. idmap \subseteq {0}
    BY <2>2
  <2>5. QED
    BY <2>3, <2>4
    DEF OwnIds, ListenersFit, IdsReleased, DeadTogether, IdsHeld, ConnHasListener, Listeners, InList
<1>2. IInv /\ OwnIds /\ [Next]_vars => OwnIds' /\ DieById
  BY StepLists, ListStepIds DEF IInv, OwnIds
<1>3. QED
  BY <1>1, <1>2, Inductive, PTL DEF Spec

(* Every id of the map is that of a listener, unless a send fails: then    *)
(* remote_process_send closes a listener and its id is lost.               *)
THEOREM IdsComeBack == ASSUME "sendfail" \notin Env PROVE Spec => []IdsReleased
<1>1. OwnIds => IdsReleased
  BY DEF OwnIds
<1>2. QED
  BY <1>1, OwnIdsHold, PTL

(* A connection leads to the usbmuxd of the listener with its id, and does *)
(* not outlive it, unless a probe or a failed send takes the listener away *)
(* alone or the mDNS thread marks both dead between the two halves of the  *)
(* handler of the answer to Connect, which brings the connection back.     *)
THEOREM ConnectionsHaveListener ==
    ASSUME "probe" \notin Env, "sendfail" \notin Env, "mdns" \notin Env
    PROVE  Spec => []ConnHasListener
<1>1. OwnIds => ConnHasListener
  BY DEF OwnIds, Lasting
<1>2. QED
  BY <1>1, OwnIdsHold, PTL

(* What remote_mark_dead kills is one usbmuxd, unless a connection that    *)
(* carries the id 0 comes to its end, or a connection outlived its         *)
(* listener and carries an id that another instance has by now.            *)
THEOREM OneDies ==
    ASSUME "probe" \notin Env, "sendfail" \notin Env, "eof0" \notin Env,
           "mdns" \notin Env
    PROVE  Spec => OneMuxDies
<1>1. IInv /\ OwnIds /\ DieById =>
        \A s, t \in Alive(remote) : remote[s].where # remote[t].where
            => ~ (remote'[s].state = "DEAD" /\ remote'[t].state = "DEAD")
  <2>1. SUFFICES ASSUME IInv, OwnIds, DieById, NEW s \in Alive(remote), NEW t \in Alive(remote),
                        remote'[s].state = "DEAD", remote'[t].state = "DEAD"
                 PROVE  remote[s].where = remote[t].where
    OBVIOUS
  <2>2. remote[s].id = remote[t].id /\ remote[s].id # 0
    BY <2>1 DEF DieById
  <2>3. s \in InList(remote) /\ t \in InList(remote)
    BY DEF Alive
  <2>4. PICK l \in Listeners : remote[l].id = remote[s].id /\ remote[l].where = remote[s].where
    BY <2>1, <2>2, <2>3 DEF OwnIds, ConnHasListener, Lasting
  <2>5. PICK m \in Listeners : remote[m].id = remote[t].id /\ remote[m].where = remote[t].where
    BY <2>1, <2>2, <2>3 DEF OwnIds, ConnHasListener, Lasting
  <2>6. l = m
    BY <2>1, <2>2, <2>4, <2>5 DEF IInv, RegistryInv, ListenerIds
  <2>7. QED
    BY <2>4, <2>5, <2>6
<1>2. IInv /\ OwnIds /\ [DieById]_vars =>
        [\A s, t \in Alive(remote) : remote[s].where # remote[t].where
            => ~ (remote'[s].state = "DEAD" /\ remote'[t].state = "DEAD")]_vars
  BY <1>1
<1>3. QED
  BY <1>2, OwnIdsHold, Inductive, PTL DEF OneMuxDies

-----------------------------------------------------------------------------
(* Views are exact while the main thread is alone.                         *)

(* What listening clients know goes with the device list; others know      *)
(* nothing.                                                                *)
Follows ==
    \A c \in Client :
        \/ client'[c].state # "LISTEN" /\ client'[c].view = {}
        \/ /\ client[c].state = "LISTEN" /\ client'[c].state = "LISTEN"
           /\ client[c].view = devices => client'[c].view = devices'

(* Such a step, outside start_listen, keeps views exact.                   *)
LEMMA FollowsViews ==
    ASSUME Views, Follows, pc # "listen", pc' # "listen"
    PROVE  Views'
<1>1. \A c \in Client : Listening(c)' <=> client'[c].state = "LISTEN"
  BY DEF Listening
<1>2. \A c \in Client : Listening(c) <=> client[c].state = "LISTEN"
  BY DEF Listening
<1>3. QED
  BY <1>1, <1>2 DEF Views, ViewExact, Follows

(* No client and no device is touched.                                     *)
LEMMA SameFollows ==
    ASSUME Views, pc # "listen", UNCHANGED <<client, devices>>
    PROVE  Follows
BY DEF Views, Follows, Listening

(* One client changes, but not to listen, and is told nothing.             *)
LEMMA ClientFollows ==
    ASSUME TypeOK, Views, pc # "listen", UNCHANGED devices, NEW a \in Client, NEW x,
           client' = [client EXCEPT ![a] = x], x.state # "LISTEN",
           x.view = {} \/ (x.view = client[a].view /\ client[a].state # "LISTEN")
    PROVE  Follows
<1>1. client'[a] = x /\ \A c \in Client : c # a => client'[c] = client[c]
  BY DEF TypeOK
<1>2. \A c \in Client : client[c].state # "LISTEN" => client[c].view = {}
  BY DEF Views, Listening
<1>3. QED
  BY <1>1, <1>2 DEF Follows

(* usbmux_remote_dispose tells listening clients of every device it takes  *)
(* out of the list.                                                        *)
LEMMA DisposeFollows ==
    ASSUME TypeOK, Views, pc # "listen", NEW R, NEW S, usbmux_remote_dispose(R, S)
    PROVE  Follows
<1>1. devices' = devices \ Lost(R, S)
  BY DEF usbmux_remote_dispose
<1>2. \A c \in Client : client[c].state # "LISTEN" => client[c].view = {}
  BY DEF Views, Listening
<1>3. ASSUME NEW c \in Client
      PROVE  \/ client'[c] = BlankClient
             \/ client[c].state # "LISTEN" /\ client'[c] = client[c]
             \/ /\ client[c].state = "LISTEN" /\ client'[c].state = "LISTEN"
                /\ client'[c].view = client[c].view \ Lost(R, S)
  <2>1. client[c] \in MuxClient
    BY DEF TypeOK
  <2>2. QED
    BY <2>1
    DEF usbmux_remote_dispose, ClientsAfterDispose, client_device_remove,
        notify_device_remove, MuxClient
<1>4. QED
  BY <1>1, <1>2, <1>3 DEF Follows, BlankClient

(* remote_mark_dead, in either case.                                       *)
LEMMA MarkDeadFollows ==
    ASSUME TypeOK, Views, pc # "listen", NEW s, remote_mark_dead(s)
    PROVE  Follows
<1>1. CASE UNCHANGED <<devices, idmap, client>>
  BY <1>1, SameFollows
<1>2. CASE usbmux_remote_dispose(MarkedDead(s), InList(MarkedDead(s)))
  BY <1>2, DisposeFollows
<1>3. QED
  BY <1>1, <1>2 DEF remote_mark_dead

(* client_close: the client that goes knows nothing.                       *)
LEMMA CloseFollows ==
    ASSUME TypeOK, Views, pc # "listen", NEW c, c \in Client \cup {None, Gone}, client_close(c)
    PROVE  Follows
<1>1. client' = [client EXCEPT ![c] = BlankClient] /\ UNCHANGED devices
  BY DEF client_close, remote_close
<1>2. CASE c \in Client
  <2> DEFINE x == BlankClient
  <2>1. x.state # "LISTEN" /\ x.view = {} /\ client' = [client EXCEPT ![c] = x]
    BY <1>1 DEF BlankClient
  <2> HIDE DEF x
  <2>2. QED
    BY <1>1, <1>2, <2>1, ClientFollows
<1>3. CASE c \notin Client
  <2>1. client' = client
    BY <1>1, <1>3 DEF TypeOK
  <2>2. QED
    BY <1>1, <2>1, SameFollows
<1>4. QED
  BY <1>2, <1>3

(* usbmux_remote_close, likewise.                                          *)
LEMMA RemoteCloseFollows ==
    ASSUME TypeOK, Views, pc # "listen", NEW s \in Slot, usbmux_remote_close(s)
    PROVE  Follows /\ UNCHANGED devices
<1>1. CASE client_close(remote[s].client)
  <2>1. remote[s].client \in Client \cup {None, Gone}
    BY DEF TypeOK, RemoteMux
  <2>2. QED
    BY <1>1, <2>1, CloseFollows DEF client_close, remote_close
<1>2. CASE UNCHANGED <<client, devices>>
  BY <1>2, SameFollows
<1>3. QED
  BY <1>1, <1>2 DEF usbmux_remote_close, remote_close

(* Every handler of client.c but start_listen.                             *)
LEMMA ClientStepFollows ==
    ASSUME TypeOK, Views, ClientStep, ~ start_listen, ~ start_listen_notify
    PROVE  Follows /\ pc # "listen" /\ pc' # "listen"
<1>0. client \in [Client -> MuxClient] /\ (pc = "client" => me \in Client)
  BY DEF TypeOK
<1>1. ASSUME NEW c \in Client, client_accept(c)
      PROVE  Follows /\ pc # "listen" /\ pc' # "listen"
  <2> DEFINE x == [client[c] EXCEPT !.state = "COMMAND"]
  <2>1. /\ pc = "poll" /\ client[c].state = "FREE" /\ UNCHANGED <<devices, pc>>
        /\ client' = [client EXCEPT ![c] = x]
    BY <1>1 DEF client_accept
  <2>2. x.state = "COMMAND" /\ x.view = client[c].view
    BY <1>0 DEF MuxClient
  <2> HIDE DEF x
  <2>3. QED
    BY <2>1, <2>2, ClientFollows
<1>2. ASSUME NEW c \in Client, client_process(c)
      PROVE  Follows /\ pc # "listen" /\ pc' # "listen"
  BY <1>2, SameFollows DEF client_process
<1>3. ASSUME NEW i \in Id,
             \/ usbmux_remote_connect(i)
             \/ usbmux_remote_read_buid(i) \/ usbmux_remote_pair_record(i)
      PROVE  Follows /\ pc # "listen" /\ pc' # "listen"
  <2>1. PICK s \in Slot :
            \/ client' = [client EXCEPT ![me] = [@ EXCEPT !.state = "CONNECTING1", !.remote = s]]
            \/ client' = [client EXCEPT ![me].remote = s]
    BY <1>3
    DEF usbmux_remote_connect, usbmux_remote_read_buid, usbmux_remote_pair_record, Request
  <2>2. /\ pc = "client" /\ pc' = "poll" /\ client[me].state = "COMMAND" /\ UNCHANGED devices
        /\ me \in Client
    BY <1>0, <1>3
    DEF usbmux_remote_connect, usbmux_remote_read_buid, usbmux_remote_pair_record, Request,
        Commanding, Return
  <2> DEFINE x == client'[me]
  <2>3. /\ x.state \in {"CONNECTING1", "COMMAND"} /\ x.view = client[me].view
        /\ client' = [client EXCEPT ![me] = x]
    BY <1>0, <2>1, <2>2 DEF MuxClient
  <2> HIDE DEF x
  <2>4. QED
    BY <2>2, <2>3, ClientFollows
<1>4. ASSUME NEW e \in Endpoint, AddInstance(e)
      PROVE  Follows /\ pc # "listen" /\ pc' # "listen"
  BY <1>4, SameFollows DEF AddInstance, remote_mux_service_add, Commanding, Return
<1>5. ASSUME NEW e \in Endpoint, RemoveInstance(e)
      PROVE  Follows /\ pc # "listen" /\ pc' # "listen"
  BY <1>5, MarkDeadFollows DEF RemoveInstance, Commanding, Return, ReturnUnless
<1>6. CASE client_other \/ client_relay
  BY <1>6, SameFollows DEF client_other, client_relay, Return
<1>7. CASE client_disconnect
  BY <1>0, <1>7, CloseFollows DEF client_disconnect, Return
<1>8. CASE process_send
  <2> DEFINE x == [client[me] EXCEPT !.state = "CONNECTED"]
  <2>1. /\ pc = "client" /\ pc' = "poll" /\ client[me].state = "CONNECTING2"
        /\ UNCHANGED devices /\ client' = [client EXCEPT ![me] = x] /\ me \in Client
    BY <1>0, <1>8 DEF process_send, Return
  <2>2. x.state = "CONNECTED" /\ x.view = client[me].view
    BY <1>0, <2>1 DEF MuxClient
  <2> HIDE DEF x
  <2>3. QED
    BY <2>1, <2>2, ClientFollows
<1>9. QED
  BY <1>1, <1>2, <1>3, <1>4, <1>5, <1>6, <1>7, <1>8 DEF ClientStep

(* Every handler of usbmux_remote.c.                                       *)
LEMMA RemoteStepFollows ==
    ASSUME TypeOK, Views, RemoteStep
    PROVE  Follows /\ pc # "listen" /\ pc' # "listen"
<1>0. /\ client \in [Client -> MuxClient] /\ (pc \in {"in", "out"} => cur \in Slot)
      /\ remote \in [Slot -> RemoteMux]
  BY DEF TypeOK
<1>1. ASSUME NEW s \in Slot, NEW e \in {"in", "out"}, usbmux_remote_process(s, e)
      PROVE  Follows /\ pc # "listen" /\ pc' # "listen"
  BY <1>1, DisposeFollows DEF usbmux_remote_process, Return, ReturnUnless
<1>2. ASSUME NEW s \in Slot, usbmux_remote_process_nval(s)
      PROVE  Follows /\ pc # "listen" /\ pc' # "listen"
  BY <1>2, DisposeFollows DEF usbmux_remote_process_nval, Return, ReturnUnless
<1>3. CASE remote_recv_eof
  BY <1>3, MarkDeadFollows DEF remote_recv_eof, Return, ReturnUnless
<1>4. CASE \/ remote_request_result \/ remote_process_send \/ remote_other
           \/ remote_relay \/ remote_listens \/ remote_connected
  BY <1>4, SameFollows
  DEF remote_request_result, remote_process_send, remote_other, remote_relay, remote_listens,
      remote_connected, Return, ReturnUnless
<1>5. ASSUME NEW ok \in BOOLEAN, remote_listen_result(ok)
      PROVE  Follows /\ pc # "listen" /\ pc' # "listen"
  BY <1>5, SameFollows DEF remote_listen_result, Return
<1>6. ASSUME NEW ok \in BOOLEAN, remote_connect_result(ok)
      PROVE  Follows /\ pc # "listen" /\ pc' # "listen"
  <2> DEFINE a == remote[cur].client
             x == [client[a] EXCEPT !.state = IF ok THEN "CONNECTING2" ELSE "COMMAND"]
  <2>1. pc = "in" /\ pc' # "listen" /\ UNCHANGED devices /\ cur \in Slot
    BY <1>0, <1>6 DEF remote_connect_result, Return, ReturnUnless
  <2>2. \/ client' = client
        \/ client[a].state = "CONNECTING1" /\ client' = [client EXCEPT ![a] = x]
    BY <1>6 DEF remote_connect_result, client_notify_connect
  <2>3. a \in Client => x.state # "LISTEN" /\ x.view = client[a].view
    BY <1>0 DEF MuxClient
  <2> HIDE DEF a, x
  <2>4. CASE client' = client
    BY <2>1, <2>4, SameFollows
  <2>5. CASE a \notin Client /\ client' = [client EXCEPT ![a] = x]
    BY <1>0, <2>1, <2>5, SameFollows
  <2>6. CASE /\ a \in Client /\ client[a].state = "CONNECTING1"
             /\ client' = [client EXCEPT ![a] = x]
    BY <2>1, <2>3, <2>6, ClientFollows
  <2>7. QED
    BY <2>2, <2>4, <2>5, <2>6
<1>7. ASSUME NEW d \in Device, remote_device_add(d) \/ remote_device_remove(d)
      PROVE  Follows /\ pc # "listen" /\ pc' # "listen"
  <2> DEFINE k == <<remote[cur].id, d>>
  <2>1. pc = "in" /\ pc' = "poll"
    BY <1>7 DEF remote_device_add, remote_device_remove, Return
  <2>2. \/ devices' = devices \cup {k} /\ client' = client_device_add({k})
        \/ devices' = devices \ {k} /\ client' = client_device_remove({k})
    BY <1>7 DEF remote_device_add, remote_device_remove
  <2> HIDE DEF k
  <2>3. ASSUME NEW c \in Client
        PROVE  \/ client[c].state # "LISTEN" /\ client'[c] = client[c]
               \/ /\ client[c].state = "LISTEN" /\ client'[c].state = "LISTEN"
                  /\ client[c].view = devices => client'[c].view = devices'
    <3>1. client[c] \in MuxClient
      BY <1>0
    <3>2. CASE devices' = devices \cup {k} /\ client' = client_device_add({k})
      BY <3>1, <3>2 DEF client_device_add, notify_device_add, MuxClient
    <3>3. CASE devices' = devices \ {k} /\ client' = client_device_remove({k})
      BY <3>1, <3>3 DEF client_device_remove, notify_device_remove, MuxClient
    <3>4. QED
      BY <2>2, <3>2, <3>3
  <2>4. \A c \in Client : client[c].state # "LISTEN" => client[c].view = {}
    BY <2>1 DEF Views, Listening
  <2>5. QED
    BY <2>1, <2>3, <2>4 DEF Follows
<1>8. CASE remote_send_fails \/ remote_hangup
  <2>1. usbmux_remote_close(cur) /\ pc \in {"in", "out"} /\ pc' \in {"poll", "freed"}
    BY <1>8 DEF remote_send_fails, remote_hangup, Return, ReturnUnless
  <2>2. QED
    BY <1>0, <2>1, RemoteCloseFollows
<1>9. QED
  BY <1>1, <1>2, <1>3, <1>4, <1>5, <1>6, <1>7, <1>8 DEF RemoteStep

(* start_listen makes its client listen, but not yet subscribed.           *)
LEMMA StartListenViews ==
    ASSUME TypeOK, Views, start_listen
    PROVE  Views' /\ \A c \in Client : Listening(c)' <=> Listening(c)
<1>1. /\ pc = "client" /\ pc' = "listen" /\ snap' = devices /\ me \in Client
      /\ client[me].state = "COMMAND" /\ UNCHANGED <<devices, me>>
  BY DEF start_listen, usbmux_remote_copy_device_list, Commanding, TypeOK
<1>2. \A c \in Client : c # me => client'[c] = client[c]
  BY DEF start_listen, TypeOK
<1>3. client'[me].state = "LISTEN" /\ client'[me].view = client[me].view
  BY <1>1 DEF start_listen, TypeOK, MuxClient
<1>4. \A c \in Client : Listening(c)' <=> Listening(c)
  BY <1>1, <1>2, <1>3 DEF Listening
<1>5. \A c \in Client : client'[c].view = client[c].view
  BY <1>2, <1>3
<1>6. QED
  BY <1>1, <1>3, <1>4, <1>5 DEF Views, ViewExact

(* The loop over the copy subscribes it.                                   *)
LEMMA NotifyViews ==
    ASSUME TypeOK, Views, start_listen_notify
    PROVE  /\ Views' /\ me \in Client
           /\ \A c \in Client : Listening(c)' <=> Listening(c) \/ c = me
<1>1. /\ pc = "listen" /\ pc' = "poll" /\ snap = devices /\ me \in Client
      /\ client[me].state = "LISTEN" /\ client[me].view = {} /\ UNCHANGED devices
  BY DEF start_listen_notify, Return, Views, Listening, TypeOK
<1>2. \A c \in Client : c # me => client'[c] = client[c]
  BY DEF start_listen_notify, TypeOK
<1>3. client'[me].state = "LISTEN" /\ client'[me].view = client[me].view \cup snap
  BY <1>1 DEF start_listen_notify, notify_device_add, TypeOK, MuxClient
<1>4. client'[me].view = devices'
  BY <1>1, <1>3
<1>5. \A c \in Client : Listening(c)' <=> Listening(c) \/ c = me
  BY <1>1, <1>2, <1>3 DEF Listening
<1>6. \A c \in Client : c # me => client'[c].view = client[c].view
  BY <1>2
<1>7. QED
  BY <1>1, <1>4, <1>5, <1>6 DEF Views, ViewExact

(* Views stay exact while the mDNS thread does not run.                    *)
LEMMA ViewsHold == ASSUME "mdns" \notin Env PROVE Spec => []Views
<1>1. Init => Views
  BY DEF Init, Views, ViewExact, Listening, BlankClient
<1>2. IInv /\ Views /\ [Next]_vars => Views'
  <2> SUFFICES ASSUME IInv, Views, [Next]_vars PROVE Views'
    OBVIOUS
  <2>1. TypeOK
    BY DEF IInv
  <2>2. CASE UNCHANGED vars
    BY <2>2 DEF vars, Views, ViewExact, Listening
  <2>3. CASE ClientStep
    BY <2>1, <2>3, ClientStepFollows, FollowsViews, StartListenViews, NotifyViews
  <2>4. CASE RemoteStep
    BY <2>1, <2>4, RemoteStepFollows, FollowsViews
  <2>5. CASE MdnsStep
    BY <2>5 DEF MdnsStep, service_resolve, service_browse_remove
  <2>6. QED
    BY <2>2, <2>3, <2>4, <2>5 DEF Next
<1>3. QED
  BY <1>1, <1>2, Inductive, PTL DEF Spec

(* A client that listens knows the devices that are in the list and no     *)
(* others, unless the mDNS thread disposes of a remote between the copy    *)
(* start_listen takes of the list and its last Attached message.           *)
THEOREM ViewsExact == ASSUME "mdns" \notin Env PROVE Spec => []ViewExact
<1>1. Views => ViewExact
  BY DEF Views
<1>2. QED
  BY <1>1, ViewsHold, PTL

-----------------------------------------------------------------------------
(* The registry implements the directory.  What stands for its variables:  *)
members     == {remote[s].where : s \in Listeners}
listed      == Named(devices)
subscribers == {c \in Client : Listening(c)}
views       == [c \in Client |-> IF Listening(c) THEN Named(client[c].view) ELSE {}]

Told == views' = [c \in Client |-> IF c \in subscribers' THEN listed' ELSE {}]

(* A step of the registry that is a Leave of the directory: listeners and  *)
(* devices go, and a listener that stays keeps its devices.                *)
Shrinks ==
    /\ \A t \in Listeners' : /\ t \in Listeners
                             /\ remote'[t].id = remote[t].id /\ remote'[t].where = remote[t].where
    /\ devices' \subseteq devices
    /\ \A t \in Listeners', d \in devices : remote[t].id = d[1] => d \in devices'

(* The ways devices go.                                                    *)
Drops ==
    \/ devices' = devices
    \/ Listeners' = {} /\ devices' \subseteq devices
    \/ usbmux_remote_dispose(remote, Dead(remote))

(* A device is listed under the usbmuxd of the listener with its id.       *)
ListedUnder ==
    \A x : x \in listed <=>
        \E s \in Listeners, d \in devices :
            remote[s].id = d[1] /\ x = <<remote[s].where, d[2]>>

(* That is what Named says, before and after a step.                       *)
LEMMA ListedIs == ListedUnder /\ ListedUnder'
<1>1. ListedUnder
  <2> DEFINE P == {q \in Listeners \X devices : remote[q[1]].id = q[2][1]}
  <2>1. \A x : x \in listed <=> \E p \in P : x = <<remote[p[1]].where, p[2][2]>>
    BY DEF listed, Named
  <2>2. \A p \in P : p[1] \in Listeners /\ p[2] \in devices /\ remote[p[1]].id = p[2][1]
    OBVIOUS
  <2>3. ASSUME NEW s \in Listeners, NEW d \in devices, remote[s].id = d[1]
        PROVE  \E p \in P : p[1] = s /\ p[2] = d
    <3>1. <<s, d>> \in P
      BY <2>3
    <3>2. QED
      BY <3>1
  <2> HIDE DEF P
  <2>4. QED
    BY <2>1, <2>2, <2>3 DEF ListedUnder
<1>2. QED
  BY <1>1, PTL

(* Exact views are views of the directory.                                 *)
LEMMA ViewsAre ==
    Views => views = [c \in Client |-> IF c \in subscribers THEN listed ELSE {}]
BY DEF Views, ViewExact, views, subscribers, listed

(* ... and after a step.                                                   *)
LEMMA ViewsTold == Views' => Told
<1>1. Views => views = [c \in Client |-> IF c \in subscribers THEN listed ELSE {}]
  BY ViewsAre
<1>2. (Views => views = [c \in Client |-> IF c \in subscribers THEN listed ELSE {}])'
  BY <1>1, PTL
<1>3. QED
  BY <1>2 DEF Told

(* What the directory allows, in terms of the registry: Leave.             *)
LEMMA LeaveIs ==
    ASSUME members \subseteq Where, members' \subseteq members,
           subscribers' \subseteq subscribers, \A d \in listed : d[1] \in members,
           listed' = {d \in listed : d[1] \in members'}, Told
    PROVE  Directory!Next
<1>1. PICK W \in SUBSET Where, C \in SUBSET Client :
            /\ members' = members \ W /\ subscribers' = subscribers \ C
            /\ W = members \ members'
  BY DEF subscribers
<1>2. listed' = {d \in listed : d[1] \notin W}
  BY <1>1
<1>3. Directory!Told
  BY DEF Directory!Told, Told, listed, subscribers, views
<1>4. Directory!Leave(W, C)
  BY <1>1, <1>2, <1>3 DEF Directory!Leave, members, listed, subscribers
<1>5. QED
  BY <1>1, <1>4 DEF Directory!Next

(* ... Join.                                                               *)
LEMMA JoinIs ==
    ASSUME NEW w \in Where, w \notin members, members' = members \cup {w},
           UNCHANGED <<listed, subscribers, views>>
    PROVE  Directory!Next
<1>1. Directory!Join(w)
  BY DEF Directory!Join, members, listed, subscribers, views
<1>2. QED
  BY <1>1 DEF Directory!Next

(* ... Attach and Detach.                                                  *)
LEMMA AttachIs ==
    ASSUME NEW w \in Where, NEW n \in Device, w \in members,
           listed' = listed \cup {<<w, n>>} \/ listed' = listed \ {<<w, n>>},
           UNCHANGED <<members, subscribers>>, Told
    PROVE  Directory!Next
<1>1. Directory!Attach(w, n) \/ Directory!Detach(w, n)
  BY DEF Directory!Attach, Directory!Detach, Directory!Told, Told, members, listed,
         subscribers, views
<1>2. QED
  BY <1>1 DEF Directory!Next

(* ... Subscribe.                                                          *)
LEMMA SubscribeIs ==
    ASSUME NEW c \in Client, subscribers' = subscribers \cup {c},
           UNCHANGED <<members, listed>>, Told
    PROVE  Directory!Next
<1>1. Directory!Subscribe(c)
  BY DEF Directory!Subscribe, Directory!Told, Told, members, listed, subscribers, views
<1>2. QED
  BY <1>1 DEF Directory!Next

(* No listener comes, and the ones that stay lead where they led.          *)
LEMMA LeavesListeners ==
    ASSUME Leaves
    PROVE  \A t \in Listeners' : /\ t \in Listeners
                                /\ remote'[t].id = remote[t].id
                                /\ remote'[t].where = remote[t].where
<1> SUFFICES ASSUME NEW t \in Slot, remote'[t].state # "FREE", remote'[t].listener
             PROVE  /\ remote[t].state # "FREE" /\ remote[t].listener
                    /\ remote'[t].id = remote[t].id /\ remote'[t].where = remote[t].where
  BY DEF Listeners, InList
<1> DEFINE Kept == /\ remote[t].state # "FREE" /\ remote[t].listener
                    /\ remote'[t].id = remote[t].id /\ remote'[t].where = remote[t].where
<1>1. ASSUME Keeps PROVE Kept
  BY <1>1 DEF Keeps, Same
<1>2. ASSUME Clears PROVE Kept
  BY <1>2 DEF Clears
<1>3. ASSUME NEW s \in Slot, Marks(s) PROVE Kept
  BY <1>3 DEF Marks, Same
<1>4. ASSUME NEW s \in Slot, Frees(s) \/ Connects(s) PROVE Kept
  BY <1>4 DEF Frees, Connects, Blank, Stands, Same
<1>5. ASSUME NEW S \in SUBSET Slot, Disposes(S) PROVE Kept
  BY <1>5 DEF Disposes, Blank, Stands, Same
<1> HIDE DEF Kept
<1>6. Kept
  BY <1>1, <1>2, <1>3, <1>4, <1>5 DEF Leaves
<1>7. QED
  BY <1>6 DEF Kept

(* Devices that go with dead remotes are not those of a listener that      *)
(* stays: what is dead is dead together.                                   *)
LEMMA DropsShrink ==
    ASSUME Leaves, DeadTogether, Drops
    PROVE  Shrinks
<1>1. ASSUME usbmux_remote_dispose(remote, Dead(remote)),
             NEW t \in Listeners', NEW d \in devices, remote[t].id = d[1]
      PROVE  d \in devices'
  <2>1. t \in Listeners /\ t \notin Dead(remote)
    <3>1. t \in Listeners
      BY LeavesListeners
    <3>2. t \in Dead(remote) => remote'[t] = Blank
      BY <1>1 DEF usbmux_remote_dispose, Dead
    <3>3. QED
      BY <3>1, <3>2 DEF Listeners, InList, Blank
  <2>2. ASSUME NEW s \in Dead(remote) PROVE remote[s].id # d[1]
    <3>1. s \in InList(remote) /\ remote[s].state = "DEAD"
      BY DEF Dead, InList
    <3>2. remote[t].state # "DEAD"
      BY <2>1 DEF Dead, Listeners, InList
    <3>3. QED
      BY <1>1, <2>1, <3>1, <3>2 DEF DeadTogether
  <2>3. QED
    BY <1>1, <2>2 DEF usbmux_remote_dispose, Lost
<1>2. devices' \subseteq devices
  BY DEF Drops, usbmux_remote_dispose
<1>3. QED
  BY <1>1, <1>2, LeavesListeners DEF Drops, Shrinks

(* remote_mark_dead drops devices only when no remote is left.             *)
LEMMA MarkDeadDrops ==
    ASSUME TypeOK, NEW s \in Slot, remote_mark_dead(s)
    PROVE  Drops
<1> DEFINE R == MarkedDead(s)
<1>1. CASE UNCHANGED <<devices, idmap, client>>
  BY <1>1 DEF Drops
<1>2. CASE usbmux_remote_dispose(R, InList(R))
  <2> DEFINE K == {R[u].client : u \in InList(R)} \ {None}
  <2>1. /\ devices' \subseteq devices
        /\ remote' = [t \in Slot |-> IF t \in InList(R) THEN Blank ELSE Orphaned(R, K)[t]]
    BY <1>2 DEF usbmux_remote_dispose
  <2>4. R \in [Slot -> RemoteMux]
    BY MarkedDeadType, TypeSplit
  <2> HIDE DEF R, K
  <2>5. \A t \in Slot : Orphaned(R, K)[t].state = R[t].state
    BY <2>4, OrphanedSame
  <2>2. Listeners' = {}
    BY <2>1, <2>5 DEF Listeners, InList, Blank
  <2>3. QED
    BY <2>1, <2>2 DEF Drops
<1>3. QED
  BY <1>1, <1>2 DEF remote_mark_dead

(* Every handler of client.c.                                              *)
LEMMA ClientDrops ==
    ASSUME TypeOK, ClientStep
    PROVE  Drops
<1>1. ASSUME NEW e \in Endpoint, RemoveInstance(e) PROVE Drops
  BY <1>1, MarkDeadDrops DEF RemoveInstance
<1>2. ASSUME NEW e \in Endpoint, AddInstance(e) PROVE devices' = devices
  BY <1>2 DEF AddInstance, remote_mux_service_add
<1>3. ASSUME NEW c, client_accept(c) \/ client_process(c) PROVE devices' = devices
  BY <1>3 DEF client_accept, client_process
<1>4. ASSUME NEW i, \/ usbmux_remote_connect(i)
                    \/ usbmux_remote_read_buid(i) \/ usbmux_remote_pair_record(i)
      PROVE  devices' = devices
  BY <1>4
  DEF usbmux_remote_connect, usbmux_remote_read_buid, usbmux_remote_pair_record, Request
<1>5. CASE \/ start_listen \/ start_listen_notify \/ client_other \/ process_send
           \/ client_relay \/ client_disconnect
  BY <1>5
  DEF start_listen, start_listen_notify, client_other, process_send, client_relay,
      client_disconnect, client_close, remote_close, Drops
<1>6. QED
  BY <1>1, <1>2, <1>3, <1>4, <1>5 DEF ClientStep, Drops

(* Every handler of usbmux_remote.c but the two that are about a device.   *)
LEMMA RemoteDrops ==
    ASSUME TypeOK, Views, RemoteStep, "probe" \notin Env,
           \A d \in Device : ~ remote_device_add(d) /\ ~ remote_device_remove(d)
    PROVE  Drops
<1>1. ASSUME NEW s \in Slot, NEW e \in {"in", "out"}, usbmux_remote_process(s, e) PROVE Drops
  BY <1>1 DEF usbmux_remote_process, Drops
<1>2. ASSUME NEW s \in Slot PROVE ~ usbmux_remote_process_nval(s)
  BY DEF usbmux_remote_process_nval
<1>3. CASE remote_recv_eof
  BY <1>3, MarkDeadDrops DEF remote_recv_eof, TypeOK
<1>4. ASSUME NEW ok, remote_listen_result(ok) \/ remote_connect_result(ok) PROVE devices' = devices
  BY <1>4 DEF remote_listen_result, remote_connect_result
<1>5. CASE \/ remote_request_result \/ remote_process_send \/ remote_other
           \/ remote_relay \/ remote_listens \/ remote_connected
  BY <1>5
  DEF remote_request_result, remote_process_send, remote_other, remote_relay, remote_listens,
      remote_connected, Drops
<1>6. CASE remote_send_fails \/ remote_hangup
  <2>1. usbmux_remote_close(cur)
    BY <1>6 DEF remote_send_fails, remote_hangup
  <2>2. QED
    BY <2>1 DEF usbmux_remote_close, client_close, remote_close, Drops
<1>7. QED
  BY <1>1, <1>2, <1>3, <1>4, <1>5, <1>6 DEF RemoteStep, Drops

(* Steps that shrink the registry are Leaves of the directory.             *)
LEMMA ShrinksLeave ==
    ASSUME IInv, ListenersFit, Shrinks, subscribers' \subseteq subscribers, Told
    PROVE  Directory!Next
<1>1. members \subseteq Where
  BY DEF members, IInv, TypeOK, RemoteMux, Listeners, InList
<1>2. members' \subseteq members
  BY DEF members, Shrinks
<1>3. \A x \in listed : x[1] \in members
  BY ListedIs DEF ListedUnder, members
<1>4. \A x : x \in listed' <=>
        \E s \in Listeners', d \in devices' :
            remote'[s].id = d[1] /\ x = <<remote'[s].where, d[2]>>
  BY ListedIs DEF ListedUnder
<1>5. \A x \in listed' : x \in listed /\ x[1] \in members'
  <2>1. SUFFICES ASSUME NEW x \in listed' PROVE x \in listed /\ x[1] \in members'
    OBVIOUS
  <2>2. PICK s \in Listeners', d \in devices' :
            remote'[s].id = d[1] /\ x = <<remote'[s].where, d[2]>>
    BY <1>4
  <2>3. x[1] \in members'
    BY <2>2 DEF members
  <2>4. s \in Listeners /\ d \in devices /\ remote[s].id = d[1] /\ x = <<remote[s].where, d[2]>>
    BY <2>2 DEF Shrinks
  <2>5. QED
    BY <2>3, <2>4, ListedIs DEF ListedUnder
<1>6. \A x \in listed : x[1] \in members' => x \in listed'
  <2>1. SUFFICES ASSUME NEW x \in listed, x[1] \in members' PROVE x \in listed'
    OBVIOUS
  <2>2. PICK s \in Listeners, d \in devices :
            remote[s].id = d[1] /\ x = <<remote[s].where, d[2]>>
    BY ListedIs DEF ListedUnder
  <2>3. PICK t \in Listeners' : x[1] = remote'[t].where
    BY <2>1 DEF members
  <2>4. t = s
    BY <2>2, <2>3 DEF Shrinks, ListenersFit
  <2>5. d \in devices' /\ remote'[t].id = d[1] /\ x = <<remote'[t].where, d[2]>>
    BY <2>2, <2>3, <2>4 DEF Shrinks
  <2>6. QED
    BY <1>4, <2>3, <2>5
<1>7. listed' = {x \in listed : x[1] \in members'}
  BY <1>5, <1>6
<1>8. QED
  BY <1>1, <1>2, <1>3, <1>7, LeaveIs

(* Where the device list alone changes, so does the directory: ids and     *)
(* endpoints of listeners go together.                                     *)
LEMMA DeviceAttaches ==
    ASSUME IInv, ListenersFit, NEW d \in Device, Told,
           remote_device_add(d) \/ remote_device_remove(d)
    PROVE  Directory!Next
<1> DEFINE w == remote[cur].where
           k == <<remote[cur].id, d>>
<1>0. client \in [Client -> MuxClient] /\ devices \subseteq DevId /\ remote \in [Slot -> RemoteMux]
  BY DEF IInv, TypeOK
<1>1. /\ cur \in Slot /\ remote[cur].state = "LISTEN" /\ UNCHANGED remote
      /\ pc = "in" /\ pc' = "poll"
  BY DEF remote_device_add, remote_device_remove, Return, IInv, TypeOK
<1>2. \/ devices' = devices \cup {k} /\ client' = client_device_add({k})
      \/ devices' = devices \ {k} /\ client' = client_device_remove({k})
  BY DEF remote_device_add, remote_device_remove
<1>3. cur \in Listeners /\ w \in Where /\ k[1] = remote[cur].id /\ k[2] = d
  BY <1>0, <1>1 DEF IInv, RegistryInv, ListenersAlone, Listeners, InList, RemoteMux
<1>4. \A t \in Listeners : /\ remote[t].id = remote[cur].id => t = cur
                           /\ remote[t].where = w => t = cur
  BY <1>3 DEF IInv, RegistryInv, ListenerIds, ListenersFit
<1>5. \A e \in devices : e[1] = k[1] /\ e[2] = d => e = k
  BY <1>0 DEF DevId
<1> HIDE DEF w, k
<1>6. \A c \in Client : client'[c].state = client[c].state
  BY <1>0, <1>2
  DEF client_device_add, client_device_remove, notify_device_add, notify_device_remove,
      MuxClient
<1>7. subscribers' = subscribers
  BY <1>1, <1>6 DEF subscribers, Listening
<1>8. Listeners' = Listeners /\ members' = members /\ w \in members
  BY <1>1, <1>3 DEF members, Listeners, InList, w
<1>9. \A x : x \in listed <=> \E s \in Listeners, e \in devices :
            remote[s].id = e[1] /\ x = <<remote[s].where, e[2]>>
  BY ListedIs DEF ListedUnder
<1>10. \A x : x \in listed' <=> \E s \in Listeners, e \in devices' :
            remote[s].id = e[1] /\ x = <<remote[s].where, e[2]>>
  BY <1>1, <1>8, ListedIs DEF ListedUnder
<1>11. \A s \in Listeners : remote[s].id = k[1] <=> s = cur
  BY <1>3, <1>4
<1>12. remote[cur].where = w
  BY DEF w
<1>13. CASE devices' = devices \cup {k}
  <2>1. \A x : x \in listed' <=> x \in listed \/ x = <<w, d>>
    BY <1>3, <1>9, <1>10, <1>11, <1>12, <1>13
  <2>2. listed' = listed \cup {<<w, d>>}
    BY <2>1
  <2>3. QED
    BY <1>3, <1>7, <1>8, <2>2, AttachIs
<1>14. CASE devices' = devices \ {k}
  <2>1. ASSUME NEW x \in listed' PROVE x \in listed /\ x # <<w, d>>
    <3>1. PICK s \in Listeners, e \in devices' :
                remote[s].id = e[1] /\ x = <<remote[s].where, e[2]>>
      BY <1>10
    <3>2. e \in devices /\ e # k
      BY <1>14
    <3>3. x = <<w, d>> => s = cur /\ e[2] = d
      BY <1>4, <3>1
    <3>4. QED
      BY <1>3, <1>5, <1>9, <3>1, <3>2, <3>3
  <2>2. ASSUME NEW x \in listed, x # <<w, d>> PROVE x \in listed'
    <3>1. PICK s \in Listeners, e \in devices :
                remote[s].id = e[1] /\ x = <<remote[s].where, e[2]>>
      BY <1>9
    <3>2. e # k
      BY <1>3, <1>11, <1>12, <2>2, <3>1
    <3>3. QED
      BY <1>10, <1>14, <3>1, <3>2
  <2>3. listed' = listed \ {<<w, d>>}
    BY <2>1, <2>2
  <2>4. QED
    BY <1>3, <1>7, <1>8, <2>3, AttachIs
<1>15. QED
  BY <1>2, <1>13, <1>14

(* AddInstance: an endpoint joins, and no device has its id yet.           *)
LEMMA InstanceJoins ==
    ASSUME IInv, Views, Views', NEW e \in Endpoint, AddInstance(e)
    PROVE  Directory!Next
<1>1. PICK s \in Slot : Adds(s) /\ remote'[s].where = e
  BY ServiceAddIs DEF AddInstance, IInv
<1>2. UNCHANGED <<client, devices>> /\ pc # "listen" /\ pc' # "listen"
  BY DEF AddInstance, remote_mux_service_add, Commanding, Return
<1>3. /\ Listeners' = Listeners \cup {s} /\ s \notin Listeners
      /\ \A t \in Listeners : remote'[t].id = remote[t].id /\ remote'[t].where = remote[t].where
  BY <1>1 DEF Adds, Listeners, InList, Stands, Same
<1>4. e \notin members /\ members' = members \cup {e}
  <2>1. e \notin members
    BY <1>1 DEF Adds, members
  <2>2. \A x : x \in members' <=> \E t \in Listeners' : x = remote'[t].where
    BY DEF members
  <2>3. \A x : x \in members <=> \E t \in Listeners : x = remote[t].where
    BY DEF members
  <2>4. QED
    BY <1>1, <1>3, <2>1, <2>2, <2>3
<1>5. \A d \in devices : remote'[s].id # d[1]
  BY <1>1 DEF Adds, IInv, RegistryInv, DeviceHasListener, ListenerIds
<1>6. listed' = listed
  <2>1. \A x : x \in listed <=> \E t \in Listeners, d \in devices :
            remote[t].id = d[1] /\ x = <<remote[t].where, d[2]>>
    BY ListedIs DEF ListedUnder
  <2>2. \A x : x \in listed' <=> \E t \in Listeners \cup {s}, d \in devices :
            remote'[t].id = d[1] /\ x = <<remote'[t].where, d[2]>>
    BY <1>2, <1>3, ListedIs DEF ListedUnder
  <2>3. \A x : x \in listed' <=> x \in listed
    BY <1>3, <1>5, <2>1, <2>2
  <2>4. QED
    BY <2>3
<1>7. subscribers' = subscribers
  BY <1>2 DEF subscribers, Listening
<1>8. views' = views
  BY <1>6, <1>7, ViewsAre, ViewsTold DEF Told
<1>9. e \in Where
  BY DEF Where
<1>10. QED
  BY <1>4, <1>6, <1>7, <1>8, <1>9, JoinIs

(* Every step of the registry is one of the directory, or none.            *)
LEMMA DirectoryStep ==
    ASSUME "mdns" \notin Env, "probe" \notin Env
    PROVE  IInv /\ OwnIds /\ Views /\ Views' /\ [Next]_vars
                => Directory!Next \/ UNCHANGED <<members, listed, subscribers, views>>
<1> SUFFICES ASSUME IInv, OwnIds, Views, Views', [Next]_vars
             PROVE  Directory!Next \/ UNCHANGED <<members, listed, subscribers, views>>
  OBVIOUS
<1>0. TypeOK /\ RegistryInv /\ HeldFit /\ ListenersFit /\ DeadTogether /\ Told
  BY ViewsTold DEF IInv, OwnIds, Lasting
<1>1. CASE UNCHANGED vars
  BY <1>1 DEF vars, members, listed, subscribers, views, Named, Listeners, InList, Listening
<1>2. ASSUME Follows, pc # "listen", pc' # "listen"
      PROVE  subscribers' \subseteq subscribers
  BY <1>2 DEF Follows, subscribers, Listening
<1>3. CASE start_listen_notify
  <2>1. /\ me \in Client
        /\ \A c \in Client : Listening(c)' <=> Listening(c) \/ c = me
    BY <1>0, <1>3, NotifyViews
  <2>2. subscribers' = subscribers \cup {me}
    BY <2>1 DEF subscribers
  <2>3. UNCHANGED <<remote, devices>>
    BY <1>3 DEF start_listen_notify
  <2>4. UNCHANGED <<members, listed>>
    BY <2>3 DEF members, listed, Named, Listeners, InList
  <2>5. QED
    BY <1>0, <2>1, <2>2, <2>4, SubscribeIs
<1>4. ASSUME NEW e \in Endpoint, AddInstance(e) PROVE Directory!Next
  BY <1>4, InstanceJoins
<1>5. ASSUME NEW d \in Device, remote_device_add(d) \/ remote_device_remove(d)
      PROVE  Directory!Next
  BY <1>0, <1>5, DeviceAttaches
<1>6. CASE ClientStep /\ ~ start_listen_notify /\ \A e \in Endpoint : ~ AddInstance(e)
  <2>1. Shrinks
    BY <1>0, <1>6, ClientLists, ClientDrops, DropsShrink
  <2>2. subscribers' \subseteq subscribers
    BY <1>0, <1>2, <1>6, ClientStepFollows, StartListenViews DEF subscribers
  <2>3. QED
    BY <1>0, <2>1, <2>2, ShrinksLeave
<1>7. CASE /\ RemoteStep
           /\ \A d \in Device : ~ remote_device_add(d) /\ ~ remote_device_remove(d)
  <2>1. Shrinks
    BY <1>0, <1>7, RemoteLists, RemoteDrops, DropsShrink
  <2>2. subscribers' \subseteq subscribers
    BY <1>0, <1>2, <1>7, RemoteStepFollows
  <2>3. QED
    BY <1>0, <2>1, <2>2, ShrinksLeave
<1>8. CASE MdnsStep
  BY <1>8 DEF MdnsStep, service_resolve, service_browse_remove
<1>9. QED
  BY <1>1, <1>3, <1>4, <1>5, <1>6, <1>7, <1>8 DEF Next

(* With one thread and no probe, the registry is a directory of devices:   *)
(* whatever ids are given out and taken back, clients that listen see the  *)
(* devices of the usbmuxds that are joined, under the usbmuxd they hang on.*)
THEOREM RegistryIsADirectory ==
    ASSUME "mdns" \notin Env, "probe" \notin Env
    PROVE  Spec => ImplementsDirectory
<1>1. IInv /\ Init => Directory!Init
  <2> SUFFICES ASSUME IInv, Init PROVE Directory!Init
    OBVIOUS
  <2>1. members \in SUBSET Where
    BY DEF members, IInv, TypeOK, RemoteMux, Listeners, InList
  <2>2. listed = {}
    BY ListedIs DEF ListedUnder, Init
  <2>3. subscribers = {} /\ views = [c \in Client |-> {}]
    BY DEF Init, subscribers, views, Listening, BlankClient
  <2>4. QED
    BY <2>1, <2>2, <2>3 DEF Directory!Init, members, listed, subscribers, views
<1>2. IInv /\ OwnIds /\ Views /\ Views' /\ [Next]_vars => [Directory!Next]_(Directory!dvars)
  <2>1. UNCHANGED <<members, listed, subscribers, views>> => UNCHANGED Directory!dvars
    BY DEF Directory!dvars, members, listed, subscribers, views
  <2>2. QED
    BY <2>1, DirectoryStep
<1>3. QED
  BY <1>1, <1>2, Inductive, OwnIdsHold, ViewsHold, PTL
  DEF Spec, ImplementsDirectory, Directory!Spec
=============================================================================
