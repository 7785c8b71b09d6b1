--------------------------- MODULE PollRoundProofs ---------------------------
(***************************************************************************)
(* Proofs about PollRound, for any number of clients, remotes, file        *)
(* numbers and probes: whose number a connection has, for whom the events  *)
(* of a round are handled, and which closes use what was freed.            *)
(***************************************************************************)
EXTENDS PollRound, WellFoundedInduction, TLAPS

(* TypeOK in two parts: the tables that opening and closing change, and    *)
(* the rest.                                                               *)
TablesOK ==
    /\ file \in [Fd -> Obj \cup {Prober, None}]
    /\ at \in [Obj -> Fd \cup {0}]
    /\ state \in [Obj -> {"new", "live", "dead", "freed"}]
    /\ mux \in [Remote -> Mux]
    /\ link \in [Obj -> Obj \cup {None}]
    /\ fresh \subseteq Obj /\ cut \subseteq Obj

LoopOK ==
    /\ pending \subseteq Entry /\ half \in Remote \cup {None}
    /\ probes \subseteq Probe /\ exit \in BOOLEAN
    /\ second \subseteq Client /\ failed \subseteq Remote
    /\ wrong \subseteq [fresh : BOOLEAN, cut : BOOLEAN]
    /\ dangling \subseteq Obj

(* What is in the lists has a number, what is not has none.                *)
Numbered ==
    /\ \A x \in Listed : at[x] \in Fd
    /\ \A x \in Obj \ Listed : at[x] = 0

(* An entry of pollfds is about the one in the lists that has its number,  *)
(* unless that is new or was robbed of the number.                         *)
EntriesFit ==
    \A e \in pending : \A x \in Listed \ (fresh \cup cut) : at[x] = e.fd => e.of = x

(* What is not in the lists points nowhere.                                *)
Unlinked == \A x \in Obj \ Listed : link[x] = None

(* client->remote leads to a remote in the lists that leads back, except   *)
(* for the one that is being linked.                                       *)
ClientLinks ==
    \A c \in Clients : link[c] # None =>
        link[c] \in Remotes /\ (link[link[c]] = c \/ link[c] = half)

(* remote->client leads to a client in the lists that leads back, unless   *)
(* that client sent a second request.                                      *)
RemoteLinks ==
    \A r \in Remotes : link[r] # None =>
        /\ link[r] \in Client
        /\ link[r] \in second \/ (link[r] \in Clients /\ link[link[r]] = r)

(* The remote that is being linked is alive, and one client has it.        *)
HalfSafe ==
    half # None =>
        /\ half \in Alive /\ mux[half].id = 0
        /\ \A c, d \in Clients : link[c] = half /\ link[d] = half => c = d

(* What remote_mux_service_remove finds has the id of the instance.        *)
InstanceIds == \A r \in Remote : mux[r].listener /\ mux[r].tcp => mux[r].id = 1

(* The inductive invariant.                                                *)
Fds == TablesOK /\ Numbered /\ OwnFd
Links == Unlinked /\ ClientLinks /\ RemoteLinks /\ HalfSafe /\ InstanceIds
Kept == Fds /\ LoopOK /\ EntriesFit /\ StaleOnlyToNew /\ Links /\ NoDangling

-----------------------------------------------------------------------------
(* Facts about the constants.                                              *)

(* Clients, remotes and the probe's own socket are different things, and 0 *)
(* is no number of a file.                                                 *)
LEMMA Apart ==
    /\ 0 \notin Fd /\ Prober \notin Obj /\ None \notin Obj /\ Prober # None
    /\ Client \subseteq Obj /\ Remote \subseteq Obj /\ Obj = Client \cup Remote
    /\ \A x \in Client : x \notin Remote
BY PollAssumption DEF Fd, Obj

(* The type invariant is that of the tables and that of the loop.          *)
LEMMA TypeParts == TypeOK <=> TablesOK /\ LoopOK
BY DEF TypeOK, TablesOK, LoopOK

(* The kernel's choice: a free number, if there is one.                    *)
LEMMA LowestIsFree ==
    ASSUME FreeFds # {}
    PROVE  LowestFd \in FreeFds
<1>1. FreeFds \subseteq Nat
  BY PollAssumption DEF FreeFds, Fd
<1>2. \E f \in FreeFds : \A g \in FreeFds : ~ (<<g, f>> \in OpToRel(<, Nat))
  <2>1. IsWellFoundedOn(OpToRel(<, Nat), Nat)
    BY NatLessThanWellFounded
  <2> DEFINE R == OpToRel(<, Nat)
  <2>2. IsWellFoundedOn(R, Nat)
    BY <2>1
  <2> HIDE DEF R
  <2>3. \E f \in FreeFds : \A g \in FreeFds : ~ (<<g, f>> \in R)
    BY <1>1, <2>2, WFMin
  <2>4. QED
    BY <2>3 DEF R
<1>3. \E f \in FreeFds : \A g \in FreeFds : f <= g
  <2>1. PICK f \in FreeFds : \A g \in FreeFds : ~ (<<g, f>> \in OpToRel(<, Nat))
    BY <1>2
  <2>2. ASSUME NEW g \in FreeFds PROVE f <= g
    <3>1. ~ (<<g, f>> \in OpToRel(<, Nat)) /\ f \in Nat /\ g \in Nat
      BY <1>1, <2>1, <2>2
    <3>2. ~ (g < f)
      BY <3>1 DEF OpToRel
    <3>3. f \in Nat /\ g \in Nat
      BY <1>1, <2>1, <2>2
    <3>4. QED
      BY <3>2, <3>3
  <2>3. QED
    BY <2>2
<1>4. QED
  BY <1>3 DEF LowestFd

-----------------------------------------------------------------------------
(* Opening a number.                                                       *)
LEMMA OpenedKeeps ==
    ASSUME Fds, EntriesFit, NEW x \in Obj, Opened(x), mux' \in [Remote -> Mux],
           link' \in [Obj -> Obj \cup {None}], UNCHANGED cut, pending' \subseteq pending
    PROVE  Fds' /\ EntriesFit' /\ Listed' = Listed \cup {x} /\ x \notin Listed
<1> DEFINE n == LowestFd
<1>1. n \in Fd /\ file[n] = None
  BY LowestIsFree DEF Opened, FreeFds
<1> HIDE DEF n
<1>2. /\ file' = [file EXCEPT ![n] = x] /\ at' = [at EXCEPT ![x] = n]
      /\ state' = [state EXCEPT ![x] = "live"] /\ fresh' = fresh \cup {x}
      /\ state[x] = "new"
  BY DEF Opened, n
<1>3. TablesOK'
  BY <1>1, <1>2, Apart DEF Fds, TablesOK
<1>4. Listed' = Listed \cup {x} /\ x \notin Listed
  BY <1>2 DEF Listed, Fds, TablesOK
<1>5. /\ \A y \in Obj \ {x} : at'[y] = at[y]
      /\ at'[x] = n
      /\ \A f \in Fd \ {n} : file'[f] = file[f]
      /\ file'[n] = x
  BY <1>1, <1>2 DEF Fds, TablesOK
<1>6. Numbered'
  BY <1>1, <1>4, <1>5 DEF Fds, Numbered, Listed
<1>7. OwnFd'
  <2>1. ASSUME NEW y \in Listed' \ cut' PROVE file'[at'[y]] = y
    <3>1. CASE y = x
      BY <1>5, <3>1
    <3>2. CASE y # x
      <4>1. y \in Listed \ cut /\ y \in Obj /\ at[y] \in Fd
        BY <1>4, <2>1, <3>2 DEF Fds, Numbered, Listed
      <4>2. file[at[y]] = y
        BY <4>1 DEF Fds, OwnFd
      <4>3. at[y] # n
        BY <1>1, <4>1, <4>2, Apart
      <4>4. QED
        BY <1>5, <3>2, <4>1, <4>2, <4>3
    <3>3. QED
      BY <3>1, <3>2
  <2>2. ASSUME NEW f \in Fd, file'[f] \in Obj
        PROVE  file'[f] \in Listed' /\ at'[file'[f]] = f
    <3>1. CASE f = n
      BY <1>4, <1>5, <3>1
    <3>2. CASE f # n
      <4>1. file'[f] = file[f]
        BY <1>5, <3>2
      <4>2. file[f] \in Listed /\ at[file[f]] = f
        BY <2>2, <4>1 DEF Fds, OwnFd
      <4>3. QED
        BY <1>4, <1>5, <2>2, <4>1, <4>2
    <3>3. QED
      BY <3>1, <3>2
  <2>3. QED
    BY <2>1, <2>2 DEF OwnFd
<1>8. EntriesFit'
  <2>1. SUFFICES ASSUME NEW e \in pending', NEW y \in Listed' \ (fresh' \cup cut'), at'[y] = e.fd
                 PROVE  e.of = y
    BY DEF EntriesFit
  <2>2. y # x /\ y \in Listed \ (fresh \cup cut) /\ y \in Obj
    BY <1>2, <1>4, <2>1 DEF Listed
  <2>3. at[y] = e.fd /\ e \in pending
    BY <1>5, <2>1, <2>2
  <2>4. QED
    BY <2>2, <2>3 DEF EntriesFit
<1>9. QED
  BY <1>3, <1>4, <1>6, <1>7, <1>8 DEF Fds
-----------------------------------------------------------------------------
(* Closing.                                                                *)

(* Numbers are closed; who loses one without being closed is in cut.       *)
LEMMA FreesKeepsFds ==
    ASSUME Fds, EntriesFit, NEW S, S \subseteq Listed, NEW D, D \subseteq Remotes,
           Frees(S, D), pending' \subseteq pending
    PROVE  /\ Fds' /\ EntriesFit' /\ Listed' = Listed \ S
           /\ \A x \in Obj : link'[x] = IF x \in S THEN None ELSE link[x]
           /\ \A r \in Remote : mux'[r] = IF r \in S THEN Blank ELSE mux[r]
           /\ \A x \in Obj \ (S \cup D) : state'[x] = state[x]
<1>1. /\ \A x \in Obj : state'[x] = IF x \in S THEN "freed" ELSE IF x \in D THEN "dead" ELSE state[x]
      /\ \A x \in Obj : at'[x] = IF x \in S THEN 0 ELSE at[x]
      /\ \A x \in Obj : link'[x] = IF x \in S THEN None ELSE link[x]
      /\ \A r \in Remote : mux'[r] = IF r \in S THEN Blank ELSE mux[r]
      /\ fresh' = fresh \ S
  BY DEF Frees, Marked
<1>2. /\ \A f \in Fd : file'[f] = IF \E x \in S : at[x] = f THEN None ELSE file[f]
      /\ cut' = (cut \cup {file[at[x]] : x \in S}) \ (S \cup {Prober, None})
  BY DEF Frees
<1>3. Listed' = Listed \ S
  BY <1>1 DEF Listed, Remotes
<1>4. S \subseteq Obj /\ \A x \in S : at[x] \in Fd
  BY DEF Listed, Fds, Numbered
<1>5. TablesOK'
  <2>1. file' \in [Fd -> Obj \cup {Prober, None}]
    BY DEF Fds, TablesOK, Frees
  <2>2. at' \in [Obj -> Fd \cup {0}]
    BY DEF Fds, TablesOK, Frees, Marked
  <2>3. state' \in [Obj -> {"new", "live", "dead", "freed"}]
    BY DEF Fds, TablesOK, Frees, Marked
  <2>4. mux' \in [Remote -> Mux]
    <3>1. Blank \in Mux
      BY DEF Blank, Mux, Id
    <3>2. QED
      BY <3>1 DEF Fds, TablesOK, Frees, Marked
  <2>5. link' \in [Obj -> Obj \cup {None}]
    BY DEF Fds, TablesOK, Frees, Marked
  <2>6. fresh' \subseteq Obj /\ cut' \subseteq Obj
    BY <1>1, <1>2, <1>4 DEF Fds, TablesOK
  <2>7. QED
    BY <2>1, <2>2, <2>3, <2>4, <2>5, <2>6 DEF TablesOK
<1>6. Numbered'
  BY <1>1, <1>3 DEF Fds, Numbered, Listed
<1>7. \A y \in Listed' : y \in Listed /\ y \notin S /\ y \in Obj /\ at'[y] = at[y]
  BY <1>1, <1>3 DEF Listed
<1>8. \A y \in Listed' \ cut' : y \notin cut
  BY <1>2, <1>7, Apart
<1>9. OwnFd'
  <2>1. ASSUME NEW y \in Listed' \ cut' PROVE file'[at'[y]] = y
    <3>1. y \in Listed \ cut /\ y \notin S /\ y \in Obj /\ at'[y] = at[y]
      BY <1>7, <1>8
    <3>2. file[at[y]] = y /\ at[y] \in Fd
      BY <3>1 DEF Fds, OwnFd, Numbered
    <3>3. ASSUME NEW x \in S, at[x] = at[y] PROVE FALSE
      <4>1. file[at[x]] = y
        BY <3>2, <3>3
      <4>2. y \in cut'
        BY <1>2, <3>1, <4>1, Apart
      <4>3. QED
        BY <2>1, <4>2
    <3>4. QED
      BY <1>2, <3>1, <3>2, <3>3
  <2>2. ASSUME NEW f \in Fd, file'[f] \in Obj
        PROVE  file'[f] \in Listed' /\ at'[file'[f]] = f
    <3>1. file'[f] = file[f] /\ \A x \in S : at[x] # f
      BY <1>2, <2>2, Apart
    <3>2. file[f] \in Listed /\ at[file[f]] = f
      BY <2>2, <3>1 DEF Fds, OwnFd
    <3>3. file[f] \in Listed'
      BY <1>3, <3>1, <3>2
    <3>4. QED
      BY <1>7, <3>1, <3>2, <3>3
  <2>3. QED
    BY <2>1, <2>2 DEF OwnFd
<1>10. EntriesFit'
  <2>1. SUFFICES ASSUME NEW e \in pending', NEW y \in Listed' \ (fresh' \cup cut'), at'[y] = e.fd
                 PROVE  e.of = y
    BY DEF EntriesFit
  <2>2. y \in Listed \ cut /\ y \notin S /\ at'[y] = at[y]
    BY <1>7, <1>8
  <2>3. y \notin fresh
    BY <1>1, <2>2
  <2>4. QED
    BY <2>1, <2>2, <2>3 DEF EntriesFit
<1>11. QED
  BY <1>1, <1>3, <1>5, <1>6, <1>9, <1>10 DEF Fds

(* Nobody in the lists is left pointing at what is freed, but for remotes  *)
(* of clients that sent a second request.                                  *)
Closed(S) ==
    /\ S \subseteq Listed
    /\ \A c \in Clients : link[c] \in S => c \in S
    /\ \A r \in Remotes \ S : link[r] \in S => link[r] \in second

(* Freeing a set that no link leaves keeps fds, entries and links in       *)
(* order.                                                                  *)
LEMMA FreesKeepsLinks ==
    ASSUME Fds, EntriesFit, Links, NEW S, Closed(S), NEW D, D \subseteq Remotes, Frees(S, D),
           half \notin S \cup D, pending' \subseteq pending, UNCHANGED <<half, second, failed>>
    PROVE  Fds' /\ EntriesFit' /\ Links'
<1>1. /\ Fds' /\ EntriesFit' /\ Listed' = Listed \ S
      /\ \A x \in Obj : link'[x] = IF x \in S THEN None ELSE link[x]
      /\ \A r \in Remote : mux'[r] = IF r \in S THEN Blank ELSE mux[r]
      /\ \A x \in Obj \ (S \cup D) : state'[x] = state[x]
  BY FreesKeepsFds DEF Closed
<1>2. Clients' = Clients \ S /\ Remotes' = Remotes \ S
  BY <1>1 DEF Clients, Remotes
<1>3. \A x \in Listed' : x \in Obj /\ x \notin S /\ link'[x] = link[x]
  BY <1>1 DEF Listed
<1>4. Unlinked'
  BY <1>1 DEF Unlinked, Links
<1>5. ClientLinks'
  <2>1. SUFFICES ASSUME NEW c \in Clients', link'[c] # None
                 PROVE  link'[c] \in Remotes' /\ (link'[link'[c]] = c \/ link'[c] = half')
    BY DEF ClientLinks
  <2>2. c \in Clients \ S /\ link'[c] = link[c]
    BY <1>2, <1>3, <2>1 DEF Clients
  <2>3. link[c] \in Remotes /\ (link[link[c]] = c \/ link[c] = half)
    BY <2>1, <2>2 DEF Links, ClientLinks
  <2>4. link[c] \notin S
    BY <2>2 DEF Closed
  <2>5. link[c] \in Remotes' /\ link'[link[c]] = link[link[c]]
    BY <1>1, <1>2, <2>3, <2>4 DEF Remotes, Listed
  <2>6. QED
    BY <2>2, <2>3, <2>5
<1>6. RemoteLinks'
  <2>1. SUFFICES ASSUME NEW r \in Remotes', link'[r] # None
                 PROVE  /\ link'[r] \in Client
                        /\ link'[r] \in second' \/ (link'[r] \in Clients' /\ link'[link'[r]] = r)
    BY DEF RemoteLinks
  <2>2. r \in Remotes \ S /\ link'[r] = link[r]
    BY <1>2, <1>3, <2>1 DEF Remotes
  <2>3. link[r] \in Client /\ (link[r] \in second \/ (link[r] \in Clients /\ link[link[r]] = r))
    BY <2>1, <2>2 DEF Links, RemoteLinks
  <2>4. CASE link[r] \in second
    BY <2>2, <2>3, <2>4
  <2>5. CASE link[r] \notin second
    <3>1. link[r] \in Clients \ S
      BY <2>2, <2>3, <2>5 DEF Closed
    <3>2. link'[link[r]] = link[link[r]]
      BY <1>1, <3>1 DEF Clients, Listed
    <3>3. QED
      BY <1>2, <2>2, <2>3, <2>5, <3>1, <3>2
  <2>6. QED
    BY <2>4, <2>5
<1>7. HalfSafe'
  <2>1. SUFFICES ASSUME half # None
                 PROVE  /\ half \in Alive' /\ mux'[half].id = 0
                        /\ \A c, d \in Clients' : link'[c] = half /\ link'[d] = half => c = d
    BY DEF HalfSafe
  <2>2. half \in Alive /\ mux[half].id = 0
    BY <2>1 DEF Links, HalfSafe
  <2>3. half \in Remotes /\ half \in Obj /\ half \in Remote /\ state[half] = "live"
    BY <2>2 DEF Alive, Remotes, Listed
  <2>4. half \in Alive'
    BY <1>1, <1>2, <2>3 DEF Alive
  <2>5. mux'[half] = mux[half]
    BY <1>1, <2>3
  <2>6. \A c \in Clients' : c \in Clients /\ link'[c] = link[c]
    BY <1>2, <1>3 DEF Clients
  <2>7. QED
    BY <2>1, <2>2, <2>4, <2>5, <2>6 DEF Links, HalfSafe
<1>8. InstanceIds'
  BY <1>1 DEF Links, InstanceIds, Blank
<1>9. QED
  BY <1>1, <1>4, <1>5, <1>6, <1>7, <1>8 DEF Links
(* Remotes whose client is closed with them leave nobody pointing at them. *)
LEMMA DisposeCloses ==
    ASSUME Fds, Links, NEW R, R \subseteq Remotes, half = None \/ R = {}, Used(R) = {}
    PROVE  Closed(usbmux_remote_dispose(R))
<1> DEFINE S == usbmux_remote_dispose(R)
<1>1. \A x : x \in S <=> x \in R \/ \E r \in R : x = link[r] /\ link[r] # None
  BY DEF usbmux_remote_dispose, Linked
<1>2. \A r \in R : r \in Remotes /\ r \in Remote
  BY DEF Remotes
<1>3. \A r \in R : link[r] # None => link[r] \in Listed
  BY <1>2 DEF Used
<1> HIDE DEF S
<1>4. S \subseteq Listed
  BY <1>1, <1>2, <1>3 DEF Remotes
<1>5. ASSUME NEW c \in Clients, link[c] \in S PROVE c \in S
  <2>1. link[c] # None
    BY <1>4, <1>5, Apart DEF Listed
  <2>2. link[c] \in Remotes /\ link[c] \in Remote /\ (link[link[c]] = c \/ link[c] = half)
    BY <2>1 DEF Links, ClientLinks, Remotes
  <2>3. link[c] \in R
    <3>1. SUFFICES ASSUME NEW r \in R, link[c] = link[r], link[r] # None PROVE FALSE
      BY <1>1, <1>5
    <3>2. link[r] \in Client
      BY <1>2, <3>1 DEF Links, RemoteLinks
    <3>3. QED
      BY <2>2, <3>1, <3>2, Apart
  <2>4. link[link[c]] = c
    BY <2>2, <2>3, Apart DEF Remotes, Listed
  <2>5. c # None
    BY Apart DEF Clients
  <2>6. QED
    BY <1>1, <2>3, <2>4, <2>5
<1>6. ASSUME NEW r \in Remotes \ S, link[r] \in S PROVE link[r] \in second
  <2>1. link[r] # None
    BY <1>4, <1>6, Apart DEF Listed
  <2>2. link[r] \in Client /\ (link[r] \in second \/ link[link[r]] = r)
    BY <2>1 DEF Links, RemoteLinks
  <2>3. link[r] \notin R
    BY <1>2, <2>2, Apart
  <2>4. PICK q \in R : link[r] = link[q]
    BY <1>1, <1>6, <2>3
  <2>5. link[q] \in second \/ link[link[q]] = q
    BY <1>2, <2>1, <2>4 DEF Links, RemoteLinks
  <2>6. q # r
    BY <1>1, <1>6, <2>4
  <2>7. QED
    BY <2>2, <2>4, <2>5, <2>6
<1>7. QED
  BY <1>4, <1>5, <1>6 DEF Closed, S

(* A client that is closed takes its remote along.                         *)
LEMMA ClientCloseCloses ==
    ASSUME Fds, Links, half = None, NEW c \in Clients
    PROVE  Closed(client_close(c))
<1> DEFINE S == client_close(c)
<1>1. \A x : x \in S <=> x = c \/ (x = link[c] /\ link[c] # None)
  BY DEF client_close, Linked
<1>2. c \in Listed /\ c \in Client /\ c \in Obj
  BY DEF Clients, Listed
<1> HIDE DEF S
<1>3. S \subseteq Listed
  BY <1>1, <1>2 DEF Links, ClientLinks, Remotes
<1>4. ASSUME NEW d \in Clients, link[d] \in S PROVE d \in S
  <2>1. link[d] # None
    BY <1>3, <1>4, Apart DEF Listed
  <2>2. link[d] \in Remote /\ link[d] \in Remotes /\ link[link[d]] = d
    BY <2>1, Apart DEF Links, ClientLinks, Remotes, Listed
  <2>3. link[d] = link[c]
    BY <1>1, <1>2, <1>4, <2>2, Apart
  <2>4. link[link[c]] = c
    BY <2>1, <2>2, <2>3, Apart DEF Links, ClientLinks, Remotes, Listed
  <2>5. QED
    BY <1>1, <2>2, <2>3, <2>4
<1>5. ASSUME NEW r \in Remotes \ S, link[r] \in S PROVE link[r] \in second
  <2>1. link[r] # None
    BY <1>3, <1>5, Apart DEF Listed
  <2>2. link[r] \in Client /\ (link[r] \in second \/ link[link[r]] = r)
    BY <2>1 DEF Links, RemoteLinks
  <2>3. link[r] = c
    BY <1>1, <1>5, <2>1, <2>2, Apart DEF Links, ClientLinks, Remotes
  <2>4. r # None
    BY Apart DEF Remotes
  <2>5. QED
    BY <1>1, <1>5, <2>2, <2>3, <2>4
<1>6. QED
  BY <1>3, <1>4, <1>5 DEF Closed, S

(* A remote without a client that is closed.                               *)
LEMMA LoneCloses ==
    ASSUME Fds, Links, half = None, NEW r \in Remotes, link[r] = None
    PROVE  Closed({r})
<1>1. r \in Listed /\ r \in Remote /\ r \in Obj
  BY DEF Remotes, Listed
<1>2. ASSUME NEW c \in Clients PROVE link[c] # r
  <2>1. SUFFICES ASSUME link[c] = r PROVE FALSE
    OBVIOUS
  <2>2. r # None /\ c # None
    BY <1>1, Apart DEF Clients
  <2>3. link[r] = c
    BY <2>1, <2>2 DEF Links, ClientLinks
  <2>4. QED
    BY <2>2, <2>3
<1>3. ASSUME NEW t \in Remotes PROVE link[t] # r
  BY <1>1, Apart DEF Links, RemoteLinks
<1>4. QED
  BY <1>1, <1>2, <1>3 DEF Closed

(* Two sets that no link leaves are one together.                          *)
LEMMA UnionCloses ==
    ASSUME NEW S, NEW T, Closed(S), Closed(T)
    PROVE  Closed(S \cup T)
BY DEF Closed

(* What may be closed once R is disposed of.                               *)
Closable(R, X) ==
    /\ X \subseteq Listed => Closed(X)
    /\ X \ Listed \subseteq second
    /\ X \cap UNION {Linked(r) : r \in R} \subseteq second

(* What is used after it was freed is a client with a second request.      *)
LEMMA DanglesSecond ==
    ASSUME Links, NEW R, NEW X, R \subseteq Remotes, Closable(R, X)
    PROVE  Dangles(R, X) \subseteq second
<1>1. Used(R) \subseteq second
  <2>1. SUFFICES ASSUME NEW r \in R, link[r] # None,
                        link[r] \notin Listed \/ \E t \in R \ {r} : link[t] = link[r]
                 PROVE  link[r] \in second
    BY DEF Used
  <2>2. link[r] \in second \/ (link[r] \in Clients /\ link[link[r]] = r)
    BY <2>1 DEF Links, RemoteLinks
  <2>3. CASE link[r] \notin Listed
    BY <2>2, <2>3 DEF Clients
  <2>4. CASE \E t \in R \ {r} : link[t] = link[r]
    <3>1. PICK t \in R \ {r} : link[t] = link[r]
      BY <2>4
    <3>2. link[t] \in second \/ link[link[t]] = t
      BY <2>1, <3>1 DEF Links, RemoteLinks
    <3>3. QED
      BY <2>2, <3>1, <3>2
  <2>5. QED
    BY <2>1, <2>3, <2>4
<1>2. QED
  BY <1>1 DEF Dangles, Closable

(* What the main thread does to dispose of R and close X, or its stop      *)
(* where that would use freed memory, keeps everything in order.           *)
LEMMA GoesKeeps ==
    ASSUME Fds, EntriesFit, Links, NoDangling, second \subseteq Client, failed \subseteq Remote,
           NEW R, NEW X, NEW D, R \subseteq Remotes, D \subseteq Remotes,
           half = None \/ (R = {} /\ X = {} /\ half \notin D),
           Closable(R, X), Goes(R, X, D),
           pending' \subseteq pending, UNCHANGED <<half, second, failed>>
    PROVE  Fds' /\ EntriesFit' /\ Links' /\ NoDangling' /\ dangling' \subseteq Obj
<1>1. CASE Dangles(R, X) # {}
  <2>1. dangling' = Dangles(R, X) /\ UNCHANGED <<file, at, state, mux, link, fresh, cut>>
    BY <1>1 DEF Goes, lists
  <2>3. Dangles(R, X) \subseteq second
    BY DanglesSecond
  <2>4. NoDangling' /\ dangling' \subseteq Obj
    BY <2>1, <2>3, Apart DEF NoDangling
  <2>5. Fds'
    BY <2>1 DEF Fds, TablesOK, Numbered, OwnFd, Listed
  <2>6. EntriesFit'
    BY <2>1 DEF EntriesFit, Listed
  <2>7. Links'
    BY <2>1 DEF Links, Unlinked, ClientLinks, RemoteLinks, HalfSafe, InstanceIds, Clients,
       Alive, Remotes, Listed
  <2>8. QED
    BY <2>4, <2>5, <2>6, <2>7
<1>2. CASE Dangles(R, X) = {}
  <2> DEFINE S == usbmux_remote_dispose(R) \cup X
  <2>1. Frees(S, D) /\ dangling' = dangling
    BY <1>2 DEF Goes
  <2>2. Used(R) = {} /\ X \subseteq Listed
    BY <1>2 DEF Dangles
  <2>3. Closed(usbmux_remote_dispose(R))
    BY <2>2, DisposeCloses
  <2>4. Closed(X)
    BY <2>2 DEF Closable
  <2>5. Closed(S)
    BY <2>3, <2>4, UnionCloses
  <2>6. R = {} /\ X = {} => S = {}
    BY DEF usbmux_remote_dispose
  <2>7. None \notin S \cup D
    BY <2>5, Apart DEF Closed, Listed, Remotes
  <2>8. half \notin S \cup D
    BY <2>6, <2>7
  <2> HIDE DEF S
  <2>9. Fds' /\ EntriesFit' /\ Links'
    BY <2>1, <2>5, <2>8, FreesKeepsLinks
  <2>10. NoDangling' /\ dangling' \subseteq Obj
    BY <2>1, Apart DEF NoDangling
  <2>11. QED
    BY <2>9, <2>10
<1>3. QED
  BY <1>1, <1>2
(* Nothing more is closed.                                                 *)
LEMMA NothingClosable == \A R : Closable(R, {})
BY DEF Closable, Closed

(* client_close takes the linked remote along.                             *)
LEMMA ClientClosable ==
    ASSUME Fds, Links, half = None, NEW c \in Clients
    PROVE  Closable({}, client_close(c))
<1>1. Closed(client_close(c))
  BY ClientCloseCloses
<1>2. client_close(c) \subseteq Listed
  BY <1>1 DEF Closed
<1>3. QED
  BY <1>1, <1>2 DEF Closable

(* usbmux_remote_close takes the linked client along, also right after the *)
(* dead remotes were disposed of.                                          *)
LEMMA RemoteClosable ==
    ASSUME Fds, Links, half = None, NEW r \in Alive, NEW R, R \subseteq Remotes \ {r}
    PROVE  Closable(R, usbmux_remote_close(r))
<1>1. r \in Remotes /\ r \in Remote /\ r \in Obj /\ r \in Listed
  BY Apart DEF Alive, Remotes, Listed
<1>2. ASSUME NEW x \in UNION {Linked(q) : q \in R}
      PROVE  x \in Client /\ \E q \in R : x = link[q] /\ link[q] # None
  BY DEF Linked, Links, RemoteLinks
<1>3. CASE link[r] = None
  <2>1. usbmux_remote_close(r) = {r}
    BY <1>3 DEF usbmux_remote_close
  <2>2. Closed({r})
    BY <1>1, <1>3, LoneCloses
  <2>3. {r} \cap UNION {Linked(q) : q \in R} = {}
    BY <1>1, <1>2, Apart
  <2>4. QED
    BY <1>1, <2>1, <2>2, <2>3 DEF Closable
<1>4. CASE link[r] # None
  <2> DEFINE c == link[r]
  <2>1. /\ usbmux_remote_close(r) = client_close(c)
        /\ c \in Client /\ (c \in second \/ (c \in Clients /\ link[c] = r))
    BY <1>1, <1>4 DEF usbmux_remote_close, Linked, Links, RemoteLinks
  <2>2. c \in Clients => Closed(client_close(c))
    BY ClientCloseCloses
  <2>3. client_close(c) \subseteq Listed => c \in Clients
    BY <2>1 DEF client_close, Clients
  <2>4. client_close(c) \ Listed \subseteq second
    <3>1. CASE c \in Clients
      BY <2>2, <3>1 DEF Closed
    <3>2. CASE c \notin Clients
      <4>1. c \in second /\ c \in Obj \ Listed
        BY <2>1, <3>2, Apart DEF Clients
      <4>2. link[c] = None
        BY <4>1 DEF Links, Unlinked
      <4>3. QED
        BY <4>1, <4>2 DEF client_close, Linked
    <3>3. QED
      BY <3>1, <3>2
  <2>5. ASSUME NEW x \in client_close(c) \cap UNION {Linked(q) : q \in R}
        PROVE  x \in second
    <3>1. x \in Client
      BY <1>2, <2>5
    <3>2. x = c \/ (x = link[c] /\ link[c] # None)
      BY <2>5 DEF client_close, Linked
    <3>3. x = c
      <4>1. CASE c \in Clients
        BY <3>1, <3>2, <4>1, Apart DEF Links, ClientLinks, Remotes
      <4>2. CASE c \notin Clients
        BY <2>1, <3>2, <4>2, Apart DEF Links, Unlinked, Clients
      <4>3. QED
        BY <4>1, <4>2
    <3>4. PICK q \in R : c = link[q] /\ link[q] # None
      BY <1>2, <2>5, <3>3
    <3>5. q # r /\ q \in Remotes
      OBVIOUS
    <3>6. c \in second \/ link[c] = q
      BY <3>4, <3>5 DEF Links, RemoteLinks
    <3>7. QED
      BY <2>1, <3>3, <3>5, <3>6
  <2>6. QED
    BY <2>1, <2>2, <2>3, <2>4, <2>5 DEF Closable
<1>5. QED
  BY <1>3, <1>4

(* remote_mark_dead in the main thread, or for the instance in the mDNS    *)
(* thread while the main thread links a remote.                            *)
LEMMA MarkDeadKeeps ==
    ASSUME Fds, EntriesFit, Links, NoDangling, second \subseteq Client, failed \subseteq Remote,
           NEW r, NEW R, R \subseteq Remotes, remote_mark_dead(r, R),
           half = None \/ (R = {} /\ mux[r].id = 1),
           pending' \subseteq pending, UNCHANGED <<half, second, failed>>
    PROVE  Fds' /\ EntriesFit' /\ Links' /\ NoDangling' /\ dangling' \subseteq Obj
<1> DEFINE D == {q \in Remotes \ R : mux[q].id = mux[r].id}
<1>1. D \subseteq Remotes /\ Closable(R, {}) /\ Closable(Remotes, {})
  BY NothingClosable
<1>2. half # None => half \in Alive /\ mux[half].id = 0
  BY DEF Links, HalfSafe
<1>3. half # None => half \notin D /\ R = {}
  BY <1>2
<1>4. CASE Alive \subseteq D \cup R
  <2>1. half = None
    BY <1>2, <1>3, <1>4
  <2>2. Goes(Remotes, {}, {})
    BY <1>4 DEF remote_mark_dead
  <2>3. QED
    BY <1>1, <2>1, <2>2, GoesKeeps
<1>5. CASE ~ (Alive \subseteq D \cup R)
  <2>1. Goes(R, {}, D)
    BY <1>5 DEF remote_mark_dead
  <2>2. half = None \/ (R = {} /\ half \notin D)
    BY <1>3
  <2> HIDE DEF D
  <2>3. QED
    BY <1>1, <2>1, <2>2, GoesKeeps
<1>6. QED
  BY <1>4, <1>5

-----------------------------------------------------------------------------
(* A new client or remote that is not linked to anything.                  *)
LEMMA OpenedAlone ==
    ASSUME Fds, EntriesFit, Links, NEW x \in Obj, Opened(x),
           mux' \in [Remote -> Mux], \A r \in Remote \ {x} : mux'[r] = mux[r],
           x \in Remote => (mux'[x].listener /\ mux'[x].tcp => mux'[x].id = 1),
           UNCHANGED <<link, cut, half, second>>, pending' \subseteq pending
    PROVE  Fds' /\ EntriesFit' /\ Links'
<1>1. Fds' /\ EntriesFit' /\ Listed' = Listed \cup {x} /\ x \notin Listed
  BY OpenedKeeps DEF Fds, TablesOK
<1>2. link[x] = None /\ x \in Obj \ Listed
  BY <1>1 DEF Links, Unlinked
<1>3. \A c \in Clients' : c \in Clients \/ c = x
  BY <1>1 DEF Clients
<1>4. \A r \in Remotes' : r \in Remotes \/ r = x
  BY <1>1 DEF Remotes
<1>5. Clients \subseteq Clients' /\ Remotes \subseteq Remotes'
  BY <1>1 DEF Clients, Remotes
<1>6. Unlinked'
  BY <1>1 DEF Links, Unlinked
<1>7. ClientLinks'
  BY <1>2, <1>3, <1>5 DEF Links, ClientLinks
<1>8. RemoteLinks'
  BY <1>2, <1>4, <1>5 DEF Links, RemoteLinks
<1>9. HalfSafe'
  <2>1. SUFFICES ASSUME half # None
                 PROVE  /\ half \in Alive' /\ mux'[half].id = 0
                        /\ \A c, d \in Clients' : link[c] = half /\ link[d] = half => c = d
    BY DEF HalfSafe
  <2>2. /\ half \in Alive /\ mux[half].id = 0
        /\ \A c, d \in Clients : link[c] = half /\ link[d] = half => c = d
    BY <2>1 DEF Links, HalfSafe
  <2>3. half \in Remotes /\ half \in Remote /\ half \in Obj /\ half # x /\ state[half] = "live"
    BY <1>1, <2>2 DEF Alive, Remotes, Listed
  <2>4. state'[half] = "live" /\ mux'[half] = mux[half]
    BY <2>3 DEF Opened, Fds, TablesOK
  <2>5. half \in Alive'
    BY <1>5, <2>3, <2>4 DEF Alive
  <2>6. QED
    BY <1>2, <1>3, <2>1, <2>2, <2>4, <2>5
<1>10. InstanceIds'
  BY DEF Links, InstanceIds
<1>11. QED
  BY <1>1, <1>6, <1>7, <1>8, <1>9, <1>10 DEF Links

(* The events of an entry are handled for the one with its number.         *)
LEMMA GivenKeeps ==
    ASSUME EntriesFit, StaleOnlyToNew, NEW e \in pending, NEW x \in Listed, at[x] = e.fd,
           wrong \subseteq [fresh : BOOLEAN, cut : BOOLEAN], Given(e, x)
    PROVE  StaleOnlyToNew' /\ wrong' \subseteq [fresh : BOOLEAN, cut : BOOLEAN]
<1> DEFINE w == [fresh |-> x \in fresh, cut |-> x \in cut]
<1>1. CASE e.of = x
  BY <1>1 DEF Given, StaleOnlyToNew
<1>2. CASE e.of # x
  <2>1. x \in fresh \/ x \in cut
    BY <1>2 DEF EntriesFit
  <2>2. wrong' = wrong \cup {w}
    BY <1>2 DEF Given
  <2>3. w.fresh \/ w.cut
    BY <2>1
  <2>4. w \in [fresh : BOOLEAN, cut : BOOLEAN]
    OBVIOUS
  <2> HIDE DEF w
  <2>5. QED
    BY <2>2, <2>3, <2>4 DEF StaleOnlyToNew
<1>3. QED
  BY <1>1, <1>2
-----------------------------------------------------------------------------
(* The actions.                                                            *)

(* A step that leaves the lists, and what is linked, as they are.          *)
LEMMA SameLinks ==
    ASSUME Links, UNCHANGED <<state, mux, link, half, second>>
    PROVE  Links'
BY DEF Links, Unlinked, ClientLinks, RemoteLinks, HalfSafe, InstanceIds, Clients, Alive,
   Remotes, Listed

(* A step that opens and closes nothing keeps the fds in order.            *)
LEMMA SameFds ==
    ASSUME Fds, UNCHANGED <<file, at, state, mux, cut>>,
           link' \in [Obj -> Obj \cup {None}], fresh' \subseteq Obj
    PROVE  Fds'
BY DEF Fds, TablesOK, Numbered, OwnFd, Listed

(* ... and one that reports no more events keeps the entries of the round  *)
(* in order.                                                               *)
LEMMA SameEntries ==
    ASSUME EntriesFit, UNCHANGED <<at, state, fresh, cut>>, pending' \subseteq pending
    PROVE  EntriesFit'
BY DEF EntriesFit, Listed

(* Collecting the fds of a round keeps everything in order.                *)
LEMMA MainLoopKeeps ==
    ASSUME Kept, NEW C, NEW R, main_loop(C, R)
    PROVE  Kept'
<1>1. /\ C \subseteq Clients /\ R \subseteq Remotes /\ fresh' = {}
      /\ UNCHANGED <<file, at, state, mux, link, half, probes, exit, second, failed, cut, wrong, dangling>>
  BY DEF main_loop, lists
<1>2. \A x \in C \cup R : x \in Listed
  BY <1>1 DEF Clients, Remotes
<1>3. ASSUME NEW e \in pending'
      PROVE  \/ e = [kind |-> "LISTEN", fd |-> 0, of |-> None]
             \/ \E k \in {"CLIENT", "REMOTE"}, x \in Listed : e = fdlist_add(k, x)
  BY <1>2 DEF main_loop
<1>4. ASSUME NEW k \in {"CLIENT", "REMOTE"}, NEW x \in Listed
      PROVE  /\ fdlist_add(k, x) \in Entry /\ fdlist_add(k, x).fd = at[x]
             /\ fdlist_add(k, x).of = file[at[x]]
  <2>1. at[x] \in Fd /\ file[at[x]] \in Obj \cup {Prober, None}
    BY DEF Kept, Fds, TablesOK, Numbered
  <2>2. QED
    BY <2>1 DEF fdlist_add, Entry
<1>5. pending' \subseteq Entry
  BY <1>3, <1>4 DEF Entry
<1>6. EntriesFit'
  <2>1. SUFFICES ASSUME NEW e \in pending', NEW y \in Listed \ cut, at[y] = e.fd
                 PROVE  e.of = y
    BY <1>1 DEF EntriesFit, Listed
  <2>2. at[y] \in Fd /\ file[at[y]] = y
    BY DEF Kept, Fds, Numbered, OwnFd
  <2>3. e # [kind |-> "LISTEN", fd |-> 0, of |-> None]
    BY <2>1, <2>2, Apart
  <2>4. PICK k \in {"CLIENT", "REMOTE"}, x \in Listed : e = fdlist_add(k, x)
    BY <1>3, <2>3
  <2>5. QED
    BY <1>4, <2>1, <2>2, <2>4
<1>7. Fds'
  BY <1>1, SameFds DEF Kept, Fds, TablesOK
<1>8. Links'
  BY <1>1, SameLinks DEF Kept
<1>9. LoopOK' /\ StaleOnlyToNew' /\ NoDangling'
  BY <1>1, <1>5 DEF Kept, LoopOK, StaleOnlyToNew, NoDangling
<1>10. QED
  BY <1>6, <1>7, <1>8, <1>9 DEF Kept

(* client_accept, which takes the lowest free number, keeps everything in  *)
(* order.                                                                  *)
LEMMA AcceptKeeps ==
    ASSUME Kept, NEW e \in pending, NEW c \in Client, client_accept(e, c)
    PROVE  Kept'
<1>1. /\ Opened(c) /\ pending' \subseteq pending
      /\ UNCHANGED <<mux, link, half, probes, exit, second, failed, cut, wrong, dangling>>
  BY DEF client_accept
<1>2. c \in Obj /\ c \notin Remote
  BY Apart
<1>3. mux' \in [Remote -> Mux]
  BY <1>1 DEF Kept, Fds, TablesOK
<1>4. Fds' /\ EntriesFit' /\ Links'
  BY <1>1, <1>2, <1>3, OpenedAlone DEF Kept
<1>5. LoopOK' /\ StaleOnlyToNew' /\ NoDangling'
  BY <1>1 DEF Kept, LoopOK, StaleOnlyToNew, NoDangling
<1>6. QED
  BY <1>4, <1>5 DEF Kept

(* An accept that fails, and an event for a client that is gone, keep      *)
(* everything in order.                                                    *)
LEMMA QuietKeeps ==
    ASSUME Kept, NEW e \in pending, client_accept_fails(e) \/ client_process_none(e)
    PROVE  Kept'
<1>1. /\ pending' \subseteq pending /\ exit' \in BOOLEAN
      /\ UNCHANGED <<file, at, state, mux, link, half, probes>>
      /\ UNCHANGED <<fresh, second, failed, cut, wrong, dangling>>
  BY DEF client_accept_fails, client_process_none, lists, history, Kept, LoopOK
<1>2. Fds'
  BY <1>1, SameFds DEF Kept, Fds, TablesOK
<1>3. Links' /\ EntriesFit'
  BY <1>1, SameLinks, SameEntries DEF Kept
<1>4. LoopOK' /\ StaleOnlyToNew' /\ NoDangling'
  BY <1>1 DEF Kept, LoopOK, StaleOnlyToNew, NoDangling
<1>5. QED
  BY <1>2, <1>3, <1>4 DEF Kept

(* client_process keeps everything in order.                               *)
LEMMA ClientProcessKeeps ==
    ASSUME Kept, NEW e \in pending, NEW c \in Client, client_process(e, c)
    PROVE  Kept'
<1>1. /\ c \in Clients /\ at[c] = e.fd /\ half = None /\ Given(e, c)
      /\ pending' \subseteq pending /\ UNCHANGED <<half, probes, exit, second, failed>>
  BY DEF client_process, Turn, Idle
<1>2. c \in Listed
  BY <1>1 DEF Clients
<1>3. StaleOnlyToNew' /\ wrong' \subseteq [fresh : BOOLEAN, cut : BOOLEAN]
  BY <1>1, <1>2, GivenKeeps DEF Kept, LoopOK
<1>4. Fds' /\ EntriesFit' /\ Links' /\ NoDangling' /\ dangling' \subseteq Obj
  <2>1. CASE UNCHANGED <<file, lists, fresh, cut, dangling>>
    <3>1. UNCHANGED <<file, at, state, mux, link, fresh, cut, dangling>>
      BY <2>1 DEF lists
    <3>2. Fds'
      BY <3>1, SameFds DEF Kept, Fds, TablesOK
    <3>3. Links' /\ EntriesFit'
      BY <1>1, <3>1, SameLinks, SameEntries DEF Kept
    <3>4. QED
      BY <1>1, <3>1, <3>2, <3>3 DEF Kept, LoopOK, NoDangling
  <2>2. CASE Goes({}, client_close(c), {})
    <3>1. Closable({}, client_close(c))
      BY <1>1, ClientClosable DEF Kept
    <3>2. QED
      BY <1>1, <2>2, <3>1, GoesKeeps DEF Kept, LoopOK
  <2>3. QED
    BY <2>1, <2>2 DEF client_process
<1>5. LoopOK'
  BY <1>1, <1>3, <1>4 DEF Kept, LoopOK
<1>6. QED
  BY <1>3, <1>4, <1>5 DEF Kept

(* usbmux_remote_process keeps everything in order, whichever remote it    *)
(* finds and closes.                                                       *)
LEMMA RemoteProcessKeeps ==
    ASSUME Kept, NEW e \in pending, usbmux_remote_process(e)
    PROVE  Kept'
<1>1. /\ half = None /\ pending' \subseteq pending /\ UNCHANGED <<half, probes, exit, second, failed>>
  BY DEF usbmux_remote_process, Turn, Idle
<1>2. Dead \subseteq Remotes /\ second \subseteq Client /\ failed \subseteq Remote
  BY DEF Dead, Kept, LoopOK
<1>3. CASE (\A r \in Alive : at[r] # e.fd) /\ Goes(Dead, {}, {}) /\ UNCHANGED wrong
  <2>1. Fds' /\ EntriesFit' /\ Links' /\ NoDangling' /\ dangling' \subseteq Obj
    BY <1>1, <1>2, <1>3, NothingClosable, GoesKeeps DEF Kept
  <2>2. LoopOK' /\ StaleOnlyToNew'
    BY <1>1, <1>3, <2>1 DEF Kept, LoopOK, StaleOnlyToNew
  <2>3. QED
    BY <2>1, <2>2 DEF Kept
<1>4. ASSUME NEW r \in Alive, at[r] = e.fd, Given(e, r),
             \/ Goes(Dead \cup {r}, {}, {}) \/ Goes(Dead, {}, {})
             \/ Goes(Dead, usbmux_remote_close(r), {}) \/ remote_mark_dead(r, Dead)
      PROVE  Kept'
  <2>1. r \in Listed /\ r \in Remotes /\ Dead \subseteq Remotes \ {r}
    BY DEF Alive, Dead, Remotes
  <2>2. StaleOnlyToNew' /\ wrong' \subseteq [fresh : BOOLEAN, cut : BOOLEAN]
    BY <1>4, <2>1, GivenKeeps DEF Kept, LoopOK
  <2>3. Fds' /\ EntriesFit' /\ Links' /\ NoDangling' /\ dangling' \subseteq Obj
    <3>1. CASE Goes(Dead \cup {r}, {}, {})
      <4>1. Dead \cup {r} \subseteq Remotes /\ Closable(Dead \cup {r}, {})
        BY <2>1, NothingClosable
      <4>2. QED
        BY <1>1, <1>2, <3>1, <4>1, GoesKeeps DEF Kept
    <3>2. CASE Goes(Dead, {}, {})
      BY <1>1, <1>2, <3>2, NothingClosable, GoesKeeps DEF Kept
    <3>3. CASE Goes(Dead, usbmux_remote_close(r), {})
      <4>1. Closable(Dead, usbmux_remote_close(r))
        BY <1>1, <2>1, RemoteClosable DEF Kept
      <4>2. QED
        BY <1>1, <1>2, <3>3, <4>1, GoesKeeps DEF Kept
    <3>4. CASE remote_mark_dead(r, Dead)
      BY <1>1, <1>2, <3>4, MarkDeadKeeps DEF Kept
    <3>5. QED
      BY <1>4, <3>1, <3>2, <3>3, <3>4
  <2>4. LoopOK'
    BY <1>1, <2>2, <2>3 DEF Kept, LoopOK
  <2>5. QED
    BY <2>2, <2>3, <2>4 DEF Kept
<1>5. QED
  BY <1>3, <1>4 DEF usbmux_remote_process

(* ... and so does a failed send, which ends it all.                       *)
LEMMA SendFailsKeeps ==
    ASSUME Kept, NEW e \in pending, NEW r \in Remote, remote_process_send_fails(e, r)
    PROVE  Kept'
<1>1. /\ half = None /\ pending' \subseteq pending /\ r \in Alive /\ at[r] = e.fd /\ Given(e, r)
      /\ failed' = failed \cup {r} /\ dangling' = Dangles(Dead, usbmux_remote_close(r)) \cup {r}
      /\ UNCHANGED <<file, at, state, mux, link, half, probes, exit, fresh, second, cut>>
  BY DEF remote_process_send_fails, Turn, Idle, lists
<1>2. r \in Listed /\ r \in Obj /\ Dead \subseteq Remotes /\ Dead \subseteq Remotes \ {r}
  BY <1>1 DEF Alive, Dead, Remotes, Listed
<1>3. Closable(Dead, usbmux_remote_close(r))
  BY <1>1, <1>2, RemoteClosable DEF Kept
<1>4. Dangles(Dead, usbmux_remote_close(r)) \subseteq second
  BY <1>2, <1>3, DanglesSecond DEF Kept
<1>5. StaleOnlyToNew' /\ wrong' \subseteq [fresh : BOOLEAN, cut : BOOLEAN]
  BY <1>1, <1>2, GivenKeeps DEF Kept, LoopOK
<1>6. NoDangling' /\ LoopOK'
  BY <1>1, <1>2, <1>4, <1>5, Apart DEF Kept, LoopOK, NoDangling
<1>7. Fds'
  BY <1>1, SameFds DEF Kept, Fds, TablesOK
<1>8. Links' /\ EntriesFit'
  BY <1>1, SameLinks, SameEntries DEF Kept
<1>9. QED
  BY <1>5, <1>6, <1>7, <1>8 DEF Kept

(* The callbacks of the mDNS thread keep everything in order.              *)
LEMMA ServiceKeeps ==
    ASSUME Kept, NEW r \in Remote, remote_mux_service_add(r) \/ remote_mux_service_remove(r)
    PROVE  Kept'
<1>1. CASE remote_mux_service_add(r)
  <2> DEFINE m == [id |-> 1, listener |-> TRUE, tcp |-> TRUE, conn |-> FALSE]
  <2>1. /\ Opened(r) /\ mux' = [mux EXCEPT ![r] = m]
        /\ UNCHANGED <<link, pending, half, probes, exit, second, failed, cut, wrong, dangling>>
    BY <1>1 DEF remote_mux_service_add
  <2>2. m \in Mux /\ m.id = 1
    BY DEF Mux, Id
  <2> HIDE DEF m
  <2>3. /\ mux' \in [Remote -> Mux] /\ mux'[r] = m
        /\ \A q \in Remote \ {r} : mux'[q] = mux[q]
    BY <2>1, <2>2 DEF Kept, Fds, TablesOK
  <2>4. r \in Obj
    BY Apart
  <2>5. Fds' /\ EntriesFit' /\ Links'
    BY <2>1, <2>2, <2>3, <2>4, OpenedAlone DEF Kept
  <2>6. LoopOK' /\ StaleOnlyToNew' /\ NoDangling'
    BY <2>1 DEF Kept, LoopOK, StaleOnlyToNew, NoDangling
  <2>7. QED
    BY <2>5, <2>6 DEF Kept
<1>2. CASE remote_mux_service_remove(r)
  <2>1. /\ r \in Instances /\ remote_mark_dead(r, {})
        /\ UNCHANGED <<pending, half, probes, exit, second, failed, wrong>>
    BY <1>2 DEF remote_mux_service_remove
  <2>2. mux[r].id = 1
    BY <2>1 DEF Instances, Kept, Links, InstanceIds
  <2>3. Fds' /\ EntriesFit' /\ Links' /\ NoDangling' /\ dangling' \subseteq Obj
    BY <2>1, <2>2, MarkDeadKeeps DEF Kept, LoopOK
  <2>4. LoopOK' /\ StaleOnlyToNew'
    BY <2>1, <2>3 DEF Kept, LoopOK, StaleOnlyToNew
  <2>5. QED
    BY <2>3, <2>4 DEF Kept
<1>3. QED
  BY <1>1, <1>2
(* A request makes a connection.                                           *)
LEMMA RequestKeeps ==
    ASSUME Kept, NEW e \in pending, NEW c \in Client, NEW r \in Remote, NEW i \in Id,
           NEW byTcp \in BOOLEAN, NEW late \in BOOLEAN,
           client_process_request(e, c, r, i, byTcp, late)
    PROVE  Kept'
<1> DEFINE m == [id |-> i, listener |-> FALSE, tcp |-> byTcp, conn |-> ~late]
<1>1. /\ c \in Clients /\ at[c] = e.fd /\ half = None /\ Given(e, c) /\ Opened(r)
      /\ (late => i = 0) /\ mux' = [mux EXCEPT ![r] = m]
      /\ pending' \subseteq pending /\ UNCHANGED <<probes, exit, failed, cut, dangling>>
  BY DEF client_process_request, Turn, Idle
<1>2. /\ link' = [link EXCEPT ![c] = r, ![r] = IF late THEN None ELSE c]
      /\ half' = IF late THEN r ELSE None
      /\ second' = IF link[c] = None THEN second ELSE second \cup {c}
  BY DEF client_process_request
<1>3. m \in Mux /\ m.id = i /\ m.listener = FALSE
  BY DEF Mux
<1> HIDE DEF m
<1>4. c \in Listed /\ c \in Obj /\ r \in Obj /\ c # r /\ c # None /\ r # None
  BY <1>1, Apart DEF Clients
<1>5. /\ mux' \in [Remote -> Mux] /\ mux'[r] = m
      /\ \A q \in Remote \ {r} : mux'[q] = mux[q]
  BY <1>1, <1>3 DEF Kept, Fds, TablesOK
<1>6. /\ link' \in [Obj -> Obj \cup {None}]
      /\ link'[c] = r /\ link'[r] = IF late THEN None ELSE c
      /\ \A x \in Obj \ {c, r} : link'[x] = link[x]
  BY <1>2, <1>4 DEF Kept, Fds, TablesOK
<1>7. Fds' /\ EntriesFit' /\ Listed' = Listed \cup {r} /\ r \notin Listed
  BY <1>1, <1>4, <1>5, <1>6, OpenedKeeps DEF Kept
<1>8. StaleOnlyToNew' /\ wrong' \subseteq [fresh : BOOLEAN, cut : BOOLEAN]
  BY <1>1, <1>4, GivenKeeps DEF Kept, LoopOK
<1>9. second \subseteq second' /\ second' \subseteq Client /\ (link[c] # None => c \in second')
  BY <1>2 DEF Kept, LoopOK
<1>10. Clients' = Clients /\ Remotes' = Remotes \cup {r} /\ r \notin Remotes
  BY <1>7, Apart DEF Clients, Remotes
<1>11. ASSUME NEW d \in Clients, link[d] # None
       PROVE  link[d] \in Remotes /\ link[d] \in Obj \ {c, r} /\ link[link[d]] = d
  <2>1. link[d] \in Remotes /\ link[link[d]] = d
    BY <1>1, <1>11 DEF Kept, Links, ClientLinks
  <2>2. QED
    BY <1>10, <2>1, Apart DEF Remotes
<1>12. Unlinked'
  BY <1>4, <1>6, <1>7 DEF Kept, Links, Unlinked
<1>13. ClientLinks'
  <2>1. SUFFICES ASSUME NEW d \in Clients, link'[d] # None
                 PROVE  link'[d] \in Remotes' /\ (link'[link'[d]] = d \/ link'[d] = half')
    BY <1>10 DEF ClientLinks
  <2>2. CASE d = c
    BY <1>2, <1>6, <1>10, <2>2
  <2>3. CASE d # c
    <3>1. d \in Obj \ {c, r}
      BY <1>4, <2>3, Apart DEF Clients
    <3>2. link'[d] = link[d]
      BY <1>6, <3>1
    <3>3. QED
      BY <1>6, <1>10, <1>11, <2>1, <3>2
  <2>4. QED
    BY <2>2, <2>3
<1>14. RemoteLinks'
  <2>1. SUFFICES ASSUME NEW q \in Remotes', link'[q] # None
                 PROVE  /\ link'[q] \in Client
                        /\ link'[q] \in second' \/ (link'[q] \in Clients' /\ link'[link'[q]] = q)
    BY DEF RemoteLinks
  <2>2. CASE q = r
    BY <1>1, <1>6, <1>10, <2>1, <2>2
  <2>3. CASE q # r
    <3>1. q \in Remotes /\ q \in Obj \ {c, r}
      BY <1>10, <2>1, <2>3, Apart DEF Remotes
    <3>2. link'[q] = link[q]
      BY <1>6, <3>1
    <3>3. link[q] \in Client /\ (link[q] \in second \/ (link[q] \in Clients /\ link[link[q]] = q))
      BY <2>1, <3>1, <3>2 DEF Kept, Links, RemoteLinks
    <3>4. CASE link[q] \in second
      BY <1>9, <3>2, <3>3, <3>4
    <3>5. CASE link[q] \in Clients /\ link[link[q]] = q /\ link[q] = c
      BY <1>9, <3>1, <3>2, <3>3, <3>5, Apart
    <3>6. CASE link[q] \in Clients /\ link[link[q]] = q /\ link[q] # c
      <4>1. link[q] \in Obj \ {c, r}
        BY <3>6, Apart DEF Clients
      <4>2. QED
        BY <1>6, <1>10, <3>2, <3>3, <3>6, <4>1
    <3>7. QED
      BY <3>3, <3>4, <3>5, <3>6
  <2>4. QED
    BY <2>2, <2>3
<1>15. HalfSafe'
  <2>1. SUFFICES ASSUME late
                 PROVE  /\ r \in Alive' /\ mux'[r].id = 0
                        /\ \A d \in Clients : link'[d] = r => d = c
    BY <1>2, <1>10 DEF HalfSafe
  <2>2. state'[r] = "live"
    BY <1>1, <1>4 DEF Opened, Kept, Fds, TablesOK
  <2>3. r \in Alive'
    BY <1>10, <2>2 DEF Alive
  <2>4. ASSUME NEW d \in Clients, d # c PROVE link'[d] # r
    <3>1. d \in Obj \ {c, r}
      BY <2>4, Apart DEF Clients
    <3>2. link'[d] = link[d]
      BY <1>6, <3>1
    <3>3. QED
      BY <1>4, <1>11, <3>2
  <2>5. QED
    BY <1>1, <1>3, <1>5, <2>1, <2>3, <2>4
<1>16. InstanceIds'
  BY <1>3, <1>5 DEF Kept, Links, InstanceIds
<1>17. Links'
  BY <1>12, <1>13, <1>14, <1>15, <1>16 DEF Links
<1>18. NoDangling'
  BY <1>1, <1>9 DEF Kept, NoDangling
<1>19. LoopOK'
  BY <1>1, <1>2, <1>8, <1>9 DEF Kept, LoopOK
<1>20. QED
  BY <1>7, <1>8, <1>17, <1>18, <1>19 DEF Kept

(* ... and the remote it made gets its client.                             *)
LEMMA LinkedKeeps ==
    ASSUME Kept, NEW c \in Client, client_process_linked(c)
    PROVE  Kept'
<1>1. /\ half # None /\ c \in Clients /\ link[c] = half /\ half' = None
      /\ UNCHANGED <<file, at, state, mux, pending, probes, exit, fresh, second, failed, cut, wrong>>
  BY DEF client_process_linked
<1>2. half \in Remotes /\ half \in Listed /\ half \in Obj /\ half \notin Clients
  BY <1>1, Apart DEF Kept, Links, HalfSafe, Alive, Remotes, Listed, Clients
<1>3. link' = [link EXCEPT ![half] = c] /\ dangling' = dangling
  BY <1>2 DEF client_process_linked
<1>4. c \in Obj /\ c # half
  BY <1>1, <1>2, Apart
<1>5. /\ link' \in [Obj -> Obj \cup {None}] /\ link'[half] = c
      /\ \A x \in Obj \ {half} : link'[x] = link[x]
  BY <1>2, <1>3, <1>4 DEF Kept, Fds, TablesOK
<1>6. Listed' = Listed /\ Clients' = Clients /\ Remotes' = Remotes
  BY <1>1 DEF Listed, Clients, Remotes
<1>7. \A d \in Clients : d \in Obj \ {half} /\ link'[d] = link[d]
  BY <1>2, <1>5, Apart DEF Clients
<1>8. Unlinked'
  BY <1>2, <1>5, <1>6 DEF Kept, Links, Unlinked
<1>9. ClientLinks'
  <2>1. SUFFICES ASSUME NEW d \in Clients, link[d] # None
                 PROVE  link[d] \in Remotes /\ link'[link[d]] = d
    BY <1>6, <1>7 DEF ClientLinks
  <2>2. CASE link[d] = half
    BY <1>1, <1>2, <1>5, <2>2 DEF Kept, Links, HalfSafe
  <2>3. CASE link[d] # half
    <3>1. link[d] \in Remotes /\ link[link[d]] = d
      BY <2>1, <2>3 DEF Kept, Links, ClientLinks
    <3>2. link[d] \in Obj \ {half}
      BY <2>3, <3>1, Apart DEF Remotes
    <3>3. QED
      BY <1>5, <3>1, <3>2
  <2>4. QED
    BY <2>2, <2>3
<1>10. RemoteLinks'
  <2>1. SUFFICES ASSUME NEW q \in Remotes, link'[q] # None
                 PROVE  /\ link'[q] \in Client
                        /\ link'[q] \in second \/ (link'[q] \in Clients /\ link'[link'[q]] = q)
    BY <1>1, <1>6 DEF RemoteLinks
  <2>2. CASE q = half
    BY <1>1, <1>5, <1>7, <2>2
  <2>3. CASE q # half
    <3>1. link'[q] = link[q]
      BY <1>5, <2>3, Apart DEF Remotes
    <3>2. link[q] \in Client /\ (link[q] \in second \/ (link[q] \in Clients /\ link[link[q]] = q))
      BY <2>1, <3>1 DEF Kept, Links, RemoteLinks
    <3>3. QED
      BY <1>7, <3>1, <3>2
  <2>4. QED
    BY <2>2, <2>3
<1>11. HalfSafe' /\ InstanceIds'
  BY <1>1 DEF Kept, Links, HalfSafe, InstanceIds
<1>12. Fds'
  BY <1>1, <1>5, SameFds DEF Kept, Fds, TablesOK
<1>13. EntriesFit'
  BY <1>1, SameEntries DEF Kept
<1>14. LoopOK' /\ StaleOnlyToNew' /\ NoDangling'
  BY <1>1, <1>3 DEF Kept, LoopOK, StaleOnlyToNew, NoDangling
<1>15. QED
  BY <1>8, <1>9, <1>10, <1>11, <1>12, <1>13, <1>14 DEF Kept, Links

(* The probes: one starts, opens its socket, and closes two numbers.       *)
LEMMA ProbeStartKeeps ==
    ASSUME Kept, NEW r \in Remote, check_remote_start(r)
    PROVE  Kept'
<1>1. /\ probes' = probes \cup {[of |-> r, fd |-> 0, sock |-> 0]}
      /\ UNCHANGED <<file, at, state, mux, link, pending, half, exit>>
      /\ UNCHANGED <<fresh, second, failed, cut, wrong, dangling>>
  BY DEF check_remote_start, lists, history
<1>2. [of |-> r, fd |-> 0, sock |-> 0] \in Probe
  BY DEF Probe
<1>3. LoopOK'
  BY <1>1, <1>2 DEF Kept, LoopOK
<1>4. Fds'
  BY <1>1, SameFds DEF Kept, Fds, TablesOK
<1>5. Links' /\ EntriesFit' /\ StaleOnlyToNew' /\ NoDangling'
  BY <1>1, SameLinks, SameEntries DEF Kept, StaleOnlyToNew, NoDangling
<1>6. QED
  BY <1>3, <1>4, <1>5 DEF Kept

(* check_remote_func, as it reads the fd and opens its own socket, keeps   *)
(* everything in order.                                                    *)
LEMMA ProbeOpensKeeps ==
    ASSUME Kept, NEW p \in probes, NEW f \in Fd, check_remote_func(p, f)
    PROVE  Kept'
<1> DEFINE n == IF FreeFds = {} THEN 0 ELSE LowestFd
<1>1. /\ file' = [g \in Fd |-> IF g = n THEN Prober ELSE file[g]]
      /\ probes' = (probes \ {p}) \cup {[p EXCEPT !.fd = f, !.sock = n]}
      /\ UNCHANGED <<at, state, mux, link, pending, half, exit>>
      /\ UNCHANGED <<fresh, second, failed, cut, wrong, dangling>>
  BY DEF check_remote_func, lists, history
<1>2. n \in Fd \cup {0} /\ (n \in Fd => file[n] = None)
  BY LowestIsFree, Apart DEF FreeFds
<1> HIDE DEF n
<1>3. [p EXCEPT !.fd = f, !.sock = n] \in Probe
  BY <1>2 DEF Kept, LoopOK, Probe
<1>4. LoopOK'
  BY <1>1, <1>3 DEF Kept, LoopOK
<1>5. TablesOK' /\ Numbered' /\ Listed' = Listed
  BY <1>1 DEF Kept, Fds, TablesOK, Numbered, Listed
<1>6. OwnFd'
  <2>1. ASSUME NEW y \in Listed \ cut PROVE file'[at[y]] = y
    <3>1. at[y] \in Fd /\ file[at[y]] = y /\ y # None
      BY Apart DEF Kept, Fds, Numbered, OwnFd, Listed
    <3>2. QED
      BY <1>1, <1>2, <3>1
  <2>2. ASSUME NEW g \in Fd, file'[g] \in Obj PROVE file[g] = file'[g]
    BY <1>1, <2>2, Apart
  <2>3. QED
    BY <1>1, <1>5, <2>1, <2>2 DEF Kept, Fds, OwnFd
<1>7. Links' /\ EntriesFit' /\ StaleOnlyToNew' /\ NoDangling'
  BY <1>1, SameLinks, SameEntries DEF Kept, StaleOnlyToNew, NoDangling
<1>8. QED
  BY <1>4, <1>5, <1>6, <1>7 DEF Kept, Fds

(* ... and so it does as it closes what it read.                           *)
LEMMA ProbeEndsKeeps ==
    ASSUME Kept, NEW p \in probes, NEW answered \in BOOLEAN, check_remote_end(p, answered)
    PROVE  Kept'
<1> DEFINE shut == ({p.sock} \cup IF answered THEN {} ELSE {p.fd}) \ {0}
<1>1. /\ file' = [f \in Fd |-> IF f \in shut THEN None ELSE file[f]]
      /\ cut' = cut \cup ({file[f] : f \in shut} \ {Prober, None})
      /\ probes' = probes \ {p}
      /\ UNCHANGED <<at, state, mux, link, pending, half, exit, fresh, second, failed, wrong, dangling>>
  BY DEF check_remote_end, lists
<1>2. shut \subseteq Fd
  BY DEF Kept, LoopOK, Probe
<1> HIDE DEF shut
<1>3. LoopOK'
  BY <1>1 DEF Kept, LoopOK
<1>4. TablesOK'
  <2>1. file' \in [Fd -> Obj \cup {Prober, None}]
    BY <1>1 DEF Kept, Fds, TablesOK
  <2>2. cut' \subseteq Obj
    BY <1>1, <1>2 DEF Kept, Fds, TablesOK
  <2>3. QED
    BY <1>1, <2>1, <2>2 DEF Kept, Fds, TablesOK
<1>5. Numbered' /\ Listed' = Listed
  BY <1>1 DEF Kept, Fds, Numbered, Listed
<1>6. OwnFd'
  <2>1. ASSUME NEW y \in Listed, y \notin cut' PROVE file'[at[y]] = y
    <3>1. y \notin cut /\ y \in Obj
      BY <1>1, <2>1 DEF Listed
    <3>2. at[y] \in Fd /\ file[at[y]] = y /\ y \notin {Prober, None}
      BY <3>1, Apart DEF Kept, Fds, Numbered, OwnFd
    <3>3. at[y] \notin shut
      BY <1>1, <2>1, <3>2
    <3>4. QED
      BY <1>1, <3>2, <3>3
  <2>2. ASSUME NEW g \in Fd, file'[g] \in Obj PROVE file[g] = file'[g]
    BY <1>1, <2>2, Apart
  <2>3. QED
    BY <1>1, <1>5, <2>1, <2>2 DEF Kept, Fds, OwnFd
<1>7. EntriesFit'
  BY <1>1, <1>5 DEF Kept, EntriesFit
<1>8. Links' /\ StaleOnlyToNew' /\ NoDangling'
  BY <1>1, SameLinks DEF Kept, StaleOnlyToNew, NoDangling
<1>9. QED
  BY <1>3, <1>4, <1>5, <1>6, <1>7, <1>8 DEF Kept, Fds

(* Every step keeps everything in order.                                   *)
LEMMA KeptStep == Kept /\ [Next]_vars => Kept'
<1> SUFFICES ASSUME Kept, [Next]_vars PROVE Kept'
  OBVIOUS
<1>1. CASE UNCHANGED vars
  <2>1. /\ UNCHANGED <<file, at, state, mux, link, pending, half, probes, exit>>
        /\ UNCHANGED <<fresh, second, failed, cut, wrong, dangling>>
    BY <1>1 DEF vars, lists, history
  <2>2. Fds'
    BY <2>1, SameFds DEF Kept, Fds, TablesOK
  <2>3. QED
    BY <2>1, <2>2, SameLinks, SameEntries DEF Kept, LoopOK, StaleOnlyToNew, NoDangling
<1>2. CASE \E e \in pending :
        \/ \E c \in Client : client_accept(e, c) \/ client_process(e, c)
        \/ \E c \in Client, r \in Remote, i \in Id, byTcp, late \in BOOLEAN :
            client_process_request(e, c, r, i, byTcp, late)
        \/ usbmux_remote_process(e)
        \/ \E r \in Remote : remote_process_send_fails(e, r)
  BY <1>2, AcceptKeeps, ClientProcessKeeps, RequestKeeps, RemoteProcessKeeps, SendFailsKeeps
<1>3. CASE \E e \in pending : client_accept_fails(e) \/ client_process_none(e)
  BY <1>3, QuietKeeps
<1>4. CASE Next
  BY <1>2, <1>3, <1>4, MainLoopKeeps, ServiceKeeps, ProbeStartKeeps, LinkedKeeps,
     ProbeOpensKeeps, ProbeEndsKeeps DEF Next
<1>5. QED
  BY <1>1, <1>4

(* Kept is an invariant.                                                   *)
LEMMA KeptHolds == Spec => []Kept
<1>1. Init => Kept
  <2>1. SUFFICES ASSUME NEW l \in Remote \cup {None},
            /\ file = [f \in Fd |-> IF f = 1 THEN l ELSE None]
            /\ at = [x \in Obj |-> IF x = l THEN 1 ELSE 0]
            /\ state = [x \in Obj |-> IF x = l THEN "live" ELSE "new"]
            /\ mux = [r \in Remote |-> [Blank EXCEPT !.listener = r = l]]
            /\ link = [x \in Obj |-> None]
            /\ pending = {} /\ half = None /\ probes = {} /\ exit = FALSE
            /\ fresh = {} /\ second = {} /\ failed = {} /\ cut = {} /\ wrong = {} /\ dangling = {}
                 PROVE  Kept
    BY DEF Init
  <2>2. 1 \in Fd
    BY PollAssumption DEF Fd
  <2>3. \A x \in Listed : x = l
    BY <2>1 DEF Listed
  <2>4. \A r \in Remote : /\ mux[r] = [id |-> 0, listener |-> r = l, tcp |-> FALSE, conn |-> FALSE]
                          /\ mux[r] \in Mux
    BY <2>1 DEF Blank, Mux, Id
  <2>5. mux \in [Remote -> Mux]
    BY <2>1, <2>4
  <2>6. TablesOK
    BY <2>1, <2>2, <2>5, Apart DEF TablesOK
  <2>7. Numbered
    BY <2>1, <2>2 DEF Numbered, Listed
  <2>8. OwnFd
    BY <2>1, <2>2, Apart DEF OwnFd, Listed
  <2>9. LoopOK /\ EntriesFit /\ StaleOnlyToNew /\ NoDangling
    BY <2>1 DEF LoopOK, EntriesFit, StaleOnlyToNew, NoDangling
  <2>10. Unlinked /\ ClientLinks /\ RemoteLinks /\ HalfSafe
    BY <2>1, Apart DEF Unlinked, ClientLinks, RemoteLinks, HalfSafe, Clients, Remotes, Listed
  <2>11. InstanceIds
    <3>1. ASSUME NEW r \in Remote PROVE ~ mux[r].tcp
      <4> DEFINE b == r = l
      <4>1. mux[r] = [id |-> 0, listener |-> b, tcp |-> FALSE, conn |-> FALSE]
        BY <2>4
      <4> HIDE DEF b
      <4>2. QED
        BY <4>1
    <3>2. QED
      BY <3>1 DEF InstanceIds
  <2>12. QED
    BY <2>6, <2>7, <2>8, <2>9, <2>10, <2>11 DEF Kept, Fds, Links
<1>2. Kept /\ [Next]_vars => Kept'
  BY KeptStep
<1>3. QED
  BY <1>1, <1>2, PTL DEF Spec

-----------------------------------------------------------------------------
(* Every table stays in its type.                                          *)
THEOREM PollTypes == Spec => []TypeOK
<1>1. Kept => TypeOK
  BY TypeParts DEF Kept, Fds
<1>2. QED
  BY <1>1, KeptHolds, PTL

(* Each client and remote in the lists has the number it was given, unless *)
(* somebody else closed that, and no number stays open that is not in the  *)
(* lists.                                                                  *)
THEOREM FdsAreOwned == Spec => []OwnFd
<1>1. Kept => OwnFd
  BY DEF Kept, Fds
<1>2. QED
  BY <1>1, KeptHolds, PTL

(* The events of a number are handled for another connection than they     *)
(* were polled for only if that one was made in the same round or has lost *)
(* its number.                                                             *)
THEOREM StaleEventsOnlyToNew == Spec => []StaleOnlyToNew
<1>1. Kept => StaleOnlyToNew
  BY DEF Kept
<1>2. QED
  BY <1>1, KeptHolds, PTL

(* A handler or callback uses a freed client only if that sent a second    *)
(* request, and a freed remote only if a send to it has just failed.       *)
THEOREM OnlyKnownDangle == Spec => []NoDangling
<1>1. Kept => NoDangling
  BY DEF Kept
<1>2. QED
  BY <1>1, KeptHolds, PTL
=============================================================================
