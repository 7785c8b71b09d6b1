--------------------------- MODULE UsbfluxctlProofs ---------------------------
(***************************************************************************)
(* Proofs about Usbfluxctl, for any number of usbfluxctl processes, hosts, *)
(* ports and services: what usbfluxctl prints is true of the moment its    *)
(* request was handled, and what was removed is not listed.                *)
(***************************************************************************)
EXTENDS Usbfluxctl, FiniteSetTheorems, TLAPS

(* TypeOK, without the instances.                                          *)
ProcessesOK ==
    /\ server \in {"usbfluxd", "usbmuxd"} /\ lookup \in {"free", "leaked", "awaited"}
    /\ pc \in [Ctl -> {"done", "connect", "sent", "ignored", "answered"}]
    /\ req \in [Ctl -> Request]
    /\ number \in [Ctl -> Result] /\ shown \in [Ctl -> SUBSET Endpoint] /\ sent \in [Ctl -> 0..2]
    /\ cut \subseteq Ctl
    /\ facts \in [Ctl -> SUBSET {"usbfluxd", "listed", "host", "added", "removed"}]
    /\ gone \subseteq Ctl \cup {None}

(* remote_mux_service_add keeps host and port unique, so that one mark     *)
(* takes an endpoint down.                                                 *)
OnePerEndpoint(I) == \A i, j \in I : i.at = j.at => i = j

Registry(I) ==
    /\ I \subseteq Instance
    /\ IsFiniteSet(I) /\ Cardinality(I) <= MaxId
    /\ OnePerEndpoint(I)

(* Nothing is known of a request that was not handled.                     *)
Unanswered == \A p \in Ctl : pc[p] # "answered" => facts[p] = {} /\ shown[p] = {}

(* A number, and what it says to the one who asked.                        *)
Meant(p) ==
    /\ number[p] = 0 => (IF req[p].cmd = "add" THEN "added" ELSE "removed") \in facts[p]
    /\ number[p] = 1 => facts[p] = {}
    /\ number[p] = 2 /\ req[p].cmd = "add" => facts[p] \cap {"listed", "host"} # {}
    /\ number[p] = 3 \/ (number[p] = 2 /\ req[p].cmd # "add") =>
        "usbfluxd" \in facts[p] /\ "listed" \notin facts[p]

Told == \A p \in Ctl : pc[p] = "answered" /\ req[p].cmd # "list" => Meant(p)

(* Whoever counts on it that Watched was removed is right.                 *)
StillGone == gone # {} => ~ Alive(inst, Watched)

(* The inductive invariant.                                                *)
Honest ==
    /\ ProcessesOK /\ Registry(inst)
    /\ Unanswered /\ Told /\ StillGone /\ DeletedNotListed

-----------------------------------------------------------------------------
(* The instances.                                                          *)

(* An instance changes its state.                                          *)
LEMMA ReplaceKeeps ==
    ASSUME Registry(inst), NEW i \in inst, NEW j \in Instance, j.at = i.at
    PROVE  Registry((inst \ {i}) \cup {j})
<1> DEFINE I == inst \ {i}
           T == I \cup {j}
<1>1. IsFiniteSet(I) /\ Cardinality(I) = Cardinality(inst) - 1
  BY FS_RemoveElement DEF Registry
<1>2. IsFiniteSet(T) /\ (Cardinality(T) = Cardinality(I) \/ Cardinality(T) = Cardinality(I) + 1)
  BY <1>1, FS_AddElement
<1>3. Cardinality(inst) \in Nat /\ Cardinality(inst) <= MaxId /\ MaxId \in Nat
  BY FS_CardinalityType, CtlAssumption DEF Registry
<1>4. Cardinality(I) \in Nat
  BY <1>1, FS_CardinalityType
<1>5. Cardinality(T) <= MaxId
  BY <1>1, <1>2, <1>3, <1>4
<1>6. T \subseteq Instance
  BY DEF Registry
<1>7. OnePerEndpoint(T)
  BY DEF Registry, OnePerEndpoint
<1>8. QED
  BY <1>2, <1>5, <1>6, <1>7 DEF Registry

(* Some instances go.                                                      *)
LEMMA SubsetKeeps ==
    ASSUME Registry(inst), NEW T, T \subseteq inst
    PROVE  Registry(T)
<1>1. IsFiniteSet(T) /\ Cardinality(T) <= Cardinality(inst)
  BY FS_Subset DEF Registry
<1>2. Cardinality(inst) \in Nat /\ Cardinality(T) \in Nat /\ MaxId \in Nat
      /\ Cardinality(inst) <= MaxId
  BY <1>1, FS_CardinalityType, CtlAssumption DEF Registry
<1>3. Cardinality(T) <= MaxId
  BY <1>1, <1>2
<1>4. QED
  BY <1>1, <1>3 DEF Registry, OnePerEndpoint

(* remote_mux_service_add keeps the registry in order, and its result is   *)
(* true.                                                                   *)
LEMMA AddKeeps ==
    ASSUME Registry(inst), StillGone, lookup \in {"free", "leaked", "awaited"}, NEW s \in Host \cup Service, NEW e \in Endpoint, NEW res,
           remote_mux_service_add(s, e, res)
    PROVE  /\ Registry(inst') /\ StillGone' /\ gone' \subseteq gone
           /\ lookup' \in {"free", "leaked", "awaited"}
           /\ res = 0 => Alive(inst', e) /\ ~ Alive(inst, e)
           /\ res = -1 => \A i \in inst : i.at # e
           /\ res = -2 => Duplicate(s, e)
<1>1. CASE UNCHANGED <<inst, gone>> /\ res # 0
  BY <1>1 DEF remote_mux_service_add, StillGone, Duplicate
<1>2. CASE res = 0
  <2> DEFINE n == [service |-> s, at |-> e, state |-> "COMMAND"]
  <2>1. /\ ~ Duplicate(s, e) /\ Cardinality(inst) < MaxId
        /\ inst' = inst \cup {n} /\ gone' = IF e = Watched THEN {} ELSE gone
    BY <1>2 DEF remote_mux_service_add
  <2>2. n \in Instance /\ n.at = e /\ n.state = "COMMAND"
    BY DEF Instance
  <2>3. \A i \in inst : i.at # e
    BY <2>1 DEF Duplicate
  <2> HIDE DEF n
  <2>4. n \notin inst
    BY <2>2, <2>3
  <2>5. IsFiniteSet(inst') /\ Cardinality(inst') = Cardinality(inst) + 1
    BY <2>1, <2>4, FS_AddElement DEF Registry
  <2>6. Cardinality(inst) \in Nat /\ MaxId \in Nat
    BY FS_CardinalityType, CtlAssumption DEF Registry
  <2>7. Cardinality(inst') <= MaxId
    BY <2>1, <2>5, <2>6
  <2>8. inst' \subseteq Instance /\ OnePerEndpoint(inst')
    BY <2>1, <2>2, <2>3 DEF Registry, OnePerEndpoint
  <2>9. Registry(inst')
    BY <2>5, <2>7, <2>8 DEF Registry
  <2>10. StillGone' /\ gone' \subseteq gone
    BY <2>1, <2>2 DEF StillGone, Alive
  <2>11. Alive(inst', e) /\ ~ Alive(inst, e)
    BY <2>1, <2>2, <2>3 DEF Alive
  <2>12. lookup' = lookup
    BY <1>2 DEF remote_mux_service_add
  <2>13. QED
    BY <1>2, <2>9, <2>10, <2>11, <2>12
<1>3. QED
  BY <1>1, <1>2 DEF remote_mux_service_add

(* A mark takes down the endpoint, and puts none up.                       *)
LEMMA MarkKeeps ==
    ASSUME Registry(inst), NEW i \in inst, remote_mark_dead(i)
    PROVE  /\ Registry(inst') /\ ~ Alive(inst', i.at)
           /\ \A e : Alive(inst', e) => Alive(inst, e)
<1> DEFINE j == [i EXCEPT !.state = "DEAD"]
           dead == (inst \ {i}) \cup {j}
<1>1. i \in Instance
  BY DEF Registry
<1>2. j \in Instance /\ j.at = i.at /\ j.state = "DEAD"
  BY <1>1 DEF Instance
<1>3. inst' = dead \/ inst' = {}
  BY DEF remote_mark_dead
<1> HIDE DEF j
<1>4. CASE inst' = dead
  <2>1. Registry(inst')
    BY <1>2, <1>4, ReplaceKeeps
  <2>2. \A k \in inst' : k = j \/ (k \in inst /\ k # i)
    BY <1>4
  <2>3. \A k \in inst' : k.at = i.at => k.state = "DEAD"
    BY <1>2, <2>2 DEF Registry, OnePerEndpoint
  <2>4. \A e : Alive(inst', e) => Alive(inst, e)
    BY <1>2, <2>2 DEF Alive
  <2>5. QED
    BY <2>1, <2>3, <2>4 DEF Alive
<1>5. CASE inst' = {}
  <2>1. Registry({})
    BY SubsetKeeps
  <2>2. QED
    BY <1>5, <2>1 DEF Alive
<1>6. QED
  BY <1>3, <1>4, <1>5
-----------------------------------------------------------------------------
(* usbfluxctl's steps.                                                     *)

(* Starting usbfluxctl keeps Honest.                                       *)
LEMMA StartKeeps ==
    ASSUME Honest, NEW p \in Ctl, NEW r \in Request, start(p, r)
    PROVE  Honest'
<1>1. /\ pc[p] = "done" /\ pc' = [pc EXCEPT ![p] = "connect"] /\ req' = [req EXCEPT ![p] = r]
      /\ gone' = gone \cup {q \in {p} : r.cmd = "list" /\ None \in gone}
      /\ UNCHANGED <<server, inst, lookup, number, shown, sent, cut, facts>>
  BY DEF start, reply
<1>2. gone' \subseteq gone \cup {p} /\ (gone' # {} => gone # {})
  BY <1>1
<1>3. ProcessesOK'
  BY <1>1, <1>2 DEF Honest, ProcessesOK
<1>4. \A q \in Ctl \ {p} : pc'[q] = pc[q] /\ req'[q] = req[q]
  BY <1>1 DEF Honest, ProcessesOK
<1>5. pc'[p] = "connect" /\ shown[p] = {} /\ facts[p] = {}
  BY <1>1 DEF Honest, ProcessesOK, Unanswered
<1>6. Unanswered'
  BY <1>1, <1>4, <1>5 DEF Honest, Unanswered
<1>7. Told'
  BY <1>1, <1>4, <1>5 DEF Honest, Told, Meant
<1>8. StillGone' /\ Registry(inst')
  BY <1>1, <1>2 DEF Honest, StillGone
<1>9. DeletedNotListed'
  BY <1>1, <1>2, <1>5 DEF Honest, DeletedNotListed
<1>10. QED
  BY <1>3, <1>6, <1>7, <1>8, <1>9 DEF Honest

(* A usbfluxctl that ends keeps Honest.                                    *)
LEMMA EndsKeeps ==
    ASSUME Honest, NEW p \in Ctl, Ends(p), UNCHANGED <<server, inst, lookup>>
    PROVE  Honest'
<1>1. Idle \in Request
  BY DEF Idle, Request
<1>2. /\ pc' = [pc EXCEPT ![p] = "done"] /\ req' = [req EXCEPT ![p] = Idle]
      /\ number' = [number EXCEPT ![p] = 0] /\ shown' = [shown EXCEPT ![p] = {}]
      /\ sent' = [sent EXCEPT ![p] = 0] /\ cut' = cut \ {p}
      /\ facts' = [facts EXCEPT ![p] = {}]
      /\ gone' = (gone \ {p}) \cup {q \in {None} : Removed(p)}
  BY DEF Ends
<1>3. gone' \subseteq gone \cup {None} /\ (gone' # {} => gone # {} \/ ~ Alive(inst, Watched))
  BY <1>2 DEF Removed
<1>4. ProcessesOK'
  BY <1>1, <1>2, <1>3 DEF Honest, ProcessesOK, Result
<1>5. /\ pc'[p] = "done" /\ shown'[p] = {} /\ facts'[p] = {}
      /\ \A q \in Ctl \ {p} : /\ pc'[q] = pc[q] /\ req'[q] = req[q] /\ number'[q] = number[q]
                              /\ shown'[q] = shown[q] /\ facts'[q] = facts[q]
  BY <1>2 DEF Honest, ProcessesOK
<1>6. Unanswered'
  BY <1>5 DEF Honest, Unanswered
<1>7. Told'
  BY <1>5 DEF Honest, Told, Meant
<1>8. StillGone' /\ Registry(inst')
  BY <1>3 DEF Honest, StillGone
<1>9. DeletedNotListed'
  BY <1>3, <1>5, CtlAssumption DEF Honest, DeletedNotListed
<1>10. QED
  BY <1>4, <1>6, <1>7, <1>8, <1>9 DEF Honest

(* A usbfluxctl that sends its request, or gets no reply, keeps Honest.    *)
LEMMA WaitsKeeps ==
    ASSUME Honest, NEW p \in Ctl, NEW q \in {"sent", "ignored"}, pc[p] # "answered",
           pc' = [pc EXCEPT ![p] = q],
           UNCHANGED <<server, inst, lookup, req, number, shown, sent, cut, facts, gone>>
    PROVE  Honest'
<1>1. pc'[p] = q /\ \A o \in Ctl \ {p} : pc'[o] = pc[o]
  BY DEF Honest, ProcessesOK
<1>2. ProcessesOK'
  BY DEF Honest, ProcessesOK
<1>3. Unanswered'
  BY <1>1 DEF Honest, Unanswered
<1>4. Told'
  BY <1>1 DEF Honest, Told, Meant
<1>5. StillGone' /\ Registry(inst') /\ DeletedNotListed'
  BY DEF Honest, StillGone, DeletedNotListed
<1>6. QED
  BY <1>2, <1>3, <1>4, <1>5 DEF Honest

(* Every step of usbfluxctl keeps Honest.                                  *)
LEMMA CtlStepKeeps ==
    ASSUME Honest, NEW p \in Ctl, CtlStep(p) \/ usbfluxd_query_short(p)
    PROVE  Honest'
<1>1. CASE Ends(p) /\ UNCHANGED <<server, inst, lookup>>
  BY <1>1, EndsKeeps
<1>2. CASE /\ pc[p] = "connect" /\ pc' = [pc EXCEPT ![p] = "sent"]
           /\ UNCHANGED <<server, inst, lookup, req, reply, cut, history>>
  BY <1>2, WaitsKeeps DEF reply, history
<1>3. QED
  BY <1>1, <1>2
  DEF CtlStep, usbfluxd_query_send, usbfluxd_query_eof, usbfluxd_query_short, usbfluxd_query_payload

-----------------------------------------------------------------------------
(* What the server does.                                                   *)

(* The instances change, by mDNS or by themselves.                         *)
LEMMA RegistryStep ==
    ASSUME Honest, Registry(inst'), StillGone', gone' \subseteq gone,
           lookup' \in {"free", "leaked", "awaited"},
           UNCHANGED <<server, pc, req, number, shown, sent, cut, facts>>
    PROVE  Honest'
<1>1. ProcessesOK'
  BY DEF Honest, ProcessesOK
<1>2. Unanswered' /\ DeletedNotListed'
  BY DEF Honest, Unanswered, DeletedNotListed
<1>3. Told'
  BY DEF Honest, Told, Meant
<1>4. QED
  BY <1>1, <1>2, <1>3 DEF Honest

(* A reply is made.                                                        *)
LEMMA ReplyStep ==
    ASSUME Honest, NEW p \in Ctl, NEW n \in Result, NEW I \in SUBSET Endpoint, Replies(p, n, I),
           NEW F \in SUBSET {"usbfluxd", "listed", "host", "added", "removed"},
           facts' = [facts EXCEPT ![p] = F],
           req[p].cmd # "list" => Meant(p)',
           gone # {} => Watched \notin I,
           Registry(inst'), StillGone', gone' \subseteq gone, UNCHANGED <<server, req, cut>>,
           lookup' \in {"free", "leaked", "awaited"}
    PROVE  Honest'
<1>1. /\ number' = [number EXCEPT ![p] = n] /\ shown' = [shown EXCEPT ![p] = I]
      /\ pc' = [pc EXCEPT ![p] = "answered"] /\ sent' = sent
  BY DEF Replies
<1>2. ProcessesOK'
  BY <1>1 DEF Honest, ProcessesOK
<1>3. /\ pc'[p] = "answered" /\ shown'[p] = I /\ number'[p] = n
      /\ \A q \in Ctl \ {p} : /\ pc'[q] = pc[q] /\ number'[q] = number[q]
                              /\ shown'[q] = shown[q] /\ facts'[q] = facts[q]
  BY <1>1 DEF Honest, ProcessesOK
<1>4. Unanswered'
  BY <1>3 DEF Honest, Unanswered
<1>5. Told'
  BY <1>3 DEF Honest, Told, Meant
<1>6. DeletedNotListed'
  BY <1>3 DEF Honest, DeletedNotListed
<1>7. QED
  BY <1>2, <1>4, <1>5, <1>6 DEF Honest

(* What Facts records.                                                     *)
LEMMA FactsRecorded ==
    ASSUME Honest, NEW p \in Ctl, Facts(p)
    PROVE  \E F \in SUBSET {"usbfluxd", "listed", "host", "added", "removed"} :
            /\ facts' = [facts EXCEPT ![p] = F] /\ facts'[p] = F
            /\ "usbfluxd" \in F
            /\ "listed" \in F <=> \E i \in inst : i.at = Asked(p)
            /\ "host" \in F <=> \E i \in inst : i.service = req[p].host
            /\ "added" \in F <=> Alive(inst', Asked(p)) /\ ~ Alive(inst, Asked(p))
            /\ "removed" \in F <=> req[p].cmd = "del" /\ ~ Alive(inst', Asked(p))
<1> DEFINE F == {"usbfluxd"}
                \cup {x \in {"listed"}  : \E i \in inst : i.at = Asked(p)}
                \cup {x \in {"host"}    : \E i \in inst : i.service = req[p].host}
                \cup {x \in {"added"}   : Alive(inst', Asked(p)) /\ ~ Alive(inst, Asked(p))}
                \cup {x \in {"removed"} : req[p].cmd = "del" /\ ~ Alive(inst', Asked(p))}
<1>1. facts' = [facts EXCEPT ![p] = F]
  BY DEF Facts
<1>2. facts'[p] = F
  BY <1>1 DEF Honest, ProcessesOK
<1>3. /\ F \in SUBSET {"usbfluxd", "listed", "host", "added", "removed"} /\ "usbfluxd" \in F
      /\ "listed" \in F <=> \E i \in inst : i.at = Asked(p)
      /\ "host" \in F <=> \E i \in inst : i.service = req[p].host
      /\ "added" \in F <=> Alive(inst', Asked(p)) /\ ~ Alive(inst, Asked(p))
      /\ "removed" \in F <=> req[p].cmd = "del" /\ ~ Alive(inst', Asked(p))
  OBVIOUS
<1> HIDE DEF F
<1>4. QED
  BY <1>1, <1>2, <1>3

(* The port that client_command keeps of a request is one.                 *)
LEMMA AskedEndpoint ==
    ASSUME Honest, NEW p \in Ctl, req[p].cmd \in {"add", "del"}
    PROVE  Asked(p) \in Endpoint /\ req[p].host \in Host
<1>1. req[p] \in Request
  BY DEF Honest, ProcessesOK
<1>2. req[p].host \in Host /\ req[p].port \in Port
  BY <1>1 DEF Request
<1>3. req[p].port \in Nat /\ PortMod \in Nat \ {0}
  BY <1>2, CtlAssumption
<1>4. req[p].port % PortMod \in 0..(PortMod - 1)
  BY <1>3
<1>5. QED
  BY <1>2, <1>4 DEF Asked, Endpoint

(* The command AddInstance keeps Honest: the reply says what was done.     *)
LEMMA AddInstanceKeeps ==
    ASSUME Honest, NEW p \in Ctl, AddInstance(p)
    PROVE  Honest'
<1>1. req[p].cmd = "add" /\ Facts(p) /\ UNCHANGED <<server, req, cut>>
  BY DEF AddInstance, Commands
<1>2. PICK res \in {0, -1, -2} :
        /\ remote_mux_service_add(req[p].host, Asked(p), res)
        /\ Replies(p, IF res = 0 THEN RESULT_OK
                      ELSE IF res = -2 THEN RESULT_BADDEV ELSE RESULT_CONNREFUSED, {})
  BY DEF AddInstance
<1> DEFINE n == IF res = 0 THEN 0 ELSE IF res = -2 THEN 2 ELSE 3
<1>3. Asked(p) \in Endpoint /\ req[p].host \in Host
  BY <1>1, AskedEndpoint
<1>4. /\ Registry(inst') /\ StillGone' /\ gone' \subseteq gone
      /\ lookup' \in {"free", "leaked", "awaited"}
      /\ res = 0 => Alive(inst', Asked(p)) /\ ~ Alive(inst, Asked(p))
      /\ res = -1 => \A i \in inst : i.at # Asked(p)
      /\ res = -2 => Duplicate(req[p].host, Asked(p))
  BY <1>2, <1>3, AddKeeps DEF Honest, ProcessesOK
<1>5. n \in Result /\ Replies(p, n, {})
  BY <1>2 DEF Result, RESULT_OK, RESULT_BADDEV, RESULT_CONNREFUSED
<1>6. PICK F \in SUBSET {"usbfluxd", "listed", "host", "added", "removed"} :
            /\ facts' = [facts EXCEPT ![p] = F] /\ facts'[p] = F
            /\ "usbfluxd" \in F
            /\ "listed" \in F <=> \E i \in inst : i.at = Asked(p)
            /\ "host" \in F <=> \E i \in inst : i.service = req[p].host
            /\ "added" \in F <=> Alive(inst', Asked(p)) /\ ~ Alive(inst, Asked(p))
  BY <1>1, FactsRecorded
<1>7. number'[p] = n
  BY <1>5 DEF Replies, Honest, ProcessesOK
<1>8. Meant(p)'
  <2>1. CASE res = 0
    BY <1>1, <1>4, <1>6, <1>7, <2>1 DEF Meant
  <2>2. CASE res = -1
    BY <1>1, <1>4, <1>6, <1>7, <2>2 DEF Meant
  <2>3. CASE res = -2
    <3>1. "listed" \in F \/ "host" \in F
      BY <1>4, <1>6, <2>3 DEF Duplicate
    <3>2. QED
      BY <1>1, <1>6, <1>7, <2>3, <3>1 DEF Meant
  <2>4. QED
    BY <1>2, <2>1, <2>2, <2>3
<1> DEFINE I == {}
<1>9. I \in SUBSET Endpoint /\ Watched \notin I /\ Replies(p, n, I)
  BY <1>5
<1> HIDE DEF n, I
<1>10. /\ facts' = [facts EXCEPT ![p] = F]
       /\ F \in SUBSET {"usbfluxd", "listed", "host", "added", "removed"}
  BY <1>6
<1>11. QED
  BY <1>1, <1>4, <1>5, <1>8, <1>9, <1>10, ReplyStep

(* The command RemoveInstance keeps Honest: what it finds is dead before   *)
(* the reply is made.                                                      *)
LEMMA RemoveInstanceKeeps ==
    ASSUME Honest, NEW p \in Ctl, RemoveInstance(p)
    PROVE  Honest'
<1> DEFINE M == {i \in inst : i.at = Asked(p)}
<1>1. req[p].cmd = "del" /\ Facts(p) /\ UNCHANGED <<server, lookup, req, cut, gone>>
  BY DEF RemoveInstance, Commands
<1>2. PICK res \in {0, -1} :
        /\ remote_mux_service_remove(M, res)
        /\ Replies(p, IF res = 0 THEN RESULT_OK ELSE RESULT_BADDEV, {})
  BY DEF RemoveInstance
<1> DEFINE n == IF res = 0 THEN 0 ELSE 2
<1>3. /\ Registry(inst') /\ \A e : Alive(inst', e) => Alive(inst, e)
      /\ res = 0 => ~ Alive(inst', Asked(p))
      /\ res = -1 => \A i \in inst : i.at # Asked(p)
  <2>1. CASE res = 0
    <3>1. PICK i \in M : remote_mark_dead(i)
      BY <1>2, <2>1 DEF remote_mux_service_remove
    <3>2. i \in inst /\ i.at = Asked(p)
      OBVIOUS
    <3>3. QED
      BY <2>1, <3>1, <3>2, MarkKeeps DEF Honest
  <2>2. CASE res = -1
    <3>1. M = {} /\ inst' = inst
      BY <1>2, <2>2 DEF remote_mux_service_remove
    <3>2. QED
      BY <2>2, <3>1 DEF Honest
  <2>3. QED
    BY <1>2, <2>1, <2>2
<1>4. StillGone'
  BY <1>1, <1>3 DEF Honest, StillGone
<1>5. n \in Result /\ Replies(p, n, {})
  BY <1>2 DEF Result, RESULT_OK, RESULT_BADDEV
<1>6. PICK F \in SUBSET {"usbfluxd", "listed", "host", "added", "removed"} :
            /\ facts' = [facts EXCEPT ![p] = F] /\ facts'[p] = F
            /\ "usbfluxd" \in F
            /\ "listed" \in F <=> \E i \in inst : i.at = Asked(p)
            /\ "removed" \in F <=> req[p].cmd = "del" /\ ~ Alive(inst', Asked(p))
  BY <1>1, FactsRecorded
<1>7. number'[p] = n
  BY <1>5 DEF Replies, Honest, ProcessesOK
<1>8. Meant(p)'
  <2>1. CASE res = 0
    BY <1>1, <1>3, <1>6, <1>7, <2>1 DEF Meant
  <2>2. CASE res = -1
    BY <1>1, <1>3, <1>6, <1>7, <2>2 DEF Meant
  <2>3. QED
    BY <1>2, <2>1, <2>2
<1> DEFINE I == {}
<1>9. I \in SUBSET Endpoint /\ Watched \notin I /\ Replies(p, n, I)
  BY <1>5
<1> HIDE DEF n, I
<1>10. /\ facts' = [facts EXCEPT ![p] = F]
       /\ F \in SUBSET {"usbfluxd", "listed", "host", "added", "removed"}
  BY <1>6
<1>11. /\ gone' \subseteq gone /\ Registry(inst') /\ UNCHANGED <<server, req, cut>>
       /\ lookup' \in {"free", "leaked", "awaited"}
  BY <1>1, <1>3 DEF Honest, ProcessesOK
<1>12. QED
  BY <1>4, <1>5, <1>8, <1>9, <1>10, <1>11, ReplyStep
(* A reply that leaves no facts.                                           *)
LEMMA OtherReplyKeeps ==
    ASSUME Honest, NEW p \in Ctl, Instances(p) \/ usbmuxd_command(p)
    PROVE  Honest'
<1>1. pc[p] = "sent" /\ UNCHANGED <<server, inst, lookup, req, cut, facts, gone>>
  BY DEF Instances, usbmuxd_command, Commands, history
<1>2. facts[p] = {} /\ facts' = [facts EXCEPT ![p] = {}]
  BY <1>1 DEF Honest, ProcessesOK, Unanswered
<1> DEFINE F == {}
<1>3. /\ F \in SUBSET {"usbfluxd", "listed", "host", "added", "removed"}
      /\ facts' = [facts EXCEPT ![p] = F]
  BY <1>2
<1> HIDE DEF F
<1>4. /\ Registry(inst') /\ StillGone' /\ gone' \subseteq gone
      /\ lookup' \in {"free", "leaked", "awaited"}
  BY <1>1 DEF Honest, StillGone, ProcessesOK
<1>5. CASE Instances(p)
  <2> DEFINE I == usbmux_remote_copy_instances
             n == 0
  <2>1. Replies(p, n, I) /\ req[p].cmd = "list" /\ n \in Result
    BY <1>5 DEF Instances, Commands, Result
  <2>2. I \in SUBSET Endpoint
    BY DEF usbmux_remote_copy_instances, Honest, Registry, Instance
  <2>3. gone # {} => Watched \notin I
    BY DEF usbmux_remote_copy_instances, Honest, StillGone, Alive
  <2> HIDE DEF I, n
  <2>4. QED
    BY <1>1, <1>3, <1>4, <2>1, <2>2, <2>3, ReplyStep
<1>6. CASE usbmuxd_command(p)
  <2> DEFINE I == {}
             n == 1
  <2>1. Replies(p, n, I) /\ n \in Result
    BY <1>6 DEF usbmuxd_command, Result, RESULT_BADCOMMAND
  <2>2. I \in SUBSET Endpoint /\ Watched \notin I
    OBVIOUS
  <2>3. number'[p] = 1
    BY <2>1 DEF Replies, Honest, ProcessesOK
  <2>4. Meant(p)'
    BY <1>1, <1>2, <2>3 DEF Meant
  <2> HIDE DEF I, n
  <2>5. QED
    BY <1>1, <1>3, <1>4, <2>1, <2>2, <2>4, ReplyStep
<1>7. QED
  BY <1>5, <1>6

(* process_send keeps Honest, whatever part of the reply it sends.         *)
LEMMA SendKeeps ==
    ASSUME Honest, NEW p \in Ctl, process_send(p)
    PROVE  Honest'
<1>1. UNCHANGED <<server, inst, lookup, pc, req, number, shown, cut, facts, gone>>
  BY DEF process_send, history
<1>2. sent' \in [Ctl -> 0..2]
  <2>1. PICK n \in (sent[p] + 1)..2 : sent' = [sent EXCEPT ![p] = n]
    BY DEF process_send
  <2>2. sent[p] \in 0..2 /\ sent \in [Ctl -> 0..2]
    BY DEF Honest, ProcessesOK
  <2>3. n \in 0..2
    BY <2>1, <2>2
  <2>4. QED
    BY <2>1, <2>2, <2>3
<1>3. ProcessesOK'
  BY <1>1, <1>2 DEF Honest, ProcessesOK
<1>4. Told'
  BY <1>1 DEF Honest, Told, Meant
<1>5. QED
  BY <1>1, <1>3, <1>4 DEF Honest, Unanswered, StillGone, DeletedNotListed

(* An add that waits for gethostbyname_mutex, or a lookup that leaves it   *)
(* locked or waits for it, keeps Honest.                                   *)
LEMMA LookupKeeps ==
    ASSUME Honest, lookup' \in {"leaked", "awaited"},
           UNCHANGED <<server, inst, pc, req, number, shown, sent, cut, facts, gone>>
    PROVE  Honest'
<1>1. Registry(inst') /\ StillGone'
  BY DEF Honest, StillGone
<1>2. QED
  BY <1>1, RegistryStep

(* The callbacks of the mDNS thread keep Honest.                           *)
LEMMA ServiceKeeps ==
    ASSUME Honest, NEW s \in Service, service_resolve(s) \/ service_browse_remove(s)
    PROVE  Honest'
<1>1. CASE service_resolve(s)
  <2>1. UNCHANGED <<server, pc, req, number, shown, sent, cut, facts>>
    BY <1>1 DEF service_resolve, reply
  <2>2. Announced[s] \in Endpoint
    BY CtlAssumption DEF Endpoint
  <2>3. CASE \E res \in {0, -1} : remote_mux_service_add(s, Announced[s], res)
    <3>1. PICK res \in {0, -1} : remote_mux_service_add(s, Announced[s], res)
      BY <2>3
    <3>2. /\ Registry(inst') /\ StillGone' /\ gone' \subseteq gone
          /\ lookup' \in {"free", "leaked", "awaited"}
      BY <2>2, <3>1, AddKeeps DEF Honest, ProcessesOK
    <3>3. QED
      BY <2>1, <3>2, RegistryStep
  <2>4. CASE remote_mux_service_add_waits(s, Announced[s])
    BY <2>1, <2>4, LookupKeeps DEF remote_mux_service_add_waits
  <2>5. QED
    BY <1>1, <2>3, <2>4 DEF service_resolve
<1>2. CASE service_browse_remove(s)
  <2>1. /\ remote_mux_service_remove({i \in inst : i.service = s}, 0)
        /\ UNCHANGED <<server, lookup, pc, req, number, shown, sent, cut, facts, gone>>
    BY <1>2 DEF service_browse_remove, reply, history
  <2>2. PICK i \in inst : remote_mark_dead(i)
    BY <2>1 DEF remote_mux_service_remove
  <2>3. /\ Registry(inst') /\ StillGone'
        /\ lookup' \in {"free", "leaked", "awaited"}
    BY <2>1, <2>2, MarkKeeps DEF Honest, StillGone, ProcessesOK
  <2>4. QED
    BY <2>1, <2>3, RegistryStep
<1>3. QED
  BY <1>1, <1>2

(* The steps that end in no reply keep Honest.                             *)
LEMMA NoReplyKeeps ==
    ASSUME Honest, \/ usbmux_remote_connect
                   \/ \E p \in Ctl : AddInstance_waits(p) \/ client_command_ignores(p)
    PROVE  Honest'
<1>1. CASE usbmux_remote_connect
  BY <1>1, LookupKeeps DEF usbmux_remote_connect, reply, history
<1>2. CASE \E p \in Ctl : AddInstance_waits(p)
  BY <1>2, LookupKeeps DEF AddInstance_waits, remote_mux_service_add_waits, reply
<1>3. ASSUME NEW p \in Ctl, client_command_ignores(p) PROVE Honest'
  BY <1>3, WaitsKeeps DEF client_command_ignores, reply, history
<1>4. QED
  BY <1>1, <1>2, <1>3

(* An instance answers or goes, and the dead are reaped.                   *)
LEMMA InstanceKeeps ==
    ASSUME Honest, NEW i \in inst, remote_listen_result(i) \/ remote_recv_eof(i)
    PROVE  Honest'
<1>1. UNCHANGED <<server, lookup, pc, req, number, shown, sent, cut, facts, gone>>
  BY DEF remote_listen_result, remote_recv_eof, reply, history
<1>0. lookup' \in {"free", "leaked", "awaited"}
  BY <1>1 DEF Honest, ProcessesOK
<1>2. CASE remote_listen_result(i)
  <2> DEFINE j == [i EXCEPT !.state = "LISTEN"]
  <2>1. i.state = "COMMAND" /\ inst' = (inst \ {i}) \cup {j} /\ i \in Instance
    BY <1>2 DEF remote_listen_result, Honest, Registry
  <2>2. j \in Instance /\ j.at = i.at
    BY <2>1 DEF Instance
  <2> HIDE DEF j
  <2>3. Registry(inst')
    BY <2>1, <2>2, ReplaceKeeps DEF Honest
  <2>4. \A e : Alive(inst', e) => Alive(inst, e)
    BY <2>1, <2>2 DEF Alive
  <2>5. StillGone'
    BY <1>1, <2>4 DEF Honest, StillGone
  <2>6. QED
    BY <1>0, <1>1, <2>3, <2>5, RegistryStep
<1>3. CASE remote_recv_eof(i)
  <2>1. remote_mark_dead(i)
    BY <1>3 DEF remote_recv_eof
  <2>2. Registry(inst') /\ StillGone'
    BY <1>1, <2>1, MarkKeeps DEF Honest, StillGone
  <2>3. QED
    BY <1>0, <1>1, <2>2, RegistryStep
<1>4. QED
  BY <1>2, <1>3

(* Reaping dead instances keeps Honest.                                    *)
LEMMA ReapKeeps == Honest /\ usbmux_remote_process => Honest'
<1>1. SUFFICES ASSUME Honest, usbmux_remote_process PROVE Honest'
  OBVIOUS
<1>2. /\ inst' \subseteq inst
      /\ UNCHANGED <<server, lookup, pc, req, number, shown, sent, cut, facts, gone>>
  BY <1>1 DEF usbmux_remote_process, reply, history
<1>3. Registry(inst')
  BY <1>1, <1>2, SubsetKeeps DEF Honest
<1>4. StillGone'
  BY <1>1, <1>2 DEF Honest, StillGone, Alive
<1>5. lookup' \in {"free", "leaked", "awaited"}
  BY <1>1, <1>2 DEF Honest, ProcessesOK
<1>6. QED
  BY <1>1, <1>2, <1>3, <1>4, <1>5, RegistryStep

(* A change of server keeps Honest.                                        *)
LEMMA ChangeKeeps == Honest /\ server_changes => Honest'
<1>1. SUFFICES ASSUME Honest, server_changes PROVE Honest'
  OBVIOUS
<1>2. /\ inst' = {} /\ cut' = cut \cup {p \in Ctl : pc[p] \notin {"done", "connect"}}
      /\ server' \in {"usbfluxd", "usbmuxd"} /\ lookup' = "free"
      /\ UNCHANGED <<pc, req, number, shown, sent, facts, gone>>
  BY <1>1 DEF server_changes, reply, history
<1>3. ProcessesOK'
  BY <1>1, <1>2 DEF Honest, ProcessesOK
<1>4. Registry(inst')
  BY <1>1, <1>2, SubsetKeeps DEF Honest
<1>5. StillGone'
  BY <1>2 DEF StillGone, Alive
<1>6. Told'
  BY <1>1, <1>2 DEF Honest, Told, Meant
<1>7. QED
  BY <1>1, <1>2, <1>3, <1>4, <1>5, <1>6 DEF Honest, Unanswered, DeletedNotListed

(* Every step keeps Honest.                                                *)
LEMMA HonestStep == Honest /\ [Next]_vars => Honest'
<1> SUFFICES ASSUME Honest, [Next]_vars PROVE Honest'
  OBVIOUS
<1>1. CASE UNCHANGED vars
  <2>1. /\ UNCHANGED <<server, inst, lookup, pc, req, number, shown, sent, cut, facts, gone>>
    BY <1>1 DEF vars, reply, history
  <2>2. Registry(inst') /\ StillGone' /\ lookup' \in {"free", "leaked", "awaited"}
    BY <2>1 DEF Honest, StillGone, ProcessesOK
  <2>3. QED
    BY <2>1, <2>2, RegistryStep
<1>2. CASE Next
  BY <1>2, StartKeeps, CtlStepKeeps, AddInstanceKeeps, RemoveInstanceKeeps, OtherReplyKeeps,
     SendKeeps, NoReplyKeeps, ServiceKeeps, InstanceKeeps, ReapKeeps, ChangeKeeps DEF Next, ServerStep
<1>3. QED
  BY <1>1, <1>2

(* Honest is an invariant.                                                 *)
LEMMA HonestHolds == Spec => []Honest
<1>1. Init => Honest
  <2>1. SUFFICES ASSUME Init PROVE Honest
    OBVIOUS
  <2>2. Idle \in Request
    BY DEF Idle, Request
  <2>3. ProcessesOK
    BY <2>1, <2>2 DEF Init, ProcessesOK, Result
  <2>4. Registry(inst)
    <3>1. IsFiniteSet({}) /\ Cardinality({}) = 0 /\ MaxId \in Nat
      BY FS_EmptySet, CtlAssumption
    <3>2. QED
      BY <2>1, <3>1 DEF Init, Registry, OnePerEndpoint
  <2>5. Unanswered /\ Told /\ StillGone /\ DeletedNotListed
    BY <2>1 DEF Init, Unanswered, Told, StillGone, DeletedNotListed
  <2>6. QED
    BY <2>3, <2>4, <2>5 DEF Honest
<1>2. Honest /\ [Next]_vars => Honest'
  BY HonestStep
<1>3. QED
  BY <1>1, <1>2, PTL DEF Spec

-----------------------------------------------------------------------------
(* Every variable stays in its type: results are ones usbfluxctl has a     *)
(* message for, and there are no more instances than ids.                  *)
THEOREM CtlTypes == Spec => []TypeOK
<1>1. Honest => TypeOK
  BY DEF Honest, ProcessesOK, Registry, TypeOK
<1>2. QED
  BY <1>1, HonestHolds, PTL

(* An instance that a finished "del" removed is in no list asked for       *)
(* afterwards, unless it was added again.                                  *)
THEOREM RemovedIsNotListed == Spec => []DeletedNotListed
<1>1. Honest => DeletedNotListed
  BY DEF Honest
<1>2. QED
  BY <1>1, HonestHolds, PTL

(* What usbfluxctl prints when it has its answer was so when usbfluxd      *)
(* handled the request.                                                    *)
THEOREM MessagesAreTrue == Spec => MessageTrue
<1> DEFINE True == \A p \in Ctl : usbfluxd_query_payload(p) /\ req[p].cmd # "list" =>
        CASE Printed(p) = "SUCCESS" ->
                (IF req[p].cmd = "add" THEN "added" ELSE "removed") \in facts[p]
          [] Printed(p) = "Make sure that usbfluxd is running." -> facts[p] = {}
          [] Printed(p) = "Remote is already present." -> facts[p] \cap {"listed", "host"} # {}
          [] OTHER -> "usbfluxd" \in facts[p] /\ "listed" \notin facts[p]
<1>1. Honest /\ [Next]_vars => [True]_vars
  <2>1. SUFFICES ASSUME Honest, NEW p \in Ctl, usbfluxd_query_payload(p), req[p].cmd # "list"
                 PROVE
        CASE Printed(p) = "SUCCESS" ->
                (IF req[p].cmd = "add" THEN "added" ELSE "removed") \in facts[p]
          [] Printed(p) = "Make sure that usbfluxd is running." -> facts[p] = {}
          [] Printed(p) = "Remote is already present." -> facts[p] \cap {"listed", "host"} # {}
          [] OTHER -> "usbfluxd" \in facts[p] /\ "listed" \notin facts[p]
    OBVIOUS
  <2>2. Meant(p) /\ number[p] \in {0, 1, 2, 3}
    <3>1. number[p] \in 0..3 /\ pc[p] = "answered"
      BY <2>1 DEF Honest, ProcessesOK, Result, usbfluxd_query_payload
    <3>2. QED
      BY <2>1, <3>1 DEF Honest, Told
  <2>3. CASE number[p] = 0
    <3>1. Printed(p) = "SUCCESS"
      BY <2>3 DEF Printed
    <3>2. QED
      BY <2>2, <2>3, <3>1 DEF Meant
  <2>4. CASE number[p] = 1
    <3>1. Printed(p) = "Make sure that usbfluxd is running."
      BY <2>4 DEF Printed
    <3>2. QED
      BY <2>2, <2>4, <3>1 DEF Meant
  <2>5. CASE number[p] = 2 /\ req[p].cmd = "add"
    <3>1. Printed(p) = "Remote is already present."
      BY <2>5 DEF Printed
    <3>2. QED
      BY <2>2, <2>5, <3>1 DEF Meant
  <2>6. CASE number[p] = 3 \/ (number[p] = 2 /\ req[p].cmd # "add")
    <3>1. Printed(p) = "Make sure the remote address and/or port is correct."
      BY <2>6 DEF Printed
    <3>2. QED
      BY <2>2, <2>6, <3>1 DEF Meant
  <2>7. QED
    BY <2>2, <2>3, <2>4, <2>5, <2>6
<1>2. QED
  BY <1>1, HonestHolds, PTL DEF Spec, MessageTrue
=============================================================================
