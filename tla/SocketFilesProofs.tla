-------------------------- MODULE SocketFilesProofs --------------------------
(***************************************************************************)
(* Proofs about SocketFiles, for any number of usbfluxd processes that     *)
(* start, crash and end at any time, and a usbmuxd that stops and starts   *)
(* at any time.  Calm, in which the properties claim something, ends when  *)
(* two start at once or usbmuxd moves under a usbfluxd, and comes back     *)
(* when all of them are gone and usbmuxd is there.                         *)
(***************************************************************************)
EXTENDS SocketFiles, TLAPS

(* f is between its start and main_loop.                                   *)
Starting(f) == pc[f] \notin {"off", "run", "terminate"}

(* f counts on the renamed socket: it will bind, serves, or will rename    *)
(* back.                                                                   *)
Owns(f) ==
    \/ pc[f] \in {"daemonize", "unlink_sock", "bind", "listen", "init", "blocked", "run"}
    \/ pc[f] \in {"rename", "terminate"} /\ renamed[f]

(* One usbfluxd at most is starting.                                       *)
OneStarts == \A f, g \in Flux : Starting(f) /\ Starting(g) => f = g

(* A socket file of a usbfluxd is gone stale when the process is gone.     *)
FilesOfLiving ==
    \A f \in Flux : f \in {sock, orig} => pc[f] \in {"listen", "init", "blocked", "run", "terminate"}

(* usbmuxd's socket is at one of the two names at most, at none when it    *)
(* does not run.                                                           *)
MuxAtOneName == (Reachable => mux) /\ ~ (sock = "mux" /\ orig = "mux")

(* What main() has found out and done so far, at each point.               *)
Found(f) ==
    /\ pc[f] \in {"access_orig", "test_orig", "unlink_orig", "access_only", "test_only"}
        => ~ renamed[f]
    /\ pc[f] \in {"unlink_orig", "access_only", "test_only"} => sock = "mux"
    /\ pc[f] \in {"access_sock", "test_sock"} /\ ~ renamed[f] => sock = "mux"
    /\ pc[f] = "rename" /\ ~ renamed[f] => sock = "mux" /\ ~ nomux[f]
    /\ Owns(f) => renamed[f] /\ orig = "mux"
    /\ pc[f] \in {"listen", "init", "blocked", "run"} => sock = f
    /\ pc[f] = "bind" => sock = "absent"
    /\ Owns(f) => \/ sock = f
                  \/ sock # "mux" /\ sock \notin Flux
    /\ Owns(f) /\ (sock # f \/ pc[f] = "listen") => \A g \in Flux \ {f} : ~ Starting(g)

(* The inductive invariant.                                                *)
TakeOver ==
    /\ FilesOfLiving
    /\ MuxAtOneName
    /\ ~ upset => OneStarts
    /\ Calm => \A f \in Flux : Found(f)
    /\ Calm => \A f, g \in Flux : Owns(f) /\ Owns(g) => f = g

-----------------------------------------------------------------------------
(* A step keeps the types, whatever races.                                 *)
LEMMA TypeStep == TypeOK /\ [Next]_vars => TypeOK'
<1>1. ASSUME TypeOK, NEW f \in Flux, start(f) PROVE TypeOK'
  BY SocketAssumption, <1>1 DEF TypeOK, start, report, Goto, PC
<1>2. ASSUME TypeOK, NEW f \in Flux, access_orig(f) PROVE TypeOK'
  BY <1>2 DEF TypeOK, access_orig, report, Goto, PC
<1>3. ASSUME TypeOK, NEW f \in Flux, test_orig(f) PROVE TypeOK'
  BY <1>3 DEF TypeOK, test_orig, report, Goto, PC
<1>4. ASSUME TypeOK, NEW f \in Flux, unlink_orig(f) PROVE TypeOK'
  BY <1>4 DEF TypeOK, unlink_orig, report, Goto, PC, Content
<1>5. ASSUME TypeOK, NEW f \in Flux, access_sock(f) PROVE TypeOK'
  BY <1>5 DEF TypeOK, access_sock, report, Goto, PC
<1>6. ASSUME TypeOK, NEW f \in Flux, test_sock(f) PROVE TypeOK'
  BY <1>6 DEF TypeOK, test_sock, report, Goto, PC
<1>7. ASSUME TypeOK, NEW f \in Flux, access_only(f) PROVE TypeOK'
  BY <1>7 DEF TypeOK, access_only, report, Goto, PC
<1>8. ASSUME TypeOK, NEW f \in Flux, test_only(f) PROVE TypeOK'
  BY <1>8 DEF TypeOK, test_only, report, Goto, PC
<1>9. ASSUME TypeOK, NEW f \in Flux, rename(f) PROVE TypeOK'
  BY <1>9 DEF TypeOK, rename, report, Goto, PC, Content
<1>10. ASSUME TypeOK, NEW f \in Flux, daemonize(f) PROVE TypeOK'
  BY <1>10 DEF TypeOK, daemonize, report, Goto, PC
<1>11. ASSUME TypeOK, NEW f \in Flux, unlink_sock(f) PROVE TypeOK'
  BY <1>11 DEF TypeOK, unlink_sock, report, Goto, PC, Content
<1>12. ASSUME TypeOK, NEW f \in Flux, bind(f) \/ listen(f) PROVE TypeOK'
  <2>1. ASSUME bind(f) PROVE TypeOK'
    BY <1>12, <2>1 DEF TypeOK, bind, report, Goto, PC, Content
  <2>2. ASSUME listen(f) PROVE TypeOK'
    BY <1>12, <2>2 DEF TypeOK, listen, report, Goto, PC, Stale, Content
  <2>3. QED
    BY <1>12, <2>1, <2>2
<1>13. ASSUME TypeOK, NEW f \in Flux, notify_parent(f) PROVE TypeOK'
  BY <1>13 DEF TypeOK, notify_parent, report, Goto, PC
<1>14. ASSUME TypeOK, NEW f \in Flux, terminate(f) PROVE TypeOK'
  BY <1>14 DEF TypeOK, terminate, report, Goto, PC, Stale, Content
<1>15. ASSUME TypeOK, NEW f \in Flux, shutdown(f) \/ usbmux_remote_add_remote(f) PROVE TypeOK'
  BY <1>15 DEF TypeOK, shutdown, usbmux_remote_add_remote, report, Goto, PC
<1>16. ASSUME TypeOK, NEW f \in Flux, crash(f) PROVE TypeOK'
  BY <1>16 DEF TypeOK, crash, report, Goto, PC, Stale, Eof, Content
<1>17. ASSUME TypeOK, NEW f \in Flux, daemonize_parent(f) PROVE TypeOK'
  BY <1>17 DEF TypeOK, daemonize_parent, report
<1>18. ASSUME TypeOK, NEW f \in Flux, kill(f) PROVE TypeOK'
  BY <1>18 DEF TypeOK, kill, report
<1>19. ASSUME TypeOK, mux_stop \/ mux_start PROVE TypeOK'
  BY <1>19 DEF TypeOK, mux_stop, mux_start, Stale, Content, report
<1>20. ASSUME TypeOK, UNCHANGED vars PROVE TypeOK'
  BY <1>20 DEF TypeOK, vars, report
<1>21. QED
  BY <1>1, <1>2, <1>3, <1>4, <1>5, <1>6, <1>7, <1>8, <1>9, <1>10, <1>11, <1>12, <1>13, <1>14, <1>15, <1>16, <1>17, <1>18, <1>19, <1>20 DEF Next, Step

(* Every variable keeps its type, for any constants: a path never holds    *)
(* anything but nothing, a stale socket, usbmuxd's or a usbfluxd's.        *)
THEOREM SocketTypes == Spec => []TypeOK
<1>1. Init => TypeOK
  BY DEF Init, TypeOK, Content, PC
<1>2. QED
  BY <1>1, TypeStep, PTL DEF Spec

-----------------------------------------------------------------------------
(* A step keeps the inductive invariant.                                   *)
LEMMA TakeOverStep ==
    ASSUME TypeOK, TakeOver, [Next]_vars
    PROVE  TakeOver'
<1> USE DEF TakeOver, OneStarts, FilesOfLiving, MuxAtOneName, Found, Owns, Starting, Usable, Calm, Reachable, TypeOK
<1>1. ASSUME NEW f \in Flux, start(f) PROVE TakeOver'
  BY <1>1, SocketAssumption DEF start, report, Goto
<1>2. ASSUME NEW f \in Flux, access_orig(f) PROVE TakeOver'
  BY <1>2, SocketAssumption DEF access_orig, report, Goto
<1>3. ASSUME NEW f \in Flux, test_orig(f) PROVE TakeOver'
  BY <1>3, SocketAssumption DEF test_orig, report, Goto
<1>4. ASSUME NEW f \in Flux, unlink_orig(f) PROVE TakeOver'
  BY <1>4, SocketAssumption DEF unlink_orig, report, Goto
<1>5. ASSUME NEW f \in Flux, access_sock(f) PROVE TakeOver'
  BY <1>5, SocketAssumption DEF access_sock, report, Goto
<1>6. ASSUME NEW f \in Flux, test_sock(f) PROVE TakeOver'
  BY <1>6, SocketAssumption DEF test_sock, report, Goto
<1>7. ASSUME NEW f \in Flux, access_only(f) PROVE TakeOver'
  BY <1>7, SocketAssumption DEF access_only, report, Goto
<1>8. ASSUME NEW f \in Flux, test_only(f) PROVE TakeOver'
  BY <1>8, SocketAssumption DEF test_only, report, Goto
<1>9. ASSUME NEW f \in Flux, rename(f) PROVE TakeOver'
  BY <1>9, SocketAssumption DEF rename, report, Goto
<1>10. ASSUME NEW f \in Flux, daemonize(f) PROVE TakeOver'
  BY <1>10, SocketAssumption DEF daemonize, report, Goto
<1>11. ASSUME NEW f \in Flux, unlink_sock(f) PROVE TakeOver'
  BY <1>11, SocketAssumption DEF unlink_sock, report, Goto
<1>12. ASSUME NEW f \in Flux, bind(f) \/ listen(f) PROVE TakeOver'
  BY <1>12, SocketAssumption DEF bind, listen, report, Goto, Stale
<1>13. ASSUME NEW f \in Flux, notify_parent(f) PROVE TakeOver'
  BY <1>13, SocketAssumption DEF notify_parent, report, Goto
<1>14. ASSUME NEW f \in Flux, terminate(f) PROVE TakeOver'
  BY <1>14, SocketAssumption DEF terminate, report, Goto, Stale
<1>15. ASSUME NEW f \in Flux, shutdown(f) \/ usbmux_remote_add_remote(f) PROVE TakeOver'
  BY <1>15, SocketAssumption DEF shutdown, usbmux_remote_add_remote, report, Goto
<1>16. ASSUME NEW f \in Flux, crash(f) PROVE TakeOver'
  BY <1>16, SocketAssumption DEF crash, report, Goto, Stale
<1>17. ASSUME NEW f \in Flux, daemonize_parent(f) PROVE TakeOver'
  BY <1>17, SocketAssumption DEF daemonize_parent, report
<1>18. ASSUME NEW f \in Flux, kill(f) PROVE TakeOver'
  BY <1>18, SocketAssumption DEF kill, report
<1>19. CASE mux_stop \/ mux_start
  BY <1>19, SocketAssumption DEF mux_stop, mux_start, Stale, report
<1>20. CASE UNCHANGED vars
  BY <1>20 DEF vars, report
<1>21. QED
  BY <1>1, <1>2, <1>3, <1>4, <1>5, <1>6, <1>7, <1>8, <1>9, <1>10, <1>11, <1>12, <1>13, <1>14, <1>15, <1>16, <1>17, <1>18, <1>19, <1>20 DEF Next, Step

(* TakeOver is an invariant.                                               *)
LEMMA TakeOverHolds == Spec => [](TypeOK /\ TakeOver)
<1>1. Init => TakeOver
  BY SocketAssumption
     DEF Init, TakeOver, OneStarts, FilesOfLiving, MuxAtOneName, Found, Owns, Starting, Usable, Calm, Reachable
<1>2. TypeOK /\ TakeOver /\ [Next]_vars => TakeOver'
  BY TakeOverStep
<1>3. QED
  BY <1>1, <1>2, SocketTypes, PTL DEF Spec

-----------------------------------------------------------------------------
(* Every step of main(), every crash and every other usbfluxd leaves a     *)
(* running usbmuxd reachable under one of the two names.                   *)
THEOREM MuxIsNeverLost == Spec => MuxNeverLost
<1>1. TypeOK /\ TakeOver /\ [Next]_vars => [Calm /\ mux' => Reachable']_vars
  <2>1. SUFFICES ASSUME TypeOK, TakeOver, Next, Calm, mux' PROVE Reachable'
    OBVIOUS
  <2> USE <2>1, SocketAssumption DEF Calm, Reachable, TakeOver, Found, Owns
  <2>2. ASSUME NEW f \in Flux, unlink_orig(f) PROVE Reachable'
    BY <2>2 DEF unlink_orig
  <2>3. ASSUME NEW f \in Flux, rename(f) PROVE Reachable'
    BY <2>3 DEF rename
  <2>4. ASSUME NEW f \in Flux, unlink_sock(f) PROVE Reachable'
    BY <2>4 DEF unlink_sock
  <2>5. ASSUME NEW f \in Flux, bind(f) PROVE Reachable'
    BY <2>5 DEF bind
  <2>6. ASSUME NEW f \in Flux, listen(f) \/ crash(f) PROVE Reachable'
    BY <2>6 DEF listen, crash, Stale
  <2>7. ASSUME NEW f \in Flux, terminate(f) PROVE Reachable'
    BY <2>7 DEF terminate, Stale, TypeOK, FilesOfLiving
  <2>8. ASSUME mux_stop \/ mux_start PROVE Reachable'
    BY <2>8 DEF mux_stop, mux_start, MuxAtOneName
  <2>9. ASSUME UNCHANGED <<sock, orig>> PROVE Reachable'
    BY <2>9
  <2>10. ASSUME NEW f \in Flux,
                \/ start(f) \/ access_orig(f) \/ test_orig(f) \/ access_sock(f) \/ test_sock(f)
                \/ access_only(f) \/ test_only(f) \/ daemonize(f) \/ notify_parent(f) \/ shutdown(f)
                \/ usbmux_remote_add_remote(f) \/ daemonize_parent(f) \/ kill(f)
         PROVE  UNCHANGED <<sock, orig>>
    BY <2>10 DEF start, access_orig, test_orig, access_sock, test_sock, access_only, test_only,
       daemonize, notify_parent, shutdown, usbmux_remote_add_remote, daemonize_parent, kill
  <2>11. QED
    BY <2>2, <2>3, <2>4, <2>5, <2>6, <2>7, <2>8, <2>9, <2>10 DEF Next, Step
<1>2. QED
  BY <1>1, TakeOverHolds, PTL DEF Spec, MuxNeverLost

(* A usbfluxd in main_loop has the running usbmuxd behind it.              *)
THEOREM MuxIsBehind == Spec => []MuxBehind
<1>1. TakeOver => MuxBehind
  BY DEF TakeOver, Found, Owns, MuxBehind
<1>2. QED
  BY <1>1, TakeOverHolds, PTL

(* One usbfluxd at most is in main_loop: a later one refuses, whenever it  *)
(* is started while the first serves.                                      *)
THEOREM OneServes == Spec => []OneFront
<1>1. TakeOver => OneFront
  BY DEF TakeOver, Owns, OneFront
<1>2. QED
  BY <1>1, TakeOverHolds, PTL

(* A usbfluxd that renamed the socket and ends by itself, on success or on *)
(* any error of main(), gives usbmuxd its name back.                       *)
THEOREM NameGivenBack == Spec => Restored
<1>1. TypeOK /\ TakeOver /\ [Next]_vars =>
        [\A f \in Flux : terminate(f) /\ renamed[f] /\ Calm => sock' = "mux"]_vars
  <2>1. ASSUME TakeOver, NEW f \in Flux, terminate(f), renamed[f], Calm PROVE sock' = "mux"
    BY <2>1, SocketAssumption DEF TakeOver, Found, Owns, terminate, Stale
  <2>2. QED
    BY <2>1
<1>2. QED
  BY <1>1, TakeOverHolds, PTL DEF Spec, Restored

(* A status of success reaches the launcher's pipe only when the daemon is *)
(* bound to the socket and usbmuxd, if it runs, is behind it.              *)
THEOREM ToldWhenReady == Spec => ReadyWhenTold
<1>1. TypeOK /\ TakeOver /\ [Next]_vars =>
        [\A f \in Flux : pipe[f] # "zero" /\ pipe'[f] = "zero" /\ Calm
                         => sock' = f /\ orig' = "mux"]_vars
  <2>1. SUFFICES ASSUME TypeOK, TakeOver, Next, NEW f \in Flux,
                        pipe[f] # "zero", pipe'[f] = "zero", Calm
                 PROVE  sock' = f /\ orig' = "mux"
    BY DEF vars
  <2>2. notify_parent(f)
    <3>1. ASSUME NEW g \in Flux, notify_parent(g) PROVE g = f
      BY <2>1, <3>1 DEF notify_parent, TypeOK
    <3>2. ASSUME NEW g \in Flux,
                 start(g) \/ daemonize(g) \/ terminate(g) \/ crash(g)
          PROVE  FALSE
      BY <2>1, <3>2 DEF start, daemonize, terminate, crash, Eof, TypeOK, report
    <3>3. ASSUME UNCHANGED pipe PROVE FALSE
      BY <2>1, <3>3
    <3>4. ASSUME NEW g \in Flux,
                 \/ access_orig(g) \/ test_orig(g) \/ unlink_orig(g) \/ access_sock(g)
                 \/ test_sock(g) \/ access_only(g) \/ test_only(g) \/ rename(g)
                 \/ unlink_sock(g) \/ bind(g) \/ listen(g) \/ shutdown(g)
                 \/ usbmux_remote_add_remote(g)
                 \/ daemonize_parent(g) \/ kill(g)
          PROVE  UNCHANGED pipe
      BY <3>4 DEF access_orig, test_orig, unlink_orig, access_sock, test_sock, access_only,
         test_only, rename, unlink_sock, bind, listen, usbmux_remote_add_remote, shutdown, daemonize_parent, kill, report
    <3>5. ASSUME mux_stop \/ mux_start PROVE UNCHANGED pipe
      BY <3>5 DEF mux_stop, mux_start, report
    <3>6. QED
      BY <2>1, <3>1, <3>2, <3>3, <3>4, <3>5 DEF Next, Step
  <2>3. QED
    BY <2>1, <2>2 DEF notify_parent, TakeOver, Found, Owns, TypeOK
<1>2. QED
  BY <1>1, TakeOverHolds, PTL DEF Spec, ReadyWhenTold
=============================================================================
