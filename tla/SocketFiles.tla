---------------------------- MODULE SocketFiles ----------------------------
(***************************************************************************)
(* Taking over and giving back the usbmuxd socket: main() in               *)
(* usbfluxd/main.c with socket_create_unix in usbfluxd/socket.c.           *)
(*                                                                         *)
(* usbfluxd renames /var/run/usbmuxd to /var/run/usbmuxd.orig, listens on  *)
(* the old name itself and renames the file back when it ends.  Every file *)
(* operation is one step here, so that a crash, a second usbfluxd or a     *)
(* restarted usbmuxd may come in between.                                  *)
(*                                                                         *)
(* A path holds nothing, a socket somebody listens on, or a stale socket   *)
(* whose process is gone: connect() succeeds in the second case only.      *)
(*                                                                         *)
(* Without -f main() forks: the process that was started, the launcher,    *)
(* waits at a pipe for the status of the daemon and ends with it.          *)
(***************************************************************************)
CONSTANTS
    Flux,           \* usbfluxd processes that may run at the same time
    NoUsbmuxd       \* the values option -n may have when one is started

ASSUME SocketAssumption ==
    /\ Flux \cap {"absent", "stale", "mux"} = {}
    /\ NoUsbmuxd \subseteq BOOLEAN

VARIABLES
    sock,       \* what is at USBMUXD_SOCKET_FILE
    orig,       \* what is at USBMUXD_RENAMED_SOCKET
    mux,        \* usbmuxd runs
    pc,         \* next file operation of each usbfluxd
    renamed,    \* main()'s flag of that name
    nomux,      \* opt_no_usbmuxd
    launcher,   \* "none", "reading" at the pipe, "exit0", "exit1", "killed"
    pipe,       \* "none", "open" (report_to_parent), "zero", "error", "eof"
    upset       \* history: since no usbfluxd was there, one was started while
                \* another was starting or ending, or usbmuxd stopped or started

report == <<launcher, pipe>>
vars == <<sock, orig, mux, pc, renamed, nomux, report, upset>>

Content == {"absent", "stale", "mux"} \cup Flux
PC == {"off", "access_orig", "test_orig", "unlink_orig", "access_sock", "test_sock",
       "access_only", "test_only", "rename", "daemonize", "unlink_sock", "bind", "listen",
       "init", "blocked", "run", "terminate"}

(* connect() succeeds: somebody listens there.                             *)
Usable(x) == x = "mux" \/ (x \in Flux /\ pc[x] # "listen")

(* The process that listens on a socket is gone.                           *)
Stale(x, p) == IF x = p THEN "stale" ELSE x

(* Mutant: the launcher keeps the end it could write to, and waits.        *)
Eof_Held(p) == p

(* The pipe when the process ends: nobody else has it open for writing.    *)
Eof(p) == IF p = "open" THEN "eof" ELSE p

Goto(f, l) == pc' = [pc EXCEPT ![f] = l]

(* usbmuxd runs on its own socket and no usbfluxd has been started.        *)
Init ==
    /\ sock = "mux" /\ orig = "absent" /\ mux = TRUE
    /\ pc = [f \in Flux |-> "off"]
    /\ renamed = [f \in Flux |-> FALSE]
    /\ nomux = [f \in Flux |-> FALSE]
    /\ launcher = [f \in Flux |-> "none"]
    /\ pipe = [f \in Flux |-> "none"]
    /\ upset = FALSE

-----------------------------------------------------------------------------
(* main() up to the first check of the renamed socket.                     *)
start(f) ==
    /\ pc[f] = "off"
    /\ \E n \in NoUsbmuxd : nomux' = [nomux EXCEPT ![f] = n]
    /\ renamed' = [renamed EXCEPT ![f] = FALSE]
    /\ launcher[f] # "reading"
    /\ launcher' = [launcher EXCEPT ![f] = "none"]
    /\ pipe' = [pipe EXCEPT ![f] = "none"]
    /\ Goto(f, "access_orig")
    /\ upset' = \/ upset /\ \E g \in Flux : pc[g] # "off"
                \/ \E g \in Flux : pc[g] \notin {"off", "run"}
    /\ UNCHANGED <<sock, orig, mux>>

access_orig(f) ==
    /\ pc[f] = "access_orig"
    /\ Goto(f, IF orig # "absent" THEN "test_orig" ELSE "access_only")
    /\ UNCHANGED <<sock, orig, mux, renamed, nomux, report, upset>>

(* A renamed socket is there: usable, or left over.                        *)
test_orig(f) ==
    /\ pc[f] = "test_orig"
    /\ IF Usable(orig)
       THEN renamed' = [renamed EXCEPT ![f] = TRUE] /\ Goto(f, "access_sock")
       ELSE UNCHANGED renamed /\ Goto(f, "unlink_orig")
    /\ UNCHANGED <<sock, orig, mux, nomux, report, upset>>

unlink_orig(f) ==
    /\ pc[f] = "unlink_orig"
    /\ orig' = "absent"
    /\ Goto(f, "access_sock")
    /\ UNCHANGED <<sock, mux, renamed, nomux, report, upset>>

access_sock(f) ==
    /\ pc[f] = "access_sock"
    /\ Goto(f, IF sock # "absent" THEN "test_sock" ELSE "rename")
    /\ UNCHANGED <<sock, orig, mux, renamed, nomux, report, upset>>

(* Mutant: the answer does not stop it.                                    *)
test_sock_GoOn(f) ==
    /\ pc[f] = "test_sock"
    /\ Goto(f, "rename")
    /\ UNCHANGED <<sock, orig, mux, renamed, nomux, report, upset>>

(* Mutant: the flag is left set, and terminate renames back.               *)
test_sock_KeepFlag(f) ==
    /\ pc[f] = "test_sock"
    /\ IF Usable(sock)
       THEN Goto(f, "terminate") /\ UNCHANGED nomux
       ELSE /\ nomux' = [nomux EXCEPT ![f] = FALSE]
            /\ Goto(f, "rename")
    /\ UNCHANGED <<sock, orig, mux, renamed, report, upset>>

(* Somebody answers on the original path: refuse to continue.              *)
test_sock(f) ==
    /\ pc[f] = "test_sock"
    /\ IF Usable(sock)
       THEN /\ renamed' = [renamed EXCEPT ![f] = FALSE]
            /\ Goto(f, "terminate") /\ UNCHANGED nomux
       ELSE /\ nomux' = [nomux EXCEPT ![f] = FALSE]
            /\ Goto(f, "rename") /\ UNCHANGED renamed
    /\ UNCHANGED <<sock, orig, mux, report, upset>>

(* The usual case: no renamed socket.                                      *)
access_only(f) ==
    /\ pc[f] = "access_only"
    /\ Goto(f, IF sock # "absent" THEN "test_only"
               ELSE IF nomux[f] THEN "rename" ELSE "terminate")
    /\ UNCHANGED <<sock, orig, mux, renamed, nomux, report, upset>>

test_only(f) ==
    /\ pc[f] = "test_only"
    /\ IF Usable(sock)
       THEN nomux' = [nomux EXCEPT ![f] = FALSE] /\ Goto(f, "rename")
       ELSE UNCHANGED nomux /\ Goto(f, IF nomux[f] THEN "rename" ELSE "terminate")
    /\ UNCHANGED <<sock, orig, mux, renamed, report, upset>>

(* Mutant: renamed does not count.                                         *)
rename_Again(f) ==
    /\ pc[f] = "rename"
    /\ IF nomux[f]
       THEN Goto(f, "daemonize") /\ UNCHANGED <<sock, orig, renamed>>
       ELSE \/ Goto(f, "terminate") /\ UNCHANGED <<sock, orig, renamed>>
            \/ /\ sock # "absent"
               /\ orig' = sock /\ sock' = "absent"
               /\ renamed' = [renamed EXCEPT ![f] = TRUE]
               /\ Goto(f, "daemonize")
    /\ UNCHANGED <<mux, nomux, report, upset>>

(* rename() replaces what is at the new name; it may fail, and does        *)
(* without a file.                                                         *)
rename(f) ==
    /\ pc[f] = "rename"
    /\ IF renamed[f] \/ nomux[f]
       THEN Goto(f, "daemonize") /\ UNCHANGED <<sock, orig, renamed>>
       ELSE \/ Goto(f, "terminate") /\ UNCHANGED <<sock, orig, renamed>>
            \/ /\ sock # "absent"
               /\ orig' = sock /\ sock' = "absent"
               /\ renamed' = [renamed EXCEPT ![f] = TRUE]
               /\ Goto(f, "daemonize")
    /\ UNCHANGED <<mux, nomux, report, upset>>

(* Mutant: the launcher is told at once.                                   *)
daemonize_Early(f) ==
    /\ pc[f] = "daemonize"
    /\ Goto(f, "unlink_sock")
    /\ launcher' = [launcher EXCEPT ![f] = "reading"]
    /\ pipe' = [pipe EXCEPT ![f] = "zero"]
    /\ UNCHANGED <<sock, orig, mux, renamed, nomux, upset>>

(* daemonize: not asked for, or it forks and leaves the launcher reading;  *)
(* it may fail before and after that.                                      *)
daemonize(f) ==
    /\ pc[f] = "daemonize"
    /\ \E ok \in BOOLEAN : Goto(f, IF ok THEN "unlink_sock" ELSE "terminate")
    /\ \/ UNCHANGED report
       \/ /\ launcher' = [launcher EXCEPT ![f] = "reading"]
          /\ pipe' = [pipe EXCEPT ![f] = "open"]
    /\ UNCHANGED <<sock, orig, mux, renamed, nomux, upset>>

(* socket_create_unix: unlink, socket, bind and listen may each fail.      *)
unlink_sock(f) ==
    /\ pc[f] = "unlink_sock"
    /\ \/ sock' = "absent" /\ Goto(f, "bind")
       \/ UNCHANGED sock /\ Goto(f, "terminate")
    /\ UNCHANGED <<orig, mux, renamed, nomux, report, upset>>

(* The file is there, and refuses connections until listen.                *)
bind(f) ==
    /\ pc[f] = "bind"
    /\ \/ sock = "absent" /\ sock' = f /\ Goto(f, "listen")
       \/ UNCHANGED sock /\ Goto(f, "terminate")
    /\ UNCHANGED <<orig, mux, renamed, nomux, report, upset>>

listen(f) ==
    /\ pc[f] = "listen"
    /\ \/ Goto(f, "init") /\ UNCHANGED <<sock, orig>>
       \/ Goto(f, "terminate") /\ sock' = Stale(sock, f) /\ orig' = Stale(orig, f)
    /\ UNCHANGED <<mux, renamed, nomux, report, upset>>

(* usbmux_remote_add_remote, for -r: a lookup of the mDNS thread that      *)
(* failed has left gethostbyname_mutex locked (see Locks).                 *)
usbmux_remote_add_remote(f) ==
    /\ pc[f] = "init"
    /\ Goto(f, "blocked")
    /\ UNCHANGED <<sock, orig, mux, renamed, nomux, report, upset>>

(* client_init, usbmux_remote_init, then notify_parent(0), which fails     *)
(* when the launcher is gone.                                              *)
notify_parent(f) ==
    /\ pc[f] = "init"
    /\ IF pipe[f] = "open"
       THEN IF launcher[f] = "killed"
            THEN pipe' = [pipe EXCEPT ![f] = "none"] /\ Goto(f, "terminate")
            ELSE pipe' = [pipe EXCEPT ![f] = "zero"] /\ Goto(f, "run")
       ELSE UNCHANGED pipe /\ Goto(f, "run")
    /\ UNCHANGED <<sock, orig, mux, renamed, nomux, launcher, upset>>

(* handle_signal ends main_loop.                                           *)
shutdown(f) ==
    /\ pc[f] = "run"
    /\ Goto(f, "terminate")
    /\ UNCHANGED <<sock, orig, mux, renamed, nomux, report, upset>>

(* Mutant: the file is not renamed back.                                   *)
terminate_KeepName(f) ==
    /\ pc[f] = "terminate"
    /\ sock' = Stale(sock, f) /\ orig' = Stale(orig, f)
    /\ Goto(f, "off")
    /\ UNCHANGED <<mux, renamed, nomux, report, upset>>

(* The label terminate of main(): a launcher that still waits gets the     *)
(* error; the process ends, and its own socket, if the file is still       *)
(* there, with it.                                                         *)
terminate(f) ==
    /\ pc[f] = "terminate"
    /\ IF renamed[f] /\ orig # "absent"
       THEN sock' = Stale(orig, f) /\ orig' = "absent"
       ELSE sock' = Stale(sock, f) /\ orig' = Stale(orig, f)
    /\ pipe' = [pipe EXCEPT ![f] = IF @ = "open" THEN "error" ELSE @]
    /\ Goto(f, "off")
    /\ UNCHANGED <<mux, renamed, nomux, launcher, upset>>

-----------------------------------------------------------------------------
(* The process is killed.                                                  *)
crash(f) ==
    /\ pc[f] # "off"
    /\ sock' = Stale(sock, f) /\ orig' = Stale(orig, f)
    /\ pipe' = [pipe EXCEPT ![f] = Eof(@)]
    /\ Goto(f, "off")
    /\ UNCHANGED <<mux, renamed, nomux, launcher, upset>>

(* The launcher reads the status and ends with it, or with 1.              *)
daemonize_parent(f) ==
    /\ launcher[f] = "reading" /\ pipe[f] \in {"zero", "error", "eof"}
    /\ launcher' = [launcher EXCEPT ![f] = IF pipe[f] = "zero" THEN "exit0" ELSE "exit1"]
    /\ UNCHANGED <<sock, orig, mux, pc, renamed, nomux, pipe, upset>>

(* The launcher is killed.                                                 *)
kill(f) ==
    /\ launcher[f] = "reading"
    /\ launcher' = [launcher EXCEPT ![f] = "killed"]
    /\ UNCHANGED <<sock, orig, mux, pc, renamed, nomux, pipe, upset>>

(* usbmuxd, external: it leaves its socket behind and takes the path       *)
(* whatever is there.                                                      *)
mux_stop ==
    /\ mux
    /\ mux' = FALSE
    /\ sock' = Stale(sock, "mux") /\ orig' = Stale(orig, "mux")
    /\ upset' = \E f \in Flux : pc[f] # "off"
    /\ UNCHANGED <<pc, renamed, nomux, report>>

mux_start ==
    /\ ~ mux
    /\ mux' = TRUE /\ sock' = "mux"
    /\ upset' = \E f \in Flux : pc[f] # "off"
    /\ UNCHANGED <<orig, pc, renamed, nomux, report>>

(* What main() does by itself once started.                                *)
Step(f) ==
    \/ access_orig(f) \/ test_orig(f) \/ unlink_orig(f)
    \/ access_sock(f) \/ test_sock(f) \/ access_only(f) \/ test_only(f)
    \/ rename(f) \/ daemonize(f) \/ unlink_sock(f) \/ bind(f) \/ listen(f)
    \/ notify_parent(f) \/ terminate(f)

Next ==
    \/ \E f \in Flux : \/ start(f) \/ Step(f) \/ usbmux_remote_add_remote(f)
                       \/ shutdown(f) \/ crash(f) \/ daemonize_parent(f) \/ kill(f)
    \/ mux_stop \/ mux_start

Spec == Init /\ [][Next]_vars

(* Both processes run.                                                     *)
FairSpec == Spec /\ \A f \in Flux : WF_vars(Step(f)) /\ WF_vars(daemonize_parent(f))

-----------------------------------------------------------------------------
(* Paths hold what a path can hold.                                        *)
TypeOK ==
    /\ sock \in Content /\ orig \in Content /\ mux \in BOOLEAN
    /\ pc \in [Flux -> PC]
    /\ renamed \in [Flux -> BOOLEAN] /\ nomux \in [Flux -> BOOLEAN]
    /\ launcher \in [Flux -> {"none", "reading", "exit0", "exit1", "killed"}]
    /\ pipe \in [Flux -> {"none", "open", "zero", "error", "eof"}]
    /\ upset \in BOOLEAN

(* Nothing in main() guards against a second usbfluxd that starts at the   *)
(* same moment, nor against usbmuxd taking its path back while usbfluxd    *)
(* runs: each check is over before the file operation it was made for.     *)
(* The properties except what follows of that, and no more: they hold      *)
(* again when all usbfluxd are gone and usbmuxd is there.                  *)
Reachable == "mux" \in {sock, orig}
Calm == ~ upset /\ Reachable

(* A running usbmuxd that can be reached under one of the two names stays  *)
(* so, at every point of main() and by a crash at any point.               *)
MuxNeverLost == [][Calm /\ mux' => Reachable']_vars

(* A usbfluxd that serves the socket has the running usbmuxd behind it.    *)
MuxBehind == \A f \in Flux : pc[f] = "run" /\ Calm => orig = "mux"

(* When main() ends, other than by a crash, and had renamed the socket,    *)
(* the running usbmuxd is back at its own name: "Original usbmuxd socket   *)
(* file restored".                                                         *)
Restored ==
    [][\A f \in Flux : terminate(f) /\ renamed[f] /\ Calm => sock' = "mux"]_vars

(* The launcher is told of success only when its daemon serves the socket  *)
(* with usbmuxd behind it: whoever starts usbfluxd and then connects finds *)
(* it there.                                                               *)
ReadyWhenTold ==
    [][\A f \in Flux : pipe[f] # "zero" /\ pipe'[f] = "zero" /\ Calm
                       => sock' = f /\ orig' = "mux"]_vars

(* The launcher never waits for ever, whatever becomes of its daemon, but  *)
(* for one that waits for the lookup itself.                               *)
LauncherAnswered ==
    \A f \in Flux : launcher[f] = "reading" ~> launcher[f] # "reading" \/ pc[f] = "blocked"

(* One usbfluxd at most serves in front of usbmuxd: whoever is started     *)
(* while it runs finds both paths in use and refuses.                      *)
OneFront == Calm => \A f, g \in Flux : pc[f] = "run" /\ pc[g] = "run" => f = g
=============================================================================
