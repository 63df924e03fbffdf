------------------------------ MODULE Lifecycle ------------------------------
(***************************************************************************)
(* The life of the daemon: main() in src/src/main.rs, run by systemd       *)
(* (deploy/lfm-artist-node.service), by docker (the compose files) or from *)
(* a terminal.  A fault is a pair of a deployment and one of               *)
(*   "config"  the configuration, the store or a key is refused            *)
(*   "chain"   the chain source does not answer when the node starts       *)
(*   "port"    HEALTH_PORT is taken                                        *)
(*   "loop"    event_handled() fails, which ends the event loop            *)
(*   "crash"   the process is killed                                       *)
(* and happens only until the environment is calm.                         *)
(***************************************************************************)
EXTENDS Naturals

CONSTANTS Deployments,  \* a subset of {"systemd", "docker", "terminal"}
          Faults        \* what may go wrong where

ASSUME LifecycleAssumption ==
    /\ Deployments \subseteq {"systemd", "docker", "terminal"}
    /\ Faults \subseteq Deployments \X {"config", "chain", "port", "loop", "crash"}

\* node.start() is tried this often.
Attempts == 3

VARIABLES under,    \* the deployment
          at,       \* where main() is; "gone" when there is no process
          attempt,  \* the attempt to start the node that is under way
          exit,     \* how the last process ended
          wish,     \* what the operator asked for last
          asked,    \* the process has been sent the deployment's stop signal
          calm      \* nothing goes wrong any more

vars == <<under, at, attempt, exit, wish, asked, calm>>

TypeOK ==
    /\ under \in Deployments
    /\ at \in {"gone", "config", "start", "open", "bind", "serving", "stop"}
    /\ attempt \in 0..Attempts
    /\ exit \in {"none", "success", "failure", "signal", "killed"}
    /\ wish \in {"up", "down"}
    /\ asked \in BOOLEAN /\ calm \in BOOLEAN

Init ==
    /\ under \in Deployments
    /\ at = "gone" /\ attempt = 0 /\ exit = "none"
    /\ wish = "down" /\ asked = FALSE /\ calm = FALSE

Fault(kind) == ~calm /\ <<under, kind>> \in Faults

Goto(pc) ==
    /\ at' = pc
    /\ UNCHANGED <<under, attempt, exit, wish, asked, calm>>

Ends(how) ==
    /\ at' = "gone" /\ attempt' = 0 /\ asked' = FALSE
    /\ exit' = how
    /\ UNCHANGED <<under, wish, calm>>

-----------------------------------------------------------------------------
(* The operator and the supervisor.                                        *)

OperatorStart ==
    /\ wish = "down" /\ at = "gone"
    /\ wish' = "up" /\ at' = "config"
    /\ UNCHANGED <<under, attempt, exit, asked, calm>>

\* systemctl stop, docker stop: SIGTERM.  Ctrl-C: SIGINT.
OperatorStop ==
    /\ wish = "up"
    /\ wish' = "down"
    /\ asked' = (at # "gone")
    /\ UNCHANGED <<under, at, attempt, exit, calm>>

\* Restart=on-failure: after a status other than 0 or an unclean signal.
\* restart: unless-stopped: after any end.
Restarts == \/ under = "docker"
            \/ under = "systemd" /\ exit \in {"failure", "killed"}

Restart == wish = "up" /\ at = "gone" /\ Restarts /\ Goto("config")

Calm == ~calm /\ calm' = TRUE /\ UNCHANGED <<under, at, attempt, exit, wish, asked>>

-----------------------------------------------------------------------------
(* main().                                                                 *)

\* Config::from_env and build_node.
Configures == at = "config" /\ at' = "start" /\ attempt' = 1
              /\ UNCHANGED <<under, exit, wish, asked, calm>>

NodeStarts == at = "start" /\ Goto("open")

StoreOpens == at = "open" /\ Goto("bind")

\* exit(1).
Refuses == at \in {"config", "open"} /\ Fault("config") /\ Ends("failure")

\* Mutant of StartRetried: one attempt too many.
StartRetriedAgain ==
    /\ at = "start" /\ attempt <= Attempts /\ Fault("chain")
    /\ attempt' = attempt + 1
    /\ UNCHANGED <<under, at, exit, wish, asked, calm>>

StartRetried ==
    /\ at = "start" /\ attempt < Attempts /\ Fault("chain")
    /\ attempt' = attempt + 1
    /\ UNCHANGED <<under, at, exit, wish, asked, calm>>

\* Mutant of StartGivenUp: main() returns instead of calling exit(1).
StartGivenUpQuietly ==
    at = "start" /\ attempt = Attempts /\ Fault("chain") /\ Ends("success")

StartGivenUp ==
    at = "start" /\ attempt = Attempts /\ Fault("chain") /\ Ends("failure")

Binds == at = "bind" /\ Goto("serving")

\* Mutant of BindFails: main() reports the error and returns.
BindFailsQuietly == at = "bind" /\ Fault("port") /\ Ends("success")

\* The unwrap() panics.
BindFails == at = "bind" /\ Fault("port") /\ Ends("failure")

\* select!: the event loop has ended.
LoopEnds == at = "serving" /\ Fault("loop") /\ Goto("stop")

\* select!: ctrl_c(), which handles SIGINT from its first poll on.  No handler
\* is ever installed for SIGTERM: it ends the process, except PID 1 of a
\* container, which it does not reach and SIGKILL does.
Signalled ==
    /\ asked
    /\ \/ under = "terminal" /\ at = "serving" /\ Goto("stop")
       \/ under = "terminal" /\ at \notin {"gone", "serving", "stop"} /\ Ends("signal")
       \/ under = "systemd" /\ at # "gone" /\ Ends("signal")
       \/ under = "docker" /\ at # "gone" /\ Ends("killed")

\* node.stop(); whether it fails or not, main() returns.
Stops == at = "stop" /\ Ends("success")

Crash == at # "gone" /\ Fault("crash") /\ Ends("killed")

Main == Configures \/ NodeStarts \/ StoreOpens \/ Binds \/ Stops

Next == \/ OperatorStart \/ OperatorStop \/ Restart \/ Calm
        \/ Main \/ Refuses \/ StartRetried \/ StartGivenUp \/ BindFails
        \/ LoopEnds \/ Signalled \/ Crash

\* main() does not wait for anything that never comes, a pending signal is
\* delivered, the supervisor restarts, and the environment settles at last.
Fairness == WF_vars(Main) /\ WF_vars(Signalled) /\ WF_vars(Restart) /\ WF_vars(Calm)

Spec == Init /\ [][Next]_vars /\ Fairness

-----------------------------------------------------------------------------
\* StaysUp: a daemon whose operator wants it up is up once things no longer go
\* wrong, whatever went wrong before and wherever main() was: each way it can
\* end by itself is one its supervisor restarts.  At a terminal nothing does.
StaysUp ==
    under # "terminal" => (<>[](wish = "up") => <>[](at = "serving"))

\* NeverStranded: a daemon that is wanted is never down for good under a
\* supervisor: main() leaves each of its stages in a way its supervisor restarts
\* (main.rs:471, 645), and no stop signal outlives the process it was sent to and
\* ends one started since, unless the event loop can end under systemd.
NeverStranded ==
    wish = "up" /\ at = "gone" /\ under # "terminal" =>
        Restarts \/ <<"systemd", "loop">> \in Faults
=============================================================================
