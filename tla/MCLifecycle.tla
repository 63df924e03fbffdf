----------------------------- MODULE MCLifecycle -----------------------------
(***************************************************************************)
(* Instances of Lifecycle for TLC.                                         *)
(***************************************************************************)
EXTENDS Lifecycle

AllFaults == {"config", "chain", "port", "loop", "crash"}

\* Everything may go wrong, but for the end of the event loop under systemd,
\* which is the subject of a run of its own.
Survivable == ({"systemd", "docker", "terminal"} \X AllFaults) \ {<<"systemd", "loop">>}

LoopUnderSystemd == {<<"systemd", "loop">>}
=============================================================================
