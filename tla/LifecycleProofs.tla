-------------------------- MODULE LifecycleProofs --------------------------
(***************************************************************************)
(* Proofs about Lifecycle, for any deployments and any faults.             *)
(***************************************************************************)
EXTENDS Lifecycle, TLAPS

Places == {"gone", "config", "start", "open", "bind", "serving", "stop"}
Exits  == {"success", "failure", "signal", "killed"}

LEMMA Initially == Init => TypeOK
  <1>1. 0 \in 0 .. Attempts BY DEF Attempts
  <1> QED BY <1>1, Zenon DEF Init, TypeOK

LEMMA EndsStep ==
    ASSUME TypeOK, NEW how \in Exits, Ends(how) PROVE TypeOK'
  <1>1. 0 \in 0 .. Attempts BY DEF Attempts
  <1> QED BY <1>1, Zenon DEF Ends, TypeOK, Exits

LEMMA GotoStep ==
    ASSUME TypeOK, NEW pc \in Places, Goto(pc) PROVE TypeOK'
  BY Zenon DEF Goto, TypeOK, Places

LEMMA AttemptStep ==
    ASSUME TypeOK, Configures \/ StartRetried PROVE TypeOK'
  <1>1. attempt' \in 0 .. Attempts /\ at' \in {"start", at}
    BY DEF Configures, StartRetried, TypeOK, Attempts
  <1>2. UNCHANGED <<under, exit, wish, asked, calm>>
    BY DEF Configures, StartRetried
  <1> QED BY <1>1, <1>2, Zenon DEF TypeOK

LEMMA NextStep == TypeOK /\ [Next]_vars => TypeOK'
  <1> SUFFICES ASSUME TypeOK, [Next]_vars PROVE TypeOK'
    OBVIOUS
  <1>1. CASE OperatorStart \/ OperatorStop \/ Calm
    BY <1>1, Zenon DEF OperatorStart, OperatorStop, Calm, TypeOK
  <1>2. CASE Restart \/ NodeStarts \/ StoreOpens \/ Binds \/ LoopEnds
    BY <1>2, GotoStep DEF Restart, NodeStarts, StoreOpens, Binds, LoopEnds, Places
  <1>3. CASE Stops \/ Refuses \/ StartGivenUp \/ BindFails \/ Crash
    BY <1>3, EndsStep DEF Stops, Refuses, StartGivenUp, BindFails, Crash, Exits
  <1>4. CASE Configures \/ StartRetried
    BY <1>4, AttemptStep
  <1>5. CASE Signalled
    BY <1>5, GotoStep, EndsStep DEF Signalled, Places, Exits
  <1>6. CASE UNCHANGED vars BY <1>6, Zenon DEF vars, TypeOK
  <1> QED BY <1>1, <1>2, <1>3, <1>4, <1>5, <1>6 DEF Next, Main

\* Whatever goes wrong and however often the daemon is restarted, a process
\* starts its node in at most three attempts (main.rs:458).
THEOREM TypeCorrect == Spec => []TypeOK
  BY Initially, NextStep, PTL DEF Spec

-----------------------------------------------------------------------------
(* Who is restarted.                                                       *)

\* A stop that is pending is wanted, and only the end of the event loop makes
\* systemd's daemon stop its node and return.
StopsWanted == asked => wish = "down" /\ at # "gone"
ReturnsFrom == at = "stop" /\ under = "systemd" => <<"systemd", "loop">> \in Faults

WantedInv == TypeOK /\ StopsWanted /\ ReturnsFrom /\ NeverStranded

LEMMA WantedAtFirst == Init => WantedInv
  BY Initially, Zenon DEF Init, WantedInv, StopsWanted, ReturnsFrom, NeverStranded

\* How a process ends that nobody has asked to.
LEMMA EndsWanted ==
    ASSUME WantedInv, NEW how \in Exits, Ends(how),
           \/ wish = "down" \/ under # "systemd" \/ how \in {"failure", "killed"}
           \/ <<"systemd", "loop">> \in Faults
    PROVE  StopsWanted' /\ ReturnsFrom' /\ NeverStranded'
  <1>1. under \in {"systemd", "docker", "terminal"}
    BY LifecycleAssumption DEF WantedInv, TypeOK
  <1> QED BY <1>1 DEF Ends, StopsWanted, ReturnsFrom, NeverStranded, Restarts

\* main() goes on to its next stage.
LEMMA GotoWanted ==
    ASSUME WantedInv, NEW pc, Goto(pc), pc # "gone",
           pc = "stop" /\ under = "systemd" => <<"systemd", "loop">> \in Faults
    PROVE  StopsWanted' /\ ReturnsFrom' /\ NeverStranded'
  BY DEF Goto, WantedInv, StopsWanted, ReturnsFrom, NeverStranded

LEMMA WantedStep == WantedInv /\ [Next]_vars => WantedInv'
  <1> SUFFICES ASSUME WantedInv, [Next]_vars
               PROVE  StopsWanted' /\ ReturnsFrom' /\ NeverStranded'
    BY NextStep DEF WantedInv
  <1>1. CASE OperatorStart \/ OperatorStop \/ Calm
    <2>1. CASE OperatorStart
      BY <2>1 DEF OperatorStart, WantedInv, StopsWanted, ReturnsFrom, NeverStranded
    <2>2. CASE OperatorStop
      <3>1. StopsWanted'
        BY <2>2, Zenon DEF OperatorStop, StopsWanted
      <3> QED BY <2>2, <3>1 DEF OperatorStop, WantedInv, ReturnsFrom, NeverStranded
    <2>3. CASE Calm
      BY <2>3 DEF Calm, WantedInv, StopsWanted, ReturnsFrom, NeverStranded, Restarts
    <2> QED BY <1>1, <2>1, <2>2, <2>3
  <1>2. CASE Configures \/ StartRetried
    BY <1>2 DEF Configures, StartRetried, WantedInv, StopsWanted, ReturnsFrom, NeverStranded
  <1>3. CASE Restart \/ NodeStarts \/ StoreOpens \/ Binds
    BY <1>3, GotoWanted DEF Restart, NodeStarts, StoreOpens, Binds
  <1>4. CASE LoopEnds
    BY <1>4, GotoWanted DEF LoopEnds, Fault
  <1>5. CASE Refuses \/ StartGivenUp \/ BindFails \/ Crash
    BY <1>5, EndsWanted DEF Refuses, StartGivenUp, BindFails, Crash, Exits
  <1>6. CASE Stops
    BY <1>6, EndsWanted DEF Stops, Exits, WantedInv, ReturnsFrom
  <1>7. CASE Signalled
    BY <1>7, EndsWanted, GotoWanted DEF Signalled, Exits, WantedInv, StopsWanted
  <1>8. CASE UNCHANGED vars
    BY <1>8 DEF vars, WantedInv, StopsWanted, ReturnsFrom, NeverStranded, Restarts
  <1> QED BY <1>1, <1>2, <1>3, <1>4, <1>5, <1>6, <1>7, <1>8 DEF Next, Main

\* A daemon that is wanted and down is one its supervisor restarts, for any
\* deployments and faults, unless the event loop can end under systemd.
THEOREM NeverStrandedHolds == Spec => []NeverStranded
  <1>1. WantedInv => NeverStranded
    BY DEF WantedInv
  <1> QED BY <1>1, WantedAtFirst, WantedStep, PTL DEF Spec
=============================================================================
