----------------------------- MODULE AtomicStore -----------------------------
(***************************************************************************)
(* What the rest of the daemon relies on from the store: a change is seen  *)
(* as a whole, a change that is reported to have been saved is saved, one  *)
(* that is not leaves the saved copy as it was, and a restart reads back   *)
(* exactly what was saved last.                                            *)
(***************************************************************************)
CONSTANTS Contents,  \* what the store can hold
          Empty      \* a store that holds nothing

VARIABLES up,      \* the store is open
          seen,    \* what its readers see
          saved,   \* what a restart will read
          report   \* the outcome of the last change: "none", "saved", "error"

vars == <<up, seen, saved, report>>

Init == up = FALSE /\ seen = Empty /\ saved = Empty /\ report = "none"

Reopen ==
    /\ ~up
    /\ up' = TRUE /\ seen' = saved /\ report' = "none"
    /\ UNCHANGED saved

Change(new) ==
    /\ up
    /\ seen' = new
    /\ \/ saved' = new /\ report' = "saved"
       \/ saved' = saved /\ report' = "error"
    /\ UNCHANGED up

\* A change that is under way when the process ends is saved or it is not.
Crash(new) ==
    /\ up
    /\ up' = FALSE /\ seen' = Empty /\ report' = "none"
    /\ saved' \in {saved, new}

Next == Reopen \/ \E new \in Contents : Change(new) \/ Crash(new)

Spec == Init /\ [][Next]_vars
=============================================================================
