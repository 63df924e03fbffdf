------------------------------- MODULE MCGate -------------------------------
(***************************************************************************)
(* Instances of Gate for TLC.                                              *)
(***************************************************************************)
EXTENDS GateInvariant, TLC

\* No definition chooses among slugs, hashes, tasks or uploads.
Symmetric == Permutations(Slugs) \cup Permutations(Hashes)
             \cup Permutations(Tasks) \cup Permutations(Uploaders)

\* The runs about sales start where the artist has uploaded every product, in
\* one format, and the daemon is down.
StockedInit == \E p \in Product :
    /\ mem = Default
    /\ disk = [Default EXCEPT !.products = [s \in Slugs |-> p]]
    /\ NodeInit
    /\ proc = "down" /\ loop = "down"
    /\ task = [w \in Tasks |-> Idle]
    /\ upload = [u \in Uploaders |-> NoUpload]
    /\ file = [f \in Files |-> IF f[2] = p.format THEN p.size_bytes ELSE None]
    /\ rewritten = {}

StockedSpec == StockedInit /\ [][Next]_vars
StockedLiveSpec == StockedSpec /\ Fairness /\ Polling
=============================================================================
