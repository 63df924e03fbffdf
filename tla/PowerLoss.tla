------------------------------ MODULE PowerLoss ------------------------------
(***************************************************************************)
(* The file of the store on a machine that may lose its power.  persist()  *)
(* (src/src/store.rs) syncs neither the file nor its directory, so what it *)
(* has saved is in the page cache until the kernel writes it back: the new *)
(* name and the data behind it, in either order.                           *)
(*                                                                         *)
(* The power may fail in any state, and then `stable' is what is left of   *)
(* index.json.  A start that accepts it goes on as after a crash that left *)
(* this index, so what follows is in StoreFile.                            *)
(***************************************************************************)
EXTENDS StoreFile

VARIABLES stable,  \* what a loss of power leaves of index.json
          dirty,   \* index.json has been replaced since it was written back
          recent   \* history: what a start would have found since then

all == <<vars, stable, dirty, recent>>

PowerInit ==
    /\ Init
    /\ stable = index /\ dirty = FALSE /\ recent = {Found}

\* A call of the store, or a crash of its process.
Runs ==
    /\ Next
    /\ dirty' = (dirty \/ \E t \in Tasks : Rename(t))
    /\ recent' = IF dirty' THEN recent \cup {Found'} ELSE {Found'}
    /\ UNCHANGED stable

\* The name is written back before the data: an empty or a partial file.
WriteBackName ==
    /\ dirty
    /\ stable' = Torn
    /\ UNCHANGED <<vars, dirty, recent>>

WriteBack ==
    /\ dirty
    /\ stable' = index /\ dirty' = FALSE /\ recent' = {Found}
    /\ UNCHANGED vars

PowerNext == Runs \/ WriteBackName \/ WriteBack

PowerSpec == PowerInit /\ [][PowerNext]_all

-----------------------------------------------------------------------------
\* LosesRecentOnly: whenever the power fails, the daemon either refuses to start
\* (store.rs:63) or starts with an index as it was saved at some time, and not
\* before the last time one reached the disk.  It never starts over with an
\* empty store, which the next save would make permanent.
LosesRecentOnly == Parsed(stable) \subseteq recent

\* Why: what a start would find now is recent, and what is clean is on disk.
PowerInv ==
    /\ LosesRecentOnly
    /\ Found \in recent
    /\ ~dirty => stable = index
=============================================================================
