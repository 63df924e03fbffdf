------------------------------ MODULE StoreFile ------------------------------
(***************************************************************************)
(* How the store saves itself (open and persist in src/src/store.rs): the  *)
(* new index is written to index.json.tmp and renamed over index.json.     *)
(* Tasks share the store through one Mutex, and each step below is one     *)
(* call to the file system.  The process may end between any two.          *)
(***************************************************************************)
CONSTANTS Contents,  \* what the index can say
          Empty,     \* Persisted::default()
          Torn,      \* a file that is not a whole index
          Absent,    \* no such file
          Tasks,     \* tasks that change the store
          Free       \* the Mutex is not held

ASSUME StoreFileAssumption ==
    /\ Empty \in Contents
    /\ Torn \notin Contents /\ Absent \notin Contents \cup {Torn}
    /\ Free \notin Tasks

VARIABLES open,    \* Store::open has succeeded
          state,   \* Store.state
          index,   \* index.json
          tmp,     \* index.json.tmp
          holder,  \* who holds the Mutex
          pc,      \* where in persist() each task is
          seen,    \* history: state when the Mutex was last free ...
          kept,    \* ... and what open() would have found then
          report   \* the outcome of the last change, as its caller sees it

vars == <<open, state, index, tmp, holder, pc, seen, kept, report>>

TypeOK ==
    /\ open \in BOOLEAN
    /\ state \in Contents /\ seen \in Contents /\ kept \in Contents
    /\ index \in Contents \cup {Torn, Absent}
    /\ tmp \in Contents \cup {Torn, Absent}
    /\ holder \in Tasks \cup {Free}
    /\ pc \in [Tasks -> {"idle", "create", "fill", "rename", "return"}]
    /\ report \in {"none", "saved", "error"}

Init ==
    /\ open = FALSE /\ state = Empty /\ seen = Empty /\ kept = Empty
    /\ index = Absent /\ tmp = Absent
    /\ holder = Free /\ pc = [t \in Tasks |-> "idle"]
    /\ report = "none"

-----------------------------------------------------------------------------
Found == IF index = Absent THEN Empty ELSE index

\* Mutant of Parsed: an index that does not parse is an empty store.
ParsedDefaulting(file) == {IF file \in {Absent, Torn} THEN Empty ELSE file}

\* What open() reads from a file: a missing one is an empty store, one that does
\* not parse is an error, and main() exits.
Parsed(file) ==
    IF file = Torn THEN {} ELSE {IF file = Absent THEN Empty ELSE file}

Open ==
    /\ ~open
    /\ open' = TRUE
    /\ state' \in Parsed(index)
    /\ seen' = state'
    /\ UNCHANGED <<index, tmp, holder, pc, kept, report>>

\* Mutant of Change: the lock is not taken.
ChangeUnlocked(t, new) ==
    /\ open /\ pc[t] = "idle"
    /\ holder' = t
    /\ state' = new
    /\ pc' = [pc EXCEPT ![t] = "create"]
    /\ UNCHANGED <<open, index, tmp, seen, kept, report>>

\* A handler takes the lock and changes the maps, then calls persist().
Change(t, new) ==
    /\ open /\ holder = Free /\ pc[t] = "idle"
    /\ holder' = t
    /\ state' = new
    /\ pc' = [pc EXCEPT ![t] = "create"]
    /\ UNCHANGED <<open, index, tmp, seen, kept, report>>

\* std::fs::write opens the file, which truncates it, ...
Create(t) ==
    /\ pc[t] = "create"
    /\ tmp' = Torn
    /\ pc' = [pc EXCEPT ![t] = "fill"]
    /\ UNCHANGED <<open, state, index, holder, seen, kept, report>>

\* ... and writes all of it.
Fill(t) ==
    /\ pc[t] = "fill"
    /\ tmp' = state
    /\ pc' = [pc EXCEPT ![t] = "rename"]
    /\ UNCHANGED <<open, state, index, holder, seen, kept, report>>

\* Mutant of Rename: the index is copied over, which may end half way.
RenameByCopy(t) ==
    /\ pc[t] = "rename"
    /\ index' \in {tmp, Torn} /\ tmp' = Absent
    /\ pc' = [pc EXCEPT ![t] = "return"]
    /\ UNCHANGED <<open, state, holder, seen, kept, report>>

Rename(t) ==
    /\ pc[t] = "rename"
    /\ index' = tmp /\ tmp' = Absent
    /\ pc' = [pc EXCEPT ![t] = "return"]
    /\ UNCHANGED <<open, state, holder, seen, kept, report>>

\* persist() returns and the lock is released: readers see the change either way.
Returns(t, outcome) ==
    /\ pc' = [pc EXCEPT ![t] = "idle"]
    /\ holder' = Free
    /\ seen' = state /\ kept' = Found
    /\ report' = outcome
    /\ UNCHANGED <<open, state, index, tmp>>

Saves(t) == pc[t] = "return" /\ Returns(t, "saved")

\* Mutant of Fails: the error of a call is not passed on.
FailsSilently(t) ==
    /\ pc[t] \in {"create", "fill", "rename"}
    /\ Returns(t, "saved")

\* One of the calls fails; a temporary file that is there stays.
Fails(t) ==
    /\ pc[t] \in {"create", "fill", "rename"}
    /\ Returns(t, "error")

Crash ==
    /\ open
    /\ open' = FALSE /\ state' = Empty /\ seen' = Empty
    /\ kept' = Found
    /\ holder' = Free /\ pc' = [t \in Tasks |-> "idle"]
    /\ report' = "none"
    /\ UNCHANGED <<index, tmp>>

Next == \/ Open \/ Crash
        \/ \E t \in Tasks :
             \/ \E new \in Contents : Change(t, new)
             \/ Create(t) \/ Fill(t) \/ Rename(t) \/ Saves(t) \/ Fails(t)

Spec == Init /\ [][Next]_vars

-----------------------------------------------------------------------------
Atomic == INSTANCE AtomicStore WITH up <- open, saved <- kept

\* SavesAtomically: persist() is one atomic step of the store, saved exactly
\* when it returns Ok, however the calls of concurrent tasks, their failures
\* and crashes fall.
SavesAtomically == Atomic!Spec

\* OpensAgain: index.json is never a file that open() calls corrupt, so the
\* daemon can always start again.
OpensAgain == index # Torn

\* Why: one task at a time is in persist(), what it renames is a whole copy of
\* what it changed, and until then index.json is what it was.
FileInv ==
    /\ TypeOK /\ OpensAgain
    /\ \A t \in Tasks : pc[t] # "idle" => open /\ holder = t
    /\ \A t \in Tasks : pc[t] = "rename" => tmp = state
    /\ \A t \in Tasks : pc[t] = "return" => Found = state
    /\ (\A t \in Tasks : pc[t] # "return") => Found = kept
    /\ holder = Free => state = seen
    /\ ~open => state = Empty /\ report = "none"
=============================================================================
