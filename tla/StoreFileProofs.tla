--------------------------- MODULE StoreFileProofs ---------------------------
(***************************************************************************)
(* Machine-checked proofs about StoreFile and PowerLoss, for any contents  *)
(* and tasks.                                                              *)
(***************************************************************************)
EXTENDS PowerLoss, TLAPS

\* The invariant says that at most one task is in persist(): the holder.
LEMMA OneWriter ==
    ASSUME FileInv, NEW t \in Tasks, pc[t] # "idle"
    PROVE  /\ holder = t /\ open /\ \A u \in Tasks \ {t} : pc[u] = "idle"
           /\ pc \in [Tasks -> {"idle", "create", "fill", "rename", "return"}]
BY DEF FileInv, TypeOK

LEMMA FileInit == Init => FileInv
BY StoreFileAssumption DEF Init, FileInv, TypeOK, OpensAgain, Found

LEMMA ReturnsInv ==
    ASSUME FileInv, NEW t \in Tasks, pc[t] # "idle",
           NEW outcome \in {"saved", "error"}, Returns(t, outcome)
    PROVE  FileInv'
<1>1. /\ holder = t /\ open /\ \A u \in Tasks \ {t} : pc[u] = "idle"
      /\ pc \in [Tasks -> {"idle", "create", "fill", "rename", "return"}]
  BY OneWriter
<1>2. \A u \in Tasks : pc'[u] = "idle"
  BY <1>1 DEF Returns
<1>3. Found \in Contents
  BY StoreFileAssumption DEF FileInv, TypeOK, OpensAgain, Found
<1>4. TypeOK'
  BY <1>1, <1>3 DEF FileInv, TypeOK, Returns
<1>5. Found' = Found
  BY DEF Found, Returns
<1> QED BY <1>1, <1>2, <1>4, <1>5 DEF FileInv, OpensAgain, Returns

LEMMA FileNext == FileInv /\ [Next]_vars => FileInv'
<1> SUFFICES ASSUME FileInv, [Next]_vars PROVE FileInv'
  OBVIOUS
<1>0. Found \in Contents
  BY StoreFileAssumption DEF FileInv, TypeOK, OpensAgain, Found
<1>1. CASE Open
  <2>1. \A t \in Tasks : pc[t] = "idle"
    BY <1>1 DEF Open, FileInv
  <2>2. holder' = holder /\ pc' = pc /\ index' = index /\ tmp' = tmp /\ kept' = kept
        /\ state' = Found /\ seen' = Found /\ open' = TRUE /\ report' = report
    BY <1>1 DEF Open, Parsed, Found
  <2>3. Found' = Found
    BY <2>2 DEF Found
  <2> QED BY <1>0, <2>1, <2>2, <2>3 DEF FileInv, TypeOK, OpensAgain
<1>2. CASE Crash
  <2>1. Found' = Found
    BY <1>2 DEF Crash, Found
  <2> QED BY <1>0, <1>2, <2>1, StoreFileAssumption DEF Crash, FileInv, TypeOK, OpensAgain
<1>3. ASSUME NEW t \in Tasks, NEW new \in Contents, Change(t, new) PROVE FileInv'
  <2>1. \A u \in Tasks : pc[u] = "idle"
    BY <1>3, StoreFileAssumption DEF Change, FileInv
  <2>2. Found' = Found
    BY <1>3 DEF Change, Found
  <2> QED BY <1>3, <2>1, <2>2, StoreFileAssumption DEF Change, FileInv, TypeOK, OpensAgain
<1>4. ASSUME NEW t \in Tasks, Create(t) \/ Fill(t) PROVE FileInv'
  <2>1. /\ holder = t /\ open /\ \A u \in Tasks \ {t} : pc[u] = "idle"
        /\ pc \in [Tasks -> {"idle", "create", "fill", "rename", "return"}]
    BY <1>4, OneWriter DEF Create, Fill
  <2>2. Found' = Found
    BY <1>4 DEF Create, Fill, Found
  <2> QED BY <1>4, <2>1, <2>2, StoreFileAssumption
        DEF Create, Fill, FileInv, TypeOK, OpensAgain
<1>5. ASSUME NEW t \in Tasks, Rename(t) PROVE FileInv'
  <2>1. /\ holder = t /\ open /\ \A u \in Tasks \ {t} : pc[u] = "idle"
        /\ pc \in [Tasks -> {"idle", "create", "fill", "rename", "return"}]
    BY <1>5, OneWriter DEF Rename
  <2>2. index' = state /\ state \in Contents /\ Found' = state
    BY <1>5, StoreFileAssumption DEF Rename, FileInv, TypeOK, Found
  <2> QED BY <1>5, <2>1, <2>2, StoreFileAssumption
        DEF Rename, FileInv, TypeOK, OpensAgain
<1>6. ASSUME NEW t \in Tasks, Saves(t) \/ Fails(t) PROVE FileInv'
  BY <1>6, ReturnsInv DEF Saves, Fails
<1>7. CASE UNCHANGED vars
  BY <1>7 DEF vars, FileInv, TypeOK, OpensAgain, Found
<1> QED BY <1>1, <1>2, <1>3, <1>4, <1>5, <1>6, <1>7 DEF Next

\* FileHolds: the invariant, OpensAgain among its parts, holds of persist() for
\* any number of tasks.
THEOREM FileHolds == Spec => []FileInv
BY FileInit, FileNext, PTL DEF Spec

\* AlwaysOpens: whatever fails or crashes, index.json can be read back.
THEOREM AlwaysOpens == Spec => []OpensAgain
<1>1. FileInv => OpensAgain
  BY DEF FileInv
<1> QED BY <1>1, FileHolds, PTL

-----------------------------------------------------------------------------
(* SavesAtomically: persist() changes the atomic store when it returns, and *)
(* at the rename when the process ends before that.                         *)

LEMMA ReturnsRefines ==
    ASSUME FileInv, NEW t \in Tasks, Saves(t) \/ Fails(t)
    PROVE  Atomic!Next
<1>1. /\ holder = t /\ open /\ \A u \in Tasks \ {t} : pc[u] = "idle"
      /\ state \in Contents
  BY OneWriter DEF Saves, Fails, FileInv, TypeOK
<1>2. seen' = state /\ UNCHANGED open /\ kept' = Found
  BY DEF Saves, Fails, Returns
<1>3. CASE Saves(t)
  BY <1>1, <1>2, <1>3 DEF Saves, Returns, FileInv, Atomic!Next, Atomic!Change
<1>4. CASE Fails(t)
  <2>1. Found = kept
    BY <1>1, <1>4 DEF Fails, FileInv
  <2> QED BY <1>1, <1>2, <1>4, <2>1 DEF Fails, Returns, Atomic!Next, Atomic!Change
<1> QED BY <1>3, <1>4

LEMMA CrashRefines ==
    ASSUME FileInv, Crash
    PROVE  Atomic!Next
<1>1. /\ open /\ open' = FALSE /\ seen' = Empty /\ report' = "none" /\ kept' = Found
  BY DEF Crash
<1>2. Found \in Contents
  BY StoreFileAssumption DEF FileInv, TypeOK, OpensAgain, Found
<1> QED BY <1>1, <1>2 DEF Atomic!Next, Atomic!Crash

\* Saved: persist() implements the atomic store: a change is in index.json
\* exactly when persist() returned Ok, or when the process ended after the
\* rename and before the answer.
THEOREM Saved == Spec => SavesAtomically
<1>1. Init => Atomic!Init
  BY DEF Init, Atomic!Init
<1>2. FileInv /\ [Next]_vars => [Atomic!Next]_Atomic!vars
  <2> SUFFICES ASSUME FileInv, [Next]_vars PROVE [Atomic!Next]_Atomic!vars
    OBVIOUS
  <2>1. CASE Open
    <3>1. Found = kept /\ report = "none"
      BY <2>1 DEF Open, FileInv
    <3> QED BY <2>1, <3>1 DEF Open, Parsed, Found, Atomic!Next, Atomic!Reopen
  <2>2. ASSUME NEW t \in Tasks,
               (\E new \in Contents : Change(t, new)) \/ Create(t) \/ Fill(t) \/ Rename(t)
        PROVE  UNCHANGED Atomic!vars
    BY <2>2 DEF Change, Create, Fill, Rename, Atomic!vars
  <2>3. CASE UNCHANGED vars
    BY <2>3 DEF vars, Atomic!vars
  <2> QED BY <2>1, <2>2, <2>3, ReturnsRefines, CrashRefines DEF Next
<1> QED BY <1>1, <1>2, FileHolds, PTL DEF Spec, SavesAtomically, Atomic!Spec

-----------------------------------------------------------------------------
(* LosesRecentOnly: whatever has been written back has been an index since. *)

LEMMA OnlyRenamed ==
    ASSUME Next, ~\E t \in Tasks : Rename(t)
    PROVE  index' = index
BY DEF Next, Open, Crash, Change, Create, Fill, Saves, Fails, Returns

LEMMA PowerStep ==
    ASSUME PowerInv, [PowerNext]_all
    PROVE  PowerInv'
<1>1. CASE Runs
  <2>1. Found' \in recent' /\ stable' = stable
    BY <1>1, Zenon DEF Runs
  <2>2. CASE dirty'
    BY <1>1, <2>1, <2>2 DEF Runs, PowerInv, LosesRecentOnly
  <2>3. CASE ~dirty'
    <3>1. ~dirty /\ index' = index
      BY <1>1, <2>3, OnlyRenamed DEF Runs
    <3> QED BY <2>1, <3>1 DEF PowerInv, LosesRecentOnly, Parsed, Found
  <2> QED BY <2>2, <2>3
<1>2. CASE WriteBackName
  BY <1>2 DEF WriteBackName, PowerInv, LosesRecentOnly, Parsed, Found, vars
<1>3. CASE WriteBack
  BY <1>3 DEF WriteBack, PowerInv, LosesRecentOnly, Parsed, Found, vars
<1>4. CASE UNCHANGED all
  BY <1>4 DEF all, vars, PowerInv, LosesRecentOnly, Parsed, Found
<1> QED BY <1>1, <1>2, <1>3, <1>4 DEF PowerNext

\* LosesLittle: at any time a loss of power would leave an index that open()
\* refuses, or one that was saved no earlier than the last write-back.
THEOREM LosesLittle == PowerSpec => []LosesRecentOnly
<1>1. PowerInit => PowerInv
  BY DEF PowerInit, Init, PowerInv, LosesRecentOnly, Parsed, Found
<1>2. PowerInv => LosesRecentOnly
  BY DEF PowerInv
<1> QED BY <1>1, <1>2, PowerStep, PTL DEF PowerSpec
=============================================================================
