CONSTANTS
  Contents = {e, c1, c2}
  Empty = e
  Torn = Torn
  Absent = Absent
  Tasks = {t1, t2}
  Free = Free
SPECIFICATION PowerSpec
SYMMETRY Symmetric
INVARIANTS OpensAgain FileInv LosesRecentOnly
PROPERTIES SavesAtomically
