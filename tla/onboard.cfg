SPECIFICATION Spec
CONSTANTS
    Runs = {r1, r2}
    Orders = {o1, o2}
    Others = {c1}
    Total = 3
    Fee = 1
    Deposits = {0, 3, 8}
    MaxPolls = 1
    None = None
SYMMETRY Interchangeable
INVARIANTS
    OrderPaidOnce
    RefusedOnlyIfSpent
    DoneAfterOpening
    TypeOK
