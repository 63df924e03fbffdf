SPECIFICATION Spec
CONSTANTS
    Requests = {r1, r2}
    Prices = {0, 1}
    Floors = {0, 2}
    Asked = {1, 4}
    Zaps = {1000, 2000}
    Capacities = {0, 1000, 2000}
    MaxInbound = 2000
    MinSendable = 1000
    FallbackMax = 2000
    Wrap = 3000
    None = None
SYMMETRY Interchangeable
INVARIANTS
    FairUnlessWrapped
    RejectedOnlyIfGrown
    UnroutableOnlyIfShrunk
    LimitsHonoured
    ZapsOpenFirstChannel
    TypeOK
