SPECIFICATION Spec
CONSTANTS
    Requests = {r1}
    Prices = {1}
    Floors = {2}
    Asked = {4}
    Zaps = {1000, 2000}
    Capacities = {0, 1000, 2000}
    MaxInbound = 2000
    MinSendable = 1000
    FallbackMax = 2000
    Wrap = 3000
    None = None
INVARIANT FairPrice
