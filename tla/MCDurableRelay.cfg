CONSTANTS
    a = a
    b = b
    z = z
    Client = {a, b}
    MaxLeaves = 3
    Scenario <- MCScenario
    MaxEvents = 4
    MaxQueue = 1
    MaxReplay = 2
    MaxOutbound = 1
    MaxWire = 1
SPECIFICATION LiveSpec
INVARIANTS StreamsComplete WritesAfterReplay
PROPERTY EventuallySettled
