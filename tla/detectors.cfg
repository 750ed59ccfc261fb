SPECIFICATION FairDetectSpec
CONSTANTS
    Ips = {a, b}
    Ports = {p1, p2}
    Sends <- SomeSends
    ScanThreshold = 2
    ScanWindow = 2
    BfThreshold = 2
    BfWindow = 1
    Keep = 2
    MaxEvents = 3
    MaxIps = 1
    MaxFaults = 1
INVARIANTS
    DetectTypeOK
    FanOutSeen
    CommandSeen
PROPERTIES
    OncePerWindow
    KeepsReporting
