\* Two addresses for one place in memory; a failed statement, a timeout or a kill at any
\* point, and stops without limit.
SPECIFICATION FairProfileSpec
CONSTANTS
    Ips = {a, b}
    NoIp = NoIp
    Cmds = {"ls", "wget"}
    Tools = {"wget"}
    Long = {"ls"}
    LoginThreshold = 1
    ProfileMax = 1
    MemMax = 1
    SnapMax = 1
    RowMax = 1
    Busy = a
    Sends <- SomeSend
    MaxLogins = 1
    MaxFaults = 1
INVARIANTS
    ProfileTypeOK
    UnsavedTracked
PROPERTIES
    ProfileLedgerKept
    EventuallySaved
