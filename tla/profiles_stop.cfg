\* Orderly stops; nothing fails and nothing times out.
SPECIFICATION ProfileSpec
CONSTANTS
    Ips = {a, b}
    NoIp = NoIp
    Cmds = {"ls", "wget"}
    Tools = {"wget"}
    Long = {"ls"}
    LoginThreshold = 1
    ProfileMax = 1
    MemMax = 1
    SnapMax = 1
    RowMax = 1
    Busy = a
    Sends <- SomeSend
    MaxLogins = 1
    MaxFaults = 0
INVARIANTS
    StopSavesAll
