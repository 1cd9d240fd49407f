\* Two disturbances among the bytes of both devices, and one data byte with bit 3.
SPECIFICATION Spec
CONSTANTS
    KeyBytes = {"E0", "1E", "81"}
    SyncKeys = {"1E"}
    MaxFaults = 2
    MaxMarked = 1
INVARIANTS
    TypeOK
    NoStuckByte
    KeysAreKeys
    FaultsBoundMixed
