CONSTANTS
    crc16 <- egw_crc_modbus_table
    MasterRows <- Asked
    SlaveRows <- FiveDevices
    MaxFrame = 260
    MaxPdu = 253
    Junk <- AnyJunk
    Slot = Slot
    NULL = NULL
    SetupMayFail = TRUE
    ShortWrites = TRUE
    MaxLost = 2
SPECIFICATION Spec
INVARIANTS
    ReportedIsServed
    CrashLosesNothing
PROPERTIES
    CompletesWithoutFault
    TimerEndsLoop
