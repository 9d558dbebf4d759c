CONSTANTS
    crc16 <- egw_crc_modbus_table
    Transport = "EGW_MODBUS_RTU"
    RecvCap = 12
    MaxPdu = 5
    Slots = {s1, s2, s3}
    NULL = NULL
    Params <- Reads
    Chunks <- Responses
    MaxTx = 2
    MaxRx = 3
SPECIFICATION Spec
SYMMETRY SlotSymmetry
INVARIANTS
    TypeOK
    ListIsCircleOfLiveSlots
    AwaitedSlotIsLive
    SuccessFitsRequest
PROPERTY FurtherReportsRepeat
