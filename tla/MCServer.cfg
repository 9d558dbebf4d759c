CONSTANTS
    crc16 <- egw_crc_modbus_table
    Transport = "EGW_MODBUS_RTU"
    BufCap = 14
    RespCap = 10
    MaxFrame = 14
    MaxPdu = 8
    HasReadCb = TRUE
    HasWriteCb = TRUE
    UnitIds <- OneUnit
    Chunks <- Pieces
    Answers <- Replies
    UnitLists <- Adds
SPECIFICATION Spec
VIEW View
INVARIANTS
    TypeOK
    UnreadReceived
    SendingIffResponse
    StrandedOnlyBySilence
    RefusesOnlyOversized
    ResponseAnswersRequest
PROPERTIES
    PendingResponseUntouched
    ImplementsQueue
