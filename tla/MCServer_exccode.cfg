CONSTANTS
    crc16 <- egw_crc_modbus_table
    Transport = "EGW_MODBUS_RTU"
    BufCap = 14
    RespCap = 12
    MaxFrame = 14
    MaxPdu = 8
    HasReadCb = TRUE
    HasWriteCb = TRUE
    UnitIds <- OneUnit
    Chunks <- Pieces
    Answers <- Replies
    UnitLists <- Adds
SPECIFICATION Spec
VIEW View
INVARIANT ExceptionsCarryTheirCode
CHECK_DEADLOCK FALSE
