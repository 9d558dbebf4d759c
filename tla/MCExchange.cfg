CONSTANTS
    crc16 <- egw_crc_modbus_table
    Transport = "EGW_MODBUS_RTU"
    Requests <- AnyRequest
    Registers <- SomeRegisters
    Noise <- AnyByte
    MaxPdu = 253
SPECIFICATION Spec
INVARIANTS
    ServerActsOnWhatWasSent
    ClientReportsRegistersRead
    UndamagedExchangeSucceeds
    RoutinesAgree
CHECK_DEADLOCK FALSE
