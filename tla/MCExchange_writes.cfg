CONSTANTS
    crc16 <- egw_crc_modbus_table
    Transport = "EGW_MODBUS_RTU"
    Requests <- Writes
    Registers <- SomeRegisters
    Noise <- Quiet
    MaxPdu = 253
SPECIFICATION Spec
INVARIANT UndamagedRequestAlwaysUnderstood
CHECK_DEADLOCK FALSE
