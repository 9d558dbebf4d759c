------------------------------- MODULE MCClient -------------------------------
(***************************************************************************)
(* Small instances of ModbusClient with real response frames.              *)
(***************************************************************************)
EXTENDS ModbusClient, Crc, TLC

Framed(body) ==
    LET crc == egw_crc_modbus_table(body) IN body \o <<crc % 256, crc \div 256>>

ReadOne  == [unit_id |-> 1, funccode |-> 3, addr |-> 2, count |-> 1, data |-> <<>>]
ReadTwo  == [unit_id |-> 2, funccode |-> 3, addr |-> 2, count |-> 1, data |-> <<>>]
Reads    == {ReadOne, ReadTwo}

RespOne  == Framed(<<1, 3, 2, 1, 2>>)
RespTwo  == Framed(<<2, 3, 2, 0, 7>>)
RespLong == Framed(<<1, 3, 4, 1, 2, 3, 4>>)        \* a PDU of six bytes
ExcOne   == Framed(<<1, 131, 0>>)
Stray    == <<0>>

Responses == {RespOne, SubSeq(RespOne, 1, 4), SubSeq(RespOne, 5, 7), RespTwo, ExcOne,
              RespLong, Stray}

(* All slots behave alike. *)
SlotSymmetry == Permutations(Slots)

===============================================================================
