------------------------------- MODULE MCServer -------------------------------
(***************************************************************************)
(* Small instances of ModbusServer.  The requests are real frames with real *)
(* checksums, cut at different places, next to frames that are foreign,     *)
(* broadcast, damaged or that only look like requests.                      *)
(***************************************************************************)
EXTENDS ModbusServer, Crc

(* A frame with its checksum. *)
Framed(body) ==
    LET crc == egw_crc_modbus_table(body) IN body \o <<crc % 256, crc \div 256>>

ReadMine    == Framed(<<1, 3, 0, 2, 0, 1>>)        \* one holding register of unit 1
ReadForeign == Framed(<<9, 3, 0, 2, 0, 1>>)        \* unit 9 is not registered
Broadcast   == Framed(<<0, 6, 0, 2, 0, 7>>)        \* write one register, every unit
WriteMine   == Framed(<<1, 6, 0, 2, 0, 7>>)        \* write one register of unit 1
Exception   == Framed(<<9, 131, 2>>)               \* another slave's exception response
Unknown     == <<1, 7, 0, 0>>                      \* function code the server lacks
ReadFour    == Framed(<<1, 3, 0, 2, 0, 4>>)        \* answered by a PDU of ten bytes
ManyHead    == <<1, 16, 0, 2, 0, 1, 2>>            \* write registers, two data bytes
ManyTail    == SubSeq(Framed(ManyHead \o <<0, 7>>), 8, 11)
Oversized   == <<1, 15, 0, 0, 0, 48, 6>>           \* six data bytes announced

OneUnit   == <<1, 0, 0, 0>>
TwoUnits  == <<2, 250, 3, 0>>
Adds      == {TwoUnits}
Replies   == {[ok |-> TRUE, regs |-> <<258>>, junk |-> 0],
              [ok |-> FALSE, regs |-> <<>>, junk |-> 0]}

(* Requests whole and cut, of different lengths. *)
Pieces == {SubSeq(ReadMine, 1, 3), SubSeq(ReadMine, 4, 8), WriteMine, Broadcast,
           ReadFour, ReadForeign, Exception, Unknown, ManyHead, ManyTail, Oversized}

(* Two states that differ only in ring bytes outside [rd, wr) behave alike. *)
View == <<Unread, rd, resp, sending, unit_mask, frame, outcome, calls>>

-------------------------------------------------------------------------------
(* What a header says of the server and the code does not do. *)

(* core.h:75: an exception response carries a code from 1 to 11, which the client
   reports as -101 to -111. *)
ExceptionsCarryTheirCode ==
    resp /= <<>> /\ resp[1] \in unit_mask /\ resp[2] >= 128 => resp[3] \in 1..11

===============================================================================
