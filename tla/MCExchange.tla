------------------------------ MODULE MCExchange ------------------------------
(***************************************************************************)
(* Small instances of Exchange with the real checksum.                     *)
(***************************************************************************)
EXTENDS Exchange, Crc

Request(fc, count, data) ==
    [unit_id |-> 1, funccode |-> fc, addr |-> 258, count |-> count, data |-> data]

Singles == {Request(1, 9, <<>>), Request(2, 8, <<>>), Request(3, 1, <<>>),
            Request(4, 2, <<>>), Request(5, 1, <<255, 0>>), Request(6, 1, <<1, 2>>)}
(* The longest lawful reads, the first unlawful ones, whose answer no longer fits a PDU
   array, those whose byte count wraps and one that overruns the registers. *)
Reads   == {Request(3, n, <<>>) : n \in {125, 126, 128, 257}}
               \cup {Request(4, n, <<>>) : n \in {127, 130}}
               \cup {Request(1, 2000, <<>>), Request(2, 1025, <<>>)}
Writes  == {Request(15, 9, <<255, 1>>), Request(16, 1, <<1, 2>>)}

(* A multiple write whose byte count and first data byte are the checksum of the single
   write its first six bytes are with function code 6. *)
Ambiguous == [Request(16, 1, <<11, 0>>) EXCEPT !.addr = 8196]

AnyRequest == Singles \cup Reads \cup Writes \cup {Ambiguous}

(* The second register of <<258, 14689>> is the checksum of a response cut after the
   first. *)
SomeRegisters == {<<0>>, <<258>>, <<65535, 1>>, <<513, 259>>, <<258, 14689>>}
                    \cup {[i \in 1..n |-> i] : n \in {125, 126, 127, 128, 129, 130, 250, 257}}

(* Any byte of a short frame is received as any other. *)
AnyByte == (1..10) \X Byte
Quiet   == {}

(* On every frame of the exchange, damaged or not, the table routine all frames are
   checked with computes the reflected 0xA001 polynomial division of the bit routine:
   a byte that takes all its values drives it through every entry of the table. *)
RoutinesAgree == egw_crc_modbus_table(wire) = egw_crc_modbus_calc(wire)

-------------------------------------------------------------------------------
(* What a document says of the codec and the code does not do. *)

(* Every request that is encoded and reaches the server undamaged is understood:
   the single and the multiple writes docs/implementation.md:206 lists. *)
UndamagedRequestAlwaysUnderstood == phase = "lost" => damaged

===============================================================================
