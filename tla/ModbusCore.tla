------------------------------ MODULE ModbusCore ------------------------------
(***************************************************************************)
(* The Modbus codec of src/src/protocol/egw_modbus_core.c together with    *)
(* the frame delimiters of the server and the client.  Frames and PDUs are *)
(* sequences of bytes; the C index i is the TLA+ index i + 1.  The codec   *)
(* is pure: every C function is an operator that returns the record of its *)
(* output parameters.                                                      *)
(***************************************************************************)
EXTENDS Integers, Sequences

(* The checksum routine, egw_crc_modbus_table.  It is a parameter so that what
   is proved of the framing holds for every checksum; module Crc defines the
   real one and every run uses it. *)
CONSTANT crc16(_)

Byte == 0..255
Word == 0..65535

RTU == "EGW_MODBUS_RTU"
TCP == "EGW_MODBUS_TCP"

ReadCodes  == {1, 2, 3, 4}
WriteOne   == {5, 6}
WriteMany  == {15, 16}

ILLEGAL_FUNCTION     == 1
ILLEGAL_DATA_ADDR    == 2
SLAVE_DEVICE_FAILURE == 4

High(w) == (w \div 256) % 256
Low(w)  == w % 256
BE(hi, lo) == 256 * hi + lo

(* The C result type uint16_t of the checksum. *)
Checksum(s) == IF crc16(s) \in Word THEN crc16(s) ELSE 0

(* Mutant of validate: the checksum is not compared. *)
ValidateNothing(f) == Len(f) >= 2

(* The last two bytes of f are the checksum of the others, low byte first. *)
validate(f) ==
    LET n   == Len(f)
        crc == Checksum(SubSeq(f, 1, n - 2))
    IN  f[n - 1] = Low(crc) /\ f[n] = High(crc)

-------------------------------------------------------------------------------
(* Frame delimiting. *)

NeedLength == -1
BadLength  == -2

(* Length of the request at the start of b, as the server infers it. *)
modbus_frame_len(b) ==
    IF Len(b) < 2 THEN NeedLength
    ELSE CASE b[2] >= 128                -> 5
           [] b[2] \in ReadCodes         -> 8
           [] b[2] \in WriteOne          -> 8
           [] b[2] \in WriteMany         -> IF Len(b) < 7 THEN NeedLength
                                                          ELSE 9 + b[7]
           [] OTHER                      -> BadLength

(* Mutant of resp_frame_len: the checksum of a read response is not counted. *)
RespFrameLenShort(b) ==
    IF Len(b) < 2 THEN NeedLength
    ELSE CASE b[2] >= 128                -> 5
           [] b[2] \in ReadCodes         -> IF Len(b) < 3 THEN NeedLength ELSE 3 + b[3]
           [] b[2] \in WriteOne \cup WriteMany -> 8
           [] OTHER                      -> BadLength

(* Length of the response at the start of b, as the client infers it. *)
resp_frame_len(b) ==
    IF Len(b) < 2 THEN NeedLength
    ELSE CASE b[2] >= 128                -> 5
           [] b[2] \in ReadCodes         -> IF Len(b) < 3 THEN NeedLength
                                                          ELSE 3 + b[3] + 2
           [] b[2] \in WriteOne \cup WriteMany -> 8
           [] OTHER                      -> BadLength

MIN_FRAME == 4

(* The decision both delimiters take once a length exp has been inferred. *)
Delimit(b, exp) ==
    CASE Len(b) < MIN_FRAME         -> [res |-> "NEED_MORE", len |-> 0]
      [] Len(b) >= MIN_FRAME /\ exp = NeedLength
                                    -> [res |-> "NEED_MORE", len |-> 0]
      [] Len(b) >= MIN_FRAME /\ exp = BadLength
                                    -> [res |-> "FRAME_ERROR", len |-> 0]
      [] Len(b) >= MIN_FRAME /\ exp >= 0 /\ Len(b) < exp
                                    -> [res |-> "NEED_MORE", len |-> 0]
      [] OTHER -> IF validate(SubSeq(b, 1, exp))
                  THEN [res |-> "FRAME_READY", len |-> exp]
                  ELSE [res |-> "FRAME_ERROR", len |-> 0]

parse_and_check(b) == Delimit(b, modbus_frame_len(b))
resp_parse(b)      == Delimit(b, resp_frame_len(b))

-------------------------------------------------------------------------------
(* Packing a PDU into a frame and unpacking it. *)

(* The frame around a PDU: unit and checksum on a serial line, the MBAP header
   on TCP. *)
Adu(transport, tid, unit, pdu) ==
    IF transport = RTU
    THEN LET body == <<unit>> \o pdu
             crc  == Checksum(body)
         IN  body \o <<Low(crc), High(crc)>>
    ELSE LET mbap_len == Len(pdu) + 1
         IN  <<High(tid), Low(tid), 0, 0, High(mbap_len), Low(mbap_len), unit>> \o pdu

(* egw_modbus_encode into a buffer of cap bytes; <<>> is a NULL result. *)
egw_modbus_encode(transport, tid, unit, pdu, cap) ==
    LET adu == Adu(transport, tid, unit, pdu)
    IN  IF Len(adu) > cap THEN <<>> ELSE adu

(* EGW_ENCODE_EXCEPTION: function code with its high bit set, then the code. *)
ExceptionPdu(fc, exc) == <<IF fc < 128 THEN fc + 128 ELSE fc, exc>>

(* EGW_ENCODE_FROM_PARAMS.  For 0x0F and 0x10 the code reserves
   pdu_off + 5 + byte_cnt bytes for a PDU of 6 + byte_cnt: the last data byte is
   outside the frame length and is lost.  Without data 05 and 06 write zeros. *)
RequestPdu(p) ==
    LET head == <<p.funccode, High(p.addr), Low(p.addr)>>
        qty  == <<High(p.count), Low(p.count)>>
        many(bc) == SubSeq(head \o qty \o <<bc>> \o SubSeq(p.data, 1, bc), 1, 5 + bc)
    IN  CASE p.funccode \in ReadCodes -> head \o qty
          [] p.funccode \in WriteOne  ->
                head \o (IF p.data = <<>> THEN <<0, 0>> ELSE SubSeq(p.data, 1, 2))
          [] p.funccode = 15 -> many(((p.count + 7) \div 8) % 256)
          [] p.funccode = 16 -> many((p.count * 2) % 256)
          [] OTHER -> <<>>

(* A request frame; an unknown function code yields NULL. *)
EncodeRequest(transport, p) ==
    IF RequestPdu(p) = <<>> THEN <<>>
    ELSE Adu(transport, 0, p.unit_id, RequestPdu(p))

(* egw_modbus_decode of a complete frame f.  It copies the PDU into a buffer of
   EGW_MODBUS_MAX_PDU bytes of its caller without looking at that size: the modules
   of the callers say what a longer PDU does. *)
egw_modbus_decode(transport, f) ==
    LET bad == [ok |-> FALSE, unit |-> 0, pdu |-> <<>>]
        n   == Len(f)
    IN  IF transport = RTU
        THEN IF n >= 4 /\ validate(f)
             THEN [ok |-> TRUE, unit |-> f[1], pdu |-> SubSeq(f, 2, n - 2)]
             ELSE bad
        ELSE IF n >= 8 /\ BE(f[5], f[6]) >= 1 /\ n >= BE(f[5], f[6]) + 6
             THEN [ok |-> TRUE, unit |-> f[7], pdu |-> SubSeq(f, 8, BE(f[5], f[6]) + 6)]
             ELSE bad

-------------------------------------------------------------------------------
(* PDUs. *)

(* Byte i of s; junk stands for what the stack holds beyond its end. *)
ByteAt(s, i, junk) == IF i \in 1..Len(s) THEN s[i] ELSE junk

(* egw_modbus_parse_request: the fields of a request PDU.  data is what follows
   the fixed part, up to the end of the PDU. *)
egw_modbus_parse_request(pdu, junk) ==
    LET fc   == ByteAt(pdu, 1, junk)
        n    == Len(pdu)
        bad  == [ok |-> FALSE, fc |-> fc, addr |-> 0, count |-> 0, data |-> <<>>]
        req(count, data) ==
            [ok |-> TRUE, fc |-> fc, addr |-> BE(pdu[2], pdu[3]),
             count |-> count, data |-> data]
    IN  CASE fc \in ReadCodes /\ n >= 5 -> req(BE(pdu[4], pdu[5]), <<>>)
          [] fc \in WriteOne  /\ n >= 5 -> req(1, SubSeq(pdu, 4, n))
          [] fc \in WriteMany /\ n >= 6 -> req(BE(pdu[4], pdu[5]), SubSeq(pdu, 7, n))
          [] OTHER -> bad

(* egw_modbus_build_read_resp_pdu: the byte count is a uint8_t.  It writes up to 257
   bytes into a buffer of EGW_MODBUS_MAX_PDU bytes of its caller, the server. *)
egw_modbus_build_read_resp_pdu(fc, data) ==
    LET byte_count == Len(data) % 256
    IN  <<fc, byte_count>> \o SubSeq(data, 1, byte_count)

(* The registers a response to a read of count coils or registers is built from. *)
Wanted(fc, count) == IF fc \in {1, 2} THEN (count + 7) \div 8 ELSE count

(* What regs has room for in handle_read_request, which passes the quantity of the
   request on to the callback unchecked.  raw has 512 bytes, enough for as many. *)
RegsRoom == 256

(* The data bytes of a read response: one per register of a coil read, else two. *)
ReadBytes(fc, rs) ==
    IF fc \in {1, 2} THEN [i \in 1..Len(rs) |-> Low(rs[i])]
    ELSE [i \in 1..(2 * Len(rs)) |-> IF i % 2 = 1 THEN High(rs[(i + 1) \div 2])
                                                  ELSE Low(rs[(i + 1) \div 2])]

(* Mutant of egw_modbus_parse_read_pdu: registers are read low byte first. *)
ParseReadLowFirst(pdu, fc, max_regs) ==
    LET n == pdu[2] \div 2
    IN  IF pdu[1] = fc /\ 2 + pdu[2] <= Len(pdu) /\ n <= max_regs
        THEN [rc |-> n, regs |-> [i \in 1..n |-> BE(pdu[2 * i + 2], pdu[2 * i + 1])]]
        ELSE [rc |-> -1, regs |-> <<>>]

(* egw_modbus_parse_read_pdu: rc is its return value and regs what it wrote. *)
egw_modbus_parse_read_pdu(pdu, fc, max_regs) ==
    LET bc == pdu[2]
        failed(rc) == [rc |-> rc, regs |-> <<>>]
    IN  CASE pdu[1] >= 128 /\ pdu[1] - 128 = fc -> failed(-pdu[2] - 100)
          [] pdu[1] = fc /\ fc \in {1, 2} /\ 2 + bc <= Len(pdu) /\ bc <= max_regs ->
                [rc |-> bc, regs |-> [i \in 1..bc |-> pdu[2 + i]]]
          [] pdu[1] = fc /\ fc \in {3, 4} /\ 2 + bc <= Len(pdu)
                /\ bc % 2 = 0 /\ bc \div 2 <= max_regs ->
                [rc |-> bc \div 2,
                 regs |-> [i \in 1..(bc \div 2) |-> BE(pdu[2 * i + 1], pdu[2 * i + 2])]]
          [] OTHER -> failed(-1)

===============================================================================
