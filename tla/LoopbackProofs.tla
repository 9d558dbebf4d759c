---------------------------- MODULE LoopbackProofs ----------------------------
(***************************************************************************)
(* Theorems about Loopback: what a failed start and a completed loopback   *)
(* leave behind, for any rows, checksum, timing and division of the bytes. *)
(***************************************************************************)
EXTENDS Loopback, CodecProofs

-------------------------------------------------------------------------------
(* The codec of the instances. *)

(* The server's delimiter and codec are those of ModbusCore. *)
LEMMA ServerCodec ==
    /\ \A b : Server!parse_and_check(b) = parse_and_check(b)
    /\ \A f : Server!egw_modbus_decode(RTU, f) = egw_modbus_decode(RTU, f)
    /\ \A p, j : Server!egw_modbus_parse_request(p, j) = egw_modbus_parse_request(p, j)
    /\ \A t, u, p, c : Server!egw_modbus_encode(RTU, t, u, p, c) = egw_modbus_encode(RTU, t, u, p, c)
    /\ \A fc, d : Server!egw_modbus_build_read_resp_pdu(fc, d)
                    = egw_modbus_build_read_resp_pdu(fc, d)
    /\ \A fc, rs : Server!ReadBytes(fc, rs) = ReadBytes(fc, rs)
    /\ \A fc, n : Server!Wanted(fc, n) = Wanted(fc, n)
<1>0. Server!Word = Word /\ Server!RTU = RTU
  BY SMT DEF Server!Word, Word, Server!RTU, RTU
<1>1. \A s : Server!Checksum(s) = Checksum(s)
  BY <1>0 DEF Server!Checksum, Checksum
<1>2. \A w : Server!High(w) = High(w) /\ Server!Low(w) = Low(w)
  BY DEF Server!High, High, Server!Low, Low
<1>3. \A h, l : Server!BE(h, l) = BE(h, l)
  BY DEF Server!BE, BE
<1>4. \A f : Server!validate(f) = validate(f)
  BY <1>1, <1>2, Zenon DEF Server!validate, validate
<1>5. /\ Server!ReadCodes = ReadCodes /\ Server!WriteOne = WriteOne
      /\ Server!WriteMany = WriteMany
      /\ Server!NeedLength = NeedLength /\ Server!BadLength = BadLength
      /\ Server!MIN_FRAME = MIN_FRAME
  BY DEF Server!ReadCodes, ReadCodes, Server!WriteOne, WriteOne, Server!WriteMany, WriteMany,
         Server!NeedLength, NeedLength, Server!BadLength, BadLength, Server!MIN_FRAME, MIN_FRAME
<1>6. \A b : Server!modbus_frame_len(b) = modbus_frame_len(b)
  BY Zenon DEF Server!modbus_frame_len, modbus_frame_len, Server!ReadCodes, ReadCodes,
               Server!WriteOne, WriteOne, Server!WriteMany, WriteMany,
               Server!NeedLength, NeedLength, Server!BadLength, BadLength
<1>7. \A b, e : Server!Delimit(b, e) = Delimit(b, e)
  BY <1>4, <1>5, Zenon DEF Server!Delimit, Delimit
<1>8. \A b : Server!parse_and_check(b) = parse_and_check(b)
  BY <1>6, <1>7, Zenon DEF Server!parse_and_check, parse_and_check
<1>9. \A f : Server!egw_modbus_decode(RTU, f) = egw_modbus_decode(RTU, f)
  BY <1>0, <1>4, Zenon DEF Server!egw_modbus_decode, egw_modbus_decode
<1>10. \A p, j : Server!egw_modbus_parse_request(p, j) = egw_modbus_parse_request(p, j)
  BY <1>3, <1>5, Zenon DEF Server!egw_modbus_parse_request, egw_modbus_parse_request,
                         Server!ByteAt, ByteAt
<1>11. \A t, u, p : Server!Adu(RTU, t, u, p) = Adu(RTU, t, u, p)
  BY <1>0, <1>1, <1>2, Zenon DEF Server!Adu, Adu
<1>12. \A t, u, p, c : Server!egw_modbus_encode(RTU, t, u, p, c) = egw_modbus_encode(RTU, t, u, p, c)
  BY <1>11, Zenon DEF Server!egw_modbus_encode, egw_modbus_encode
<1>13. \A fc, d : Server!egw_modbus_build_read_resp_pdu(fc, d)
                    = egw_modbus_build_read_resp_pdu(fc, d)
  BY DEF Server!egw_modbus_build_read_resp_pdu, egw_modbus_build_read_resp_pdu
<1>14. \A fc, rs : Server!ReadBytes(fc, rs) = ReadBytes(fc, rs)
  BY <1>2, Zenon DEF Server!ReadBytes, ReadBytes
<1>15. \A fc, n : Server!Wanted(fc, n) = Wanted(fc, n)
  BY DEF Server!Wanted, Wanted
<1> QED BY <1>8, <1>9, <1>10, <1>12, <1>13, <1>14, <1>15

(* And so are the client's. *)
LEMMA ClientCodec ==
    /\ \A b : Client!resp_parse(b) = resp_parse(b)
    /\ \A f : Client!egw_modbus_decode(RTU, f) = egw_modbus_decode(RTU, f)
    /\ \A p, fc, n : Client!egw_modbus_parse_read_pdu(p, fc, n) = egw_modbus_parse_read_pdu(p, fc, n)
    /\ \A p : Client!EncodeRequest(RTU, p) = EncodeRequest(RTU, p)
<1>0. Client!Word = Word /\ Client!RTU = RTU
  BY SMT DEF Client!Word, Word, Client!RTU, RTU
<1>1. \A s : Client!Checksum(s) = Checksum(s)
  BY <1>0 DEF Client!Checksum, Checksum
<1>2. \A w : Client!High(w) = High(w) /\ Client!Low(w) = Low(w)
  BY DEF Client!High, High, Client!Low, Low
<1>3. \A h, l : Client!BE(h, l) = BE(h, l)
  BY DEF Client!BE, BE
<1>4. \A f : Client!validate(f) = validate(f)
  BY <1>1, <1>2, Zenon DEF Client!validate, validate
<1>5. /\ Client!ReadCodes = ReadCodes /\ Client!WriteOne = WriteOne
      /\ Client!WriteMany = WriteMany
      /\ Client!NeedLength = NeedLength /\ Client!BadLength = BadLength
      /\ Client!MIN_FRAME = MIN_FRAME
  BY DEF Client!ReadCodes, ReadCodes, Client!WriteOne, WriteOne, Client!WriteMany, WriteMany,
         Client!NeedLength, NeedLength, Client!BadLength, BadLength, Client!MIN_FRAME, MIN_FRAME
<1>6. \A b : Client!resp_frame_len(b) = resp_frame_len(b)
  BY Zenon DEF Client!resp_frame_len, resp_frame_len, Client!ReadCodes, ReadCodes,
               Client!WriteOne, WriteOne, Client!WriteMany, WriteMany,
               Client!NeedLength, NeedLength, Client!BadLength, BadLength
<1>7. \A b, e : Client!Delimit(b, e) = Delimit(b, e)
  BY <1>4, <1>5, Zenon DEF Client!Delimit, Delimit
<1>8. \A b : Client!resp_parse(b) = resp_parse(b)
  BY <1>6, <1>7, Zenon DEF Client!resp_parse, resp_parse
<1>9. \A f : Client!egw_modbus_decode(RTU, f) = egw_modbus_decode(RTU, f)
  BY <1>0, <1>4, Zenon DEF Client!egw_modbus_decode, egw_modbus_decode
<1>10. \A p, fc, n : Client!egw_modbus_parse_read_pdu(p, fc, n)
                       = egw_modbus_parse_read_pdu(p, fc, n)
  BY <1>3, Zenon DEF Client!egw_modbus_parse_read_pdu, egw_modbus_parse_read_pdu
<1>11. \A t, u, p : Client!Adu(RTU, t, u, p) = Adu(RTU, t, u, p)
  BY <1>0, <1>1, <1>2, Zenon DEF Client!Adu, Adu
<1>12. \A p : Client!RequestPdu(p) = RequestPdu(p)
  BY <1>2, <1>5, Zenon DEF Client!RequestPdu, RequestPdu
<1>13. \A p : Client!EncodeRequest(RTU, p) = EncodeRequest(RTU, p)
  BY <1>11, <1>12, Zenon DEF Client!EncodeRequest, EncodeRequest
<1> QED BY <1>8, <1>9, <1>10, <1>13

-------------------------------------------------------------------------------
(* The request of a row and the response to it. *)

UnitOf(m) == m.device_id % 256
Sent(m)   == EncodeRequest(RTU, RequestFor(m))

(* The response the server makes of the request. *)
ReplyData(m) == ReadBytes(m.func_code, [i \in 1..Wanted(m.func_code, m.reg_count)
                                            |-> AnswerTo(m).regs[i]])
ReplyPdu(m)  == IF m.func_code \in ReadCodes
                THEN egw_modbus_build_read_resp_pdu(m.func_code, ReplyData(m))
                ELSE RequestPdu(RequestFor(m))
Reply(m)     == Adu(RTU, 0, UnitOf(m), ReplyPdu(m))

(* The fields of a row and of the request it is registered with. *)
LEMMA RowType ==
    ASSUME NEW m \in MasterRows
    PROVE  /\ UnitOf(m) \in Byte /\ m.reg_addr \in Word /\ m.reg_count \in Nat
           /\ m.reg_count \in Word
           /\ m.func_code \in Byte \ WriteMany
           /\ RequestFor(m) = [unit_id |-> UnitOf(m), funccode |-> m.func_code,
                               addr |-> m.reg_addr, count |-> m.reg_count, data |-> <<>>]
<1>1. /\ m.device_id \in Word /\ m.reg_addr \in Word /\ m.func_code \in Byte \ WriteMany
      /\ m.reg_count \in Word
  BY LoopbackAssumption
<1>2. UnitOf(m) \in Byte
  BY <1>1, WordBytes DEF UnitOf
<1>3. m.reg_count \in Nat
  BY <1>1, WordIsNat
<1> QED BY <1>1, <1>2, <1>3 DEF RequestFor, UnitOf

(* The counts that can be answered. *)
LEMMA AnswerableCount ==
    ASSUME NEW m \in MasterRows, Answerable(m)
    PROVE  /\ m.reg_count >= 1 /\ m.reg_count <= 256
           /\ m.func_code \notin {1, 2} => m.reg_count <= 125
<1>1. m.reg_count \in Nat
  BY RowType
<1> QED BY <1>1 DEF Answerable

(* A row that can be encoded asks for a read or a single write; its PDU has five bytes. *)
LEMMA RowPdu ==
    ASSUME NEW m \in MasterRows, Sent(m) /= <<>>
    PROVE  LET pdu == RequestPdu(RequestFor(m))
           IN  /\ m.func_code \in ReadCodes \cup WriteOne
               /\ pdu \in Seq(Byte) /\ Len(pdu) = 5 /\ pdu[1] = m.func_code
               /\ pdu[2] = High(m.reg_addr) /\ pdu[3] = Low(m.reg_addr)
               /\ m.func_code \in ReadCodes =>
                     pdu[4] = High(m.reg_count) /\ pdu[5] = Low(m.reg_count)
<1> DEFINE fc == m.func_code
           p == RequestFor(m)
           pdu == RequestPdu(p)
           head == <<fc, High(m.reg_addr), Low(m.reg_addr)>>
           qty == <<High(m.reg_count), Low(m.reg_count)>>
<1>1. /\ fc \in Byte /\ fc \notin WriteMany /\ m.reg_addr \in Word /\ m.reg_count \in Word
      /\ p.funccode = fc /\ p.addr = m.reg_addr /\ p.count = m.reg_count /\ p.data = <<>>
  BY RowType
<1>2. /\ High(m.reg_addr) \in Byte /\ Low(m.reg_addr) \in Byte
      /\ High(m.reg_count) \in Byte /\ Low(m.reg_count) \in Byte /\ 0 \in Byte
  BY <1>1, HighLow, ByteIff
<1>3. fc /= 15 /\ fc /= 16
  BY <1>1 DEF WriteMany
<1>4. RequestPdu(p) /= <<>>
  BY DEF Sent, EncodeRequest
<1> HIDE DEF p
<1>5. fc \in ReadCodes \cup WriteOne
  <2> SUFFICES ASSUME fc \notin ReadCodes, fc \notin WriteOne PROVE FALSE
    OBVIOUS
  <2> QED BY <1>1, <1>3, <1>4, Zenon DEF RequestPdu
<1>6. fc \in ReadCodes => pdu = head \o qty
  <2> SUFFICES ASSUME fc \in ReadCodes PROVE pdu = head \o qty
    OBVIOUS
  <2>1. fc \notin WriteOne
    BY DEF ReadCodes, WriteOne
  <2> QED BY <1>1, <1>3, <2>1, Zenon DEF RequestPdu
<1>7. fc \in WriteOne => pdu = head \o <<0, 0>>
  <2> SUFFICES ASSUME fc \in WriteOne PROVE pdu = head \o <<0, 0>>
    OBVIOUS
  <2>1. fc \notin ReadCodes
    BY DEF ReadCodes, WriteOne
  <2>2. pdu = head \o (IF p.data = <<>> THEN <<0, 0>> ELSE SubSeq(p.data, 1, 2))
    BY <1>1, <1>3, <2>1, Zenon DEF RequestPdu
  <2> QED BY <1>1, <2>2
<1> HIDE DEF pdu
<1>8. /\ head \o qty \in Seq(Byte) /\ Len(head \o qty) = 5 /\ (head \o qty)[1] = fc
      /\ (head \o qty)[2] = High(m.reg_addr) /\ (head \o qty)[3] = Low(m.reg_addr)
      /\ (head \o qty)[4] = High(m.reg_count) /\ (head \o qty)[5] = Low(m.reg_count)
  <2>1. qty \in Seq(Byte) /\ Len(qty) = 2 /\ qty[1] = High(m.reg_count) /\ qty[2] = Low(m.reg_count)
    BY <1>2
  <2> HIDE DEF qty
  <2> QED BY <1>1, <1>2, <2>1, FiveBytes
<1>9. LET s == head \o <<0, 0>>
      IN  /\ s \in Seq(Byte) /\ Len(s) = 5 /\ s[1] = fc
          /\ s[2] = High(m.reg_addr) /\ s[3] = Low(m.reg_addr)
  <2> DEFINE z == <<0, 0>>
  <2>1. z \in Seq(Byte) /\ Len(z) = 2
    BY <1>2
  <2> HIDE DEF z
  <2>2. LET s == head \o z
        IN  /\ s \in Seq(Byte) /\ Len(s) = 5 /\ s[1] = fc
            /\ s[2] = High(m.reg_addr) /\ s[3] = Low(m.reg_addr)
    BY <1>1, <1>2, <2>1, FiveBytes
  <2> QED BY <2>2 DEF z
<1> HIDE DEF head, qty
<1>10. CASE fc \in ReadCodes
  BY <1>5, <1>6, <1>8, <1>10 DEF pdu, p
<1>11. CASE fc \in WriteOne
  <2>1. fc \notin ReadCodes
    BY <1>11 DEF ReadCodes, WriteOne
  <2> QED BY <1>5, <1>7, <1>9, <1>11, <2>1 DEF pdu, p
<1> QED BY <1>5, <1>10, <1>11

(* The frame of the request has eight bytes. *)
LEMMA SentShape ==
    ASSUME NEW m \in MasterRows, Sent(m) /= <<>>
    PROVE  LET pdu == RequestPdu(RequestFor(m))
           IN  /\ Sent(m) = Adu(RTU, 0, UnitOf(m), pdu)
               /\ Sent(m) \in Seq(Byte) /\ Len(Sent(m)) = 8 /\ validate(Sent(m))
               /\ Sent(m)[2] \in ReadCodes \cup WriteOne
               /\ egw_modbus_decode(RTU, Sent(m)) = [ok |-> TRUE, unit |-> UnitOf(m), pdu |-> pdu]
<1> DEFINE pdu == RequestPdu(RequestFor(m))
<1>1. /\ UnitOf(m) \in Byte /\ RequestFor(m).unit_id = UnitOf(m)
  BY RowType
<1>2. /\ pdu \in Seq(Byte) /\ Len(pdu) = 5 /\ pdu[1] = m.func_code
      /\ m.func_code \in ReadCodes \cup WriteOne
  BY RowPdu
<1>3. pdu /= <<>>
  <2>1. Len(pdu) = 5
    BY <1>2
  <2> HIDE DEF pdu
  <2> QED BY <2>1
<1>4. Sent(m) = Adu(RTU, 0, UnitOf(m), pdu)
  BY <1>1, <1>3 DEF Sent, EncodeRequest
<1> HIDE DEF pdu
<1> DEFINE f == Adu(RTU, 0, UnitOf(m), pdu)
<1>5. /\ f \in Seq(Byte) /\ Len(f) = Len(pdu) + 3 /\ validate(f)
      /\ f[1] = UnitOf(m) /\ \A i \in 1..Len(pdu) : f[i + 1] = pdu[i]
  <2>1. UnitOf(m) \in Byte /\ pdu \in Seq(Byte)
    BY <1>1, <1>2
  <2> QED BY <1>3, <2>1, AduShape
<1>6. Sent(m)[2] = m.func_code
  <2>1. 1 \in 1..Len(pdu) /\ 1 + 1 = 2
    BY <1>2
  <2> QED BY <1>2, <1>4, <1>5, <2>1
<1>7. egw_modbus_decode(RTU, Adu(RTU, 0, UnitOf(m), pdu))
         = [ok |-> TRUE, unit |-> UnitOf(m), pdu |-> pdu]
  BY <1>1, <1>2, <1>3, RtuRoundTrip
<1> QED BY <1>2, <1>4, <1>5, <1>6, <1>7 DEF pdu

(* The server understands it as the row meant it. *)
LEMMA SentParsed ==
    ASSUME NEW m \in MasterRows, Sent(m) /= <<>>
    PROVE  LET q == egw_modbus_parse_request(RequestPdu(RequestFor(m)), 0)
           IN  /\ q.ok /\ q.fc = m.func_code /\ q.addr = m.reg_addr
               /\ m.func_code \in ReadCodes => q.count = m.reg_count
<1> DEFINE pdu == RequestPdu(RequestFor(m))
           q == egw_modbus_parse_request(pdu, 0)
<1>1. /\ m.func_code \in ReadCodes \cup WriteOne
      /\ pdu \in Seq(Byte) /\ Len(pdu) = 5 /\ pdu[1] = m.func_code
      /\ pdu[2] = High(m.reg_addr) /\ pdu[3] = Low(m.reg_addr)
  BY RowPdu
<1>2. m.func_code \in ReadCodes => pdu[4] = High(m.reg_count) /\ pdu[5] = Low(m.reg_count)
  BY RowPdu
<1> HIDE DEF pdu
<1>3. /\ q.ok /\ q.fc = pdu[1] /\ q.addr = BE(pdu[2], pdu[3])
      /\ pdu[1] \in ReadCodes => q.count = BE(pdu[4], pdu[5])
  BY <1>1, ShortPduParsed
<1> HIDE DEF q
<1>4. m.reg_addr \in Word /\ m.reg_count \in Word
  BY RowType
<1>5. BE(High(m.reg_addr), Low(m.reg_addr)) = m.reg_addr
      /\ BE(High(m.reg_count), Low(m.reg_count)) = m.reg_count
  BY <1>4, HighLow
<1> QED BY <1>1, <1>2, <1>3, <1>5 DEF q, pdu

(* A part of the request is incomplete for the server, the whole of it a frame. *)
LEMMA SentDelimited ==
    ASSUME NEW m \in MasterRows, Sent(m) /= <<>>, NEW k \in 1..8
    PROVE  parse_and_check(SubSeq(Sent(m), 1, k))
             = IF k < 8 THEN [res |-> "NEED_MORE", len |-> 0]
                        ELSE [res |-> "FRAME_READY", len |-> 8]
<1> DEFINE f == Sent(m)
           b == SubSeq(f, 1, k)
<1>1. f \in Seq(Byte) /\ Len(f) = 8 /\ validate(f) /\ f[2] \in ReadCodes \cup WriteOne
  BY SentShape
<1> HIDE DEF f
<1>2. b \in Seq(Byte) /\ Len(b) = k /\ \A i \in 1..k : b[i] = f[i]
  <2>1. \A i \in 1..k : i \in 1..Len(f)
    BY <1>1
  <2>2. \A i \in 1..k : f[i] \in Byte
    BY <1>1, <2>1, ElementOfSeq
  <2>3. k \in Int /\ 1 <= k /\ k - 1 + 1 = k
    OBVIOUS
  <2>4. /\ b \in Seq(Byte) /\ Len(b) = k - 1 + 1
        /\ \A i \in 1..k - 1 + 1 : b[i] = f[1 + i - 1]
    BY <2>2, <2>3, SubSeqProperties
  <2> HIDE DEF b
  <2> QED BY <2>3, <2>4
<1>3. k = 8 => b = f
  BY <1>1, SubSeqFull
<1> HIDE DEF b
<1>4. CASE k < 4
  <2>1. Len(b) < MIN_FRAME
    BY <1>2, <1>4 DEF MIN_FRAME
  <2> DEFINE e == modbus_frame_len(b)
  <2>2. e \in Int
    BY <1>2, FrameLenRange
  <2>3. parse_and_check(b) = Delimit(b, e)
    BY DEF parse_and_check
  <2> HIDE DEF e
  <2>4. Delimit(b, e) = [res |-> "NEED_MORE", len |-> 0]
    BY <1>2, <2>1, <2>2 DEF Delimit, MIN_FRAME
  <2> QED BY <1>4, <2>3, <2>4 DEF b, f
<1>5. CASE k >= 4
  <2>1. ~(Len(b) < 2) /\ ~(Len(b) < MIN_FRAME) /\ Len(b) >= MIN_FRAME
    BY <1>2, <1>5 DEF MIN_FRAME
  <2>2. b[2] = f[2] /\ b[2] \in 1..6
    BY <1>1, <1>2, <1>5 DEF ReadCodes, WriteOne
  <2>3. modbus_frame_len(b) = 8
    <3>1. b[2] \in ReadCodes \cup WriteOne
      BY <1>1, <2>2
    <3>2. ~(b[2] >= 128) /\ b[2] \notin WriteMany
      BY <2>2 DEF WriteMany
    <3> QED BY <2>1, <3>1, <3>2, Zenon DEF modbus_frame_len
  <2>4. 8 /= NeedLength /\ 8 /= BadLength
    BY DEF NeedLength, BadLength
  <2>5. CASE k < 8
    <3>1. 8 >= 0 /\ Len(b) < 8
      BY <1>2, <2>5
    <3>2. Delimit(b, 8) = [res |-> "NEED_MORE", len |-> 0]
      BY <2>1, <2>4, <3>1 DEF Delimit
    <3> QED BY <2>3, <2>5, <3>2 DEF parse_and_check, b, f
  <2>6. CASE k = 8
    <3>1. SubSeq(b, 1, 8) = f
      BY <1>1, <1>3, <2>6, SubSeqFull
    <3>2. validate(SubSeq(b, 1, 8)) /\ ~(Len(b) < 8)
      <4>1. Len(b) = 8
        BY <1>2, <2>6
      <4>2. validate(SubSeq(b, 1, 8))
        BY <1>1, <3>1, Zenon
      <4> QED BY <4>1, <4>2
    <3>3. Delimit(b, 8) = [res |-> "FRAME_READY", len |-> 8]
      BY <2>1, <2>4, <3>2 DEF Delimit
    <3> QED BY <2>3, <2>6, <3>3 DEF parse_and_check, b, f
  <2> QED BY <1>5, <2>5, <2>6
<1> QED BY <1>4, <1>5

(* What slave_read_cb stores are words, as many as were asked for. *)
LEMMA StoredType ==
    ASSUME NEW m \in MasterRows
    PROVE  AnswerTo(m).regs \in Seq(Word) /\ Len(AnswerTo(m).regs) = m.reg_count
<1>1. m.reg_count \in Nat /\ m.reg_addr \in Nat
  BY RowType, WordIsNat
<1> DEFINE n == m.reg_count
           a == m.reg_addr
           unit == m.device_id % 256
<1>2. AnswerTo(m).regs = regs_out(unit, a, n)
  BY DEF AnswerTo
<1> HIDE DEF n, a, unit
<1>3. ASSUME NEW i \in 1..n
      PROVE  (IF Lookup(unit, a) = {} THEN 0 ELSE (10 + a + i - 1) % 65536) \in Word
  <2>1. (10 + a + i - 1) % 65536 \in Nat /\ (10 + a + i - 1) % 65536 <= 65535
    BY <1>1 DEF n, a
  <2> QED BY <2>1, WordRange
<1>4. regs_out(unit, a, n) \in [1..n -> Word]
  BY <1>3 DEF regs_out
<1>5. regs_out(unit, a, n) \in Seq(Word) /\ Len(regs_out(unit, a, n)) = n
  <2>1. n \in Nat
    BY <1>1 DEF n
  <2> QED BY <1>4, <2>1
<1> QED BY <1>2, <1>5 DEF n

(* The registers a response is built from are the first of those stored. *)
StoredFor(m) == [i \in 1..Wanted(m.func_code, m.reg_count) |-> AnswerTo(m).regs[i]]

(* They are words, between 1 and 125 of them, and no more than were stored. *)
LEMMA StoredForType ==
    ASSUME NEW m \in MasterRows, Answerable(m)
    PROVE  /\ StoredFor(m) \in Seq(Word) /\ Len(StoredFor(m)) = Wanted(m.func_code, m.reg_count)
           /\ Wanted(m.func_code, m.reg_count) \in Nat
           /\ Wanted(m.func_code, m.reg_count) >= 1
           /\ Wanted(m.func_code, m.reg_count) <= 125
           /\ Wanted(m.func_code, m.reg_count) <= m.reg_count
           /\ \A i \in 1..Len(StoredFor(m)) : StoredFor(m)[i] = AnswerTo(m).regs[i]
<1> DEFINE n == m.reg_count
           w == Wanted(m.func_code, n)
           rs == AnswerTo(m).regs
<1>1. n \in Nat /\ n >= 1 /\ n <= 256 /\ (m.func_code \notin {1, 2} => n <= 125)
  BY RowType, AnswerableCount
<1>2. w \in Nat /\ w >= 1 /\ w <= n /\ w <= 125
  <2>1. /\ (n + 7) \div 8 \in Nat /\ (n + 7) \div 8 >= 1 /\ (n + 7) \div 8 <= n
        /\ (n + 7) \div 8 <= 125
    BY <1>1
  <2> QED BY <1>1, <2>1 DEF Wanted
<1>3. rs \in Seq(Word) /\ Len(rs) = n
  BY StoredType
<1> HIDE DEF n, w, rs
<1>4. \A i \in 1..w : i \in 1..Len(rs)
  BY <1>1, <1>2, <1>3
<1>5. \A i \in 1..w : rs[i] \in Word
  BY <1>3, <1>4, ElementOfSeq
<1> DEFINE s == [i \in 1..w |-> rs[i]]
<1>6. s \in Seq(Word) /\ Len(s) = w /\ \A i \in 1..w : s[i] = rs[i]
  BY <1>2, <1>5
<1>7. StoredFor(m) = s
  BY DEF StoredFor, s, w, n, rs
<1> HIDE DEF s
<1> QED BY <1>1, <1>2, <1>6, <1>7 DEF w, n, rs

(* The data bytes of a response to a read. *)
LEMMA ReplyDataLength ==
    ASSUME NEW m \in MasterRows, Answerable(m)
    PROVE  LET data == ReadBytes(m.func_code, StoredFor(m))
           IN  data \in Seq(Byte) /\ Len(data) \in Nat /\ Len(data) <= 250
<1> DEFINE data == ReadBytes(m.func_code, StoredFor(m))
<1>1. StoredFor(m) \in Seq(Word) /\ Len(StoredFor(m)) <= 125
  BY StoredForType
<1>2. m.func_code \in {1, 2} => data \in Seq(Byte) /\ Len(data) = Len(StoredFor(m))
  BY <1>1, CoilBytes
<1>3. m.func_code \notin {1, 2} => data \in Seq(Byte) /\ Len(data) = 2 * Len(StoredFor(m))
  BY <1>1, RegisterBytes
<1>4. Len(StoredFor(m)) \in Nat
  BY <1>1
<1> HIDE DEF data
<1>5. data \in Seq(Byte) /\ Len(data) \in Nat /\ Len(data) <= 250
  BY <1>1, <1>2, <1>3, <1>4
<1> QED BY <1>5 DEF data

(* The response as a frame: the client infers its length from the first three bytes, and
   has room for its PDU. *)
LEMMA ReplyShape ==
    ASSUME NEW m \in MasterRows, Answerable(m), Sent(m) /= <<>>
    PROVE  LET f == Reply(m)
           IN  /\ ReplyPdu(m) \in Seq(Byte) /\ ReplyPdu(m) /= <<>> /\ Len(ReplyPdu(m)) <= 252
               /\ f \in Seq(Byte) /\ Len(f) >= 5 /\ validate(f) /\ resp_frame_len(f) = Len(f)
<1>1. UnitOf(m) \in Byte
  BY RowType
<1>2. m.func_code \in ReadCodes \cup WriteOne
  BY RowPdu
<1>3. CASE m.func_code \in ReadCodes
  <2> DEFINE data == ReadBytes(m.func_code, StoredFor(m))
             pdu == egw_modbus_build_read_resp_pdu(m.func_code, data)
             bc == ByteCount(data)
             f == Reply(m)
  <2>1. ReplyPdu(m) = pdu
    BY <1>3 DEF ReplyPdu, ReplyData, StoredFor
  <2>2. f = ReadResponse(UnitOf(m), m.func_code, data)
    BY <2>1 DEF Reply, ReadResponse
  <2>3. data \in Seq(Byte)
    BY StoredForType, CoilBytes, RegisterBytes
  <2>4. /\ f \in Seq(Byte) /\ Len(f) = 5 + bc /\ validate(f)
        /\ f[2] = m.func_code /\ f[3] = bc /\ bc \in Nat /\ bc \in Byte
    <3> DEFINE g == ReadResponse(UnitOf(m), m.func_code, data)
    <3> HIDE DEF data
    <3>1. /\ g \in Seq(Byte) /\ Len(g) = 5 + ByteCount(data) /\ validate(g)
          /\ g[1] = UnitOf(m) /\ g[2] = m.func_code /\ g[3] = ByteCount(data)
          /\ ByteCount(data) \in Nat /\ ByteCount(data) \in Byte
      <4> DEFINE u == UnitOf(m)
                 fc == m.func_code
      <4>1. u \in Byte /\ fc \in ReadCodes
        BY <1>1, <1>3
      <4> HIDE DEF u, fc
      <4>2. LET h == ReadResponse(u, fc, data)
                c == ByteCount(data)
            IN  /\ h \in Seq(Byte) /\ Len(h) = 5 + c /\ validate(h)
                /\ h[1] = u /\ h[2] = fc /\ h[3] = c
                /\ c \in Nat /\ c \in Byte
        BY <2>3, <4>1, ResponseFrame
      <4> QED BY <4>2, Zenon DEF u, fc
    <3> HIDE DEF g, f
    <3>2. f = g
      BY <2>2 DEF g
    <3> QED BY <3>1, <3>2
  <2>5. pdu \in Seq(Byte) /\ pdu /= <<>> /\ Len(pdu) <= 252
    <3>1. Len(data) \in Nat /\ Len(data) <= 250
      BY ReplyDataLength
    <3> DEFINE c == Len(data) % 256
               tail == SubSeq(data, 1, c)
               head == <<m.func_code, c>>
    <3>2. c \in Byte /\ m.func_code \in Byte /\ c \in Nat /\ c <= Len(data)
      <4>1. c = bc
        BY DEF ByteCount
      <4>2. m.func_code \in Byte
        BY RowType
      <4>3. c \in Nat /\ c <= Len(data)
        <5> HIDE DEF data
        <5> QED BY <3>1
      <4> HIDE DEF c, bc
      <4> QED BY <2>4, <4>1, <4>2, <4>3
    <3>3. tail \in Seq(Byte)
      <4> HIDE DEF data, c
      <4>1. \A i \in 1..c : i \in 1..Len(data)
        BY <3>1, <3>2
      <4>2. \A i \in 1..c : data[i] \in Byte
        BY <2>3, <4>1, ElementOfSeq
      <4> QED BY <3>2, <4>2, SubSeqProperties
    <3>4. pdu = head \o tail
      BY DEF egw_modbus_build_read_resp_pdu
    <3>5. head \in Seq(Byte) /\ Len(head) = 2
      <4> HIDE DEF c
      <4> QED BY <3>2
    <3> HIDE DEF head, tail, pdu
    <3>6. pdu \in Seq(Byte) /\ Len(pdu) = 2 + Len(tail) /\ Len(tail) \in Nat
      <4>1. /\ head \o tail \in Seq(Byte)
            /\ Len(head \o tail) = Len(head) + Len(tail)
        BY <3>3, <3>5, ConcatProperties
      <4>2. Len(tail) \in Nat
        BY <3>3
      <4> QED BY <3>4, <3>5, <4>1, <4>2
    <3>7. Len(pdu) /= 0
      BY <3>6
    <3>8. Len(tail) <= Len(data)
      <4>1. Len(tail) = c
        <5> HIDE DEF data, c
        <5>1. \A i \in 1..c : i \in 1..Len(data)
          BY <3>1, <3>2
        <5>2. \A i \in 1..c : data[i] \in Byte
          BY <2>3, <5>1, ElementOfSeq
        <5>3. Len(SubSeq(data, 1, c)) = IF 1 <= c THEN c - 1 + 1 ELSE 0
          BY <3>2, <5>2, SubSeqProperties
        <5> QED BY <3>2, <5>3 DEF tail
      <4> QED BY <3>2, <4>1
    <3> HIDE DEF data
    <3> QED BY <3>1, <3>6, <3>7, <3>8
  <2> HIDE DEF f, pdu, bc, data
  <2>6. resp_frame_len(f) = 5 + bc
    <3>1. Len(f) >= 3 /\ f[2] \in ReadCodes
      BY <1>3, <2>4
    <3> QED BY <2>4, <3>1, ReadFrameLen
  <2> QED BY <2>1, <2>4, <2>5, <2>6 DEF f
<1>4. CASE m.func_code \in WriteOne
  <2> DEFINE pdu == RequestPdu(RequestFor(m))
             f == Adu(RTU, 0, UnitOf(m), pdu)
  <2>1. m.func_code \notin ReadCodes
    BY <1>4 DEF ReadCodes, WriteOne
  <2>2. ReplyPdu(m) = pdu /\ Reply(m) = Sent(m)
    BY <2>1, SentShape DEF ReplyPdu, Reply
  <2>3. pdu \in Seq(Byte) /\ Len(pdu) = 5 /\ pdu[1] = m.func_code
    BY RowPdu
  <2>4. pdu /= <<>>
    <3>1. Len(pdu) = 5
      BY <2>3
    <3> HIDE DEF pdu
    <3> QED BY <3>1
  <2> HIDE DEF pdu
  <2>5. f \in Seq(Byte) /\ Len(f) = 8 /\ validate(f) /\ f[2] = m.func_code
    <3>1. /\ f \in Seq(Byte) /\ Len(f) = Len(pdu) + 3 /\ validate(f)
          /\ \A i \in 1..Len(pdu) : f[i + 1] = pdu[i]
      <4>1. pdu \in Seq(Byte)
        BY <2>3
      <4> QED BY <1>1, <2>4, <4>1, AduShape
    <3>2. 1 \in 1..Len(pdu) /\ 1 + 1 = 2
      BY <2>3
    <3> HIDE DEF f
    <3> QED BY <2>3, <3>1, <3>2
  <2>6. Reply(m) = f
    BY <2>2 DEF Reply
  <2> HIDE DEF f
  <2>7. resp_frame_len(f) = 8
    <3>1. f[2] \in 5..6
      BY <1>4, <2>5 DEF WriteOne
    <3>2. ~(Len(f) < 2) /\ ~(f[2] >= 128) /\ f[2] \notin ReadCodes
          /\ f[2] \in WriteOne \cup WriteMany
      BY <1>4, <2>5, <3>1 DEF ReadCodes
    <3> QED BY <3>2, Zenon DEF resp_frame_len
  <2>8. f \in Seq(Byte) /\ Len(f) >= 5 /\ validate(f) /\ resp_frame_len(f) = Len(f)
    BY <2>5, <2>7
  <2>9. ReplyPdu(m) \in Seq(Byte) /\ ReplyPdu(m) /= <<>> /\ Len(ReplyPdu(m)) <= 252
    BY <2>2, <2>3, <2>4
  <2> QED BY <2>6, <2>8, <2>9
<1> QED BY <1>2, <1>3, <1>4

(* A part of the response is incomplete for the client, the whole of it a frame. *)
LEMMA ReplyDelimited ==
    ASSUME NEW m \in MasterRows, Answerable(m), Sent(m) /= <<>>, NEW k \in 1..Len(Reply(m))
    PROVE  resp_parse(SubSeq(Reply(m), 1, k))
             = IF k < Len(Reply(m)) THEN [res |-> "NEED_MORE", len |-> 0]
                                    ELSE [res |-> "FRAME_READY", len |-> Len(Reply(m))]
<1> DEFINE f == Reply(m)
           n == Len(f)
           b == SubSeq(f, 1, k)
<1>1. f \in Seq(Byte) /\ n \in Nat /\ n >= 5 /\ validate(f) /\ resp_frame_len(f) = n
  BY ReplyShape
<1> HIDE DEF f
<1>2. b \in Seq(Byte) /\ Len(b) = k /\ \A i \in 1..k : b[i] = f[i]
  <2>1. \A i \in 1..k : i \in 1..Len(f)
    BY <1>1 DEF f
  <2>2. \A i \in 1..k : f[i] \in Byte
    BY <1>1, <2>1, ElementOfSeq
  <2>3. k \in Int /\ 1 <= k /\ k - 1 + 1 = k
    BY <1>1 DEF f
  <2>4. /\ b \in Seq(Byte) /\ Len(b) = k - 1 + 1
        /\ \A i \in 1..k - 1 + 1 : b[i] = f[1 + i - 1]
    BY <2>2, <2>3, SubSeqProperties
  <2> HIDE DEF b
  <2> QED BY <2>3, <2>4
<1>0. k \in Nat /\ k >= 1 /\ k <= n
  BY <1>1 DEF f
<1>3. CASE k = n
  <2>1. b = f
    BY <1>1, <1>3, SubSeqFull
  <2>2. resp_parse(f) = [res |-> "FRAME_READY", len |-> n]
    <3>1. Len(f) >= 4 /\ resp_frame_len(f) = Len(f)
      BY <1>1
    <3> QED BY <1>1, <3>1, WholeResponse
  <2>3. ~(k < n)
    BY <1>0, <1>3
  <2> HIDE DEF b
  <2> QED BY <2>1, <2>2, <2>3 DEF b, f
<1>4. CASE k < n
  <2> DEFINE e == resp_frame_len(b)
  <2> HIDE DEF b
  <2>1. e \in Int
    BY <1>2, RespLenRange
  <2>2. resp_parse(b) = Delimit(b, e)
    BY DEF resp_parse
  <2>3. Len(b) >= 4 => e = n
    <3> SUFFICES ASSUME Len(b) >= 4 PROVE e = n
      OBVIOUS
    <3>1. 2 \in 1..k /\ 3 \in 1..k /\ Len(b) >= 3 /\ Len(f) >= 3
      BY <1>0, <1>1, <1>2
    <3>2. b[2] = f[2] /\ b[3] = f[3]
      BY <1>2, <3>1
    <3> QED BY <1>1, <1>2, <3>1, <3>2, RespLenPrefix
  <2> HIDE DEF e
  <2>4. Delimit(b, e) = [res |-> "NEED_MORE", len |-> 0]
    <3>1. CASE Len(b) < 4
      BY <1>2, <2>1, <3>1 DEF Delimit, MIN_FRAME
    <3>2. CASE Len(b) >= 4
      <4>1. e = n /\ Len(b) < n /\ n >= 0 /\ n /= NeedLength /\ n /= BadLength
        BY <1>1, <1>2, <1>4, <2>3, <3>2 DEF NeedLength, BadLength
      <4> HIDE DEF n
      <4> QED BY <1>1, <1>2, <3>2, <4>1 DEF Delimit, MIN_FRAME
    <3> QED BY <1>0, <1>2, <3>1, <3>2
  <2> QED BY <1>4, <2>2, <2>4 DEF b, f
<1> QED BY <1>0, <1>3, <1>4

(* The response carries what the master should report. *)
LEMMA ServedIsStored ==
    ASSUME NEW m \in MasterRows, Answerable(m), m.func_code \in ReadCodes
    PROVE  ServedOf(m.func_code, StoredFor(m)) = Served(m)
<1> DEFINE fc == m.func_code
           rs == AnswerTo(m).regs
           st == StoredFor(m)
           w == Wanted(fc, m.reg_count)
<1>1. /\ st \in Seq(Word) /\ Len(st) = w /\ w \in Nat
      /\ \A i \in 1..Len(st) : st[i] = rs[i]
  BY StoredForType
<1>2. CASE fc \in {1, 2}
  <2>1. w = (m.reg_count + 7) \div 8
    BY <1>2 DEF Wanted
  <2>2. ServedOf(fc, st) = [i \in 1..Len(st) |-> Low(st[i])]
    BY <1>2, Zenon DEF ServedOf
  <2>3. Served(m) = [i \in 1..w |-> Low(rs[i])]
    BY <1>2, <2>1, Zenon DEF Served
  <2> HIDE DEF st, rs, w
  <2>4. [i \in 1..Len(st) |-> Low(st[i])] = [i \in 1..w |-> Low(rs[i])]
    BY <1>1
  <2> QED BY <2>2, <2>3, <2>4 DEF st
<1>3. CASE fc \notin {1, 2}
  <2>1. w = m.reg_count
    BY <1>3 DEF Wanted
  <2>2. rs \in Seq(Word) /\ Len(rs) = m.reg_count
    BY StoredType
  <2>3. st = rs
    <3> HIDE DEF st, rs, w
    <3> QED BY <1>1, <2>1, <2>2, SeqEqual
  <2>4. ServedOf(fc, st) = st
    BY <1>3, Zenon DEF ServedOf
  <2>5. Served(m) = rs
    BY <1>3, Zenon DEF Served
  <2> QED BY <2>3, <2>4, <2>5
<1> QED BY <1>2, <1>3

(* Of the response the client reports the registers served, or an error to a write. *)
LEMMA ReplyReported ==
    ASSUME NEW m \in MasterRows, Answerable(m), Sent(m) /= <<>>
    PROVE  LET r == Client!ResultOf(Reply(m), RequestFor(m))
           IN  ~(r.reg_count < 0) => m.func_code \in ReadCodes /\ r.regs = Served(m)
<1> DEFINE fc == m.func_code
           pdu == ReplyPdu(m)
           data == ReadBytes(fc, StoredFor(m))
           bc == ByteCount(data)
           got == Parsed(pdu, fc)
           r == Client!ResultOf(Reply(m), RequestFor(m))
<1>1. /\ UnitOf(m) \in Byte /\ fc \in Byte /\ RequestFor(m).funccode = fc
      /\ RequestFor(m).unit_id = UnitOf(m)
  BY RowType
<1>2. pdu \in Seq(Byte) /\ pdu /= <<>>
  BY ReplyShape
<1>3. egw_modbus_decode(RTU, Reply(m)) = [ok |-> TRUE, unit |-> UnitOf(m), pdu |-> pdu]
  <2> HIDE DEF pdu
  <2>1. egw_modbus_decode(RTU, Adu(RTU, 0, UnitOf(m), pdu))
          = [ok |-> TRUE, unit |-> UnitOf(m), pdu |-> pdu]
    BY <1>1, <1>2, RtuRoundTrip
  <2> QED BY <2>1 DEF Reply, pdu
<1>4. ~(r.reg_count < 0) => got.rc >= 0 /\ r.regs = got.regs
  <2> DEFINE p == RequestFor(m)
             d == egw_modbus_decode(RTU, Reply(m))
             failed == [unit_id |-> p.unit_id, addr |-> p.addr, reg_count |-> -1, regs |-> <<>>]
  <2>1. d.ok /\ d.unit = p.unit_id /\ d.pdu = pdu
    BY <1>1, <1>3
  <2>2. Client!egw_modbus_decode(RTU, Reply(m)) = d
    BY ClientCodec
  <2>3. Client!egw_modbus_parse_read_pdu(d.pdu, p.funccode, 128) = got
    BY <1>1, <2>1, ClientCodec DEF Parsed
  <2> HIDE DEF d, p, got, pdu
  <2>4. r = IF d.ok /\ d.unit = p.unit_id /\ got.rc >= 0
            THEN [failed EXCEPT !.reg_count = got.rc, !.regs = got.regs]
            ELSE failed
    BY <2>2, <2>3, Zenon DEF Client!ResultOf, p
  <2> HIDE DEF r
  <2>5. CASE got.rc >= 0
    <3>1. r = [failed EXCEPT !.reg_count = got.rc, !.regs = got.regs]
      BY <2>1, <2>4, <2>5
    <3> QED BY <2>5, <3>1
  <2>6. CASE ~(got.rc >= 0)
    <3>1. r = failed
      BY <2>4, <2>6
    <3> QED BY <3>1
  <2> QED BY <2>5, <2>6
<1>5. CASE fc \in ReadCodes
  <2>1. pdu = egw_modbus_build_read_resp_pdu(fc, data)
    BY <1>5 DEF ReplyPdu, ReplyData, StoredFor
  <2>2. StoredFor(m) \in Seq(Word) /\ Len(StoredFor(m)) <= 125
    BY StoredForType
  <2>3. data \in Seq(Byte) /\ Len(data) \in Nat /\ Len(data) <= 250
    BY ReplyDataLength
  <2>4. Carries(pdu, fc, bc, data) /\ bc \in Nat
    <3> HIDE DEF data
    <3>1. bc = Len(data)
      BY <2>3 DEF ByteCount
    <3>2. SubSeq(data, 1, Len(data) % 256) = data
      <4>1. Len(data) % 256 = Len(data)
        BY <2>3
      <4> QED BY <2>3, <4>1, SubSeqFull
    <3> DEFINE head == <<fc, bc>>
    <3>3. pdu = head \o data
      BY <2>1, <3>2 DEF egw_modbus_build_read_resp_pdu, ByteCount
    <3> HIDE DEF bc, pdu
    <3>4. bc \in Byte
      BY <2>3, <3>1, ByteIff
    <3>5. head \in Seq(Byte) /\ Len(head) = 2 /\ head[1] = fc /\ head[2] = bc
      BY <1>1, <3>4
    <3> HIDE DEF head
    <3>6. /\ Len(head \o data) = Len(head) + Len(data)
          /\ \A i \in 1..Len(head) + Len(data) :
                (head \o data)[i] = IF i <= Len(head) THEN head[i] ELSE data[i - Len(head)]
      BY <2>3, <3>5, ConcatProperties
    <3>7. Len(pdu) = 2 + bc /\ pdu[1] = fc /\ pdu[2] = bc
      BY <2>3, <3>1, <3>3, <3>5, <3>6
    <3>8. \A i \in 1..bc : pdu[2 + i] = data[i]
      BY <2>3, <3>1, <3>3, <3>5, <3>6
    <3> QED BY <2>3, <3>1, <3>7, <3>8 DEF Carries
  <2>5. got.rc >= 0 => got.regs = ServedOf(fc, StoredFor(m))
    <3>1. Len(ServedOf(fc, StoredFor(m))) <= 127
      <4>1. CASE fc \in {1, 2}
        <5>1. ServedOf(fc, StoredFor(m)) = data /\ Len(data) = Len(StoredFor(m))
          BY <2>2, <4>1, CoilBytes DEF ServedOf
        <5>2. Len(StoredFor(m)) \in Nat
          BY <2>2
        <5> HIDE DEF data
        <5> QED BY <2>2, <5>1, <5>2
      <4>2. CASE fc \notin {1, 2}
        <5>1. ServedOf(fc, StoredFor(m)) = StoredFor(m)
          BY <4>2, Zenon DEF ServedOf
        <5>2. Len(StoredFor(m)) \in Nat
          BY <2>2
        <5> QED BY <2>2, <5>1, <5>2
      <4> QED BY <4>1, <4>2
    <3> HIDE DEF got, pdu, bc
    <3>2. Carries(pdu, fc, bc, ReadBytes(fc, StoredFor(m)))
      BY <2>4
    <3>3. bc = ByteCount(ReadBytes(fc, StoredFor(m)))
      BY DEF bc
    <3> QED BY <1>2, <1>5, <2>2, <2>4, <3>1, <3>2, <3>3, ReadReported DEF got
  <2> HIDE DEF r, got
  <2> QED BY <1>4, <1>5, <2>5, ServedIsStored DEF r
<1>6. CASE fc \notin ReadCodes
  <2>1. pdu[1] \in Int /\ pdu[2] \in Int /\ pdu[2] >= 0
    <3>1. pdu = RequestPdu(RequestFor(m))
      BY <1>6 DEF ReplyPdu
    <3>2. Len(pdu) = 5
      BY <3>1, RowPdu
    <3> HIDE DEF pdu
    <3>3. 1 \in 1..Len(pdu) /\ 2 \in 1..Len(pdu)
      BY <3>2
    <3>4. pdu[1] \in Byte /\ pdu[2] \in Byte
      BY <1>2, <3>3, ElementOfSeq
    <3> QED BY <3>4, ByteRange
  <2>2. ~(got.rc >= 0)
    <3> HIDE DEF pdu
    <3> QED BY <1>6, <2>1, NoResult
  <2> HIDE DEF r, got
  <2> QED BY <1>4, <2>2 DEF r
<1> QED BY <1>5, <1>6

(* The client has room for its PDU. *)
LEMMA ReplyFits ==
    ASSUME NEW m \in MasterRows, Answerable(m), Sent(m) /= <<>>
    PROVE  Client!FitsPdu(Reply(m))
<1> DEFINE pdu == ReplyPdu(m)
<1>1. pdu \in Seq(Byte) /\ pdu /= <<>> /\ Len(pdu) <= 252
  BY ReplyShape
<1>2. UnitOf(m) \in Byte
  BY RowType
<1> HIDE DEF pdu
<1>3. egw_modbus_decode(RTU, Adu(RTU, 0, UnitOf(m), pdu)).pdu = pdu
  BY <1>1, <1>2, RtuRoundTrip
<1>4. Client!egw_modbus_decode(RTU, Reply(m)).pdu = pdu
  BY <1>3, ClientCodec DEF Reply, pdu
<1>5. Len(pdu) <= MaxPdu
  BY <1>1, LoopbackAssumption
<1> QED BY <1>4, <1>5 DEF Client!FitsPdu

-------------------------------------------------------------------------------
(* The inductive invariant. *)

(* No byte was lost, and writes are complete or nothing went wrong. *)
Clean == lost = 0 /\ (ShortWrites => ~fault)

Typed == m0 \in MasterRows /\ lost \in Nat /\ rx_count \in Nat /\ Slot \in DOMAIN req

(* The values before a row takes one. *)
Untouched == [i \in 1..Len(SlaveRows) |-> 0]

(* Before the handles are initialised, and for ever when that fails, nothing has moved. *)
NotStarted ==
    handles = {} =>
        /\ app \in {"setup", "send", "cleanup", "crashed"}
        /\ phase = "SERVER_RECV" /\ report = NULL /\ handed = <<>> /\ value = Untouched
        /\ rd = 0 /\ wr = 0 /\ resp = <<>> /\ ~sending
        /\ recv = <<>> /\ down = <<>> /\ ~seg_pending
        /\ app = "send" => req[Slot] = RequestFor(m0) /\ Sent(m0) /= <<>>

(* The value of the row that was read, and what was handed over with it. *)
Kept ==
    LET unit  == UnitOf(m0)
        rows  == Lookup(unit, m0.reg_addr)
        first == answer.regs[1]
    IN  m0.func_code \in ReadCodes =>
            /\ rows = {} => handed = <<>>
            /\ rows /= {} => /\ \E i \in rows : OnlyTaken(i, first)
                             /\ handed = <<[unit |-> unit, addr |-> m0.reg_addr, value |-> first]>>

(* The first k elements of f are at the start of the ring b. *)
InRing(b, f, k) == \A i \in 1..k : b[i - 1] = f[i]

(* The request is on its way: a part of it is in the slave's ring, the rest on the line. *)
Asking ==
    /\ wr \in 0..7 /\ rd = 0 /\ up = SubSeq(Sent(m0), wr + 1, 8)
    /\ InRing(buf, Sent(m0), wr)
    /\ resp = <<>> /\ ~sending /\ ~seg_pending
    /\ recv = <<>> /\ down = <<>> /\ handed = <<>> /\ value = Untouched
    /\ "cli_poll" \notin polls /\ phase = "SERVER_RECV"

(* Half of the response is on the line, and the server has nothing else to do. *)
Answering ==
    /\ "srv_poll" \notin polls /\ wr \in Nat /\ rd = wr
    /\ resp = Reply(m0) /\ seg_pending
    /\ recv = <<>> /\ down = FirstHalf(Reply(m0))
    /\ Kept /\ phase = "SERVER_RECV"

(* All of the response is on the line or with the master, who reports it once it has
   all of it. *)
Answered ==
    /\ "srv_poll" \notin polls /\ ~seg_pending /\ Kept
    /\ \E k \in 0..Len(Reply(m0)) :
          /\ recv = SubSeq(Reply(m0), 1, k)
          /\ down = SubSeq(Reply(m0), k + 1, Len(Reply(m0)))
          /\ IF k < Len(Reply(m0)) THEN phase = "SERVER_RECV"
             ELSE /\ report = Client!ResultOf(Reply(m0), RequestFor(m0))
                  /\ phase = "DONE" => ~(report.reg_count < 0)

(* The slave stays silent. *)
Unanswered == up = <<>> /\ down = <<>> /\ phase = "SERVER_RECV"

Underway == Asking \/ Answering \/ Answered \/ Unanswered

Started ==
    handles /= {} =>
        /\ app \notin {"setup", "send", "crashed"}
        /\ current = Slot /\ req[Slot] = RequestFor(m0) /\ Sent(m0) /= <<>>
        /\ Clean /\ Answerable(m0) => Underway

IInv == Typed /\ NotStarted /\ Started

-------------------------------------------------------------------------------
(* Sequences on the line. *)

(* What is taken from the front of the line joins what was taken before. *)
LEMMA TakeMore ==
    ASSUME NEW f \in Seq(Byte), NEW e \in Nat, e <= Len(f), NEW k \in 0..e, NEW n \in 1..(e - k)
    PROVE  LET rest == SubSeq(f, k + 1, e)
           IN  /\ Len(rest) = e - k
               /\ SubSeq(rest, 1, n) \in Seq(Byte) /\ Len(SubSeq(rest, 1, n)) = n
               /\ \A i \in 1..n : SubSeq(rest, 1, n)[i] = f[k + i]
               /\ SubSeq(f, 1, k) \o SubSeq(rest, 1, n) = SubSeq(f, 1, k + n)
               /\ SubSeq(rest, n + 1, Len(rest)) = SubSeq(f, k + n + 1, e)
<1> DEFINE rest == SubSeq(f, k + 1, e)
           front == SubSeq(rest, 1, n)
           back == SubSeq(rest, n + 1, Len(rest))
<1>0. k \in Nat /\ n \in Nat /\ n >= 1 /\ k + n <= e
  OBVIOUS
<1>1. rest \in Seq(Byte) /\ Len(rest) = e - k /\ \A i \in 1..e - k : rest[i] = f[k + i]
  <2>1. \A i \in k + 1..e : i \in 1..Len(f)
    BY <1>0
  <2>2. \A i \in k + 1..e : f[i] \in Byte
    BY <2>1, ElementOfSeq
  <2>3. /\ rest \in Seq(Byte) /\ Len(rest) = IF k + 1 <= e THEN e - (k + 1) + 1 ELSE 0
        /\ \A i \in 1..e - (k + 1) + 1 : rest[i] = f[(k + 1) + i - 1]
    BY <1>0, <2>2, SubSeqProperties
  <2> HIDE DEF rest
  <2> QED BY <1>0, <2>3
<1> HIDE DEF rest
<1>2. front \in Seq(Byte) /\ Len(front) = n /\ \A i \in 1..n : front[i] = f[k + i]
  <2>1. \A i \in 1..n : i \in 1..Len(rest)
    BY <1>0, <1>1
  <2>2. \A i \in 1..n : rest[i] \in Byte
    BY <1>1, <2>1, ElementOfSeq
  <2>3. /\ front \in Seq(Byte) /\ Len(front) = IF 1 <= n THEN n - 1 + 1 ELSE 0
        /\ \A i \in 1..n - 1 + 1 : front[i] = rest[1 + i - 1]
    BY <1>0, <2>2, SubSeqProperties
  <2> HIDE DEF front
  <2> QED BY <1>0, <1>1, <2>3
<1>3. back \in Seq(Byte) /\ Len(back) = e - k - n /\ \A i \in 1..e - k - n : back[i] = f[k + n + i]
  <2>1. \A i \in n + 1..Len(rest) : i \in 1..Len(rest)
    BY <1>0, <1>1
  <2>2. \A i \in n + 1..Len(rest) : rest[i] \in Byte
    BY <1>1, <2>1, ElementOfSeq
  <2>3. /\ back \in Seq(Byte)
        /\ Len(back) = IF n + 1 <= Len(rest) THEN Len(rest) - (n + 1) + 1 ELSE 0
        /\ \A i \in 1..Len(rest) - (n + 1) + 1 : back[i] = rest[(n + 1) + i - 1]
    BY <1>0, <1>1, <2>2, SubSeqProperties
  <2> HIDE DEF back
  <2>4. Len(back) = e - k - n
    <3>1. Len(rest) = e - k /\ Len(back) = IF n + 1 <= Len(rest) THEN Len(rest) - (n + 1) + 1
                                                                ELSE 0
      BY <1>1, <2>3
    <3>2. Len(back) = IF n + 1 <= e - k THEN (e - k) - (n + 1) + 1 ELSE 0
      BY <3>1
    <3> QED BY <1>0, <3>2
  <2>5. ASSUME NEW i \in 1..e - k - n PROVE back[i] = f[k + n + i]
    <3>1. /\ (n + 1) + i - 1 = n + i /\ k + (n + i) = k + n + i /\ n + i \in 1..e - k
          /\ i \in 1..Len(rest) - (n + 1) + 1
      BY <1>0, <1>1
    <3>2. back[i] = rest[n + i]
      BY <2>3, <3>1
    <3>3. rest[n + i] = f[k + (n + i)]
      BY <1>1, <3>1
    <3> QED BY <3>1, <3>2, <3>3
  <2> QED BY <2>3, <2>4, <2>5
<1> HIDE DEF front, back
<1>4. SubSeq(f, 1, k) \o front = SubSeq(f, 1, k + n)
  <2> DEFINE a == SubSeq(f, 1, k)
             b == SubSeq(f, 1, k + n)
  <2>1. \A i \in 1..k + n : i \in 1..Len(f)
    BY <1>0
  <2>2. \A i \in 1..k + n : f[i] \in Byte
    BY <2>1, ElementOfSeq
  <2>3. a \in Seq(Byte) /\ Len(a) = k /\ \A i \in 1..k : a[i] = f[i]
    <3>1. \A i \in 1..k : f[i] \in Byte
      BY <1>0, <2>2
    <3>2. /\ a \in Seq(Byte) /\ Len(a) = IF 1 <= k THEN k - 1 + 1 ELSE 0
          /\ \A i \in 1..k - 1 + 1 : a[i] = f[1 + i - 1]
      BY <1>0, <3>1, SubSeqProperties
    <3> HIDE DEF a
    <3> QED BY <1>0, <3>2
  <2>4. b \in Seq(Byte) /\ Len(b) = k + n /\ \A i \in 1..k + n : b[i] = f[i]
    <3>1. /\ b \in Seq(Byte) /\ Len(b) = IF 1 <= k + n THEN k + n - 1 + 1 ELSE 0
          /\ \A i \in 1..k + n - 1 + 1 : b[i] = f[1 + i - 1]
      BY <1>0, <2>2, SubSeqProperties
    <3> HIDE DEF b
    <3> QED BY <1>0, <3>1
  <2> HIDE DEF a, b
  <2>5. /\ a \o front \in Seq(Byte) /\ Len(a \o front) = Len(a) + Len(front)
        /\ \A i \in 1..Len(a) + Len(front) :
              (a \o front)[i] = IF i <= Len(a) THEN a[i] ELSE front[i - Len(a)]
    BY <1>2, <2>3, ConcatProperties
  <2>6. \A i \in 1..k + n : (a \o front)[i] = b[i]
    <3> SUFFICES ASSUME NEW i \in 1..k + n PROVE (a \o front)[i] = b[i]
      OBVIOUS
    <3>1. i \in Nat /\ i >= 1 /\ i <= k + n /\ i \in 1..Len(a) + Len(front) /\ b[i] = f[i]
      BY <1>0, <1>2, <2>3, <2>4
    <3>2. CASE i <= k
      <4>1. (a \o front)[i] = a[i] /\ i \in 1..k
        BY <2>3, <2>5, <3>1, <3>2
      <4> QED BY <2>3, <3>1, <4>1
    <3>3. CASE ~(i <= k)
      <4>1. (a \o front)[i] = front[i - k] /\ i - k \in 1..n /\ k + (i - k) = i
        BY <1>0, <2>3, <2>5, <3>1, <3>3
      <4> QED BY <1>2, <3>1, <4>1
    <3> QED BY <3>2, <3>3
  <2>7. a \o front = b
    BY <1>2, <2>3, <2>4, <2>5, <2>6, SeqEqual
  <2> QED BY <2>7 DEF a, b
<1>5. back = SubSeq(f, k + n + 1, e)
  <2> DEFINE b == SubSeq(f, k + n + 1, e)
  <2>1. \A i \in k + n + 1..e : i \in 1..Len(f)
    BY <1>0
  <2>2. \A i \in k + n + 1..e : f[i] \in Byte
    BY <2>1, ElementOfSeq
  <2>3. /\ b \in Seq(Byte) /\ Len(b) = IF k + n + 1 <= e THEN e - (k + n + 1) + 1 ELSE 0
        /\ \A i \in 1..e - (k + n + 1) + 1 : b[i] = f[(k + n + 1) + i - 1]
    BY <1>0, <2>2, SubSeqProperties
  <2> HIDE DEF b
  <2>4. Len(b) = e - k - n /\ \A i \in 1..e - k - n : b[i] = f[k + n + i]
    <3>1. Len(b) = e - k - n
      BY <1>0, <2>3
    <3>2. ASSUME NEW i \in 1..e - k - n PROVE b[i] = f[k + n + i]
      <4>1. (k + n + 1) + i - 1 = k + n + i /\ i \in 1..e - (k + n + 1) + 1
        BY <1>0
      <4> QED BY <2>3, <4>1
    <3> QED BY <3>1, <3>2
  <2>5. back = b
    BY <1>3, <2>3, <2>4, SeqEqual
  <2> QED BY <2>5 DEF b
<1> QED BY <1>1, <1>2, <1>4, <1>5 DEF rest, front, back

(* The two halves of the line joined. *)
LEMMA JoinRest ==
    ASSUME NEW f \in Seq(Byte), NEW a \in Nat, NEW h \in Nat, a <= h, h <= Len(f)
    PROVE  SubSeq(f, a + 1, h) \o SubSeq(f, h + 1, Len(f)) = SubSeq(f, a + 1, Len(f))
<1>1. a + 1 \in 1..Len(f) + 1 /\ h \in (a + 1) - 1..Len(f) /\ Len(f) \in h..Len(f)
  OBVIOUS
<1> QED BY <1>1, ConcatAdjacentSubSeq

-------------------------------------------------------------------------------
(* The slave. *)

(* The n elements of f after the first k. *)
PieceOf(data, f, k, n) ==
    data \in Seq(Byte) /\ Len(data) = n /\ \A i \in 1..n : data[i] = f[k + i]

(* The ring, after n more bytes of the request, holds the first wr + n of them. *)
LEMMA RingFront ==
    ASSUME NEW f \in Seq(Byte), Len(f) = 8, NEW b, NEW k \in Nat, NEW n \in Nat, n >= 1,
           k + n <= 8, InRing(b, f, k), NEW data, PieceOf(data, f, k, n)
    PROVE  LET w  == (k + n) % MaxFrame
               b2 == Server!Store(b, k, data)
           IN  /\ w = k + n
               /\ InRing(b2, f, k + n)
               /\ Server!buf_used(0, w) = k + n /\ Server!buf_used(0, w) > 0
               /\ Server!ring_copy(b2, 0, Server!Window(0, w)) = SubSeq(f, 1, k + n)
<1> DEFINE b2 == Server!Store(b, k, data)
           w == (k + n) % MaxFrame
<1>0. /\ k \in Nat /\ n \in Nat /\ n >= 1 /\ k + n <= 8
      /\ \A i \in 1..k : b[i - 1] = f[i]
      /\ data \in Seq(Byte) /\ Len(data) = n /\ \A i \in 1..n : data[i] = f[k + i]
  BY DEF InRing, PieceOf
<1>1. MaxFrame \in Nat /\ MaxFrame > 8
  BY LoopbackAssumption
<1>2. w = k + n
  <2> DEFINE x == k + n
  <2>1. x \in Nat /\ x < MaxFrame /\ MaxFrame \in Nat \ {0}
    BY <1>0, <1>1
  <2> HIDE DEF x
  <2>2. x % MaxFrame = x
    BY <2>1, ModSmall
  <2> QED BY <2>2 DEF x
<1>3. ASSUME NEW i \in 1..k + n PROVE b2[i - 1] = f[i]
  <2> DEFINE d == ((i - 1) - k + MaxFrame) % MaxFrame
  <2>1. i - 1 \in 0..MaxFrame - 1
    BY <1>0, <1>1
  <2>2. b2[i - 1] = IF d < Len(data) THEN data[d + 1] ELSE b[i - 1]
    BY <2>1 DEF Server!Store, Server!Positions
  <2>3. CASE i <= k
    <3>1. d = (i - 1) - k + MaxFrame
      <4> DEFINE x == (i - 1) - k + MaxFrame
      <4>1. x \in Nat /\ x < MaxFrame /\ MaxFrame \in Nat \ {0}
        BY <1>0, <1>1, <2>3
      <4> HIDE DEF x
      <4>2. x % MaxFrame = x
        BY <4>1, ModSmall
      <4> QED BY <4>2 DEF x
    <3>2. ~(d < Len(data))
      BY <1>0, <1>1, <2>3, <3>1
    <3> HIDE DEF d
    <3> QED BY <1>0, <2>2, <2>3, <3>2
  <2>4. CASE ~(i <= k)
    <3>1. d = (i - 1) - k
      <4>1. (i - 1) - k \in Nat /\ (i - 1) - k < MaxFrame
        BY <1>0, <1>1, <2>4
      <4> DEFINE x == (i - 1) - k
      <4>2. x \in Nat /\ x < MaxFrame
        BY <4>1
      <4> HIDE DEF x
      <4>3. (x + MaxFrame) % MaxFrame = x
        <5> DEFINE y == x + MaxFrame
        <5>1. /\ y \in Nat /\ MaxFrame <= y /\ y < MaxFrame + MaxFrame /\ y - MaxFrame = x
              /\ MaxFrame \in Nat \ {0}
          BY <1>1, <4>2
        <5> HIDE DEF y
        <5>2. y % MaxFrame = y - MaxFrame
          BY <5>1, ModOnce
        <5> QED BY <5>1, <5>2 DEF y
      <4> QED BY <4>3 DEF x
    <3>2. d < Len(data) /\ d + 1 = i - k /\ i - k \in 1..n /\ k + (i - k) = i
      BY <1>0, <2>4, <3>1
    <3> HIDE DEF d
    <3>3. data[i - k] = f[i]
      BY <1>0, <3>2
    <3> QED BY <2>2, <3>2, <3>3
  <2> QED BY <2>3, <2>4
<1> HIDE DEF b2, w
<1>4. Server!buf_used(0, w) = k + n /\ Server!Window(0, w) = k + n
  BY <1>0, <1>1, <1>2 DEF Server!buf_used, Server!Window
<1>5. Server!ring_copy(b2, 0, k + n) = SubSeq(f, 1, k + n)
  <2> DEFINE c == Server!ring_copy(b2, 0, k + n)
             t == SubSeq(f, 1, k + n)
  <2>1. ASSUME NEW i \in 1..k + n PROVE f[i] \in Byte /\ b2[(0 + i - 1) % MaxFrame] = f[i]
    <3>1. i \in 1..Len(f) /\ i - 1 \in Nat /\ i - 1 < MaxFrame /\ 0 + i - 1 = i - 1
      BY <1>0, <1>1
    <3>2. (0 + i - 1) % MaxFrame = i - 1
      <4> DEFINE x == i - 1
      <4>1. x \in Nat /\ x < MaxFrame /\ 0 + i - 1 = x /\ MaxFrame \in Nat \ {0}
        BY <1>1, <3>1
      <4> HIDE DEF x
      <4>2. x % MaxFrame = x
        BY <4>1, ModSmall
      <4> QED BY <4>1, <4>2 DEF x
    <3>3. f[i] \in Byte
      BY <3>1, ElementOfSeq
    <3> QED BY <1>3, <3>2, <3>3
  <2>2. c = [i \in 1..k + n |-> b2[(0 + i - 1) % MaxFrame]]
    BY DEF Server!ring_copy
  <2> HIDE DEF c
  <2>3. c \in Seq(Byte) /\ Len(c) = k + n /\ \A i \in 1..k + n : c[i] = f[i]
    <3>1. c \in [1..k + n -> Byte] /\ \A i \in 1..k + n : c[i] = f[i]
      BY <2>1, <2>2
    <3>2. k + n \in Nat
      BY <1>0
    <3> QED BY <3>1, <3>2
  <2>4. t \in Seq(Byte) /\ Len(t) = k + n /\ \A i \in 1..k + n : t[i] = f[i]
    <3>1. \A i \in 1..k + n : f[i] \in Byte
      BY <2>1
    <3>2. /\ t \in Seq(Byte) /\ Len(t) = IF 1 <= k + n THEN k + n - 1 + 1 ELSE 0
          /\ \A i \in 1..k + n - 1 + 1 : t[i] = f[1 + i - 1]
      <4>1. k + n \in Int /\ 1 \in Int
        BY <1>0
      <4> QED BY <3>1, <4>1, SubSeqProperties
    <3> HIDE DEF t
    <3> QED BY <1>0, <3>2
  <2> HIDE DEF t
  <2>5. c = t
    BY <2>3, <2>4, SeqEqual
  <2> QED BY <2>5 DEF c, t
<1>6. InRing(b2, f, k + n)
  BY <1>3 DEF InRing
<1>7. w > 0
  BY <1>0, <1>2
<1> QED BY <1>2, <1>4, <1>5, <1>6, <1>7 DEF b2, w

(* The call of slave_read_cb that the request of a row leads to. *)
CallFor(m) == [op |-> "read", unit |-> UnitOf(m), address |-> m.reg_addr,
               quantity |-> m.reg_count, regs |-> <<>>]

(* The server makes the response of the request, or none. *)
LEMMA SentHandled ==
    ASSUME m0 \in MasterRows, Answerable(m0), Sent(m0) /= <<>>,
           Server!server_handle_frame(Sent(m0), <<>>, answer)
    PROVE  \/ resp' = <<>> /\ ~sending'
           \/ /\ resp' = Reply(m0) /\ sending'
              /\ m0.func_code \in ReadCodes => calls' = {CallFor(m0)}
<1> DEFINE f == Sent(m0)
           fc == m0.func_code
           pdu == RequestPdu(RequestFor(m0))
           d == Server!egw_modbus_decode(RTU, f)
           q == Server!egw_modbus_parse_request(d.pdu, answer.junk)
           mine == d.ok /\ q.ok /\ d.unit \in unit_mask
<1>1. d = [ok |-> TRUE, unit |-> UnitOf(m0), pdu |-> pdu]
  BY ServerCodec, SentShape
<1>2. answer.junk = 0 /\ answer.ok = TRUE
  BY DEF answer, AnswerTo
<1>3. q = egw_modbus_parse_request(pdu, 0)
  BY <1>1, <1>2, ServerCodec
<1>4. q.ok /\ q.fc = fc /\ q.addr = m0.reg_addr /\ (fc \in ReadCodes => q.count = m0.reg_count)
  BY <1>3, SentParsed
<1>5. d.ok /\ d.unit = UnitOf(m0) /\ d.pdu = pdu
  BY <1>1
<1>6. Server!RTU = RTU /\ Server!ReadCodes = ReadCodes /\ Server!TCP /= RTU
  BY DEF Server!RTU, RTU, Server!ReadCodes, ReadCodes, Server!TCP
<1> HIDE DEF f, d, q, pdu
<1>7. \/ Server!Silent(<<>>)
      \/ mine /\ fc \in ReadCodes /\ calls' = {Server!ReadCall(d.unit, q)}
         /\ Server!Respond(0, d.unit, Server!egw_modbus_build_read_resp_pdu(q.fc,
                                          Server!ReadData(q.fc, q.count, answer)))
      \/ mine /\ fc \notin ReadCodes /\ Server!Respond(0, d.unit, d.pdu)
  BY <1>2, <1>4, <1>5, <1>6, Zenon DEF Server!server_handle_frame, d, q, f
<1>8. CASE Server!Silent(<<>>)
  BY <1>8 DEF Server!Silent
<1>9. ASSUME NEW p, Server!Respond(0, UnitOf(m0), p), p = ReplyPdu(m0)
      PROVE  \/ resp' = <<>> /\ ~sending'
             \/ resp' = Reply(m0) /\ sending'
  <2>1. Reply(m0) /= <<>>
    <3> DEFINE g == Reply(m0)
    <3>1. g \in Seq(Byte) /\ Len(g) >= 5
      BY ReplyShape
    <3> HIDE DEF g
    <3>2. g /= <<>>
      BY <3>1
    <3> QED BY <3>2 DEF g
  <2>2. /\ resp' = egw_modbus_encode(RTU, 0, UnitOf(m0), p, MaxFrame)
        /\ sending' = (resp' /= <<>>)
    BY <1>9, ServerCodec DEF Server!Respond
  <2>3. resp' = <<>> \/ resp' = Reply(m0)
    BY <1>9, <2>2 DEF egw_modbus_encode, Reply
  <2> QED BY <2>1, <2>2, <2>3
<1>10. CASE /\ fc \in ReadCodes /\ calls' = {Server!ReadCall(d.unit, q)}
            /\ Server!Respond(0, d.unit, Server!egw_modbus_build_read_resp_pdu(q.fc,
                                             Server!ReadData(q.fc, q.count, answer)))
  <2>1. Server!ReadData(fc, m0.reg_count, answer) = ReplyData(m0)
    <3> DEFINE w == Wanted(fc, m0.reg_count)
    <3>1. w \in Nat /\ w <= m0.reg_count
      BY StoredForType
    <3>2. Len(answer.regs) = m0.reg_count /\ m0.reg_count \in Nat
      BY StoredType, RowType DEF answer
    <3> HIDE DEF w
    <3>3. \A i \in 1..w : Server!RegAt(answer, i) = answer.regs[i]
      <4> SUFFICES ASSUME NEW i \in 1..w PROVE Server!RegAt(answer, i) = answer.regs[i]
        OBVIOUS
      <4>1. i \in 1..Len(answer.regs)
        BY <3>1, <3>2
      <4> QED BY <4>1, Zenon DEF Server!RegAt
    <3>4. [i \in 1..w |-> Server!RegAt(answer, i)] = [i \in 1..w |-> answer.regs[i]]
      BY <3>3
    <3>5. Server!ReadData(fc, m0.reg_count, answer)
            = ReadBytes(fc, [i \in 1..w |-> Server!RegAt(answer, i)])
      BY ServerCodec, Zenon DEF Server!ReadData, w
    <3>6. ReplyData(m0) = ReadBytes(fc, [i \in 1..w |-> answer.regs[i]])
      BY Zenon DEF ReplyData, answer, w
    <3> QED BY <3>4, <3>5, <3>6, Zenon
  <2>2. Server!egw_modbus_build_read_resp_pdu(q.fc, Server!ReadData(q.fc, q.count, answer))
          = ReplyPdu(m0)
    BY <1>4, <1>10, <2>1, ServerCodec, Zenon DEF ReplyPdu
  <2>3. \/ resp' = <<>> /\ ~sending'
        \/ resp' = Reply(m0) /\ sending'
    BY <1>5, <1>9, <1>10, <2>2
  <2>4. calls' = {CallFor(m0)}
    BY <1>4, <1>5, <1>10 DEF Server!ReadCall, CallFor
  <2> QED BY <2>3, <2>4
<1>11. CASE fc \notin ReadCodes /\ Server!Respond(0, d.unit, d.pdu)
  <2>1. d.pdu = ReplyPdu(m0)
    BY <1>5, <1>11 DEF ReplyPdu, pdu
  <2>2. \/ resp' = <<>> /\ ~sending'
        \/ resp' = Reply(m0) /\ sending'
    BY <1>5, <1>9, <1>11, <2>1
  <2> QED BY <1>11, <2>2
<1> QED BY <1>7, <1>8, <1>10, <1>11

(* The value kept and handed over when slave_read_cb is called for the row. *)
LEMMA ReadKept ==
    ASSUME m0 \in MasterRows, Answerable(m0), handed = <<>>, value = Untouched,
           slave_read_cb(answer), m0' = m0,
           m0.func_code \in ReadCodes => calls' = {CallFor(m0)}
    PROVE  Kept'
<1> DEFINE rows == Lookup(UnitOf(m0), m0.reg_addr)
           first == answer.regs[1]
           kept == [unit |-> UnitOf(m0), addr |-> m0.reg_addr, value |-> first]
<1>1. CASE m0.func_code \notin ReadCodes
  BY <1>1 DEF Kept
<1>2. CASE m0.func_code \in ReadCodes
  <2>1. calls' = {CallFor(m0)}
    BY <1>2
  <2>2. FirstOf(answer.regs) = {first}
    <3>1. Len(answer.regs) = m0.reg_count /\ m0.reg_count >= 1
      BY StoredType, AnswerableCount DEF answer
    <3> QED BY <3>1 DEF FirstOf
  <2>3. PICK c \in calls' :
           \/ Lookup(c.unit, c.address) = {} /\ UNCHANGED store
           \/ \E i \in Lookup(c.unit, c.address), v \in {first} :
                 /\ value' = [value EXCEPT ![i] = v]
                 /\ handed' = Append(handed, [unit |-> c.unit, addr |-> c.address, value |-> v])
    BY <2>1, <2>2, Zenon DEF slave_read_cb
  <2>4. c.unit = UnitOf(m0) /\ c.address = m0.reg_addr
    BY <2>1 DEF CallFor
  <2> HIDE DEF rows, first
  <2>5. CASE rows = {} /\ UNCHANGED store
    <3>1. handed' = <<>>
      BY <2>5 DEF store
    <3> QED BY <2>5, <3>1, Zenon DEF Kept, rows
  <2>6. CASE \E i \in rows, v \in {first} :
                 /\ value' = [value EXCEPT ![i] = v]
                 /\ handed' = Append(handed, [unit |-> c.unit, addr |-> c.address, value |-> v])
    <3>1. PICK i \in rows : /\ value' = [value EXCEPT ![i] = first]
                            /\ handed' = Append(handed, [unit |-> c.unit, addr |-> c.address,
                                                         value |-> first])
      BY <2>6
    <3>2. i \in 1..Len(SlaveRows)
      BY DEF rows, Lookup
    <3>3. value' = [k \in 1..Len(SlaveRows) |-> IF k = i THEN first ELSE 0]
      BY <3>1, <3>2 DEF Untouched
    <3>4. OnlyTaken(i, first)'
      BY <3>3 DEF OnlyTaken, first, answer
    <3>5. handed' = <<kept>>
      <4>1. handed' = Append(<<>>, kept)
        BY <2>4, <3>1
      <4> HIDE DEF kept
      <4> QED BY <4>1
    <3>6. rows /= {}
      BY <3>1
    <3> QED BY <3>4, <3>5, <3>6, Zenon DEF Kept, rows, first, kept, answer
  <2> QED BY <2>3, <2>4, <2>5, <2>6 DEF rows
<1> QED BY <1>1, <1>2

(* The slave takes n more bytes of the request: it waits for the rest of it, or handles
   the whole frame. *)
LEMMA SlaveProcesses ==
    ASSUME NEW n \in 1..(8 - wr), m0 \in MasterRows, Answerable(m0), Sent(m0) /= <<>>, Asking,
           Server!ReserveCommit(SubSeq(up, 1, n), answer)
    PROVE  /\ SubSeq(up, n + 1, Len(up)) = SubSeq(Sent(m0), wr + n + 1, 8)
           /\ \/ /\ wr + n < 8 /\ resp' = <<>> /\ ~sending'
                 /\ rd' = 0 /\ wr' = wr + n /\ calls' = {}
                 /\ InRing(buf', Sent(m0), wr + n)
              \/ /\ wr + n = 8 /\ wr' = 8 /\ rd' = wr'
                 /\ \/ resp' = <<>> /\ ~sending'
                    \/ /\ resp' = Reply(m0) /\ sending'
                       /\ m0.func_code \in ReadCodes => calls' = {CallFor(m0)}
<1> DEFINE f == Sent(m0)
           k == wr
           data == SubSeq(up, 1, n)
           w == (k + n) % MaxFrame
           b2 == Server!Store(buf, k, data)
           tmp == Server!ring_copy(b2, 0, Server!Window(0, w))
<1>1. /\ k \in 0..7 /\ rd = 0 /\ up = SubSeq(f, k + 1, 8)
      /\ InRing(buf, f, k)
      /\ resp = <<>> /\ ~sending
  BY DEF Asking
<1>2. f \in Seq(Byte) /\ Len(f) = 8
  BY SentShape
<1> HIDE DEF f
<1>0. k \in Nat /\ n \in Nat /\ n >= 1 /\ k + n <= 8 /\ n \in 1..(8 - k)
  BY <1>1
<1>3. /\ PieceOf(data, f, k, n) /\ Len(data) = n
      /\ SubSeq(up, n + 1, Len(up)) = SubSeq(f, k + n + 1, 8)
  <2>1. 8 \in Nat /\ 8 <= Len(f) /\ k \in 0..8
    BY <1>0, <1>2
  <2> QED BY <1>0, <1>1, <1>2, <2>1, TakeMore DEF PieceOf
<1> HIDE DEF data
<1>4. /\ w = k + n /\ InRing(b2, f, k + n)
      /\ Server!buf_used(0, w) > 0 /\ tmp = SubSeq(f, 1, k + n)
  <2> DEFINE b == buf
  <2>1. InRing(b, f, k)
    BY <1>1
  <2> HIDE DEF k, b
  <2>2. LET v  == (k + n) % MaxFrame
            b3 == Server!Store(b, k, data)
        IN  /\ v = k + n
            /\ InRing(b3, f, k + n)
            /\ Server!buf_used(0, v) = k + n /\ Server!buf_used(0, v) > 0
            /\ Server!ring_copy(b3, 0, Server!Window(0, v)) = SubSeq(f, 1, k + n)
    BY <1>0, <1>2, <1>3, <2>1, RingFront
  <2> QED BY <2>2, Zenon DEF b
<1>5. buf' = b2 /\ Server!try_process(b2, 0, w, <<>>, answer)
  BY <1>1, <1>3, Zenon DEF Server!ReserveCommit, Server!Accept, data, b2, w
<1> HIDE DEF w, b2, tmp
<1>6. Server!parse_and_check(tmp) = IF k + n < 8 THEN [res |-> "NEED_MORE", len |-> 0]
                                                 ELSE [res |-> "FRAME_READY", len |-> 8]
  <2>1. k + n \in 1..8
    BY <1>0
  <2>2. Server!parse_and_check(tmp) = parse_and_check(SubSeq(f, 1, k + n))
    BY <1>4, ServerCodec
  <2> HIDE DEF k
  <2> QED BY <2>1, <2>2, SentDelimited DEF f
<1>7. ~(Server!buf_used(0, w) = 0)
  <2>1. \A x : x > 0 => ~(x = 0)
    OBVIOUS
  <2> QED BY <1>4, <2>1
<1>8. CASE k + n < 8
  <2>1. Server!parse_and_check(tmp).res = "NEED_MORE"
    BY <1>6, <1>8
  <2>2. rd' = 0 /\ wr' = w /\ calls' = {} /\ Server!Silent(<<>>)
    BY <1>5, <2>1, Zenon DEF Server!try_process, tmp
  <2> QED BY <1>3, <1>4, <1>5, <1>8, <2>2 DEF Server!Silent, f
<1>9. CASE ~(k + n < 8)
  <2>0. k + n = 8
    BY <1>0, <1>9
  <2>1. Server!parse_and_check(tmp).res = "FRAME_READY" /\ Server!parse_and_check(tmp).len = 8
    BY <1>6, <1>9
  <2>2. /\ rd' = (0 + 8) % MaxFrame /\ wr' = w
        /\ \/ Server!server_handle_frame(SubSeq(tmp, 1, 8), <<>>, answer)
           \/ Server!Silent(<<>>)
    BY <1>5, <1>7, <2>1, Zenon DEF Server!try_process, tmp
  <2>3. SubSeq(tmp, 1, 8) = f
    <3>1. tmp = f
      BY <1>2, <1>4, <2>0, SubSeqFull
    <3> QED BY <1>2, <3>1, SubSeqFull
  <2>4. rd' = w
    <3>1. MaxFrame \in Nat \ {0} /\ 8 < MaxFrame /\ 0 + 8 = 8 /\ 8 \in Nat
      BY LoopbackAssumption
    <3>2. 8 % MaxFrame = 8
      BY <3>1, ModSmall
    <3> QED BY <1>4, <2>0, <2>2, <3>2
  <2>5. \/ resp' = <<>> /\ ~sending'
        \/ /\ resp' = Reply(m0) /\ sending'
           /\ m0.func_code \in ReadCodes => calls' = {CallFor(m0)}
    BY <2>2, <2>3, SentHandled DEF f, Server!Silent
  <2>6. wr' = 8
    BY <1>4, <2>0, <2>2
  <2> QED BY <1>3, <2>0, <2>2, <2>4, <2>5, <2>6 DEF f
<1> QED BY <1>8, <1>9

-------------------------------------------------------------------------------
(* The steps. *)

(* A fault does not go away, and a lost byte stays lost. *)
LEMMA CleanBefore ==
    ASSUME Typed, [Next]_vars, app /= "send", Clean'
    PROVE  Clean
<1>1. lost' = 0 /\ (ShortWrites => ~fault')
  BY DEF Clean
<1>2. lost' = lost \/ lost' = lost + 1
  BY DEF Next, Code, Setup, SetupFails, Send, egw_lb_slave_on_poll, egw_lb_master_on_poll,
         EndLoop, Cleanup, egw_lb_on_timeout, LoseByte, vars, line
<1>3. lost = 0
  BY <1>1, <1>2 DEF Typed
<1>4. ASSUME ~fault' PROVE ~fault \/ app = "send"
  <2>1. CASE egw_lb_slave_on_poll
    BY <1>4, <2>1 DEF egw_lb_slave_on_poll, SlaveWrites
  <2>2. CASE egw_lb_master_on_poll
    BY <1>4, <2>2 DEF egw_lb_master_on_poll, SecondHalf, SlaveWrites
  <2>3. CASE ~egw_lb_slave_on_poll /\ ~egw_lb_master_on_poll
    BY <1>4, <2>3 DEF Next, Code, Setup, SetupFails, Send, EndLoop, Cleanup, egw_lb_on_timeout,
                      LoseByte, vars
  <2> QED BY <2>1, <2>2, <2>3
<1> QED BY <1>1, <1>3, <1>4 DEF Clean

(* The variables Underway speaks of, but for polls. *)
moving == <<svars, cvars, m0, phase, seg_pending, line, store>>

(* What is under way does not depend on what is not in it, nor on more polls. *)
LEMMA UnderwayKept ==
    ASSUME Underway, UNCHANGED moving, polls' \subseteq polls
    PROVE  Underway'
<1>1. CASE Asking
  BY <1>1 DEF Asking, Underway, moving, svars, cvars, line, store, Untouched
<1>2. CASE Answering
  BY <1>2 DEF Answering, Underway, moving, svars, cvars, line, store, Kept, OnlyTaken, answer
<1>3. CASE Answered
  BY <1>3 DEF Answered, Underway, moving, svars, cvars, line, store, Kept, OnlyTaken, answer
<1>4. CASE Unanswered
  BY <1>4 DEF Unanswered, Underway, moving, svars, cvars, line, store
<1> QED BY <1>1, <1>2, <1>3, <1>4 DEF Underway

(* The steps that move nothing: set-up fails, the timer, the end of the loop, clean-up. *)
LEMMA QuietStep ==
    ASSUME IInv, [Next]_vars, UNCHANGED <<moving, handles>>, polls' \subseteq polls,
           app' = app \/ app' \in {"stopping", "cleanup", "done", "crashed"},
           handles = {} => app' = app \/ app' \in {"cleanup", "crashed"},
           handles /= {} => app' /= "crashed"
    PROVE  IInv'
<1>1. Typed'
  BY DEF IInv, Typed, moving, cvars, line
<1>2. NotStarted'
  BY DEF IInv, NotStarted, moving, svars, cvars, line, store, Untouched
<1>3. Started'
  <2> SUFFICES ASSUME handles' /= {}
               PROVE  /\ app' \notin {"setup", "send", "crashed"}
                      /\ current' = Slot /\ req'[Slot] = RequestFor(m0') /\ Sent(m0') /= <<>>
                      /\ Clean' /\ Answerable(m0') => Underway'
    BY DEF Started
  <2>1. /\ handles /= {} /\ app \notin {"setup", "send", "crashed"}
        /\ current = Slot /\ req[Slot] = RequestFor(m0) /\ Sent(m0) /= <<>>
        /\ Clean /\ Answerable(m0) => Underway
    BY DEF IInv, Started
  <2>2. Clean' => Clean
    BY <2>1, CleanBefore DEF IInv
  <2>3. Clean' /\ Answerable(m0') => Underway'
    <3>1. m0' = m0
      BY DEF moving
    <3> QED BY <2>1, <2>2, <3>1, UnderwayKept
  <2> QED BY <2>1, <2>3 DEF moving, cvars
<1> QED BY <1>1, <1>2, <1>3 DEF IInv

(* The request is registered. *)
LEMMA SetupStep == ASSUME IInv, Setup PROVE IInv'
<1>1. /\ app = "setup" /\ app' = "send" /\ m0' = m0 /\ Client!Register(Slot, RequestFor(m0))
      /\ UNCHANGED <<svars, phase, seg_pending, polls, handles, line, store, fault>>
  BY DEF Setup
<1>2. handles = {}
  BY <1>1 DEF IInv, Started
<1>3. /\ Client!EncodeRequest(RTU, RequestFor(m0)) /= <<>>
      /\ req' = [req EXCEPT ![Slot] = RequestFor(m0)]
      /\ UNCHANGED <<current, recv, tx_count, rx_count, report, dropped>>
  BY <1>1, Zenon DEF Client!Register
<1>4. Sent(m0) /= <<>>
  BY <1>3, ClientCodec DEF Sent
<1>5. req'[Slot] = RequestFor(m0) /\ Slot \in DOMAIN req'
  BY <1>3 DEF IInv, Typed
<1>6. Typed'
  BY <1>1, <1>3, <1>5 DEF IInv, Typed, line
<1>7. NotStarted'
  BY <1>1, <1>2, <1>3, <1>4, <1>5 DEF IInv, NotStarted, svars, line, store, Untouched
<1>8. Started'
  BY <1>1, <1>2 DEF Started
<1> QED BY <1>6, <1>7, <1>8 DEF IInv

(* The request is written and, if all of it is, the loop starts. *)
LEMMA SendStep == ASSUME IInv, Send PROVE IInv'
<1>1. /\ app = "send" /\ m0' = m0 /\ Client!Request(Slot)
      /\ UNCHANGED <<svars, phase, seg_pending, down, lost, store>>
  BY DEF Send
<1>2. PICK n \in Accepted(Len(Sent(m0))) :
         /\ up' = SubSeq(Sent(m0), 1, n)
         /\ fault' = (n < Len(Sent(m0)))
         /\ IF n = Len(Sent(m0))
            THEN app' = "loop" /\ handles' = {"srv_poll", "cli_poll", "timer"}
                               /\ polls' = {"srv_poll"}
            ELSE app' = "cleanup" /\ UNCHANGED <<handles, polls>>
  BY DEF Send, Sent
<1>3. handles = {}
  BY <1>1 DEF IInv, Started
<1>4. /\ phase = "SERVER_RECV" /\ report = NULL /\ handed = <<>>
      /\ value = Untouched
      /\ rd = 0 /\ wr = 0 /\ resp = <<>> /\ ~sending /\ recv = <<>> /\ down = <<>> /\ ~seg_pending
      /\ req[Slot] = RequestFor(m0) /\ Sent(m0) /= <<>>
  BY <1>1, <1>3 DEF IInv, NotStarted
<1>5. /\ current' = Slot /\ recv' = <<>> /\ report' = NULL /\ rx_count' = rx_count /\ req' = req
  BY <1>1, Zenon DEF Client!Request, Client!list
<1>6. Len(Sent(m0)) = 8 /\ m0 \in MasterRows
  BY <1>4, SentShape DEF IInv, Typed
<1>7. Typed'
  BY <1>1, <1>5 DEF IInv, Typed
<1>8. CASE n = 8
  <2>1. /\ app' = "loop" /\ handles' /= {} /\ polls' = {"srv_poll"}
        /\ up' = SubSeq(Sent(m0), 0 + 1, 8)
    BY <1>2, <1>6, <1>8
  <2>2. InRing(buf', Sent(m0'), 0)
    BY DEF InRing
  <2>3. Asking'
    BY <1>1, <1>4, <1>5, <2>1, <2>2 DEF Asking, svars, store, Untouched
  <2>4. Started'
    BY <1>1, <1>4, <1>5, <2>1, <2>3 DEF Started, Underway
  <2>5. NotStarted'
    BY <2>1 DEF NotStarted
  <2> QED BY <1>7, <2>4, <2>5 DEF IInv
<1>9. CASE n /= 8
  <2>1. app' = "cleanup" /\ handles' = {}
    BY <1>2, <1>3, <1>6, <1>9
  <2>2. NotStarted'
    BY <1>1, <1>4, <1>5, <2>1 DEF NotStarted, svars, store, Untouched
  <2>3. Started'
    BY <2>1 DEF Started
  <2> QED BY <1>7, <2>2, <2>3 DEF IInv
<1> QED BY <1>8, <1>9

(* The line loses a byte: nothing is said of the loopback any more. *)
LEMMA LoseStep == ASSUME IInv, LoseByte PROVE IInv'
<1>1. /\ lost' = lost + 1 /\ UNCHANGED <<svars, cvars, ctx, store>>
      /\ \/ \E i \in 1..Len(up) : down' = down
         \/ \E i \in 1..Len(down) : TRUE
  BY DEF LoseByte
<1>2. lost \in Nat /\ lost' \in Nat /\ lost' /= 0
  BY <1>1 DEF IInv, Typed
<1>3. ~Clean'
  BY <1>2 DEF Clean
<1>4. Typed'
  BY <1>1, <1>2 DEF IInv, Typed, cvars, ctx
<1>5. NotStarted'
  <2>1. handles = {} => down = <<>>
    BY DEF IInv, NotStarted
  <2>2. handles = {} => down' = down
    BY <1>1, <2>1
  <2> QED BY <1>1, <2>2 DEF IInv, NotStarted, svars, cvars, ctx, store, Untouched
<1>6. Started'
  BY <1>1, <1>3 DEF IInv, Started, cvars, ctx
<1> QED BY <1>4, <1>5, <1>6 DEF IInv

(* A write that is not cut short puts all of it behind what is on the line. *)
LEMMA Written ==
    ASSUME NEW s \in Seq(Byte), NEW rest \in Seq(Byte), SlaveWrites(s, rest), Clean'
    PROVE  down' = rest \o s
<1>1. PICK n \in Accepted(Len(s)) :
         down' = rest \o SubSeq(s, 1, n) /\ fault' = (fault \/ n < Len(s))
  BY DEF SlaveWrites
<1>2. n = Len(s)
  <2>1. CASE ShortWrites
    <3>1. ~fault' /\ n \in 0..Len(s)
      BY <1>1, <2>1 DEF Clean, Accepted
    <3>2. ~(n < Len(s))
      <4>1. fault' = (fault \/ n < Len(s))
        BY <1>1
      <4> QED BY <3>1, <4>1, Zenon
    <3>3. Len(s) \in Nat
      OBVIOUS
    <3> QED BY <3>1, <3>2, <3>3
  <2>2. CASE ~ShortWrites
    BY <1>1, <2>2 DEF Accepted
  <2> QED BY <2>1, <2>2
<1>3. SubSeq(s, 1, n) = s
  BY <1>2, SubSeqFull
<1> QED BY <1>1, <1>3

(* The two halves of a frame. *)
LEMMA Halves ==
    ASSUME NEW f \in Seq(Byte)
    PROVE  LET h == Len(f) \div 2
           IN  /\ h \in Nat /\ h <= Len(f) /\ Len(f) >= 2 => h >= 1 /\ h < Len(f)
               /\ FirstHalf(f) = SubSeq(f, 1, h) /\ FirstHalf(f) \in Seq(Byte)
               /\ SubSeq(f, h + 1, Len(f)) \in Seq(Byte)
<1> DEFINE h == Len(f) \div 2
<1>1. Len(f) \in Nat
  OBVIOUS
<1>2. h \in Nat /\ h <= Len(f) /\ (Len(f) >= 2 => h >= 1 /\ h < Len(f))
  BY <1>1
<1>3. FirstHalf(f) = SubSeq(f, 1, h)
  BY DEF FirstHalf
<1> HIDE DEF h
<1>4. \A i \in 1..h : f[i] \in Byte
  <2>1. \A i \in 1..h : i \in 1..Len(f)
    BY <1>1, <1>2
  <2> QED BY <2>1, ElementOfSeq
<1>5. \A i \in h + 1..Len(f) : f[i] \in Byte
  <2>1. \A i \in h + 1..Len(f) : i \in 1..Len(f)
    BY <1>1, <1>2
  <2> QED BY <2>1, ElementOfSeq
<1>6. SubSeq(f, 1, h) \in Seq(Byte) /\ SubSeq(f, h + 1, Len(f)) \in Seq(Byte)
  BY <1>1, <1>2, <1>4, <1>5, SubSeqProperties
<1> QED BY <1>2, <1>3, <1>6 DEF h

(* The slave reads: more of the request, or all of it and it answers or stays silent. *)
LEMMA SlaveUnderway ==
    ASSUME IInv, Underway, Answerable(m0), Sent(m0) /= <<>>, egw_lb_slave_on_poll, Clean'
    PROVE  Underway'
<1>1. PICK n \in Received(Len(up)) :
         /\ Server!ReserveCommit(SubSeq(up, 1, n), answer)
         /\ up' = SubSeq(up, n + 1, Len(up))
  BY Zenon DEF egw_lb_slave_on_poll
<1>2. /\ "srv_poll" \in polls /\ m0' = m0 /\ slave_read_cb(answer)
      /\ IF resp' = <<>>
         THEN UNCHANGED <<seg_pending, polls, down, fault>>
         ELSE /\ SlaveWrites(FirstHalf(resp'), down)
              /\ seg_pending' = TRUE /\ polls' = {"cli_poll"}
      /\ UNCHANGED <<cvars, phase>>
  BY Zenon DEF egw_lb_slave_on_poll
<1>3. Asking
  <2>1. n \in 1..Len(up)
    BY <1>1 DEF Received
  <2>2. up /= <<>>
    BY <2>1
  <2> QED BY <1>2, <2>2 DEF Underway, Answering, Answered, Unanswered
<1>4. m0 \in MasterRows
  BY DEF IInv, Typed
<1>5. /\ wr \in 0..7 /\ rd = 0 /\ up = SubSeq(Sent(m0), wr + 1, 8)
      /\ resp = <<>> /\ ~sending /\ ~seg_pending
      /\ recv = <<>> /\ down = <<>> /\ handed = <<>> /\ value = Untouched
      /\ "cli_poll" \notin polls /\ phase = "SERVER_RECV"
  BY <1>3 DEF Asking
<1>6. n \in 1..(8 - wr) /\ wr + n \in 1..8
  <2> DEFINE f == Sent(m0)
             k == wr
  <2>1. f \in Seq(Byte) /\ Len(f) = 8 /\ k \in Nat /\ k <= 7
    BY <1>4, <1>5, SentShape
  <2>2. Len(up) = 8 - k
    <3>1. \A i \in k + 1..8 : i \in 1..Len(f)
      BY <2>1
    <3>2. \A i \in k + 1..8 : f[i] \in Byte
      BY <2>1, <3>1, ElementOfSeq
    <3>3. k + 1 \in Int /\ 8 \in Int
      BY <2>1
    <3>4. Len(SubSeq(f, k + 1, 8)) = IF k + 1 <= 8 THEN 8 - (k + 1) + 1 ELSE 0
      BY <3>2, <3>3, SubSeqProperties
    <3>5. up = SubSeq(f, k + 1, 8)
      BY <1>5
    <3> QED BY <2>1, <3>4, <3>5
  <2>3. n \in 1..(8 - k)
    BY <1>1, <2>2 DEF Received
  <2> QED BY <2>1, <2>3
<1>7. /\ up' = SubSeq(Sent(m0), wr + n + 1, 8)
      /\ \/ /\ wr + n < 8 /\ resp' = <<>> /\ ~sending'
            /\ rd' = 0 /\ wr' = wr + n /\ calls' = {}
            /\ InRing(buf', Sent(m0), wr + n)
         \/ /\ wr + n = 8 /\ wr' = 8 /\ rd' = wr'
            /\ \/ resp' = <<>> /\ ~sending'
               \/ /\ resp' = Reply(m0) /\ sending'
                  /\ m0.func_code \in ReadCodes => calls' = {CallFor(m0)}
  <2> HIDE <1>2
  <2> QED BY <1>1, <1>3, <1>4, <1>6, SlaveProcesses
<1>8. recv' = <<>> /\ phase' = "SERVER_RECV"
  BY <1>2, <1>5 DEF cvars
<1>9. CASE wr + n < 8
  <2>1. /\ resp' = <<>> /\ ~sending' /\ rd' = 0 /\ wr' = wr + n /\ calls' = {}
        /\ InRing(buf', Sent(m0), wr + n) /\ up' = SubSeq(Sent(m0), wr' + 1, 8)
    <3>1. wr + n /= 8
      BY <1>6, <1>9
    <3>2. /\ resp' = <<>> /\ ~sending' /\ rd' = 0 /\ wr' = wr + n /\ calls' = {}
          /\ InRing(buf', Sent(m0), wr + n)
      BY <1>7, <3>1, Zenon
    <3> QED BY <1>7, <3>2
  <2>2. handed' = handed /\ value' = Untouched'
    <3>1. UNCHANGED store
      BY <1>2, <2>1 DEF slave_read_cb
    <3> QED BY <1>5, <3>1 DEF store, Untouched
  <2>3. seg_pending' = seg_pending /\ polls' = polls /\ down' = down
    BY <1>2, <2>1
  <2>4. wr' \in 0..7
    BY <1>5, <1>6, <1>9, <2>1
  <2>5. InRing(buf', Sent(m0'), wr') /\ up' = SubSeq(Sent(m0'), wr' + 1, 8)
    BY <1>2, <2>1
  <2> QED BY <1>5, <1>8, <2>1, <2>2, <2>3, <2>4, <2>5 DEF Underway, Asking
<1>10. CASE ~(wr + n < 8)
  <2>1. wr + n = 8 /\ wr' \in Nat /\ rd' = wr'
    BY <1>6, <1>7, <1>10
  <2>2. CASE resp' = <<>>
    <3>1. down' = <<>>
      BY <1>2, <1>5, <2>2
    <3>2. up' = <<>>
      <4>1. up' = SubSeq(Sent(m0), 8 + 1, 8)
        BY <1>7, <2>1
      <4>2. 8 + 1 \in Int /\ 8 \in Int /\ 8 < 8 + 1
        OBVIOUS
      <4> QED BY <4>1, <4>2, SubSeqEmpty
    <3> QED BY <1>8, <3>1, <3>2 DEF Underway, Unanswered
  <2>3. CASE resp' /= <<>>
    <3>1. resp' = Reply(m0) /\ (m0.func_code \in ReadCodes => calls' = {CallFor(m0)})
      BY <1>7, <2>1, <2>3
    <3>2. SlaveWrites(FirstHalf(Reply(m0)), down) /\ seg_pending' = TRUE /\ polls' = {"cli_poll"}
      BY <1>2, <2>3, <3>1
    <3>3. Kept'
      BY <1>2, <1>4, <1>5, <3>1, ReadKept
    <3>4. down' = FirstHalf(Reply(m0))
      <4> DEFINE s == FirstHalf(Reply(m0))
                 rest == down
      <4>1. s \in Seq(Byte)
        BY <1>4, ReplyShape, Halves
      <4>2. rest = <<>> /\ rest \in Seq(Byte) /\ SlaveWrites(s, rest)
        BY <1>5, <3>2
      <4> HIDE DEF s, rest
      <4>3. down' = rest \o s
        BY <4>1, <4>2, Written
      <4>4. <<>> \o s = s
        BY <4>1, ConcatEmptySeq
      <4> QED BY <4>2, <4>3, <4>4 DEF s
    <3> QED BY <1>2, <1>8, <2>1, <3>1, <3>2, <3>3, <3>4 DEF Underway, Answering
  <2> QED BY <2>2, <2>3
<1> QED BY <1>9, <1>10

(* The first half of the response reaches the master and the second goes out, or more of
   it reaches the master, who reports it once it is whole. *)
LEMMA MasterUnderway ==
    ASSUME IInv, Underway, Answerable(m0), Sent(m0) /= <<>>, current = Slot,
           req[Slot] = RequestFor(m0), egw_lb_master_on_poll, Clean'
    PROVE  Underway'
<1> DEFINE f == Reply(m0)
           e == Len(f)
           h == e \div 2
<1>1. PICK n \in Received(Len(down)) :
         /\ Client!ReserveCommit(SubSeq(down, 1, n))
         /\ SecondHalf(SubSeq(down, n + 1, Len(down)))
  BY Zenon DEF egw_lb_master_on_poll
<1>2. "cli_poll" \in polls /\ m0' = m0 /\ polls' = polls /\ master_done_cb
  BY Zenon DEF egw_lb_master_on_poll
<1>3. m0 \in MasterRows /\ rx_count \in Nat
  BY DEF IInv, Typed
<1>4. /\ f \in Seq(Byte) /\ e \in Nat /\ e >= 5
      /\ h \in Nat /\ h <= e /\ h < e /\ h >= 1
      /\ FirstHalf(f) = SubSeq(f, 1, h) /\ FirstHalf(f) \in Seq(Byte)
      /\ SubSeq(f, h + 1, e) \in Seq(Byte)
  <2>1. f \in Seq(Byte) /\ e \in Nat /\ e >= 5
    BY <1>3, ReplyShape
  <2> HIDE DEF f
  <2> QED BY <2>1, Halves
<1>0. f = Reply(m0)
  OBVIOUS
<1> HIDE DEF f, e, h
<1>5. n \in 1..Len(down)
  BY <1>1 DEF Received
<1>6. down /= <<>>
  BY <1>5
<1>7. Answering \/ Answered
  BY <1>2, <1>6 DEF Underway, Asking, Unanswered
<1>8. /\ Client!Collect(recv \o SubSeq(down, 1, n))
      /\ UNCHANGED current /\ req' = req
  BY <1>1, Zenon DEF Client!ReserveCommit, Client!list
(* While the response is incomplete nothing is reported. *)
<1>9. ASSUME NEW k \in 1..e, k < e, recv \o SubSeq(down, 1, n) = SubSeq(f, 1, k)
      PROVE  recv' = SubSeq(f, 1, k) /\ phase' = phase
  <2> DEFINE b == recv \o SubSeq(down, 1, n)
  <2>1. resp_parse(SubSeq(f, 1, k)) = [res |-> "NEED_MORE", len |-> 0]
    BY <1>0, <1>3, <1>9, ReplyDelimited DEF e
  <2>0. b = SubSeq(f, 1, k)
    BY <1>9
  <2> HIDE DEF b
  <2>2. Client!resp_parse(b).res = "NEED_MORE"
    <3>1. Client!resp_parse(b) = resp_parse(b)
      BY ClientCodec
    <3>2. Client!resp_parse(b) = [res |-> "NEED_MORE", len |-> 0]
      BY <2>0, <2>1, <3>1, Zenon
    <3> QED BY <3>2
  <2>3. recv' = b /\ rx_count' = rx_count
    BY <1>8, <2>2, Zenon DEF Client!Collect, b
  <2>4. ~(rx_count' > rx_count)
    BY <1>3, <2>3
  <2>5. phase' = phase
    BY <1>2, <2>4 DEF master_done_cb
  <2> QED BY <2>0, <2>3, <2>5
<1>10. CASE Answering
  <2>1. /\ "srv_poll" \notin polls /\ wr \in Nat /\ rd = wr /\ resp = f /\ seg_pending
        /\ recv = <<>> /\ down = SubSeq(f, 1, h) /\ Kept /\ phase = "SERVER_RECV"
    BY <1>0, <1>4, <1>10 DEF Answering
  <2>2. n \in 1..h /\ Len(down) = h /\ SubSeq(down, n + 1, Len(down)) = SubSeq(f, n + 1, h)
        /\ recv \o SubSeq(down, 1, n) = SubSeq(f, 1, n)
        /\ SubSeq(f, n + 1, h) \in Seq(Byte)
    <3>0. SubSeq(f, 1, 0) = <<>> /\ down = SubSeq(f, 0 + 1, h)
      BY <2>1, SubSeqEmpty
    <3>1. Len(down) = h
      <4>1. 0 \in 0..h /\ 1 \in 1..(h - 0)
        BY <1>4
      <4>2. Len(SubSeq(f, 0 + 1, h)) = h - 0
        BY <1>4, <4>1, TakeMore
      <4> QED BY <1>4, <3>0, <4>2
    <3>2. 0 \in 0..h /\ n \in 1..(h - 0) /\ n \in Nat
      BY <1>4, <1>5, <3>1
    <3>3. /\ SubSeq(f, 1, 0) \o SubSeq(down, 1, n) = SubSeq(f, 1, 0 + n)
          /\ SubSeq(down, n + 1, Len(down)) = SubSeq(f, 0 + n + 1, h)
      BY <1>4, <3>0, <3>2, TakeMore
    <3>4. 0 + n = n /\ 0 + n + 1 = n + 1
      BY <3>2
    <3>5. SubSeq(f, n + 1, h) \in Seq(Byte)
      <4>1. \A i \in n + 1..h : i \in 1..Len(f)
        BY <1>4, <3>2 DEF e
      <4>2. \A i \in n + 1..h : f[i] \in Byte
        BY <1>4, <4>1, ElementOfSeq
      <4> QED BY <1>4, <3>2, <4>2, SubSeqProperties
    <3> QED BY <2>1, <3>0, <3>1, <3>2, <3>3, <3>4, <3>5
  <2>3. recv' = SubSeq(f, 1, n) /\ phase' = "SERVER_RECV" /\ n \in 1..e /\ n < e
    <3>1. n \in 1..e /\ n < e
      BY <1>4, <2>2
    <3> QED BY <1>9, <2>1, <2>2, <3>1
  <2>4. /\ seg_pending' = FALSE
        /\ SlaveWrites(SubSeq(f, h + 1, e), SubSeq(f, n + 1, h))
        /\ Server!ResponseSent(answer) /\ slave_read_cb(answer)
    <3>1. SecondHalf(SubSeq(f, n + 1, h))
      BY <1>1, <2>2
    <3> QED BY <2>1, <3>1, Zenon DEF SecondHalf, e, h
  <2>5. down' = SubSeq(f, n + 1, e)
    <3>1. down' = SubSeq(f, n + 1, h) \o SubSeq(f, h + 1, e)
      BY <1>4, <2>2, <2>4, Written
    <3>2. n \in Nat /\ n <= h /\ h <= Len(f)
      BY <1>4, <2>2 DEF e
    <3> QED BY <1>4, <3>1, <3>2, JoinRest DEF e
  <2>6. UNCHANGED store
    <3>1. Server!buf_used(rd, wr) = 0
      <4>1. wr >= rd /\ wr - rd = 0
        BY <2>1
      <4> QED BY <4>1 DEF Server!buf_used
    <3>2. calls' = {}
      <4>1. ~(Server!buf_used(rd, wr) > 0)
        BY <3>1
      <4> QED BY <2>4, <4>1, Zenon DEF Server!ResponseSent, Server!try_process
    <3> QED BY <2>4, <3>2 DEF slave_read_cb
  <2>7. Kept'
    BY <1>2, <2>1, <2>6 DEF Kept, OnlyTaken, store, answer
  <2>8. Answered'
    <3>1. n \in 0..e /\ n < e
      BY <1>4, <2>3
    <3>2. \E k \in 0..Len(f) :
             /\ recv' = SubSeq(f, 1, k)
             /\ down' = SubSeq(f, k + 1, Len(f))
             /\ IF k < Len(f) THEN phase' = "SERVER_RECV"
                ELSE /\ report' = Client!ResultOf(f, RequestFor(m0))
                     /\ phase' = "DONE" => ~(report'.reg_count < 0)
      BY <2>3, <2>5, <3>1 DEF e
    <3>3. "srv_poll" \notin polls' /\ ~seg_pending'
      BY <1>2, <2>1, <2>4
    <3> QED BY <1>0, <1>2, <2>7, <3>2, <3>3, Zenon DEF Answered
  <2> QED BY <2>8 DEF Underway
<1>11. CASE Answered
  <2>1. "srv_poll" \notin polls /\ ~seg_pending /\ Kept
    BY <1>11 DEF Answered
  <2>2. PICK k \in 0..e :
           /\ recv = SubSeq(f, 1, k) /\ down = SubSeq(f, k + 1, e)
           /\ k < e => phase = "SERVER_RECV"
    BY <1>0, <1>11 DEF Answered, e
  <2>3. /\ down' = SubSeq(down, n + 1, Len(down)) /\ seg_pending' = seg_pending
        /\ UNCHANGED store
    BY <1>1, <2>1, Zenon DEF SecondHalf
  <2>4. k \in Nat /\ k < e /\ n \in 1..(e - k) /\ n \in Nat
    <3>1. k \in Nat /\ k <= e
      BY <1>4, <2>2
    <3>2. k < e
      <4> SUFFICES ASSUME ~(k < e) PROVE FALSE
        OBVIOUS
      <4>1. down = <<>>
        <5>1. k + 1 \in Int /\ e \in Int /\ e < k + 1
          BY <1>4, <3>1
        <5> QED BY <2>2, <5>1, SubSeqEmpty
      <4> QED BY <1>6, <4>1
    <3>3. Len(down) = e - k
      <4>1. 1 \in 1..(e - k) /\ e <= Len(f) /\ k \in 0..e
        BY <1>4, <3>1, <3>2 DEF e
      <4> QED BY <1>4, <2>2, <4>1, TakeMore
    <3> QED BY <1>4, <1>5, <3>1, <3>2, <3>3
  <2>5. /\ recv \o SubSeq(down, 1, n) = SubSeq(f, 1, k + n)
        /\ down' = SubSeq(f, k + n + 1, e)
    <3>1. e <= Len(f) /\ k \in 0..e
      BY <1>4, <2>4 DEF e
    <3> QED BY <1>4, <2>2, <2>3, <2>4, <3>1, TakeMore
  <2>6. Kept'
    BY <1>2, <2>1, <2>3 DEF Kept, OnlyTaken, store, answer
  <2>7. k + n \in 1..e /\ k + n \in 0..e
    BY <1>4, <2>4
  <2>8. /\ recv' = SubSeq(f, 1, k + n)
        /\ IF k + n < e THEN phase' = "SERVER_RECV"
           ELSE /\ report' = Client!ResultOf(f, RequestFor(m0))
                /\ phase' = "DONE" => ~(report'.reg_count < 0)
    <3>1. CASE k + n < e
      BY <1>9, <2>2, <2>4, <2>5, <2>7, <3>1
    <3>2. CASE ~(k + n < e)
      <4> DEFINE b == recv \o SubSeq(down, 1, n)
      <4>1. k + n = e
        BY <1>4, <2>7, <3>2
      <4>2. b = f
        BY <1>4, <2>5, <4>1, SubSeqFull DEF e
      <4>3. Client!resp_parse(b).res = "FRAME_READY" /\ Client!resp_parse(b).len = e
        <5>1. resp_parse(SubSeq(f, 1, e)) = [res |-> "FRAME_READY", len |-> e]
          <6>1. e \in 1..e /\ ~(e < e)
            BY <1>4
          <6> QED BY <1>0, <1>3, <6>1, ReplyDelimited DEF e
        <5>2. SubSeq(f, 1, e) = f
          BY <1>4, SubSeqFull DEF e
        <5>3. Client!resp_parse(b) = resp_parse(b)
          BY ClientCodec
        <5>4. Client!resp_parse(b) = [res |-> "FRAME_READY", len |-> e]
          BY <4>2, <5>1, <5>2, <5>3, Zenon
        <5> QED BY <5>4
      <4> HIDE DEF b
      <4>4. /\ recv' = SubSeq(b, 1, e) /\ rx_count' = rx_count + 1
            /\ \/ Client!FitsPdu(recv') /\ report' = Client!ResultOf(recv', req[current])
               \/ ~Client!FitsPdu(recv') /\ UNCHANGED report
        BY <1>8, <4>3, Zenon DEF Client!Collect, b
      <4>5. recv' = f
        BY <1>4, <4>2, <4>4, SubSeqFull DEF e
      <4>9. Client!FitsPdu(f)
        BY <1>0, <1>3, ReplyFits
      <4>6. report' = Client!ResultOf(f, RequestFor(m0))
        BY <4>4, <4>5, <4>9
      <4>7. phase' = "DONE" => ~(report'.reg_count < 0)
        <5>1. phase = "SERVER_RECV"
          BY <2>2, <2>4
        <5>3. \/ phase' = phase
              \/ phase' = IF report'.reg_count < 0 THEN phase ELSE "DONE"
          BY <1>2, Zenon DEF master_done_cb
        <5>4. phase' = "DONE" => ~(report'.reg_count < 0)
          BY <5>1, <5>3
        <5> QED BY <5>4
      <4>8. recv' = SubSeq(f, 1, k + n)
        BY <1>4, <4>1, <4>5, SubSeqFull DEF e
      <4> QED BY <3>2, <4>6, <4>7, <4>8
    <3> QED BY <3>1, <3>2
  <2>9. Answered'
    <3>1. \E j \in 0..Len(f) :
             /\ recv' = SubSeq(f, 1, j)
             /\ down' = SubSeq(f, j + 1, Len(f))
             /\ IF j < Len(f) THEN phase' = "SERVER_RECV"
                ELSE /\ report' = Client!ResultOf(f, RequestFor(m0))
                     /\ phase' = "DONE" => ~(report'.reg_count < 0)
      BY <2>5, <2>7, <2>8 DEF e
    <3>2. "srv_poll" \notin polls' /\ ~seg_pending'
      BY <1>2, <2>1, <2>3
    <3> QED BY <1>0, <1>2, <2>6, <3>1, <3>2, Zenon DEF Answered
  <2> QED BY <2>9 DEF Underway
<1> QED BY <1>7, <1>10, <1>11

(* A step of one of the polls. *)
LEMMA PollStep ==
    ASSUME IInv, [Next]_vars, egw_lb_slave_on_poll \/ egw_lb_master_on_poll
    PROVE  IInv'
<1>1. Iterating
  <2>1. CASE egw_lb_slave_on_poll
    BY <2>1, Zenon DEF egw_lb_slave_on_poll
  <2>2. CASE egw_lb_master_on_poll
    BY <2>2, Zenon DEF egw_lb_master_on_poll
  <2> QED BY <2>1, <2>2
<1>2. handles /= {} /\ app /= "send" /\ app \in {"loop", "stopping"}
  BY <1>1 DEF IInv, NotStarted, Iterating
<1>3. /\ current = Slot /\ req[Slot] = RequestFor(m0) /\ Sent(m0) /= <<>>
      /\ Clean /\ Answerable(m0) => Underway
  BY <1>2 DEF IInv, Started
<1>4. Clean' => Clean
  BY <1>2, CleanBefore DEF IInv
<1>5. /\ m0' = m0 /\ handles' = handles /\ lost' = lost /\ app' \in {"loop", "stopping"}
      /\ req' = req /\ current' = current /\ rx_count' \in Nat
  <2>1. CASE egw_lb_slave_on_poll
    <3>1. UNCHANGED <<cvars, m0, app, handles, lost>>
      BY <2>1, Zenon DEF egw_lb_slave_on_poll
    <3> QED BY <1>2, <3>1 DEF cvars, IInv, Typed
  <2>2. CASE egw_lb_master_on_poll
    <3>1. PICK n \in Received(Len(down)) : Client!ReserveCommit(SubSeq(down, 1, n))
      BY <2>2, Zenon DEF egw_lb_master_on_poll
    <3>2. UNCHANGED <<m0, handles, lost>> /\ master_done_cb
      BY <2>2, Zenon DEF egw_lb_master_on_poll
    <3>3. req' = req /\ current' = current /\ Client!Collect(recv \o SubSeq(down, 1, n))
      BY <3>1, Zenon DEF Client!ReserveCommit, Client!list
    <3>4. rx_count' = rx_count \/ rx_count' = rx_count + 1
      BY <3>3, Zenon DEF Client!Collect
    <3>5. rx_count' \in Nat
      BY <3>4 DEF IInv, Typed
    <3>6. app' \in {"loop", "stopping"}
      BY <1>2, <3>2 DEF master_done_cb
    <3> QED BY <3>2, <3>3, <3>5, <3>6
  <2> QED BY <2>1, <2>2
<1>6. Clean' /\ Answerable(m0') => Underway'
  BY <1>3, <1>4, <1>5, SlaveUnderway, MasterUnderway
<1>7. Typed'
  BY <1>5 DEF IInv, Typed
<1>8. NotStarted'
  BY <1>2, <1>5 DEF NotStarted
<1>9. Started'
  BY <1>3, <1>5, <1>6 DEF Started
<1> QED BY <1>7, <1>8, <1>9 DEF IInv

(* Init establishes the invariant, every step keeps it, and so it always holds. *)
LEMMA InitIInv == Init => IInv
<1> SUFFICES ASSUME Init PROVE IInv
  OBVIOUS
<1>1. /\ m0 \in MasterRows /\ app = "setup" /\ phase = "SERVER_RECV" /\ seg_pending = FALSE
      /\ handles = {} /\ down = <<>> /\ lost = 0 /\ handed = <<>>
      /\ value = [i \in 1..Len(SlaveRows) |-> 0]
  BY DEF Init
<1>2. rd = 0 /\ wr = 0 /\ resp = <<>> /\ sending = FALSE
  BY DEF Init, Server!Init
<1>3. rx_count = 0 /\ recv = <<>> /\ report = NULL /\ req = [s \in {Slot} |-> NULL]
  BY DEF Init, Client!Init
<1>4. Typed
  BY <1>1, <1>3 DEF Typed
<1>5. NotStarted
  BY <1>1, <1>2, <1>3 DEF NotStarted, Untouched
<1>6. Started
  BY <1>1 DEF Started
<1> QED BY <1>4, <1>5, <1>6 DEF IInv

LEMMA NextIInv == ASSUME IInv, [Next]_vars PROVE IInv'
<1>1. CASE Setup
  BY <1>1, SetupStep
<1>2. CASE Send
  BY <1>2, SendStep
<1>3. CASE egw_lb_slave_on_poll \/ egw_lb_master_on_poll
  BY <1>3, PollStep
<1>4. CASE LoseByte
  BY <1>4, LoseStep
<1>5. CASE SetupFails
  BY <1>5, QuietStep DEF SetupFails, moving, IInv, Started
<1>6. CASE EndLoop
  BY <1>6, QuietStep DEF EndLoop, moving
<1>7. CASE Cleanup
  <2>1. /\ UNCHANGED <<moving, handles>> /\ polls' \subseteq polls
        /\ app' = IF handles = {} THEN "crashed" ELSE "done"
    BY <1>7 DEF Cleanup, moving
  <2> QED BY <2>1, QuietStep
<1>8. CASE egw_lb_on_timeout
  <2>1. /\ UNCHANGED <<moving, handles>> /\ polls' \subseteq polls
        /\ app = "loop" /\ app' = "stopping"
    BY <1>8 DEF egw_lb_on_timeout, moving
  <2>2. handles /= {}
    BY <2>1 DEF IInv, NotStarted
  <2> QED BY <2>1, <2>2, QuietStep
<1>9. CASE UNCHANGED vars
  <2>1. UNCHANGED <<moving, handles>> /\ polls' \subseteq polls /\ app' = app
    BY <1>9 DEF vars, moving, ctx
  <2>2. handles /= {} => app /= "crashed"
    BY DEF IInv, Started
  <2> QED BY <2>1, <2>2, QuietStep
<1> QED BY <1>1, <1>2, <1>3, <1>4, <1>5, <1>6, <1>7, <1>8, <1>9 DEF Next, Code

LEMMA Invariant == Spec => []IInv
<1>1. Init => IInv
  BY InitIInv
<1>2. IInv /\ [Next]_vars => IInv'
  BY NextIInv
<1> QED BY <1>1, <1>2, PTL DEF Spec

-------------------------------------------------------------------------------
(* The theorems. *)

(* CrashLosesNothing: when the clean-up of a failed start ends the process nothing was
   served, handed over or reported, whatever the rows, the step that failed, the bytes a
   write accepted and those the line lost. *)
THEOREM NothingLost == Spec => []CrashLosesNothing
<1>1. IInv => CrashLosesNothing
  <2> SUFFICES ASSUME IInv, app = "crashed"
               PROVE  /\ handed = <<>> /\ report = NULL
                      /\ \A i \in 1..Len(SlaveRows) : value[i] = 0
    BY DEF CrashLosesNothing
  <2>1. handles = {}
    BY DEF IInv, Started
  <2> QED BY <2>1 DEF IInv, NotStarted, Untouched
<1> QED BY <1>1, Invariant, PTL

(* ReportedIsServed while no byte is lost and writes are complete, or may be cut short but
   nothing went wrong (egw_lb_slave_on_poll, egw_lb_master_on_poll): whatever the rows,
   with device_id and reg_addr repeated or not, the checksum, the pieces the bytes arrive
   in, the size of the receive buffers and, with complete writes, the moment the timer
   fires, a loopback of 1..125 registers or 1..256 coils that ends DONE reports what
   slave_read_cb stored for the row that was asked for; exactly one row with the key takes
   the first register, which is handed over once.  Of other counts, which nothing in the
   code excludes, it says nothing; nor of 0x0F and 0x10, for which no row has data. *)
THEOREM ServedIsReported == Spec => [](Clean => ReportedIsServed)
<1>1. IInv => (Clean => ReportedIsServed)
  <2> SUFFICES ASSUME IInv, Clean, phase = "DONE", Answerable(m0)
               PROVE  ReportedIsServed
    BY DEF ReportedIsServed
  <2>1. handles /= {}
    BY DEF IInv, NotStarted
  <2>2. Underway /\ Sent(m0) /= <<>> /\ m0 \in MasterRows
    BY <2>1 DEF IInv, Started, Typed
  <2>3. Answered
    BY <2>2 DEF Underway, Asking, Answering, Unanswered
  <2>4. report = Client!ResultOf(Reply(m0), RequestFor(m0)) /\ ~(report.reg_count < 0) /\ Kept
    BY <2>3 DEF Answered
  <2>5. m0.func_code \in ReadCodes /\ report.regs = Served(m0)
    BY <2>2, <2>4, ReplyReported
  <2> QED BY <2>4, <2>5, Zenon DEF Kept, ReportedIsServed, UnitOf
<1> QED BY <1>1, Invariant, PTL

===============================================================================
