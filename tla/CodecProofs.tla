------------------------------ MODULE CodecProofs ------------------------------
(***************************************************************************)
(* Facts about the codec of ModbusCore for every byte string and every     *)
(* checksum function.                                                      *)
(***************************************************************************)
EXTENDS ModbusCore, SequenceTheorems, WellFoundedInduction, TLAPS

-------------------------------------------------------------------------------
(* Numbers. *)

(* The least-number principle, which stands in for induction. *)
LEMMA LeastNumber ==
    ASSUME NEW T, T \subseteq Nat, T /= {}
    PROVE  \E x \in T : \A y \in T : x <= y
<1> DEFINE R == OpToRel(<, Nat)
<1>1. IsWellFoundedOn(R, Nat)
  BY NatLessThanWellFounded
<1>2. \A x, y \in Nat : x < y => <<x, y>> \in R
  BY DEF OpToRel
<1> HIDE DEF R
<1>3. PICK x \in T : \A y \in T : ~(<<y, x>> \in R)
  BY <1>1, WFMin
<1>4. \A y \in T : y \in Nat
  OBVIOUS
<1>5. \A y \in T : ~(y < x)
  BY <1>2, <1>3
<1>6. \A y \in T : x <= y
  BY <1>4, <1>5
<1> QED BY <1>6

(* Induction up to n, for a set of numbers. *)
LEMMA Climb ==
    ASSUME NEW n \in Nat, NEW m \in 0..n, NEW G, m \in G,
           \A i \in m..n : i \in G /\ i < n => i + 1 \in G
    PROVE  \A i \in m..n : i \in G
<1> DEFINE Bad == {i \in m..n : i \notin G}
<1>1. SUFFICES ASSUME Bad /= {} PROVE FALSE
  OBVIOUS
<1>2. PICK x \in Bad : \A y \in Bad : x <= y
  <2>1. Bad \subseteq Nat
    OBVIOUS
  <2> HIDE DEF Bad
  <2> QED BY <1>1, <2>1, LeastNumber
<1>3. x \in m + 1..n
  BY <1>2
<1>4. x - 1 \in m..n /\ x - 1 \in G
  BY <1>2, <1>3
<1>5. (x - 1) + 1 \in G
  BY <1>3, <1>4
<1> QED BY <1>2, <1>3, <1>5

(* The two bytes of a word are bytes (the casts to uint8_t of the codec). *)
LEMMA HighLowType == \A w \in Nat : High(w) \in Byte /\ Low(w) \in Byte
BY DEF High, Low, Byte

(* A position inside a ring of n bytes is unchanged by the modulus; past its end it loses
   n once. *)
LEMMA ModSmall == ASSUME NEW a \in Nat, NEW n \in Nat \ {0}, a < n PROVE a % n = a
OBVIOUS

(* One subtraction suffices below twice the modulus. *)
LEMMA ModOnce ==
    ASSUME NEW a \in Nat, NEW n \in Nat \ {0}, n <= a, a < n + n PROVE a % n = a - n
OBVIOUS

(* A uint8_t is an integer from 0 to 255. *)
LEMMA ByteRange == \A x \in Byte : x \in Int /\ 0 <= x /\ x <= 255
BY DEF Byte

(* A uint8_t is a natural number up to 255. *)
LEMMA ByteIff == \A x : x \in Byte <=> x \in Nat /\ x <= 255
<1>1. \A m : m = 255 => m \in Nat /\ Byte = 0..m
  BY SMT DEF Byte
<1>2. \A m \in Nat : Byte = 0..m => \A w : (w \in Byte <=> w \in Nat /\ w <= m)
  BY SMT
<1>3. \A m : m = 255 => \A w : (w \in Byte <=> w \in Nat /\ w <= m)
  BY <1>1, <1>2, SMT
<1> QED BY <1>3, SMT

(* A uint16_t is a natural number up to 65535.  The number is kept out of the proof,
   because the provers write out an interval whose bounds they see. *)
LEMMA WordRange == \A w : w \in Word <=> w \in Nat /\ w <= 65535
<1>1. \A m : m = 65535 => m \in Nat /\ Word = 0..m
  BY SMT DEF Word
<1>2. \A m \in Nat : Word = 0..m => \A w : (w \in Word <=> w \in Nat /\ w <= m)
  BY SMT
<1>3. \A m : m = 65535 => \A w : (w \in Word <=> w \in Nat /\ w <= m)
  BY <1>1, <1>2, SMT
<1> QED BY <1>3, SMT

(* A uint16_t is a natural number. *)
LEMMA WordIsNat == \A w \in Word : w \in Nat
BY WordRange, SMT

(* Two bytes make a uint16_t. *)
LEMMA BEType == \A h, l \in Byte : BE(h, l) \in Word
<1> SUFFICES ASSUME NEW h \in Byte, NEW l \in Byte PROVE BE(h, l) \in Word
  OBVIOUS
<1>1. 256 * h + l \in Nat /\ 256 * h + l <= 65535
  BY ByteRange, SMT
<1> QED BY <1>1, WordRange, SMT DEF BE

(* A word is its two bytes, and two bytes make a word; for numbers. *)
LEMMA SplitWord == \A w \in Nat : w <= 65535 =>
    /\ w \div 256 \in Nat /\ w \div 256 <= 255 /\ w % 256 \in Nat /\ w % 256 <= 255
    /\ w = 256 * (w \div 256) + (w % 256)
BY SMT

LEMMA JoinWord == \A h, l \in Nat : h <= 255 /\ l <= 255 =>
    /\ 256 * h + l \in Nat /\ 256 * h + l <= 65535
    /\ (256 * h + l) \div 256 = h /\ (256 * h + l) % 256 = l
BY SMT

(* The bytes of a number that is one byte. *)
LEMMA ByteOfByte == \A b \in Nat : b <= 255 => b \div 256 = 0 /\ b % 256 = b /\ b <= 65535
BY SMT

(* The bytes of a uint16_t. *)
LEMMA WordBytes ==
    /\ \A w \in Word : w \div 256 \in Byte /\ w % 256 \in Byte /\ w = 256 * (w \div 256) + (w % 256)
    /\ \A h, l \in Byte : /\ 256 * h + l \in Word
                          /\ (256 * h + l) \div 256 = h /\ (256 * h + l) % 256 = l
    /\ \A b \in Byte : b \div 256 = 0 /\ b % 256 = b /\ b \in Word
<1>1. ASSUME NEW w \in Word
      PROVE  w \div 256 \in Byte /\ w % 256 \in Byte /\ w = 256 * (w \div 256) + (w % 256)
  <2>1. w \in Nat /\ w <= 65535
    BY WordRange, SMT
  <2> QED BY <2>1, SplitWord, ByteIff
<1>2. ASSUME NEW h \in Byte, NEW l \in Byte
      PROVE  /\ 256 * h + l \in Word
             /\ (256 * h + l) \div 256 = h /\ (256 * h + l) % 256 = l
  <2>1. h \in Nat /\ h <= 255 /\ l \in Nat /\ l <= 255
    BY ByteIff
  <2>2. /\ 256 * h + l \in Nat /\ 256 * h + l <= 65535
        /\ (256 * h + l) \div 256 = h /\ (256 * h + l) % 256 = l
    BY <2>1, JoinWord
  <2> QED BY <2>2, WordRange, SMT
<1>3. ASSUME NEW b \in Byte PROVE b \div 256 = 0 /\ b % 256 = b /\ b \in Word
  <2>1. b \in Nat /\ b <= 255
    BY ByteIff
  <2>2. b \div 256 = 0 /\ b % 256 = b /\ b <= 65535
    BY <2>1, ByteOfByte
  <2> QED BY <2>1, <2>2, WordRange, SMT
<1> QED BY <1>1, <1>2, <1>3

(* A word is known from its two bytes. *)
LEMMA HighLow == \A w \in Word : /\ BE(High(w), Low(w)) = w
                                 /\ High(w) \in Byte /\ Low(w) \in Byte
<1> SUFFICES ASSUME NEW w \in Word
             PROVE  BE(High(w), Low(w)) = w /\ High(w) \in Byte /\ Low(w) \in Byte
  OBVIOUS
<1>1. w \div 256 \in Byte /\ w % 256 \in Byte /\ w = 256 * (w \div 256) + (w % 256)
  BY WordBytes
<1>2. (w \div 256) % 256 = w \div 256
  BY <1>1, WordBytes
<1> QED BY <1>1, <1>2 DEF BE, High, Low

-------------------------------------------------------------------------------
(* Frames. *)

(* The checksum is a uint16_t. *)
LEMMA ChecksumType == ASSUME NEW s PROVE Checksum(s) \in Word
<1>1. 0 \in Word
  BY WordRange, SMT
<1> QED BY <1>1, Zenon DEF Checksum

(* A frame built around bytes consists of bytes. *)
LEMMA AduType ==
    ASSUME NEW transport, NEW tid \in Nat, NEW unit \in Byte, NEW pdu \in Seq(Byte)
    PROVE  Adu(transport, tid, unit, pdu) \in Seq(Byte)
<1>1. Checksum(<<unit>> \o pdu) \in Nat
  BY ChecksumType, WordIsNat
<1>2. <<unit>> \o pdu \in Seq(Byte)
  OBVIOUS
<1>3. Len(pdu) + 1 \in Nat
  OBVIOUS
<1>4. 0 \in Byte
  BY DEF Byte
<1>5. CASE transport = RTU
  <2>1. <<Low(Checksum(<<unit>> \o pdu)), High(Checksum(<<unit>> \o pdu))>> \in Seq(Byte)
    BY <1>1, HighLowType
  <2> QED BY <1>2, <1>5, <2>1 DEF Adu
<1>6. CASE transport /= RTU
  <2>1. <<High(tid), Low(tid), 0, 0, High(Len(pdu) + 1), Low(Len(pdu) + 1), unit>> \in Seq(Byte)
    BY <1>3, <1>4, HighLowType
  <2> QED BY <1>6, <2>1 DEF Adu
<1> QED BY <1>5, <1>6

(* What a transport unpacks from bytes is a byte and bytes. *)
LEMMA DecodeType ==
    ASSUME NEW transport, NEW f \in Seq(Byte)
    PROVE  LET d == egw_modbus_decode(transport, f)
           IN  d.ok \in BOOLEAN /\ d.unit \in Byte /\ d.pdu \in Seq(Byte)
<1> DEFINE bad == [ok |-> FALSE, unit |-> 0, pdu |-> <<>>]
<1>1. bad.ok \in BOOLEAN /\ bad.unit \in Byte /\ bad.pdu \in Seq(Byte)
  BY DEF Byte
<1>2. CASE transport = RTU /\ Len(f) >= 4 /\ validate(f)
  <2>1. egw_modbus_decode(transport, f)
          = [ok |-> TRUE, unit |-> f[1], pdu |-> SubSeq(f, 2, Len(f) - 2)]
    BY <1>2 DEF egw_modbus_decode
  <2>2. f[1] \in Byte /\ SubSeq(f, 2, Len(f) - 2) \in Seq(Byte)
    BY <1>2
  <2> QED BY <2>1, <2>2
<1>3. CASE transport /= RTU /\ Len(f) >= 8 /\ BE(f[5], f[6]) >= 1 /\ Len(f) >= BE(f[5], f[6]) + 6
  <2>1. egw_modbus_decode(transport, f)
          = [ok |-> TRUE, unit |-> f[7], pdu |-> SubSeq(f, 8, BE(f[5], f[6]) + 6)]
    BY <1>3 DEF egw_modbus_decode
  <2>2. f[7] \in Byte /\ f[5] \in Byte /\ f[6] \in Byte
    BY <1>3
  <2>3. BE(f[5], f[6]) \in Nat
    BY <2>2, BEType, WordIsNat
  <2>4. SubSeq(f, 8, BE(f[5], f[6]) + 6) \in Seq(Byte)
    BY <1>3, <2>3
  <2> QED BY <2>1, <2>2, <2>4
<1>4. CASE ~(transport = RTU /\ Len(f) >= 4 /\ validate(f))
           /\ ~(transport /= RTU /\ Len(f) >= 8 /\ BE(f[5], f[6]) >= 1
                                 /\ Len(f) >= BE(f[5], f[6]) + 6)
  <2>1. egw_modbus_decode(transport, f) = bad
    BY <1>4 DEF egw_modbus_decode
  <2> HIDE DEF bad
  <2> QED BY <1>1, <2>1
<1> QED BY <1>2, <1>3, <1>4

(* The fields of a parsed request have the widths of their C types. *)
LEMMA ParseRequestType ==
    ASSUME NEW pdu \in Seq(Byte), NEW junk \in Byte
    PROVE  LET q == egw_modbus_parse_request(pdu, junk)
           IN  /\ q.ok \in BOOLEAN /\ q.fc \in Byte /\ q.count \in Nat
               /\ q.data \in Seq(Byte)
               /\ q.ok => q.fc \in ReadCodes \cup WriteOne \cup WriteMany
<1> DEFINE fc == ByteAt(pdu, 1, junk)
<1> DEFINE n == Len(pdu)
<1>1. fc \in Byte
  BY DEF ByteAt
<1>2. n >= 5 => BE(pdu[4], pdu[5]) \in Nat
  <2>1. n >= 5 => pdu[4] \in Byte /\ pdu[5] \in Byte
    OBVIOUS
  <2> QED BY <2>1, BEType, WordIsNat
<1>3. n >= 5 => SubSeq(pdu, 4, n) \in Seq(Byte)
  OBVIOUS
<1>4. n >= 6 => SubSeq(pdu, 7, n) \in Seq(Byte)
  OBVIOUS
<1>5. CASE fc \in ReadCodes /\ n >= 5
  BY <1>1, <1>2, <1>5 DEF egw_modbus_parse_request, ReadCodes, WriteOne, WriteMany
<1>6. CASE fc \in WriteOne /\ n >= 5
  BY <1>1, <1>3, <1>6 DEF egw_modbus_parse_request, ReadCodes, WriteOne, WriteMany
<1>7. CASE fc \in WriteMany /\ n >= 6
  BY <1>1, <1>2, <1>4, <1>7 DEF egw_modbus_parse_request, ReadCodes, WriteOne, WriteMany
<1>8. CASE /\ ~(fc \in ReadCodes /\ n >= 5) /\ ~(fc \in WriteOne /\ n >= 5)
           /\ ~(fc \in WriteMany /\ n >= 6)
  <2>1. egw_modbus_parse_request(pdu, junk)
          = [ok |-> FALSE, fc |-> fc, addr |-> 0, count |-> 0, data |-> <<>>]
    BY <1>8 DEF egw_modbus_parse_request
  <2> HIDE DEF fc
  <2> QED BY <1>1, <2>1
<1> QED BY <1>5, <1>6, <1>7, <1>8

(* The server's length inference: an integer above 4, or one of the two codes. *)
LEMMA FrameLenRange ==
    ASSUME NEW b \in Seq(Byte)
    PROVE  /\ modbus_frame_len(b) \in Int
           /\ modbus_frame_len(b) \in {NeedLength, BadLength} \/ modbus_frame_len(b) >= 5
           /\ Len(b) >= 7 => modbus_frame_len(b) /= NeedLength
<1>0. \A i \in 1..Len(b) : b[i] \in Byte
  OBVIOUS
<1>1. Len(b) >= 7 => b[7] \in Int /\ b[7] >= 0
  <2>1. Len(b) >= 7 => b[7] \in Byte
    BY <1>0
  <2> QED BY <2>1, ByteRange
<1>2. Len(b) >= 2 => b[2] \in Int /\ b[2] <= 255
  <2>1. Len(b) >= 2 => b[2] \in Byte
    BY <1>0
  <2> QED BY <2>1, ByteRange
<1>3. CASE Len(b) < 2
  BY <1>3 DEF modbus_frame_len, NeedLength, BadLength
<1>4. CASE Len(b) >= 2 /\ (b[2] >= 128 \/ b[2] \in ReadCodes \/ b[2] \in WriteOne)
  BY <1>2, <1>4 DEF modbus_frame_len, NeedLength, BadLength, ReadCodes, WriteOne, WriteMany
<1>5. CASE Len(b) >= 2 /\ b[2] \in WriteMany /\ Len(b) < 7
  BY <1>2, <1>5 DEF modbus_frame_len, NeedLength, BadLength, ReadCodes, WriteOne, WriteMany
<1>6. CASE b[2] \in WriteMany /\ Len(b) >= 7
  <2>1. modbus_frame_len(b) = 9 + b[7]
    BY <1>2, <1>6 DEF modbus_frame_len, ReadCodes, WriteOne, WriteMany
  <2> QED BY <1>1, <1>6, <2>1 DEF NeedLength, BadLength
<1>7. CASE Len(b) >= 2 /\ ~(b[2] >= 128) /\ b[2] \notin ReadCodes \cup WriteOne \cup WriteMany
  BY <1>2, <1>7 DEF modbus_frame_len, NeedLength, BadLength
<1> QED BY <1>3, <1>4, <1>5, <1>6, <1>7

(* The three outcomes of the server's delimiter.  A ready frame is a proper prefix
   of at least five bytes; while more bytes are wanted of a string that is long
   enough to carry a byte count, the inferred length exceeds the string. *)
LEMMA DelimitOutcome ==
    ASSUME NEW b \in Seq(Byte)
    PROVE  LET p == parse_and_check(b)
           IN  /\ p.res \in {"NEED_MORE", "FRAME_ERROR", "FRAME_READY"}
               /\ p.res = "FRAME_READY" => p.len \in 5..Len(b) /\ p.len = modbus_frame_len(b)
               /\ p.res = "NEED_MORE" /\ Len(b) >= 7 => modbus_frame_len(b) > Len(b)
<1> DEFINE e == modbus_frame_len(b)
<1> DEFINE p == parse_and_check(b)
<1>1. /\ e \in Int
      /\ e \in {NeedLength, BadLength} \/ e >= 5
      /\ Len(b) >= 7 => e /= NeedLength
  BY FrameLenRange
<1>2. p = Delimit(b, e)
  BY DEF parse_and_check
<1> HIDE DEF e, p
<1>3. Len(b) \in Nat
  OBVIOUS
<1>4. CASE Len(b) < MIN_FRAME \/ e = NeedLength
  <2>1. p = [res |-> "NEED_MORE", len |-> 0]
    BY <1>1, <1>2, <1>3, <1>4 DEF Delimit, MIN_FRAME, NeedLength, BadLength
  <2> QED BY <1>1, <1>3, <1>4, <2>1 DEF MIN_FRAME, p
<1>5. CASE Len(b) >= MIN_FRAME /\ e = BadLength
  <2>1. p = [res |-> "FRAME_ERROR", len |-> 0]
    BY <1>1, <1>2, <1>3, <1>5 DEF Delimit, MIN_FRAME, NeedLength, BadLength
  <2> QED BY <2>1 DEF p
<1>6. CASE Len(b) >= MIN_FRAME /\ e >= 5 /\ Len(b) < e
  <2>1. p = [res |-> "NEED_MORE", len |-> 0]
    BY <1>1, <1>2, <1>3, <1>6 DEF Delimit, MIN_FRAME, NeedLength, BadLength
  <2> QED BY <1>1, <1>3, <1>6, <2>1 DEF p, e
<1>7. CASE e >= 5 /\ Len(b) >= e
  <2>1. p = IF validate(SubSeq(b, 1, e)) THEN [res |-> "FRAME_READY", len |-> e]
                                         ELSE [res |-> "FRAME_ERROR", len |-> 0]
    BY <1>1, <1>2, <1>3, <1>7 DEF Delimit, MIN_FRAME, NeedLength, BadLength
  <2>2. CASE validate(SubSeq(b, 1, e))
    <3>1. p = [res |-> "FRAME_READY", len |-> e]
      BY <2>1, <2>2
    <3> QED BY <1>1, <1>3, <1>7, <3>1 DEF p, e
  <2>3. CASE ~validate(SubSeq(b, 1, e))
    <3>1. p = [res |-> "FRAME_ERROR", len |-> 0]
      BY <2>1, <2>3
    <3> QED BY <3>1 DEF p
  <2> QED BY <2>2, <2>3
<1> QED BY <1>1, <1>3, <1>4, <1>5, <1>6, <1>7 DEF MIN_FRAME, NeedLength, BadLength

(* What egw_modbus_encode makes of a PDU on a serial line: the unit, the PDU and a
   checksum that holds. *)
LEMMA AduShape ==
    ASSUME NEW tid, NEW unit \in Byte, NEW pdu \in Seq(Byte), pdu /= <<>>
    PROVE  LET f == Adu(RTU, tid, unit, pdu)
           IN  /\ f \in Seq(Byte) /\ Len(f) = Len(pdu) + 3 /\ validate(f)
               /\ f[1] = unit /\ \A i \in 1..Len(pdu) : f[i + 1] = pdu[i]
<1> DEFINE body == <<unit>> \o pdu
<1> DEFINE crc == Checksum(body)
<1> DEFINE f == body \o <<Low(crc), High(crc)>>
<1>1. Adu(RTU, tid, unit, pdu) = f
  BY DEF Adu
<1>2. /\ body \in Seq(Byte) /\ Len(body) = Len(pdu) + 1
      /\ body[1] = unit /\ \A i \in 1..Len(pdu) : body[i + 1] = pdu[i]
  OBVIOUS
<1>3. Low(crc) \in Byte /\ High(crc) \in Byte
  BY ChecksumType, WordIsNat, HighLowType
<1> HIDE DEF body, crc
<1>4. /\ f \in Seq(Byte) /\ Len(f) = Len(body) + 2
      /\ \A i \in 1..Len(body) : f[i] = body[i]
      /\ f[Len(body) + 1] = Low(crc) /\ f[Len(body) + 2] = High(crc)
  BY <1>2, <1>3
<1> HIDE DEF f
<1>5. SubSeq(f, 1, Len(f) - 2) = body
  BY <1>2, <1>4
<1>6. validate(f)
  <2>1. Len(f) - 1 = Len(body) + 1 /\ Len(f) = Len(body) + 2
    BY <1>2, <1>4
  <2>2. f[Len(f) - 1] = Low(crc) /\ f[Len(f)] = High(crc)
    BY <1>4, <2>1
  <2>3. Checksum(SubSeq(f, 1, Len(f) - 2)) = crc
    BY <1>5 DEF crc
  <2> QED BY <2>2, <2>3 DEF validate
<1>7. Len(f) = Len(pdu) + 3 /\ f[1] = unit
  BY <1>2, <1>4
<1>8. ASSUME NEW i \in 1..Len(pdu) PROVE f[i + 1] = pdu[i]
  <2>1. i + 1 \in 1..Len(body) /\ body[i + 1] = pdu[i]
    BY <1>2
  <2> QED BY <1>4, <2>1
<1> QED BY <1>1, <1>4, <1>6, <1>7, <1>8

(* The client's length inference: an integer above 4, or one of the two codes. *)
LEMMA RespLenRange ==
    ASSUME NEW b \in Seq(Byte)
    PROVE  /\ resp_frame_len(b) \in Int
           /\ resp_frame_len(b) \in {NeedLength, BadLength} \/ resp_frame_len(b) >= 5
<1>1. Len(b) >= 3 => b[3] \in Int /\ b[3] >= 0
  <2>1. Len(b) >= 3 => b[3] \in Byte
    OBVIOUS
  <2> QED BY <2>1, ByteRange
<1>2. Len(b) >= 2 => b[2] \in Int /\ b[2] <= 255
  <2>1. Len(b) >= 2 => b[2] \in Byte
    OBVIOUS
  <2> QED BY <2>1, ByteRange
<1>3. CASE Len(b) < 2
  BY <1>3 DEF resp_frame_len, NeedLength, BadLength
<1>4. CASE Len(b) >= 2 /\ (b[2] >= 128 \/ b[2] \in WriteOne \cup WriteMany)
  BY <1>2, <1>4 DEF resp_frame_len, ReadCodes, WriteOne, WriteMany
<1>5. CASE Len(b) >= 2 /\ b[2] \in ReadCodes /\ Len(b) < 3
  BY <1>2, <1>5 DEF resp_frame_len, NeedLength, BadLength, ReadCodes, WriteOne, WriteMany
<1>6. CASE b[2] \in ReadCodes /\ Len(b) >= 3
  <2>1. resp_frame_len(b) = 3 + b[3] + 2
    BY <1>2, <1>6 DEF resp_frame_len, ReadCodes, WriteOne, WriteMany
  <2> QED BY <1>1, <1>6, <2>1
<1>7. CASE Len(b) >= 2 /\ ~(b[2] >= 128) /\ b[2] \notin ReadCodes \cup WriteOne \cup WriteMany
  BY <1>2, <1>7 DEF resp_frame_len, NeedLength, BadLength
<1> QED BY <1>3, <1>4, <1>5, <1>6, <1>7

(* Three bytes decide on the length. *)
LEMMA RespLenPrefix ==
    ASSUME NEW b \in Seq(Byte), NEW c \in Seq(Byte), Len(b) >= 3, Len(c) >= 3,
           b[2] = c[2], b[3] = c[3]
    PROVE  resp_frame_len(b) = resp_frame_len(c)
<1>1. ~(Len(b) < 2) /\ ~(Len(c) < 2) /\ ~(Len(b) < 3) /\ ~(Len(c) < 3)
  OBVIOUS
<1>2. b[2] \in Int /\ c[2] \in Int
  <2>1. b[2] \in Byte /\ c[2] \in Byte
    BY <1>1
  <2> QED BY <2>1, ByteRange
<1> QED BY <1>1, <1>2 DEF resp_frame_len

(* The outcomes of the client's delimiter. *)
LEMMA RespOutcome ==
    ASSUME NEW b \in Seq(Byte)
    PROVE  /\ resp_parse(b).res \in {"NEED_MORE", "FRAME_ERROR", "FRAME_READY"}
           /\ resp_parse(b).res = "FRAME_READY" =>
                 /\ resp_parse(b).len \in 5..Len(b)
                 /\ resp_parse(b).len = resp_frame_len(b)
                 /\ validate(SubSeq(b, 1, resp_parse(b).len))
<1> DEFINE e == resp_frame_len(b)
           p == resp_parse(b)
<1>1. e \in Int /\ (e \in {NeedLength, BadLength} \/ e >= 5) /\ Len(b) \in Nat
  BY RespLenRange
<1>2. p = Delimit(b, e)
  BY DEF resp_parse
<1> HIDE DEF e, p
<1>3. CASE Len(b) < MIN_FRAME \/ e = NeedLength \/ (e >= 5 /\ Len(b) < e)
  <2>1. p = [res |-> "NEED_MORE", len |-> 0]
    BY <1>1, <1>2, <1>3 DEF Delimit, MIN_FRAME, NeedLength, BadLength
  <2> QED BY <2>1 DEF p
<1>4. CASE Len(b) >= MIN_FRAME /\ e = BadLength
  <2>1. p = [res |-> "FRAME_ERROR", len |-> 0]
    BY <1>1, <1>2, <1>4 DEF Delimit, MIN_FRAME, NeedLength, BadLength
  <2> QED BY <2>1 DEF p
<1>5. CASE e >= 5 /\ Len(b) >= e
  <2>1. p = IF validate(SubSeq(b, 1, e)) THEN [res |-> "FRAME_READY", len |-> e]
                                         ELSE [res |-> "FRAME_ERROR", len |-> 0]
    BY <1>1, <1>2, <1>5 DEF Delimit, MIN_FRAME, NeedLength, BadLength
  <2>2. CASE validate(SubSeq(b, 1, e))
    <3>1. p = [res |-> "FRAME_READY", len |-> e]
      BY <2>1, <2>2
    <3>2. p.len = e /\ e \in 5..Len(b) /\ p.res = "FRAME_READY"
      BY <1>1, <1>5, <3>1
    <3> QED BY <2>2, <3>2 DEF p, e
  <2>3. CASE ~validate(SubSeq(b, 1, e))
    <3>1. p = [res |-> "FRAME_ERROR", len |-> 0]
      BY <2>1, <2>3
    <3> QED BY <3>1 DEF p
  <2> QED BY <2>2, <2>3
<1> QED BY <1>1, <1>3, <1>4, <1>5 DEF MIN_FRAME

(* A frame with a valid checksum and the length the client infers from it is taken
   as one complete frame. *)
LEMMA WholeResponse ==
    ASSUME NEW f \in Seq(Byte), Len(f) >= 4, validate(f), resp_frame_len(f) = Len(f)
    PROVE  resp_parse(f) = [res |-> "FRAME_READY", len |-> Len(f)]
<1>1. SubSeq(f, 1, Len(f)) = f
  OBVIOUS
<1>2. Len(f) \in Nat
  OBVIOUS
<1>3. resp_parse(f) = Delimit(f, Len(f))
  BY DEF resp_parse
<1> DEFINE n == Len(f)
<1>4. n \in Nat /\ n >= 4 /\ validate(SubSeq(f, 1, n))
  BY <1>1, <1>2
<1>5. Delimit(f, n) = IF validate(SubSeq(f, 1, n)) THEN [res |-> "FRAME_READY", len |-> n]
                                                  ELSE [res |-> "FRAME_ERROR", len |-> 0]
  BY <1>2 DEF Delimit, MIN_FRAME, NeedLength, BadLength
<1>6. Delimit(f, n) = [res |-> "FRAME_READY", len |-> n]
  <2> HIDE DEF n
  <2> QED BY <1>4, <1>5, Zenon
<1> QED BY <1>3, <1>6

(* Unpacking what was packed gives back the unit and the PDU, on a serial line and
   for every checksum: egw_modbus_encode and egw_modbus_decode agree on where the
   checksum is, what it covers and in which order its bytes go. *)
THEOREM RtuRoundTrip ==
    ASSUME NEW tid, NEW unit \in Byte, NEW pdu \in Seq(Byte), pdu /= <<>>
    PROVE  egw_modbus_decode(RTU, Adu(RTU, tid, unit, pdu))
             = [ok |-> TRUE, unit |-> unit, pdu |-> pdu]
<1> DEFINE f == Adu(RTU, tid, unit, pdu)
<1>1. /\ f \in Seq(Byte) /\ Len(f) = Len(pdu) + 3 /\ validate(f)
      /\ f[1] = unit /\ \A i \in 1..Len(pdu) : f[i + 1] = pdu[i]
  BY AduShape
<1> HIDE DEF f
<1>2. Len(pdu) >= 1
  OBVIOUS
<1>3. SubSeq(f, 2, Len(f) - 2) = pdu
  <2>1. /\ SubSeq(f, 2, Len(f) - 2) \in Seq(Byte)
        /\ Len(SubSeq(f, 2, Len(f) - 2)) = Len(pdu)
    BY <1>1, <1>2
  <2>2. \A i \in 1..Len(pdu) : SubSeq(f, 2, Len(f) - 2)[i] = pdu[i]
    BY <1>1, <1>2
  <2> QED BY <2>1, <2>2, SeqEqual
<1>4. egw_modbus_decode(RTU, f) = [ok |-> TRUE, unit |-> unit, pdu |-> pdu]
  <2>1. Len(f) >= 4
    BY <1>1, <1>2
  <2> QED BY <1>1, <1>3, <2>1 DEF egw_modbus_decode
<1> QED BY <1>4 DEF f

-------------------------------------------------------------------------------
(* Requests. *)

(* Three bytes and two more. *)
LEMMA FiveBytes ==
    ASSUME NEW a \in Byte, NEW b \in Byte, NEW c \in Byte, NEW t \in Seq(Byte), Len(t) = 2
    PROVE  LET s == <<a, b, c>> \o t
           IN  /\ s \in Seq(Byte) /\ Len(s) = 5 /\ s[1] = a /\ s[2] = b /\ s[3] = c
               /\ s[4] = t[1] /\ s[5] = t[2]
<1> DEFINE h == <<a, b, c>>
<1>1. h \in Seq(Byte) /\ Len(h) = 3 /\ h[1] = a /\ h[2] = b /\ h[3] = c
  OBVIOUS
<1> HIDE DEF h
<1>2. /\ h \o t \in Seq(Byte) /\ Len(h \o t) = Len(h) + Len(t)
      /\ \A i \in 1..Len(h) + Len(t) : (h \o t)[i] = IF i <= Len(h) THEN h[i] ELSE t[i - Len(h)]
  BY <1>1, ConcatProperties
<1>3. Len(h \o t) = 5 /\ \A i \in 1..5 : (h \o t)[i] = IF i <= 3 THEN h[i] ELSE t[i - 3]
  BY <1>1, <1>2
<1>4. /\ (h \o t)[1] = h[1] /\ (h \o t)[2] = h[2] /\ (h \o t)[3] = h[3]
      /\ (h \o t)[4] = t[1] /\ (h \o t)[5] = t[2]
  BY <1>3
<1> QED BY <1>1, <1>2, <1>3, <1>4 DEF h

(* The length the server infers once it has seven bytes. *)
LEMMA FrameLenCases ==
    ASSUME NEW b \in Seq(Byte), Len(b) >= 7
    PROVE  /\ b[2] \in ReadCodes \cup WriteOne => modbus_frame_len(b) = 8
           /\ b[2] >= 128 => modbus_frame_len(b) = 5
           /\ b[2] \in WriteMany => modbus_frame_len(b) = 9 + b[7]
           /\ b[2] < 128 /\ b[2] \notin ReadCodes \cup WriteOne \cup WriteMany
                 => modbus_frame_len(b) = BadLength
<1>1. b[2] \in Int
  <2>1. b[2] \in Byte
    OBVIOUS
  <2> QED BY <2>1, ByteRange
<1>2. ~(Len(b) < 2) /\ ~(Len(b) < 7)
  OBVIOUS
<1>3. CASE b[2] \in ReadCodes \cup WriteOne
  BY <1>1, <1>2, <1>3 DEF modbus_frame_len, ReadCodes, WriteOne, WriteMany
<1>4. CASE b[2] >= 128
  BY <1>1, <1>2, <1>4 DEF modbus_frame_len, ReadCodes, WriteOne, WriteMany
<1>5. CASE b[2] \in WriteMany
  BY <1>1, <1>2, <1>5 DEF modbus_frame_len, ReadCodes, WriteOne, WriteMany
<1>6. CASE b[2] < 128 /\ b[2] \notin ReadCodes \cup WriteOne \cup WriteMany
  BY <1>1, <1>2, <1>6 DEF modbus_frame_len
<1> QED BY <1>1, <1>3, <1>4, <1>5, <1>6

(* The fields of a request PDU of five bytes. *)
LEMMA ShortPduParsed ==
    ASSUME NEW pdu \in Seq(Byte), Len(pdu) = 5, pdu[1] \in ReadCodes \cup WriteOne
    PROVE  LET q == egw_modbus_parse_request(pdu, 0)
           IN  /\ q.ok /\ q.fc = pdu[1] /\ q.addr = BE(pdu[2], pdu[3])
               /\ pdu[1] \in ReadCodes => q.count = BE(pdu[4], pdu[5])
               /\ pdu[1] \in WriteOne => q.count = 1 /\ q.data = SubSeq(pdu, 4, 5)
<1>1. ByteAt(pdu, 1, 0) = pdu[1] /\ Len(pdu) >= 5
  BY DEF ByteAt
<1>2. CASE pdu[1] \in ReadCodes
  <2>1. pdu[1] \notin WriteOne /\ pdu[1] \notin WriteMany
    BY <1>2 DEF ReadCodes, WriteOne, WriteMany
  <2>2. egw_modbus_parse_request(pdu, 0)
          = [ok |-> TRUE, fc |-> pdu[1], addr |-> BE(pdu[2], pdu[3]),
             count |-> BE(pdu[4], pdu[5]), data |-> <<>>]
    BY <1>1, <1>2, <2>1, Zenon DEF egw_modbus_parse_request
  <2> QED BY <2>1, <2>2
<1>3. CASE pdu[1] \in WriteOne
  <2>1. pdu[1] \notin ReadCodes /\ pdu[1] \notin WriteMany
    BY <1>3 DEF ReadCodes, WriteOne, WriteMany
  <2>2. egw_modbus_parse_request(pdu, 0)
          = [ok |-> TRUE, fc |-> pdu[1], addr |-> BE(pdu[2], pdu[3]),
             count |-> 1, data |-> SubSeq(pdu, 4, 5)]
    BY <1>1, <1>3, <2>1, Zenon DEF egw_modbus_parse_request
  <2> QED BY <2>1, <2>2
<1> QED BY <1>2, <1>3

(* The last two of five bytes. *)
LEMMA LastTwo ==
    ASSUME NEW g \in Seq(Byte), Len(g) = 5, NEW t \in Seq(Byte), Len(t) = 2,
           g[4] = t[1], g[5] = t[2]
    PROVE  SubSeq(g, 4, 5) = t
<1>1. SubSeq(g, 4, 5) \in Seq(Byte) /\ Len(SubSeq(g, 4, 5)) = 2
  OBVIOUS
<1>2. \A i \in 1..2 : SubSeq(g, 4, 5)[i] = t[i]
  OBVIOUS
<1> QED BY <1>1, <1>2, SeqEqual

-------------------------------------------------------------------------------
(* Responses. *)

(* The data of a coil response. *)
LEMMA CoilBytes ==
    ASSUME NEW rs \in Seq(Word), NEW fc \in {1, 2}
    PROVE  LET data == ReadBytes(fc, rs)
           IN  /\ data = [i \in 1..Len(rs) |-> Low(rs[i])]
               /\ data \in Seq(Byte) /\ Len(data) = Len(rs)
<1>1. ReadBytes(fc, rs) = [i \in 1..Len(rs) |-> Low(rs[i])]
  BY DEF ReadBytes
<1>2. \A i \in 1..Len(rs) : Low(rs[i]) \in Byte
  <2> SUFFICES ASSUME NEW i \in 1..Len(rs) PROVE Low(rs[i]) \in Byte
    OBVIOUS
  <2>1. rs[i] \in Word
    OBVIOUS
  <2> QED BY <2>1, HighLow
<1> QED BY <1>1, <1>2

(* The data of a register response: each word high byte first. *)
LEMMA RegisterBytes ==
    ASSUME NEW rs \in Seq(Word), NEW fc, fc \notin {1, 2}
    PROVE  LET data == ReadBytes(fc, rs)
           IN  /\ data \in Seq(Byte) /\ Len(data) = 2 * Len(rs)
               /\ \A i \in 1..Len(rs) : BE(data[2 * i - 1], data[2 * i]) = rs[i]
<1> DEFINE n == Len(rs)
           at(i) == IF i % 2 = 1 THEN High(rs[(i + 1) \div 2]) ELSE Low(rs[(i + 1) \div 2])
           data == [i \in 1..(2 * n) |-> at(i)]
<1>1. ReadBytes(fc, rs) = data
  BY DEF ReadBytes
<1>2. n \in Nat /\ \A k \in 1..n : rs[k] \in Word
  OBVIOUS
<1> HIDE DEF n
<1>3. \A i \in 1..(2 * n) : (i + 1) \div 2 \in 1..n
  BY <1>2
<1>4. \A i \in 1..(2 * n) : at(i) \in Byte
  <2> SUFFICES ASSUME NEW i \in 1..(2 * n) PROVE at(i) \in Byte
    OBVIOUS
  <2>1. rs[(i + 1) \div 2] \in Word
    BY <1>2, <1>3
  <2> QED BY <2>1, HighLow
<1>5. data \in Seq(Byte) /\ Len(data) = 2 * n
  <2>1. 2 * n \in Nat
    BY <1>2
  <2> HIDE DEF at
  <2> QED BY <1>4, <2>1
<1>6. \A i \in 1..n : BE(data[2 * i - 1], data[2 * i]) = rs[i]
  <2> SUFFICES ASSUME NEW i \in 1..n PROVE BE(data[2 * i - 1], data[2 * i]) = rs[i]
    OBVIOUS
  <2>1. /\ 2 * i - 1 \in 1..(2 * n) /\ 2 * i \in 1..(2 * n)
        /\ (2 * i - 1) % 2 = 1 /\ (2 * i) % 2 = 0
        /\ ((2 * i - 1) + 1) \div 2 = i /\ (2 * i + 1) \div 2 = i
    BY <1>2
  <2>2. data[2 * i - 1] = at(2 * i - 1) /\ data[2 * i] = at(2 * i)
    BY <2>1
  <2>3. at(2 * i - 1) = High(rs[i]) /\ at(2 * i) = Low(rs[i])
    BY <2>1
  <2>4. rs[i] \in Word
    BY <1>2
  <2> QED BY <2>2, <2>3, <2>4, HighLow
<1> QED BY <1>1, <1>5, <1>6 DEF n

(* The byte count of a response, a uint8_t. *)
ByteCount(data) == Len(data) % 256

(* The frame of a read response with the given data. *)
ReadResponse(unit, fc, data) == Adu(RTU, 0, unit, egw_modbus_build_read_resp_pdu(fc, data))

(* The frame of a read response: the byte count wraps at 256 and the data is cut there,
   so that the frame is as long as its count says. *)
LEMMA ResponseFrame ==
    ASSUME NEW unit \in Byte, NEW fc \in ReadCodes, NEW data \in Seq(Byte)
    PROVE  LET f  == ReadResponse(unit, fc, data)
               bc == ByteCount(data)
           IN  /\ f \in Seq(Byte) /\ Len(f) = 5 + bc /\ validate(f)
               /\ f[1] = unit /\ f[2] = fc /\ f[3] = bc
               /\ bc \in Nat /\ bc \in Byte /\ bc <= Len(data)
               /\ \A i \in 1..bc : f[3 + i] = data[i]
<1> DEFINE bc == ByteCount(data)
           tail == SubSeq(data, 1, bc)
           pdu == <<fc, bc>> \o tail
           f == Adu(RTU, 0, unit, pdu)
<1>1. bc \in Nat /\ bc <= 255 /\ bc <= Len(data)
  <2>1. Len(data) \in Nat
    OBVIOUS
  <2> QED BY <2>1 DEF ByteCount
<1>2. fc \in Byte /\ bc \in Byte
  BY <1>1, ByteIff DEF ReadCodes
<1>3. egw_modbus_build_read_resp_pdu(fc, data) = pdu
  BY DEF egw_modbus_build_read_resp_pdu, ByteCount
<1> HIDE DEF bc
<1>4. tail \in Seq(Byte) /\ Len(tail) = bc /\ \A i \in 1..bc : tail[i] = data[i]
  BY <1>1
<1> HIDE DEF tail
<1>5. /\ pdu \in Seq(Byte) /\ Len(pdu) = 2 + bc /\ pdu[1] = fc /\ pdu[2] = bc
      /\ \A i \in 1..bc : pdu[2 + i] = tail[i]
  BY <1>1, <1>2, <1>4
<1> HIDE DEF pdu
<1>6. pdu /= <<>>
  BY <1>1, <1>5
<1>7. /\ f \in Seq(Byte) /\ Len(f) = Len(pdu) + 3 /\ validate(f)
      /\ f[1] = unit /\ \A i \in 1..Len(pdu) : f[i + 1] = pdu[i]
  BY <1>5, <1>6, AduShape
<1> HIDE DEF f
<1>8. Len(f) = 5 + bc /\ f[2] = fc /\ f[3] = bc
  BY <1>1, <1>5, <1>7
<1>9. \A i \in 1..bc : f[3 + i] = data[i]
  <2> SUFFICES ASSUME NEW i \in 1..bc PROVE f[3 + i] = data[i]
    OBVIOUS
  <2>1. 2 + i \in 1..Len(pdu) /\ (2 + i) + 1 = 3 + i
    BY <1>1, <1>5
  <2>2. f[3 + i] = pdu[2 + i]
    BY <1>7, <2>1
  <2> QED BY <1>4, <1>5, <2>2
<1> QED BY <1>1, <1>2, <1>3, <1>7, <1>8, <1>9, Zenon DEF bc, f, ReadResponse

(* The length the client infers of a frame that answers a read. *)
LEMMA ReadFrameLen ==
    ASSUME NEW b \in Seq(Byte), Len(b) >= 3, b[2] \in ReadCodes
    PROVE  resp_frame_len(b) = 5 + b[3]
<1>1. ~(Len(b) < 2) /\ ~(Len(b) < 3) /\ ~(b[2] >= 128) /\ b[3] \in Int
  <2>1. b[3] \in Byte
    OBVIOUS
  <2> QED BY <2>1, ByteRange DEF ReadCodes
<1> QED BY <1>1 DEF resp_frame_len, ReadCodes, WriteOne, WriteMany

(* What the client makes of a PDU. *)
Parsed(pdu, fc) == egw_modbus_parse_read_pdu(pdu, fc, 128)

(* The registers a client is to report of a read. *)
ServedOf(fc, rs) == IF fc \in {1, 2} THEN [i \in 1..Len(rs) |-> Low(rs[i])] ELSE rs

(* A PDU with the first bc bytes of data. *)
Carries(pdu, fc, bc, data) ==
    /\ Len(pdu) = 2 + bc /\ pdu[1] = fc /\ pdu[2] = bc /\ bc <= 255
    /\ bc <= Len(data) /\ \A i \in 1..bc : pdu[2 + i] = data[i]

(* A byte count for which the client reports an error. *)
Refused(fc, bc) == (fc \in {1, 2} /\ bc > 128) \/ (fc \notin {1, 2} /\ bc % 2 = 1)

(* A PDU that carries the first bytes of the registers' data yields the first of the
   registers, and none only when it is a coil read of more than 128 bytes or its byte
   count is odd. *)
LEMMA CoilsRead ==
    ASSUME NEW rs \in Seq(Word), NEW fc \in {1, 2}, NEW pdu \in Seq(Byte), NEW bc \in Nat,
           Carries(pdu, fc, bc, ReadBytes(fc, rs))
    PROVE  LET r == Parsed(pdu, fc)
               served == ServedOf(fc, rs)
           IN  /\ r.rc < 0 <=> Refused(fc, bc)
               /\ r.rc >= 0 => Len(r.regs) = bc /\ r.regs = SubSeq(served, 1, bc)
<1> DEFINE r == Parsed(pdu, fc)
           served == ServedOf(fc, rs)
<1>1. served = ReadBytes(fc, rs) /\ served \in Seq(Byte) /\ Len(served) = Len(rs)
  BY CoilBytes DEF ServedOf
<1> HIDE DEF served
<1>0. /\ Len(pdu) = 2 + bc /\ pdu[1] = fc /\ pdu[2] = bc /\ bc <= Len(rs)
      /\ \A i \in 1..bc : pdu[2 + i] = ReadBytes(fc, rs)[i]
  BY CoilBytes DEF Carries
<1>2. ~(pdu[1] >= 128 /\ pdu[1] - 128 = fc) /\ fc \notin {3, 4} /\ 2 + bc <= Len(pdu)
  BY <1>0
<1>3. CASE bc <= 128
  <2> DEFINE read == [i \in 1..bc |-> pdu[2 + i]]
  <2>1. r = [rc |-> bc, regs |-> read]
    BY <1>0, <1>2, <1>3, Zenon DEF Parsed, egw_modbus_parse_read_pdu
  <2>2. \A i \in 1..bc : 2 + i \in 1..Len(pdu)
    BY <1>0
  <2>3. \A i \in 1..bc : pdu[2 + i] \in Byte
    BY <2>2, ElementOfSeq
  <2>4. read \in Seq(Byte) /\ Len(read) = bc /\ \A i \in 1..bc : read[i] = pdu[2 + i]
    BY <2>3
  <2>5. /\ SubSeq(served, 1, bc) \in Seq(Byte) /\ Len(SubSeq(served, 1, bc)) = bc
        /\ \A i \in 1..bc : SubSeq(served, 1, bc)[i] = served[i]
    BY <1>0, <1>1
  <2> HIDE DEF read
  <2>6. read = SubSeq(served, 1, bc)
    <3>1. \A i \in 1..bc : read[i] = SubSeq(served, 1, bc)[i]
      BY <1>0, <1>1, <2>4, <2>5
    <3> QED BY <2>4, <2>5, <3>1, SeqEqual
  <2>7. r.rc = bc /\ r.regs = read
    BY <2>1
  <2> HIDE DEF r
  <2> QED BY <1>3, <2>4, <2>6, <2>7 DEF r, served, Refused
<1>4. CASE ~(bc <= 128)
  <2>1. r = [rc |-> -1, regs |-> <<>>]
    BY <1>0, <1>2, <1>4, Zenon DEF Parsed, egw_modbus_parse_read_pdu
  <2> QED BY <1>4, <2>1 DEF Refused
<1> QED BY <1>3, <1>4

(* The same of a register read. *)
LEMMA RegistersRead ==
    ASSUME NEW rs \in Seq(Word), NEW fc \in {3, 4}, NEW pdu \in Seq(Byte), NEW bc \in Nat,
           Carries(pdu, fc, bc, ReadBytes(fc, rs))
    PROVE  LET r == Parsed(pdu, fc)
           IN  /\ r.rc < 0 <=> Refused(fc, bc)
               /\ r.rc >= 0 => /\ Len(r.regs) = bc \div 2
                               /\ r.regs = SubSeq(ServedOf(fc, rs), 1, bc \div 2)
<1> DEFINE r == Parsed(pdu, fc)
           data == ReadBytes(fc, rs)
           n == bc \div 2
<1>1. ServedOf(fc, rs) = rs
  BY DEF ServedOf
<1>0. /\ Len(pdu) = 2 + bc /\ pdu[1] = fc /\ pdu[2] = bc /\ bc <= 255 /\ bc <= 2 * Len(rs)
      /\ \A i \in 1..bc : pdu[2 + i] = data[i]
  <2>1. Len(data) = 2 * Len(rs)
    BY RegisterBytes
  <2> QED BY <2>1 DEF Carries
<1>2. ~(pdu[1] >= 128 /\ pdu[1] - 128 = fc) /\ fc \notin {1, 2} /\ 2 + bc <= Len(pdu)
  BY <1>0
<1>3. n \in Nat /\ n <= 128 /\ n <= Len(rs) /\ (bc % 2 = 0 \/ bc % 2 = 1)
      /\ (bc % 2 = 0 => bc = 2 * n)
  <2>1. Len(rs) \in Nat
    OBVIOUS
  <2> QED BY <1>0, <2>1
<1>4. data \in Seq(Byte) /\ \A i \in 1..Len(rs) : BE(data[2 * i - 1], data[2 * i]) = rs[i]
  BY <1>2, RegisterBytes
<1> HIDE DEF n, data
<1>5. CASE bc % 2 = 0
  <2> DEFINE read == [i \in 1..n |-> BE(pdu[2 * i + 1], pdu[2 * i + 2])]
  <2>1. r = [rc |-> n, regs |-> read]
    BY <1>0, <1>2, <1>3, <1>5, Zenon DEF Parsed, egw_modbus_parse_read_pdu, n
  <2>2. \A i \in 1..n : BE(pdu[2 * i + 1], pdu[2 * i + 2]) = rs[i]
    <3> SUFFICES ASSUME NEW i \in 1..n PROVE BE(pdu[2 * i + 1], pdu[2 * i + 2]) = rs[i]
      OBVIOUS
    <3>1. /\ 2 * i - 1 \in 1..bc /\ 2 * i \in 1..bc /\ i \in 1..Len(rs)
          /\ 2 + (2 * i - 1) = 2 * i + 1 /\ 2 + 2 * i = 2 * i + 2
      BY <1>3, <1>5
    <3>2. pdu[2 + (2 * i - 1)] = data[2 * i - 1] /\ pdu[2 + 2 * i] = data[2 * i]
      BY <1>0, <3>1
    <3>3. pdu[2 * i + 1] = data[2 * i - 1] /\ pdu[2 * i + 2] = data[2 * i]
      BY <3>1, <3>2
    <3> QED BY <1>4, <3>1, <3>3
  <2>3. \A i \in 1..n : rs[i] \in Word
    BY <1>3
  <2>4. read \in Seq(Word) /\ Len(read) = n /\ \A i \in 1..n : read[i] = rs[i]
    <3> DEFINE at(i) == BE(pdu[2 * i + 1], pdu[2 * i + 2])
    <3>1. \A i \in 1..n : at(i) = rs[i] /\ at(i) \in Word
      BY <2>2, <2>3
    <3> HIDE DEF at
    <3>2. /\ [i \in 1..n |-> at(i)] \in Seq(Word) /\ Len([i \in 1..n |-> at(i)]) = n
          /\ \A i \in 1..n : [j \in 1..n |-> at(j)][i] = rs[i]
      BY <1>3, <3>1
    <3> QED BY <3>2 DEF at
  <2>5. /\ SubSeq(rs, 1, n) \in Seq(Word) /\ Len(SubSeq(rs, 1, n)) = n
        /\ \A i \in 1..n : SubSeq(rs, 1, n)[i] = rs[i]
    BY <1>3
  <2> HIDE DEF read
  <2>6. read = SubSeq(rs, 1, n)
    <3>1. \A i \in 1..n : read[i] = SubSeq(rs, 1, n)[i]
      BY <2>4, <2>5
    <3> QED BY <2>4, <2>5, <3>1, SeqEqual
  <2>7. r.rc = n /\ r.regs = read
    BY <2>1
  <2> HIDE DEF r
  <2> QED BY <1>1, <1>3, <1>5, <2>4, <2>6, <2>7 DEF r, n, Refused
<1>6. CASE bc % 2 = 1
  <2>0. ~(bc % 2 = 0)
    BY <1>6
  <2>1. r = [rc |-> -1, regs |-> <<>>]
    BY <1>0, <1>2, <2>0, Zenon DEF Parsed, egw_modbus_parse_read_pdu
  <2> QED BY <1>6, <2>1 DEF Refused
<1> QED BY <1>3, <1>5, <1>6

(* A PDU with another function code than the one asked for is an error, and so is every
   answer to a code that is no read. *)
LEMMA NoResult ==
    ASSUME NEW pdu, NEW fc, pdu[1] \in Int, pdu[2] \in Int, pdu[2] >= 0,
           pdu[1] /= fc \/ fc \notin ReadCodes
    PROVE  ~(Parsed(pdu, fc).rc >= 0)
<1> DEFINE r == Parsed(pdu, fc)
<1>1. ~(pdu[1] = fc /\ fc \in {1, 2}) /\ ~(pdu[1] = fc /\ fc \in {3, 4})
  BY DEF ReadCodes
<1>2. CASE pdu[1] >= 128 /\ pdu[1] - 128 = fc
  <2>1. r = [rc |-> -pdu[2] - 100, regs |-> <<>>]
    BY <1>1, <1>2, Zenon DEF Parsed, egw_modbus_parse_read_pdu
  <2> QED BY <2>1
<1>3. CASE ~(pdu[1] >= 128 /\ pdu[1] - 128 = fc)
  <2>1. r = [rc |-> -1, regs |-> <<>>]
    BY <1>1, <1>3, Zenon DEF Parsed, egw_modbus_parse_read_pdu
  <2> QED BY <2>1
<1> QED BY <1>2, <1>3

(* Both together: what is reported is a beginning of what was served, and all of it
   when the byte count is the one of the whole data. *)
LEMMA ReadReported ==
    ASSUME NEW rs \in Seq(Word), NEW fc \in ReadCodes, NEW pdu \in Seq(Byte), NEW bc \in Nat,
           Carries(pdu, fc, bc, ReadBytes(fc, rs))
    PROVE  LET r == Parsed(pdu, fc)
               served == ServedOf(fc, rs)
           IN  /\ r.rc < 0 <=> Refused(fc, bc)
               /\ r.rc >= 0 =>
                     /\ Len(r.regs) <= Len(served)
                     /\ r.regs = SubSeq(served, 1, Len(r.regs))
                     /\ Len(served) <= 127 /\ bc = ByteCount(ReadBytes(fc, rs))
                           => r.regs = served
<1> DEFINE r == Parsed(pdu, fc)
           served == ServedOf(fc, rs)
           n == IF fc \in {1, 2} THEN bc ELSE bc \div 2
<1>1. /\ r.rc < 0 <=> Refused(fc, bc)
      /\ r.rc >= 0 => Len(r.regs) = n /\ r.regs = SubSeq(served, 1, n)
  <2>1. CASE fc \in {1, 2}
    <3>2. /\ r.rc < 0 <=> Refused(fc, bc)
          /\ r.rc >= 0 => Len(r.regs) = bc /\ r.regs = SubSeq(served, 1, bc)
      BY <2>1, CoilsRead, Zenon
    <3> HIDE DEF r, served
    <3> QED BY <2>1, <3>2
  <2>2. CASE fc \notin {1, 2}
    <3>1. fc \in {3, 4}
      BY <2>2 DEF ReadCodes
    <3>2. /\ r.rc < 0 <=> Refused(fc, bc)
          /\ r.rc >= 0 => /\ Len(r.regs) = bc \div 2
                          /\ r.regs = SubSeq(served, 1, bc \div 2)
      BY <3>1, RegistersRead, Zenon
    <3> HIDE DEF r, served
    <3> QED BY <2>2, <3>2
  <2> QED BY <2>1, <2>2
<1>0. bc <= Len(ReadBytes(fc, rs))
  BY DEF Carries
<1>2. /\ served \in Seq(Word) \cup Seq(Byte) /\ Len(served) = Len(rs) /\ n \in Nat
      /\ n <= Len(rs)
      /\ Len(served) <= 127 /\ bc = ByteCount(ReadBytes(fc, rs)) => n = Len(served)
  <2>1. CASE fc \in {1, 2}
    <3>1. served = ReadBytes(fc, rs) /\ served \in Seq(Byte) /\ Len(served) = Len(rs)
      BY <2>1, CoilBytes DEF ServedOf
    <3> HIDE DEF served
    <3>2. Len(rs) \in Nat
      OBVIOUS
    <3> QED BY <1>0, <2>1, <3>1, <3>2 DEF ByteCount
  <2>2. CASE fc \notin {1, 2}
    <3>1. served = rs /\ Len(ReadBytes(fc, rs)) = 2 * Len(rs)
      BY <2>2, RegisterBytes DEF ServedOf
    <3>2. Len(rs) \in Nat
      OBVIOUS
    <3>3. bc <= 2 * Len(rs)
      BY <1>0, <3>1
    <3>4. n \in Nat /\ n <= Len(rs)
      BY <2>2, <3>2, <3>3
    <3>5. Len(rs) <= 127 /\ bc = (2 * Len(rs)) % 256 => n = Len(rs)
      BY <2>2, <3>2
    <3> HIDE DEF served, n
    <3> QED BY <3>1, <3>4, <3>5 DEF ByteCount
  <2> QED BY <2>1, <2>2
<1> HIDE DEF r, served, n
<1>3. SubSeq(served, 1, Len(served)) = served
  BY <1>2, SubSeqFull
<1>4. r.rc >= 0 => /\ Len(r.regs) <= Len(served)
                   /\ r.regs = SubSeq(served, 1, Len(r.regs))
  BY <1>1, <1>2
<1>5. r.rc >= 0 /\ Len(served) <= 127 /\ bc = ByteCount(ReadBytes(fc, rs))
         => r.regs = served
  BY <1>1, <1>2, <1>3
<1> QED BY <1>1, <1>4, <1>5 DEF r, served

===============================================================================
