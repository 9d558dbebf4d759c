----------------------------- MODULE ServerProofs -----------------------------
(***************************************************************************)
(* Theorems about ModbusServer, for every ring size above 8, every stream  *)
(* of chunks, every answer of the callbacks and every checksum.            *)
(***************************************************************************)
EXTENDS ModbusServer, CodecProofs

-------------------------------------------------------------------------------
(* The ring. *)

(* The fill level is below the size of the ring: one slot stays empty. *)
LEMMA UsedRange ==
    ASSUME NEW r \in Positions, NEW w \in Positions
    PROVE  buf_used(r, w) \in 0..BufCap - 1
BY SizesAssumption DEF Positions, buf_used

(* Position (r + i) mod size, without the modulus. *)
LEMMA Wrap ==
    ASSUME NEW r \in Positions, NEW i \in Nat, i < BufCap
    PROVE  /\ (r + i) % BufCap \in Positions
           /\ (r + i) % BufCap = IF r + i < BufCap THEN r + i ELSE r + i - BufCap
<1>1. BufCap \in Nat \ {0} /\ r \in Nat /\ r < BufCap
  BY SizesAssumption DEF Positions
<1>2. CASE r + i < BufCap
  <2>1. (r + i) % BufCap = r + i
    BY <1>1, <1>2, ModSmall
  <2> QED BY <1>1, <1>2, <2>1 DEF Positions
<1>3. CASE r + i >= BufCap
  <2>1. (r + i) % BufCap = r + i - BufCap
    <3>1. r + i \in Nat /\ BufCap <= r + i /\ r + i < BufCap + BufCap
      BY <1>1, <1>3
    <3> QED BY <1>1, <3>1
  <2> QED BY <1>1, <1>3, <2>1 DEF Positions
<1> QED BY <1>1, <1>2, <1>3

(* Storing n bytes that fit advances the fill level by n. *)
LEMMA UsedAfterStore ==
    ASSUME NEW r \in Positions, NEW w \in Positions, NEW n \in Nat, n <= buf_free(r, w)
    PROVE  buf_used(r, (w + n) % BufCap) = buf_used(r, w) + n
<1>1. BufCap \in Nat \ {0} /\ r \in Nat /\ r < BufCap /\ w \in Nat /\ w < BufCap
  BY SizesAssumption DEF Positions
<1>2. n < BufCap
  BY <1>1 DEF buf_free, buf_used
<1>3. (w + n) % BufCap = IF w + n < BufCap THEN w + n ELSE w + n - BufCap
  BY <1>2, Wrap
<1> QED BY <1>1, <1>3 DEF buf_free, buf_used

(* Taking n bytes lowers the fill level by n. *)
LEMMA UsedAfterTake ==
    ASSUME NEW r \in Positions, NEW w \in Positions, NEW n \in Nat, n <= buf_used(r, w)
    PROVE  buf_used((r + n) % BufCap, w) = buf_used(r, w) - n
<1>1. BufCap \in Nat \ {0} /\ r \in Nat /\ r < BufCap /\ w \in Nat /\ w < BufCap
  BY SizesAssumption DEF Positions
<1>2. n < BufCap
  BY <1>1 DEF buf_used
<1>3. (r + n) % BufCap = IF r + n < BufCap THEN r + n ELSE r + n - BufCap
  BY <1>2, Wrap
<1> QED BY <1>1, <1>3 DEF buf_used

(* ring_copy yields n elements, the i-th from the i-th position after r. *)
LEMMA CopyElements ==
    ASSUME NEW b, NEW r, NEW n \in Nat
    PROVE  /\ DOMAIN ring_copy(b, r, n) = 1..n
           /\ \A i \in 1..n : ring_copy(b, r, n)[i] = b[(r + i - 1) % BufCap]
BY DEF ring_copy

(* A copy of elements of S is a sequence over S. *)
LEMMA CopyType ==
    ASSUME NEW b, NEW r, NEW n \in Nat, NEW S, \A i \in 1..n : ring_copy(b, r, n)[i] \in S
    PROVE  ring_copy(b, r, n) \in Seq(S) /\ Len(ring_copy(b, r, n)) = n
<1>1. ring_copy(b, r, n) \in [1..n -> S]
  BY DEF ring_copy
<1> QED BY <1>1

(* The element of the ring at distance j from w after a store at w. *)
LEMMA StoreElement ==
    ASSUME NEW b, NEW w \in Positions, NEW data \in Seq(Byte), NEW j \in Nat, j < BufCap
    PROVE  Store(b, w, data)[(w + j) % BufCap]
             = IF j < Len(data) THEN data[j + 1] ELSE b[(w + j) % BufCap]
<1> DEFINE p == (w + j) % BufCap
<1>1. BufCap \in Nat \ {0} /\ w \in Nat /\ w < BufCap
  BY SizesAssumption DEF Positions
<1>2. p \in Positions /\ p = IF w + j < BufCap THEN w + j ELSE w + j - BufCap
  BY Wrap
<1> HIDE DEF p
<1>3. (p - w + BufCap) % BufCap = j
  <2>1. CASE w + j < BufCap
    <3>1. p - w + BufCap = j + BufCap
      BY <1>1, <1>2, <2>1
    <3>2. (j + BufCap) % BufCap = j
      <4>1. j + BufCap \in Nat /\ BufCap <= j + BufCap /\ j + BufCap < BufCap + BufCap
        BY <1>1
      <4>2. (j + BufCap) % BufCap = j + BufCap - BufCap
        BY <1>1, <4>1
      <4> QED BY <1>1, <4>2
    <3> QED BY <3>1, <3>2
  <2>2. CASE w + j >= BufCap
    <3>1. p - w + BufCap = j
      BY <1>1, <1>2, <2>2
    <3>2. j % BufCap = j
      BY <1>1, ModSmall
    <3> QED BY <3>1, <3>2
  <2> QED BY <1>1, <2>1, <2>2
<1>4. Store(b, w, data)[p] = IF j < Len(data) THEN data[j + 1] ELSE b[p]
  BY <1>2, <1>3 DEF Store
<1> QED BY <1>4 DEF p

(* The i-th position after r, counted from w: before w the unread bytes, after it
   the free ones. *)
LEMMA Distance ==
    ASSUME NEW r \in Positions, NEW w \in Positions, NEW i \in 1..BufCap
    PROVE  LET u == buf_used(r, w)
               j == IF i <= u THEN BufCap - u + i - 1 ELSE i - 1 - u
           IN  j \in Nat /\ j < BufCap /\ (r + i - 1) % BufCap = (w + j) % BufCap
<1> DEFINE u == buf_used(r, w)
<1> DEFINE j == IF i <= u THEN BufCap - u + i - 1 ELSE i - 1 - u
<1>1. BufCap \in Nat \ {0} /\ r \in Nat /\ r < BufCap /\ w \in Nat /\ w < BufCap
  BY SizesAssumption DEF Positions
<1>2. u \in Nat /\ u < BufCap /\ u = IF w >= r THEN w - r ELSE BufCap - r + w
  BY UsedRange, <1>1 DEF buf_used
<1> HIDE DEF u
<1>3. j \in Nat /\ j < BufCap
  BY <1>1, <1>2
<1> HIDE DEF j
<1>4. (w + j) % BufCap = IF w + j < BufCap THEN w + j ELSE w + j - BufCap
  BY <1>3, Wrap
<1>5. (r + i - 1) % BufCap = IF r + i - 1 < BufCap THEN r + i - 1 ELSE r + i - 1 - BufCap
  <2>1. r + i - 1 = r + (i - 1) /\ i - 1 \in Nat /\ i - 1 < BufCap
    BY <1>1
  <2> HIDE <1>1
  <2>2. (r + (i - 1)) % BufCap
           = IF r + (i - 1) < BufCap THEN r + (i - 1) ELSE r + (i - 1) - BufCap
    BY <2>1, Wrap
  <2> QED BY <2>1, <2>2
<1>6. (r + i - 1) % BufCap = (w + j) % BufCap
  BY <1>1, <1>2, <1>4, <1>5 DEF j
<1> QED BY <1>3, <1>6 DEF u, j

(* Storing bytes that fit appends them to the unread ones, across the end of the
   ring and without touching one of them (feed, commit). *)
LEMMA StoreAppends ==
    ASSUME NEW b, NEW r \in Positions, NEW w \in Positions, NEW data \in Seq(Byte),
           Len(data) <= buf_free(r, w),
           ring_copy(b, r, buf_used(r, w)) \in Seq(Byte)
    PROVE  ring_copy(Store(b, w, data), r, buf_used(r, (w + Len(data)) % BufCap))
             = ring_copy(b, r, buf_used(r, w)) \o data
<1> DEFINE u == buf_used(r, w)
<1> DEFINE n == Len(data)
<1> DEFINE old == ring_copy(b, r, u)
<1> DEFINE new == ring_copy(Store(b, w, data), r, u + n)
<1>1. u \in Nat /\ n \in Nat /\ BufCap \in Nat /\ u + n < BufCap
  BY UsedRange, SizesAssumption DEF buf_free
<1>2. buf_used(r, (w + n) % BufCap) = u + n
  BY UsedAfterStore, <1>1
<1>3. old \in Seq(Byte) /\ DOMAIN old = 1..u /\ \A i \in 1..u : old[i] = b[(r + i - 1) % BufCap]
  BY <1>1, CopyElements
<1>4. DOMAIN new = 1..u + n
      /\ \A i \in 1..u + n : new[i] = Store(b, w, data)[(r + i - 1) % BufCap]
  BY <1>1, CopyElements
<1> HIDE DEF u, n, old, new
<1>5. Len(old) = u
  BY <1>1, <1>3
<1>6. ASSUME NEW i \in 1..u + n PROVE new[i] = IF i <= u THEN old[i] ELSE data[i - u]
  <2> DEFINE j == IF i <= u THEN BufCap - u + i - 1 ELSE i - 1 - u
  <2>1. i \in 1..BufCap
    BY <1>1
  <2>2. j \in Nat /\ j < BufCap /\ (r + i - 1) % BufCap = (w + j) % BufCap
    BY <2>1, Distance DEF u
  <2>3. (j < n) <=> (i > u)
    BY <1>1
  <2>4. i > u => j + 1 = i - u
    BY <1>1
  <2> HIDE DEF j
  <2>5. Store(b, w, data)[(w + j) % BufCap]
          = IF j < n THEN data[j + 1] ELSE b[(w + j) % BufCap]
    BY <2>2, StoreElement DEF n
  <2>6. CASE i > u
    BY <1>1, <1>4, <2>2, <2>3, <2>4, <2>5, <2>6
  <2>7. CASE i <= u
    <3>1. new[i] = b[(r + i - 1) % BufCap]
      BY <1>1, <1>4, <2>2, <2>3, <2>5, <2>7
    <3> QED BY <1>1, <1>3, <2>7, <3>1
  <2> QED BY <1>1, <2>6, <2>7
<1>7. new \in Seq(Byte) /\ Len(new) = u + n
  <2>1. \A i \in 1..u + n : new[i] \in Byte
    BY <1>1, <1>3, <1>5, <1>6 DEF n
  <2> QED BY <1>1, <2>1, CopyType DEF new
<1>8. new = old \o data
  <2>1. old \o data \in Seq(Byte) /\ Len(old \o data) = u + n
    BY <1>3, <1>5, ConcatProperties DEF n
  <2>2. \A i \in 1..u + n : (old \o data)[i] = IF i <= u THEN old[i] ELSE data[i - u]
    BY <1>1, <1>3, <1>5 DEF n
  <2> QED BY <1>6, <1>7, <2>1, <2>2, SeqEqual
<1> QED BY <1>2, <1>8 DEF u, n, old, new

(* What SubSeq leaves of a sequence without its first n elements. *)
LEMMA DropElements ==
    ASSUME NEW S, NEW q \in Seq(S), NEW n \in 0..Len(q)
    PROVE  LET rest == SubSeq(q, n + 1, Len(q))
           IN  /\ rest \in Seq(S) /\ Len(rest) = Len(q) - n
               /\ \A i \in 1..Len(q) - n : rest[i] = q[n + i]
OBVIOUS

(* Taking the first n unread bytes leaves the others in order (rd advanced by
   consumed in try_process). *)
LEMMA TakeDrops ==
    ASSUME NEW b, NEW r \in Positions, NEW w \in Positions, NEW n \in Nat,
           n <= buf_used(r, w), ring_copy(b, r, buf_used(r, w)) \in Seq(Byte)
    PROVE  LET q  == ring_copy(b, r, buf_used(r, w))
               r2 == (r + n) % BufCap
           IN  /\ r2 \in Positions
               /\ ring_copy(b, r2, buf_used(r2, w)) = SubSeq(q, n + 1, Len(q))
<1> DEFINE u == buf_used(r, w)
<1> DEFINE q == ring_copy(b, r, u)
<1> DEFINE r2 == (r + n) % BufCap
<1> DEFINE new == ring_copy(b, r2, u - n)
<1>1. u \in Nat /\ u < BufCap /\ BufCap \in Nat /\ r \in Nat /\ r < BufCap
  BY UsedRange, SizesAssumption DEF Positions
<1>2. r2 \in Positions /\ r2 = IF r + n < BufCap THEN r + n ELSE r + n - BufCap
  <2>1. n < BufCap
    BY <1>1
  <2> QED BY <2>1, Wrap
<1>3. buf_used(r2, w) = u - n
  BY UsedAfterTake
<1>4. u - n \in Nat
  BY <1>1
<1>5. q \in Seq(Byte) /\ DOMAIN q = 1..u /\ \A i \in 1..u : q[i] = b[(r + i - 1) % BufCap]
  BY <1>1, CopyElements, ZenonT(60)
<1> HIDE DEF r2
<1>6. DOMAIN new = 1..u - n /\ \A i \in 1..u - n : new[i] = b[(r2 + i - 1) % BufCap]
  BY <1>4, CopyElements
<1> HIDE DEF u, q
<1>7. Len(q) = u
  BY <1>1, <1>5
<1>8. ASSUME NEW i \in 1..u - n PROVE new[i] = q[n + i]
  <2>1. i - 1 \in Nat /\ i - 1 < BufCap /\ n + i - 1 \in Nat /\ n + i - 1 < BufCap
    BY <1>1, <1>4
  <2>2. (r2 + (i - 1)) % BufCap
          = IF r2 + (i - 1) < BufCap THEN r2 + (i - 1) ELSE r2 + (i - 1) - BufCap
    BY <1>2, <2>1, Wrap
  <2>3. (r + (n + i - 1)) % BufCap
          = IF r + (n + i - 1) < BufCap THEN r + (n + i - 1) ELSE r + (n + i - 1) - BufCap
    BY <2>1, Wrap
  <2>4. r2 + (i - 1) = r2 + i - 1 /\ r + (n + i - 1) = r + (n + i) - 1
    BY <1>1, <1>2, <2>1
  <2>5. (r2 + (i - 1)) % BufCap = (r + (n + i - 1)) % BufCap
    BY <1>1, <1>2, <2>1, <2>2, <2>3
  <2>6. n + i \in 1..u
    BY <1>1, <1>4
  <2>7. new[i] = b[(r2 + i - 1) % BufCap] /\ q[n + i] = b[(r + (n + i) - 1) % BufCap]
    BY <1>5, <1>6, <2>6
  <2> QED BY <2>4, <2>5, <2>7
<1> HIDE DEF new
<1>9. new \in Seq(Byte) /\ Len(new) = u - n
  <2>1. \A i \in 1..u - n : new[i] \in Byte
    BY <1>1, <1>4, <1>5, <1>7, <1>8
  <2> QED BY <1>4, <2>1, CopyType DEF new
<1>10. new = SubSeq(q, n + 1, Len(q))
  <2>1. n \in 0..Len(q)
    BY <1>4, <1>7
  <2> DEFINE rest == SubSeq(q, n + 1, Len(q))
  <2>2. /\ rest \in Seq(Byte) /\ Len(rest) = Len(q) - n
        /\ \A i \in 1..Len(q) - n : rest[i] = q[n + i]
    BY <1>5, <2>1, DropElements
  <2> HIDE DEF rest
  <2>3. rest = new
    BY <1>7, <1>8, <1>9, <2>2, SeqEqual
  <2> QED BY <2>3 DEF rest
<1> QED BY <1>2, <1>3, <1>10 DEF u, q, r2, new

(* The window try_process copies is the front of the unread bytes. *)
LEMMA WindowIsFront ==
    ASSUME NEW b, NEW r \in Positions, NEW w \in Positions,
           ring_copy(b, r, buf_used(r, w)) \in Seq(Byte)
    PROVE  LET q == ring_copy(b, r, buf_used(r, w))
           IN  /\ Len(q) = buf_used(r, w)
               /\ Window(r, w) \in 0..Len(q)
               /\ ring_copy(b, r, Window(r, w)) = SubSeq(q, 1, Window(r, w))
               /\ ring_copy(b, r, Window(r, w)) \in Seq(Byte)
               /\ Len(ring_copy(b, r, Window(r, w))) = Window(r, w)
<1> DEFINE u == buf_used(r, w)
<1> DEFINE m == Window(r, w)
<1> DEFINE q == ring_copy(b, r, u)
<1> DEFINE t == ring_copy(b, r, m)
<1>1. u \in Nat /\ m \in 0..u
  BY UsedRange, SizesAssumption DEF Window
<1> HIDE DEF u, m
<1>2. q \in Seq(Byte) /\ DOMAIN q = 1..u /\ \A i \in 1..u : q[i] = b[(r + i - 1) % BufCap]
  BY <1>1, CopyElements DEF u
<1>3. DOMAIN t = 1..m /\ \A i \in 1..m : t[i] = b[(r + i - 1) % BufCap]
  BY <1>1, CopyElements
<1> HIDE DEF q, t
<1>4. Len(q) = u
  BY <1>1, <1>2
<1>5. \A i \in 1..m : t[i] = q[i]
  BY <1>1, <1>2, <1>3
<1>6. t \in Seq(Byte) /\ Len(t) = m
  <2>1. m \in Nat /\ \A i \in 1..m : t[i] \in Byte
    BY <1>1, <1>2, <1>4, <1>5
  <2> QED BY <2>1, CopyType DEF t
<1>7. t = SubSeq(q, 1, m)
  <2>1. SubSeq(q, 1, m) \in Seq(Byte) /\ Len(SubSeq(q, 1, m)) = m
        /\ \A i \in 1..m : SubSeq(q, 1, m)[i] = q[i]
    BY <1>1, <1>2, <1>4
  <2> QED BY <1>5, <1>6, <2>1, SeqEqual
<1> QED BY <1>1, <1>4, <1>6, <1>7 DEF u, m, q, t

-------------------------------------------------------------------------------
(* Responses. *)

(* What a callback left for register i is a word. *)
LEMMA RegAtType == ASSUME NEW a \in Answers, NEW i PROVE RegAt(a, i) \in Word
<1>1. a.regs \in Seq(Word) /\ a.junk \in Byte
  BY AnswersAssumption
<1>2. BE(a.junk, a.junk) \in Word
  BY <1>1, BEType
<1>3. i \in 1..Len(a.regs) => a.regs[i] \in Word
  BY <1>1
<1> QED BY <1>2, <1>3, Zenon DEF RegAt

(* handle_read_request builds bytes. *)
LEMMA ReadDataType ==
    ASSUME NEW fc, NEW count \in Nat, NEW a \in Answers
    PROVE  ReadData(fc, count, a) \in Seq(Byte)
<1> DEFINE n == Wanted(fc, count)
           rs == [i \in 1..n |-> RegAt(a, i)]
<1>1. n \in Nat
  BY DEF Wanted
<1>2. rs \in Seq(Word)
  <2> HIDE DEF n
  <2> QED BY <1>1, RegAtType
<1> HIDE DEF n, rs
<1>3. ReadBytes(fc, rs) \in Seq(Byte)
  BY <1>2, CoilBytes, RegisterBytes
<1> QED BY <1>3 DEF ReadData, n, rs

(* A read response starts with the function code. *)
LEMMA ReadPduShape ==
    ASSUME NEW fc \in Byte, NEW data \in Seq(Byte)
    PROVE  LET pdu == egw_modbus_build_read_resp_pdu(fc, data)
           IN  pdu \in Seq(Byte) /\ pdu /= <<>> /\ pdu[1] = fc
<1> DEFINE n == Len(data) % 256
<1>1. n \in 0..255 /\ n <= Len(data)
  <2>1. \A m \in Nat : m % 256 \in 0..255 /\ m % 256 <= m
    OBVIOUS
  <2>2. Len(data) \in Nat
    OBVIOUS
  <2> QED BY <2>1, <2>2
<1>2. n \in Byte
  BY <1>1 DEF Byte
<1> HIDE DEF n
<1>3. SubSeq(data, 1, n) \in Seq(Byte)
  BY <1>1
<1> DEFINE t == SubSeq(data, 1, n)
<1> HIDE DEF t
<1>4. t \in Seq(Byte)
  BY <1>3 DEF t
<1>5. <<fc, n>> \o t \in Seq(Byte) /\ <<fc, n>> \o t /= <<>> /\ (<<fc, n>> \o t)[1] = fc
  BY <1>2, <1>4
<1> QED BY <1>5 DEF egw_modbus_build_read_resp_pdu, n, t

(* An exception PDU starts with the function code, up to its high bit. *)
LEMMA ExceptionPduShape ==
    ASSUME NEW fc \in Byte, NEW exc \in Nat
    PROVE  LET pdu == ExceptionPdu(fc, exc % 256)
           IN  pdu \in Seq(Byte) /\ pdu /= <<>> /\ pdu[1] % 128 = fc % 128
<1> DEFINE h == IF fc < 128 THEN fc + 128 ELSE fc
<1>1. exc % 256 \in Byte
  BY DEF Byte
<1>2. h \in Byte /\ h % 128 = fc % 128
  BY DEF Byte
<1> HIDE DEF h
<1>3. <<h, exc % 256>> \in Seq(Byte) /\ <<h, exc % 256>> /= <<>> /\ <<h, exc % 256>>[1] = h
  BY <1>1, <1>2
<1> QED BY <1>2, <1>3 DEF ExceptionPdu, h

(* After Respond the flag and the buffer agree, and on a serial line the response
   starts with the unit and the first byte of the PDU. *)
LEMMA RespondFacts ==
    ASSUME NEW tid \in Nat, NEW unit \in Byte, NEW pdu \in Seq(Byte), pdu /= <<>>,
           Respond(tid, unit, pdu)
    PROVE  /\ resp' \in Seq(Byte) /\ sending' = (resp' /= <<>>)
           /\ Transport = RTU /\ resp' /= <<>> => resp'[1] = unit /\ resp'[2] = pdu[1]
<1> DEFINE adu == Adu(Transport, tid, unit, pdu)
<1>1. adu \in Seq(Byte)
  BY AduType
<1>2. resp' = (IF Len(adu) > RespCap THEN <<>> ELSE adu) /\ sending' = (resp' /= <<>>)
  BY DEF Respond, egw_modbus_encode
<1>3. Transport = RTU => adu[1] = unit /\ adu[2] = pdu[1]
  <2> DEFINE body == <<unit>> \o pdu
  <2> DEFINE tail == <<Low(Checksum(body)), High(Checksum(body))>>
  <2>1. Transport = RTU => adu = body \o tail
    BY DEF Adu
  <2>2. body \in Seq(Byte) /\ Len(body) >= 2 /\ body[1] = unit /\ body[2] = pdu[1]
    OBVIOUS
  <2>3. tail \in Seq(Byte)
    BY ChecksumType, WordIsNat, HighLowType
  <2> HIDE DEF body, tail
  <2>4. (body \o tail)[1] = unit /\ (body \o tail)[2] = pdu[1]
    BY <2>2, <2>3
  <2> HIDE DEF adu
  <2> QED BY <2>1, <2>4
<1> HIDE DEF adu
<1>4. <<>> \in Seq(Byte)
  OBVIOUS
<1>5. CASE Len(adu) > RespCap
  <2>1. resp' = <<>>
    BY <1>2, <1>5
  <2> QED BY <1>2, <1>4, <2>1
<1>6. CASE ~(Len(adu) > RespCap)
  <2>1. resp' = adu
    BY <1>2, <1>6
  <2> QED BY <1>1, <1>2, <1>3, <2>1
<1> QED BY <1>5, <1>6

(* On a serial line a frame of at least five bytes decodes to its first byte and a
   PDU that starts with its second one. *)
LEMMA DecodeRtu ==
    ASSUME NEW f \in Seq(Byte), Len(f) >= 5, egw_modbus_decode(RTU, f).ok
    PROVE  LET d == egw_modbus_decode(RTU, f)
           IN  d.unit = f[1] /\ d.pdu /= <<>> /\ d.pdu[1] = f[2]
<1> DEFINE pdu == SubSeq(f, 2, Len(f) - 2)
<1>1. pdu \in Seq(Byte) /\ Len(pdu) = Len(f) - 3 /\ pdu[1] = f[2]
  OBVIOUS
<1> HIDE DEF pdu
<1>2. CASE validate(f)
  <2>1. egw_modbus_decode(RTU, f) = [ok |-> TRUE, unit |-> f[1], pdu |-> pdu]
    BY <1>2 DEF egw_modbus_decode, pdu
  <2>2. pdu /= <<>>
    BY <1>1
  <2> QED BY <1>1, <2>1, <2>2
<1>3. CASE ~validate(f)
  BY <1>3 DEF egw_modbus_decode
<1> QED BY <1>2, <1>3

(* Dispatching a frame with an empty response buffer leaves the flag and the buffer
   in agreement, and on a serial line a response to that frame. *)
LEMMA HandleFrame ==
    ASSUME NEW f \in Seq(Byte), Len(f) >= 5, NEW a \in Answers,
           server_handle_frame(f, <<>>, a)
    PROVE  /\ resp' \in Seq(Byte) /\ sending' = (resp' /= <<>>)
           /\ Transport = RTU /\ resp' /= <<>>
                 => resp'[1] = f[1] /\ resp'[2] % 128 = f[2] % 128
<1> DEFINE d == egw_modbus_decode(Transport, f)
<1> DEFINE q == egw_modbus_parse_request(d.pdu, a.junk)
<1> DEFINE tid == IF Transport = TCP THEN BE(f[1], f[2]) ELSE 0
<1> DEFINE Goal == /\ resp' \in Seq(Byte) /\ sending' = (resp' /= <<>>)
                   /\ Transport = RTU /\ resp' /= <<>>
                        => resp'[1] = f[1] /\ resp'[2] % 128 = f[2] % 128
<1>1. d.ok \in BOOLEAN /\ d.unit \in Byte /\ d.pdu \in Seq(Byte)
  BY DecodeType
<1>2. a.junk \in Byte
  BY AnswersAssumption
<1>3. q.ok \in BOOLEAN /\ q.fc \in Byte /\ q.count \in Nat
  BY <1>1, <1>2, ParseRequestType
<1>4. tid \in Nat
  <2>1. f[1] \in Byte /\ f[2] \in Byte
    OBVIOUS
  <2>2. BE(f[1], f[2]) \in Nat
    BY <2>1, BEType, WordIsNat
  <2> QED BY <2>2
<1>5. q.fc = ByteAt(d.pdu, 1, a.junk)
  <2> HIDE DEF d
  <2> QED BY DEF egw_modbus_parse_request
<1>6. Transport = RTU /\ d.ok => d.unit = f[1] /\ d.pdu /= <<>> /\ d.pdu[1] = f[2] /\ q.fc = f[2]
  <2>1. Transport = RTU /\ d.ok => d.unit = f[1] /\ d.pdu /= <<>> /\ d.pdu[1] = f[2]
    BY DecodeRtu
  <2> HIDE DEF d, q
  <2> QED BY <1>1, <1>5, <2>1 DEF ByteAt
<1>7. q.ok => d.pdu /= <<>> /\ d.pdu[1] = q.fc
  <2> HIDE DEF d
  <2>1. q.ok => Len(d.pdu) >= 5
    BY <1>1 DEF egw_modbus_parse_request
  <2> HIDE DEF q
  <2> QED BY <1>1, <1>5, <2>1 DEF ByteAt
<1>8. \/ Silent(<<>>)
      \/ d.ok /\ send_exception(d.unit, q.fc, tid, ILLEGAL_DATA_ADDR)
      \/ d.ok /\ send_exception(d.unit, q.fc, tid, SLAVE_DEVICE_FAILURE)
      \/ d.ok /\ q.ok
            /\ Respond(tid, d.unit,
                   egw_modbus_build_read_resp_pdu(q.fc, ReadData(q.fc, q.count, a)))
      \/ d.ok /\ q.ok /\ Respond(tid, d.unit, d.pdu)
  <2> HIDE DEF Goal
  <2> QED BY Zenon DEF server_handle_frame
<1> HIDE DEF d, q, tid
<1>9. CASE Silent(<<>>)
  <2>1. resp' = <<>> /\ sending' = FALSE
    BY <1>9 DEF Silent
  <2>2. <<>> \in Seq(Byte)
    OBVIOUS
  <2> QED BY <2>1, <2>2, Zenon
<1>10. ASSUME NEW code \in Nat, d.ok, send_exception(d.unit, q.fc, tid, code) PROVE Goal
  <2> DEFINE pdu == ExceptionPdu(q.fc, tid % 256)
  <2>1. pdu \in Seq(Byte) /\ pdu /= <<>> /\ pdu[1] % 128 = q.fc % 128
    BY <1>3, <1>4, ExceptionPduShape
  <2>2. Respond(code, d.unit, pdu)
    BY <1>10 DEF send_exception
  <2> HIDE DEF pdu
  <2> QED BY <1>1, <1>6, <1>10, <2>1, <2>2, RespondFacts
<1>11. CASE d.ok /\ q.ok
            /\ Respond(tid, d.unit,
                   egw_modbus_build_read_resp_pdu(q.fc, ReadData(q.fc, q.count, a)))
  <2> DEFINE pdu == egw_modbus_build_read_resp_pdu(q.fc, ReadData(q.fc, q.count, a))
  <2>1. pdu \in Seq(Byte) /\ pdu /= <<>> /\ pdu[1] = q.fc
    BY <1>3, ReadDataType, ReadPduShape
  <2>2. Respond(tid, d.unit, pdu)
    BY <1>11
  <2> HIDE DEF pdu
  <2> QED BY <1>1, <1>4, <1>6, <1>11, <2>1, <2>2, RespondFacts
<1>12. CASE d.ok /\ q.ok /\ Respond(tid, d.unit, d.pdu)
  BY <1>1, <1>4, <1>6, <1>7, <1>12, RespondFacts
<1>13. ILLEGAL_DATA_ADDR \in Nat /\ SLAVE_DEVICE_FAILURE \in Nat
  BY DEF ILLEGAL_DATA_ADDR, SLAVE_DEVICE_FAILURE
<1> QED BY <1>8, <1>9, <1>10, <1>11, <1>12, <1>13

-------------------------------------------------------------------------------
(* try_process. *)

Outcomes == {"idle", "waiting", "discarded", "silent", "answered", "overrun"}

(* Why an idle server does not look at its bytes: there are none, they are no
   complete request, or a request answered by silence (or one that overran an array)
   was taken before them and left room in the ring. *)
Idle ==
    ~sending =>
        \/ buf_used(rd, wr) = 0
        \/ parse_and_check(Seen).res = "NEED_MORE"
        \/ outcome \in {"silent", "overrun"} /\ buf_free(rd, wr) > 0

(* One run of try_process, without a pending response, on a ring whose unread bytes
   are all received ones: the three outcomes, and what each does to the unread
   bytes and to the response. *)
LEMMA TryProcess ==
    ASSUME NEW b, NEW r \in Positions, NEW w \in Positions, NEW a \in Answers,
           ring_copy(b, r, buf_used(r, w)) \in Seq(Byte),
           frame \in Seq(Byte), buf' = b,
           try_process(b, r, w, <<>>, a)
    PROVE  LET q == ring_copy(b, r, buf_used(r, w))
               p == parse_and_check(SubSeq(q, 1, Window(r, w)))
           IN  /\ rd' \in Positions /\ wr' \in Positions
               /\ resp' \in Seq(Byte) /\ sending' = (resp' /= <<>>)
               /\ frame' \in Seq(Byte) /\ outcome' \in Outcomes
               /\ Unread' \in Seq(Byte)
               /\ Idle'
               /\ \/ p.res = "NEED_MORE" /\ Unread' = q /\ resp' = <<>>
                  \/ p.res = "FRAME_ERROR" /\ Unread' = <<>> /\ resp' = <<>>
                  \/ /\ p.res = "FRAME_READY"
                     /\ Unread' = SubSeq(q, p.len + 1, Len(q))
                     /\ Transport = RTU /\ resp' /= <<>>
                           => resp'[1] = q[1] /\ resp'[2] % 128 = q[2] % 128
<1> DEFINE u == buf_used(r, w)
<1> DEFINE q == ring_copy(b, r, u)
<1> DEFINE tmp == ring_copy(b, r, Window(r, w))
<1> DEFINE p == parse_and_check(tmp)
<1> DEFINE f == SubSeq(tmp, 1, p.len)
<1>1. /\ q \in Seq(Byte) /\ Len(q) = u /\ u \in 0..BufCap - 1
      /\ Window(r, w) \in 0..u
      /\ tmp \in Seq(Byte) /\ tmp = SubSeq(q, 1, Window(r, w)) /\ Len(tmp) = Window(r, w)
  BY WindowIsFront, UsedRange
<1>2. /\ p.res \in {"NEED_MORE", "FRAME_ERROR", "FRAME_READY"}
      /\ p.res = "FRAME_READY" => p.len \in 5..Len(tmp)
  BY <1>1, DelimitOutcome
<1>3. Len(tmp) = 0 => p.res = "NEED_MORE"
  <2>1. p = Delimit(tmp, modbus_frame_len(tmp))
    BY DEF parse_and_check
  <2> HIDE DEF tmp, p
  <2>2. Len(tmp) = 0 => p = [res |-> "NEED_MORE", len |-> 0]
    BY <2>1 DEF Delimit, MIN_FRAME
  <2> QED BY <2>2
<1>4. BufCap \in Nat /\ BufCap > 8 /\ 0 \in Positions
  BY SizesAssumption DEF Positions
<1>5. Unread' = ring_copy(b, rd', buf_used(rd', wr')) /\ Seen' = ring_copy(b, rd', Window(rd', wr'))
  BY DEF Unread, Seen, ring_copy, buf_used, Window
<1>6. Idle' <=> (~sending' =>
          \/ buf_used(rd', wr') = 0
          \/ parse_and_check(Seen').res = "NEED_MORE"
          \/ outcome' \in {"silent", "overrun"} /\ buf_free(rd', wr') > 0)
  BY DEF Idle
<1>7. CASE (u = 0 \/ p.res = "NEED_MORE") /\ rd' = r /\ wr' = w /\ outcome' = "waiting"
           /\ Silent(<<>>) /\ frame' = frame
  <2>1. p.res = "NEED_MORE"
    BY <1>1, <1>3, <1>7
  <2>2. Unread' = q /\ Seen' = tmp
    BY <1>5, <1>7
  <2>3. resp' = <<>> /\ sending' = FALSE /\ <<>> \in Seq(Byte)
    BY <1>7 DEF Silent
  <2>4. outcome' \in Outcomes
    BY <1>7 DEF Outcomes
  <2>5. Idle'
    BY <1>6, <2>1, <2>2
  <2> HIDE DEF q, tmp, p
  <2> QED BY <1>1, <1>7, <2>1, <2>2, <2>3, <2>4, <2>5, Zenon DEF q, p
<1>8. CASE u > 0 /\ p.res = "FRAME_ERROR" /\ rd' = 0 /\ wr' = 0 /\ outcome' = "discarded"
           /\ Silent(<<>>) /\ frame' = frame
  <2>1. buf_used(rd', wr') = 0
    BY <1>8 DEF buf_used
  <2>2. Unread' = <<>>
    BY <1>5, <2>1 DEF ring_copy
  <2>3. resp' = <<>> /\ sending' = FALSE /\ <<>> \in Seq(Byte)
    BY <1>8 DEF Silent
  <2>4. outcome' \in Outcomes
    BY <1>8 DEF Outcomes
  <2>5. Idle'
    BY <1>6, <2>1
  <2>6. rd' \in Positions /\ wr' \in Positions
    BY <1>4, <1>8
  <2> HIDE DEF q, tmp, p
  <2> QED BY <1>1, <1>8, <2>2, <2>3, <2>4, <2>5, <2>6, Zenon DEF q, p
<1>9. CASE u > 0 /\ p.res = "FRAME_READY" /\ rd' = (r + p.len) % BufCap /\ wr' = w
           /\ frame' = f
           /\ \/ /\ server_handle_frame(f, <<>>, a)
                 /\ outcome' = IF sending' THEN "answered" ELSE "silent"
              \/ Silent(<<>>) /\ outcome' = "overrun"
  <2>1. p.len \in Nat /\ p.len >= 5 /\ p.len <= Len(tmp) /\ p.len <= u
    BY <1>1, <1>2, <1>9
  <2>2. /\ rd' \in Positions
        /\ ring_copy(b, rd', buf_used(rd', w)) = SubSeq(q, p.len + 1, Len(q))
    BY <1>1, <1>9, <2>1, TakeDrops
  <2>3. Unread' = SubSeq(q, p.len + 1, Len(q))
    BY <1>5, <1>9, <2>2
  <2> HIDE DEF u, p, q, tmp
  <2>4. Unread' \in Seq(Byte)
    BY <1>1, <2>1, <2>3
  <2>5. f \in Seq(Byte) /\ Len(f) = p.len /\ f[1] = q[1] /\ f[2] = q[2]
    <3>1. f \in Seq(Byte) /\ Len(f) = p.len /\ f[1] = tmp[1] /\ f[2] = tmp[2]
      BY <1>1, <2>1
    <3>2. tmp[1] = q[1] /\ tmp[2] = q[2]
      BY <1>1, <2>1
    <3> QED BY <3>1, <3>2
  <2> HIDE DEF f
  <2>6. /\ resp' \in Seq(Byte) /\ sending' = (resp' /= <<>>)
        /\ Transport = RTU /\ resp' /= <<>>
              => resp'[1] = f[1] /\ resp'[2] % 128 = f[2] % 128
    <3>1. CASE server_handle_frame(f, <<>>, a)
      BY <1>9, <2>1, <2>5, <3>1, HandleFrame
    <3>2. CASE Silent(<<>>)
      <4>1. resp' = <<>> /\ sending' = FALSE /\ <<>> \in Seq(Byte)
        BY <3>2 DEF Silent
      <4> QED BY <4>1, Zenon
    <3> QED BY <1>9, <3>1, <3>2
  <2>7. outcome' \in Outcomes
    BY <1>9 DEF Outcomes
  <2>8. Idle'
    <3>1. buf_used(rd', wr') = u - p.len
      BY <1>9, <2>1, UsedAfterTake DEF u
    <3>2. buf_free(rd', wr') > 0
      BY <1>1, <1>4, <2>1, <3>1 DEF buf_free
    <3>3. ~sending' => outcome' \in {"silent", "overrun"}
      BY <1>9
    <3> QED BY <1>6, <3>2, <3>3
  <2>9. frame' \in Seq(Byte) /\ wr' \in Positions
    BY <1>9, <2>5
  <2>10. p = parse_and_check(SubSeq(q, 1, Window(r, w)))
    BY <1>1 DEF p
  <2> QED BY <1>9, <2>2, <2>3, <2>4, <2>5, <2>6, <2>7, <2>8, <2>9, <2>10 DEF q, u
<1>10. \/ (u = 0 \/ p.res = "NEED_MORE") /\ rd' = r /\ wr' = w /\ outcome' = "waiting"
             /\ Silent(<<>>) /\ frame' = frame
       \/ u > 0 /\ p.res = "FRAME_ERROR" /\ rd' = 0 /\ wr' = 0 /\ outcome' = "discarded"
             /\ Silent(<<>>) /\ frame' = frame
       \/ u > 0 /\ p.res = "FRAME_READY" /\ rd' = (r + p.len) % BufCap /\ wr' = w
             /\ frame' = f
             /\ \/ /\ server_handle_frame(f, <<>>, a)
                   /\ outcome' = IF sending' THEN "answered" ELSE "silent"
                \/ Silent(<<>>) /\ outcome' = "overrun"
  BY Zenon DEF try_process
<1> QED BY <1>7, <1>8, <1>9, <1>10

-------------------------------------------------------------------------------
(* The inductive invariant.  TypeOK needs to know that the unread bytes were
   received (a frame is made of them), SendingIffResponse that an idle server
   starts every dispatch with an empty response buffer. *)

IInv == TypeOK /\ UnreadReceived /\ SendingIffResponse /\ Idle

(* What looking at the unread bytes s once does to them and to the response. *)
Served(s) ==
    LET p == parse_and_check(SubSeq(s, 1, IF Len(s) > MaxFrame THEN MaxFrame ELSE Len(s)))
    IN  \/ p.res = "NEED_MORE" /\ Unread' = s /\ resp' = <<>>
        \/ p.res = "FRAME_ERROR" /\ Unread' = <<>> /\ resp' = <<>>
        \/ /\ p.res = "FRAME_READY"
           /\ Unread' = SubSeq(s, p.len + 1, Len(s))
           /\ Transport = RTU /\ resp' /= <<>>
                 => resp'[1] = s[1] /\ resp'[2] % 128 = s[2] % 128

(* UnreadReceived says that the unread bytes are a byte string. *)
LEMMA UnreadIsBytes ==
    ASSUME NEW b, NEW r \in Positions, NEW w \in Positions
    PROVE  LET q == ring_copy(b, r, buf_used(r, w))
           IN  (\A i \in 1..buf_used(r, w) : q[i] \in Byte) <=> q \in Seq(Byte)
<1> DEFINE u == buf_used(r, w)
<1> DEFINE q == ring_copy(b, r, u)
<1>1. u \in Nat
  BY UsedRange, SizesAssumption
<1> HIDE DEF u
<1>2. (\A i \in 1..u : q[i] \in Byte) => q \in Seq(Byte)
  BY <1>1, CopyType
<1>3. DOMAIN q = 1..u
  BY <1>1, CopyElements
<1> HIDE DEF q
<1>4. q \in Seq(Byte) => \A i \in 1..u : q[i] \in Byte
  BY <1>1, <1>3
<1> QED BY <1>2, <1>4 DEF u, q

(* A store keeps the contents of the ring bytes or untouched memory. *)
LEMMA StoreType ==
    ASSUME NEW b \in [Positions -> Byte \cup {Unwritten}], NEW w \in Positions,
           NEW data \in Seq(Byte)
    PROVE  Store(b, w, data) \in [Positions -> Byte \cup {Unwritten}]
<1> DEFINE at(i) == (i - w + BufCap) % BufCap
<1>1. ASSUME NEW i \in Positions
      PROVE  (IF at(i) < Len(data) THEN data[at(i) + 1] ELSE b[i]) \in Byte \cup {Unwritten}
  <2>1. at(i) \in Nat
    BY SizesAssumption DEF Positions
  <2> HIDE DEF at
  <2>2. at(i) < Len(data) => data[at(i) + 1] \in Byte
    BY <2>1
  <2>3. b[i] \in Byte \cup {Unwritten}
    OBVIOUS
  <2> QED BY <2>2, <2>3, Zenon
<1>2. Store(b, w, data)
        = [i \in Positions |-> IF at(i) < Len(data) THEN data[at(i) + 1] ELSE b[i]]
  BY DEF Store
<1> HIDE DEF at
<1> QED BY <1>1, <1>2

(* add_unit registers ids from 1 to 247 only. *)
LEMMA RegisteredType == ASSUME NEW ids PROVE RegisteredBy(ids) \subseteq Units
BY DEF RegisteredBy

(* Looking at the ring with nothing pending preserves the invariant. *)
LEMMA ProcessStep ==
    ASSUME IInv, NEW b \in [Positions -> Byte \cup {Unwritten}], NEW w \in Positions,
           NEW a \in Answers, ring_copy(b, rd, buf_used(rd, w)) \in Seq(Byte),
           buf' = b, unit_mask' = unit_mask, try_process(b, rd, w, <<>>, a)
    PROVE  IInv' /\ Served(ring_copy(b, rd, buf_used(rd, w)))
<1> DEFINE q == ring_copy(b, rd, buf_used(rd, w))
<1>1. rd \in Positions /\ frame \in Seq(Byte) /\ unit_mask \subseteq Units
  BY DEF IInv, TypeOK
<1>2. LET p == parse_and_check(SubSeq(q, 1, Window(rd, w)))
      IN  /\ rd' \in Positions /\ wr' \in Positions
          /\ resp' \in Seq(Byte) /\ sending' = (resp' /= <<>>)
          /\ frame' \in Seq(Byte) /\ outcome' \in Outcomes
          /\ Unread' \in Seq(Byte)
          /\ Idle'
          /\ \/ p.res = "NEED_MORE" /\ Unread' = q /\ resp' = <<>>
             \/ p.res = "FRAME_ERROR" /\ Unread' = <<>> /\ resp' = <<>>
             \/ /\ p.res = "FRAME_READY"
                /\ Unread' = SubSeq(q, p.len + 1, Len(q))
                /\ Transport = RTU /\ resp' /= <<>>
                      => resp'[1] = q[1] /\ resp'[2] % 128 = q[2] % 128
  BY <1>1, TryProcess, ZenonT(60)
<1>3. Window(rd, w) = IF Len(q) > MaxFrame THEN MaxFrame ELSE Len(q)
  <2>1. Len(q) = buf_used(rd, w)
    BY <1>1, WindowIsFront
  <2> QED BY <2>1 DEF Window
<1> HIDE DEF q
<1>4. Served(q)
  BY <1>2, <1>3 DEF Served
<1>5. TypeOK'
  BY <1>1, <1>2 DEF TypeOK, Outcomes
<1>6. SendingIffResponse'
  BY <1>2 DEF SendingIffResponse
<1>7. UnreadReceived'
  <2>1. Unread' = ring_copy(buf', rd', buf_used(rd', wr'))
    BY DEF Unread, ring_copy, buf_used
  <2>2. UnreadReceived' <=> \A i \in 1..buf_used(rd', wr') : Unread'[i] \in Byte
    BY DEF UnreadReceived
  <2> QED BY <1>2, <2>1, <2>2, UnreadIsBytes
<1>8. Idle'
  BY <1>2
<1> QED BY <1>4, <1>5, <1>6, <1>7, <1>8 DEF IInv, q

(* Bytes that fit arrive, by feed or by reserve and commit: they are appended, and
   processed unless a response is pending. *)
LEMMA AcceptStep ==
    ASSUME IInv, NEW data \in Seq(Byte), Len(data) <= buf_free(rd, wr), NEW a \in Answers,
           Accept(Store(buf, wr, data), (wr + Len(data)) % BufCap, a)
    PROVE  /\ IInv'
           /\ \/ sending /\ Unread' = Unread \o data /\ UNCHANGED resp
              \/ ~sending /\ Served(Unread \o data)
<1> DEFINE b == Store(buf, wr, data)
<1> DEFINE w == (wr + Len(data)) % BufCap
<1>1. /\ rd \in Positions /\ wr \in Positions /\ sending \in BOOLEAN
      /\ buf \in [Positions -> Byte \cup {Unwritten}]
  BY DEF IInv, TypeOK
<1>2. Unread \in Seq(Byte)
  BY <1>1, UnreadIsBytes DEF IInv, UnreadReceived, Unread
<1>3. b \in [Positions -> Byte \cup {Unwritten}]
  BY <1>1, StoreType
<1>4. w \in Positions
  <2>1. Len(data) \in Nat /\ Len(data) < BufCap
    BY <1>1, UsedRange, SizesAssumption DEF buf_free
  <2> QED BY <1>1, <2>1, Wrap
<1>5. ring_copy(b, rd, buf_used(rd, w)) = Unread \o data
  BY <1>1, <1>2, StoreAppends, ZenonT(60) DEF Unread
<1>6. Unread \o data \in Seq(Byte)
  BY <1>2
<1> HIDE DEF b, w
<1>7. Accept(b, w, a)
  BY DEF b, w
<1>8. CASE ~sending /\ try_process(b, rd, w, resp, a)
  <2>1. resp = <<>>
    BY <1>8 DEF IInv, SendingIffResponse
  <2>2. buf' = b /\ unit_mask' = unit_mask /\ try_process(b, rd, w, <<>>, a)
    BY <1>7, <1>8, <2>1 DEF Accept
  <2> QED BY <1>3, <1>4, <1>5, <1>6, <1>8, <2>2, ProcessStep
<1>9. CASE sending /\ wr' = w /\ UNCHANGED <<rd, resp, sending, frame, outcome>>
  <2>1. buf' = b /\ UNCHANGED unit_mask
    BY <1>7 DEF Accept
  <2>2. Unread' = Unread \o data
    BY <1>5, <1>9, <2>1 DEF Unread, ring_copy, buf_used
  <2>3. TypeOK'
    BY <1>3, <1>4, <1>9, <2>1 DEF IInv, TypeOK
  <2>4. SendingIffResponse' /\ Idle'
    BY <1>9 DEF IInv, SendingIffResponse, Idle
  <2>5. UnreadReceived'
    <3>1. Unread' = ring_copy(buf', rd', buf_used(rd', wr'))
      BY DEF Unread, ring_copy, buf_used
    <3>2. UnreadReceived' <=> \A i \in 1..buf_used(rd', wr') : Unread'[i] \in Byte
      BY DEF UnreadReceived
    <3>3. rd' \in Positions /\ wr' \in Positions
      BY <1>1, <1>4, <1>9
    <3> QED BY <1>6, <2>2, <3>1, <3>2, <3>3, UnreadIsBytes
  <2> QED BY <1>9, <2>2, <2>3, <2>4, <2>5 DEF IInv
<1> QED BY <1>7, <1>8, <1>9 DEF Accept

(* reserve never offers more than the ring can take. *)
LEMMA ReserveFits ==
    ASSUME NEW r \in Positions, NEW w \in Positions, rd = r, wr = w, NEW n \in Nat \ {0},
           n <= egw_modbus_server_reserve
    PROVE  n <= buf_free(rd, wr)
<1>1. buf_free(rd, wr) \in Nat /\ Contiguous \in Int
  BY SizesAssumption DEF buf_free, buf_used, Contiguous, Positions
<1> QED BY <1>1 DEF egw_modbus_server_reserve

(* The steps of Next, as changes of the unread bytes and the response. *)
QueueStep ==
    \/ \E data \in Chunks :
          \/ Len(Unread) + Len(data) > BufCap - 1 /\ Unread' = <<>> /\ UNCHANGED resp
          \/ /\ Len(Unread) + Len(data) <= BufCap - 1
             /\ \/ resp /= <<>> /\ Unread' = Unread \o data /\ UNCHANGED resp
                \/ resp = <<>> /\ Served(Unread \o data)
    \/ Served(Unread)
    \/ UNCHANGED <<Unread, resp>>

(* Every step preserves the invariant and is a step of a queue of bytes. *)
LEMMA Step == ASSUME IInv, [Next]_vars PROVE IInv' /\ QueueStep
<1>1. /\ rd \in Positions /\ wr \in Positions /\ sending \in BOOLEAN
      /\ buf \in [Positions -> Byte \cup {Unwritten}]
  BY DEF IInv, TypeOK
<1>2. Unread \in Seq(Byte) /\ Len(Unread) = buf_used(rd, wr)
  <2>1. Unread \in Seq(Byte)
    BY <1>1, UnreadIsBytes DEF IInv, UnreadReceived, Unread
  <2> QED BY <1>1, <2>1, WindowIsFront DEF Unread
<1>3. SendingIffResponse
  BY DEF IInv
<1>4. buf_used(rd, wr) \in Nat /\ buf_used(rd, wr) < BufCap /\ BufCap \in Nat
  BY <1>1, UsedRange, SizesAssumption
<1>5. ASSUME NEW data \in Chunks, NEW a \in Answers, Len(data) <= buf_free(rd, wr),
             Accept(Store(buf, wr, data), (wr + Len(data)) % BufCap, a)
      PROVE  IInv' /\ QueueStep
  <2>1. data \in Seq(Byte)
    BY ChunksAssumption
  <2>2. /\ IInv'
        /\ \/ sending /\ Unread' = Unread \o data /\ UNCHANGED resp
           \/ ~sending /\ Served(Unread \o data)
    BY <1>5, <2>1, AcceptStep
  <2>3. Len(Unread) + Len(data) <= BufCap - 1
    BY <1>2, <1>4, <1>5, <2>1 DEF buf_free
  <2> QED BY <1>3, <2>2, <2>3, Zenon DEF QueueStep, SendingIffResponse
<1>6. ASSUME NEW data \in Chunks, NEW a \in Answers, Feed(data, a) PROVE IInv' /\ QueueStep
  BY <1>5, <1>6 DEF Feed
<1>7. ASSUME NEW data \in Chunks, NEW a \in Answers, ReserveCommit(data, a)
      PROVE  IInv' /\ QueueStep
  <2>1. Len(data) \in Nat \ {0}
    <3>1. data \in Seq(Byte) /\ data /= <<>>
      BY ChunksAssumption
    <3> QED BY <3>1
  <2>2. Len(data) <= buf_free(rd, wr)
    BY <1>1, <1>7, <2>1, ReserveFits DEF ReserveCommit
  <2> QED BY <1>5, <1>7, <2>2 DEF ReserveCommit
<1>8. ASSUME NEW data \in Chunks, FeedOverflow(data) PROVE IInv' /\ QueueStep
  <2>1. data \in Seq(Byte)
    BY ChunksAssumption
  <2>2. /\ Len(data) > buf_free(rd, wr) /\ rd' = 0 /\ wr' = 0
        /\ UNCHANGED <<buf, resp, sending, unit_mask, frame, outcome>>
    BY <1>8 DEF FeedOverflow
  <2>3. Len(Unread) + Len(data) > BufCap - 1
    BY <1>2, <1>4, <2>1, <2>2 DEF buf_free
  <2>4. buf_used(rd', wr') = 0
    BY <2>2 DEF buf_used
  <2>5. Unread' = <<>>
    BY <2>4 DEF Unread, ring_copy
  <2>6. 0 \in Positions
    BY SizesAssumption DEF Positions
  <2>7. TypeOK' /\ SendingIffResponse'
    BY <2>2, <2>6 DEF IInv, TypeOK, SendingIffResponse
  <2>8. UnreadReceived' /\ Idle'
    BY <2>4 DEF UnreadReceived, Idle
  <2>9. QueueStep
    BY <2>2, <2>3, <2>5 DEF QueueStep
  <2> QED BY <2>7, <2>8, <2>9 DEF IInv
<1>9. ASSUME NEW a \in Answers, ResponseSent(a) PROVE IInv' /\ QueueStep
  <2>1. buf' = buf /\ unit_mask' = unit_mask /\ try_process(buf, rd, wr, <<>>, a)
    BY <1>9 DEF ResponseSent
  <2>2. IInv' /\ Served(Unread)
    BY <1>1, <1>2, <2>1, ProcessStep DEF Unread
  <2> QED BY <2>2 DEF QueueStep
<1>10. ASSUME UNCHANGED <<buf, rd, wr, resp, sending, frame, outcome>>,
              unit_mask' \subseteq Units
       PROVE  IInv' /\ QueueStep
  <2>1. UNCHANGED <<Unread, resp>>
    BY <1>10 DEF Unread, ring_copy, buf_used
  <2>2. TypeOK' /\ SendingIffResponse'
    BY <1>10 DEF IInv, TypeOK, SendingIffResponse
  <2>3. UnreadReceived'
    BY <1>10, <2>1 DEF IInv, UnreadReceived, buf_used
  <2>4. Idle'
    <3>1. UNCHANGED Seen
      BY <1>10 DEF Seen, ring_copy, Window, buf_used
    <3> QED BY <1>10, <3>1 DEF IInv, Idle, buf_used, buf_free
  <2> QED BY <2>1, <2>2, <2>3, <2>4 DEF IInv, QueueStep
<1>11. ASSUME NEW ids \in UnitLists, AddUnit(ids) PROVE IInv' /\ QueueStep
  <2>1. UNCHANGED <<buf, rd, wr, resp, sending, frame, outcome>>
    BY <1>11 DEF AddUnit, ring
  <2>2. unit_mask' \subseteq Units
    BY <1>11, RegisteredType DEF AddUnit, IInv, TypeOK
  <2> QED BY <1>10, <2>1, <2>2
<1>12. CASE UNCHANGED vars
  <2>1. UNCHANGED <<buf, rd, wr, resp, sending, frame, outcome>>
    BY <1>12 DEF vars
  <2>2. unit_mask' \subseteq Units
    BY <1>12 DEF vars, IInv, TypeOK
  <2> QED BY <1>10, <2>1, <2>2
<1>13. Call => IInv' /\ QueueStep
  BY <1>6, <1>7, <1>8, <1>9, <1>11 DEF Call
<1> QED BY <1>12, <1>13 DEF Next

(* The server starts in the invariant. *)
LEMMA InitInv == Init => IInv
<1> SUFFICES ASSUME Init PROVE IInv
  OBVIOUS
<1>1. 0 \in Positions
  BY SizesAssumption DEF Positions
<1>2. buf_used(rd, wr) = 0
  BY DEF Init, buf_used
<1>3. TypeOK
  <2>1. buf \in [Positions -> Byte \cup {Unwritten}]
    BY DEF Init
  <2>2. unit_mask \subseteq Units
    BY RegisteredType DEF Init
  <2> QED BY <1>1, <2>1, <2>2 DEF Init, TypeOK
<1>4. UnreadReceived /\ Idle
  BY <1>2 DEF UnreadReceived, Idle
<1>5. SendingIffResponse
  BY DEF Init, SendingIffResponse
<1> QED BY <1>3, <1>4, <1>5 DEF IInv

(* The invariant holds throughout. *)
LEMMA Invariance == Spec => []IInv
<1>1. IInv /\ [Next]_vars => IInv'
  BY Step
<1> QED BY <1>1, InitInv, PTL DEF Spec

-------------------------------------------------------------------------------
(* A response answers its request, on a serial line. *)

(* What ResponseAnswersRequest says of a response r to the frame f. *)
Fits(r, f) ==
    r /= <<>> => /\ r[1] = f[1]
                 /\ \/ r[2] = f[2] /\ r[1] \in unit_mask
                    \/ r[2] >= 128 /\ r[2] % 128 = f[2] % 128
                 /\ \/ r[2] \in WriteMany
                    \/ resp_parse(r) = [res |-> "FRAME_READY", len |-> Len(r)]

(* What it says of callbacks cs that ran for the frame f. *)
Belong(cs, f) ==
    \A c \in cs : /\ c.unit \in unit_mask
                  /\ f[1] \in {0, c.unit}
                  /\ (c.op = "read") <=> (f[2] \in ReadCodes)

(* A response has the length the client infers from its first bytes, if its PDU is
   an exception, a read response or a repeated single write. *)
LEMMA RespondFits ==
    ASSUME Transport = RTU, NEW f, NEW tid, NEW unit \in Byte,
           NEW pdu \in Seq(Byte), Len(pdu) >= 2, unit = f[1], Respond(tid, unit, pdu),
           \/ pdu[1] = f[2] /\ unit \in unit_mask
           \/ pdu[1] >= 128 /\ pdu[1] % 128 = f[2] % 128,
           \/ pdu[1] \in WriteMany
           \/ pdu[1] >= 128 /\ Len(pdu) = 2
           \/ pdu[1] \in ReadCodes /\ Len(pdu) = 2 + pdu[2]
           \/ pdu[1] \in WriteOne /\ Len(pdu) = 5
    PROVE  Fits(resp', f)
<1> DEFINE adu == Adu(RTU, tid, unit, pdu)
<1>1. resp' = <<>> \/ resp' = adu
  BY DEF Respond, egw_modbus_encode
<1>2. /\ adu \in Seq(Byte) /\ Len(adu) = Len(pdu) + 3 /\ validate(adu)
      /\ adu[1] = unit /\ \A i \in 1..Len(pdu) : adu[i + 1] = pdu[i]
  <2>1. pdu /= <<>>
    OBVIOUS
  <2> QED BY <2>1, AduShape
<1> HIDE DEF adu
<1>3. adu[2] = pdu[1] /\ adu[3] = pdu[2] /\ Len(adu) >= 5 /\ pdu[1] \in Int
  <2>1. 1 \in 1..Len(pdu) /\ 2 \in 1..Len(pdu)
    OBVIOUS
  <2>2. adu[1 + 1] = pdu[1] /\ adu[2 + 1] = pdu[2] /\ pdu[1] \in Byte
    BY <1>2, <2>1
  <2> QED BY <1>2, <2>2, ByteRange
<1>4. pdu[2] \in Int
  <2>1. pdu[2] \in Byte
    OBVIOUS
  <2> QED BY <2>1, ByteRange
<1>5. ASSUME pdu[1] \notin WriteMany PROVE resp_frame_len(adu) = Len(adu)
  <2>1. CASE pdu[1] >= 128 /\ Len(pdu) = 2
    <3>1. pdu[1] \notin ReadCodes \cup WriteOne \cup WriteMany
      BY <1>3, <2>1 DEF ReadCodes, WriteOne, WriteMany
    <3>2. resp_frame_len(adu) = 5
      BY <1>2, <1>3, <2>1, <3>1 DEF resp_frame_len
    <3> QED BY <1>2, <2>1, <3>2
  <2>2. CASE pdu[1] \in ReadCodes /\ Len(pdu) = 2 + pdu[2]
    <3>1. pdu[1] < 128 /\ pdu[1] \notin WriteOne \cup WriteMany
      BY <1>3, <2>2 DEF ReadCodes, WriteOne, WriteMany
    <3>2. resp_frame_len(adu) = 3 + adu[3] + 2
      BY <1>2, <1>3, <2>2, <3>1 DEF resp_frame_len
    <3> QED BY <1>2, <1>3, <1>4, <2>2, <3>2
  <2>3. CASE pdu[1] \in WriteOne /\ Len(pdu) = 5
    <3>1. pdu[1] < 128 /\ pdu[1] \notin ReadCodes
      BY <1>3, <2>3 DEF ReadCodes, WriteOne
    <3>2. resp_frame_len(adu) = 8
      BY <1>2, <1>3, <2>3, <3>1 DEF resp_frame_len
    <3> QED BY <1>2, <2>3, <3>2
  <2> QED BY <1>5, <2>1, <2>2, <2>3
<1>6. pdu[1] \in WriteMany \/ resp_parse(adu) = [res |-> "FRAME_READY", len |-> Len(adu)]
  <2>1. Len(adu) >= 4
    BY <1>2, <1>3
  <2> QED BY <1>2, <1>5, <2>1, WholeResponse
<1>7. Fits(adu, f)
  <2>1. adu[1] = f[1] /\ adu[2] = pdu[1]
    BY <1>2, <1>3
  <2> QED BY <1>2, <1>6, <2>1 DEF Fits
<1> QED BY <1>1, <1>7 DEF Fits

(* An exception fits whatever is answered with it: its function code is the
   request's with the high bit set. *)
LEMMA ExceptionFits ==
    ASSUME Transport = RTU, NEW f, NEW tid \in Nat, NEW unit \in Byte, NEW fc \in Byte,
           NEW exc, unit = f[1], fc = f[2], send_exception(unit, fc, tid, exc)
    PROVE  Fits(resp', f)
<1> DEFINE pdu == ExceptionPdu(fc, tid % 256)
<1>1. pdu \in Seq(Byte) /\ pdu[1] % 128 = fc % 128
  BY ExceptionPduShape
<1>2. Len(pdu) = 2 /\ pdu[1] >= 128
  BY DEF ExceptionPdu, Byte
<1>3. Respond(exc, unit, pdu)
  BY DEF send_exception
<1> HIDE DEF pdu
<1>4. pdu[1] >= 128 /\ pdu[1] % 128 = f[2] % 128 /\ Len(pdu) = 2 /\ Len(pdu) >= 2
  BY <1>1, <1>2
<1>5. pdu \in Seq(Byte)
  BY <1>1
<1> QED BY <1>3, <1>4, <1>5, RespondFits, Zenon

(* The byte count of a read response is the number of its data bytes. *)
LEMMA ReadPduCount ==
    ASSUME NEW fc \in Byte, NEW data \in Seq(Byte)
    PROVE  LET pdu == egw_modbus_build_read_resp_pdu(fc, data)
           IN  Len(pdu) >= 2 /\ Len(pdu) = 2 + pdu[2]
<1> DEFINE n == Len(data) % 256
<1>1. n \in 0..255 /\ n <= Len(data)
  <2>1. \A m \in Nat : m % 256 \in 0..255 /\ m % 256 <= m
    OBVIOUS
  <2>2. Len(data) \in Nat
    OBVIOUS
  <2> QED BY <2>1, <2>2
<1> DEFINE t == SubSeq(data, 1, n)
<1>2. egw_modbus_build_read_resp_pdu(fc, data) = <<fc, n>> \o t
  BY DEF egw_modbus_build_read_resp_pdu
<1>3. n \in Byte
  BY <1>1 DEF Byte
<1> HIDE DEF n
<1>4. t \in Seq(Byte) /\ Len(t) = n
  BY <1>1
<1> HIDE DEF t
<1>5. Len(<<fc, n>> \o t) = 2 + n /\ (<<fc, n>> \o t)[2] = n
  BY <1>3, <1>4
<1> QED BY <1>1, <1>2, <1>5

(* Dispatching a frame: the response fits it, and callbacks run for the registered
   units it is addressed to. *)
LEMMA DispatchFits ==
    ASSUME Transport = RTU, NEW f \in Seq(Byte), Len(f) >= 5,
           f[2] \in WriteOne => Len(f) = 8,
           NEW a \in Answers, server_handle_frame(f, <<>>, a)
    PROVE  Fits(resp', f) /\ Belong(calls', f)
<1> DEFINE d == egw_modbus_decode(RTU, f)
<1> DEFINE q == egw_modbus_parse_request(d.pdu, a.junk)
<1>1. d.ok \in BOOLEAN /\ d.unit \in Byte /\ d.pdu \in Seq(Byte)
  BY DecodeType
<1>2. /\ q.ok \in BOOLEAN /\ q.fc \in Byte /\ q.count \in Nat
      /\ q.ok => q.fc \in ReadCodes \cup WriteOne \cup WriteMany
  BY <1>1, AnswersAssumption, ParseRequestType
<1>3. d.ok => d.unit = f[1] /\ d.pdu = SubSeq(f, 2, Len(f) - 2)
  <2>1. Len(f) >= 4
    OBVIOUS
  <2> QED BY <2>1, Zenon DEF egw_modbus_decode
<1>4. d.ok => /\ d.pdu /= <<>> /\ d.pdu[1] = f[2] /\ Len(d.pdu) = Len(f) - 3
              /\ Len(d.pdu) >= 2
  <2> DEFINE s == SubSeq(f, 2, Len(f) - 2)
  <2>1. s[1] = f[2] /\ Len(s) = Len(f) - 3
    OBVIOUS
  <2> HIDE DEF s
  <2>2. Len(s) >= 2 /\ s /= <<>>
    BY <2>1
  <2> HIDE DEF d
  <2> QED BY <1>3, <2>1, <2>2 DEF s
<1>5. d.ok => q.fc = f[2]
  <2>1. q.fc = ByteAt(d.pdu, 1, a.junk)
    <3> HIDE DEF d
    <3> QED BY DEF egw_modbus_parse_request
  <2> HIDE DEF d, q
  <2> QED BY <1>1, <1>4, <2>1 DEF ByteAt
<1>6. \/ Silent(<<>>) /\ calls' = {}
      \/ d.ok /\ send_exception(d.unit, q.fc, 0, ILLEGAL_DATA_ADDR) /\ calls' = {}
      \/ /\ d.ok /\ q.ok /\ d.unit = 0 /\ Silent(<<>>)
         /\ calls' = IF q.fc \in ReadCodes THEN {} ELSE WriteCalls(unit_mask, q, a.junk)
      \/ /\ d.ok /\ q.ok /\ d.unit \in unit_mask /\ q.fc \in ReadCodes
         /\ calls' = IF HasReadCb THEN {ReadCall(d.unit, q)} ELSE {}
         /\ \/ Respond(0, d.unit,
                   egw_modbus_build_read_resp_pdu(q.fc, ReadData(q.fc, q.count, a)))
            \/ send_exception(d.unit, q.fc, 0, SLAVE_DEVICE_FAILURE)
      \/ /\ d.ok /\ q.ok /\ d.unit \in unit_mask /\ q.fc \notin ReadCodes
         /\ calls' = WriteCalls({d.unit}, q, a.junk)
         /\ \/ send_exception(d.unit, q.fc, 0, SLAVE_DEVICE_FAILURE)
            \/ Respond(0, d.unit, d.pdu)
  <2>1. Transport /= TCP
    BY DEF RTU, TCP
  <2> QED BY <2>1, Zenon DEF server_handle_frame
<1> HIDE DEF d, q
<1>7. Silent(<<>>) => Fits(resp', f)
  BY DEF Silent, Fits
<1>8. ASSUME NEW exc, d.ok, send_exception(d.unit, q.fc, 0, exc) PROVE Fits(resp', f)
  BY <1>1, <1>2, <1>3, <1>5, <1>8, ExceptionFits
<1>9. calls' = {} => Belong(calls', f)
  BY DEF Belong
<1>10. ASSUME NEW us \in SUBSET unit_mask, d.ok, q.fc \notin ReadCodes,
              \A u \in us : f[1] \in {0, u}, calls' = WriteCalls(us, q, a.junk)
       PROVE  Belong(calls', f)
  <2> SUFFICES ASSUME NEW c \in WriteCalls(us, q, a.junk)
               PROVE  /\ c.unit \in unit_mask
                      /\ f[1] \in {0, c.unit}
                      /\ (c.op = "read") <=> (f[2] \in ReadCodes)
    BY <1>10 DEF Belong
  <2>1. PICK u \in us : c = WriteCall(u, q, a.junk)
    BY DEF WriteCalls
  <2>2. c.unit = u /\ c.op = "write"
    BY <2>1 DEF WriteCall
  <2> QED BY <1>5, <1>10, <2>2
<1>11. CASE /\ d.ok /\ q.ok /\ d.unit = 0 /\ Silent(<<>>)
            /\ calls' = IF q.fc \in ReadCodes THEN {} ELSE WriteCalls(unit_mask, q, a.junk)
  <2>1. q.fc \in ReadCodes => calls' = {}
    BY <1>11
  <2>2. q.fc \notin ReadCodes => calls' = WriteCalls(unit_mask, q, a.junk)
    BY <1>11
  <2>3. f[1] = 0
    BY <1>3, <1>11
  <2> QED BY <1>7, <1>9, <1>10, <1>11, <2>1, <2>2, <2>3
<1>12. CASE /\ d.ok /\ q.ok /\ d.unit \in unit_mask /\ q.fc \in ReadCodes
            /\ calls' = IF HasReadCb THEN {ReadCall(d.unit, q)} ELSE {}
            /\ \/ Respond(0, d.unit,
                      egw_modbus_build_read_resp_pdu(q.fc, ReadData(q.fc, q.count, a)))
               \/ send_exception(d.unit, q.fc, 0, SLAVE_DEVICE_FAILURE)
  <2>1. Belong(calls', f)
    <3>1. \A c \in calls' : c = ReadCall(d.unit, q)
      BY <1>12
    <3>2. ReadCall(d.unit, q).unit = d.unit /\ ReadCall(d.unit, q).op = "read"
      BY DEF ReadCall
    <3> QED BY <1>3, <1>5, <1>12, <3>1, <3>2 DEF Belong
  <2> DEFINE pdu == egw_modbus_build_read_resp_pdu(q.fc, ReadData(q.fc, q.count, a))
  <2>2. /\ pdu \in Seq(Byte) /\ pdu[1] = q.fc
        /\ Len(pdu) >= 2 /\ Len(pdu) = 2 + pdu[2]
    BY <1>2, ReadDataType, ReadPduShape, ReadPduCount
  <2> HIDE DEF pdu
  <2>3. Respond(0, d.unit, pdu) => Fits(resp', f)
    BY <1>1, <1>3, <1>5, <1>12, <2>2, RespondFits
  <2> QED BY <1>8, <1>12, <2>1, <2>3 DEF pdu
<1>13. CASE /\ d.ok /\ q.ok /\ d.unit \in unit_mask /\ q.fc \notin ReadCodes
            /\ calls' = WriteCalls({d.unit}, q, a.junk)
            /\ \/ send_exception(d.unit, q.fc, 0, SLAVE_DEVICE_FAILURE)
               \/ Respond(0, d.unit, d.pdu)
  <2>1. Belong(calls', f)
    <3>1. {d.unit} \in SUBSET unit_mask /\ \A u \in {d.unit} : f[1] \in {0, u}
      BY <1>3, <1>13
    <3> QED BY <1>10, <1>13, <3>1
  <2>2. d.pdu[1] \in WriteMany \/ (d.pdu[1] \in WriteOne /\ Len(d.pdu) = 5)
    <3>1. d.pdu[1] = f[2] /\ Len(d.pdu) = Len(f) - 3 /\ Len(f) \in Nat
      BY <1>4, <1>13
    <3>2. f[2] \in WriteOne \cup WriteMany
      BY <1>2, <1>5, <1>13
    <3>3. CASE f[2] \in WriteOne
      <4>1. Len(f) = 8
        BY <3>3
      <4>2. Len(d.pdu) = 5
        BY <3>1, <4>1
      <4> QED BY <3>1, <3>3, <4>2
    <3>4. CASE f[2] \in WriteMany
      BY <3>1, <3>4
    <3> QED BY <3>2, <3>3, <3>4
  <2>3. Respond(0, d.unit, d.pdu) => Fits(resp', f)
    BY <1>1, <1>3, <1>4, <1>13, <2>2, RespondFits
  <2> QED BY <1>8, <1>13, <2>1, <2>3
<1> QED BY <1>6, <1>7, <1>8, <1>9, <1>11, <1>12, <1>13

(* One run of try_process without a pending response. *)
LEMMA ProcessFits ==
    ASSUME Transport = RTU, NEW b, NEW r \in Positions, NEW w \in Positions,
           ring_copy(b, r, buf_used(r, w)) \in Seq(Byte),
           NEW a \in Answers, try_process(b, r, w, <<>>, a)
    PROVE  Fits(resp', frame') /\ Belong(calls', frame')
<1> DEFINE tmp == ring_copy(b, r, Window(r, w))
<1> DEFINE p == parse_and_check(tmp)
<1> DEFINE f == SubSeq(tmp, 1, p.len)
<1>1. tmp \in Seq(Byte)
  BY WindowIsFront
<1>2. p.res = "FRAME_READY" => p.len \in 5..Len(tmp) /\ p.len = modbus_frame_len(tmp)
  BY <1>1, DelimitOutcome
<1>3. \/ Silent(<<>>) /\ calls' = {}
      \/ p.res = "FRAME_READY" /\ frame' = f /\ server_handle_frame(f, <<>>, a)
  BY Zenon DEF try_process
<1> HIDE DEF tmp, p
<1>4. CASE Silent(<<>>) /\ calls' = {}
  BY <1>4 DEF Silent, Fits, Belong
<1>5. CASE p.res = "FRAME_READY" /\ frame' = f /\ server_handle_frame(f, <<>>, a)
  <2>1. p.len \in Nat /\ p.len >= 5 /\ p.len <= Len(tmp)
    BY <1>1, <1>2, <1>5
  <2>2. f \in Seq(Byte) /\ Len(f) = p.len /\ f[2] = tmp[2]
    BY <1>1, <2>1
  <2>3. tmp[2] \in WriteOne => modbus_frame_len(tmp) = 8
    BY <1>1, <2>1 DEF modbus_frame_len, WriteOne, WriteMany, ReadCodes
  <2> HIDE DEF f
  <2> QED BY <1>2, <1>5, <2>1, <2>2, <2>3, DispatchFits
<1> QED BY <1>3, <1>4, <1>5

(* Every step keeps the response, the callbacks and the frame in agreement: a frame is
   only taken together with its answer, and no unit is ever unregistered. *)
LEMMA AnswerStep ==
    ASSUME Transport = RTU, IInv, ResponseAnswersRequest, [Next]_vars
    PROVE  ResponseAnswersRequest'
<1>1. /\ rd \in Positions /\ wr \in Positions /\ sending \in BOOLEAN
  BY DEF IInv, TypeOK
<1>2. Unread \in Seq(Byte)
  BY <1>1, UnreadIsBytes DEF IInv, UnreadReceived, Unread
<1>3. ASSUME unit_mask \subseteq unit_mask', Fits(resp', frame'), Belong(calls', frame')
      PROVE  ResponseAnswersRequest'
  BY <1>3 DEF ResponseAnswersRequest, Fits, Belong
<1>4. Fits(resp, frame)
  BY DEF ResponseAnswersRequest, Fits
<1>5. ASSUME unit_mask \subseteq unit_mask', UNCHANGED <<resp, frame>>, calls' = {}
      PROVE  ResponseAnswersRequest'
  BY <1>3, <1>4, <1>5 DEF Belong
<1>6. ASSUME NEW data \in Chunks, NEW a \in Answers, Len(data) <= buf_free(rd, wr),
             Accept(Store(buf, wr, data), (wr + Len(data)) % BufCap, a)
      PROVE  ResponseAnswersRequest'
  <2> DEFINE b == Store(buf, wr, data)
  <2> DEFINE w == (wr + Len(data)) % BufCap
  <2>1. data \in Seq(Byte)
    BY ChunksAssumption
  <2>2. w \in Positions
    <3>1. Len(data) \in Nat /\ Len(data) < BufCap
      BY <1>1, <1>6, <2>1, UsedRange, SizesAssumption DEF buf_free
    <3> QED BY <1>1, <3>1, Wrap
  <2>3. ring_copy(b, rd, buf_used(rd, w)) = Unread \o data
    BY <1>1, <1>2, <1>6, <2>1, StoreAppends DEF Unread
  <2>4. Unread \o data \in Seq(Byte)
    BY <1>2, <2>1
  <2> HIDE DEF b, w
  <2>5. Accept(b, w, a)
    BY <1>6 DEF b, w
  <2>6. unit_mask' = unit_mask
    BY <2>5 DEF Accept
  <2>7. CASE ~sending /\ try_process(b, rd, w, resp, a)
    <3>1. resp = <<>>
      BY <2>7 DEF IInv, SendingIffResponse
    <3>2. try_process(b, rd, w, <<>>, a)
      BY <2>7, <3>1
    <3>3. Fits(resp', frame') /\ Belong(calls', frame')
      BY <1>1, <2>2, <2>3, <2>4, <3>2, ProcessFits
    <3> QED BY <1>3, <2>6, <3>3
  <2>8. CASE UNCHANGED <<resp, frame>> /\ calls' = {}
    BY <1>5, <2>6, <2>8
  <2> QED BY <2>5, <2>7, <2>8 DEF Accept
<1>7. ASSUME NEW data \in Chunks, NEW a \in Answers, Feed(data, a)
      PROVE  ResponseAnswersRequest'
  BY <1>6, <1>7 DEF Feed
<1>8. ASSUME NEW data \in Chunks, NEW a \in Answers, ReserveCommit(data, a)
      PROVE  ResponseAnswersRequest'
  <2>1. Len(data) \in Nat \ {0}
    <3>1. data \in Seq(Byte) /\ data /= <<>>
      BY ChunksAssumption
    <3> QED BY <3>1
  <2>2. Len(data) <= buf_free(rd, wr)
    BY <1>1, <1>8, <2>1, ReserveFits DEF ReserveCommit
  <2> QED BY <1>6, <1>8, <2>2 DEF ReserveCommit
<1>9. ASSUME NEW data \in Chunks, FeedOverflow(data) PROVE ResponseAnswersRequest'
  BY <1>5, <1>9 DEF FeedOverflow
<1>10. ASSUME NEW a \in Answers, ResponseSent(a) PROVE ResponseAnswersRequest'
  <2>1. try_process(buf, rd, wr, <<>>, a) /\ unit_mask' = unit_mask
    BY <1>10 DEF ResponseSent
  <2>2. Fits(resp', frame') /\ Belong(calls', frame')
    BY <1>1, <1>2, <2>1, ProcessFits DEF Unread
  <2> QED BY <1>3, <2>1, <2>2
<1>11. ASSUME NEW ids \in UnitLists, AddUnit(ids) PROVE ResponseAnswersRequest'
  BY <1>5, <1>11 DEF AddUnit
<1>12. CASE UNCHANGED vars
  <2>1. UNCHANGED <<resp, frame, calls, unit_mask>>
    BY <1>12 DEF vars
  <2> QED BY <2>1 DEF ResponseAnswersRequest
<1>13. Call => ResponseAnswersRequest'
  BY <1>7, <1>8, <1>9, <1>10, <1>11 DEF Call
<1> QED BY <1>12, <1>13 DEF Next

-------------------------------------------------------------------------------
(* Theorems. *)

(* Positions stay inside the ring, frames and responses are byte strings and the
   unit bitmap holds ids from 1 to 247, for every ring size, stream and callback. *)
THEOREM TypeCorrect == Spec => []TypeOK
<1>1. IInv => TypeOK
  BY DEF IInv
<1> QED BY <1>1, Invariance, PTL

(* The server only ever delimits bytes it received: no order of feeds, commits,
   wrap-arounds and resets exposes memory of the ring that was never written. *)
THEOREM OnlyReceivedBytes == Spec => []UnreadReceived
<1>1. IInv => UnreadReceived
  BY DEF IInv
<1> QED BY <1>1, Invariance, PTL

(* The flag that stops processing and the length get_response looks at agree in
   every state: the server is never locked without a response to send. *)
THEOREM FlagMatchesResponse == Spec => []SendingIffResponse
<1>1. IInv => SendingIffResponse
  BY DEF IInv
<1> QED BY <1>1, Invariance, PTL

(* A complete request waits in an idle server only behind one that was answered by
   silence. *)
THEOREM StrandedBehindSilence == Spec => []StrandedOnlyBySilence
<1>1. IInv => StrandedOnlyBySilence
  BY DEF IInv, Idle, StrandedOnlyBySilence, Overrun
<1> QED BY <1>1, Invariance, PTL

(* An idle server refuses bytes only if those it holds announce a request that fits
   neither the ring nor the copy. *)
THEOREM RefusesOnlyOversizedRequests == Spec => []RefusesOnlyOversized
<1>1. IInv => RefusesOnlyOversized
  <2> SUFFICES ASSUME IInv, ~sending, egw_modbus_server_reserve = 0
               PROVE  modbus_frame_len(Seen) > BufCap - 1 \/ modbus_frame_len(Seen) > MaxFrame
    BY DEF RefusesOnlyOversized
  <2>1. rd \in Positions /\ wr \in Positions
    BY DEF IInv, TypeOK
  <2>2. /\ BufCap \in Nat /\ BufCap > 8 /\ MaxFrame \in Nat /\ MaxFrame > 8
        /\ buf_used(rd, wr) \in 0..BufCap - 1
    BY <2>1, UsedRange, SizesAssumption
  <2>3. buf_free(rd, wr) = 0
    <3>1. rd \in Nat /\ rd < BufCap /\ wr \in Nat /\ wr < BufCap
      BY <2>1, <2>2 DEF Positions
    <3>2. Contiguous = 0 => buf_free(rd, wr) = 0
      BY <2>2, <3>1 DEF Contiguous, buf_free, buf_used
    <3>3. buf_free(rd, wr) \in Nat
      BY <2>2 DEF buf_free
    <3>4. Contiguous \in Int
      BY <2>2, <3>1 DEF Contiguous
    <3> QED BY <3>2, <3>3, <3>4 DEF egw_modbus_server_reserve
  <2>4. buf_used(rd, wr) = BufCap - 1
    BY <2>2, <2>3 DEF buf_free
  <2>5. Seen \in Seq(Byte) /\ Len(Seen) = Window(rd, wr)
    <3>1. Unread \in Seq(Byte)
      BY <2>1, UnreadIsBytes DEF IInv, UnreadReceived, Unread
    <3> QED BY <2>1, <3>1, WindowIsFront DEF Seen, Unread
  <2>6. Window(rd, wr) \in {BufCap - 1, MaxFrame} /\ Window(rd, wr) >= 7
    BY <2>2, <2>4 DEF Window
  <2>7. parse_and_check(Seen).res = "NEED_MORE"
    BY <2>2, <2>3, <2>4 DEF IInv, Idle
  <2>8. modbus_frame_len(Seen) > Len(Seen)
    BY <2>5, <2>6, <2>7, DelimitOutcome
  <2> QED BY <2>5, <2>6, <2>8
<1> QED BY <1>1, Invariance, PTL

(* On a serial line a pending response is for the request taken last, callbacks run
   only for the registered units that request addresses, and the client's delimiter
   takes the response as one frame, unless it repeats a 0x0F or 0x10 request. *)
THEOREM AnswersLastRequest == Transport = RTU => (Spec => []ResponseAnswersRequest)
<1> SUFFICES ASSUME Transport = RTU PROVE Spec => []ResponseAnswersRequest
  OBVIOUS
<1>1. Init => ResponseAnswersRequest
  BY DEF Init, ResponseAnswersRequest
<1>2. IInv /\ ResponseAnswersRequest /\ [Next]_vars => ResponseAnswersRequest'
  BY AnswerStep
<1> QED BY <1>1, <1>2, Invariance, PTL DEF Spec

(* Only response_sent touches a pending response, and until then no frame is taken
   and no callback runs. *)
THEOREM PendingResponseKept == Spec => PendingResponseUntouched
<1> DEFINE Kept == sending /\ ~(\E a \in Answers : ResponseSent(a))
                     => resp' = resp /\ sending' /\ frame' = frame /\ calls' = {}
<1>1. [Next]_vars => [Kept]_vars
  <2> SUFFICES ASSUME Call, sending, ~(\E a \in Answers : ResponseSent(a))
               PROVE  resp' = resp /\ sending' /\ frame' = frame /\ calls' = {}
    BY DEF Next
  <2>1. ASSUME NEW b, NEW w, NEW a, Accept(b, w, a)
        PROVE  resp' = resp /\ sending' /\ frame' = frame /\ calls' = {}
    BY <2>1 DEF Accept
  <2>2. ASSUME NEW data, NEW a, Feed(data, a) \/ ReserveCommit(data, a)
        PROVE  resp' = resp /\ sending' /\ frame' = frame /\ calls' = {}
    BY <2>1, <2>2 DEF Feed, ReserveCommit
  <2>3. ASSUME NEW data, FeedOverflow(data)
        PROVE  resp' = resp /\ sending' /\ frame' = frame /\ calls' = {}
    BY <2>3 DEF FeedOverflow
  <2>4. ASSUME NEW ids, AddUnit(ids)
        PROVE  resp' = resp /\ sending' /\ frame' = frame /\ calls' = {}
    BY <2>4 DEF AddUnit
  <2> QED BY <2>2, <2>3, <2>4 DEF Call
<1> QED BY <1>1, PTL DEF Spec, PendingResponseUntouched

-------------------------------------------------------------------------------
(* Refinement. *)

(* The abstract queue delimits with the same function. *)
LEMMA SameDelimiter == ASSUME NEW s PROVE Queue!parse_and_check(s) = parse_and_check(s)
BY DEF Queue!parse_and_check, parse_and_check, Queue!Delimit, Delimit,
       Queue!modbus_frame_len, modbus_frame_len, Queue!validate, validate,
       Queue!Checksum, Checksum, Queue!High, High, Queue!Low, Low, Queue!Word, Word,
       Queue!ReadCodes, ReadCodes, Queue!WriteOne, WriteOne, Queue!WriteMany, WriteMany,
       Queue!NeedLength, NeedLength, Queue!BadLength, BadLength, Queue!MIN_FRAME, MIN_FRAME

(* On a serial line, serving the ring is serving the queue. *)
LEMMA ServedIsServe ==
    ASSUME Transport = RTU, NEW s, Served(s) PROVE Queue!Serve(s)
<1> DEFINE front == SubSeq(s, 1, IF Len(s) > MaxFrame THEN MaxFrame ELSE Len(s))
<1>1. Queue!Front(s) = front
  BY DEF Queue!Front
<1>2. Queue!parse_and_check(front) = parse_and_check(front)
  BY SameDelimiter
<1> DEFINE p == parse_and_check(front)
<1>3. \/ p.res = "NEED_MORE" /\ Unread' = s /\ resp' = <<>>
      \/ p.res = "FRAME_ERROR" /\ Unread' = <<>> /\ resp' = <<>>
      \/ /\ p.res = "FRAME_READY"
         /\ Unread' = SubSeq(s, p.len + 1, Len(s))
         /\ resp' /= <<>> => resp'[1] = s[1] /\ resp'[2] % 128 = s[2] % 128
  BY Zenon DEF Served
<1> HIDE DEF front
<1> QED BY <1>1, <1>2, <1>3, Zenon DEF Queue!Serve, Queue!IsReply

(* On a serial line the server with its ring, its wrap-arounds and its reset on a
   damaged frame implements a plain first-in first-out queue of bytes that is
   emptied by requests at its front, by errors and by overflow. *)
THEOREM RingImplementsQueue == Transport = RTU => (Spec => ImplementsQueue)
<1> SUFFICES ASSUME Transport = RTU PROVE Spec => ImplementsQueue
  OBVIOUS
<1>1. Init => Queue!Init
  <2> SUFFICES ASSUME Init PROVE Queue!Init
    OBVIOUS
  <2>1. buf_used(rd, wr) = 0
    BY DEF Init, buf_used
  <2>2. Unread = <<>>
    BY <2>1 DEF Unread, ring_copy
  <2> QED BY <2>2 DEF Init, Queue!Init
<1>2. IInv /\ [Next]_vars => [Queue!Next]_<<Unread, resp>>
  <2> SUFFICES ASSUME IInv, [Next]_vars PROVE Queue!Next \/ UNCHANGED <<Unread, resp>>
    OBVIOUS
  <2>1. QueueStep
    BY Step
  <2>2. \A s : Served(s) => Queue!Serve(s)
    BY ServedIsServe
  <2>3. CASE Served(Unread)
    BY <2>2, <2>3 DEF Queue!Next
  <2>4. ASSUME NEW data \in Chunks,
               \/ Len(Unread) + Len(data) > BufCap - 1 /\ Unread' = <<>> /\ UNCHANGED resp
               \/ /\ Len(Unread) + Len(data) <= BufCap - 1
                  /\ \/ resp /= <<>> /\ Unread' = Unread \o data /\ UNCHANGED resp
                     \/ resp = <<>> /\ Served(Unread \o data)
        PROVE  Queue!Next
    <3>1. Queue!Arrive(data)
      BY <2>2, <2>4, Zenon DEF Queue!Arrive
    <3> QED BY <3>1 DEF Queue!Next
  <2> QED BY <2>1, <2>3, <2>4 DEF QueueStep
<1> QED BY <1>1, <1>2, Invariance, PTL DEF Spec, ImplementsQueue, Queue!Spec

===============================================================================
