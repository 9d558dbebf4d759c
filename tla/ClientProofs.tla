----------------------------- MODULE ClientProofs -----------------------------
(***************************************************************************)
(* Theorems about ModbusClient, for any number of slots, any requests and  *)
(* any bytes delivered in chunks of any size.                              *)
(***************************************************************************)
EXTENDS ModbusClient, CodecProofs

-------------------------------------------------------------------------------
(* The inductive invariant. *)

(* The bytes a report was made of: one response frame and nothing else. *)
CompleteFrame(f) == Len(f) >= 5 /\ resp_frame_len(f) = Len(f) /\ validate(f)

(* A slot is awaited, and a response reported, only after a request. *)
ReportAfterRequest == current /= NULL \/ report /= NULL => tx_count >= 1

(* The report names the request that is awaited. *)
ReportNamesRequest ==
    report /= NULL /\ current /= NULL =>
        report.unit_id = req[current].unit_id /\ report.addr = req[current].addr

(* As long as nothing was dropped, the frame that was reported is still collected. *)
ReportStillCollected ==
    report /= NULL /\ current /= NULL /\ ~dropped =>
        CompleteFrame(recv) /\ report = ResultOf(recv, req[current])

IInv == /\ TypeOK
        /\ ListIsCircleOfLiveSlots
        /\ AwaitedSlotIsLive
        /\ ReportAfterRequest
        /\ ReportNamesRequest
        /\ ReportStillCollected

-------------------------------------------------------------------------------
(* Delimiting responses. *)

(* What the client takes for a complete response is one. *)
LEMMA ReadyIsComplete ==
    ASSUME NEW b \in Seq(Byte), resp_parse(b).res = "FRAME_READY"
    PROVE  LET f == SubSeq(b, 1, resp_parse(b).len)
           IN  f \in Seq(Byte) /\ Len(f) = resp_parse(b).len /\ Len(f) <= Len(b) /\ CompleteFrame(f)
<1> DEFINE n == resp_parse(b).len
           f == SubSeq(b, 1, n)
<1>1. n \in 5..Len(b) /\ n = resp_frame_len(b) /\ validate(f)
  BY RespOutcome
<1> HIDE DEF n
<1>2. /\ f \in Seq(Byte) /\ Len(f) = n /\ Len(f) <= Len(b) /\ Len(f) >= 5
      /\ f[2] = b[2] /\ f[3] = b[3] /\ Len(b) >= 3
  BY <1>1
<1> HIDE DEF f
<1>3. resp_frame_len(f) = n
  BY <1>1, <1>2, RespLenPrefix
<1> QED BY <1>1, <1>2, <1>3 DEF CompleteFrame, n, f

(* Bytes that follow a complete response do not change what is taken for it. *)
LEMMA CompleteStays ==
    ASSUME NEW f \in Seq(Byte), NEW data \in Seq(Byte), CompleteFrame(f)
    PROVE  /\ resp_parse(f \o data) = [res |-> "FRAME_READY", len |-> Len(f)]
           /\ SubSeq(f \o data, 1, Len(f)) = f
<1> DEFINE b == f \o data
<1>1. /\ b \in Seq(Byte) /\ Len(f) \in Nat /\ Len(f) >= 5 /\ Len(b) >= Len(f) /\ Len(b) \in Nat
      /\ b[2] = f[2] /\ b[3] = f[3] /\ Len(b) >= 3 /\ Len(f) >= 3
  BY DEF CompleteFrame
<1>2. SubSeq(b, 1, Len(f)) = f
  BY <1>1
<1> HIDE DEF b
<1>3. resp_frame_len(b) = resp_frame_len(f)
  BY <1>1, RespLenPrefix
<1>4. resp_frame_len(b) = Len(f) /\ validate(f)
  BY <1>3 DEF CompleteFrame
<1>5. Delimit(b, Len(f)) = [res |-> "FRAME_READY", len |-> Len(f)]
  <2>1. /\ ~(Len(b) < MIN_FRAME) /\ Len(f) /= NeedLength /\ Len(f) /= BadLength
        /\ ~(Len(b) < Len(f))
    BY <1>1 DEF MIN_FRAME, NeedLength, BadLength
  <2>2. validate(SubSeq(b, 1, Len(f)))
    BY <1>2, <1>4, Zenon
  <2> QED BY <2>1, <2>2, Zenon DEF Delimit
<1> QED BY <1>2, <1>4, <1>5 DEF resp_parse, b

(* Every report names the request's unit and address. *)
LEMMA ResultNames ==
    ASSUME NEW f, NEW p
    PROVE  ResultOf(f, p).unit_id = p.unit_id /\ ResultOf(f, p).addr = p.addr
BY DEF ResultOf

(* On a serial line a reported success has the unit and the function code of the
   request at the start of the frame, and as many registers as it says. *)
LEMMA ResultFits ==
    ASSUME NEW f \in Seq(Byte), Len(f) >= 5, NEW p, Transport = RTU, ResultOf(f, p).reg_count >= 0
    PROVE  /\ f[1] = p.unit_id /\ f[2] = p.funccode
           /\ Len(ResultOf(f, p).regs) = ResultOf(f, p).reg_count
<1> DEFINE d == egw_modbus_decode(Transport, f)
           r == egw_modbus_parse_read_pdu(d.pdu, p.funccode, 128)
           failed == [unit_id |-> p.unit_id, addr |-> p.addr, reg_count |-> -1, regs |-> <<>>]
<1>1. ResultOf(f, p) = IF d.ok /\ d.unit = p.unit_id /\ r.rc >= 0
                       THEN [failed EXCEPT !.reg_count = r.rc, !.regs = r.regs] ELSE failed
  BY DEF ResultOf
<1>2. d = IF validate(f) THEN [ok |-> TRUE, unit |-> f[1], pdu |-> SubSeq(f, 2, Len(f) - 2)]
                         ELSE [ok |-> FALSE, unit |-> 0, pdu |-> <<>>]
  BY DEF egw_modbus_decode
<1> HIDE DEF d, r
<1>3. d.ok /\ d.unit = p.unit_id /\ r.rc >= 0
  BY <1>1
<1>4. /\ ResultOf(f, p).reg_count = r.rc /\ ResultOf(f, p).regs = r.regs
  BY <1>1, <1>3
<1>5. d.unit = f[1] /\ d.pdu = SubSeq(f, 2, Len(f) - 2)
  BY <1>2, <1>3
<1> DEFINE pdu == SubSeq(f, 2, Len(f) - 2)
<1>6. pdu \in Seq(Byte) /\ Len(pdu) >= 2 /\ pdu[1] = f[2]
  OBVIOUS
<1>7. r = egw_modbus_parse_read_pdu(pdu, p.funccode, 128)
  BY <1>5 DEF r
<1> HIDE DEF pdu
<1>8. pdu[1] \in Int /\ pdu[2] \in Nat
  <2>1. pdu[1] \in Byte /\ pdu[2] \in Byte
    BY <1>6
  <2>2. \A x \in Byte : x \in Nat
    BY DEF Byte
  <2> QED BY <2>1, <2>2
<1>9. pdu[1] = p.funccode /\ Len(r.regs) = r.rc
  <2> DEFINE bc == pdu[2]
             fc == p.funccode
  <2>1. CASE pdu[1] >= 128 /\ pdu[1] - 128 = fc
    <3>1. r.rc = -bc - 100
      BY <1>7, <2>1, SMTT(30) DEF egw_modbus_parse_read_pdu
    <3> QED BY <1>3, <1>8, <3>1
  <2>2. CASE ~(pdu[1] >= 128 /\ pdu[1] - 128 = fc) /\ pdu[1] = fc /\ fc \in {1, 2}
             /\ 2 + bc <= Len(pdu) /\ bc <= 128
    <3>1. r = [rc |-> bc, regs |-> [i \in 1..bc |-> pdu[2 + i]]]
      BY <1>7, <2>2 DEF egw_modbus_parse_read_pdu
    <3> QED BY <1>8, <2>2, <3>1
  <2>3. CASE ~(pdu[1] >= 128 /\ pdu[1] - 128 = fc) /\ pdu[1] = fc /\ fc \in {3, 4}
             /\ 2 + bc <= Len(pdu) /\ bc % 2 = 0 /\ bc \div 2 <= 128
    <3>1. r = [rc |-> bc \div 2,
               regs |-> [i \in 1..(bc \div 2) |-> BE(pdu[2 * i + 1], pdu[2 * i + 2])]]
      BY <1>7, <2>3 DEF egw_modbus_parse_read_pdu
    <3>2. bc \div 2 \in Nat
      BY <1>8
    <3> QED BY <2>3, <3>1, <3>2
  <2>4. CASE /\ ~(pdu[1] >= 128 /\ pdu[1] - 128 = fc)
             /\ ~(pdu[1] = fc /\ fc \in {1, 2} /\ 2 + bc <= Len(pdu) /\ bc <= 128)
             /\ ~(pdu[1] = fc /\ fc \in {3, 4} /\ 2 + bc <= Len(pdu)
                    /\ bc % 2 = 0 /\ bc \div 2 <= 128)
    <3>1. r.rc = -1
      BY <1>7, <2>4 DEF egw_modbus_parse_read_pdu
    <3> QED BY <1>3, <3>1
  <2> QED BY <2>1, <2>2, <2>3, <2>4
<1> QED BY <1>3, <1>4, <1>5, <1>6, <1>9

-------------------------------------------------------------------------------
(* The circle of slots. *)

(* The links n and p run through the sequence o and back to its start. *)
Circle(o, n, p) ==
    \A k \in 1..Len(o) :
       LET after == IF k = Len(o) THEN o[1] ELSE o[k + 1]
       IN  n[o[k]] = after /\ p[after] = o[k]

Distinct(o) == \A j, k \in 1..Len(o) : j /= k => o[j] /= o[k]

(* The parts of the list property. *)
LEMMA ListParts ==
    ListIsCircleOfLiveSlots <=>
       /\ live = {order[k] : k \in 1..Len(order)} /\ Distinct(order)
       /\ slots = IF order = <<>> THEN NULL ELSE order[1]
       /\ Circle(order, next, prev)
BY DEF ListIsCircleOfLiveSlots, Distinct, Circle

(* Linking a slot in between the last and the first one. *)
LEMMA CircleAppend ==
    ASSUME NEW o \in Seq(Slots), o /= <<>>, Distinct(o),
           NEW n \in [Slots -> Pointer], NEW p \in [Slots -> Pointer], Circle(o, n, p),
           NEW s \in Slots, \A k \in 1..Len(o) : o[k] /= s
    PROVE  /\ Distinct(Append(o, s))
           /\ Circle(Append(o, s), [n EXCEPT ![s] = o[1], ![o[Len(o)]] = s],
                                   [p EXCEPT ![s] = o[Len(o)], ![o[1]] = s])
<1> DEFINE L == Len(o)
           q == Append(o, s)
           nn == [n EXCEPT ![s] = o[1], ![o[L]] = s]
           pp == [p EXCEPT ![s] = o[L], ![o[1]] = s]
<1>1. /\ L \in Nat \ {0} /\ \A k \in 1..L : o[k] \in Slots
      /\ q \in Seq(Slots) /\ Len(q) = L + 1 /\ q[L + 1] = s /\ \A k \in 1..L : q[k] = o[k]
  OBVIOUS
<1>2. /\ nn[s] = o[1] /\ nn[o[L]] = s /\ pp[s] = o[L] /\ pp[o[1]] = s
      /\ \A x \in Slots : x /= s /\ x /= o[L] => nn[x] = n[x]
      /\ \A x \in Slots : x /= s /\ x /= o[1] => pp[x] = p[x]
  BY <1>1
<1> HIDE DEF L, q, nn, pp
<1>3. Distinct(o) /\ Circle(o, n, p) /\ \A k \in 1..L : o[k] /= s
  BY DEF L
<1>4. Distinct(q)
  <2> SUFFICES ASSUME NEW j \in 1..Len(q), NEW k \in 1..Len(q), j /= k PROVE q[j] /= q[k]
    BY DEF Distinct
  <2>1. CASE j = L + 1
    BY <1>1, <1>3, <2>1
  <2>2. CASE k = L + 1
    BY <1>1, <1>3, <2>2
  <2>3. CASE j /= L + 1 /\ k /= L + 1
    BY <1>1, <1>3, <2>3 DEF Distinct, L
  <2> QED BY <2>1, <2>2, <2>3
<1>5. ASSUME NEW k \in 1..Len(q)
      PROVE  LET after == IF k = Len(q) THEN q[1] ELSE q[k + 1]
             IN  nn[q[k]] = after /\ pp[after] = q[k]
  <2>1. CASE k = L + 1
    BY <1>1, <1>2, <2>1
  <2>2. CASE k = L
    <3>1. q[k] = o[L] /\ q[k + 1] = s /\ k /= Len(q)
      BY <1>1, <2>2
    <3> QED BY <1>2, <3>1
  <2>3. CASE k /= L /\ k /= L + 1
    <3>1. /\ k \in 1..L /\ k + 1 \in 1..L /\ k /= Len(q) /\ q[k] = o[k] /\ q[k + 1] = o[k + 1]
          /\ L \in 1..L /\ 1 \in 1..L /\ k + 1 /= 1
      BY <1>1, <2>3
    <3>2. n[o[k]] = o[k + 1] /\ p[o[k + 1]] = o[k]
      BY <1>3, <2>3, <3>1 DEF Circle, L
    <3>3. o[k] /= o[L] /\ o[k + 1] /= o[1] /\ o[k] /= s /\ o[k + 1] /= s
      BY <1>3, <2>3, <3>1 DEF Distinct, L
    <3> QED BY <1>1, <1>2, <3>1, <3>2, <3>3
  <2> QED BY <2>1, <2>2, <2>3
<1>6. Circle(q, nn, pp)
  BY <1>5 DEF Circle
<1> QED BY <1>4, <1>6 DEF q, nn, pp, L

Cut(o, m) == SubSeq(o, 1, m - 1) \o SubSeq(o, m + 1, Len(o))

(* A sequence without its m-th element. *)
LEMMA CutFacts ==
    ASSUME NEW o \in Seq(Slots), NEW m \in 1..Len(o)
    PROVE  /\ Cut(o, m) \in Seq(Slots) /\ Len(Cut(o, m)) = Len(o) - 1 /\ Len(o) \in Nat \ {0}
           /\ \A k \in 1..Len(o) - 1 : Cut(o, m)[k] = IF k < m THEN o[k] ELSE o[k + 1]
<1> DEFINE a == SubSeq(o, 1, m - 1)
           b == SubSeq(o, m + 1, Len(o))
<1>1. /\ Len(o) \in Nat \ {0} /\ m \in Nat /\ 1 <= m /\ m <= Len(o)
  OBVIOUS
<1>2. a \in Seq(Slots) /\ Len(a) = m - 1 /\ \A k \in 1..m - 1 : a[k] = o[k]
  BY <1>1
<1>3. b \in Seq(Slots) /\ Len(b) = Len(o) - m /\ \A k \in 1..Len(o) - m : b[k] = o[m + k]
  BY <1>1
<1> HIDE DEF a, b
<1>4. /\ a \o b \in Seq(Slots) /\ Len(a \o b) = Len(o) - 1
      /\ \A k \in 1..Len(o) - 1 : (a \o b)[k] = IF k <= m - 1 THEN a[k] ELSE b[k - (m - 1)]
  BY <1>1, <1>2, <1>3
<1>5. ASSUME NEW k \in 1..Len(o) - 1
      PROVE  (a \o b)[k] = IF k < m THEN o[k] ELSE o[k + 1]
  <2>1. CASE k < m
    BY <1>1, <1>2, <1>4, <2>1
  <2>2. CASE ~(k < m)
    <3>1. k - (m - 1) \in 1..Len(o) - m /\ m + (k - (m - 1)) = k + 1
      BY <1>1, <2>2
    <3> QED BY <1>1, <1>3, <1>4, <2>2, <3>1, SMTT(30)
  <2> QED BY <2>1, <2>2
<1> QED BY <1>1, <1>4, <1>5 DEF Cut, a, b

(* Unlinking the m-th of several slots. *)
LEMMA CircleCut ==
    ASSUME NEW o \in Seq(Slots), Len(o) > 1, Distinct(o), NEW m \in 1..Len(o),
           NEW n \in [Slots -> Pointer], NEW p \in [Slots -> Pointer], Circle(o, n, p)
    PROVE  /\ n[o[m]] /= o[m] /\ n[o[m]] \in Slots /\ p[o[m]] \in Slots
           /\ Distinct(Cut(o, m))
           /\ Cut(o, m)[1] = IF m = 1 THEN n[o[1]] ELSE o[1]
           /\ Circle(Cut(o, m), [n EXCEPT ![p[o[m]]] = n[o[m]], ![o[m]] = NULL],
                                [p EXCEPT ![n[o[m]]] = p[o[m]], ![o[m]] = NULL])
<1> DEFINE L == Len(o)
           q == Cut(o, m)
           s == o[m]
           up == IF m = L THEN 1 ELSE m + 1
           dn == IF m = 1 THEN L ELSE m - 1
           nn == [n EXCEPT ![p[s]] = n[s], ![s] = NULL]
           pp == [p EXCEPT ![n[s]] = p[s], ![s] = NULL]
<1>1. /\ L \in Nat /\ L > 1 /\ m \in 1..L /\ \A k \in 1..L : o[k] \in Slots
      /\ q \in Seq(Slots) /\ Len(q) = L - 1
      /\ \A k \in 1..L - 1 : q[k] = IF k < m THEN o[k] ELSE o[k + 1]
  <2>1. L \in Nat /\ L > 1 /\ m \in 1..L /\ \A k \in 1..L : o[k] \in Slots
    OBVIOUS
  <2>2. /\ q \in Seq(Slots) /\ Len(q) = L - 1
        /\ \A k \in 1..L - 1 : q[k] = IF k < m THEN o[k] ELSE o[k + 1]
    BY CutFacts
  <2> QED BY <2>1, <2>2
<1>2. up \in 1..L /\ dn \in 1..L /\ up /= m /\ dn /= m
  BY <1>1
<1>3. \A j, k \in 1..L : j /= k => o[j] /= o[k]
  BY DEF Distinct
<1>4. \A k \in 1..L : /\ k = L => n[o[k]] = o[1] /\ p[o[1]] = o[k]
                      /\ k /= L => n[o[k]] = o[k + 1] /\ p[o[k + 1]] = o[k]
  BY DEF Circle
<1>5. n[s] = o[up] /\ p[s] = o[dn]
  <2>1. n[s] = o[up]
    BY <1>1, <1>4
  <2>2. p[s] = o[dn]
    <3>1. CASE m = 1
      BY <1>1, <1>4, <3>1
    <3>2. CASE m /= 1
      <4>1. m - 1 \in 1..L /\ m - 1 /= L /\ (m - 1) + 1 = m
        BY <1>1, <3>2
      <4>2. p[o[(m - 1) + 1]] = o[m - 1]
        BY <1>4, <4>1
      <4> QED BY <3>2, <4>1, <4>2
    <3> QED BY <3>1, <3>2
  <2> QED BY <2>1, <2>2
<1>6. n[s] /= s /\ n[s] \in Slots /\ p[s] \in Slots /\ p[s] /= s /\ s \in Slots
  BY <1>1, <1>2, <1>3, <1>5
<1>7. /\ nn[o[dn]] = o[up] /\ pp[o[up]] = o[dn]
      /\ \A x \in Slots : x /= s /\ x /= o[dn] => nn[x] = n[x]
      /\ \A x \in Slots : x /= s /\ x /= o[up] => pp[x] = p[x]
  <2> HIDE DEF up, dn, s
  <2>1. /\ nn[p[s]] = n[s] /\ pp[n[s]] = p[s]
        /\ \A x \in Slots : x /= s /\ x /= p[s] => nn[x] = n[x]
        /\ \A x \in Slots : x /= s /\ x /= n[s] => pp[x] = p[x]
    BY <1>6
  <2> QED BY <1>5, <2>1
<1> HIDE DEF L, q, nn, pp, up, dn
<1>8. Distinct(q)
  <2> SUFFICES ASSUME NEW j \in 1..L - 1, NEW k \in 1..L - 1, j /= k PROVE q[j] /= q[k]
    BY <1>1 DEF Distinct
  <2> DEFINE J == IF j < m THEN j ELSE j + 1
             K == IF k < m THEN k ELSE k + 1
  <2>1. q[j] = o[J] /\ q[k] = o[K] /\ J \in 1..L /\ K \in 1..L /\ J /= K
    BY <1>1
  <2> QED BY <1>3, <2>1
<1>9. q[1] = IF m = 1 THEN n[o[1]] ELSE o[1]
  BY <1>1, <1>4
<1>10. ASSUME NEW k \in 1..L - 1
       PROVE  LET after == IF k = L - 1 THEN q[1] ELSE q[k + 1]
              IN  nn[q[k]] = after /\ pp[after] = q[k]
  <2> DEFINE K == IF k < m THEN k ELSE k + 1
             after == IF k = L - 1 THEN q[1] ELSE q[k + 1]
  <2>1. q[k] = o[K] /\ K \in 1..L /\ K /= m
    BY <1>1
  <2>2. CASE K = dn
    <3>1. after = o[up]
      BY <1>1, <2>2 DEF up, dn
    <3> QED BY <1>7, <2>1, <2>2, <3>1
  <2>3. CASE K /= dn
    <3> DEFINE U == IF K = L THEN 1 ELSE K + 1
    <3>1. after = o[U] /\ U \in 1..L /\ U /= m
      <4>1. CASE k = L - 1
        <5>1. K = L /\ m /= 1 /\ m /= L
          BY <1>1, <2>3, <4>1 DEF dn
        <5>2. 1 \in 1..L - 1 /\ 1 < m
          BY <1>1, <5>1
        <5>3. after = o[1]
          BY <1>1, <4>1, <5>2
        <5> QED BY <1>1, <5>1, <5>2, <5>3
      <4>2. CASE k /= L - 1
        <5>1. k + 1 \in 1..L - 1 /\ after = q[k + 1]
          BY <1>1, <4>2
        <5>2. K < L /\ U = K + 1
          BY <1>1, <4>2
        <5>3. U = IF k + 1 < m THEN k + 1 ELSE (k + 1) + 1
          BY <1>1, <2>3, <5>2 DEF dn
        <5>4. after = o[U]
          BY <1>1, <5>1, <5>3
        <5>5. U \in 1..L /\ U /= m
          BY <1>1, <5>1, <5>3
        <5> QED BY <5>4, <5>5
      <4> QED BY <4>1, <4>2
    <3>2. U /= up
      BY <1>1, <2>1 DEF up
    <3>3. n[o[K]] = o[U] /\ p[o[U]] = o[K]
      BY <1>4, <2>1
    <3>4. /\ o[K] /= s /\ o[K] /= o[dn] /\ o[K] \in Slots
          /\ o[U] /= s /\ o[U] /= o[up] /\ o[U] \in Slots
      BY <1>1, <1>2, <1>3, <2>1, <2>3, <3>1, <3>2
    <3> QED BY <1>7, <2>1, <3>1, <3>3, <3>4
  <2> QED BY <2>2, <2>3
<1>11. Circle(q, nn, pp)
  BY <1>1, <1>10 DEF Circle
<1> QED BY <1>6, <1>8, <1>9, <1>11 DEF q, nn, pp

-------------------------------------------------------------------------------
(* The walk of egw_modbus_client_destroy. *)

(* Walking next from the entry meets every live slot. *)
LEMMA VisitedIsLive ==
    ASSUME TypeOK, ListIsCircleOfLiveSlots
    PROVE  Visited = live
<1> DEFINE L == Len(order)
           step(f) == [n \in 0..L |-> IF n = 0 THEN slots ELSE next[f[n - 1]]]
           round == [n \in 0..L |-> order[IF n = L THEN 1 ELSE n + 1]]
           at[n \in 0..L] == IF n = 0 THEN slots ELSE next[at[n - 1]]
<1>1. /\ live = {order[k] : k \in 1..L} /\ Circle(order, next, prev)
      /\ slots = IF order = <<>> THEN NULL ELSE order[1]
      /\ order \in Seq(Slots) /\ L \in Nat
  <2>1. order \in Seq(Slots)
    BY DEF TypeOK
  <2> QED BY <2>1, ListParts
<1>2. CASE order = <<>>
  <2>1. slots = NULL /\ live = {}
    BY <1>1, <1>2
  <2> QED BY <2>1 DEF Visited
<1>3. CASE order /= <<>>
  <2>1. L \in Nat \ {0} /\ slots = order[1] /\ slots /= NULL
    BY <1>1, <1>3, ClientAssumption
  <2>2. round = step(round)
    <3> SUFFICES ASSUME NEW n \in 0..L, n /= 0
                 PROVE  round[n] = next[round[n - 1]]
      BY <2>1
    <3>1. n \in 1..L /\ n - 1 \in 0..L /\ n - 1 /= L
      BY <2>1
    <3>2. round[n - 1] = order[n]
      BY <3>1
    <3>3. next[order[n]] = IF n = L THEN order[1] ELSE order[n + 1]
      BY <1>1, <3>1 DEF Circle
    <3> QED BY <3>1, <3>2, <3>3
  <2>3. at = step(at)
    BY <2>2
  <2> HIDE DEF at, round
  <2>4. at = round
    <3> DEFINE off == {n \in 0..L : at[n] /= round[n]}
    <3>1. off = {}
      <4> SUFFICES ASSUME off /= {} PROVE FALSE
        OBVIOUS
      <4>1. PICK n \in off : \A j \in off : n <= j
        <5>1. off \subseteq Nat
          BY <2>1
        <5> HIDE DEF off
        <5> QED BY <5>1, LeastNumber
      <4>2. n \in 0..L /\ at[n] /= round[n]
        OBVIOUS
      <4>3. at[n] = IF n = 0 THEN slots ELSE next[at[n - 1]]
        BY <2>3, <4>2
      <4>4. round[n] = IF n = 0 THEN slots ELSE next[round[n - 1]]
        BY <2>2, <4>2
      <4>5. n /= 0
        BY <4>2, <4>3, <4>4
      <4>6. at[n - 1] = round[n - 1]
        BY <2>1, <4>1, <4>2, <4>5
      <4> QED BY <4>2, <4>3, <4>4, <4>6
    <3>2. DOMAIN at = 0..L /\ DOMAIN round = 0..L
      BY <2>2, <2>3
    <3> QED BY <2>2, <2>3, <3>1, <3>2
  <2>5. {round[n] : n \in 0..L} = {order[k] : k \in 1..L}
    <3>1. ASSUME NEW n \in 0..L PROVE round[n] \in {order[k] : k \in 1..L}
      <4>1. (IF n = L THEN 1 ELSE n + 1) \in 1..L
        BY <2>1
      <4> QED BY <4>1 DEF round
    <3>2. ASSUME NEW k \in 1..L PROVE order[k] \in {round[n] : n \in 0..L}
      <4>1. k - 1 \in 0..L /\ k - 1 /= L
        BY <2>1
      <4>2. round[k - 1] = order[k]
        BY <4>1 DEF round
      <4> QED BY <4>1, <4>2
    <3> QED BY <3>1, <3>2
  <2>6. Visited = {at[n] : n \in 0..L}
    BY <2>1 DEF Visited, at
  <2> QED BY <1>1, <2>4, <2>5, <2>6
<1> QED BY <1>2, <1>3

-------------------------------------------------------------------------------
(* The steps on the list. *)

(* What the type invariant and the assumptions say of the pointers. *)
LEMMA PointerFacts ==
    ASSUME IInv
    PROVE  /\ order \in Seq(Slots) /\ NULL \notin Slots /\ NULL \notin Params
           /\ next \in [Slots -> Pointer] /\ prev \in [Slots -> Pointer]
           /\ req \in [Slots -> Params \cup {NULL}]
           /\ current /= NULL => current \in live /\ current \in Slots
BY ClientAssumption DEF IInv, TypeOK, AwaitedSlotIsLive, live

(* The parts about the report do not change when the awaited slot, its request and
   what is collected do not. *)
LEMMA ReportKept ==
    ASSUME IInv, UNCHANGED <<recv, tx_count, report, dropped>>,
           current' = current \/ current' = NULL,
           current' /= NULL => req'[current] = req[current]
    PROVE  ReportAfterRequest' /\ ReportNamesRequest' /\ ReportStillCollected'
BY DEF IInv, ReportAfterRequest, ReportNamesRequest, ReportStillCollected

(* egw_modbus_client_register. *)
LEMMA RegisterStep ==
    ASSUME IInv, NEW s \in Slots, NEW p \in Params, Register(s, p)
    PROVE  IInv'
<1>1. /\ s \notin live /\ req' = [req EXCEPT ![s] = p] /\ order' = Append(order, s)
      /\ UNCHANGED <<current, recv, tx_count, rx_count, report, dropped>>
  BY DEF Register
<1>2. /\ order \in Seq(Slots) /\ NULL \notin Slots /\ NULL \notin Params
      /\ next \in [Slots -> Pointer] /\ prev \in [Slots -> Pointer]
      /\ req \in [Slots -> Params \cup {NULL}]
      /\ current /= NULL => current \in live /\ current \in Slots
  BY PointerFacts
<1>3. /\ live = {order[k] : k \in 1..Len(order)} /\ Distinct(order)
      /\ slots = IF order = <<>> THEN NULL ELSE order[1]
      /\ Circle(order, next, prev)
  BY ListParts DEF IInv
<1>4. /\ req' \in [Slots -> Params \cup {NULL}] /\ req'[s] /= NULL
      /\ \A x \in Slots : x /= s => req'[x] = req[x]
  BY <1>1, <1>2
<1>5. live' = live \cup {s}
  BY <1>4 DEF live
<1>6. current /= NULL => current /= s /\ req'[current] = req[current]
  BY <1>1, <1>2, <1>4
<1>7. /\ order' \in Seq(Slots) /\ Len(order') = Len(order) + 1 /\ Len(order) \in Nat
      /\ order'[Len(order) + 1] = s /\ \A k \in 1..Len(order) : order'[k] = order[k]
  BY <1>1, <1>2
<1>8. live' = {order'[k] : k \in 1..Len(order')}
  BY <1>3, <1>5, <1>7
<1>9. /\ slots' \in Pointer /\ next' \in [Slots -> Pointer] /\ prev' \in [Slots -> Pointer]
      /\ slots' = order'[1] /\ Distinct(order') /\ Circle(order', next', prev')
  <2>1. CASE order = <<>>
    <3>1. order' = <<s>> /\ slots = NULL
      BY <1>1, <1>3, <2>1
    <3>2. /\ slots' = s /\ next' = [next EXCEPT ![s] = s] /\ prev' = [prev EXCEPT ![s] = s]
      BY <3>1 DEF Register
    <3>3. /\ next' \in [Slots -> Pointer] /\ prev' \in [Slots -> Pointer]
          /\ next'[s] = s /\ prev'[s] = s
      BY <1>2, <3>2 DEF Pointer
    <3>4. Len(order') = 1 /\ order'[1] = s
      BY <3>1
    <3> QED BY <3>2, <3>3, <3>4 DEF Pointer, Distinct, Circle
  <2>2. CASE order /= <<>>
    <3>1. slots = order[1] /\ slots /= NULL /\ Len(order) \in 1..Len(order) /\ 1 \in 1..Len(order)
      BY <1>2, <1>3, <2>2
    <3>2. prev[slots] = order[Len(order)]
      BY <1>3, <3>1 DEF Circle
    <3>3. /\ slots' = slots
          /\ next' = [next EXCEPT ![s] = order[1], ![order[Len(order)]] = s]
          /\ prev' = [prev EXCEPT ![s] = order[Len(order)], ![order[1]] = s]
      BY <3>1, <3>2 DEF Register
    <3>4. \A k \in 1..Len(order) : order[k] /= s
      BY <1>1, <1>3
    <3>5. Distinct(order') /\ Circle(order', next', prev')
      BY <1>1, <1>2, <1>3, <2>2, <3>3, <3>4, CircleAppend
    <3>6. order[1] \in Slots /\ order[Len(order)] \in Slots
      BY <1>2, <3>1
    <3>7. next' \in [Slots -> Pointer] /\ prev' \in [Slots -> Pointer] /\ slots' \in Pointer
      BY <1>2, <3>1, <3>3, <3>6 DEF Pointer
    <3> QED BY <1>7, <3>1, <3>3, <3>5, <3>7
  <2> QED BY <2>1, <2>2
<1>10. ListIsCircleOfLiveSlots'
  <2>1. order' /= <<>>
    BY <1>7
  <2> QED BY <1>8, <1>9, <2>1 DEF ListIsCircleOfLiveSlots, Distinct, Circle
<1>11. TypeOK'
  BY <1>1, <1>4, <1>7, <1>9 DEF IInv, TypeOK
<1>12. AwaitedSlotIsLive'
  BY <1>1, <1>2, <1>5 DEF AwaitedSlotIsLive
<1> QED BY <1>1, <1>6, <1>10, <1>11, <1>12, ReportKept DEF IInv

(* egw_modbus_client_remove. *)
LEMMA RemoveStep ==
    ASSUME IInv, NEW s \in Slots, Remove(s)
    PROVE  IInv'
<1>1. /\ s \in live /\ req' = [req EXCEPT ![s] = NULL] /\ order' = OrderWithout(s)
      /\ current' = IF current = s THEN NULL ELSE current
      /\ UNCHANGED <<recv, tx_count, rx_count, report, dropped>>
  BY DEF Remove
<1>2. /\ order \in Seq(Slots) /\ NULL \notin Slots /\ NULL \notin Params
      /\ next \in [Slots -> Pointer] /\ prev \in [Slots -> Pointer]
      /\ req \in [Slots -> Params \cup {NULL}]
      /\ current /= NULL => current \in live /\ current \in Slots
  BY PointerFacts
<1>3. /\ live = {order[k] : k \in 1..Len(order)} /\ Distinct(order)
      /\ slots = IF order = <<>> THEN NULL ELSE order[1]
      /\ Circle(order, next, prev)
  BY ListParts DEF IInv
<1>4. PICK m \in 1..Len(order) : order[m] = s /\ order' = Cut(order, m)
  <2> DEFINE at == {k \in DOMAIN order : order[k] = s}
             k == CHOOSE j \in at : TRUE
  <2>1. DOMAIN order = 1..Len(order)
    BY <1>2
  <2>2. at /= {}
    BY <1>1, <1>3, <2>1
  <2>3. k \in at
    BY <2>2
  <2>4. OrderWithout(s) = Cut(order, k)
    BY <2>2 DEF OrderWithout, Cut
  <2> HIDE DEF k
  <2> QED BY <1>1, <2>1, <2>3, <2>4
<1>5. /\ req' \in [Slots -> Params \cup {NULL}] /\ req'[s] = NULL
      /\ \A x \in Slots : x /= s => req'[x] = req[x]
  BY <1>1, <1>2
<1>6. live' = live \ {s}
  BY <1>5 DEF live
<1>7. /\ order' \in Seq(Slots) /\ Len(order') = Len(order) - 1 /\ Len(order) \in Nat \ {0}
      /\ \A k \in 1..Len(order) - 1 : order'[k] = IF k < m THEN order[k] ELSE order[k + 1]
  BY <1>2, <1>4, CutFacts
<1>8. live' = {order'[k] : k \in 1..Len(order')}
  <2>1. ASSUME NEW k \in 1..Len(order) - 1 PROVE order'[k] \in live \ {s}
    <3> DEFINE K == IF k < m THEN k ELSE k + 1
    <3>1. order'[k] = order[K] /\ K \in 1..Len(order) /\ K /= m
      BY <1>7
    <3> QED BY <1>3, <1>4, <3>1 DEF Distinct
  <2>2. ASSUME NEW K \in 1..Len(order), order[K] /= s
        PROVE  \E k \in 1..Len(order) - 1 : order'[k] = order[K]
    <3> DEFINE k == IF K < m THEN K ELSE K - 1
    <3>1. K /= m
      BY <1>4, <2>2
    <3>2. k \in 1..Len(order) - 1 /\ K = IF k < m THEN k ELSE k + 1
      BY <1>7, <3>1
    <3>3. order'[k] = order[K]
      BY <1>7, <3>2
    <3> HIDE DEF k
    <3> QED BY <3>2, <3>3
  <2> QED BY <1>3, <1>6, <1>7, <2>1, <2>2
<1>9. /\ slots' \in Pointer /\ next' \in [Slots -> Pointer] /\ prev' \in [Slots -> Pointer]
      /\ slots' = IF order' = <<>> THEN NULL ELSE order'[1]
      /\ Distinct(order') /\ Circle(order', next', prev')
  <2>1. CASE Len(order) = 1
    <3>1. m = 1 /\ next[s] = s /\ order' = <<>>
      BY <1>3, <1>4, <1>7, <2>1 DEF Circle
    <3>2. /\ slots' = NULL /\ next' = [next EXCEPT ![s] = NULL] /\ prev' = [prev EXCEPT ![s] = NULL]
      BY <3>1 DEF Remove
    <3>3. next' \in [Slots -> Pointer] /\ prev' \in [Slots -> Pointer] /\ slots' \in Pointer
      BY <1>2, <3>2 DEF Pointer
    <3>4. Len(order') = 0
      BY <3>1
    <3> QED BY <3>1, <3>2, <3>3, <3>4 DEF Distinct, Circle
  <2>2. CASE Len(order) > 1
    <3>1. /\ next[order[m]] /= order[m] /\ next[order[m]] \in Slots /\ prev[order[m]] \in Slots
          /\ Distinct(Cut(order, m))
          /\ Cut(order, m)[1] = IF m = 1 THEN next[order[1]] ELSE order[1]
          /\ Circle(Cut(order, m),
                    [next EXCEPT ![prev[order[m]]] = next[order[m]], ![order[m]] = NULL],
                    [prev EXCEPT ![next[order[m]]] = prev[order[m]], ![order[m]] = NULL])
      BY <1>2, <1>3, <2>2, CircleCut
    <3>2. /\ prev' = [prev EXCEPT ![next[s]] = prev[s], ![s] = NULL]
          /\ next' = [next EXCEPT ![prev[s]] = next[s], ![s] = NULL]
          /\ slots' = IF slots = s THEN next[s] ELSE slots
      BY <1>4, <3>1 DEF Remove
    <3>3. Distinct(order') /\ Circle(order', next', prev')
      BY <1>4, <3>1, <3>2
    <3>4. next' \in [Slots -> Pointer] /\ prev' \in [Slots -> Pointer]
      BY <1>2, <1>4, <3>1, <3>2 DEF Pointer
    <3>5. order /= <<>> /\ slots = order[1] /\ (slots = s <=> m = 1) /\ order[1] \in Slots
      BY <1>2, <1>3, <1>4, <2>2 DEF Distinct
    <3>6. slots' = order'[1] /\ slots' \in Pointer
      BY <1>4, <3>1, <3>2, <3>5 DEF Pointer
    <3>7. order' /= <<>>
      BY <1>7, <2>2
    <3> QED BY <3>3, <3>4, <3>6, <3>7
  <2> QED BY <1>7, <2>1, <2>2
<1>10. ListIsCircleOfLiveSlots'
  BY <1>8, <1>9 DEF ListIsCircleOfLiveSlots, Distinct, Circle
<1>11. TypeOK'
  BY <1>1, <1>5, <1>7, <1>9 DEF IInv, TypeOK, Pointer
<1>12. AwaitedSlotIsLive'
  BY <1>1, <1>2, <1>6 DEF AwaitedSlotIsLive
<1>13. current' /= NULL => current' = current /\ req'[current] = req[current]
  BY <1>1, <1>2, <1>5
<1> QED BY <1>1, <1>10, <1>11, <1>12, <1>13, ReportKept DEF IInv

(* egw_modbus_client_destroy, and a client created anew. *)
LEMMA DestroyStep ==
    ASSUME IInv, Destroy
    PROVE  IInv'
<1>1. /\ slots' = NULL /\ current' = NULL /\ recv' = <<>> /\ tx_count' = 0 /\ rx_count' = 0
      /\ order' = <<>> /\ report' = NULL /\ dropped' = FALSE
      /\ next' = [s \in Slots |-> IF s \in Visited THEN NULL ELSE next[s]]
      /\ prev' = [s \in Slots |-> IF s \in Visited THEN NULL ELSE prev[s]]
      /\ req' = [s \in Slots |-> IF s \in Visited THEN NULL ELSE req[s]]
  BY DEF Destroy
<1>2. Visited = live
  BY VisitedIsLive DEF IInv
<1>3. live' = {}
  BY <1>1, <1>2 DEF live
<1>4. TypeOK'
  <2>1. next' \in [Slots -> Pointer] /\ prev' \in [Slots -> Pointer]
    BY <1>1, PointerFacts DEF Pointer
  <2>2. req' \in [Slots -> Params \cup {NULL}]
    BY <1>1, PointerFacts
  <2>3. Len(recv') <= RecvCap /\ tx_count' \in 0..MaxTx /\ rx_count' \in 0..MaxRx
    BY <1>1, ClientAssumption
  <2>4. dropped' \in BOOLEAN
    BY <1>1
  <2> QED BY <1>1, <2>1, <2>2, <2>3, <2>4 DEF TypeOK, Pointer
<1>5. ListIsCircleOfLiveSlots'
  <2>1. Len(order') = 0 /\ 1..Len(order') = {}
    BY <1>1
  <2> QED BY <1>1, <1>3, <2>1 DEF ListIsCircleOfLiveSlots
<1>6. AwaitedSlotIsLive' /\ ReportAfterRequest' /\ ReportNamesRequest' /\ ReportStillCollected'
  BY <1>1 DEF AwaitedSlotIsLive, ReportAfterRequest, ReportNamesRequest, ReportStillCollected
<1> QED BY <1>4, <1>5, <1>6 DEF IInv

-------------------------------------------------------------------------------
(* The steps that leave the list alone. *)

(* The list property is about the list's variables only. *)
LEMMA ListKept ==
    ASSUME ListIsCircleOfLiveSlots, UNCHANGED list
    PROVE  ListIsCircleOfLiveSlots' /\ live' = live
BY DEF ListIsCircleOfLiveSlots, list, live

(* egw_modbus_client_request. *)
LEMMA RequestStep ==
    ASSUME IInv, NEW s \in Slots, Request(s)
    PROVE  IInv'
<1>1. /\ s \in live /\ current' = s /\ recv' = <<>> /\ tx_count' = tx_count + 1
      /\ tx_count < MaxTx /\ report' = NULL /\ dropped' = FALSE
      /\ UNCHANGED list /\ rx_count' = rx_count
  BY DEF Request
<1>2. ListIsCircleOfLiveSlots' /\ live' = live
  BY <1>1, ListKept DEF IInv
<1>3. tx_count' \in 0..MaxTx /\ tx_count' >= 1 /\ Len(recv') <= RecvCap /\ recv' \in Seq(Byte)
  BY <1>1, ClientAssumption DEF IInv, TypeOK
<1>4. dropped' \in BOOLEAN
  BY <1>1
<1>5. TypeOK'
  BY <1>1, <1>3, <1>4 DEF IInv, TypeOK, Pointer, list
<1>6. AwaitedSlotIsLive'
  BY <1>1, <1>2 DEF AwaitedSlotIsLive
<1>7. ReportAfterRequest' /\ ReportNamesRequest' /\ ReportStillCollected'
  BY <1>1, <1>3 DEF ReportAfterRequest, ReportNamesRequest, ReportStillCollected
<1> QED BY <1>2, <1>5, <1>6, <1>7 DEF IInv

(* Received bytes: a frame is delimited and reported, dropped or still incomplete.
   A response reported before is reported again. *)
LEMMA CollectStep ==
    ASSUME IInv, current /= NULL, NEW data \in Seq(Byte), Len(data) <= RecvCap - Len(recv),
           Collect(recv \o data), UNCHANGED <<list, current, tx_count>>
    PROVE  IInv' /\ (report /= NULL /\ ~dropped => report' = report)
<1> DEFINE b == recv \o data
           p == resp_parse(b)
<1>1. /\ recv \in Seq(Byte) /\ Len(recv) \in Nat /\ Len(recv) <= RecvCap /\ RecvCap \in Nat
      /\ rx_count \in 0..MaxRx /\ MaxRx \in Nat /\ dropped \in BOOLEAN
  BY ClientAssumption DEF IInv, TypeOK
<1>2. b \in Seq(Byte) /\ Len(b) <= RecvCap
  BY <1>1
<1>3. ListIsCircleOfLiveSlots' /\ live' = live /\ req' = req /\ current' = current
  BY ListKept DEF IInv, list
<1>4. AwaitedSlotIsLive' /\ ReportAfterRequest'
  BY <1>3 DEF IInv, AwaitedSlotIsLive, ReportAfterRequest
<1>5. ASSUME report /= NULL, ~dropped
      PROVE  p = [res |-> "FRAME_READY", len |-> Len(recv)] /\ SubSeq(b, 1, Len(recv)) = recv
  <2>1. CompleteFrame(recv)
    BY <1>5 DEF IInv, ReportStillCollected
  <2> QED BY <1>1, <2>1, CompleteStays
<1>6. ASSUME recv' \in Seq(Byte), Len(recv') <= RecvCap,
             rx_count' \in 0..MaxRx, dropped' \in BOOLEAN
      PROVE  TypeOK'
  BY <1>6 DEF IInv, TypeOK, list
<1>7. CASE p.res = "FRAME_READY"
  <2>1. /\ rx_count < MaxRx /\ recv' = SubSeq(b, 1, p.len) /\ rx_count' = rx_count + 1
        /\ report' = ResultOf(recv', req[current]) \/ report' = report
        /\ dropped' = dropped
    BY <1>7 DEF Collect
  <2>2. recv' \in Seq(Byte) /\ Len(recv') <= Len(b) /\ CompleteFrame(recv')
    BY <1>2, <1>7, <2>1, ReadyIsComplete
  <2> HIDE DEF b, p
  <2>3. TypeOK'
    <3>1. Len(recv') <= RecvCap /\ rx_count' \in 0..MaxRx
      BY <1>1, <1>2, <2>1, <2>2
    <3> QED BY <1>1, <1>6, <2>1, <2>2, <3>1
  <2>4. ReportNamesRequest'
    BY <1>3, <2>1, ResultNames DEF IInv, ReportNamesRequest
  <2>5. ASSUME report /= NULL, ~dropped PROVE recv' = recv /\ report' = report
    <3>1. recv' = recv
      BY <1>5, <2>1, <2>5
    <3> QED BY <2>1, <2>5, <3>1 DEF IInv, ReportStillCollected
  <2>6. ReportStillCollected'
    <3>1. CASE report' = ResultOf(recv', req[current])
      BY <1>3, <2>1, <2>2, <3>1 DEF ReportStillCollected
    <3>2. CASE report' = report
      BY <1>3, <2>1, <2>5, <3>2 DEF IInv, ReportStillCollected
    <3> QED BY <2>1, <3>1, <3>2
  <2> QED BY <1>3, <1>4, <2>3, <2>4, <2>5, <2>6 DEF IInv
<1>8. CASE p.res = "FRAME_ERROR"
  <2>1. recv' = <<>> /\ dropped' = TRUE /\ UNCHANGED <<rx_count, report>>
    BY <1>8 DEF Collect
  <2>2. recv' \in Seq(Byte) /\ Len(recv') <= RecvCap /\ dropped' \in BOOLEAN
    BY <1>1, <2>1
  <2>3. TypeOK'
    BY <1>1, <1>6, <2>1, <2>2
  <2>4. ReportNamesRequest' /\ ReportStillCollected'
    BY <1>3, <2>1 DEF IInv, ReportNamesRequest, ReportStillCollected
  <2> QED BY <1>3, <1>4, <2>1, <2>3, <2>4 DEF IInv
<1>9. CASE p.res = "NEED_MORE"
  <2>1. recv' = b /\ UNCHANGED <<rx_count, report, dropped>>
    BY <1>9 DEF Collect
  <2>2. TypeOK'
    BY <1>1, <1>2, <1>6, <2>1
  <2>3. ~(report /= NULL /\ ~dropped)
    BY <1>5, <1>9
  <2>4. ReportNamesRequest' /\ ReportStillCollected'
    BY <1>3, <2>1, <2>3 DEF IInv, ReportNamesRequest, ReportStillCollected
  <2> QED BY <1>3, <1>4, <2>1, <2>2, <2>4 DEF IInv
<1> QED BY <1>2, <1>7, <1>8, <1>9, RespOutcome

(* egw_modbus_client_feed, and reserve with commit. *)
LEMMA FeedStep ==
    ASSUME IInv, NEW data \in Chunks, Feed(data) \/ ReserveCommit(data)
    PROVE  IInv' /\ (report /= NULL /\ ~dropped => report' = report)
<1>1. data \in Seq(Byte) /\ Len(data) \in Nat \ {0} /\ RecvCap \in Nat
  BY ClientAssumption
<1>2. recv \in Seq(Byte) /\ Len(recv) \in Nat /\ Len(recv) <= RecvCap
  BY DEF IInv, TypeOK
<1>3. current /= NULL /\ UNCHANGED <<list, current, tx_count>>
  BY <1>1 DEF Feed, ReserveCommit, egw_modbus_client_reserve
<1>4. CASE Len(data) <= RecvCap - Len(recv) /\ Collect(recv \o data)
  BY <1>1, <1>3, <1>4, CollectStep
<1>5. CASE recv' = <<>> /\ dropped' = TRUE /\ UNCHANGED <<rx_count, report>>
  <2>1. recv' \in Seq(Byte) /\ Len(recv') <= RecvCap /\ dropped' \in BOOLEAN
    BY <1>1, <1>5
  <2>2. TypeOK'
    BY <1>3, <1>5, <2>1 DEF IInv, TypeOK, list
  <2>3. ListIsCircleOfLiveSlots' /\ live' = live /\ req' = req
    BY <1>3, ListKept DEF IInv, list
  <2>4. /\ AwaitedSlotIsLive' /\ ReportAfterRequest'
        /\ ReportNamesRequest' /\ ReportStillCollected'
    BY <1>3, <1>5, <2>3
       DEF IInv, AwaitedSlotIsLive, ReportAfterRequest, ReportNamesRequest, ReportStillCollected
  <2> QED BY <1>5, <2>2, <2>3, <2>4 DEF IInv
<1> QED BY <1>3, <1>4, <1>5 DEF Feed, ReserveCommit, egw_modbus_client_reserve

(* A client that was just created. *)
LEMMA InitInv == Init => IInv
<1> SUFFICES ASSUME Init PROVE IInv
  OBVIOUS
<1>1. /\ slots = NULL /\ current = NULL /\ recv = <<>> /\ tx_count = 0 /\ rx_count = 0
      /\ order = <<>> /\ report = NULL /\ dropped = FALSE
      /\ next = [s \in Slots |-> NULL] /\ prev = [s \in Slots |-> NULL]
      /\ req = [s \in Slots |-> NULL]
  BY DEF Init
<1>2. live = {} /\ 1..Len(order) = {}
  BY <1>1 DEF live
<1>3. Len(recv) <= RecvCap /\ tx_count \in 0..MaxTx /\ rx_count \in 0..MaxRx
  BY <1>1, ClientAssumption
<1>4. dropped \in BOOLEAN
  BY <1>1
<1>5. TypeOK
  BY <1>1, <1>3, <1>4 DEF TypeOK, Pointer
<1>6. ListIsCircleOfLiveSlots
  BY <1>1, <1>2 DEF ListIsCircleOfLiveSlots
<1>7. AwaitedSlotIsLive /\ ReportAfterRequest /\ ReportNamesRequest /\ ReportStillCollected
  BY <1>1 DEF AwaitedSlotIsLive, ReportAfterRequest, ReportNamesRequest, ReportStillCollected
<1> QED BY <1>5, <1>6, <1>7 DEF IInv

(* Every step keeps the invariant. *)
LEMMA StepInv == IInv /\ [Next]_vars => IInv'
<1> SUFFICES ASSUME IInv, [Next]_vars PROVE IInv'
  OBVIOUS
<1>1. CASE UNCHANGED vars
  <2>1. UNCHANGED list
    BY <1>1 DEF vars, list
  <2>2. ListIsCircleOfLiveSlots' /\ live' = live
    BY <2>1, ListKept DEF IInv
  <2>3. TypeOK'
    BY <1>1 DEF vars, IInv, TypeOK
  <2>4. /\ AwaitedSlotIsLive' /\ ReportAfterRequest'
        /\ ReportNamesRequest' /\ ReportStillCollected'
    BY <1>1, <2>2 DEF vars, IInv, AwaitedSlotIsLive, ReportAfterRequest, ReportNamesRequest,
                      ReportStillCollected
  <2> QED BY <2>2, <2>3, <2>4 DEF IInv
<1>2. CASE Call
  BY <1>2, RegisterStep, RemoveStep, DestroyStep, RequestStep, FeedStep DEF Call
<1> QED BY <1>1, <1>2 DEF Next

(* The inductive invariant. *)
LEMMA Invariance == Spec => []IInv
BY InitInv, StepInv, PTL DEF Spec

-------------------------------------------------------------------------------
(* The pointers point to slots, and the receive buffer of egw_modbus_client_feed and
   egw_modbus_client_commit never outgrows recv_cap. *)
THEOREM TypeCorrect == Spec => []TypeOK
<1>1. IInv => TypeOK
  BY DEF IInv
<1> QED BY <1>1, Invariance, PTL

(* Whatever is registered, removed and destroyed, the slot list is the circle of the
   live slots in the order of egw_modbus_client_register, in both directions. *)
THEOREM ListStaysCircle == Spec => []ListIsCircleOfLiveSlots
<1>1. IInv => ListIsCircleOfLiveSlots
  BY DEF IInv
<1> QED BY <1>1, Invariance, PTL

(* egw_modbus_client_remove leaves no freed slot behind as the awaited one. *)
THEOREM AwaitedStaysLive == Spec => []AwaitedSlotIsLive
<1>1. IInv => AwaitedSlotIsLive
  BY DEF IInv
<1> QED BY <1>1, Invariance, PTL

(* On a serial line client_handle_frame reports a success only for a frame with the
   unit and the function code of the awaited request. *)
THEOREM SuccessFits == Transport = RTU => (Spec => []SuccessFitsRequest)
<1> SUFFICES ASSUME Transport = RTU PROVE Spec => []SuccessFitsRequest
  OBVIOUS
<1>1. ASSUME IInv PROVE SuccessFitsRequest
  <2> SUFFICES ASSUME report /= NULL, current /= NULL
               PROVE  /\ report.unit_id = req[current].unit_id /\ report.addr = req[current].addr
                      /\ (report.reg_count >= 0 /\ ~dropped) =>
                            /\ recv[1] = req[current].unit_id
                            /\ recv[2] = req[current].funccode
                            /\ Len(report.regs) = report.reg_count
    BY DEF SuccessFitsRequest
  <2>1. report.unit_id = req[current].unit_id /\ report.addr = req[current].addr
    BY <1>1 DEF IInv, ReportNamesRequest
  <2>2. ASSUME report.reg_count >= 0, ~dropped
        PROVE  /\ recv[1] = req[current].unit_id /\ recv[2] = req[current].funccode
               /\ Len(report.regs) = report.reg_count
    <3>1. Len(recv) >= 5 /\ report = ResultOf(recv, req[current]) /\ recv \in Seq(Byte)
      BY <1>1, <2>2 DEF IInv, TypeOK, ReportStillCollected, CompleteFrame
    <3> QED BY <2>2, <3>1, ResultFits
  <2> QED BY <2>1, <2>2
<1> QED BY <1>1, Invariance, PTL

(* Bytes after a complete response make client_handle_frame report it again, never
   something else. *)
THEOREM ReportsRepeat == Spec => FurtherReportsRepeat
<1>1. ASSUME IInv, [Next]_vars, report /= NULL, ~dropped, tx_count' = tx_count
      PROVE  report' = report
  <2>1. tx_count >= 1 /\ tx_count \in Nat
    BY <1>1 DEF IInv, ReportAfterRequest, TypeOK
  <2>2. ~Destroy /\ \A s \in Slots : ~Request(s)
    BY <1>1, <2>1 DEF Destroy, Request
  <2>3. \A data \in Chunks : Feed(data) \/ ReserveCommit(data) => report' = report
    BY <1>1, FeedStep
  <2>4. Call => report' = report
    BY <1>1, <2>2, <2>3 DEF Call, Register, Remove
  <2> QED BY <1>1, <2>4 DEF Next, vars
<1>2. IInv /\ [Next]_vars =>
        [report /= NULL /\ ~dropped /\ tx_count' = tx_count => report' = report]_vars
  BY <1>1
<1> QED BY <1>2, Invariance, PTL DEF Spec, FurtherReportsRepeat
===============================================================================
