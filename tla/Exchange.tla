------------------------------- MODULE Exchange -------------------------------
(***************************************************************************)
(* One request and its response through the codec of both sides: the       *)
(* client encodes a request from its parameters, the server delimits,      *)
(* unpacks and parses it and encodes a response, the client delimits,      *)
(* unpacks and parses that.  On the way a byte of a frame may change.      *)
(* The server's dispatch and both receive buffers are left to their own    *)
(* modules: here the question is whether the two ends agree on the bytes.  *)
(* The arrays a PDU is built and unpacked in have MaxPdu bytes, and a side *)
(* that writes past the end of one ends the exchange, in phase "overrun".  *)
(***************************************************************************)
EXTENDS ModbusCore

CONSTANTS
    Transport,  \* RTU or TCP
    Requests,   \* encode parameters: unit_id, funccode, addr, count, data
    Registers,  \* the register sequences the server may answer a read with
    Noise,      \* the damages to a frame: a position and the byte received there
    MaxPdu      \* EGW_MODBUS_MAX_PDU

(* The data bytes a request announces: a count that wraps at 256 for several coils or
   registers, two for a single value. *)
Announced(r) == CASE r.funccode = 15 -> ((r.count + 7) \div 8) % 256
                  [] r.funccode = 16 -> (r.count * 2) % 256
                  [] OTHER -> 2

(* The requests are those a caller of the encoder can mean: a function code that can be
   encoded and, for a write, the data it announces.  A PDU array holds the answer to
   the longest read the Modbus specification allows. *)
ASSUME ExchangeAssumption ==
    /\ Transport \in {RTU, TCP}
    /\ \A r \in Requests :
          /\ r.unit_id \in Byte /\ r.addr \in Word /\ r.count \in Word
          /\ r.funccode \in ReadCodes \cup WriteOne \cup WriteMany
          /\ r.data \in Seq(Byte)
          /\ r.funccode \in WriteOne => Len(r.data) = 2
          /\ r.funccode \in WriteMany => Len(r.data) >= Announced(r)
    /\ Registers \subseteq Seq(Word)
    /\ Noise \subseteq Nat \X Byte
    /\ MaxPdu \in Nat /\ MaxPdu >= 252

VARIABLES
    phase,   \* the next step of the exchange
    req,     \* the parameters given to the client
    regs,    \* the registers the server's callback stores
    wire,    \* the frame on the line
    damaged, \* a byte of the frame on the line was changed
    seen,    \* what the server understood
    got      \* what the client reports

vars == <<phase, req, regs, wire, damaged, seen, got>>

Nothing == [ok |-> FALSE]

Init ==
    /\ phase = "encode"
    /\ req \in Requests
    /\ regs = <<>> /\ wire = <<>> /\ damaged = FALSE
    /\ seen = Nothing /\ got = Nothing

(* egw_modbus_client_register packs the request. *)
ClientEncode ==
    /\ phase = "encode"
    /\ wire' = EncodeRequest(Transport, req)
    /\ phase' = "request"
    /\ UNCHANGED <<req, regs, damaged, seen, got>>

(* One byte of the frame on the line is received as another. *)
Damage ==
    /\ phase \in {"request", "response"} /\ ~damaged
    /\ \E n \in Noise :
          /\ n[1] \in 1..Len(wire) /\ wire[n[1]] /= n[2]
          /\ wire' = [wire EXCEPT ![n[1]] = n[2]]
    /\ damaged' = TRUE
    /\ UNCHANGED <<phase, req, regs, seen, got>>

(* The frame a delimiter finds at the start of the bytes b, unpacked. *)
Unpacked(b, p) ==
    IF p.res /= "FRAME_READY" THEN [ok |-> FALSE, unit |-> 0, pdu |-> <<>>]
    ELSE egw_modbus_decode(Transport, SubSeq(b, 1, p.len))

(* The server delimits the request, unpacks it and parses it. *)
ServerParse ==
    /\ phase = "request"
    /\ LET d == Unpacked(wire, parse_and_check(wire))
           q == egw_modbus_parse_request(d.pdu, 0)
       IN  /\ seen' = IF d.ok /\ q.ok /\ Len(d.pdu) <= MaxPdu
                      THEN [ok |-> TRUE, unit |-> d.unit, fc |-> q.fc, addr |-> q.addr,
                            count |-> q.count, data |-> q.data, pdu |-> d.pdu]
                      ELSE Nothing
           /\ phase' = CASE Len(d.pdu) > MaxPdu -> "overrun"
                         [] seen'.ok -> "answer"
                         [] OTHER -> "lost"
    /\ UNCHANGED <<req, regs, wire, damaged, got>>

(* The response: the registers of a read, or the request PDU of a write.  The registers
   are stored in regs and the PDU in resp_pdu, whatever their number. *)
ServerAnswer ==
    /\ phase = "answer"
    /\ regs' \in IF seen.fc \in ReadCodes
                 THEN {rs \in Registers : Len(rs) = Wanted(seen.fc, seen.count)}
                 ELSE {<<>>}
    /\ LET pdu  == IF seen.fc \in ReadCodes
                   THEN egw_modbus_build_read_resp_pdu(seen.fc, ReadBytes(seen.fc, regs'))
                   ELSE seen.pdu
           fits == Len(regs') <= RegsRoom /\ Len(pdu) <= MaxPdu
       IN  IF fits THEN wire' = Adu(Transport, 0, seen.unit, pdu) /\ phase' = "response"
           ELSE wire' = wire /\ phase' = "overrun"
    /\ UNCHANGED <<req, damaged, seen, got>>

(* The client delimits the response, checks its unit and parses the registers. *)
ClientParse ==
    /\ phase = "response"
    /\ LET p == resp_parse(wire)
           d == Unpacked(wire, p)
           r == egw_modbus_parse_read_pdu(d.pdu, req.funccode, 128)
       IN  /\ got' = CASE ~d.ok \/ Len(d.pdu) > MaxPdu -> Nothing
                       [] d.ok /\ Len(d.pdu) <= MaxPdu /\ d.unit /= req.unit_id ->
                             [ok |-> TRUE, rc |-> -1, regs |-> <<>>]
                       [] OTHER -> [ok |-> TRUE, rc |-> r.rc, regs |-> r.regs]
           /\ phase' = IF Len(d.pdu) > MaxPdu THEN "overrun" ELSE "done"
    /\ UNCHANGED <<req, regs, wire, damaged, seen>>

Next == ClientEncode \/ Damage \/ ServerParse \/ ServerAnswer \/ ClientParse

Spec == Init /\ [][Next]_vars

-------------------------------------------------------------------------------
(* Properties. *)

(* The server never acts on a request other than the read or single write the client
   encoded, whichever byte of the frame was changed on the line: the delimiter and the
   checksum reject every other reading (modbus_frame_len, modbus_validate).  Of the
   multiple writes it is not true: 0x10 damaged to 0x06 is cut after eight bytes, where
   the byte count and the first data byte then stand for the checksum. *)
ServerActsOnWhatWasSent ==
    seen.ok /\ req.funccode \notin WriteMany =>
               /\ seen.unit = req.unit_id /\ seen.fc = req.funccode
               /\ seen.addr = req.addr
               /\ seen.fc \notin WriteOne => seen.count = req.count
               /\ seen.fc \in WriteOne => seen.data = req.data

(* The registers a complete response reports: a coil read one byte each. *)
Served == IF req.funccode \in {1, 2} THEN [i \in 1..Len(regs) |-> Low(regs[i])] ELSE regs

(* The byte count of the response is the one the server sent. *)
CountIntact == wire[3] = Len(ReadBytes(req.funccode, regs)) % 256

(* A result of the client that is no error is the registers the server's callback
   stored, in order, damaged or not, and it is all of them up to the 125 of a lawful
   read: with 126 and 127 the exchange ends in an overrun, from 128 on the byte count
   of registers wraps.  The one exception is a damaged byte
   count: the client cuts the frame where that count says and never compares the number
   of registers with the number requested, so if the bytes there happen to be a checksum
   it reports fewer (client_handle_frame, resp_frame_len). *)
ClientReportsRegistersRead ==
    got.ok /\ got.rc >= 0 =>
        /\ Len(got.regs) <= Len(Served) /\ got.regs = SubSeq(Served, 1, Len(got.regs))
        /\ Len(Served) <= 125 /\ CountIntact => got.regs = Served

(* The reads the Modbus specification allows: 2000 coils or 125 registers. *)
Lawful(r) == \/ r.funccode \in {1, 2} /\ r.count <= 2000
             \/ r.funccode \in {3, 4} /\ r.count <= 125

(* Without damage a read or single write reaches the server's callback, no array is
   overrun unless a read asks for more than is lawful, and a read whose answer is sent
   comes back and is no error unless it is one of so many coils, above 1024, that their
   bytes do not fit the 128 registers client_handle_frame has room for: encoder,
   delimiters, unpacking and parsers agree on the length of every frame. *)
UndamagedExchangeSucceeds ==
    ~damaged => /\ phase = "lost" => req.funccode \in WriteMany
                /\ phase = "overrun" => req.funccode \in ReadCodes /\ ~Lawful(req)
                /\ phase = "done" /\ req.funccode \in ReadCodes =>
                      /\ got.ok
                      /\ got.rc < 0 <=> req.funccode \in {1, 2} /\ Len(regs) % 256 > 128

===============================================================================
