----------------------------- MODULE ModbusServer -----------------------------
(***************************************************************************)
(* The Modbus server (slave) of src/src/protocol/egw_modbus_server.c: a    *)
(* receive ring, the delimiter that takes one request at a time out of it, *)
(* the dispatch of that request to the callbacks of the registered units   *)
(* and the single pending response.                                        *)
(*                                                                         *)
(* One action per entry point of the API.  Each is atomic because the      *)
(* server has no lock and is only called from the event loop thread.       *)
(***************************************************************************)
EXTENDS ModbusCore

CONSTANTS
    Transport,    \* params->transport
    BufCap,       \* params->buf_cap, the size of the receive ring
    RespCap,      \* params->resp_cap, the size of the response buffer
    MaxFrame,     \* EGW_MODBUS_MAX_FRAME, the size of try_process's copy
    MaxPdu,       \* EGW_MODBUS_MAX_PDU, the size of req_pdu and resp_pdu
    HasReadCb,    \* params->read_cb is not NULL
    HasWriteCb,   \* params->write_cb is not NULL
    UnitIds,      \* params->unit_ids, four bytes
    Chunks,       \* the byte strings the transport may deliver in one call
    Answers,      \* what a callback may answer: see AnswersAssumption
    UnitLists     \* the lists add_unit may be called with

ASSUME SizesAssumption ==
    /\ BufCap \in Nat /\ BufCap > 8
    /\ MaxFrame \in Nat /\ MaxFrame > 8
    /\ RespCap \in Nat /\ MaxPdu \in Nat
ASSUME ChunksAssumption ==
    \A data \in Chunks : data \in Seq(Byte) /\ data /= <<>>
(* The status of the callback, the registers it stored and the byte found in
   stack memory that was never written. *)
ASSUME AnswersAssumption ==
    \A a \in Answers : a.ok \in BOOLEAN /\ a.regs \in Seq(Word) /\ a.junk \in Byte
ASSUME UnitsAssumption ==
    /\ UnitIds \in [1..4 -> Byte]
    /\ UnitLists \subseteq [1..4 -> Byte]
ASSUME OptionsAssumption ==
    HasReadCb \in BOOLEAN /\ HasWriteCb \in BOOLEAN /\ Transport \in {RTU, TCP}

VARIABLES
    buf,        \* the ring: index -> byte, or Unwritten
    rd, wr,     \* read and write positions
    resp,       \* resp_buf[0 .. resp_len)
    sending,    \* a response waits for response_sent
    unit_mask,  \* the registered unit ids
    frame,      \* history: the last frame taken out of the ring
    outcome,    \* history: how the last run of try_process ended
    calls       \* history: the callback invocations of the last call

vars == <<buf, rd, wr, resp, sending, unit_mask, frame, outcome, calls>>
ring == <<buf, rd, wr>>

Unwritten == -1   \* malloc'ed and never stored to
Positions == 0..BufCap - 1
Units == 1..247

(* Mutant of RegisteredBy: the upper limit is not checked. *)
RegisteredByNoLimit(ids) == {ids[i] : i \in {k \in 1..4 : \A j \in 1..k : ids[j] /= 0}}

(* The units add_unit registers: it stops at the first 0 and gives up, keeping
   what it has stored, at the first id above 247. *)
RegisteredBy(ids) == {ids[i] : i \in {k \in 1..4 : \A j \in 1..k : ids[j] \in Units}}

Init ==
    /\ buf = [i \in Positions |-> Unwritten]
    /\ rd = 0 /\ wr = 0
    /\ resp = <<>> /\ sending = FALSE
    /\ unit_mask = RegisteredBy(UnitIds)
    /\ frame = <<>> /\ outcome = "idle" /\ calls = {}

-------------------------------------------------------------------------------
(* The ring. *)

buf_used(r, w) == IF w >= r THEN w - r ELSE BufCap - r + w
buf_free(r, w) == BufCap - buf_used(r, w) - 1

(* The n bytes from position r on, across the end of the ring. *)
ring_copy(b, r, n) == [i \in 1..n |-> b[(r + i - 1) % BufCap]]

(* Mutant of Store: what passes the end of the ring is lost. *)
StoreNoWrap(b, w, data) ==
    [i \in Positions |-> IF i >= w /\ i - w < Len(data) THEN data[i - w + 1] ELSE b[i]]

(* The ring with data stored from position w on, across its end. *)
Store(b, w, data) ==
    [i \in Positions |->
        LET k == (i - w + BufCap) % BufCap
        IN  IF k < Len(data) THEN data[k + 1] ELSE b[i]]

Window(r, w) == IF buf_used(r, w) > MaxFrame THEN MaxFrame ELSE buf_used(r, w)

(* Mutant of Contiguous: the slot kept empty is subtracted on both sides. *)
ContiguousLess == IF wr < rd THEN rd - wr - 1 ELSE BufCap - wr - 1

(* What reserve offers: the free bytes that follow wr contiguously. *)
Contiguous == IF wr < rd THEN rd - wr - 1 ELSE BufCap - wr
egw_modbus_server_reserve ==
    IF sending THEN 0
    ELSE IF Contiguous < buf_free(rd, wr) THEN Contiguous ELSE buf_free(rd, wr)

-------------------------------------------------------------------------------
(* Callbacks. *)

(* Register i as the callback left it in regs[256]. *)
RegAt(a, i) == IF i \in 1..Len(a.regs) THEN a.regs[i] ELSE BE(a.junk, a.junk)

(* The data bytes handle_read_request builds from the registers. *)
ReadData(fc, count, a) == ReadBytes(fc, [i \in 1..Wanted(fc, count) |-> RegAt(a, i)])

ReadCall(unit, q) ==
    [op |-> "read", unit |-> unit, address |-> q.addr, quantity |-> q.count,
     regs |-> <<>>]

(* The registers handle_write_request hands to write_cb: one word, coils packed
   sixteen to a word, or big-endian words.  A frame carries at most 255 data bytes,
   so the limits of 256 words and 2000 coils in the loops only cut off junk. *)
WriteRegs(q, junk) ==
    LET at(i) == ByteAt(q.data, i, junk)
        nregs == CASE q.fc \in WriteOne -> 1
                   [] q.fc = 15         -> (q.count + 15) \div 16
                   [] OTHER             -> q.count
        coils(i) == IF q.count - 16 * (i - 1) < 16 THEN q.count - 16 * (i - 1) ELSE 16
    IN  [i \in 1..nregs |->
            IF q.fc = 15 THEN BE(at(2 * i), at(2 * i - 1)) % 2^coils(i)
                         ELSE BE(at(2 * i - 1), at(2 * i))]

WriteCall(unit, q, junk) ==
    LET regs == WriteRegs(q, junk)
    IN  [op |-> "write", unit |-> unit, address |-> q.addr, quantity |-> Len(regs),
         regs |-> regs]

(* Mutant of WriteCalls: an addressed write is broadcast too. *)
WriteCallsEveryUnit(units, q, junk) ==
    IF HasWriteCb THEN {WriteCall(u, q, junk) : u \in unit_mask} ELSE {}

(* The write_cb invocations for a set of units; none when write_cb is NULL. *)
WriteCalls(units, q, junk) ==
    IF HasWriteCb THEN {WriteCall(u, q, junk) : u \in units} ELSE {}

-------------------------------------------------------------------------------
(* Dispatch of one complete frame: server_handle_frame. *)

(* Encode a response; a frame that does not fit leaves nothing to send. *)
Respond(tid, unit, pdu) ==
    /\ resp' = egw_modbus_encode(Transport, tid, unit, pdu, RespCap)
    /\ sending' = (resp' /= <<>>)

(* send_exception(server, unit_id, fc, exc, tid).  Every call site passes the
   transaction id where exc is declared and the exception code where tid is. *)
send_exception(unit, fc, exc, tid) == Respond(tid, unit, ExceptionPdu(fc, exc % 256))

(* Nothing to send: resp_buf keeps what it held when try_process began. *)
Silent(left) == resp' = left /\ sending' = FALSE

server_handle_frame(f, left, a) ==
    LET d    == egw_modbus_decode(Transport, f)
        q    == egw_modbus_parse_request(d.pdu, a.junk)
        tid  == IF Transport = TCP THEN BE(f[1], f[2]) ELSE 0
        mine == d.ok /\ q.ok /\ d.unit \in unit_mask
    IN  \/ \* not decodable, or for a unit that is not registered: dropped
           /\ ~d.ok \/ (q.ok /\ d.unit /= 0 /\ d.unit \notin unit_mask)
           /\ Silent(left)
           /\ calls' = {}
        \/ \* no request this server understands
           /\ d.ok /\ ~q.ok
           /\ send_exception(d.unit, q.fc, tid, ILLEGAL_DATA_ADDR)
           /\ calls' = {}
        \/ \* broadcast: writes reach every unit, nothing is answered
           /\ d.ok /\ q.ok /\ d.unit = 0
           /\ Silent(left)
           /\ calls' = IF q.fc \in ReadCodes THEN {}
                       ELSE WriteCalls(unit_mask, q, a.junk)
        \/ \* read
           /\ mine /\ q.fc \in ReadCodes
           /\ calls' = IF HasReadCb THEN {ReadCall(d.unit, q)} ELSE {}
           /\ IF HasReadCb /\ a.ok
              THEN Respond(tid, d.unit,
                       egw_modbus_build_read_resp_pdu(q.fc, ReadData(q.fc, q.count, a)))
              ELSE send_exception(d.unit, q.fc, tid, SLAVE_DEVICE_FAILURE)
        \/ \* write: the response repeats the request PDU
           /\ mine /\ q.fc \notin ReadCodes
           /\ calls' = WriteCalls({d.unit}, q, a.junk)
           /\ IF HasWriteCb /\ ~a.ok
              THEN send_exception(d.unit, q.fc, tid, SLAVE_DEVICE_FAILURE)
              ELSE Respond(tid, d.unit, d.pdu)

(* server_handle_frame writes past one of its arrays: the PDU of the frame is longer
   than req_pdu (and resp_pdu), or a read is answered with more registers than regs
   has room for or with a PDU longer than resp_pdu. *)
Overruns(f, a) ==
    LET d == egw_modbus_decode(Transport, f)
        q == egw_modbus_parse_request(d.pdu, a.junk)
    IN  /\ d.ok
        /\ \/ Len(d.pdu) > MaxPdu
           \/ /\ q.ok /\ d.unit \in unit_mask /\ q.fc \in ReadCodes /\ HasReadCb
              /\ \/ Len(a.regs) > RegsRoom
                 \/ /\ a.ok
                    /\ \/ Wanted(q.fc, q.count) > RegsRoom
                       \/ Len(egw_modbus_build_read_resp_pdu(q.fc,
                                  ReadData(q.fc, q.count, a))) > MaxPdu

-------------------------------------------------------------------------------
(* try_process on the ring b with positions r and w and the response left, while
   nothing is being sent: it takes at most one frame.  A frame that makes its handler
   overrun an array ends the model, because anything may follow. *)

try_process(b, r, w, left, a) ==
    LET tmp == ring_copy(b, r, Window(r, w))
        p   == parse_and_check(tmp)
        f   == SubSeq(tmp, 1, p.len)
    IN  \/ /\ buf_used(r, w) = 0 \/ p.res = "NEED_MORE"
           /\ rd' = r /\ wr' = w
           /\ outcome' = "waiting"
           /\ calls' = {}
           /\ Silent(left)
           /\ UNCHANGED frame
        \/ /\ buf_used(r, w) > 0 /\ p.res = "FRAME_ERROR"
           /\ rd' = 0 /\ wr' = 0
           /\ outcome' = "discarded"
           /\ calls' = {}
           /\ Silent(left)
           /\ UNCHANGED frame
        \/ /\ buf_used(r, w) > 0 /\ p.res = "FRAME_READY"
           /\ rd' = (r + p.len) % BufCap /\ wr' = w
           /\ frame' = f
           /\ \/ /\ ~Overruns(f, a)
                 /\ server_handle_frame(f, left, a)
                 /\ outcome' = IF sending' THEN "answered" ELSE "silent"
              \/ /\ Overruns(f, a)
                 /\ Silent(left)
                 /\ calls' = {}
                 /\ outcome' = "overrun"

(* Mutant of Accept: bytes are processed although a response is pending. *)
AcceptWhileSending(b, w, a) ==
    /\ buf' = b
    /\ try_process(b, rd, w, resp, a)
    /\ UNCHANGED unit_mask

(* The bytes are in the ring b up to position w: process them unless a response
   is pending, in which case they accumulate. *)
Accept(b, w, a) ==
    /\ buf' = b
    /\ \/ /\ sending
          /\ wr' = w
          /\ calls' = {}
          /\ UNCHANGED <<rd, resp, sending, frame, outcome>>
       \/ ~sending /\ try_process(b, rd, w, resp, a)
    /\ UNCHANGED unit_mask

(* feed with room for the bytes: they are copied behind wr. *)
Feed(data, a) ==
    /\ Len(data) <= buf_free(rd, wr)
    /\ Accept(Store(buf, wr, data), (wr + Len(data)) % BufCap, a)

(* Mutant of FeedOverflow: only one of the two positions is reset. *)
FeedOverflowKeepsRd(data) ==
    /\ Len(data) > buf_free(rd, wr)
    /\ wr' = 0
    /\ calls' = {}
    /\ UNCHANGED <<buf, rd, resp, sending, unit_mask, frame, outcome>>

(* feed without room: everything unprocessed is dropped, and so is data. *)
FeedOverflow(data) ==
    /\ Len(data) > buf_free(rd, wr)
    /\ rd' = 0 /\ wr' = 0
    /\ calls' = {}
    /\ UNCHANGED <<buf, resp, sending, unit_mask, frame, outcome>>

(* reserve, a transport read of at most the offered size, commit. *)
ReserveCommit(data, a) ==
    /\ Len(data) <= egw_modbus_server_reserve
    /\ Accept(Store(buf, wr, data), (wr + Len(data)) % BufCap, a)

(* Mutant of ResponseSent: the response is not forgotten. *)
ResponseSentKeepsLength(a) ==
    /\ try_process(buf, rd, wr, resp, a)
    /\ UNCHANGED <<buf, unit_mask>>

(* Mutant of ResponseSent: the bytes that waited are not looked at. *)
ResponseSentStops(a) ==
    /\ resp' = <<>> /\ sending' = FALSE /\ calls' = {}
    /\ UNCHANGED <<ring, unit_mask, frame, outcome>>

(* response_sent: resp_len and sending are cleared and the next frame is tried. *)
ResponseSent(a) ==
    /\ try_process(buf, rd, wr, <<>>, a)
    /\ UNCHANGED <<buf, unit_mask>>

AddUnit(ids) ==
    /\ unit_mask' = unit_mask \cup RegisteredBy(ids)
    /\ calls' = {}
    /\ UNCHANGED <<ring, resp, sending, frame, outcome>>

(* The calls of the API, while no array has been overrun. *)
Call ==
    \/ \E data \in Chunks, a \in Answers : Feed(data, a)
    \/ \E data \in Chunks : FeedOverflow(data)
    \/ \E data \in Chunks, a \in Answers : ReserveCommit(data, a)
    \/ \E a \in Answers : ResponseSent(a)
    \/ \E ids \in UnitLists : AddUnit(ids)

Overrun == outcome = "overrun"

Next ==
    \/ ~Overrun /\ Call
    \/ Overrun /\ UNCHANGED vars

Spec == Init /\ [][Next]_vars

-------------------------------------------------------------------------------
(* Properties. *)

(* The bytes received and not yet processed, in order. *)
Unread == ring_copy(buf, rd, buf_used(rd, wr))

(* What try_process would look at now. *)
Seen == ring_copy(buf, rd, Window(rd, wr))

(* Every variable stays in its range: positions inside the ring, the response a
   byte string, the unit bitmap within 1..247 (try_process, add_unit). *)
TypeOK ==
    /\ buf \in [Positions -> Byte \cup {Unwritten}]
    /\ rd \in Positions /\ wr \in Positions
    /\ resp \in Seq(Byte) /\ sending \in BOOLEAN
    /\ unit_mask \subseteq Units
    /\ frame \in Seq(Byte)
    /\ outcome \in {"idle", "waiting", "discarded", "silent", "answered", "overrun"}

(* Whatever the order of feed, reserve/commit, wrap-arounds and resets, the bytes
   between rd and wr were all received: no delimiting reads malloc'ed memory. *)
UnreadReceived == \A i \in 1..buf_used(rd, wr) : Unread[i] \in Byte

(* The flag that blocks the next frame and resp_len, which get_response looks at,
   never disagree: there is no response nobody is told of, and no lock without a
   response to release it. *)
SendingIffResponse == sending <=> (resp /= <<>>)

(* Nothing but response_sent touches a pending response: bytes that arrive while
   it is being written wait, whatever they are, and reach no callback. *)
PendingResponseUntouched ==
    [][sending /\ ~(\E a \in Answers : ResponseSent(a))
        => resp' = resp /\ sending' /\ frame' = frame /\ calls' = {}]_vars

(* A complete valid request that waits although no response is pending was left
   behind by a request that is answered by silence (broadcast, foreign unit): no
   other history strands a request, unless an array was overrun. *)
StrandedOnlyBySilence ==
    ~sending /\ buf_used(rd, wr) > 0 /\ parse_and_check(Seen).res = "FRAME_READY"
        => outcome = "silent" \/ Overrun

(* An idle server refuses more bytes only when the bytes it holds announce a
   request longer than the ring or the copy can hold. *)
RefusesOnlyOversized ==
    ~sending /\ egw_modbus_server_reserve = 0
        => \/ modbus_frame_len(Seen) > BufCap - 1
           \/ modbus_frame_len(Seen) > MaxFrame

(* A pending response is for the request taken last: a regular one comes from a
   registered unit and repeats unit and function code, and callbacks ran only for
   registered units the request was addressed to (or all of them, for unit 0).  The
   client's delimiter accepts it as one complete frame, for every request but 0x0F and
   0x10, whose response repeats the request (server.c:481). *)
ResponseAnswersRequest ==
    /\ resp /= <<>> => /\ resp[1] = frame[1]
                       /\ \/ resp[2] = frame[2] /\ resp[1] \in unit_mask
                          \/ resp[2] >= 128 /\ resp[2] % 128 = frame[2] % 128
                       /\ \/ resp[2] \in WriteMany
                          \/ resp_parse(resp) = [res |-> "FRAME_READY", len |-> Len(resp)]
    /\ \A c \in calls : /\ c.unit \in unit_mask
                        /\ frame[1] \in {0, c.unit}
                        /\ (c.op = "read") <=> (frame[2] \in ReadCodes)

(* The ring behaves like a queue of bytes that is emptied on errors. *)
Queue == INSTANCE FrameQueue WITH q <- Unread, reply <- resp, Cap <- BufCap - 1
ImplementsQueue == Queue!Spec

===============================================================================
