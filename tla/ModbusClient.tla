----------------------------- MODULE ModbusClient -----------------------------
(***************************************************************************)
(* The Modbus client (master) of src/src/protocol/egw_modbus_client.c: a   *)
(* circular doubly linked list of request slots, the slot whose response   *)
(* is awaited, and the linear receive buffer its response collects in.     *)
(* One action per entry point; all run on the event loop thread.           *)
(***************************************************************************)
EXTENDS ModbusCore

CONSTANTS
    Transport,  \* params->transport
    RecvCap,    \* params->recv_cap, the size of recv_buf
    MaxPdu,     \* EGW_MODBUS_MAX_PDU, the size of pdu in client_handle_frame
    Slots,      \* the addresses malloc may return for a slot
    NULL,       \* the null pointer
    Params,     \* the encode parameters register may be called with
    Chunks,     \* the byte strings the transport may deliver in one call
    MaxTx,      \* bound on tx_count
    MaxRx       \* bound on rx_count

ASSUME ClientAssumption ==
    /\ Transport \in {RTU, TCP}
    /\ RecvCap \in Nat /\ MaxPdu \in Nat /\ MaxTx \in Nat /\ MaxRx \in Nat
    /\ NULL \notin Slots /\ NULL \notin Params
    /\ \A p \in Params : p.unit_id \in Byte /\ p.addr \in Word
    /\ \A data \in Chunks : data \in Seq(Byte) /\ data /= <<>>

VARIABLES
    slots,      \* entry of the circular list
    next, prev, \* the links of a slot; NULL in freed memory
    req,        \* the parameters a slot was encoded from; NULL in freed memory
    current,    \* the slot whose response is awaited
    recv,       \* recv_buf[0 .. recv_len)
    tx_count, rx_count,
    order,      \* history: the live slots, oldest first
    report,     \* history: the last done_cb call since the last request, or NULL
    dropped     \* history: recv_len went back to 0 since the last request

vars == <<slots, next, prev, req, current, recv, tx_count, rx_count,
          order, report, dropped>>
list == <<slots, next, prev, req, order>>

live == {s \in Slots : req[s] /= NULL}

Init ==
    /\ slots = NULL /\ current = NULL
    /\ next = [s \in Slots |-> NULL] /\ prev = [s \in Slots |-> NULL]
    /\ req = [s \in Slots |-> NULL]
    /\ recv = <<>> /\ tx_count = 0 /\ rx_count = 0
    /\ order = <<>> /\ report = NULL /\ dropped = FALSE

-------------------------------------------------------------------------------
(* The slot list. *)

(* egw_modbus_client_register: link a fresh slot between the tail and the head. *)
Register(s, p) ==
    /\ s \notin live
    /\ EncodeRequest(Transport, p) /= <<>>
    /\ req' = [req EXCEPT ![s] = p]
    /\ IF slots = NULL
       THEN /\ slots' = s
            /\ next' = [next EXCEPT ![s] = s]
            /\ prev' = [prev EXCEPT ![s] = s]
       ELSE /\ next' = [next EXCEPT ![s] = slots, ![prev[slots]] = s]
            /\ prev' = [prev EXCEPT ![s] = prev[slots], ![slots] = s]
            /\ UNCHANGED slots
    /\ order' = Append(order, s)
    /\ UNCHANGED <<current, recv, tx_count, rx_count, report, dropped>>

(* The order of registration without s. *)
OrderWithout(s) ==
    LET at == {k \in DOMAIN order : order[k] = s}
        k  == CHOOSE k \in at : TRUE
    IN  IF at = {} THEN order
        ELSE SubSeq(order, 1, k - 1) \o SubSeq(order, k + 1, Len(order))

(* Mutant of Remove: the entry of the list is not moved off the removed slot. *)
RemoveKeepsEntry(s) ==
    /\ s \in live
    /\ prev' = [prev EXCEPT ![next[s]] = prev[s], ![s] = NULL]
    /\ next' = [next EXCEPT ![prev[s]] = next[s], ![s] = NULL]
    /\ slots' = IF next[s] = s THEN NULL ELSE slots
    /\ current' = IF current = s THEN NULL ELSE current
    /\ req' = [req EXCEPT ![s] = NULL]
    /\ order' = OrderWithout(s)
    /\ UNCHANGED <<recv, tx_count, rx_count, report, dropped>>

(* Mutant of Remove: the freed slot stays the awaited one. *)
RemoveKeepsCurrent(s) ==
    /\ s \in live
    /\ prev' = [prev EXCEPT ![next[s]] = prev[s], ![s] = NULL]
    /\ next' = [next EXCEPT ![prev[s]] = next[s], ![s] = NULL]
    /\ slots' = IF next[s] = s THEN NULL ELSE IF slots = s THEN next[s] ELSE slots
    /\ req' = [req EXCEPT ![s] = NULL]
    /\ order' = OrderWithout(s)
    /\ UNCHANGED <<current, recv, tx_count, rx_count, report, dropped>>

(* egw_modbus_client_remove: unlink a slot, forget it as current and free it. *)
Remove(s) ==
    /\ s \in live
    /\ IF next[s] = s
       THEN /\ slots' = NULL
            /\ next' = [next EXCEPT ![s] = NULL]
            /\ prev' = [prev EXCEPT ![s] = NULL]
       ELSE /\ prev' = [prev EXCEPT ![next[s]] = prev[s], ![s] = NULL]
            /\ next' = [next EXCEPT ![prev[s]] = next[s], ![s] = NULL]
            /\ slots' = IF slots = s THEN next[s] ELSE slots
    /\ current' = IF current = s THEN NULL ELSE current
    /\ req' = [req EXCEPT ![s] = NULL]
    /\ order' = OrderWithout(s)
    /\ UNCHANGED <<recv, tx_count, rx_count, report, dropped>>

(* The slots egw_modbus_client_destroy meets on its walk along next. *)
Visited ==
    LET at[n \in 0..Len(order)] == IF n = 0 THEN slots ELSE next[at[n - 1]]
    IN  IF slots = NULL THEN {} ELSE {at[n] : n \in 0..Len(order)}

(* egw_modbus_client_destroy frees what it meets; the application then creates a
   client anew. *)
Destroy ==
    LET freed(f) == [s \in Slots |-> IF s \in Visited THEN NULL ELSE f[s]]
    IN  /\ slots' = NULL /\ current' = NULL
        /\ next' = freed(next) /\ prev' = freed(prev) /\ req' = freed(req)
        /\ recv' = <<>> /\ tx_count' = 0 /\ rx_count' = 0
        /\ order' = <<>> /\ report' = NULL /\ dropped' = FALSE

(* egw_modbus_client_request: await the response of s, forget collected bytes.  The
   transaction id it writes into a TCP frame, next_tid, is tx_count modulo 2^16; no
   response is compared with it. *)
Request(s) ==
    /\ s \in live /\ tx_count < MaxTx
    /\ current' = s
    /\ recv' = <<>>
    /\ tx_count' = tx_count + 1
    /\ report' = NULL /\ dropped' = FALSE
    /\ UNCHANGED <<list, rx_count>>

-------------------------------------------------------------------------------
(* Receiving. *)

(* Mutant of ResultOf: the unit of the response is not compared. *)
ResultOfAnyUnit(f, p) ==
    LET r == egw_modbus_parse_read_pdu(egw_modbus_decode(Transport, f).pdu, p.funccode, 128)
    IN  [unit_id |-> p.unit_id, addr |-> p.addr,
         reg_count |-> IF r.rc >= 0 THEN r.rc ELSE -1, regs |-> r.regs]

(* The result client_handle_frame reports for the complete frame f. *)
ResultOf(f, p) ==
    LET d == egw_modbus_decode(Transport, f)
        r == egw_modbus_parse_read_pdu(d.pdu, p.funccode, 128)
        failed == [unit_id |-> p.unit_id, addr |-> p.addr, reg_count |-> -1, regs |-> <<>>]
    IN  IF d.ok /\ d.unit = p.unit_id /\ r.rc >= 0
        THEN [failed EXCEPT !.reg_count = r.rc, !.regs = r.regs]
        ELSE failed

(* Mutant of Collect: the frame handed on is all that was collected. *)
CollectWhole(b) ==
    LET p == resp_parse(b)
    IN  \/ /\ p.res = "FRAME_READY" /\ rx_count < MaxRx
           /\ recv' = SubSeq(b, 1, p.len)
           /\ rx_count' = rx_count + 1
           /\ report' = ResultOf(b, req[current])
           /\ UNCHANGED dropped
        \/ /\ p.res /= "FRAME_READY"
           /\ recv' = IF p.res = "NEED_MORE" THEN b ELSE <<>>
           /\ dropped' = (dropped \/ p.res = "FRAME_ERROR")
           /\ UNCHANGED <<rx_count, report>>

(* The PDU of the frame f fits the array client_handle_frame unpacks it into. *)
FitsPdu(f) == Len(egw_modbus_decode(Transport, f).pdu) <= MaxPdu

(* The received bytes are b: delimit them and report a complete response.  The
   slot stays current and the frame stays in the buffer.  A PDU that is too long is
   written past the end of the array, which ends the model: see Overrun. *)
Collect(b) ==
    LET p == resp_parse(b)
    IN  \/ /\ p.res = "FRAME_READY" /\ rx_count < MaxRx
           /\ recv' = SubSeq(b, 1, p.len)
           /\ rx_count' = rx_count + 1
           /\ \/ FitsPdu(recv') /\ report' = ResultOf(recv', req[current])
              \/ ~FitsPdu(recv') /\ UNCHANGED report
           /\ UNCHANGED dropped
        \/ /\ p.res = "FRAME_ERROR"
           /\ recv' = <<>>
           /\ dropped' = TRUE
           /\ UNCHANGED <<rx_count, report>>
        \/ /\ p.res = "NEED_MORE"
           /\ recv' = b
           /\ UNCHANGED <<rx_count, report, dropped>>

(* Mutant of Feed: the capacity is not checked. *)
FeedUnchecked(data) ==
    /\ current /= NULL
    /\ Collect(recv \o data)
    /\ UNCHANGED <<list, current, tx_count>>

(* egw_modbus_client_feed: bytes that do not fit drop everything collected. *)
Feed(data) ==
    /\ current /= NULL
    /\ \/ Len(data) <= RecvCap - Len(recv) /\ Collect(recv \o data)
       \/ /\ Len(data) > RecvCap - Len(recv)
          /\ recv' = <<>> /\ dropped' = TRUE
          /\ UNCHANGED <<rx_count, report>>
    /\ UNCHANGED <<list, current, tx_count>>

(* What egw_modbus_client_reserve offers. *)
egw_modbus_client_reserve == IF current = NULL THEN 0 ELSE RecvCap - Len(recv)

(* reserve, a transport read of at most the offered size, commit. *)
ReserveCommit(data) ==
    /\ Len(data) <= egw_modbus_client_reserve
    /\ Collect(recv \o data)
    /\ UNCHANGED <<list, current, tx_count>>

(* The calls of the API, while pdu has not been overrun. *)
Call ==
    \/ \E s \in Slots, p \in Params : Register(s, p)
    \/ \E s \in Slots : Remove(s)
    \/ Destroy
    \/ \E s \in Slots : Request(s)
    \/ \E data \in Chunks : Feed(data)
    \/ \E data \in Chunks : ReserveCommit(data)

(* A complete response is collected, and so has been unpacked, whose PDU is longer
   than the array: anything may follow, and the model ends. *)
Overrun == resp_parse(recv).res = "FRAME_READY" /\ ~FitsPdu(recv)

Next ==
    \/ ~Overrun /\ Call
    \/ Overrun /\ UNCHANGED vars

Spec == Init /\ [][Next]_vars

-------------------------------------------------------------------------------
(* Properties. *)

Pointer == Slots \cup {NULL}

(* Pointers point to slots or are null, the receive buffer never outgrows its
   allocation and the counters stay below their bounds. *)
TypeOK ==
    /\ slots \in Pointer /\ current \in Pointer
    /\ next \in [Slots -> Pointer] /\ prev \in [Slots -> Pointer]
    /\ req \in [Slots -> Params \cup {NULL}]
    /\ recv \in Seq(Byte) /\ Len(recv) <= RecvCap
    /\ tx_count \in 0..MaxTx /\ rx_count \in 0..MaxRx
    /\ order \in Seq(Slots)
    /\ dropped \in BOOLEAN

(* Whatever slots are registered and removed, walking next from the entry visits
   the live slots in the order they were registered and comes back, prev walks the
   same circle backwards, an empty list has no entry, and destroy leaves no slot
   behind. *)
ListIsCircleOfLiveSlots ==
    /\ live = {order[k] : k \in 1..Len(order)}
    /\ \A j, k \in 1..Len(order) : j /= k => order[j] /= order[k]
    /\ slots = IF order = <<>> THEN NULL ELSE order[1]
    /\ \A k \in 1..Len(order) :
          LET after == IF k = Len(order) THEN order[1] ELSE order[k + 1]
          IN  next[order[k]] = after /\ prev[after] = order[k]

(* The slot awaited is never freed memory: remove forgets it, also between the
   request and its response. *)
AwaitedSlotIsLive == current /= NULL => current \in live

(* A reported success comes from a frame with the unit and the function code of
   the slot that is awaited; a slot that was removed gets no further report. *)
SuccessFitsRequest ==
    report /= NULL /\ current /= NULL =>
        /\ report.unit_id = req[current].unit_id /\ report.addr = req[current].addr
        /\ (report.reg_count >= 0 /\ ~dropped) =>
              /\ recv[1] = req[current].unit_id
              /\ recv[2] = req[current].funccode
              /\ Len(report.regs) = report.reg_count

(* Bytes that follow a complete response make the client report again, since the
   slot stays current and the frame stays collected, but as long as nothing was
   dropped the further report repeats the first one. *)
FurtherReportsRepeat ==
    [][report /= NULL /\ ~dropped /\ tx_count' = tx_count => report' = report]_vars

===============================================================================
