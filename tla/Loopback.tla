------------------------------- MODULE Loopback -------------------------------
(***************************************************************************)
(* The gateway's event loop: the master and the slave of                   *)
(* src/src/app/egw_modbus_master.c and egw_modbus_slave.c, each at its end *)
(* of a serial line, as run_modbus_loopback (egw_app.c) drives them.  The  *)
(* Modbus client and server are the modules ModbusClient and ModbusServer. *)
(*                                                                         *)
(* One action per callback of the loop and per step of its set-up.  The    *)
(* line is external: it delivers bytes in order and in pieces of any size, *)
(* may lose some, and a non-blocking write may accept only a part.         *)
(***************************************************************************)
EXTENDS ModbusCore
LOCAL INSTANCE SequencesExt

CONSTANTS
    MasterRows,   \* what the first row of southbound may be
    SlaveRows,    \* northbound, sorted by device_id and reg_addr
    MaxFrame,     \* EGW_MODBUS_MAX_FRAME
    MaxPdu,       \* EGW_MODBUS_MAX_PDU
    Junk,         \* what a register that was never written may hold
    Slot, NULL,   \* the address of the one request slot; the null pointer
    SetupMayFail, \* opening a port or creating an object may fail
    ShortWrites,  \* a write may accept fewer bytes than it is given
    MaxLost       \* bound on the bytes the line loses

(* A row may ask for any function code but 0x0F and 0x10, for which it has no data to
   write, and for any number of registers: nothing checks reg_count.  Several rows of
   northbound may have the same device_id and reg_addr, since its primary key is
   (device_id, sig_id) (tools/init_db.py:53). *)
ASSUME LoopbackAssumption ==
    /\ \A m \in MasterRows : /\ m.device_id \in Word /\ m.reg_addr \in Word
                            /\ m.func_code \in Byte \ WriteMany
                            /\ m.reg_count \in Word
    /\ MaxFrame \in Nat /\ MaxFrame > 8
    /\ MaxPdu \in Nat /\ MaxPdu >= 252
    /\ Junk \subseteq Word /\ Junk /= {}
    /\ MaxLost \in Nat /\ SetupMayFail \in BOOLEAN /\ ShortWrites \in BOOLEAN
    /\ Slot /= NULL

VARIABLES
    \* the server and the client: see ModbusServer and ModbusClient
    buf, rd, wr, resp, sending, unit_mask, frame, outcome, calls,
    slots, next, prev, req, current, recv, tx_count, rx_count, order, report, dropped,
    m0,          \* the first row of southbound
    app,         \* where run_modbus_loopback is
    phase,       \* ctx->phase
    seg_pending, \* ctx->seg_pending: the second half of the response is still to be sent
    polls,       \* the poll handles that are started
    handles,     \* the handles that were initialised
    up, down,    \* the bytes on the line from the master, from the slave
    value,       \* the value field of each northbound row
    handed,      \* history: the values handed to the persistence thread
    lost,        \* history: the bytes the line lost
    fault        \* history: set-up, line or write failed, or the timer fired

svars == <<buf, rd, wr, resp, sending, unit_mask, frame, outcome, calls>>
cvars == <<slots, next, prev, req, current, recv, tx_count, rx_count, order, report, dropped>>
ctx   == <<m0, app, phase, seg_pending, polls, handles>>
line  == <<up, down, lost>>
store == <<value, handed>>
vars  == <<svars, cvars, ctx, line, store, fault>>

-------------------------------------------------------------------------------
(* egw_lb_slave_init takes the first four different device ids, cut to a byte. *)
unit_ids ==
    LET add(ids, row) == IF Len(ids) = 4 \/ Contains(ids, row.device_id % 256) THEN ids
                         ELSE Append(ids, row.device_id % 256)
        found == FoldLeft(add, <<>>, SlaveRows)
    IN  [i \in 1..4 |-> IF i <= Len(found) THEN found[i] ELSE 0]

(* The rows with this key.  egw_ptable_rs_lookup finds one of them with bsearch, no
   particular one, or none. *)
Lookup(unit, addr) ==
    {i \in 1..Len(SlaveRows) : SlaveRows[i].device_id = unit /\ SlaveRows[i].reg_addr = addr}

(* The registers slave_read_cb stores; it never fails. *)
regs_out(unit, addr, quantity) ==
    [i \in 1..quantity |-> IF Lookup(unit, addr) = {} THEN 0 ELSE (10 + addr + i - 1) % 65536]

AnswerTo(m) ==
    [ok |-> TRUE, regs |-> regs_out(m.device_id % 256, m.reg_addr, m.reg_count), junk |-> 0]
Answers == {AnswerTo(m) : m \in MasterRows}

(* Only the request of row m0 is ever on the line. *)
answer == AnswerTo(m0)

(* The request egw_lb_master_init registers. *)
RequestFor(m) == [unit_id |-> m.device_id % 256, funccode |-> m.func_code, addr |-> m.reg_addr,
              count |-> m.reg_count, data |-> <<>>]

Server == INSTANCE ModbusServer WITH
    Transport <- RTU, BufCap <- MaxFrame, RespCap <- MaxFrame,
    MaxPdu <- MaxPdu, HasReadCb <- TRUE, HasWriteCb <- FALSE, UnitIds <- unit_ids,
    Chunks <- {}, UnitLists <- {}
Client == INSTANCE ModbusClient WITH
    Transport <- RTU, RecvCap <- MaxFrame, MaxPdu <- MaxPdu, Slots <- {Slot},
    Params <- {RequestFor(m) : m \in MasterRows}, Chunks <- {}, MaxTx <- 1, MaxRx <- 2

Init ==
    /\ Server!Init /\ Client!Init
    /\ m0 \in MasterRows
    /\ app = "setup" /\ phase = "SERVER_RECV" /\ seg_pending = FALSE
    /\ polls = {} /\ handles = {}
    /\ up = <<>> /\ down = <<>> /\ lost = 0
    /\ value = [i \in 1..Len(SlaveRows) |-> 0] /\ handed = <<>>
    /\ fault = FALSE

-------------------------------------------------------------------------------
(* Set-up. *)

(* The ports are opened, the server and the client are created and the request is
   registered. *)
Setup ==
    /\ app = "setup"
    /\ Client!Register(Slot, RequestFor(m0))
    /\ app' = "send"
    /\ UNCHANGED <<svars, m0, phase, seg_pending, polls, handles, line, store, fault>>

(* One of these steps fails, or the function code is none that can be encoded. *)
SetupFails ==
    /\ app = "setup"
    /\ SetupMayFail \/ EncodeRequest(RTU, RequestFor(m0)) = <<>>
    /\ app' = "cleanup" /\ fault' = TRUE
    /\ UNCHANGED <<svars, cvars, m0, phase, seg_pending, polls, handles, line, store>>

(* The numbers of bytes a write of n bytes may accept. *)
Accepted(n) == IF ShortWrites THEN 0..n ELSE {n}

(* Mutant of Send: the handles are not initialised before the loop runs. *)
SendUninitialised ==
    /\ app = "send"
    /\ Client!Request(Slot)
    /\ up' = EncodeRequest(RTU, RequestFor(m0))
    /\ app' = "loop" /\ polls' = {"srv_poll"}
    /\ UNCHANGED <<svars, m0, phase, seg_pending, handles, down, lost, store, fault>>

(* egw_lb_master_send; once all of the request is written the handles are initialised,
   the slave's poll and the timer are started and the loop runs. *)
Send ==
    /\ app = "send"
    /\ Client!Request(Slot)
    /\ LET f == EncodeRequest(RTU, RequestFor(m0))
       IN  \E n \in Accepted(Len(f)) :
              /\ up' = SubSeq(f, 1, n)
              /\ fault' = (n < Len(f))
              /\ IF n = Len(f)
                 THEN app' = "loop" /\ handles' = {"srv_poll", "cli_poll", "timer"}
                                    /\ polls' = {"srv_poll"}
                 ELSE app' = "cleanup" /\ UNCHANGED <<handles, polls>>
    /\ UNCHANGED <<svars, m0, phase, seg_pending, down, lost, store>>

-------------------------------------------------------------------------------
(* The callbacks of the loop.  uv_stop lets the iteration that is under way end. *)

Iterating == app \in {"loop", "stopping"}

(* regs_out[0]: nothing was stored there when no register was asked for. *)
FirstOf(regs) == IF regs = <<>> THEN Junk ELSE {regs[1]}

(* Mutant of slave_read_cb: every row with the key takes the value. *)
SlaveReadCbEveryRow(a) ==
    \/ calls' = {} /\ UNCHANGED store
    \/ \E c \in calls', v \in FirstOf(a.regs) :
          /\ value' = [i \in 1..Len(SlaveRows) |->
                          IF i \in Lookup(c.unit, c.address) THEN v ELSE value[i]]
          /\ handed' = IF Lookup(c.unit, c.address) = {} THEN handed
                       ELSE Append(handed, [unit |-> c.unit, addr |-> c.address, value |-> v])

(* The effects of slave_read_cb, if the server called it: a is what it answered.  The
   row that is found takes the first register and hands it to persistence. *)
slave_read_cb(a) ==
    \/ calls' = {} /\ UNCHANGED store
    \/ \E c \in calls' :
          /\ a.regs = regs_out(c.unit, c.address, c.quantity)
          /\ \/ Lookup(c.unit, c.address) = {} /\ UNCHANGED store
             \/ \E i \in Lookup(c.unit, c.address), v \in FirstOf(a.regs) :
                   /\ value' = [value EXCEPT ![i] = v]
                   /\ handed' = Append(handed, [unit |-> c.unit, addr |-> c.address,
                                                value |-> v])

(* The slave writes the bytes s; what is not accepted is not written again. *)
SlaveWrites(s, rest) ==
    \E n \in Accepted(Len(s)) :
       /\ down' = rest \o SubSeq(s, 1, n)
       /\ fault' = (fault \/ n < Len(s))

(* resp[0 .. resp_len / 2). *)
FirstHalf(r) == SubSeq(r, 1, Len(r) \div 2)

(* The numbers of bytes a read may return when n are waiting. *)
Received(n) == 1..n

(* egw_lb_slave_on_poll: read into the ring and commit; when that yields a response
   send its first half, stop listening and start the master's poll. *)
egw_lb_slave_on_poll ==
    /\ Iterating /\ "srv_poll" \in polls
    /\ \E n \in Received(Len(up)) :
          /\ Server!ReserveCommit(SubSeq(up, 1, n), answer)
          /\ up' = SubSeq(up, n + 1, Len(up))
    /\ slave_read_cb(answer)
    /\ IF resp' = <<>>
       THEN UNCHANGED <<seg_pending, polls, down, fault>>
       ELSE /\ SlaveWrites(FirstHalf(resp'), down)
            /\ seg_pending' = TRUE /\ polls' = {"cli_poll"}
    /\ UNCHANGED <<cvars, m0, app, phase, handles, lost>>

(* master_done_cb, if the client called it. *)
master_done_cb ==
    \/ /\ rx_count' = rx_count \/ Client!Overrun'
       /\ UNCHANGED <<app, phase>>
    \/ /\ rx_count' > rx_count /\ ~Client!Overrun'
       /\ app' = "stopping"
       /\ phase' = IF report'.reg_count < 0 THEN phase ELSE "DONE"

(* Mutant of SecondHalf: the second half begins one byte late. *)
SecondHalfLate(rest) ==
    \/ /\ seg_pending /\ resp /= <<>>
       /\ seg_pending' = FALSE
       /\ SlaveWrites(SubSeq(resp, Len(resp) \div 2 + 2, Len(resp)), rest)
       /\ Server!ResponseSent(answer) /\ slave_read_cb(answer)
    \/ /\ ~seg_pending
       /\ down' = rest
       /\ UNCHANGED <<seg_pending, fault, svars, store>>

(* The second half of the response, if it is pending, goes out when the master has
   read; then the server is told.  get_response still finds the response: the server
   keeps it until it is told. *)
SecondHalf(rest) ==
    \/ /\ seg_pending /\ resp /= <<>>
       /\ seg_pending' = FALSE
       /\ SlaveWrites(SubSeq(resp, Len(resp) \div 2 + 1, Len(resp)), rest)
       /\ Server!ResponseSent(answer) /\ slave_read_cb(answer)
    \/ /\ ~seg_pending
       /\ down' = rest
       /\ UNCHANGED <<seg_pending, fault, svars, store>>

(* egw_lb_master_on_poll: read into the client's buffer and commit, which may report
   the result and stop the loop, then send what is pending. *)
egw_lb_master_on_poll ==
    /\ Iterating /\ "cli_poll" \in polls
    /\ \E n \in Received(Len(down)) :
          /\ Client!ReserveCommit(SubSeq(down, 1, n))
          /\ SecondHalf(SubSeq(down, n + 1, Len(down)))
    /\ master_done_cb
    /\ UNCHANGED <<m0, polls, handles, up, lost>>

(* Mutant of egw_lb_on_timeout: it only logs. *)
TimeoutOnlyLogs ==
    /\ app = "loop"
    /\ fault' = TRUE
    /\ UNCHANGED <<svars, cvars, ctx, line, store>>

(* egw_lb_on_timeout, once. *)
egw_lb_on_timeout ==
    /\ app = "loop"
    /\ app' = "stopping" /\ fault' = TRUE
    /\ UNCHANGED <<svars, cvars, m0, phase, seg_pending, polls, handles, line, store>>

(* uv_run returns. *)
EndLoop ==
    /\ app = "stopping"
    /\ app' = "cleanup"
    /\ UNCHANGED <<svars, cvars, m0, phase, seg_pending, polls, handles, line, store, fault>>

(* The handles are closed and everything is freed.  uv_close of a handle that was never
   initialised follows its null loop pointer. *)
Cleanup ==
    /\ app = "cleanup"
    /\ app' = IF handles = {} THEN "crashed" ELSE "done"
    /\ polls' = {}
    /\ UNCHANGED <<svars, cvars, m0, phase, seg_pending, handles, line, store, fault>>

(* The line loses a byte. *)
LoseByte ==
    /\ lost < MaxLost
    /\ lost' = lost + 1 /\ fault' = TRUE
    /\ \/ \E i \in 1..Len(up) : up' = RemoveAt(up, i) /\ UNCHANGED down
       \/ \E i \in 1..Len(down) : down' = RemoveAt(down, i) /\ UNCHANGED up
    /\ UNCHANGED <<svars, cvars, ctx, store>>

Code == Setup \/ SetupFails \/ Send \/ egw_lb_slave_on_poll \/ egw_lb_master_on_poll
            \/ EndLoop \/ Cleanup

(* A request was answered with more registers than an array of the server or the client
   has room for: anything may follow, and the model ends. *)
Overrun == Server!Overrun \/ Client!Overrun

Next == \/ ~Overrun /\ Code
        \/ ~Overrun /\ egw_lb_on_timeout
        \/ ~Overrun /\ LoseByte
        \/ /\ Overrun \/ app \in {"done", "crashed"}
           /\ UNCHANGED vars

(* The code has something to do: a step outside the loop, or a started handle whose
   descriptor is readable and whose buffer has room.  This is when Code is enabled. *)
Ready ==
    /\ ~Overrun
    /\ \/ app \in {"setup", "send", "stopping", "cleanup"}
       \/ /\ app = "loop" /\ "srv_poll" \in polls
          /\ up /= <<>> /\ Server!egw_modbus_server_reserve > 0
       \/ /\ app = "loop" /\ "cli_poll" \in polls
          /\ down /= <<>> /\ Client!egw_modbus_client_reserve > 0

(* libuv calls the callback of a handle that stays readable: weak fairness of Code.
   Nothing is assumed of the timer. *)
Spec == Init /\ [][Next]_vars /\ (<>[]Ready => []<><<Code>>_vars)

-------------------------------------------------------------------------------
(* Properties. *)

(* The result the master should report for the row m, of the registers slave_read_cb
   stores: a coil response carries one byte per eight coils, the low byte of a register
   each. *)
Served(m) ==
    LET stored == AnswerTo(m).regs
    IN  IF m.func_code \in {1, 2}
        THEN [i \in 1..((m.reg_count + 7) \div 8) |-> Low(stored[i])]
        ELSE stored

(* slave_read_cb stores a register for each coil or register that is asked for, and the
   server has room for 256; of registers a response carries 125. *)
Answerable(m) == m.reg_count \in 1..(IF m.func_code \in {1, 2} THEN 256 ELSE 125)

(* The value of row i is v, and no other row was touched. *)
OnlyTaken(i, v) == value = [k \in 1..Len(SlaveRows) |-> IF k = i THEN v ELSE 0]

(* Whatever is lost on the line or not accepted by a write, a loopback that ends DONE
   for a count that can be answered reports the registers slave_read_cb stored for the
   row that was asked for.  If northbound has the key, one row with it took the first of
   them, the same value was handed to persistence and no other row changed; the request
   was served once. *)
ReportedIsServed ==
    phase = "DONE" /\ Answerable(m0) =>
        LET unit  == m0.device_id % 256
            rows  == Lookup(unit, m0.reg_addr)
            first == answer.regs[1]
        IN  /\ report.regs = Served(m0)
            /\ rows = {} => handed = <<>>
            /\ rows /= {} => /\ \E i \in rows : OnlyTaken(i, first)
                             /\ handed = <<[unit |-> unit, addr |-> m0.reg_addr, value |-> first]>>

(* The clean-up of a failed start ends the process, which takes the persistence thread
   with it (Cleanup).  By then nothing was served, handed over or reported: no value
   that was read is lost with it. *)
CrashLosesNothing ==
    app = "crashed" => /\ handed = <<>> /\ report = NULL
                       /\ \A i \in 1..Len(SlaveRows) : value[i] = 0

(* Without a fault the loopback completes although the response goes out in two
   callbacks of different handles and all bytes arrive in arbitrary pieces: if the
   unit is one of the four registered, the result is reported and the loop ends.
   The timer is not needed for that.  A row that asks for a write is answered as well,
   but the master counts the answer as an error, since it reads it as registers.  A
   count that cannot be answered may overrun an array instead. *)
CompletesWithoutFault ==
    [](~fault) => <>(\/ app = "done" /\ (phase = "DONE" <=> m0.func_code \in ReadCodes)
                     \/ m0.device_id % 256 \notin unit_mask
                     \/ Overrun /\ ~Answerable(m0))

(* The timer rescues every other case: a lost byte, a short write, a unit nobody
   serves.  If it fires when it is due the loop always ends, unless an array was
   overrun, which no count that can be answered leads to. *)
TimerEndsLoop ==
    WF_vars(egw_lb_on_timeout)
        => <>(app \in {"done", "crashed"} \/ (Overrun /\ ~Answerable(m0)))

===============================================================================
