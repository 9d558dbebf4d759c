# TLA+ model of the data gateway

This directory holds TLA+ modules for the gateway's C code, TLC configurations that
model-check them, and theorems whose proofs TLAPS checks. Paths below are relative to
the repository root (`src/protocol/...` is the file `protocol/...` of the source
directory). `PROJECT.json` maps every definition to the lines it stands for.

## 1. Inventory

| Component | Files | State | Operations | Interacts with |
|---|---|---|---|---|
| Modbus codec | `protocol/egw_modbus_core.c` | none (pure) | encode, decode, build and parse PDUs | called by server and client |
| Modbus server | `protocol/egw_modbus_server.c` | receive ring `buf/rd/wr`, `resp_buf/resp_len`, `sending`, 256-bit unit bitmap | `feed`, `reserve`/`commit`, `get_response`, `response_sent`, `add_unit` | codec, checksum, `read_cb`/`write_cb` |
| Modbus client | `protocol/egw_modbus_client.c` | circular list of slots, `current`, `recv_buf`, counters, `next_tid` | `register`, `remove`, `request`, `feed`, `reserve`/`commit`, `destroy` | codec, checksum, `done_cb` |
| Checksum | `core/egw_crc.c` | a constant table | `egw_crc_modbus_table`, `egw_crc_modbus_calc` | codec, both delimiters |
| Persistence thread | `app/egw_persist_thread.c` | `running`, a pipe, the thread | `create`, `enqueue`, `request_stop`, `join`, `destroy` | main thread through the pipe, persistent values |
| Persistent values | `ptable/egw_persist.c` | SQLite connection and transaction | `open`, `begin`, `full_dump`, `put`, `commit`, `close` | SQLite |
| Application | `app/egw_app.c`, `app/egw_route.c` | loop, handles, tables, life cycle | `egw_app_run`, `run_modbus_loopback` | everything |
| Loopback master / slave | `app/egw_modbus_master.c`, `app/egw_modbus_slave.c` | poll handles, partially written frames, timer | readable/writable callbacks, timeout | client, server, transport |
| Event bus | `core/egw_bus.c` | subscriber array | subscribe, unsubscribe, publish | its callbacks, which may use the bus themselves |
| State machine | `core/egw_fsm.c` | current state, `temp` | init, dispatch | its handlers, which may dispatch themselves |
| Point table | `ptable/egw_ptable.c` | head tree with version, sorted row sets | head load, open, discover, register, lookup, free | SQLite, application, slave callbacks |
| Configuration | `core/config.c` | cJSON tree, cursor | load, enter, get, free | the JSON file |
| Transport | `transport/` | descriptors | open, read, write | master, slave |
| Error strings | `core/egw_err.c` | none | text of an error | logging |

Everything except the persistence thread runs on one libuv event-loop thread, so the
entry points of server and client are atomic with respect to one another. What is hard
there is the *order* in which they are called: bytes arrive in any pieces, while a
response is pending or not, and the ring wraps and is reset. The persistence thread is
truly concurrent with the main thread, SQLite is compiled without locks, and the process
may die between any two calls. `config.db` and the JSON file belong to other processes as
well and may change between any two statements that read them. Bus and state machine call
application code in the middle of their own loops, and that code may call them again.

The full list of what is hard to test, with the line and the property concerned, is
`hazards` in `PROJECT.json`. What makes each modelled component correct:

* codec: both ends agree on every length; a changed byte never becomes another request
  or another value;
* server: the ring loses, repeats and invents no byte; the pending response is the
  answer to the last request and is touched by nobody; no state stops the server;
* client: the list stays a circle of live slots; a freed slot is never used; a reported
  value belongs to the slot that asked;
* persistence: the committed table is always a prefix of what was written, an orderly
  stop loses nothing, the two threads never use SQLite together, shutdown ends;
* loopback: what the master reports is what the slave serves, the loop ends;
* application and point table: a head tree is never used with a database it does not
  describe, a row is found exactly if the table has it, every path gives everything back,
  the process ends;
* bus: one publish calls every matching subscriber once, and returns;
* state machine: it rests in the state it entered last, entry and exit actions pair up;
* configuration: a query is answered from the node entered last, no path leaks.

## 2. Modules

| Module | What it is |
|---|---|
| `Crc` | both checksum routines over sequences of bytes |
| `ModbusCore` | the codec and the delimiters of server and client; operators only. The checksum is a constant operator `crc16`, so that proofs hold for every checksum; every run gives it `egw_crc_modbus_table` of `Crc` |
| `ModbusServer` | the server, one action per entry point |
| `FrameQueue` | abstract specification: a first-in first-out queue of bytes with a reply; no ring |
| `Exchange` | composition of both codec halves over a line that may change one byte |
| `ModbusClient` | the client, one action per entry point |
| `Loopback` | `ModbusClient` and `ModbusServer` composed by the callbacks of the event loop: polls, halves of the response, short writes, lost bytes, timer |
| `PersistThread` | main thread, persistence thread, pipe and database; one action per system or SQLite call |
| `EventBus` | the bus, with the stack of publish calls under way |
| `StateMachine` | the engine, with the stack of dispatch calls under way |
| `PointTable` | what a row set holds and how it is searched; operators only |
| `Gateway` | the whole process over a database that changes: `egw_app_run` with the point table layer, one action per SQL statement |
| `Config` | the configuration handle; one action per system or library call of the load, one per query |
| `CodecProofs` | lemmas about bytes, words and the operators of `ModbusCore`, which the next four rest on |
| `ServerProofs`, `ClientProofs`, `LoopbackProofs`, `PersistProofs` | lemmas, theorems and proofs about the module of that name |
| `ExchangeProofs` | the same for `Crc` and `Exchange`; it extends `MCExchange`, where a property relates the two |
| `GatewayProofs` | the same for `PointTable` and `Gateway` |
| `CoreProofs` | the same for the three modules of `src/core` with state: `EventBus`, `StateMachine`, `Config` |
| `MCServer`, `MCExchange`, `MCClient`, `MCLoopback`, `MCPersist`, `MCBus`, `MCFsm`, `MCGateway`, `MCConfig` | instances for TLC, and the statements of the documents that the code does not keep |

`CoreProofs` extends three modules at once, so `EventBus`, `StateMachine` and `Config` name
what each module has with a prefix of their own: `BusInit`, `FsmSpec`, `ConfTypeOK` and so on.

Operators named `Mutant of X` in a comment stand just before `X` and are variants of it
with a plausible bug. They are used by nothing; putting one in place of `X` makes the
property listed with it in `PROJECT.json` fail, which shows that the property depends on
that code.

### Server

`buf` maps ring indices to bytes, with `Unwritten` for memory that `malloc` returned and
nobody stored to. `rd`, `wr`, `sending` are the C fields, `resp` is
`resp_buf[0 .. resp_len)`, `unit_mask` the set behind the bitmap. `frame`, `outcome` and
`calls` are history: the last frame taken, how the last `try_process` ended, and which
callbacks the last call invoked.

| Action | Code |
|---|---|
| `Feed`, `FeedOverflow` | `egw_modbus_server_feed` with and without room |
| `ReserveCommit` | `egw_modbus_server_reserve`, the transport's read, `egw_modbus_server_commit` |
| `ResponseSent` | `egw_modbus_server_response_sent`, which tries the next frame |
| `AddUnit` | `egw_modbus_server_add_unit` |

`Feed`, `ReserveCommit` and `ResponseSent` contain all of `try_process` and
`server_handle_frame`: delimiting, the reset on a bad frame, decoding, dispatch,
broadcast, callbacks and the encoding of the response, including the case that it does
not fit. Callbacks answer from the set `Answers`: success with registers, or failure.
A frame whose handling writes past an array (`Overruns`: `req_pdu` and `resp_pdu` of
`MaxPdu` bytes, `regs` of `RegsRoom` words) has the outcome `"overrun"`, after which
nothing more is claimed: C says nothing of such a program, so the behaviour ends there.
`junk` stands for stack bytes the code reads without having written them.
`send_exception` is modelled with the arguments in the order in which the call sites pass
them.

### Client

The list is modelled by its pointers (`slots`, `next`, `prev`), not by an abstract
sequence; the sequence `order` is history and is what `ListIsCircleOfLiveSlots` compares
the pointers with. `req[s] = NULL` marks memory that is free. A slot's address can be
given out again after `Remove`, as `malloc` does. `report` is the last `done_cb` call
since the last request. A response too long for `pdu` (`FitsPdu`) ends the behaviour, as in
the server. `next_tid` is not kept: it is `tx_count` modulo 2^16 and no
response is compared with it.

### Exchange

`ClientEncode`, `ServerParse`, `ServerAnswer`, `ClientParse` in sequence, and `Damage`,
which changes one byte of the frame on the line to any value, at most once per exchange.
A PDU that does not fit the array it is built or unpacked in ends the exchange in the phase
`"overrun"`.
The buffers and the dispatch are in their own modules; here the question is only whether
the lengths computed by encoder, two delimiters and two parsers agree. The bytes of a read
response are those `handle_read_request` builds (`Wanted`, `ReadBytes` in `ModbusCore`, which
`ModbusServer` uses as well). `RoutinesAgree` compares both checksum routines on whatever is
on the line.

### Loopback

`Server` and `Client` are instances of the two component modules over this module's
variables; a callback is one action that conjoins the component actions it calls.

| Action | Code |
|---|---|
| `Setup`, `SetupFails` | opening the ports, `egw_lb_slave_init`, `egw_lb_master_init` |
| `Send` | `egw_lb_master_send` and the start of polls and timer |
| `egw_lb_slave_on_poll` | `reserve`, read, `commit` (with `slave_read_cb`), first half of the response, switch of the polls |
| `egw_lb_master_on_poll` | `reserve`, read, `commit` (with `master_done_cb`), second half, `response_sent` |
| `egw_lb_on_timeout`, `EndLoop`, `Cleanup` | timer, return of `uv_run`, label `cleanup` |
| `LoseByte` | the line (external) |

A read returns any part of the waiting bytes (`Received`); a write accepts any part when
`ShortWrites` is set (`Accepted`), and the code sends nothing twice. `uv_stop` lets the
running iteration finish, so callbacks may still run in `"stopping"`. A clean-up after a
failed set-up calls `uv_close` on handles that were never initialised; libuv then follows
a null pointer, which the model shows as `"crashed"`. `m0` is the first row of
`southbound`; `unit_ids` is the list `egw_lb_slave_init` builds. Several rows of `northbound`
may have the key of the search: `slave_read_cb` then updates any one of them, as `bsearch`
may find any one. `Overrun` ends the behaviour when either component overran an array.

### Persistence

`mpc` and `tpc` are the program counters of `egw_app_run` (from line 158 on) and
`egw_persist_thread_fn`. `pipe` holds items; `write` is atomic for 32 bytes and blocks
on a full pipe; `read` returns at most `Batch` items and blocks while the pipe is empty
and its write end is open. `db` is the committed table, `pend` what the open transaction
sees. `wfd` says what the *number* stored in `pipe_fd[1]` refers to: the pipe, nothing,
or (once it was closed and given out again) the database file, first while the persistence
thread has it open and then, possibly, as a close that is pending: SQLite puts the close of
a file off while another connection of the process holds a lock on it, and the connection of
the point tables (`egw_app.c:130`, closed at `:173`) holds one in WAL mode
(`egw_persist.c:43`). `Crash` kills the process
at any moment and starts it again on `db`.

SQL calls may fail when `SqlMayFail` is set. The code looks at no result, so a failure
lets the thread continue; SQLite may or may not have rolled back the open transaction.
When `OpenMayFail` is set the database may not open; the thread then ends, and nobody
reads the pipe any more.

### Event bus

`subs` is the array `subs[0 .. count)`. `calls` is the stack of `egw_bus_publish` calls:
the code calls back synchronously from inside its loop, so a callback's own subscribe,
unsubscribe or publish happens between two iterations of every loop below it. A key
stands for the pair `(device_id, sig_id)`, which the code only compares.

| Action | Code |
|---|---|
| `Subscribe`, `Unsubscribe` | `egw_bus_subscribe` (append or `ERR_BUSY`), `egw_bus_unsubscribe` (the last entry replaces the first match) |
| `Publish`, `Skip`, `Call`, `CallbackReturn`, `Return` | entry, iterations and end of the loop of `egw_bus_publish` |

`due`, `got` and `cuts` in a frame are history: whom the publish owes a call, whom it
called, and how often an entry it had passed was removed.

### State machine

`current` and `temp` are the C fields. A frame of `stack` is one call of
`egw_fsm_dispatch` (or `egw_fsm_init`) with its locals `source` and `target` and the
handler it is inside of. Handlers are application code: their answers are free choices.

| Action | Code |
|---|---|
| `FsmInit` | `egw_fsm_init` |
| `Dispatch`, `DispatchBeforeInit` | entry of `egw_fsm_dispatch` and its early return |
| `EventHandled`, `EventTran` | the handler's answer; exit action of the source when it is a transition |
| `ExitDone`, `EntryDone` | `current = target` and the entry action; return |

### Point table and application

`Gateway` follows `egw_app_run` with one action per SQL statement, because each statement
is a transaction of its own and `Edit` (another process) may come between any two. `pc`
says which statement is next, `at` is the thread and node of the walk, `held` the
resources not given back. `Fails` lets a statement or an allocation go wrong; the code's
own handling follows, including the places where it does not look.

| Action | Code |
|---|---|
| `HeadOpen`, `HeadRoot`, `HeadVersion`, `HeadThreads` | `egw_ptable_head_load`, with `load_thread_nodes` |
| `Open` | `egw_ptable_open` with the version check |
| `Walk` | the loops over threads and nodes in `egw_app_run` |
| `Discover`, `NextTable` | `egw_ptable_discover` with `valid_cb`; the loop over its result |
| `Count`, `Select` | the two queries of `egw_ptable_register`, `read_column`, and the three callers |
| `Decide`, `StartPersist`, `RunLoopback`, `StopPersist`, `Release` | the rest of `egw_app_run` |
| `Edit` | another process (external) |

`RunLoopback` and the two persistence steps have the outcomes that `Loopback` and
`PersistThread` show in detail. In `PointTable`, `read_column` cuts SQLite's 64-bit
integers to the width of the field, `OrderBy` is a permutation that puts the full values in
order, and `rs_lookup` is `bsearch` with the comparison of master and slave.

### Configuration

`cfg` is the handle (tree and cursor), `lp` the progress of `egw_conf_load`, `held` what
it has acquired. `Rewrite` is another process that rewrites the file, also between
`fstat` and `read`. A JSON pointer is a sequence of keys; cJSON is external. Numbers are
held in tenths, so that the conversion to `int32_t` drops a fraction; out of range the
result is one of those the compilers deliver.

## 3. Runs

| Run | Checks | Shows |
|---|---|---|
| `server` | `TypeOK`, `UnreadReceived`, `SendingIffResponse`, `StrandedOnlyBySilence`, `RefusesOnlyOversized`, `ResponseAnswersRequest`, `PendingResponseUntouched`, `ImplementsQueue` | the ring behaves like the queue of `FrameQueue`; each response belongs to the last request and has the length the client expects |
| `exchange` | `ServerActsOnWhatWasSent`, `ClientReportsRegistersRead`, `UndamagedExchangeSucceeds`, `RoutinesAgree` | reads and single writes survive the line or are rejected; both checksum routines agree |
| `client` | `TypeOK`, `ListIsCircleOfLiveSlots`, `AwaitedSlotIsLive`, `SuccessFitsRequest`, `FurtherReportsRepeat` | list, awaited slot and reports stay consistent |
| `loopback` | `ReportedIsServed`, `CrashLosesNothing`, `CompletesWithoutFault`, `TimerEndsLoop` | what the master reports, the slave keeps and persistence receives agree in spite of losses; without a fault the loop completes without the timer, with one the timer ends it |
| `persist` | `TypeOK`, `DatabaseIsPrefixOfLog`, `NothingLostAtShutdown`, `StoredValuesWereWritten`, `SqliteOneThreadAtATime`, `SecondCloseSparesThread`, `Terminates` | every interleaving, a stop and a crash at every moment, an open and statements that fail |
| `bus` | `NobodyCalledTwice`, `MissedOnlyThroughGaps`, `PublishReturns` | callbacks that change the array under every loop that is walking it |
| `fsm` | `CurrentEnteredLast`, `EntryExitPaired` | handlers that dispatch from their event, exit and entry actions |
| `gateway` | `StaleTopologyRefused`, `OverrunOnlyWhenDisturbed`, `LookupFindsRow`, `NothingHeldAtReturn`, `AppEnds` | the whole life of the process over a database that others change |
| `config` | `NothingLeaked`, `AnswerFromEntered` | a file rewritten while it is loaded, and every sequence of enter and get |

Three further runs check a sentence of the documents or comments and find it violated by
what the code does; the findings in `PROJECT.json` quote the sentences.

| Run | Violated | What happens |
|---|---|---|
| `server_exccode` | `ExceptionsCarryTheirCode` | the exception code and the transaction id are swapped at every call of `send_exception`; on a serial line the code is 0 |
| `exchange_writes` | `UndamagedRequestAlwaysUnderstood` | an encoded 0x0F/0x10 request is one byte short |
| `persist_longrun` | `ValuesReachDatabase` | `read` blocks inside the transaction, so nothing is committed before shutdown |

Counts that are not checked make the code write past its arrays. `handle_read_request` has
room for 256 registers (`egw_modbus_server.c:131`), the PDU of a response for 253 bytes on
both sides (`egw_modbus_server.c:456`, `egw_modbus_client.c:212`), and neither the quantity
of a request nor `reg_count` of a row is compared with them: a read of 126 registers is the
first whose response does not fit. The models end at such a step, so what they say holds of
what happened before it. `UndamagedExchangeSucceeds` states which reads never get there, the
lawful ones of 125 registers or 2000 coils (for a callback that stores one word per eight
coils; `slave_read_cb` stores one per coil, so the loopback's limit is 256 coils).

Further limits of the code are visible in the *form* of properties that pass, which
say exactly how far the promise goes:

* `StrandedOnlyBySilence`: `try_process` takes one frame per call, so a complete request
  behind a broadcast or a foreign request waits until another byte arrives
  (`egw_modbus_server.h:72-73` says a ready frame is processed at once);
* `RefusesOnlyOversized`: bytes that announce a request longer than the ring fill it, and
  `reserve` then offers nothing although no response is pending
  (`egw_modbus_server.h:81` names the pending response as the only reason);
* `ImplementsQueue`: the abstract queue may drop everything it holds and the new bytes as
  well, because `feed` does when they do not fit, also while a response is pending;
  `egw_modbus_server.h:105-109` says that bytes received while sending are not lost;
* `ServerActsOnWhatWasSent` is about reads and single writes. Of 0x0F and 0x10 it is not
  true: 0x10 damaged to 0x06 is delimited after eight bytes, where the byte count and the
  first data byte then stand for the checksum, and the server acts on a single write nobody
  sent. The request `Ambiguous` of the run is such a frame;
* `ResponseAnswersRequest` asks the client's delimiter about the length of every response
  but those to 0x0F and 0x10, which repeat the data although the client expects 8 bytes
  (`docs/nanomodbus-flow.md:245`). It allows an exception from a unit that is not
  registered: an unparsable PDU is answered before its unit is compared with the bitmap
  (`egw_modbus_server.h:58` says such frames are dropped);
* `UndamagedExchangeSucceeds` is checked on the serial line only: both delimiters apply
  the serial rules on TCP too, where the second byte is part of the transaction id. It
  leaves out 0x0F and 0x10, the finding of `exchange_writes`; it allows an overrun for reads
  beyond 125 registers or 2000 coils, and an error for reads of more than 1024
  coils, whose bytes are more than the 128 registers `client_handle_frame` has room for: the
  response arrives and is reported as an error;
* `ClientReportsRegistersRead` promises a prefix of what was read, and all of it only up to
  125 registers and with an undamaged byte count. With 126 and 127 registers the response
  overruns the PDU array, from 128 on the byte count, a `uint8_t`, wraps.
  A damaged byte count makes the client look for the end of the frame earlier, and if the
  registers there happen to be a checksum it reports those before them: it never compares
  the number of registers with the request. The register set `<<258, 14689>>` of the run is
  such a case;
* `SuccessFitsRequest` compares unit and function code, as the client does: a late
  response to an earlier request with the same two is taken for the answer;
* `ReportedIsServed` is about counts that can be answered (`Answerable`: 1 to 125 registers,
  1 to 256 coils). A register without a row is served as zero. With the rows that
  `tools/init_db.py` writes, the master's request meets no row of the slave, and the result
  is 0 where `docs/testing.md:43` shows 0x000A000B;
* `CrashLosesNothing`: a set-up step that fails before the handles are initialised ends in
  a crash of the clean-up; the property says that no value had been stored, reported or
  handed to persistence by then;
* `CompletesWithoutFault` leaves out units that are not registered: only the first four
  device ids are. A `southbound` row that asks for a write is answered, but reported as an
  error, since `client_handle_frame` parses every response as that of a read; so the phase
  becomes `DONE` exactly for the read codes. A `reg_count` that is not `Answerable` may end in an
  overrun instead, for this property and for `TimerEndsLoop`; nothing in the code checks it.
  One limit is on the rows (`LoopbackAssumption`): a row that asks for 0x0F or 0x10, which
  would need data no row has, is not modelled;
* `SecondCloseSparesThread` says that `egw_persist_thread_destroy` takes no file from the
  persistence thread when it closes `pipe_fd[1]` again, and does not hit the pipe. It does
  not say that the second close hits nothing: when the database file had got the number and
  its close is pending, the second close ends that descriptor under SQLite, which closes the
  number once more in `egw_ptable_close`;
* `Terminates` has one exception: the database cannot be opened, the thread is gone, the
  pipe is full, and `write` blocks the event-loop thread (`docs/design.md:81` forbids
  blocking calls there);
* `MissedOnlyThroughGaps`: `egw_bus.h:6` promises that every matching subscriber is called.
  Each unsubscription of an entry the loop has passed may hide one, the last entry, which
  is moved behind the loop;
* `EntryExitPaired` excludes a transition taken after a dispatch nested in the same
  handler had moved the machine: the engine then leaves a state without its exit action.
  A transition of a state to itself runs neither action, although `egw_fsm.h:73-74`
  describes exit followed by entry;
* `StaleTopologyRefused` excludes failed reads: a statement that fails in the middle
  shortens the tree, and a version that cannot be read is 0, both unnoticed. That the root
  row is missing is not noticed either (`CONTEXT.md:15` calls it a check);
* `OverrunOnlyWhenDisturbed`: when the table grows between the two queries, or the count
  fails, the copy runs past the allocated rows;
* `LookupFindsRow` excludes ids wider than the fields: SQL orders the full values, the
  search compares the cut ones;
* `NothingHeldAtReturn` lists what is left behind: a connection whose open failed or that
  was closed with an open statement, and the first row set when a table is loaded twice;
* `AppEnds` counts a crash as an end: an empty `southbound` table makes the loopback follow
  a null row;
* `PublishReturns` holds for publishes nested up to the bound of the module. A callback that
  publishes the event it is called for recurses in the code without end; the bound on the
  nesting cuts that off, and the property says nothing of it;
* `AnswerFromEntered`: the default of a string is a copy, and when that cannot be allocated
  the caller gets NULL with `ERR_NOTFOUND`. A NULL key is answered `ERR_NOTFOUND`, where `config.h` says
  `ERR_INVALID_ARG`;
* `FurtherReportsRepeat`: the slot stays current after its response, so each further byte
  counts and reports the same response again.

### Bounds

* `server`: `BufCap = MaxFrame = 14`. A request is 8 or 11 bytes, so nearly every second
  request crosses the end of the ring, a whole and a partial request fit together, two
  whole ones do not (overflow), and 15 bytes is the first oversized request
  (`Oversized` announces exactly that). `RespCap = 10` holds every response but the
  11-byte one to `0x10`, so an encoding that does not fit also happens. `MaxPdu = 8` is the
  PDU of the longest request; the response to `ReadFour` is longer, so an overrun happens. `Pieces` cuts
  requests at different places. The view leaves out ring bytes outside `[rd, wr)`: no
  action reads them. The proofs cover every other size.
* `exchange`: a request of every function code, with quantities on both sides of a byte
  boundary of coils, every value of a changed byte in the first ten positions; reads of 125
  registers and 2000 coils, the longest lawful ones; of 1025 coils, the first the client has
  no room for; of 126 and 127 registers, which overrun the PDU array, of 128 and 130, where
  the byte count has wrapped to 0 and 4, and of 257, which overruns the registers; registers
  whose second is the checksum of what is before it, and a multiple write that contains the
  frame of a single one. On so many frames the checksum routines meet every entry of
  the table.
* `client`: three slots (first, middle, last of the list), two units, `MaxPdu = 5` so that
  one response (`RespLong`) overruns `pdu` and the others do not, `MaxTx = 2` so that
  a response of the first request can meet the second, `MaxRx = 3` so that a response
  can be reported again. Slots are symmetric: nothing distinguishes two addresses.
* `loopback`: the sizes of the code (`MaxFrame = 260`, `MaxPdu = 253`); ten rows: registers
  that exist, with a key that occurs twice, one that does not, coils over a byte boundary, a
  fifth device (one more than is registered), a write, a function code that cannot be
  encoded, and the counts 0, 126 and 128 of registers and 257 of coils; up to two lost bytes at
  any positions; every cut of every read and write.
* `persist`: three items over two north rows make order, row and value visible; four writes
  against batches of two give full and partial batches; a pipe of three fills up, so the
  main thread really blocks; one crash at every point, after which one write fewer is
  made.
* `bus`: two keys and two callbacks, a capacity of three so that the array fills and a
  removal in the middle moves an entry that is neither the first nor the removed one;
  publishes nest two deep, with two operations in an outer callback and one in an inner
  one, so that one walk can be disturbed both directly and from a nested walk.
* `fsm`: three states (source, target, and a third to be moved to meanwhile), dispatches
  nested three deep.
* `gateway`: seven databases: a good one; a later version with a second protocol node that
  loads `southbound` again; other threads and an empty `southbound` under the first
  version; missing tables and columns with an id of more than 16 bits; two malformed trees;
  no head. Row counts differ, so that a table grows and shrinks under the load. Two
  changes, so that a table can change and change back; one failure anywhere.
* `config`: documents of different sizes, one of them incomplete, nested objects, arrays
  and numbers with a fraction and out of range (`INT_MAX = 15` in place of 2^31 - 1); two
  rewrites, so that the file can change between `fstat` and `read` and again.

### Fairness

`FairSpec` assumes that the operating system schedules both threads and that the event
loop ends; the latter is what the two-second timer armed in `egw_app.c` does
(`egw_lb_on_timeout`). The persistence thread's steps are weakly fair as a whole: a
blocked `read` is a disabled action, so nothing is assumed to unblock it. `LongRunSpec`
leaves out the end of the event loop; it describes a gateway that stays in operation and
is used for `ValuesReachDatabase` only. Server and client runs state safety only.

`Loopback` assumes that libuv calls the callback of a handle that stays readable: weak
fairness of the code's steps, written with the explicit predicate `Ready` in place of
`ENABLED` because TLC evaluates the latter very slowly through two component modules.
Nothing is assumed of the timer in the specification: `CompletesWithoutFault` must hold
without it, and `TimerEndsLoop` has the timer's fairness as its hypothesis.

`EventBus` assumes that the loop of `egw_bus_publish` goes on and that each callback
returns, which `egw_bus.h` demands of callbacks ("must not block"); nothing is assumed of
the operations callbacks make. `Gateway` assumes that the process is not stopped from
outside: its steps as a whole are weakly fair, other processes' changes are not.

Deadlock is checked in every passing run but two: `exchange` ends with the exchange, and in
`persist` the main thread can block for ever when the database cannot be opened, the
exception `Terminates` names.

## 4. Proofs

Every theorem holds for all values of the constants that satisfy the named ASSUMEs of the
module it is about; TLC evaluates these on every run. Where a run checks the same property,
the run shows it on a small instance and the theorem for every other. The bounds that make
the instances finite (how often the file is rewritten, how many items are written, how deep
publishes nest) are constants too, so the theorems cover any number.

| Module | Theorem | Statement |
|---|---|---|
| `CodecProofs` | `RtuRoundTrip` | decoding a packed serial frame gives back unit and PDU |
| `ExchangeProofs` | `CrcDetectsOneByte` | byte strings that differ in one byte have different checksums, whatever their length |
| | `RoutinesAgreeAlways` | both routines compute the same checksum of every byte string |
| | `RoutinesNeverDisagree` | `Spec => []RoutinesAgree` |
| | `ExchangeSucceeds` | `Transport = RTU => (Spec => []UndamagedExchangeSucceeds)` |
| | `UndamagedExchangeAgrees` | on RTU, `ServerActsOnWhatWasSent` and `ClientReportsRegistersRead` as long as no byte is damaged, for every checksum; both are about reads and single writes, and about what happens before an overrun |
| | `ServerNeverDeceived` | on RTU with the real checksum, `ServerActsOnWhatWasSent`, damaged or not |
| | `ClientNeverDeceived` | on RTU with the real checksum, `ClientReportsRegistersRead` for every request but 0x0F and 0x10, damaged or not |
| `LoopbackProofs` | `NothingLost` | `Spec => []CrashLosesNothing` |
| | `ServedIsReported` | `Spec => [](Clean => ReportedIsServed)` |
| `ServerProofs` | `TypeCorrect` | `Spec => []TypeOK` |
| | `OnlyReceivedBytes` | `Spec => []UnreadReceived` |
| | `FlagMatchesResponse` | `Spec => []SendingIffResponse` |
| | `StrandedBehindSilence` | `Spec => []StrandedOnlyBySilence` |
| | `RefusesOnlyOversizedRequests` | `Spec => []RefusesOnlyOversized` |
| | `AnswersLastRequest` | `Transport = RTU => (Spec => []ResponseAnswersRequest)` |
| | `PendingResponseKept` | `Spec => PendingResponseUntouched` |
| | `RingImplementsQueue` | `Transport = RTU => (Spec => ImplementsQueue)` |
| `ClientProofs` | `TypeCorrect` | `Spec => []TypeOK` |
| | `ListStaysCircle` | `Spec => []ListIsCircleOfLiveSlots` |
| | `AwaitedStaysLive` | `Spec => []AwaitedSlotIsLive` |
| | `SuccessFits` | `Transport = RTU => (Spec => []SuccessFitsRequest)` |
| | `ReportsRepeat` | `Spec => FurtherReportsRepeat` |
| `PersistProofs` | `TypeCorrect` | `Spec => []TypeOK` |
| | `CommittedPrefix` | `Spec => []DatabaseIsPrefixOfLog` |
| | `OrderlyStopKeepsAll` | `Spec => []NothingLostAtShutdown` |
| | `OnlyWrittenValues` | `Spec => []StoredValuesWereWritten` |
| | `OneThreadInSqlite` | `Spec => []SqliteOneThreadAtATime` |
| | `SecondCloseSparesTheThread` | `Spec => []SecondCloseSparesThread` |
| `CoreProofs` | `BusTypeCorrect` | `BusSpec => []BusTypeOK` |
| | `CalledAtMostOnce` | `BusSpec => []NobodyCalledTwice` |
| | `MissesBounded` | `BusSpec => MissedOnlyThroughGaps` |
| | `FsmTypeCorrect` | `FsmSpec => []FsmTypeOK` |
| | `RestsWhereEntered` | `FsmSpec => []CurrentEnteredLast` |
| | `ActionsPair` | `FsmSpec => []EntryExitPaired` |
| | `StaysInitialised` | no step makes `current` NULL again |
| | `ConfTypeCorrect` | `ConfSpec => []ConfTypeOK` |
| | `LoadLeaksNothing` | `ConfSpec => []NothingLeaked` |
| | `AnswersFromCursor` | `ConfSpec => []AnswerFromEntered` |
| `GatewayProofs` | `TypeCorrect` | `Spec => []TypeOK` |
| | `StaleHeadRefused` | `Spec => []StaleTopologyRefused` |
| | `CopyStaysInside` | `Spec => []OverrunOnlyWhenDisturbed` |
| | `LookupAnswersAsTable` | `Spec => []LookupFindsRow` |
| | `RunLeavesNothing` | `Spec => []NothingHeldAtReturn` |

Each module defines its inductive invariant `IInv` (`CoreProofs` one for each component:
`BusIInv`, `FsmIInv`, `ConfIInv`) and proves that the initial states satisfy it, with one
lemma or one step per action that a step keeps it, and so that it always holds.

### Server and codec

`IInv == TypeOK /\ UnreadReceived /\ SendingIffResponse /\ Idle`. Each part is needed:
`UnreadReceived` because a frame is only known to be a byte string if no unwritten memory
is between `rd` and `wr`; `SendingIffResponse` because dispatch must start with an empty
response; `Idle`, which records what the outcome of the last `try_process` says about the
bytes still in the ring while nothing is being sent, because
`StrandedOnlyBySilence` and `RefusesOnlyOversized` are claims about those bytes and are
not inductive alone.

The arithmetic of the ring is done once, in lemmas: storing appends to the unread bytes
(`StoreAppends`), taking a frame removes a prefix of them (`TakeDrops`), and the window
the delimiter sees is the front of the queue (`WindowIsFront`). `TryProcess` states what
one run of `try_process` does; `Step` puts the actions together and shows at once that a
step keeps `IInv` and is a step (or a stutter) of `FrameQueue` under the mapping
`q <- Unread, reply <- resp`.

`ResponseAnswersRequest` is inductive together with `IInv`. Its proof goes over the five
outcomes of the dispatch (`DispatchFits`): an exception, a read response and a repeated
single write each have the length that `resp_frame_len`, written independently on the
client's side, infers from their first bytes (`RespondFits`), and their checksum is valid
(`AduShape`, `WholeResponse`). A repeated single write fits because the server's own
delimiter took exactly eight bytes.

Refinement and `ResponseAnswersRequest` are restricted to the serial line because on TCP
the delimiter looks at other bytes than the decoder, and a reply need not have the
request's first bytes.

### Checksum

A state of a checksum routine is a word, four nibbles of four bits. `NibbleXorBits` says that
exclusive or adds bit by bit; that it cancels, is associative and commutes with a shift follow
from that for nibbles and then, nibble by nibble, for words (`WordAssoc`, `HalfXor`).

*One changed byte.* `TableStepInjective`: a step of the table routine forgets nothing. The high
byte of its result is that of the entry used, no two entries have the same high byte
(`TableAssumption`), so the entry, and from it the byte that selected it and the rest of the
state, are found back. Two runs over strings that differ in one byte are in the same state
before it, in different ones after it, and stay apart (`CrcDetectsOneByte`).

*Both routines.* When the low bits of the state are clear, the shifts of the bit routine only
halve it (`BitStepXor`), so eight shifts move the high byte down and leave of the low byte what
eight shifts leave of it alone, which is its table entry (`RemainderAssumption`): that is the
step of the table routine (`StepsAgree`). `RoutinesAgreeAlways` follows along the string.

Both assumptions are closed formulas about the 256 numbers in `egw_crc.c`, no assumption on a
constant; TLC evaluates them on every run that has the checksum. The recursion of the
routines is a function of the index, whose existence `Iterates` and `CrcStates` prove.

### Exchange

`IInv` says of every phase what is on the line and what has been understood, as long as the
exchange is `Trusted`: no byte was damaged, or the checksum detects one changed byte
(`DetectsOneByte`) and the request is none of 0x0F and 0x10. `OnTheLine(f)`: the line holds
the frame `f` or differs from it in exactly one byte. `RequestUnderway`: that frame is the
encoded request and nothing was understood yet. `RequestArrived`: what the server understood
is what was meant (`SeenAsMeant`). `ResponseUnderway`: a request that was understood was not
damaged, and then the line holds the response to it. `ResponseArrived`: the two properties of
the response, once the client has parsed it.

The step that matters is `ServerParse`. The server infers the length from a byte that may be the
damaged one; `ShortFrameRefused` shows that whatever length an eight-byte frame with a wrong
checksum announces, no request is made of it. On the client's side a damaged byte count can
move the end of the frame, and only there a frame with a correct checksum may be found
(`ResponseReported`), which is why `ClientReportsRegistersRead` promises a prefix.

The theorems leave out 0x0F and 0x10. Their encoded frames are one byte short, so that the
delimiter waits for a byte that never comes; and when a damaged function code or byte count
makes it expect fewer, a prefix of the frame may have a correct checksum, as section 3 shows.

`ExchangeSucceeds` shows besides that a lawful read overruns nothing: its PDU has at most 252
bytes, which is all that is assumed of `MaxPdu`. That the answer to an unlawful read may end
in `"overrun"` is part of the module and so of every theorem about it.

### Loopback

`IInv == Typed /\ NotStarted /\ Started`. `NotStarted`: before the handles are initialised,
and for ever when that fails, the ring, the buffers, the line, the values and the report are
as they were; that is `CrashLosesNothing`. `Started`: afterwards, while the run is `Clean`,
the exchange is in one of four states, which together account for every byte of both frames:

* `Asking`: a part of the request is in the slave's ring, the rest of it on the line;
* `Answering`: the server has made the response, half of it is on the line and the other half
  pending; the value is kept and handed over;
* `Answered`: a part of the response is with the master, the rest of it on the line, and once
  nothing is left the report is what the client makes of the whole frame;
* `Unanswered`: the slave stays silent, nothing is on the line and nothing ever will be.

The proof composes the components' facts: a part of a frame is incomplete for the delimiter
of either side and the whole of it is a frame (`SentDelimited`, `ReplyDelimited`), the server
makes of the request the call `CallFor(m)` and the response `Reply(m)` (`SentHandled`), and the
client makes of that the registers served, or an error for a write (`ReplyReported`). Which
pieces the reads return matters only to how much has arrived (`TakeMore`, `RingFront`).

`ServedIsReported` covers every row (for 0x0F and 0x10 see above), keys that repeat, every
checksum, order of callbacks, division into pieces and buffer of more than eight bytes, for
the counts that are `Answerable`. That the response then fits the arrays of both sides is
`ReplyFits`; of other counts the property says nothing and the proof needs nothing. `Clean`
means that no byte was lost and that writes are
complete, in which case the timer may fire at any moment, or, where writes may be cut short,
that nothing went wrong. What the two ends make of a frame with bytes missing depends on the
checksum of what is left, of which nothing is proved beyond one changed byte; that part of
`ReportedIsServed` is checked by TLC only.

### Client

`IInv` adds to the two invariants of the list that nothing is reported or awaited before a
request was sent, that a report names the slot still awaited, and that as long as nothing
was dropped the reported frame is still in the receive buffer (`ReportStillCollected`):
that is why a further byte can only lead to the same report. The list is proved in terms of
`Circle(order, next, prev)`: `CircleCut` and its counterpart for `register` show that the
pointer assignments of the code turn the circle of one sequence into that of the sequence
without, or with, the slot. The walk of `egw_modbus_client_destroy` meets every slot, which
needs induction along the list.

### Persistence

`IInv == TypeOK /\ Life /\ Flow /\ LastExists /\ Tables /\ OldOrWritten(db) /\
OldOrWritten(pend)`. `Life` ties the two program counters to `running` and to what `wfd`
refers to, pending close included; it alone gives `SqliteOneThreadAtATime` and `SecondCloseSparesThread`. `Flow` says
that what was taken, the batch and the pipe are the log, cut in three. `Tables` gives, for
every point of the thread, the table it sees and the one committed, as the dump followed by
a number of items; in the states after the last read that number is all of them, which is
`NothingLostAtShutdown`. `LastExists` (a row written at all was written a last time) is what
the definition of the table after `n` items needs, and is itself proved along the steps.

### Bus

`IInv` states for every walk under way (`WalkOK`): what it has called and still owes is in
the array, nothing ahead of the loop was called, and it misses no more than entries were cut
behind it. The last is a bound on a cardinality, so every step that moves an entry is an
argument about finite sets. That the data pointers are distinct (`Distinct`) is needed to
know which entry was moved.

### State machine

`IInv` adds to `current = last` that a dispatch under which no other one has moved the
machine still has the current state as its source (`SourceIsCurrent`), that exits are only
taken towards a state, and which states are active between exit and entry
(`ActiveIsCurrent`), which is what `EntryExitPaired` says in the states of rest.

### Application and point table

`IInv` has one part per hazard: `HeldAt`, what is allocated by the place in `egw_app_run`;
`Versions`, that a head is never newer than the database and has its tree if it is as new;
`Place` and `Loaded`, that a row set in a variable was loaded at an earlier place of the
walk, so that loading one again needs two protocol nodes; `Counted`, that an undisturbed
count is the number of rows; and `Sets`, that a row set that was loaded undisturbed answers
every key as the table would. `Sets` quantifies over all keys of 32 bits and is too large to
evaluate; TLC checks its instance `LookupFindsRow`, and all other parts of `IInv` as
invariants.

Behind `Sets` is the correctness of the lookup: `CanBeOrdered` shows that every table has
an ordered permutation, so that `OrderBy` is defined; `Packed` and `PackedOrder` that the
packed 32-bit comparison of `slave_lkp_cmp` is the order of the two columns as long as both
fit 16 bits; `LookupCorrect` that `bsearch` on rows in that order finds a row with the key
exactly if there is one.

### Configuration

`IInv` says what the load holds before each of its calls (`HeldAt`), that it runs only
without a handle (`Loading`), and that the cursor is the node entered last
(`CursorEntered`).

### What the proofs rest on

No proof is left out and nothing is assumed but the named ASSUMEs. These say of the
constants what the code guarantees: capacities are natural numbers (the server's ring and
copy have more than the eight bytes of a request), chunks and answers consist of bytes and
words, a request given to the encoder has the data it announces, the bus's data pointers are as
many as its array can hold, a document has a root, and the names a manifest lists are distinct
because they are its primary key (`tools/init_db.py:20-21`). One is a limit of what is claimed
rather than a guarantee: a row of `southbound` asks for anything but 0x0F and 0x10
(`LoopbackAssumption`). Nothing is assumed of the keys of `northbound` or of the counts.

Induction over the natural numbers is done with the principle of the least number: a
property that fails somewhere fails somewhere first. That suffices for the walks, the
binary search and the ordering above, which are recursive functions of a number.

### Only model-checked

* Liveness: `Terminates`, `CompletesWithoutFault`, `TimerEndsLoop`, `PublishReturns`,
  `AppEnds`. Fairness and `ENABLED` are out of the prover's reach.
* `ReportedIsServed` once a byte was lost or a write was cut short.
* The TCP side of `ResponseAnswersRequest`, `ImplementsQueue`, `SuccessFitsRequest` and the
  properties of `Exchange`: neither proved nor claimed, for the reasons given above. The same
  goes for damaged 0x0F and 0x10 frames, of which `ServerActsOnWhatWasSent` is not true.

## 5. What is not modelled, and why

* `egw_modbus_parse_write_pdu`: called by nobody.
* Logging, hex dumps, error texts, allocation failure at creation (the caller gives up).
* A callback that calls back into the server or client: none in the repository does.
* Signals and `EINTR` in `poll`, `read`, `write`; `poll` errors are modelled.
* Opening and configuring ports and TCP sockets (used by nobody): system calls without
  state. What the serial line delivers and accepts is in `Loopback`.
* The JSON parser and SQLite: vendored. They are modelled by what their callers see.
* `validate_order_by`: its only arguments are constants of the repository that pass.
* The table of error texts.
* Poll callbacks with an error status and failing reads: they return at once and change
  nothing.
* What the program does after it wrote past an array. In `loopback` TLC checks small counts
  and counts that overrun; that 125 registers and 256 coils come through the loop is shown by
  the theorem, and by the run `exchange` for the codec alone.
* `Loopback`, `PersistThread` and `Gateway` are not joined into one specification: each
  appears in the others as one step with the outcomes its own module shows.

## 6. State of the work

Every component with state of its own is modelled and checked. Every safety property a
passing run checks is stated by a theorem, with the restrictions listed under "Only
model-checked". What could be added:

* a statement about the checksum of a frame with a byte missing, which `ReportedIsServed`
  would need after a loss;
* the TCP transport of `Exchange`, should the delimiters learn its framing.
