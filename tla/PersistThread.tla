---------------------------- MODULE PersistThread ----------------------------
(***************************************************************************)
(* Persistence of run-time values: the main thread writes fixed-size items *)
(* into a pipe (egw_persist_thread_enqueue), the persistence thread reads  *)
(* them and stores them in SQLite inside a transaction                     *)
(* (src/src/app/egw_persist_thread.c, src/src/ptable/egw_persist.c), and   *)
(* egw_app_run starts, stops, joins and destroys it                        *)
(* (src/src/app/egw_app.c:117-178).  The process may die at any point and  *)
(* be started again.                                                       *)
(*                                                                         *)
(* One action per system call or SQLite call of either thread.  The pipe   *)
(* and SQLite are external: a 32-byte write is atomic and blocks when the  *)
(* pipe is full, a read blocks while the pipe is empty and its write end   *)
(* is open.                                                                *)
(***************************************************************************)
EXTENDS Integers, Sequences

CONSTANTS
    South, North, \* the rows (device_id, reg_addr) of the two tables
    Items,        \* the items (row, value) the main thread may write
    PipeCap,      \* items the pipe holds (64 KiB / 32 bytes)
    Batch,        \* items one read returns at most (buf[64])
    OpenMayFail,  \* egw_persist_open may return NULL
    SqlMayFail,   \* a SQL statement may fail; the code ignores it
    MaxItems,     \* bound on the items of one life, one less after a crash
    MaxCrashes    \* bound on the crashes

Rows == South \cup North

ASSUME PersistAssumption ==
    /\ South \cap North = {}
    /\ \A i \in Items : i.row \in North /\ i.value \in Nat
    /\ PipeCap \in Nat \ {0} /\ Batch \in Nat \ {0}
    /\ MaxItems \in Nat /\ MaxCrashes \in Nat
    /\ OpenMayFail \in BOOLEAN /\ SqlMayFail \in BOOLEAN

Values == {i.value : i \in Items}

Absent == -1  \* no line of runtime_value for this row

VARIABLES
    mpc,      \* where the main thread is in egw_app_run
    item,     \* the item egw_persist_thread_enqueue is writing
    running,  \* pt->running
    pipe,     \* the items in the pipe
    wfd,      \* what the descriptor number pipe_fd[1] stands for: the pipe, nothing, the
              \* thread's database file, or that file closed but for a close put off
    tpc,      \* where the persistence thread is
    batch,    \* the items read and not yet stored
    txn,      \* a transaction is open
    pend,     \* the table as the open transaction sees it
    db,       \* the committed table
    crashes,
    log,      \* history: the items of this life, in the order written
    base,     \* history: the committed table when this life began
    failed,   \* history: a SQLite call failed in this life
    foreign   \* history: destroy closed a file somebody still has open

mvars == <<mpc, item, running, log, foreign>>
tvars == <<tpc, batch, txn, pend, db, failed>>
vars == <<mpc, item, running, pipe, wfd, tpc, batch, txn, pend, db,
          crashes, log, base, failed, foreign>>

NoItem == [row |-> "none", value |-> 0]

Start(table) ==
    /\ mpc = "load" /\ item = NoItem
    /\ running = FALSE /\ pipe = <<>> /\ wfd = "closed"
    /\ tpc = "none" /\ batch = <<>> /\ txn = FALSE
    /\ db = table /\ pend = table /\ base = table
    /\ log = <<>> /\ failed = FALSE /\ foreign = FALSE

Init == Start([r \in Rows |-> Absent]) /\ crashes = 0

-------------------------------------------------------------------------------
(* The main thread: egw_app_run. *)

(* The point tables are loaded (SQLite on this thread), then the pipe and the
   persistence thread are created. *)
Create ==
    /\ mpc = "load"
    /\ running' = TRUE /\ wfd' = "pipe"
    /\ tpc' = "open"
    /\ mpc' = "loop"
    /\ UNCHANGED <<item, pipe, batch, txn, pend, db, crashes, log, base, failed, foreign>>

(* enqueue builds the item and enters write. *)
Enqueue(i) ==
    /\ mpc = "loop" /\ running /\ Len(log) + crashes < MaxItems
    /\ item' = i
    /\ mpc' = "write"
    /\ UNCHANGED <<running, pipe, wfd, tvars, crashes, log, base, foreign>>

(* write returns once the pipe has room. *)
Write ==
    /\ mpc = "write" /\ Len(pipe) < PipeCap
    /\ pipe' = Append(pipe, item)
    /\ log' = Append(log, item)
    /\ item' = NoItem
    /\ mpc' = "loop"
    /\ UNCHANGED <<running, wfd, tvars, crashes, base, foreign>>

(* The loopback has ended: request_stop clears running, then closes the pipe. *)
RequestStop ==
    /\ mpc = "loop"
    /\ running' = FALSE
    /\ mpc' = "close"
    /\ UNCHANGED <<item, pipe, wfd, tvars, crashes, log, base, foreign>>

(* Mutant of CloseWriteEnd: request_stop leaves the pipe open. *)
StopWithoutClose ==
    /\ mpc = "close"
    /\ mpc' = "join"
    /\ UNCHANGED <<item, running, pipe, wfd, tvars, crashes, log, base, foreign>>

(* request_stop closes the write end. *)
CloseWriteEnd ==
    /\ mpc = "close"
    /\ wfd' = "closed"
    /\ mpc' = "join"
    /\ UNCHANGED <<item, running, pipe, tvars, crashes, log, base, foreign>>

(* Mutant of Join: nobody waits for the thread. *)
JoinMissing ==
    /\ mpc = "join"
    /\ mpc' = "destroy"
    /\ UNCHANGED <<item, running, pipe, wfd, tvars, crashes, log, base, foreign>>

(* pthread_join. *)
Join ==
    /\ mpc = "join" /\ tpc = "exited"
    /\ mpc' = "destroy"
    /\ UNCHANGED <<item, running, pipe, wfd, tvars, crashes, log, base, foreign>>

(* destroy closes both descriptors, pipe_fd[1] for the second time. *)
Destroy ==
    /\ mpc = "destroy"
    /\ foreign' = (wfd \in {"pipe", "database"})
    /\ wfd' = "closed" /\ pipe' = <<>>
    /\ mpc' = "unload"
    /\ UNCHANGED <<item, running, tvars, crashes, log, base>>

(* The point tables are closed (SQLite on this thread). *)
Unload ==
    /\ mpc = "unload"
    /\ mpc' = "done"
    /\ UNCHANGED <<item, running, pipe, wfd, tvars, crashes, log, base, foreign>>

-------------------------------------------------------------------------------
(* The persistence thread: egw_persist_thread_fn. *)

(* Descriptors are given out lowest first: once pipe_fd[1] is closed the database
   file may get its number. *)
Open ==
    /\ tpc = "open"
    /\ wfd' \in IF wfd = "closed" THEN {"closed", "database"} ELSE {wfd}
    /\ tpc' = "begin"
    /\ UNCHANGED <<mvars, pipe, batch, txn, pend, db, crashes, base, failed>>

(* What a close of the database file leaves of its number.  The connection of the
   point tables is open until the end (egw_app.c:130, :173); while it holds a lock on
   the file, as in WAL mode it does, SQLite puts the close of any other descriptor of
   that file off, and the number stays taken. *)
Closed == {"closed", "pending"}

(* sqlite3_open fails, or the table cannot be created and the file is closed again. *)
OpenFails ==
    /\ tpc = "open" /\ OpenMayFail
    /\ wfd' \in IF wfd = "closed" THEN Closed ELSE {wfd}
    /\ tpc' = "exited" /\ failed' = TRUE
    /\ UNCHANGED <<mvars, pipe, batch, txn, pend, db, crashes, base>>

(* A statement stores the table t: in the open transaction, else at once. *)
Stores(t) ==
    /\ pend' = t
    /\ db' = IF txn THEN db ELSE t
    /\ UNCHANGED <<txn, failed>>

(* A SQLite call fails, which nobody looks at; SQLite may roll the open transaction
   back with it. *)
Fails ==
    /\ SqlMayFail /\ failed' = TRUE
    /\ \/ UNCHANGED <<txn, pend>>
       \/ txn' = FALSE /\ pend' = db
    /\ UNCHANGED db

(* egw_persist_begin. *)
Begin(then) ==
    /\ \/ txn' = TRUE /\ UNCHANGED <<pend, db, failed>>
       \/ Fails
    /\ tpc' = then
    /\ UNCHANGED <<mvars, pipe, wfd, batch, crashes, base>>

(* egw_persist_full_dump of one table: value 0 for each of its rows. *)
FullDump(rows, then) ==
    /\ \/ Stores([r \in Rows |-> IF r \in rows THEN 0 ELSE pend[r]])
       \/ Fails
    /\ tpc' = then
    /\ UNCHANGED <<mvars, pipe, wfd, batch, crashes, base>>

Dump ==
    \/ tpc = "begin" /\ Begin("dump_south")
    \/ tpc = "dump_south" /\ FullDump(South, "dump_north")
    \/ tpc = "dump_north" /\ FullDump(North, "commit")

(* egw_persist_commit, of the dump, of a round of the loop, or the last one. *)
Commit ==
    /\ tpc \in {"commit", "last_commit"}
    /\ \/ db' = pend /\ txn' = FALSE /\ UNCHANGED <<pend, failed>>
       \/ Fails
    /\ tpc' = IF tpc = "commit" THEN "check" ELSE "close"
    /\ UNCHANGED <<mvars, pipe, wfd, batch, crashes, base>>

(* Mutant of CheckRunning: the loop is left without the last flush. *)
CheckRunningNoFlush ==
    /\ tpc = "check"
    /\ tpc' = IF running THEN "poll" ELSE "close"
    /\ UNCHANGED <<mvars, pipe, wfd, batch, txn, pend, db, crashes, base, failed>>

(* while (pt->running): poll. *)
CheckRunning ==
    \/ /\ tpc = "check" /\ running
       /\ tpc' = "poll"
       /\ UNCHANGED <<mvars, pipe, wfd, batch, txn, pend, db, crashes, base, failed>>
    \/ tpc = "check" /\ ~running /\ Begin("last_read")

(* poll returns: readable, timed out or hung up, or an error that ends the loop.
   All but the error begin a transaction. *)
Poll ==
    /\ tpc = "poll"
    /\ \/ pipe /= <<>> /\ Begin("read")
       \/ pipe = <<>> /\ Begin("commit")
       \/ Begin("last_read")

(* read of at most Batch items; it blocks while the pipe is empty and its write
   end is open, and at end of file the loop around it ends. *)
EndOfFile == pipe = <<>> /\ wfd /= "pipe"

(* Mutant of Read: more is read than the buffer holds. *)
ReadEverything ==
    /\ tpc \in {"read", "last_read"}
    /\ pipe /= <<>> \/ EndOfFile
    /\ batch' = pipe /\ pipe' = <<>>
    /\ tpc' = CASE tpc = "read" /\ pipe /= <<>> -> "put"
                [] tpc = "read" /\ pipe = <<>>  -> "commit"
                [] tpc /= "read" /\ pipe /= <<>> -> "last_put"
                [] OTHER                        -> "last_commit"
    /\ UNCHANGED <<mvars, wfd, txn, pend, db, crashes, base, failed>>

Read ==
    /\ tpc \in {"read", "last_read"}
    /\ \/ /\ pipe /= <<>>
          /\ LET n == IF Len(pipe) < Batch THEN Len(pipe) ELSE Batch
             IN  /\ batch' = SubSeq(pipe, 1, n)
                 /\ pipe' = SubSeq(pipe, n + 1, Len(pipe))
          /\ tpc' = IF tpc = "read" THEN "put" ELSE "last_put"
       \/ /\ EndOfFile
          /\ tpc' = IF tpc = "read" THEN "commit" ELSE "last_commit"
          /\ UNCHANGED <<pipe, batch>>
    /\ UNCHANGED <<mvars, wfd, txn, pend, db, crashes, base, failed>>

(* Mutant of Put: the batch is stored from its end. *)
PutFromEnd ==
    /\ tpc \in {"put", "last_put"}
    /\ LET n == Len(batch)
       IN  /\ Stores([pend EXCEPT ![batch[n].row] = batch[n].value])
           /\ batch' = SubSeq(batch, 1, n - 1)
    /\ tpc' = IF batch' /= <<>> THEN tpc
              ELSE IF tpc = "put" THEN "read" ELSE "last_read"
    /\ UNCHANGED <<mvars, pipe, wfd, crashes, base>>

(* Mutant of Put: the register address is not bound, every row gets the value. *)
PutEveryRow ==
    /\ tpc \in {"put", "last_put"}
    /\ Stores([r \in Rows |-> IF r \in North THEN batch[1].value ELSE pend[r]])
    /\ batch' = Tail(batch)
    /\ tpc' = IF batch' /= <<>> THEN tpc
              ELSE IF tpc = "put" THEN "read" ELSE "last_read"
    /\ UNCHANGED <<mvars, pipe, wfd, crashes, base>>

(* One item of the batch is stored, or the statement fails and is skipped. *)
Put ==
    /\ tpc \in {"put", "last_put"}
    /\ \/ Stores([pend EXCEPT ![batch[1].row] = batch[1].value])
       \/ Fails
    /\ batch' = Tail(batch)
    /\ tpc' = IF batch' /= <<>> THEN tpc
              ELSE IF tpc = "put" THEN "read" ELSE "last_read"
    /\ UNCHANGED <<mvars, pipe, wfd, crashes, base>>

(* Mutant of Close: unfinished statements keep the database file open. *)
CloseLeaks ==
    /\ tpc = "close"
    /\ tpc' = "exited" /\ txn' = FALSE /\ pend' = db
    /\ UNCHANGED <<mvars, pipe, wfd, batch, db, crashes, base, failed>>

(* egw_persist_close rolls an open transaction back. *)
Close ==
    /\ tpc = "close"
    /\ tpc' = "exited" /\ txn' = FALSE /\ pend' = db
    /\ wfd' \in IF wfd = "database" THEN Closed ELSE {wfd}
    /\ UNCHANGED <<mvars, pipe, batch, db, crashes, base, failed>>

-------------------------------------------------------------------------------
(* The process dies and is started again on the committed database. *)
Crash ==
    /\ crashes < MaxCrashes /\ mpc /= "done"
    /\ crashes' = crashes + 1
    /\ mpc' = "load" /\ item' = NoItem
    /\ running' = FALSE /\ pipe' = <<>> /\ wfd' = "closed"
    /\ tpc' = "none" /\ batch' = <<>> /\ txn' = FALSE
    /\ pend' = db /\ base' = db
    /\ log' = <<>> /\ failed' = FALSE /\ foreign' = FALSE
    /\ UNCHANGED db

Main == Create \/ Write \/ CloseWriteEnd \/ Join \/ Destroy \/ Unload
Thread == Open \/ OpenFails \/ Dump \/ Commit \/ CheckRunning
            \/ Poll \/ Read \/ Put \/ Close

Next ==
    \/ \E i \in Items : Enqueue(i)
    \/ RequestStop
    \/ Main
    \/ Thread
    \/ Crash
    \/ mpc = "done" /\ UNCHANGED vars

Spec == Init /\ [][Next]_vars

(* Both threads are scheduled, and the event loop ends: its 2 s timer stops it. *)
FairSpec == Spec /\ WF_vars(Main) /\ WF_vars(Thread) /\ WF_vars(RequestStop)

(* A gateway that keeps running: nothing makes the event loop end. *)
LongRunSpec == Spec /\ WF_vars(Main) /\ WF_vars(Thread)

-------------------------------------------------------------------------------
(* Properties. *)

Table == [Rows -> Values \cup {0, Absent}]

(* Program counters, descriptors and tables stay in their ranges; a batch is what
   one read can return and the pipe never holds more than its capacity. *)
TypeOK ==
    /\ mpc \in {"load", "loop", "write", "close", "join", "destroy", "unload", "done"}
    /\ tpc \in {"none", "open", "begin", "dump_south", "dump_north", "check", "poll", "read",
                "put", "commit", "last_read", "last_put", "last_commit", "close", "exited"}
    /\ running \in BOOLEAN /\ txn \in BOOLEAN /\ failed \in BOOLEAN /\ foreign \in BOOLEAN
    /\ wfd \in {"pipe", "closed", "database", "pending"}
    /\ item \in Items \cup {NoItem}
    /\ pipe \in Seq(Items) /\ Len(pipe) <= PipeCap
    /\ batch \in Seq(Items) /\ Len(batch) <= Batch
    /\ log \in Seq(Items) /\ Len(log) <= MaxItems
    /\ db \in Table /\ pend \in Table /\ base \in Table
    /\ crashes \in 0..MaxCrashes

(* The table after the dump and the first n items of the log. *)
After(n) ==
    [r \in Rows |->
        IF \E i \in 1..n : log[i].row = r
        THEN log[CHOOSE i \in 1..n : /\ log[i].row = r
                                     /\ \A j \in i + 1..n : log[j].row /= r].value
        ELSE 0]

(* As long as no SQLite call fails the committed table is at every moment, so also
   when the process dies, the one this life began with or the dump followed by a
   prefix of the values the main thread wrote, in the order it wrote them. *)
DatabaseIsPrefixOfLog ==
    ~failed => db = base \/ \E n \in 0..Len(log) : db = After(n)

(* After an orderly stop nothing is missing: every value written to the pipe before
   request_stop is committed when join returns, however the two threads interleave
   (also when the thread opens the database after running was cleared). *)
NothingLostAtShutdown ==
    mpc \in {"destroy", "unload", "done"} /\ ~failed => db = After(Len(log))

(* Even when statements fail unnoticed, a BEGIN too, so that values are stored
   outside any transaction, or a failure rolls it back, a stored value is one
   that was there before, the dump's 0 or one written for that very row. *)
StoredValuesWereWritten ==
    \A r \in Rows : \/ db[r] \in {base[r], 0}
                    \/ \E i \in 1..Len(log) : log[i].row = r /\ log[i].value = db[r]

(* SQLite is built without locks (SQLITE_THREADSAFE=0): the main thread, which
   loads and closes the point tables, and the persistence thread are never both
   between their first and their last SQLite call. *)
SqliteOneThreadAtATime ==
    mpc \in {"load", "unload"} => tpc \in {"none", "exited"}

(* destroy closes pipe_fd[1] a second time.  The number never stands for an open pipe or
   for a file the persistence thread still works with, not even when the database was
   opened after the first close and got it.  What the second close can hit is the
   database file after that thread has closed it, where SQLite put that close off. *)
SecondCloseSparesThread == ~foreign

(* The gateway shuts down: join returns, also when the pipe was full on the way and
   when any SQL statement failed.  The one exception is a thread that is gone, which it
   is after a failed open: then the write that fills the pipe never returns. *)
Terminates ==
    <>(\/ mpc = "done"
       \/ mpc = "write" /\ tpc = "exited" /\ Len(pipe) = PipeCap)

===============================================================================
