---------------------------- MODULE PersistProofs ----------------------------
(***************************************************************************)
(* Theorems about PersistThread, for every set of rows and items, every    *)
(* size of pipe and read buffer, every number of writes and crashes, and   *)
(* whether or not opening the database and SQL statements may fail.        *)
(***************************************************************************)
EXTENDS PersistThread, TLAPS

-------------------------------------------------------------------------------
(* The inductive invariant. *)

(* How far the two threads and the descriptor number have come with each other. *)
Life ==
    /\ mpc = "load" <=> tpc = "none"
    /\ running <=> mpc \in {"loop", "write"}
    /\ wfd = "pipe" <=> mpc \in {"loop", "write", "close"}
    /\ wfd = "database" => tpc \notin {"none", "open", "exited"}
    /\ wfd = "pending" => tpc = "exited"
    /\ mpc \in {"destroy", "unload", "done"} => tpc = "exited"
    /\ mpc = "write" => item \in Items /\ Len(log) < MaxItems
    /\ ~foreign

(* The number of items taken out of the batch. *)
Taken == Len(log) - Len(pipe) - Len(batch)

(* Nothing is lost or reordered on the way: what was taken, the batch and the pipe
   are the log, cut in three.  destroy throws the pipe away. *)
Flow ==
    /\ tpc \in {"put", "last_put"} <=> batch /= <<>>
    /\ mpc \notin {"unload", "done"} =>
          /\ Len(pipe) + Len(batch) <= Len(log)
          /\ \A i \in 1..Len(batch) : batch[i] = log[Taken + i]
          /\ \A i \in 1..Len(pipe) : pipe[i] = log[Taken + Len(batch) + i]
    /\ tpc \in {"none", "open", "begin", "dump_south", "dump_north"} => Taken = 0

(* i is the last of the first n items of l that is for row r. *)
LastOf(l, n, r, i) ==
    i \in 1..n /\ l[i].row = r /\ \A j \in i + 1..n : l[j].row /= r

(* A row that occurs in the first n items has a last occurrence there. *)
HasLast(l, n) ==
    \A r \in Rows : (\E i \in 1..n : l[i].row = r) => \E i \in 1..n : LastOf(l, n, r, i)

LastExists == \A n \in 0..Len(log) : HasLast(log, n)

(* After(n), of any log. *)
AfterOf(l, n) ==
    [r \in Rows |->
        IF \E i \in 1..n : l[i].row = r
        THEN l[CHOOSE i \in 1..n : /\ l[i].row = r
                                   /\ \A j \in i + 1..n : l[j].row /= r].value
        ELSE 0]

(* As long as no call fails: the table the thread sees is the dump followed by
   the items taken so far, and the committed one an earlier stage of it. *)
Tables ==
    ~failed =>
        /\ tpc \in {"none", "open", "begin"} => ~txn /\ pend = base /\ db = base
        /\ tpc = "dump_south" => txn /\ pend = base /\ db = base
        /\ tpc = "dump_north" =>
              /\ txn /\ db = base
              /\ pend = [r \in Rows |-> IF r \in South THEN 0 ELSE base[r]]
        /\ tpc \in {"commit", "read", "put", "last_read", "last_put", "last_commit"} =>
              /\ txn
              /\ pend = AfterOf(log, Taken)
              /\ db = base \/ \E n \in 0..Taken : db = AfterOf(log, n)
        /\ tpc \in {"check", "poll"} => ~txn /\ pend = AfterOf(log, Taken) /\ db = pend
        /\ tpc = "last_commit" => Taken = Len(log) /\ wfd /= "pipe"
        /\ tpc \in {"close", "exited"} => db = AfterOf(log, Len(log)) /\ wfd /= "pipe"

(* A value of table t is an old one, the dump's 0, or was written for its row. *)
OldOrWritten(t) ==
    \A r \in Rows : \/ t[r] \in {base[r], 0}
                    \/ \E i \in 1..Len(log) : log[i].row = r /\ log[i].value = t[r]

IInv == TypeOK /\ Life /\ Flow /\ LastExists /\ Tables /\ OldOrWritten(db) /\ OldOrWritten(pend)

-------------------------------------------------------------------------------
(* The table after a prefix of the log. *)

(* After in this state and in the next one. *)
LEMMA AfterIsAfterOf ==
    \A n : After(n) = AfterOf(log, n) /\ After(n)' = AfterOf(log', n)
BY DEF After, AfterOf

(* The value of a row is that of its last item. *)
LEMMA AfterValue ==
    ASSUME NEW l, NEW n \in Nat, NEW r \in Rows, NEW i, LastOf(l, n, r, i)
    PROVE  AfterOf(l, n)[r] = l[i].value
<1> DEFINE c == CHOOSE k \in 1..n : l[k].row = r /\ \A j \in k + 1..n : l[j].row /= r
<1>1. i \in 1..n /\ l[i].row = r
  BY DEF LastOf
<1>2. c \in 1..n /\ LastOf(l, n, r, c)
  BY <1>1 DEF LastOf
<1>3. c = i
  <2> HIDE DEF c
  <2>1. i \in Int /\ c \in Int
    BY <1>1, <1>2
  <2>2. ~(c < i) /\ ~(i < c)
    BY <1>1, <1>2, <2>1 DEF LastOf
  <2> QED BY <2>1, <2>2
<1>4. AfterOf(l, n)[r] = l[c].value
  BY <1>1 DEF AfterOf
<1> QED BY <1>3, <1>4

(* A row without an item has the dump's 0. *)
LEMMA AfterNothing ==
    ASSUME NEW l, NEW n \in Nat, NEW r \in Rows, \A i \in 1..n : l[i].row /= r
    PROVE  AfterOf(l, n)[r] = 0
BY DEF AfterOf

(* The table depends on the first n items only. *)
LEMMA AfterSame ==
    ASSUME NEW l, NEW m, NEW n \in Nat, HasLast(l, n), \A i \in 1..n : m[i] = l[i]
    PROVE  AfterOf(m, n) = AfterOf(l, n) /\ HasLast(m, n)
<1>1. ASSUME NEW r \in Rows, NEW i, LastOf(l, n, r, i) PROVE LastOf(m, n, r, i)
  BY <1>1 DEF LastOf
<1>2. ASSUME NEW r \in Rows PROVE AfterOf(m, n)[r] = AfterOf(l, n)[r]
  <2>1. CASE \A i \in 1..n : l[i].row /= r
    BY <2>1, AfterNothing
  <2>2. CASE \E i \in 1..n : l[i].row = r
    <3>1. PICK i \in 1..n : LastOf(l, n, r, i)
      BY <2>2 DEF HasLast
    <3>2. LastOf(m, n, r, i)
      BY <1>1, <3>1
    <3>3. AfterOf(l, n)[r] = l[i].value /\ AfterOf(m, n)[r] = m[i].value
      BY <3>1, <3>2, AfterValue
    <3> QED BY <3>3
  <2> QED BY <2>1, <2>2
<1>3. AfterOf(m, n) = AfterOf(l, n)
  BY <1>2 DEF AfterOf
<1>4. HasLast(m, n)
  BY <1>1 DEF HasLast
<1> QED BY <1>3, <1>4

(* One more item changes its row and no other. *)
LEMMA AfterStep ==
    ASSUME NEW l, NEW n \in Nat, HasLast(l, n), l[n + 1].row \in Rows
    PROVE  /\ AfterOf(l, n + 1) = [AfterOf(l, n) EXCEPT ![l[n + 1].row] = l[n + 1].value]
           /\ HasLast(l, n + 1)
<1> DEFINE q == l[n + 1].row
<1>1. n + 1 \in 1..n + 1 /\ n + 1 \in Nat /\ \A i \in 1..n + 1 : i \in 1..n \/ i = n + 1
  OBVIOUS
<1>2. LastOf(l, n + 1, q, n + 1)
  BY DEF LastOf
<1>3. ASSUME NEW r \in Rows, r /= q, NEW i, LastOf(l, n, r, i) PROVE LastOf(l, n + 1, r, i)
  BY <1>3 DEF LastOf
<1> HIDE DEF q
<1>4. AfterOf(l, n + 1)[q] = l[n + 1].value
  BY <1>1, <1>2, AfterValue DEF q
<1>5. ASSUME NEW r \in Rows, r /= q PROVE AfterOf(l, n + 1)[r] = AfterOf(l, n)[r]
  <2>1. CASE \A i \in 1..n : l[i].row /= r
    <3>1. \A i \in 1..n + 1 : l[i].row /= r
      BY <1>1, <1>5, <2>1 DEF q
    <3> QED BY <1>1, <2>1, <3>1, AfterNothing
  <2>2. CASE \E i \in 1..n : l[i].row = r
    <3>1. PICK i \in 1..n : LastOf(l, n, r, i)
      BY <2>2 DEF HasLast
    <3>2. LastOf(l, n + 1, r, i)
      BY <1>3, <1>5, <3>1
    <3> QED BY <1>1, <3>1, <3>2, AfterValue
  <2> QED BY <2>1, <2>2
<1>6. AfterOf(l, n + 1) = [AfterOf(l, n) EXCEPT ![l[n + 1].row] = l[n + 1].value]
  <2>1. \A k : AfterOf(l, k) = [r \in Rows |-> AfterOf(l, k)[r]]
    BY DEF AfterOf
  <2> QED BY <1>4, <1>5, <2>1 DEF q
<1>7. HasLast(l, n + 1)
  <2> SUFFICES ASSUME NEW r \in Rows, NEW k \in 1..n + 1, l[k].row = r
               PROVE  \E i \in 1..n + 1 : LastOf(l, n + 1, r, i)
    BY DEF HasLast
  <2>1. CASE r = q
    BY <1>1, <1>2, <2>1
  <2>2. CASE r /= q
    <3>1. k \in 1..n
      BY <1>1, <2>2 DEF q
    <3>2. PICK i \in 1..n : LastOf(l, n, r, i)
      BY <3>1 DEF HasLast
    <3>3. LastOf(l, n + 1, r, i) /\ i \in 1..n + 1
      BY <1>3, <2>2, <3>2
    <3> QED BY <3>3
  <2> QED BY <2>1, <2>2
<1> QED BY <1>6, <1>7

(* Before the first item all rows have the dump's 0. *)
LEMMA AfterZero == ASSUME NEW l PROVE AfterOf(l, 0) = [r \in Rows |-> 0] /\ HasLast(l, 0)
BY DEF AfterOf, HasLast

-------------------------------------------------------------------------------
(* Every step keeps the invariant: the program counters. *)

LEMMA LifeStep == ASSUME TypeOK, Life, [Next]_vars PROVE Life'
<1>1. ASSUME NEW i \in Items, Enqueue(i) PROVE Life'
  BY <1>1, PersistAssumption DEF TypeOK, Life, vars, mvars, tvars, Enqueue
<1>2. CASE RequestStop
  BY <1>2 DEF TypeOK, Life, vars, mvars, tvars, RequestStop
<1>3. CASE Create
  BY <1>3 DEF TypeOK, Life, vars, mvars, tvars, Create
<1>4. CASE Write
  BY <1>4 DEF TypeOK, Life, vars, mvars, tvars, Write
<1>5. CASE CloseWriteEnd
  BY <1>5 DEF TypeOK, Life, vars, mvars, tvars, CloseWriteEnd
<1>6. CASE Join
  BY <1>6 DEF TypeOK, Life, vars, mvars, tvars, Join
<1>7. CASE Destroy
  BY <1>7 DEF TypeOK, Life, vars, mvars, tvars, Destroy
<1>8. CASE Unload
  BY <1>8 DEF TypeOK, Life, vars, mvars, tvars, Unload
<1>9. CASE Open
  BY <1>9 DEF TypeOK, Life, vars, mvars, tvars, Open
<1>10. CASE OpenFails
  BY <1>10 DEF TypeOK, Life, vars, mvars, tvars, OpenFails, Closed
<1>11. CASE Dump
  BY <1>11 DEF TypeOK, Life, vars, mvars, tvars, Dump, Begin, FullDump
<1>12. CASE Commit
  BY <1>12 DEF TypeOK, Life, vars, mvars, tvars, Commit
<1>13. CASE CheckRunning
  BY <1>13 DEF TypeOK, Life, vars, mvars, tvars, CheckRunning, Begin
<1>14. CASE Poll
  BY <1>14 DEF TypeOK, Life, vars, mvars, tvars, Poll, Begin
<1>15. CASE Read
  BY <1>15 DEF TypeOK, Life, vars, mvars, tvars, Read, EndOfFile
<1>16. CASE Put
  BY <1>16 DEF TypeOK, Life, vars, mvars, tvars, Put
<1>17. CASE Close
  BY <1>17 DEF TypeOK, Life, vars, mvars, tvars, Close, Closed
<1>18. CASE Crash
  BY <1>18 DEF TypeOK, Life, vars, mvars, tvars, Crash
<1>19. CASE UNCHANGED vars
  BY <1>19 DEF TypeOK, Life, vars, mvars, tvars
<1> QED BY <1>1, <1>2, <1>3, <1>4, <1>5, <1>6, <1>7, <1>8, <1>9, <1>10, <1>11, <1>12,
  <1>13, <1>14, <1>15, <1>16, <1>17, <1>18, <1>19 DEF Next, Main, Thread

(* What a dump and a put make of a table is a table. *)
LEMMA StoredTable ==
    ASSUME NEW t \in Table
    PROVE  /\ \A rows : [r \in Rows |-> IF r \in rows THEN 0 ELSE t[r]] \in Table
           /\ \A x \in Items : [t EXCEPT ![x.row] = x.value] \in Table
BY DEF Table, Values

(* A statement that works and one that fails. *)
LEMMA StatementType ==
    ASSUME TypeOK, NEW t \in Table, Stores(t) \/ Fails
    PROVE  txn' \in BOOLEAN /\ failed' \in BOOLEAN /\ pend' \in Table /\ db' \in Table
<1>1. CASE Stores(t)
  BY <1>1, Zenon DEF Stores, TypeOK
<1>2. CASE Fails
  BY <1>2, Zenon DEF Fails, TypeOK
<1> QED BY <1>1, <1>2

(* BEGIN, whether it works or fails. *)
LEMMA BeginType ==
    ASSUME TypeOK, NEW then, Begin(then)
    PROVE  txn' \in BOOLEAN /\ failed' \in BOOLEAN /\ pend' \in Table /\ db' \in Table
<1>1. CASE txn' = TRUE /\ UNCHANGED <<pend, db, failed>>
  BY <1>1, Zenon DEF TypeOK
<1>2. CASE Fails
  BY <1>2, Zenon DEF Fails, TypeOK
<1> QED BY <1>1, <1>2 DEF Begin

(* A read cuts the pipe in two. *)
LEMMA ReadCuts ==
    ASSUME TypeOK, Read, pipe /= <<>>
    PROVE  \E n \in 1..Len(pipe) :
             /\ n <= Batch
             /\ batch' \in Seq(Items) /\ Len(batch') = n
             /\ \A i \in 1..n : batch'[i] = pipe[i]
             /\ pipe' \in Seq(Items) /\ Len(pipe') = Len(pipe) - n
             /\ \A i \in 1..Len(pipe) - n : pipe'[i] = pipe[n + i]
             /\ tpc' = IF tpc = "read" THEN "put" ELSE "last_put"
<1> DEFINE n == IF Len(pipe) < Batch THEN Len(pipe) ELSE Batch
<1>1. pipe \in Seq(Items) /\ Len(pipe) \in Nat
  BY DEF TypeOK
<1>2. n \in 1..Len(pipe) /\ n <= Batch
  BY <1>1, PersistAssumption
<1>3. /\ batch' = SubSeq(pipe, 1, n) /\ pipe' = SubSeq(pipe, n + 1, Len(pipe))
      /\ tpc' = IF tpc = "read" THEN "put" ELSE "last_put"
  BY DEF Read, EndOfFile
<1> HIDE DEF n
<1>4. batch' \in Seq(Items) /\ Len(batch') = n /\ \A i \in 1..n : batch'[i] = pipe[i]
  BY <1>1, <1>2, <1>3
<1>5. /\ pipe' \in Seq(Items) /\ Len(pipe') = Len(pipe) - n
      /\ \A i \in 1..Len(pipe) - n : pipe'[i] = pipe[n + i]
  BY <1>1, <1>2, <1>3
<1> QED BY <1>2, <1>3, <1>4, <1>5

(* The types. *)
LEMMA TypeStep == ASSUME TypeOK, Life, Flow, [Next]_vars PROVE TypeOK'
<1>1. ASSUME NEW i \in Items, Enqueue(i) PROVE TypeOK'
  BY <1>1 DEF TypeOK, vars, mvars, tvars, Enqueue
<1>2. CASE RequestStop
  BY <1>2 DEF TypeOK, vars, mvars, tvars, RequestStop
<1>3. CASE Create
  BY <1>3 DEF TypeOK, vars, mvars, tvars, Create
<1>4. CASE Write
  BY <1>4, PersistAssumption DEF TypeOK, Life, Flow, mvars, tvars, Write
<1>5. CASE CloseWriteEnd
  BY <1>5 DEF TypeOK, vars, mvars, tvars, CloseWriteEnd
<1>6. CASE Join
  BY <1>6 DEF TypeOK, vars, mvars, tvars, Join
<1>7. CASE Destroy
  BY <1>7, PersistAssumption DEF TypeOK, Life, Flow, mvars, tvars, Destroy
<1>8. CASE Unload
  BY <1>8 DEF TypeOK, vars, mvars, tvars, Unload
<1>9. CASE Open
  BY <1>9 DEF TypeOK, vars, mvars, tvars, Open
<1>10. CASE OpenFails
  BY <1>10 DEF TypeOK, vars, mvars, tvars, OpenFails, Closed
<1>11. CASE Dump
  <2>1. txn' \in BOOLEAN /\ failed' \in BOOLEAN /\ pend' \in Table /\ db' \in Table
    <3>1. CASE tpc = "begin" /\ Begin("dump_south")
      BY <3>1, BeginType
    <3>2. ASSUME NEW rows, NEW then, FullDump(rows, then)
          PROVE  txn' \in BOOLEAN /\ failed' \in BOOLEAN /\ pend' \in Table /\ db' \in Table
      <4>1. [r \in Rows |-> IF r \in rows THEN 0 ELSE pend[r]] \in Table
        BY StoredTable DEF TypeOK
      <4> QED BY <3>2, <4>1, StatementType DEF FullDump
    <3> QED BY <1>11, <3>1, <3>2 DEF Dump
  <2> QED BY <1>11, <2>1 DEF TypeOK, mvars, Dump, Begin, FullDump
<1>12. CASE Commit
  <2>1. txn' \in BOOLEAN /\ failed' \in BOOLEAN /\ pend' \in Table /\ db' \in Table
    BY <1>12, Zenon DEF Commit, Fails, TypeOK
  <2> QED BY <1>12, <2>1 DEF TypeOK, mvars, Commit
<1>13. CASE CheckRunning
  <2>1. txn' \in BOOLEAN /\ failed' \in BOOLEAN /\ pend' \in Table /\ db' \in Table
    BY <1>13, BeginType DEF CheckRunning, TypeOK
  <2> QED BY <1>13, <2>1 DEF TypeOK, mvars, CheckRunning, Begin
<1>14. CASE Poll
  <2>1. txn' \in BOOLEAN /\ failed' \in BOOLEAN /\ pend' \in Table /\ db' \in Table
    BY <1>14, BeginType DEF Poll
  <2> QED BY <1>14, <2>1 DEF TypeOK, mvars, Poll, Begin
<1>15. CASE Read
  <2>1. pipe' \in Seq(Items) /\ Len(pipe') <= PipeCap
    <3>1. CASE pipe = <<>>
      BY <1>15, <3>1 DEF Read, TypeOK
    <3>2. CASE pipe /= <<>>
      <4>1. PICK n \in 1..Len(pipe) : pipe' \in Seq(Items) /\ Len(pipe') = Len(pipe) - n
        BY <1>15, <3>2, ReadCuts
      <4>2. Len(pipe) \in Nat /\ Len(pipe) <= PipeCap
        BY DEF TypeOK
      <4> QED BY <4>1, <4>2, PersistAssumption
    <3> QED BY <3>1, <3>2
  <2>2. batch' \in Seq(Items) /\ Len(batch') <= Batch
    BY <1>15, ReadCuts, PersistAssumption DEF Read, TypeOK
  <2> QED BY <1>15, <2>1, <2>2 DEF TypeOK, mvars, Read
<1>16. CASE Put
  <2>1. batch \in Seq(Items) /\ batch /= <<>>
    BY <1>16 DEF Put, Flow, TypeOK
  <2>2. batch[1] \in Items /\ Tail(batch) \in Seq(Items) /\ Len(Tail(batch)) <= Len(batch)
    BY <2>1
  <2>3. txn' \in BOOLEAN /\ failed' \in BOOLEAN /\ pend' \in Table /\ db' \in Table
    <3>1. [pend EXCEPT ![batch[1].row] = batch[1].value] \in Table
      BY <2>2, StoredTable DEF TypeOK
    <3> QED BY <1>16, <3>1, StatementType DEF Put
  <2>4. batch' \in Seq(Items) /\ Len(batch') <= Batch
    BY <1>16, <2>2, PersistAssumption DEF Put, TypeOK
  <2> QED BY <1>16, <2>3, <2>4 DEF TypeOK, mvars, Put
<1>17. CASE Close
  BY <1>17 DEF TypeOK, vars, mvars, tvars, Close, Closed
<1>18. CASE Crash
  <2>1. <<>> \in Seq(Items) /\ Len(<<>>) <= PipeCap /\ Len(<<>>) <= Batch /\ Len(<<>>) <= MaxItems
    BY PersistAssumption
  <2>2. crashes' \in 0..MaxCrashes
    BY <1>18, PersistAssumption DEF Crash, TypeOK
  <2> QED BY <1>18, <2>1, <2>2 DEF TypeOK, Crash
<1>19. CASE UNCHANGED vars
  BY <1>19 DEF TypeOK, vars, mvars, tvars
<1> QED BY <1>1, <1>2, <1>3, <1>4, <1>5, <1>6, <1>7, <1>8, <1>9, <1>10, <1>11, <1>12,
  <1>13, <1>14, <1>15, <1>16, <1>17, <1>18, <1>19 DEF Next, Main, Thread

(* The items on their way. *)
LEMMA FlowStep == ASSUME TypeOK, Life, Flow, [Next]_vars PROVE Flow'
<1>1. ASSUME NEW i \in Items, Enqueue(i) PROVE Flow'
  BY <1>1 DEF TypeOK, Life, Flow, Taken, vars, mvars, tvars, Enqueue
<1>2. CASE RequestStop
  BY <1>2 DEF TypeOK, Life, Flow, Taken, vars, mvars, tvars, RequestStop
<1>3. CASE Create
  BY <1>3 DEF TypeOK, Life, Flow, Taken, vars, mvars, tvars, Create
<1>4. CASE Write
  <2>1. item \in Items /\ pipe \in Seq(Items) /\ log \in Seq(Items) /\ batch \in Seq(Items)
    BY <1>4 DEF Write, Life, TypeOK
  <2>2. /\ log' = Append(log, item) /\ pipe' = Append(pipe, item) /\ batch' = batch
        /\ tpc' = tpc /\ mpc = "write" /\ mpc' = "loop"
    BY <1>4 DEF Write, tvars
  <2>3. /\ Len(log') = Len(log) + 1 /\ Len(pipe') = Len(pipe) + 1 /\ Taken' = Taken
        /\ \A i \in 1..Len(log) : log'[i] = log[i]
        /\ log'[Len(log) + 1] = item
        /\ \A i \in 1..Len(pipe) : pipe'[i] = pipe[i]
        /\ pipe'[Len(pipe) + 1] = item
    BY <2>1, <2>2 DEF Taken
  <2>4. /\ Len(pipe) + Len(batch) <= Len(log)
        /\ \A i \in 1..Len(batch) : batch[i] = log[Taken + i]
        /\ \A i \in 1..Len(pipe) : pipe[i] = log[Taken + Len(batch) + i]
    BY <2>2 DEF Flow
  <2>5. Len(pipe) \in Nat /\ Len(batch) \in Nat /\ Len(log) \in Nat
    BY <2>1
  <2>6. \A i \in 1..Len(batch) : batch'[i] = log'[Taken' + i]
    <3>1. \A i \in 1..Len(batch) : Taken + i \in 1..Len(log)
      BY <2>4, <2>5 DEF Taken
    <3> QED BY <2>2, <2>3, <2>4, <3>1
  <2>7. \A i \in 1..Len(pipe') : pipe'[i] = log'[Taken' + Len(batch') + i]
    <3>1. \A i \in 1..Len(pipe) : Taken + Len(batch) + i \in 1..Len(log)
      BY <2>4, <2>5 DEF Taken
    <3>2. Taken + Len(batch) + (Len(pipe) + 1) = Len(log) + 1
      BY <2>5 DEF Taken
    <3>3. \A i \in 1..Len(pipe') : i \in 1..Len(pipe) \/ i = Len(pipe) + 1
      BY <2>3, <2>5
    <3> QED BY <2>2, <2>3, <2>4, <3>1, <3>2, <3>3
  <2>8. Len(pipe') + Len(batch') <= Len(log')
    BY <2>2, <2>3, <2>4, <2>5
  <2> QED BY <2>2, <2>3, <2>6, <2>7, <2>8 DEF Flow
<1>5. CASE CloseWriteEnd
  BY <1>5 DEF TypeOK, Life, Flow, Taken, vars, mvars, tvars, CloseWriteEnd
<1>6. CASE Join
  BY <1>6 DEF TypeOK, Life, Flow, Taken, vars, mvars, tvars, Join
<1>7. CASE Destroy
  BY <1>7 DEF TypeOK, Life, Flow, Taken, vars, mvars, tvars, Destroy
<1>8. CASE Unload
  BY <1>8 DEF TypeOK, Life, Flow, Taken, vars, mvars, tvars, Unload
<1>9. CASE Open
  BY <1>9 DEF TypeOK, Life, Flow, Taken, vars, mvars, tvars, Open
<1>10. CASE OpenFails
  BY <1>10 DEF TypeOK, Life, Flow, Taken, vars, mvars, tvars, OpenFails, Closed
<1>11. CASE Dump
  BY <1>11 DEF TypeOK, Life, Flow, Taken, vars, mvars, tvars, Dump, Begin, FullDump
<1>12. CASE Commit
  BY <1>12 DEF TypeOK, Life, Flow, Taken, vars, mvars, tvars, Commit
<1>13. CASE CheckRunning
  BY <1>13 DEF TypeOK, Life, Flow, Taken, vars, mvars, tvars, CheckRunning, Begin
<1>14. CASE Poll
  BY <1>14 DEF TypeOK, Life, Flow, Taken, vars, mvars, tvars, Poll, Begin
<1>15. CASE Read
  <2>1. CASE pipe = <<>>
    BY <1>15, <2>1 DEF Flow, Taken, Read
  <2>2. CASE pipe /= <<>>
    <3>1. PICK n \in 1..Len(pipe) :
            /\ Len(batch') = n /\ \A i \in 1..n : batch'[i] = pipe[i]
            /\ Len(pipe') = Len(pipe) - n /\ \A i \in 1..Len(pipe) - n : pipe'[i] = pipe[n + i]
            /\ tpc' \in {"put", "last_put"}
      BY <1>15, <2>2, ReadCuts
    <3>2. Len(pipe) \in Nat /\ Len(log) \in Nat /\ batch = <<>> /\ Len(batch) = 0
      BY <1>15 DEF TypeOK, Flow, Read
    <3>3. log' = log /\ mpc' = mpc /\ mpc \notin {"unload", "done"}
      BY <1>15 DEF Read, mvars, Life
    <3>4. /\ Len(pipe) <= Len(log)
          /\ \A i \in 1..Len(pipe) : pipe[i] = log[Len(log) - Len(pipe) + i]
      BY <3>2, <3>3 DEF Flow, Taken
    <3>5. Taken' = Len(log) - Len(pipe) /\ Taken' + n = Len(log) - Len(pipe) + n
      BY <3>1, <3>2, <3>3 DEF Taken
    <3>6. \A i \in 1..n : batch'[i] = log[Len(log) - Len(pipe) + i]
      <4> SUFFICES ASSUME NEW i \in 1..n PROVE batch'[i] = log[Len(log) - Len(pipe) + i]
        OBVIOUS
      <4>1. i \in 1..Len(pipe)
        BY <3>2
      <4> QED BY <3>1, <3>4, <4>1
    <3>7. \A i \in 1..Len(pipe) - n : pipe'[i] = log[Len(log) - Len(pipe) + n + i]
      <4> SUFFICES ASSUME NEW i \in 1..Len(pipe) - n
                   PROVE  pipe'[i] = log[Len(log) - Len(pipe) + n + i]
        OBVIOUS
      <4>1. n + i \in 1..Len(pipe) /\ Len(log) - Len(pipe) + (n + i) = Len(log) - Len(pipe) + n + i
        BY <3>2
      <4> QED BY <3>1, <3>4, <4>1
    <3>8. batch' /= <<>>
      BY <3>1
    <3>9. Len(pipe') + Len(batch') <= Len(log')
      BY <3>1, <3>2, <3>3, <3>4
    <3> QED BY <3>1, <3>3, <3>5, <3>6, <3>7, <3>8, <3>9 DEF Flow
  <2> QED BY <2>1, <2>2
<1>16. CASE Put
  <2>1. batch \in Seq(Items) /\ batch /= <<>>
    BY <1>16 DEF Put, Flow, TypeOK
  <2>2. /\ batch' = Tail(batch) /\ pipe' = pipe /\ log' = log /\ mpc' = mpc
        /\ mpc \notin {"unload", "done"}
    BY <1>16 DEF Put, mvars, Life
  <2>3. /\ Len(batch') = Len(batch) - 1 /\ Len(batch) \in Nat \ {0}
        /\ \A i \in 1..Len(batch') : batch'[i] = batch[i + 1]
    BY <2>1, <2>2
  <2>4. Len(pipe) \in Nat /\ Len(log) \in Nat
    BY DEF TypeOK
  <2>5. /\ Len(pipe) + Len(batch) <= Len(log)
        /\ \A i \in 1..Len(batch) : batch[i] = log[Taken + i]
        /\ \A i \in 1..Len(pipe) : pipe[i] = log[Taken + Len(batch) + i]
    BY <2>2 DEF Flow
  <2>6. Taken \in Int /\ Taken' = Taken + 1
    BY <2>2, <2>3, <2>4 DEF Taken
  <2>7. \A i \in 1..Len(batch') : batch'[i] = log[Taken' + i]
    <3> SUFFICES ASSUME NEW i \in 1..Len(batch') PROVE batch'[i] = log[Taken' + i]
      OBVIOUS
    <3>1. i + 1 \in 1..Len(batch) /\ Taken + (i + 1) = Taken' + i
      BY <2>3, <2>6
    <3> QED BY <2>3, <2>5, <3>1
  <2>8. \A i \in 1..Len(pipe) : pipe[i] = log[Taken' + Len(batch') + i]
    BY <2>3, <2>4, <2>5, <2>6
  <2>9. Len(pipe') + Len(batch') <= Len(log')
    BY <2>2, <2>3, <2>4, <2>5
  <2>10. tpc' \in {"put", "last_put"} <=> batch' /= <<>>
    BY <1>16 DEF Put
  <2>11. tpc' \notin {"none", "open", "begin", "dump_south", "dump_north"}
    BY <1>16 DEF Put
  <2> QED BY <2>2, <2>7, <2>8, <2>9, <2>10, <2>11 DEF Flow
<1>17. CASE Close
  BY <1>17 DEF TypeOK, Life, Flow, Taken, vars, mvars, tvars, Close, Closed
<1>18. CASE Crash
  <2>1. tpc' = "none" /\ pipe' = <<>> /\ batch' = <<>> /\ log' = <<>>
    BY <1>18 DEF Crash
  <2>2. Len(pipe') = 0 /\ Len(batch') = 0 /\ Len(log') = 0
    BY <2>1
  <2>3. Taken' = 0 /\ 1..Len(pipe') = {} /\ 1..Len(batch') = {}
    BY <2>2 DEF Taken
  <2>4. Len(pipe') + Len(batch') <= Len(log')
    BY <2>2
  <2>5. tpc' \notin {"put", "last_put"} /\ batch' = <<>>
    BY <2>1
  <2> QED BY <2>3, <2>4, <2>5, Zenon DEF Flow
<1>19. CASE UNCHANGED vars
  BY <1>19 DEF TypeOK, Life, Flow, Taken, vars, mvars, tvars
<1> QED BY <1>1, <1>2, <1>3, <1>4, <1>5, <1>6, <1>7, <1>8, <1>9, <1>10, <1>11, <1>12,
  <1>13, <1>14, <1>15, <1>16, <1>17, <1>18, <1>19 DEF Next, Main, Thread

(* A row that occurs in the log has a last occurrence. *)
LEMMA LastStep == ASSUME TypeOK, Life, LastExists, [Next]_vars PROVE LastExists'
<1>1. CASE Write
  <2>1. /\ log \in Seq(Items) /\ item \in Items /\ log' = Append(log, item)
        /\ Len(log) \in Nat /\ Len(log') = Len(log) + 1
        /\ \A i \in 1..Len(log) : log'[i] = log[i]
        /\ log'[Len(log) + 1] = item
    BY <1>1 DEF Write, TypeOK, Life
  <2>2. ASSUME NEW n \in 0..Len(log) PROVE HasLast(log', n)
    <3>1. n \in Nat /\ HasLast(log, n) /\ \A i \in 1..n : log'[i] = log[i]
      BY <2>1 DEF LastExists
    <3> QED BY <3>1, AfterSame
  <2>3. HasLast(log', Len(log) + 1)
    <3>1. item.row \in Rows
      BY <2>1, PersistAssumption DEF Rows
    <3>2. HasLast(log', Len(log))
      BY <2>1, <2>2
    <3> QED BY <2>1, <3>1, <3>2, AfterStep
  <2>4. \A n \in 0..Len(log') : n \in 0..Len(log) \/ n = Len(log) + 1
    BY <2>1
  <2> QED BY <2>2, <2>3, <2>4 DEF LastExists
<1>2. CASE Crash
  <2>1. \A n \in 0..Len(log') : n = 0
    BY <1>2 DEF Crash
  <2> QED BY <2>1, AfterZero DEF LastExists
<1>3. CASE log' = log
  BY <1>3 DEF LastExists
<1>4. ASSUME ~Write, ~Crash PROVE log' = log
  BY <1>4 DEF Next, Main, Thread, Enqueue, RequestStop, Create, CloseWriteEnd, Join, Destroy,
     Unload, Open, OpenFails, Dump, FullDump, Commit, CheckRunning, Poll, Begin, Read, Put, Close,
     vars, mvars
<1> QED BY <1>1, <1>2, <1>3, <1>4

(* While the thread runs, the number of items taken is a position in the log. *)
LEMMA TakenRange ==
    ASSUME TypeOK, Flow, mpc \notin {"unload", "done"}
    PROVE  /\ Taken \in 0..Len(log) /\ Len(log) \in Nat
           /\ batch /= <<>> => Taken + 1 \in 1..Len(log) /\ batch[1] = log[Taken + 1]
<1>1. Len(log) \in Nat /\ Len(pipe) \in Nat /\ Len(batch) \in Nat
  BY DEF TypeOK
<1>2. Len(pipe) + Len(batch) <= Len(log) /\ \A i \in 1..Len(batch) : batch[i] = log[Taken + i]
  BY DEF Flow
<1>3. Taken \in 0..Len(log)
  BY <1>1, <1>2 DEF Taken
<1>4. ASSUME batch /= <<>> PROVE Taken + 1 \in 1..Len(log) /\ batch[1] = log[Taken + 1]
  <2>1. 1 \in 1..Len(batch)
    BY <1>4 DEF TypeOK
  <2> QED BY <1>1, <1>2, <2>1 DEF Taken
<1> QED BY <1>1, <1>3, <1>4

(* The tables. *)
LEMMA TablesStep ==
    ASSUME TypeOK, Life, Flow, LastExists, Tables, [Next]_vars
    PROVE  Tables'
<1>1. CASE Crash
  BY <1>1 DEF Crash, Tables
<1> SUFFICES ASSUME ~Crash, ~failed' PROVE Tables'
  BY <1>1 DEF Tables
<1>2. ASSUME UNCHANGED <<log, base, txn, pend, db, failed, tpc, pipe, batch>>,
             wfd' = wfd \/ wfd' /= "pipe"
      PROVE  Tables'
  <2>1. Taken' = Taken
    BY <1>2 DEF Taken
  <2> QED BY <1>2, <2>1 DEF Tables
<1>3. ASSUME NEW i \in Items, Enqueue(i) PROVE Tables'
  BY <1>2, <1>3 DEF Enqueue, tvars
<1>4. CASE RequestStop \/ CloseWriteEnd \/ Join \/ Unload
  BY <1>2, <1>4 DEF RequestStop, CloseWriteEnd, Join, Unload, tvars
<1>5. CASE Create
  BY <1>5 DEF Create, Tables, Life
<1>6. CASE Destroy
  BY <1>6 DEF Destroy, Tables, Life, tvars
<1>7. CASE Write
  <2>1. /\ log \in Seq(Items) /\ item \in Items /\ log' = Append(log, item)
        /\ Len(log) \in Nat /\ \A i \in 1..Len(log) : log'[i] = log[i]
    BY <1>7 DEF Write, TypeOK, Life
  <2>2. ASSUME NEW n \in 0..Len(log) PROVE AfterOf(log', n) = AfterOf(log, n)
    <3>1. n \in Nat /\ HasLast(log, n) /\ \A i \in 1..n : log'[i] = log[i]
      BY <2>1 DEF LastExists
    <3> QED BY <3>1, AfterSame
  <2>3. Taken' = Taken
    BY <1>7 DEF Write, Taken, TypeOK, Life, tvars
  <2>4. Taken \in 0..Len(log)
    BY <1>7, TakenRange DEF Write
  <2>5. wfd = "pipe" /\ wfd' = wfd /\ UNCHANGED <<base, txn, pend, db, failed, tpc>>
    BY <1>7 DEF Write, Life, tvars
  <2>6. tpc \notin {"last_commit", "close", "exited"}
    BY <2>5 DEF Tables
  <2>7. /\ tpc \in {"commit", "read", "put", "last_read", "last_put", "last_commit"} =>
              db = base \/ \E n \in 0..Taken : db = AfterOf(log', n)
    BY <2>2, <2>4, <2>5 DEF Tables
  <2>8. AfterOf(log', Taken) = AfterOf(log, Taken)
    BY <2>2, <2>4
  <2> QED BY <2>3, <2>5, <2>6, <2>7, <2>8 DEF Tables
<1>8. CASE Thread
  <2>1. log' = log /\ base' = base /\ mpc' = mpc /\ mpc \notin {"unload", "done", "load"} /\ ~failed
    BY <1>8 DEF Thread, Open, OpenFails, Dump, FullDump, Commit, CheckRunning, Poll, Begin, Read,
       Put, Close, mvars, Life, Stores, Fails
  <2>2. /\ Taken \in 0..Len(log) /\ Len(log) \in Nat
        /\ batch /= <<>> => Taken + 1 \in 1..Len(log) /\ batch[1] = log[Taken + 1]
    BY <2>1, TakenRange
  <2>3. ASSUME UNCHANGED <<pipe, batch>> PROVE Taken' = Taken
    BY <2>1, <2>3 DEF Taken
  <2>4. CASE Open
    BY <2>1, <2>4 DEF Open, Tables
  <2>5. CASE OpenFails
    BY <2>5 DEF OpenFails
  <2>6. CASE Dump
    <3>1. CASE tpc = "begin" /\ Begin("dump_south")
      BY <2>1, <3>1 DEF Begin, Fails, Tables
    <3>2. CASE tpc = "dump_south" /\ FullDump(South, "dump_north")
      BY <2>1, <3>2 DEF FullDump, Stores, Fails, Tables
    <3>3. CASE tpc = "dump_north" /\ FullDump(North, "commit")
      <4>1. Taken = 0 /\ Taken' = 0
        BY <2>3, <3>3 DEF Flow, FullDump
      <4>2. /\ txn' = txn /\ txn /\ db' = db /\ db = base /\ tpc' = "commit"
            /\ pend' = [r \in Rows |-> IF r \in North THEN 0 ELSE pend[r]]
            /\ pend = [r \in Rows |-> IF r \in South THEN 0 ELSE base[r]]
        BY <2>1, <3>3 DEF FullDump, Stores, Fails, Tables
      <4>3. pend' = AfterOf(log', 0)
        BY <4>2, AfterZero DEF Rows
      <4> QED BY <2>1, <4>1, <4>2, <4>3 DEF Tables
    <3> QED BY <2>6, <3>1, <3>2, <3>3 DEF Dump
  <2>7. CASE Commit
    BY <2>1, <2>3, <2>7 DEF Commit, Fails, Tables
  <2>8. CASE CheckRunning
    BY <2>1, <2>2, <2>3, <2>8 DEF CheckRunning, Begin, Fails, Tables
  <2>9. CASE Poll
    BY <2>1, <2>2, <2>3, <2>9 DEF Poll, Begin, Fails, Tables
  <2>10. CASE Read
    <3>1. UNCHANGED <<txn, pend, db>> /\ wfd' = wfd /\ tpc \in {"read", "last_read"}
      BY <2>10 DEF Read
    <3>2. batch = <<>> /\ Len(batch) = 0 /\ Len(pipe) \in Nat
      BY <3>1 DEF Flow, TypeOK
    <3>3. CASE pipe = <<>>
      <4>1. Taken = Len(log) /\ Taken' = Taken
        BY <2>1, <2>2, <2>10, <3>2, <3>3 DEF Read, Taken
      <4> QED BY <2>1, <2>10, <3>1, <3>3, <4>1 DEF Read, EndOfFile, Tables
    <3>4. CASE pipe /= <<>>
      <4>1. PICK n \in 1..Len(pipe) :
              /\ Len(batch') = n /\ Len(pipe') = Len(pipe) - n
              /\ tpc' \in {"put", "last_put"}
        BY <2>10, <3>4, ReadCuts
      <4>2. Taken' = Taken
        BY <2>1, <2>2, <3>2, <4>1 DEF Taken
      <4> QED BY <2>1, <3>1, <4>1, <4>2 DEF Tables
    <3> QED BY <3>3, <3>4
  <2>11. CASE Put
    <3>1. batch \in Seq(Items) /\ batch /= <<>> /\ batch[1] \in Items
      BY <2>11 DEF Put, Flow, TypeOK
    <3>2. Taken' = Taken + 1
      <4>1. Len(batch') = Len(batch) - 1 /\ Len(batch) \in Nat /\ Len(pipe) \in Nat /\ pipe' = pipe
        BY <2>11, <3>1 DEF Put, TypeOK
      <4> QED BY <2>1, <2>2, <4>1 DEF Taken
    <3>3. /\ txn' = txn /\ txn /\ db' = db /\ tpc' \in {"put", "read", "last_put", "last_read"}
          /\ pend' = [pend EXCEPT ![batch[1].row] = batch[1].value]
          /\ pend = AfterOf(log, Taken)
          /\ db = base \/ \E n \in 0..Taken : db = AfterOf(log, n)
      BY <2>1, <2>11 DEF Put, Stores, Fails, Tables
    <3>4. pend' = AfterOf(log, Taken + 1)
      <4>1. batch[1].row \in Rows /\ batch[1] = log[Taken + 1]
        BY <2>2, <3>1, PersistAssumption DEF Rows
      <4>2. Taken \in Nat /\ HasLast(log, Taken)
        BY <2>2 DEF LastExists
      <4>3. AfterOf(log, Taken + 1)
              = [AfterOf(log, Taken) EXCEPT ![log[Taken + 1].row] = log[Taken + 1].value]
        BY <4>1, <4>2, AfterStep
      <4> QED BY <3>3, <4>1, <4>3
    <3>5. db = base \/ \E n \in 0..Taken + 1 : db = AfterOf(log, n)
      BY <2>2, <3>3
    <3> QED BY <2>1, <3>2, <3>3, <3>4, <3>5 DEF Tables
  <2>12. CASE Close
    BY <2>1, <2>12 DEF Close, Closed, Tables
  <2> QED BY <1>8, <2>4, <2>5, <2>6, <2>7, <2>8, <2>9, <2>10, <2>11, <2>12 DEF Thread
<1>9. CASE UNCHANGED vars
  BY <1>2, <1>9 DEF vars
<1> QED BY <1>3, <1>4, <1>5, <1>6, <1>7, <1>8, <1>9 DEF Next, Main

(* Every value in a table was there before, is the dump's, or was written. *)
LEMMA WrittenStep ==
    ASSUME TypeOK, Life, Flow, OldOrWritten(db), OldOrWritten(pend), [Next]_vars
    PROVE  OldOrWritten(db)' /\ OldOrWritten(pend)'
<1>1. CASE Crash
  BY <1>1 DEF Crash, OldOrWritten
<1>2. ASSUME UNCHANGED <<log, base>>, db' \in {db, pend}, pend' \in {db, pend}
      PROVE  OldOrWritten(db)' /\ OldOrWritten(pend)'
  BY <1>2 DEF OldOrWritten
<1>3. ASSUME UNCHANGED <<log, base>>, NEW t, OldOrWritten(t), Stores(t) \/ Fails
      PROVE  OldOrWritten(db)' /\ OldOrWritten(pend)'
  BY <1>3 DEF OldOrWritten, Stores, Fails
<1>4. CASE Write
  <2>1. /\ Len(log) \in Nat /\ Len(log') = Len(log) + 1 /\ \A i \in 1..Len(log) : log'[i] = log[i]
        /\ UNCHANGED <<base, db, pend>>
    BY <1>4 DEF Write, TypeOK, Life, tvars
  <2>2. \A i \in 1..Len(log) : i \in 1..Len(log')
    BY <2>1
  <2> QED BY <2>1, <2>2 DEF OldOrWritten
<1>5. CASE Dump
  <2>1. CASE tpc = "begin" /\ Begin("dump_south")
    BY <1>2, <2>1 DEF Begin, Fails, mvars
  <2>2. ASSUME NEW rows, NEW then, FullDump(rows, then)
        PROVE  OldOrWritten(db)' /\ OldOrWritten(pend)'
    <3>1. OldOrWritten([r \in Rows |-> IF r \in rows THEN 0 ELSE pend[r]])
      BY DEF OldOrWritten
    <3> QED BY <1>3, <2>2, <3>1 DEF FullDump, mvars
  <2> QED BY <1>5, <2>1, <2>2 DEF Dump
<1>6. CASE Put
  <2>1. batch \in Seq(Items) /\ batch /= <<>> /\ mpc \notin {"unload", "done"}
    BY <1>6 DEF Put, Flow, TypeOK, Life
  <2>2. \E i \in 1..Len(log) : batch[1] = log[i]
    BY <2>1, TakenRange
  <2>3. DOMAIN pend = Rows
    BY DEF TypeOK, Table
  <2>4. OldOrWritten([pend EXCEPT ![batch[1].row] = batch[1].value])
    BY <2>2, <2>3 DEF OldOrWritten
  <2> QED BY <1>3, <1>6, <2>4 DEF Put, mvars
<1>7. CASE Commit \/ CheckRunning \/ Poll \/ Close
  BY <1>2, <1>7 DEF Commit, CheckRunning, Poll, Begin, Close, Fails, mvars
<1>8. ASSUME ~Crash, ~Write, ~Dump, ~Put, ~Commit, ~CheckRunning, ~Poll, ~Close
      PROVE  UNCHANGED <<log, base, db, pend>>
  BY <1>8 DEF Next, Main, Thread, Enqueue, RequestStop, Create, CloseWriteEnd, Join, Destroy,
     Unload, Open, OpenFails, Read, vars, mvars, tvars
<1> QED BY <1>1, <1>2, <1>4, <1>5, <1>6, <1>7, <1>8

(* The process starts in the invariant. *)
LEMMA InitInv == Init => IInv
<1> SUFFICES ASSUME Init PROVE IInv
  OBVIOUS
<1>1. pipe = <<>> /\ batch = <<>> /\ log = <<>> /\ tpc = "none" /\ mpc = "load"
  BY DEF Init, Start
<1>2. Len(pipe) = 0 /\ Len(batch) = 0 /\ Len(log) = 0
  BY <1>1
<1>3. TypeOK
  <2>1. [r \in Rows |-> Absent] \in Table
    BY DEF Table
  <2>2. db \in Table /\ pend \in Table /\ base \in Table
    BY <2>1 DEF Init, Start
  <2>3. 0 \in 0..MaxCrashes /\ 0 <= PipeCap /\ 0 <= Batch /\ 0 <= MaxItems
    BY PersistAssumption
  <2>4. pipe \in Seq(Items) /\ batch \in Seq(Items) /\ log \in Seq(Items)
    BY <1>1
  <2> QED BY <1>2, <2>2, <2>3, <2>4 DEF Init, Start, TypeOK
<1>4. Life
  BY DEF Init, Start, Life
<1>5. Flow
  <2>1. Taken = 0 /\ 1..Len(pipe) = {} /\ 1..Len(batch) = {}
    BY <1>2 DEF Taken
  <2>2. Len(pipe) + Len(batch) <= Len(log)
    BY <1>2
  <2>3. tpc \notin {"put", "last_put"} /\ batch = <<>>
    BY <1>1
  <2> QED BY <2>1, <2>2, <2>3, Zenon DEF Flow
<1>6. LastExists
  BY <1>2, AfterZero DEF LastExists
<1>7. Tables /\ OldOrWritten(db) /\ OldOrWritten(pend)
  BY DEF Init, Start, Tables, OldOrWritten
<1> QED BY <1>3, <1>4, <1>5, <1>6, <1>7 DEF IInv

(* The invariant holds throughout. *)
LEMMA Invariance == Spec => []IInv
<1>1. IInv /\ [Next]_vars => IInv'
  BY TypeStep, LifeStep, FlowStep, LastStep, TablesStep, WrittenStep DEF IInv
<1> QED BY <1>1, InitInv, PTL DEF Spec

-------------------------------------------------------------------------------
(* Theorems. *)

(* Program counters, descriptors, pipe, batch and tables stay in their ranges: no read
   overfills the buffer of the thread and the pipe never exceeds its capacity, for every
   pipe size and batch size, with failures and crashes at any moment. *)
THEOREM TypeCorrect == Spec => []TypeOK
<1>1. IInv => TypeOK
  BY DEF IInv
<1> QED BY <1>1, Invariance, PTL

(* The committed table is the one of the start or the dump followed by a prefix of what
   egw_persist_thread_enqueue wrote, in that order, at every moment and so also when the
   process dies, for any number of rows, items and crashes. *)
THEOREM CommittedPrefix == Spec => []DatabaseIsPrefixOfLog
<1>1. IInv => DatabaseIsPrefixOfLog
  <2> SUFFICES ASSUME IInv, ~failed PROVE db = base \/ \E n \in 0..Len(log) : db = After(n)
    BY DEF DatabaseIsPrefixOfLog
  <2>1. Len(log) \in Nat
    BY DEF IInv, TypeOK
  <2>2. CASE mpc \in {"unload", "done"} \/ tpc \in {"close", "exited"}
    <3>1. db = AfterOf(log, Len(log))
      BY <2>2 DEF IInv, Life, Tables
    <3> QED BY <2>1, <3>1, AfterIsAfterOf
  <2>3. CASE mpc \notin {"unload", "done"} /\ tpc \notin {"close", "exited"}
    <3>1. Taken \in 0..Len(log)
      BY <2>3, TakenRange DEF IInv
    <3>2. db = base \/ \E n \in 0..Taken : db = AfterOf(log, n)
      BY <2>1, <2>3, <3>1 DEF IInv, Tables, TypeOK
    <3>3. \A n \in 0..Taken : n \in 0..Len(log)
      BY <2>1, <3>1
    <3> QED BY <3>2, <3>3, AfterIsAfterOf
  <2> QED BY <2>2, <2>3
<1> QED BY <1>1, Invariance, PTL

(* After request_stop and join every value that was written to the pipe is committed,
   whatever the interleaving of the two threads, as long as no SQLite call failed. *)
THEOREM OrderlyStopKeepsAll == Spec => []NothingLostAtShutdown
<1>1. IInv => NothingLostAtShutdown
  BY AfterIsAfterOf DEF IInv, Life, Tables, NothingLostAtShutdown
<1> QED BY <1>1, Invariance, PTL

(* Even when BEGIN, INSERT or COMMIT fail unnoticed, no row ever holds a value that was
   not there before, put there by the dump, or written for that row. *)
THEOREM OnlyWrittenValues == Spec => []StoredValuesWereWritten
<1>1. IInv => StoredValuesWereWritten
  BY DEF IInv, OldOrWritten, StoredValuesWereWritten
<1> QED BY <1>1, Invariance, PTL

(* SQLite, which is built without locks, is never used by the main thread while the
   persistence thread is between its first and its last call. *)
THEOREM OneThreadInSqlite == Spec => []SqliteOneThreadAtATime
<1>1. IInv => SqliteOneThreadAtATime
  BY DEF IInv, Life, SqliteOneThreadAtATime
<1> QED BY <1>1, Invariance, PTL

(* The second close of pipe_fd[1] in egw_persist_thread_destroy never closes a file that
   the persistence thread still has open, nor the pipe: at most the database file whose
   close SQLite put off when that thread was done with it. *)
THEOREM SecondCloseSparesTheThread == Spec => []SecondCloseSparesThread
<1>1. IInv => SecondCloseSparesThread
  BY DEF IInv, Life, SecondCloseSparesThread
<1> QED BY <1>1, Invariance, PTL

===============================================================================
