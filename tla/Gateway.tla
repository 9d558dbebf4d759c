------------------------------ MODULE Gateway -------------------------------
(***************************************************************************)
(* The life of the gateway process: egw_app_run (src/app/egw_app.c) and    *)
(* the point table layer (src/ptable/egw_ptable.c) it loads its            *)
(* configuration through.  config.db belongs to others as well: between    *)
(* any two statements another process may commit a change (Edit), and any  *)
(* statement may fail (SQLITE_BUSY after the busy timeout, an I/O error),  *)
(* as may an allocation.  One action per SQL statement, because each runs  *)
(* in a transaction of its own; the thread list and the node lists nested  *)
(* in it are read in one, while the outer statement is open.               *)
(*                                                                         *)
(* The loopback and the persistence thread are Loopback and PersistThread; *)
(* here each is one step with the outcomes those modules show.             *)
(***************************************************************************)
EXTENDS PointTable, FiniteSets, SequencesExt

CONSTANTS Databases,    \* what config.db may hold
          NULL,         \* the NULL pointer
          MaxFailures,  \* bound: statements and allocations that fail
          MaxEdits      \* bound: changes other processes commit

Nodes == [type : STRING, desc : STRING]
Rows  == [dev : Int, sub : Int]

(***************************************************************************)
(* A database: head (egw_head exists), version (0 when its row is          *)
(* missing), threads (a sequence of nodes for every thread row), manifests *)
(* (manifest table -> the table names it lists, which are its primary      *)
(* key), tables (business table -> rows, cols: it has every column of the  *)
(* schema).                                                                *)
(***************************************************************************)
IsDatabase(d) ==
  /\ d.head \in BOOLEAN /\ d.version \in Int /\ d.threads \in Seq(Seq(Nodes))
  /\ \A m \in DOMAIN d.manifests : d.manifests[m] \in Seq(STRING) /\ IsInjective(d.manifests[m])
  /\ \A t \in DOMAIN d.tables : d.tables[t].rows \in Seq(Rows) /\ d.tables[t].cols \in BOOLEAN

ASSUME GatewayAssumption ==
  /\ MaxFailures \in Nat /\ MaxEdits \in Nat
  /\ \A d \in Databases : IsDatabase(d)

VARIABLES
  db, edits,              \* external: the database and its changes so far
  pc,                     \* where egw_app_run is
  head,                   \* the egw_head_t
  at,                     \* the thread and the node the walk has reached
  names,                  \* discovered tables still to load
  count,                  \* what SELECT COUNT(*) said
  master_rs, slave_rs,    \* the row sets
  held,                   \* resources not yet given back
  openedOn,               \* history: the threads in the database at ptable_open
  silent,                 \* history: a change that did not raise the version
  failures,               \* history: statements and allocations that failed
  calm,                   \* history: no change or failure since the COUNT
  lost,                   \* history: a row set was overwritten, not freed
  ran                     \* history: the loopback ran to its end

input   == <<db, edits>>
loader  == <<head, at, names, count>>
history == <<openedOn, silent, failures, calm, lost, ran>>
vars    == <<input, pc, loader, master_rs, slave_rs, held, history>>

Final == {"done", "failed", "crashed", "overrun"}

Init == /\ db \in Databases /\ edits = 0
        /\ pc = "head_open"
        /\ head = NULL /\ at = <<1, 1>> /\ names = <<>> /\ count = 0
        /\ master_rs = NULL /\ slave_rs = NULL /\ held = {}
        /\ openedOn = NULL /\ silent = FALSE /\ failures = 0
        /\ calm = TRUE /\ lost = FALSE /\ ran = FALSE

\* A step that goes on as intended, and one in which something fails.
Works == failures' = failures
Fails == failures < MaxFailures /\ failures' = failures + 1

\* A step without a result: for the reason given, or because it fails.
Barren(reason) == (reason /\ Works) \/ Fails

-----------------------------------------------------------------------------
(* Another process commits a change. *)
Edit ==
  /\ edits < MaxEdits /\ pc \notin Final
  /\ edits' = edits + 1
  /\ db' \in Databases \ {db}
  /\ silent' = (silent \/ db'.version <= db.version)
  /\ calm' = (calm /\ db'.tables = db.tables)
  /\ UNCHANGED <<pc, loader, master_rs, slave_rs, held, openedOn, failures, lost, ran>>

-----------------------------------------------------------------------------
(* egw_ptable_head_load. *)

\* sqlite3_open_v2.  A failed open leaves a connection that is never closed.
HeadOpen ==
  /\ pc = "head_open"
  /\ \/ Works /\ pc' = "head_root" /\ held' = {"head_db"}
     \/ Fails /\ pc' = "failed" /\ held' = {"lost_db"}
  /\ UNCHANGED <<input, loader, master_rs, slave_rs, openedOn, silent, calm, lost, ran>>

\* The root row is looked for but need not be there, and a query that fails
\* goes unnoticed.  Without egw_head the statement cannot be prepared.  When the head cannot be allocated the
\* statement is still open and sqlite3_close refuses to close.
HeadRoot ==
  /\ pc = "head_root"
  /\ \/ db.head /\ (Works \/ Fails) /\ pc' = "head_version" /\ held' = held \cup {"head"}
     \/ Barren(~db.head) /\ pc' = "failed" /\ held' = {}
     \/ Fails /\ pc' = "failed" /\ held' = {"lost_db"}
  /\ UNCHANGED <<input, loader, master_rs, slave_rs, openedOn, silent, calm, lost, ran>>

\* A version that cannot be read is 0.
HeadVersion ==
  /\ pc = "head_version"
  /\ \/ Works /\ head' = [version |-> db.version, threads |-> <<>>]
     \/ Fails /\ head' = [version |-> 0, threads |-> <<>>]
  /\ pc' = "head_threads"
  /\ UNCHANGED <<input, at, names, count, master_rs, slave_rs, held, openedOn,
                 silent, calm, lost, ran>>

NodeTypes == {"protocol", "port", "sqlite"}

\* load_thread_nodes returns NULL for an empty list and an unknown type.
WellFormed(ts) ==
  \A t \in DOMAIN ts : ts[t] # <<>> /\ \A n \in DOMAIN ts[t] : ts[t][n].type \in NodeTypes

Shortened(s) == {SubSeq(s, 1, k) : k \in 0..(Len(s) - 1)}

\* A step that fails ends its list as if there were no more rows.
CutShort(ts) ==
  Shortened(ts) \cup UNION {{[ts EXCEPT ![t] = s] : s \in Shortened(ts[t])} : t \in DOMAIN ts}

\* Mutant of HeadThreads: a malformed tree is refused without closing the database.
HeadThreadsKeepsDb ==
  /\ pc = "head_threads"
  /\ Works /\ head' = [head EXCEPT !.threads = db.threads]
  /\ IF WellFormed(head'.threads)
     THEN pc' = "open" /\ held' = held \ {"head_db"}
     ELSE pc' = "failed" /\ held' = held \ {"head"}
  /\ UNCHANGED <<input, at, names, count, master_rs, slave_rs, openedOn, silent,
                 calm, lost, ran>>

\* The thread rows and, for each, its node rows.
HeadThreads ==
  /\ pc = "head_threads"
  /\ \/ Works /\ head' = [head EXCEPT !.threads = db.threads]
     \/ Fails /\ \E ts \in CutShort(db.threads) : head' = [head EXCEPT !.threads = ts]
  /\ IF WellFormed(head'.threads)
     THEN pc' = "open" /\ held' = held \ {"head_db"}
     ELSE pc' = "failed" /\ held' = held \ {"head_db", "head"}
  /\ UNCHANGED <<input, at, names, count, master_rs, slave_rs, openedOn, silent,
                 calm, lost, ran>>

-----------------------------------------------------------------------------
(* egw_ptable_open: the version must still be the one the head was read with. *)

\* Mutant of Open: the version is not compared.
OpenUnchecked ==
  /\ pc = "open"
  /\ Works /\ db.head
  /\ pc' = "walk" /\ held' = held \cup {"pt"} /\ openedOn' = db.threads
  /\ UNCHANGED <<input, loader, master_rs, slave_rs, silent, calm, lost, ran>>

Open ==
  /\ pc = "open"
  /\ \/ /\ \/ Works /\ db.head /\ db.version = head.version
           \/ Fails /\ db.head /\ head.version = 0
        /\ pc' = "walk" /\ held' = held \cup {"pt"} /\ openedOn' = db.threads
     \/ /\ Barren(~db.head \/ db.version # head.version)
        /\ pc' = "failed" /\ held' = held \ {"head"}
        /\ UNCHANGED openedOn
     \/ /\ Fails
        /\ pc' = "failed" /\ held' = (held \ {"head"}) \cup {"lost_db"}
        /\ UNCHANGED openedOn
  /\ UNCHANGED <<input, loader, master_rs, slave_rs, silent, calm, lost, ran>>

-----------------------------------------------------------------------------
(* The walk over the threads and their nodes. *)

thread == head.threads[at[1]]
node   == thread[at[2]]

\* Only a protocol node with a manifest leads to work.
Walk ==
  /\ pc = "walk"
  /\ IF at[1] > Len(head.threads) THEN pc' = "decide" /\ UNCHANGED at
     ELSE IF at[2] > Len(thread) THEN at' = <<at[1] + 1, 1>> /\ UNCHANGED pc
     ELSE IF node.type = "protocol" /\ node.desc # "" THEN pc' = "discover" /\ UNCHANGED at
     ELSE at' = <<at[1], at[2] + 1>> /\ UNCHANGED pc
  /\ UNCHANGED <<input, head, names, count, master_rs, slave_rs, held, history>>

\* Those of the listed tables that exist, in the order of the list.
Existing(listed, tables) ==
  LET upto[i \in 0..Len(listed)] ==
        IF i = 0 THEN <<>>
        ELSE IF listed[i] \in tables THEN Append(upto[i - 1], listed[i]) ELSE upto[i - 1]
  IN  upto[Len(listed)]

Discovered == Existing(db.manifests[node.desc], DOMAIN db.tables)

\* The capacities at which valid_cb lets its list grow.
Capacities == {0} \cup {2 ^ k : k \in 2..16}

\* egw_ptable_discover: no manifest table or a failure, and the node is passed
\* over; a name for which the list cannot grow is left out.
Discover ==
  /\ pc = "discover"
  /\ \/ /\ node.desc \in DOMAIN db.manifests
        /\ \/ Works /\ names' = Discovered
           \/ /\ Fails
              /\ \E i \in DOMAIN Discovered : i - 1 \in Capacities /\ names' = RemoveAt(Discovered, i)
        /\ pc' = "load" /\ held' = held \cup {"manifest"} /\ UNCHANGED at
     \/ /\ Barren(node.desc \notin DOMAIN db.manifests)
        /\ pc' = "walk" /\ at' = <<at[1], at[2] + 1>> /\ UNCHANGED <<names, held>>
  /\ UNCHANGED <<input, head, count, master_rs, slave_rs, openedOn, silent, calm, lost, ran>>

Loadable == {"southbound", "northbound", "route"}

\* Mutant of NextTable: only the first table of a manifest is loaded.
NextTableFirstOnly ==
  /\ pc = "load"
  /\ IF names = <<>> \/ master_rs # NULL
     THEN pc' = "walk" /\ at' = <<at[1], at[2] + 1>> /\ held' = held \ {"manifest"}
                       /\ UNCHANGED names
     ELSE IF Head(names) \in Loadable THEN pc' = "count" /\ UNCHANGED <<at, names, held>>
     ELSE names' = Tail(names) /\ UNCHANGED <<pc, at, held>>
  /\ UNCHANGED <<input, head, count, master_rs, slave_rs, history>>

\* The loop over the discovered tables; the manifest is freed after it.
NextTable ==
  /\ pc = "load"
  /\ IF names = <<>>
     THEN pc' = "walk" /\ at' = <<at[1], at[2] + 1>> /\ held' = held \ {"manifest"}
                       /\ UNCHANGED names
     ELSE IF Head(names) \in Loadable THEN pc' = "count" /\ UNCHANGED <<at, names, held>>
     ELSE names' = Tail(names) /\ UNCHANGED <<pc, at, held>>
  /\ UNCHANGED <<input, head, count, master_rs, slave_rs, history>>

-----------------------------------------------------------------------------
(* egw_ptable_register and its callers. *)

table == Head(names)

\* The callers keep the result, whatever their pointer held before.
egw_modbus_master_load(rs) ==
  master_rs' = rs /\ lost' = (lost \/ master_rs # NULL) /\ UNCHANGED slave_rs
egw_modbus_slave_load(rs) ==
  slave_rs' = rs /\ lost' = (lost \/ slave_rs # NULL) /\ UNCHANGED master_rs

\* The route table is only listed, then freed.
egw_route_load == UNCHANGED <<master_rs, slave_rs, lost>>

RegisterReturns(rs) ==
  /\ names' = Tail(names) /\ pc' = "load"
  /\ CASE table = "southbound" -> egw_modbus_master_load(rs)
       [] table = "northbound" -> egw_modbus_slave_load(rs)
       [] table = "route"      -> egw_route_load

\* Mutant of Count: a device with several rows counts once.
CountDevices ==
  /\ pc = "count"
  /\ \/ /\ Works /\ table \in DOMAIN db.tables
        /\ count' = Cardinality({r.dev : r \in Range(db.tables[table].rows)})
        /\ calm' = TRUE /\ pc' = "select"
        /\ UNCHANGED <<names, master_rs, slave_rs, lost>>
     \/ /\ Works /\ table \notin DOMAIN db.tables
        /\ RegisterReturns(NULL) /\ UNCHANGED <<count, calm>>
  /\ UNCHANGED <<input, head, at, held, openedOn, silent, ran>>

\* SELECT COUNT(*): a step that fails counts 0 rows.
Count ==
  /\ pc = "count"
  /\ \/ /\ table \in DOMAIN db.tables
        /\ \/ Works /\ count' = Len(db.tables[table].rows) /\ calm' = TRUE
           \/ Fails /\ count' = 0 /\ calm' = FALSE
        /\ pc' = "select" /\ UNCHANGED <<names, master_rs, slave_rs, lost>>
     \/ /\ Barren(table \notin DOMAIN db.tables)
        /\ RegisterReturns(NULL) /\ UNCHANGED <<count, calm>>
  /\ UNCHANGED <<input, head, at, held, openedOn, silent, ran>>

\* The row set: count rows, the ones not selected are zero.  of and calm are
\* history: the table's rows, and whether the load was undisturbed.
RowSet(selected, calmly) ==
  [rows |-> [i \in 1..count |-> IF i <= Len(selected) THEN StoredRow(selected[i]) ELSE ZeroRow],
   of |-> db.tables[table].rows, calm |-> calmly]

\* The columns are only resolved when there is a row; a missing one ends the load.
resolve_cols(selected) == selected # <<>> => db.tables[table].cols

\* SELECT * ... ORDER BY: the rows are copied one after the other into the
\* space for count rows.
Select ==
  /\ pc = "select"
  /\ \/ /\ table \in DOMAIN db.tables
        /\ LET t == db.tables[table]
           IN  \E selected \in {OrderBy(t.rows)} \cup Shortened(OrderBy(t.rows)) :
                 /\ IF Len(selected) = Len(t.rows) THEN Works ELSE Fails
                 /\ IF ~resolve_cols(selected) THEN RegisterReturns(NULL)
                    ELSE IF Len(selected) > count
                    THEN pc' = "overrun" /\ UNCHANGED <<names, master_rs, slave_rs, lost>>
                    ELSE RegisterReturns(RowSet(selected, calm /\ Len(selected) = Len(t.rows)))
     \/ /\ Barren(table \notin DOMAIN db.tables)
        /\ RegisterReturns(NULL)
  /\ UNCHANGED <<input, head, at, count, held, openedOn, silent, calm, ran>>

-----------------------------------------------------------------------------
(* The rest of egw_app_run. *)

Decide ==
  /\ pc = "decide"
  /\ pc' = IF master_rs # NULL /\ slave_rs # NULL THEN "persist" ELSE "release"
  /\ UNCHANGED <<input, loader, master_rs, slave_rs, held, history>>

\* The thread function is started also without a context, and uses it.
StartPersist ==
  /\ pc = "persist"
  /\ \/ Works /\ pc' = "loopback" /\ held' = held \cup {"persist"}
     \/ Fails /\ pc' = "crashed" /\ UNCHANGED held
  /\ UNCHANGED <<input, loader, master_rs, slave_rs, openedOn, silent, calm, lost, ran>>

\* run_modbus_loopback reads row 0 of southbound, which is NULL in an empty
\* set; a set-up that fails closes handles that were never initialised.  When
\* uv_loop_init fails it returns before that, without having run.
RunLoopback ==
  /\ pc = "loopback"
  /\ \/ Works /\ master_rs.rows # <<>> /\ pc' = "stop" /\ ran' = TRUE
     \/ Barren(master_rs.rows = <<>>) /\ pc' = "crashed" /\ UNCHANGED ran
     \/ Fails /\ pc' = "stop" /\ UNCHANGED ran
  /\ UNCHANGED <<input, loader, master_rs, slave_rs, held, openedOn, silent, calm, lost>>

\* request_stop, join, destroy.
StopPersist ==
  /\ pc = "stop"
  /\ pc' = "release" /\ held' = held \ {"persist"}
  /\ UNCHANGED <<input, loader, master_rs, slave_rs, history>>

\* Both row sets, the point table and the head are freed.
Release ==
  /\ pc = "release"
  /\ pc' = "done" /\ held' = held \ {"pt", "head"}
  /\ master_rs' = NULL /\ slave_rs' = NULL
  /\ UNCHANGED <<input, loader, history>>

Step == \/ HeadOpen \/ HeadRoot \/ HeadVersion \/ HeadThreads \/ Open
        \/ Walk \/ Discover \/ NextTable \/ Count \/ Select
        \/ Decide \/ StartPersist \/ RunLoopback \/ StopPersist \/ Release

Next == Step \/ Edit \/ (pc \in Final /\ UNCHANGED vars)

\* The process is never stopped from outside.
Spec == Init /\ [][Next]_vars /\ WF_vars(Step)

-----------------------------------------------------------------------------
RowSets == {rs \in {master_rs, slave_rs} : rs # NULL}

\* The stored fields fit their width, whatever integers the database holds.
TypeOK ==
  /\ db \in Databases /\ edits \in 0..MaxEdits /\ failures \in 0..MaxFailures
  /\ pc \in Final \cup {"head_open", "head_root", "head_version", "head_threads",
                       "open", "walk", "discover", "load", "count", "select",
                       "decide", "persist", "loopback", "stop", "release"}
  /\ count \in Nat
  /\ held \subseteq {"head_db", "lost_db", "head", "pt", "manifest", "persist"}
  /\ \A rs \in RowSets : rs.rows \in Seq([dev : 0..UINT16_MAX, sub : 0..UINT16_MAX])

\* "Open the database, check that the version matches the head": as long as
\* every change raises the version, a point table is only opened if the head
\* tree, read earlier through another connection, is the one in the database
\* at that moment.  A failed read is the exception: it shortens the tree or
\* zeroes the version unnoticed.
StaleTopologyRefused ==
  openedOn # NULL /\ ~silent /\ failures = 0 => head.threads = openedOn

\* The rows are counted by one query and copied by another.  The copy runs
\* past the allocated rows only if the table changed or a query failed in
\* between.
OverrunOnlyWhenDisturbed == pc = "overrun" => ~calm

InRange(rows) ==
  \A i \in DOMAIN rows : rows[i].dev \in 0..UINT16_MAX /\ rows[i].sub \in 0..UINT16_MAX

\* A row set whose load was not disturbed answers every lookup as the table
\* does: it finds a row with the key exactly if the table has one.  Columns
\* wider than the fields are excluded: SQL orders their full values and the
\* search compares the cut ones.
LookupFindsRow ==
  \A rs \in RowSets : rs.calm /\ InRange(rs.of) =>
    \A key \in Range(rs.of) \cup [dev : 0..3, sub : 0..3] :
      LET i == rs_lookup(rs.rows, key)
      IN  IF key \in Range(rs.of) THEN i # 0 /\ rs.rows[i] = key ELSE i = 0

Protocols(ts) ==
  UNION {{<<t, n>> : n \in {m \in DOMAIN ts[t] : ts[t][m].type = "protocol"}} : t \in DOMAIN ts}

\* egw_app_run gives everything back on every path it returns by.  Left
\* behind are only a connection whose open failed (or whose statement was
\* still open when the head could not be allocated), and the first row set
\* when a second protocol node loads the same table again.
NothingHeldAtReturn ==
  pc \in {"done", "failed"} =>
    /\ held \subseteq {"lost_db"}
    /\ held # {} => failures > 0
    /\ lost => Cardinality(Protocols(head.threads)) > 1

\* The configuration names both tables, the schema is complete and there is
\* something to poll.
Good ==
  /\ db.head /\ WellFormed(db.threads)
  /\ {"southbound", "northbound"} \subseteq DOMAIN db.tables
  /\ \A t \in DOMAIN db.tables : db.tables[t].cols
  /\ db.tables["southbound"].rows # <<>>
  /\ \A t \in {"southbound", "northbound"} : \E p \in Protocols(db.threads) :
       LET d == db.threads[p[1]][p[2]].desc
       IN  d \in DOMAIN db.manifests /\ t \in Range(db.manifests[d])

\* The process ends, whatever the database holds and whatever fails.  With a good
\* configuration, nobody changing it and nothing failing, it has then run its
\* loopback: each thread's nodes are walked to the end and both tables found.
AppEnds ==
  /\ <>(pc \in Final)
  /\ Good /\ [](edits = 0 /\ failures = 0) => <>(pc = "done" /\ ran)
=============================================================================
