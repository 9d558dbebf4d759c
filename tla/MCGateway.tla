------------------------------ MODULE MCGateway -----------------------------
(***************************************************************************)
(* Seven databases: the one tools/init_db.py makes with rows out of order; *)
(* a later version with other row counts and a second protocol node that   *)
(* loads southbound again; the first version with other threads and an     *)
(* empty southbound; one with missing tables and columns and an id wider   *)
(* than its field; two malformed trees; no head at all.                    *)
(***************************************************************************)
EXTENDS Gateway

R(d, s) == [dev |-> d, sub |-> s]
T(rows) == [rows |-> rows, cols |-> TRUE]
N(t, d) == [type |-> t, desc |-> d]

Three == <<R(2, 1), R(1, 2), R(1, 1)>>
Two   == <<R(3, 0), R(1, 3)>>

Threads1 == <<<<N("protocol", "m1"), N("port", "")>>>>
Threads2 == <<<<N("protocol", "m1")>>, <<N("sqlite", ""), N("protocol", "m2")>>>>

Manifests == "m1" :> <<"southbound", "ghost", "northbound", "route", "notes">>
             @@ "m2" :> <<"southbound">>

Tables(s, n, r) == "southbound" :> s @@ "northbound" :> n @@ "route" :> r @@ "notes" :> T(<<>>)

DB(v, ts, tables) ==
  [head |-> TRUE, version |-> v, threads |-> ts, manifests |-> Manifests, tables |-> tables]

MCDatabases ==
  { DB(1, Threads1, Tables(T(Three), T(Two), T(Two))),
    DB(2, Threads2, Tables(T(Two), T(Three), T(Three))),
    DB(1, Threads2, Tables(T(<<>>), T(Two), T(Two))),
    DB(3, <<<<N("protocol", ""), N("protocol", "m3")>>, <<N("protocol", "m1")>>>>,
       "southbound" :> [rows |-> Two, cols |-> FALSE] @@ "northbound" :> T(<<R(1, 1), R(65537, 0)>>)),
    DB(0, <<<<N("protocol", "m1")>>, <<>>>>, Tables(T(Three), T(Two), T(Two))),
    DB(4, <<<<N("bridge", "m1")>>>>, Tables(T(Three), T(Two), T(Two))),
    [DB(0, <<>>, Tables(T(Two), T(Two), T(Two))) EXCEPT !.head = FALSE] }
=============================================================================
