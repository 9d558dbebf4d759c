------------------------------ MODULE MCPersist ------------------------------
(***************************************************************************)
(* Small instances of PersistThread.                                       *)
(***************************************************************************)
EXTENDS PersistThread

SouthRows == {"s1"}
NorthRows == {"n1", "n2"}

(* Two values of one row, so that their order shows, and one of the other. *)
ThreeItems == {[row |-> "n1", value |-> 7], [row |-> "n1", value |-> 8],
               [row |-> "n2", value |-> 7]}

-------------------------------------------------------------------------------
(* What the documents say of the persistence thread and the code does not do. *)

(* persist_thread.c:85 calls the flush at the end the last one, and the thread is
   a poll loop with an interval (persist_thread.h:3): while the gateway runs, a
   value that was handed over reaches the database. *)
ValuesReachDatabase == (log /= <<>>) ~> (\E r \in North : db[r] \in Values)

==============================================================================
