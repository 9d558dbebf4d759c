------------------------------ MODULE MCConfig ------------------------------
(***************************************************************************)
(* Two documents with the same keys at different depths and of different   *)
(* kinds, one whose root is an array, a broken text, an empty file and a   *)
(* text longer than the others, so that a file that grows or shrinks while *)
(* it is loaded is cut.  int32_t is 5 bits wide.                           *)
(***************************************************************************)
EXTENDS Config, TLC

Node(k, v) == [kind |-> k, val |-> v]
Obj == Node("object", NULL)

DocA == <<>> :> Obj
     @@ <<"n">> :> Node("number", 25)
     @@ <<"a">> :> Obj
     @@ <<"a", "n">> :> Node("number", -57)
     @@ <<"a", "s">> :> Node("string", "x")
     @@ <<"list">> :> Node("array", NULL)
     @@ <<"list", "n">> :> Node("bool", TRUE)

DocB == <<>> :> Obj
     @@ <<"n">> :> Node("number", 205)
     @@ <<"s">> :> Node("string", "y")
     @@ <<"a">> :> Obj
     @@ <<"a", "n">> :> Node("bool", FALSE)
     @@ <<"a", "a">> :> Node("number", -200)

MCFiles == { [size |-> 3, len |-> 3, doc |-> DocA],
             [size |-> 5, len |-> 4, doc |-> DocB],
             [size |-> 3, len |-> 2, doc |-> <<>> :> Node("array", NULL)],
             [size |-> 2, len |-> 0, doc |-> NULL],
             [size |-> 0, len |-> 0, doc |-> NULL] }

MCPaths == {<<>>, <<"n">>, <<"a">>, <<"s">>, <<"list">>, <<"a", "n">>}

MCDefaults == [string |-> "def", number |-> 7, bool |-> TRUE, array |-> 0]
=============================================================================
