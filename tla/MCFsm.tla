------------------------------- MODULE MCFsm --------------------------------
(***************************************************************************)
(* Three states and dispatches nested three deep: a handler's nested       *)
(* dispatch can move the machine away, and another one move it back.       *)
(***************************************************************************)
EXTENDS StateMachine
=============================================================================
