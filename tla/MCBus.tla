------------------------------- MODULE MCBus --------------------------------
(***************************************************************************)
(* Two keys, two callbacks, three subscription slots, publishes nested two *)
(* deep: enough for a callback to remove itself or others, for the last    *)
(* entry to move behind both walks, and for the array to fill up.          *)
(***************************************************************************)
EXTENDS EventBus
=============================================================================
