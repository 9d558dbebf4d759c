------------------------------ MODULE FrameQueue ------------------------------
(***************************************************************************)
(* What a Modbus RTU server promises about the bytes it is given, with no  *)
(* ring: they form a first-in first-out queue.  Bytes leave it only as the *)
(* complete request at its front, or all together when the front cannot be *)
(* a request or when more arrives than the queue can hold.  While a reply  *)
(* is pending nothing is taken.                                            *)
(***************************************************************************)
EXTENDS ModbusCore

CONSTANTS Chunks, Cap, MaxFrame

VARIABLES q, reply

Init == q = <<>> /\ reply = <<>>

(* The part of s the delimiter looks at. *)
Front(s) == SubSeq(s, 1, IF Len(s) > MaxFrame THEN MaxFrame ELSE Len(s))

(* r is a reply to request f: the same unit, the same function code or, for an
   exception, the same one up to its high bit. *)
IsReply(r, f) == r[1] = f[1] /\ r[2] % 128 = f[2] % 128

(* The server looks at the queue s once. *)
Serve(s) ==
    LET p == parse_and_check(Front(s))
    IN  \/ p.res = "NEED_MORE" /\ q' = s /\ reply' = <<>>
        \/ p.res = "FRAME_ERROR" /\ q' = <<>> /\ reply' = <<>>
        \/ /\ p.res = "FRAME_READY"
           /\ q' = SubSeq(s, p.len + 1, Len(s))
           /\ reply' /= <<>> => IsReply(reply', s)

Arrive(data) ==
    \/ Len(q) + Len(data) > Cap /\ q' = <<>> /\ UNCHANGED reply
    \/ /\ Len(q) + Len(data) <= Cap
       /\ \/ reply /= <<>> /\ q' = q \o data /\ UNCHANGED reply
          \/ reply = <<>> /\ Serve(q \o data)

Next == (\E data \in Chunks : Arrive(data)) \/ Serve(q)

Spec == Init /\ [][Next]_<<q, reply>>

===============================================================================
