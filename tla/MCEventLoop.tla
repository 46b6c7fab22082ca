----------------------------- MODULE MCEventLoop -----------------------------
(* Instances of EventLoop for TLC.                                         *)
EXTENDS EventLoop

CONSTANTS c1, c2

(* `get' takes two units and is answered by two appends, as a bulk string is
   by three: enough for a read and a full buffer to cut it.  `ping' takes one
   of each; `bad' is malformed from its first unit; `huge' never fits into
   in_buf. *)
MCFrameLen == [k \in Kinds |-> CASE k = "get" -> 2 [] k = "huge" -> InMax + 1
                                [] OTHER -> 1]
MCReplyLen == [k \in Kinds |-> IF k = "get" THEN 2 ELSE 1]
MCBadKinds == Kinds \cap {"bad"}
==============================================================================
