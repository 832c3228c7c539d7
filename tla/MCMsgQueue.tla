----------------------------- MODULE MCMsgQueue -----------------------------
(* Model checking of MsgQueue: two messages in a ring of four slots, so    *)
(* the queue fills up and both indices wrap around.                        *)
EXTENDS MsgQueue
=============================================================================
