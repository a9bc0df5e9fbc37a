-------------------------- MODULE MCAppServerTurn --------------------------
(* A server of one thread that also knows another turn and another thread,   *)
(* and may send each kind of line a success or a refusal turns on.           *)
EXTENDS AppServerTurn

CONSTANTS OtherThread, OtherTurn

Event(method, thread, t, item, type, says) ==
  [kind |-> "event", method |-> method, thread |-> thread, turn |-> t,
   item |-> item, type |-> type, says |-> says]

MCLines ==
  {Interactive,
   Event("turn/started", Thread, Turn, None, None, None),
   Event("item/completed", Thread, Turn, "i1", "agentMessage", "text"),
   Event("item/completed", Thread, Turn, "i2", "reasoning", None),
   Event("item/agentMessage/delta", OtherThread, Turn, "i1", None, None),
   Event("turn/completed", Thread, Turn, None, None, "completed"),
   Event("turn/completed", Thread, OtherTurn, None, None, "failed")}
=============================================================================
