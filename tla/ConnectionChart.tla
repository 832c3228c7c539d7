--------------------------- MODULE ConnectionChart ---------------------------
(***************************************************************************)
(* The state chart of a connection (hub/connection.rl): for a state and an *)
(* event, the next state and the actions to run on the way.  Ragel stores  *)
(* the target in `cs' before it runs the actions, and an action may `fgoto *)
(* Aborting', which skips the actions after it.  Every pair the chart does *)
(* not name goes to the error state and runs the `error' action, whose two *)
(* halves are listed as half_close and rest_close.  The entry action       *)
(* `begin' and the empty actions (msg_ready, aborted and those of the hate *)
(* states) are left out of the lists: see Hub_queue_conn for `begin'.      *)
(***************************************************************************)
EXTENDS Sequences

Arrow(from, on, to, do) == [from |-> from, on |-> on, to |-> to, do |-> do]

CloseEvents == {"READ_CLOSE", "WRITE_CLOSE"}

(* The handshake: the machine climbs one state per event, or closes.       *)
Opening ==
  {Arrow("start", "OPEN", "Accepting", <<"open">>),
   Arrow("Accepting", "KEY_PRESENT", "KeyCheck", <<"key_prep">>),
   Arrow("KeyCheck", "PASS", "Tuning", <<"tune">>),
   Arrow("Tuning", "PASS", "Registering", <<"register">>),
   Arrow("Registering", "PASS", "Idle", <<"established">>)}

Traffic ==
  {Arrow("Idle", "MSG_RECV", "Delivering", <<"recv">>),
   Arrow("Delivering", "SVC_RECV", "Idle",
         <<"msgid_check", "service", "clear_recv">>),
   Arrow("Idle", "MSG_QUEUED", "Sending", <<>>),
   Arrow("Sending", "MSG_SENT", "Idle", <<"sent", "clear_send">>),
   Arrow("Sending", "FAIL", "Aborting", <<"clear_send">>)}

(* Nothing in the hub raises these events.                                 *)
Hate ==
  {Arrow("Idle", "HATE_APPLY", "Hated", <<>>),
   Arrow("Hated", "HATE_CHALLENGE", "Awaiting", <<>>),
   Arrow("Awaiting", "HATE_PAID", "Validating", <<>>),
   Arrow("Validating", "HATE_VALID", "Idle", <<>>),
   Arrow("Validating", "HATE_INVALID", "Idle", <<>>)}

HalfClosing ==
  {Arrow(s, e, "Closing", <<"half_close">>) :
     s \in {"Accepting", "KeyCheck", "Tuning", "Registering", "Idle"},
     e \in CloseEvents}

RestClosing ==
  {Arrow("Closing", e, "final", <<"rest_close">>) : e \in CloseEvents}

Chart == Opening \cup Traffic \cup Hate \cup HalfClosing \cup RestClosing

States == {"start", "error"} \cup {a.to : a \in Chart}
Events == {a.on : a \in Chart}

(* ConnectionState_done.                                                   *)
Done == {"error", "final"}

(* The arrow that the generated machine takes.  Aborting leaves on any     *)
(* event, the other states only on the events the chart names.             *)
Step(s, e) ==
  IF s = "Aborting"
    THEN Arrow(s, e, "Closing", <<"half_close">>)
    ELSE IF \E a \in Chart : a.from = s /\ a.on = e
           THEN CHOOSE a \in Chart : a.from = s /\ a.on = e
           ELSE Arrow(s, e, "error", <<"half_close", "rest_close">>)
=============================================================================
