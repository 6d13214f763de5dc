------------------------------- MODULE Outbox -------------------------------
(***************************************************************************)
(* What Send of the channel SDK promises to the sidecar that calls it, one *)
(* call per message.  A call is open until Send has made up its mind; then *)
(* the message is refused for good, or accepted.  An accepted message is   *)
(* written to the bus at most once, or thrown away by the client.          *)
(***************************************************************************)
CONSTANT Msgs

VARIABLE status  \* of each message

Statuses == {"idle", "open", "refused", "accepted", "written", "lost"}

\* The moves of one message: nothing leads out of refused, written and lost.
Moves == { <<"idle", "open">>,
           <<"open", "refused">>, <<"open", "accepted">>,
           <<"open", "written">>, <<"open", "lost">>,
           <<"accepted", "written">>, <<"accepted", "lost">> }

Init == status = [m \in Msgs |-> "idle"]

Move(m, to) == /\ <<status[m], to>> \in Moves
               /\ status' = [status EXCEPT ![m] = to]

Call(m) == Move(m, "open")

\* The client, at any time after the call.
Settle(m) == \E to \in {"refused", "accepted", "written", "lost"} : Move(m, to)

\* The client gives up on several messages at once: replayBuffer returns at the
\* first write that fails, and the rest of what it drained is gone.
Abandon ==
  \E S \in SUBSET {m \in Msgs : status[m] = "accepted"} :
    status' = [m \in Msgs |-> IF m \in S THEN "lost" ELSE status[m]]

Next == (\E m \in Msgs : Call(m) \/ Settle(m)) \/ Abandon

Spec == Init /\ [][Next]_status
=============================================================================
