-------------------------- MODULE BackpressureQueue --------------------------
(***************************************************************************)
(* What a RingBuffer promises its callers: a bounded FIFO queue whose      *)
(* calls report when the flow-control state has just changed.  "ret" is    *)
(* what the latest call returned.                                          *)
(***************************************************************************)
EXTENDS Backpressure

CONSTANTS Msg,   \* the messages
          Nil    \* the nil *Message

VARIABLES queue, ret

qvars == <<queue, ret>>

NoCall == [op |-> "new", ok |-> TRUE, msg |-> Nil, changed |-> FALSE]

QInit == queue = EmptyQueue /\ ret = NoCall

QPush(m) ==
  /\ queue' = Pushed(queue, m)
  /\ ret' = [op |-> "push", ok |-> HasRoom(queue), msg |-> Nil,
             changed |-> queue'.state # queue.state]

QPop ==
  /\ queue' = Popped(queue)
  /\ ret' = [op |-> "pop", ok |-> TRUE,
             msg |-> IF queue.items = <<>> THEN Nil ELSE Head(queue.items),
             changed |-> queue'.state # queue.state]

QNext == (\E m \in Msg : QPush(m)) \/ QPop

QSpec == QInit /\ [][QNext]_qvars
=============================================================================
