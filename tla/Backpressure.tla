---------------------------- MODULE Backpressure ----------------------------
(***************************************************************************)
(* The watermark arithmetic of internal/ipcbus/ringbuffer.go as operators  *)
(* on a value [items, state]: a FIFO of messages and a flow-control state. *)
(* The code divides in float64; here a watermark is a percentage and the   *)
(* ratio count/size is compared by cross multiplication.                   *)
(***************************************************************************)
EXTENDS Integers, Sequences

CONSTANTS SizeArg,   \* the size handed to NewRingBuffer
          HighArg,   \* the high watermark handed to it, in percent
          LowArg     \* the low watermark handed to it, in percent

ASSUME ArgAssumption == SizeArg \in Int /\ HighArg \in Int /\ LowArg \in Int

-----------------------------------------------------------------------------
\* NewRingBuffer's sanitising of its three arguments.
Size == IF SizeArg <= 0 THEN 1024 ELSE SizeArg
HighMark == IF HighArg <= 0 \/ HighArg > 100 THEN 80 ELSE HighArg
LowMark == IF LowArg <= 0 \/ LowArg >= HighMark THEN 30 ELSE LowArg

States == {"normal", "slow_down"}

ReachesHigh(n) == n * 100 >= HighMark * Size
DropsToLow(n) == n * 100 <= LowMark * Size

\* The flow-control state after a push, or a pop, that leaves n messages.
StateAfterPush(state, n) ==
  IF state = "normal" /\ ReachesHigh(n) THEN "slow_down" ELSE state

\* Faulty variant: any pop lets producers run again.
MutResumeAtOnce(state, n) == "normal"

StateAfterPop(state, n) ==
  IF state = "slow_down" /\ DropsToLow(n) THEN "normal" ELSE state

-----------------------------------------------------------------------------
EmptyQueue == [items |-> <<>>, state |-> "normal"]

HasRoom(q) == Len(q.items) # Size

Pushed(q, m) ==
  IF ~HasRoom(q) THEN q
  ELSE [items |-> Append(q.items, m),
        state |-> StateAfterPush(q.state, Len(q.items) + 1)]

Popped(q) ==
  IF q.items = <<>> THEN q
  ELSE [items |-> Tail(q.items),
        state |-> StateAfterPop(q.state, Len(q.items) - 1)]
=============================================================================
