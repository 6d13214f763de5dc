----------------------------- MODULE RingBuffer -----------------------------
(***************************************************************************)
(* internal/ipcbus/ringbuffer.go: a circular array with a read index, a    *)
(* write index and a count, guarded by a mutex (every call is one step).   *)
(***************************************************************************)
EXTENDS Backpressure

CONSTANTS Msg, Nil

ASSUME NilAssumption == Nil \notin Msg

VARIABLES buf,     \* the slots, 0 .. Size-1
          head,    \* next read position
          tail,    \* next write position
          count,
          state,   \* the flow-control state
          ret      \* what the latest call returned

vars == <<buf, head, tail, count, state, ret>>

Slots == 0 .. Size - 1

Init ==
  /\ buf = [i \in Slots |-> Nil]
  /\ head = 0
  /\ tail = 0
  /\ count = 0
  /\ state = "normal"
  /\ ret = [op |-> "new", ok |-> TRUE, msg |-> Nil, changed |-> FALSE]

\* Push on a full buffer returns at once with ok = false.
PushFull ==
  /\ count = Size
  /\ ret' = [op |-> "push", ok |-> FALSE, msg |-> Nil, changed |-> FALSE]
  /\ UNCHANGED <<buf, head, tail, count, state>>

\* Faulty variant: every push above the watermark reports a change.
MutSignalAlways(m) ==
  /\ count # Size
  /\ buf' = [buf EXCEPT ![tail] = m]
  /\ tail' = (tail + 1) % Size
  /\ count' = count + 1
  /\ state' = StateAfterPush(state, count')
  /\ ret' = [op |-> "push", ok |-> TRUE, msg |-> Nil,
             changed |-> state' = "slow_down"]
  /\ UNCHANGED head

PushStore(m) ==
  /\ count # Size
  /\ buf' = [buf EXCEPT ![tail] = m]
  /\ tail' = (tail + 1) % Size
  /\ count' = count + 1
  /\ state' = StateAfterPush(state, count')
  /\ ret' = [op |-> "push", ok |-> TRUE, msg |-> Nil,
             changed |-> state' # state]
  /\ UNCHANGED head

Push(m) == PushFull \/ PushStore(m)

PopEmpty ==
  /\ count = 0
  /\ ret' = [op |-> "pop", ok |-> TRUE, msg |-> Nil, changed |-> FALSE]
  /\ UNCHANGED <<buf, head, tail, count, state>>

\* Faulty variant: the slot is not cleared and retains the message.
MutKeepSlot ==
  /\ count # 0
  /\ buf' = buf
  /\ head' = (head + 1) % Size
  /\ count' = count - 1
  /\ state' = StateAfterPop(state, count')
  /\ ret' = [op |-> "pop", ok |-> TRUE, msg |-> buf[head],
             changed |-> state' # state]
  /\ UNCHANGED tail

PopTake ==
  /\ count # 0
  /\ buf' = [buf EXCEPT ![head] = Nil]
  /\ head' = (head + 1) % Size
  /\ count' = count - 1
  /\ state' = StateAfterPop(state, count')
  /\ ret' = [op |-> "pop", ok |-> TRUE, msg |-> buf[head],
             changed |-> state' # state]
  /\ UNCHANGED tail

Pop == PopEmpty \/ PopTake

Next == (\E m \in Msg : Push(m)) \/ Pop

Spec == Init /\ [][Next]_vars

-----------------------------------------------------------------------------
\* The i-th oldest message sits i-1 slots after head.
SlotOf(i) == (head + i - 1) % Size

Contents == [i \in 1 .. count |-> buf[SlotOf(i)]]

Queue == INSTANCE BackpressureQueue
           WITH queue <- [items |-> Contents, state |-> state]

\* The variables keep their types.
TypeOK ==
  /\ buf \in [Slots -> Msg \cup {Nil}]
  /\ head \in Slots
  /\ tail \in Slots
  /\ count \in 0 .. Size
  /\ state \in States
  /\ ret \in [op : {"new", "push", "pop"}, ok : BOOLEAN,
              msg : Msg \cup {Nil}, changed : BOOLEAN]

\* The three indices agree, and exactly the window of count slots from head
\* holds messages: a slot that Pop has emptied retains no reference, and no
\* stored message lies outside the window a later Pop will read.
WindowExact ==
  /\ tail = (head + count) % Size
  /\ \A s \in Slots :
        (buf[s] # Nil) <=> (\E i \in 1 .. count : s = SlotOf(i))

\* Hysteresis of the doc comment on RingBuffer: below the high watermark
\* whenever producers run freely, above the low one whenever they are told to
\* slow down.
Hysteresis ==
  /\ state = "normal" => ~ReachesHigh(count)
  /\ state = "slow_down" => ~DropsToLow(count)

\* The circular array implements the bounded FIFO with the same return values.
ImplementsQueue == Queue!QSpec
=============================================================================
