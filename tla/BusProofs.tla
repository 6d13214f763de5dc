------------------------------ MODULE BusProofs ------------------------------
(***************************************************************************)
(* Proofs about IPCBus for any channels, messages, bridges and faults.     *)
(* The bus is a use of the write-ahead log: each of its steps is a step of *)
(* WAL or leaves the log alone, so what WALProofs shows of the log holds   *)
(* in the bus, too.  On top of that the proofs follow a message from the   *)
(* bridge to the record that completes it, and count the messages of a     *)
(* channel between Push and Pop.                                           *)
(***************************************************************************)
EXTENDS IPCBus, WALProofs

-----------------------------------------------------------------------------
(* One ring buffer, as Push and Pop of a handler change it.                 *)

LEMMA SizeType == Size \in Nat \ {0}
BY ArgAssumption DEF Size

LEMMA MarksType == HighMark \in 1 .. 100 /\ LowMark \in 1 .. 100
BY ArgAssumption DEF HighMark, LowMark

Queues == [items : Seq(Id), state : States]

LEMMA PushedQueue ==
  ASSUME NEW q \in Queues, NEW m \in Id
  PROVE  /\ Pushed(q, m) \in Queues /\ Len(q.items) \in Nat
         /\ HasRoom(q) => /\ Len(Pushed(q, m).items) = Len(q.items) + 1
                          /\ Pushed(q, m).state = StateAfterPush(q.state, Len(q.items) + 1)
<1>1. q.items \in Seq(Id) /\ q.state \in States
  BY Zenon DEF Queues
<1>2. /\ Append(q.items, m) \in Seq(Id) /\ Len(q.items) \in Nat
      /\ Len(Append(q.items, m)) = Len(q.items) + 1
  BY <1>1
<1>3. StateAfterPush(q.state, Len(q.items) + 1) \in States
  BY <1>1, Zenon DEF StateAfterPush, States
<1> QED
  BY <1>2, <1>3, Zenon DEF Pushed, Queues

LEMMA PoppedQueue ==
  ASSUME NEW q \in Queues
  PROVE  /\ Popped(q) \in Queues /\ Len(q.items) \in Nat
         /\ q.items = <<>> <=> Len(q.items) = 0
         /\ q.items # <<>> => /\ Len(Popped(q).items) = Len(q.items) - 1
                              /\ Len(Popped(q).items) \in Nat
                              /\ Popped(q).state = StateAfterPop(q.state, Len(q.items) - 1)
<1>1. q.items \in Seq(Id) /\ q.state \in States
  BY Zenon DEF Queues
<1>2. /\ Len(q.items) \in Nat /\ (q.items = <<>> <=> Len(q.items) = 0)
      /\ q.items # <<>> => /\ Tail(q.items) \in Seq(Id) /\ Len(Tail(q.items)) = Len(q.items) - 1
                           /\ Len(q.items) - 1 \in Nat
  BY <1>1
<1>3. StateAfterPop(q.state, Len(q.items) - 1) \in States
  BY <1>1, Zenon DEF StateAfterPop, States
<1> QED
  BY <1>2, <1>3, Zenon DEF Popped, Queues

\* A buffer that fits its array and whose state agrees with its watermarks.
Flows(q) ==
  /\ q \in Queues /\ Len(q.items) <= Size
  /\ q.state = "normal" => ~ReachesHigh(Len(q.items))
  /\ q.state = "slow_down" => ~DropsToLow(Len(q.items))

LEMMA MarksApart ==
  ASSUME LowMark < HighMark, NEW n \in Nat
  PROVE  /\ ReachesHigh(n) => ~DropsToLow(n) /\ ReachesHigh(n + 1)
         /\ DropsToLow(n + 1) => DropsToLow(n)
<1> DEFINE h == HighMark * Size
           l == LowMark * Size
<1>1. h \in Int /\ l \in Int /\ l < h
  BY MarksType, SizeType, Z3
<1>2. /\ n * 100 >= h => ~(n * 100 <= l) /\ (n + 1) * 100 >= h
      /\ (n + 1) * 100 <= l => n * 100 <= l
  <2> HIDE DEF h, l
  <2> QED
    BY <1>1
<1> QED
  BY <1>2 DEF ReachesHigh, DropsToLow

LEMMA EmptyFlows == Flows(EmptyQueue) /\ DropsToLow(0)
<1>1. /\ EmptyQueue \in Queues /\ Len(EmptyQueue.items) = 0
      /\ EmptyQueue.state = "normal" /\ "normal" # "slow_down"
  BY DEF EmptyQueue, Queues, States
<1>2. HighMark * Size \in Int /\ HighMark * Size > 0 /\ LowMark * Size > 0 /\ LowMark * Size \in Int
  BY MarksType, SizeType, Z3
<1>3. ~ReachesHigh(0) /\ DropsToLow(0) /\ 0 <= Size
  BY <1>2, SizeType DEF ReachesHigh, DropsToLow
<1> QED
  BY <1>1, <1>3, Zenon DEF Flows

LEMMA PushFlows ==
  ASSUME LowMark < HighMark, NEW q, Flows(q), NEW m \in Id
  PROVE  Flows(Pushed(q, m))
<1>1. CASE ~HasRoom(q)
  BY <1>1, Zenon DEF Pushed
<1>2. CASE HasRoom(q)
  <2> DEFINE u == Pushed(q, m)
             n == Len(q.items)
  <2>1. /\ u \in Queues /\ n \in Nat /\ n <= Size /\ n # Size /\ q.state \in States
        /\ Len(u.items) = n + 1 /\ u.state = StateAfterPush(q.state, n + 1)
    BY <1>2, PushedQueue, Zenon DEF Flows, HasRoom, Queues
  <2> HIDE DEF u, n
  <2>2. n + 1 \in Nat /\ n + 1 <= Size
    BY <2>1, SizeType
  <2>3. /\ ReachesHigh(n + 1) => ~DropsToLow(n + 1)
        /\ DropsToLow(n + 1) => DropsToLow(n)
    BY <2>1, <2>2, MarksApart, Zenon
  <2>4. q.state = "slow_down" => ~DropsToLow(n)
    BY Zenon DEF Flows, n
  <2>5. Flows(u)
    BY <2>1, <2>2, <2>3, <2>4, Zenon DEF Flows, StateAfterPush, States
  <2> QED
    BY <2>5, Zenon DEF u
<1> QED
  BY <1>1, <1>2, Zenon

LEMMA PopFlows ==
  ASSUME LowMark < HighMark, NEW q, Flows(q)
  PROVE  Flows(Popped(q))
<1>1. CASE q.items = <<>>
  BY <1>1, Zenon DEF Popped
<1>2. CASE q.items # <<>>
  <2> DEFINE u == Popped(q)
             n == Len(q.items)
  <2>1. /\ u \in Queues /\ n \in Nat /\ n <= Size /\ n - 1 \in Nat /\ q.state \in States
        /\ Len(u.items) = n - 1 /\ u.state = StateAfterPop(q.state, n - 1)
    BY <1>2, PoppedQueue, Zenon DEF Flows, Queues
  <2> HIDE DEF u, n
  <2>2. n - 1 <= Size /\ n = (n - 1) + 1
    BY <2>1, SizeType
  <2>3. ReachesHigh(n - 1) => ~DropsToLow(n - 1) /\ ReachesHigh(n)
    BY <2>1, <2>2, MarksApart, Zenon
  <2>4. q.state = "normal" => ~ReachesHigh(n)
    BY Zenon DEF Flows, n
  <2>5. Flows(u)
    BY <2>1, <2>2, <2>3, <2>4, Zenon DEF Flows, StateAfterPop, States
  <2> QED
    BY <2>5, Zenon DEF u
<1> QED
  BY <1>1, <1>2, Zenon

-----------------------------------------------------------------------------
(* The handlers.                                                            *)

\* A handler that works on a message has one; so does the replay.
HandlerInv ==
  /\ pc = [c \in Conn |-> pc[c]] /\ cur = [c \in Conn |-> cur[c]]
  /\ \A c \in Conn : pc[c] \notin {"none", "read"} => cur[c] \in Id
  /\ replaying \subseteq Id
  /\ replayed # NoMsg => replayed \in Id

\* What a step may do to one handler, and to no other.
HandlerStep(c) ==
  /\ \A d \in Conn : d # c => pc'[d] = pc[d] /\ cur'[d] = cur[d]
  /\ pc' = [d \in Conn |-> pc'[d]] /\ cur' = [d \in Conn |-> cur'[d]]

\* The steps inside HandleInbound.
LEMMA HandleStep ==
  ASSUME HandlerInv, NEW c \in Conn, Handle(c)
  PROVE  /\ pc[c] \notin {"none", "read"} /\ HandlerStep(c)
         /\ pc'[c] \in {"none", "read"} \/ cur'[c] = cur[c]
         /\ pc'[c] = "complete" => pc[c] = "send"
         /\ pc'[c] = "put" => pc[c] = "mark"
         /\ UNCHANGED <<replaying, replayed, logged>>
<1> USE DEF HandlerInv, HandlerStep, At, Goto, Finish
<1>1. CASE Push(c)
  BY <1>1, Zenon DEF Push
<1>2. CASE SlowDown(c)
  BY <1>2, Zenon DEF SlowDown
<1>3. CASE BridgeSend(c)
  BY <1>3, Zenon DEF BridgeSend
<1>4. CASE Retry(c)
  BY <1>4 DEF Retry
<1>5. CASE Mark(c)
  BY <1>5, Zenon DEF Mark
<1>6. CASE Put(c)
  BY <1>6, Zenon DEF Put
<1>7. CASE CompleteMsg(c)
  BY <1>7, Zenon DEF CompleteMsg
<1>8. CASE Pop(c)
  BY <1>8, Zenon DEF Pop
<1>9. CASE Resume(c)
  BY <1>9, Zenon DEF Resume
<1> QED
  BY <1>1, <1>2, <1>3, <1>4, <1>5, <1>6, <1>7, <1>8, <1>9, ZenonT(30) DEF Handle

\* A step of the bus is one of a handler, one of the replay or of a new process,
\* or it leaves handlers and replay alone but for handlers that begin or end.
LEMMA OtherStep ==
  ASSUME HandlerInv, [Next]_vars
  PROVE  \/ \E c \in Conn : Handle(c)
         \/ \E c \in Conn, m \in Id : Arrive(c, m)
         \/ Boot \/ ReplayComplete \/ \E id \in Id : ReplaySend(id)
         \/ Die
         \/ /\ UNCHANGED <<cur, replaying, replayed, delivered, logged, dlq>>
            /\ pc' = [c \in Conn |-> pc'[c]]
            /\ \A c \in Conn : pc'[c] = pc[c] \/ {pc[c], pc'[c]} = {"none", "read"}
            /\ UNCHANGED walVars \/ Flush \/ FlushErr \/ CompactStep
<1>1. CASE Serve
  BY <1>1, Zenon DEF Serve, HandlerInv
<1>2. CASE \E c \in Conn : Connect(c)
  BY <1>2, Zenon DEF Connect, HandlerInv
<1>3. CASE \E c \in Conn : Disconnect(c)
  BY <1>3, Zenon DEF Disconnect, HandlerInv, procVars
<1>4. CASE \E c \in Conn : Leave(c)
  BY <1>4, SMTT(30) DEF Leave, HandlerInv
<1>5. CASE SendShutdown \/ CloseBridge \/ Cancel
  BY <1>5, Zenon DEF SendShutdown, CloseBridge, Cancel, HandlerInv
<1>6. CASE FlushOnStop
  BY <1>6, Zenon DEF FlushOnStop, HandlerInv
<1>7. CASE BridgeBreaks \/ BridgeHeals
  BY <1>7, Zenon DEF BridgeBreaks, BridgeHeals, HandlerInv, procVars
<1>8. CASE Compaction
  BY <1>8, Zenon DEF Compaction, HandlerInv, busVars, procVars
<1>9. CASE UNCHANGED vars
  BY <1>9, Zenon DEF vars, HandlerInv, busVars, procVars
<1> QED
  BY <1>1, <1>2, <1>3, <1>4, <1>5, <1>6, <1>7, <1>8, <1>9, ZenonT(30)
     DEF Next, Replaying, ShuttingDown, Exit, Kill, OutboundPanic

LEMMA InitHandler == Init => HandlerInv
BY Zenon DEF Init, HandlerInv

LEMMA NextHandler == HandlerInv /\ [Next]_vars => HandlerInv'
<1> SUFFICES ASSUME HandlerInv, [Next]_vars PROVE HandlerInv'
  BY Zenon
<1>1. CASE \E c \in Conn : Handle(c)
  <2>1. PICK c \in Conn : Handle(c)
    BY <1>1, Zenon
  <2> QED
    BY <2>1, HandleStep, Zenon DEF HandlerInv, HandlerStep
<1>2. CASE \E c \in Conn, m \in Id : Arrive(c, m)
  BY <1>2, Zenon DEF HandlerInv, Arrive
<1>3. CASE Boot
  BY <1>3, Zenon DEF HandlerInv, Boot
<1>4. CASE ReplayComplete
  BY <1>4, Zenon DEF HandlerInv, ReplayComplete
<1>5. CASE \E id \in Id : ReplaySend(id)
  BY <1>5, Zenon DEF HandlerInv, ReplaySend
<1>6. CASE Die
  BY <1>6, Zenon DEF HandlerInv, Die, FreshProcess
<1>7. CASE /\ UNCHANGED <<cur, replaying, replayed, delivered, logged, dlq>>
           /\ pc' = [c \in Conn |-> pc'[c]]
           /\ \A c \in Conn : pc'[c] = pc[c] \/ {pc[c], pc'[c]} = {"none", "read"}
  BY <1>7, Zenon DEF HandlerInv
<1> QED
  BY <1>1, <1>2, <1>3, <1>4, <1>5, <1>6, <1>7, OtherStep, Zenon

-----------------------------------------------------------------------------
(* The bus as a user of the log.                                            *)

\* Who may complete a message: its handler, or the replay.
Completes(id) ==
  \/ replayed = id /\ replayed # NoMsg
  \/ \E c \in Conn : pc[c] = "complete" /\ cur[c] = id

\* The calls of a handler or of the replay about one message.
BusCall(id) ==
  \/ WALAppend(id) \/ AppendErr(id)
  \/ (Complete(id) \/ RemoveErr(id, "complete")) /\ Completes(id)
  \/ MarkDLQ(id) \/ RemoveErr(id, "dlq")
  \/ IncrementAttempts(id) \/ IncrementAttemptsErr(id)

LEMMA HandleCalls ==
  ASSUME HandlerInv, NEW c \in Conn, Handle(c)
  PROVE  UNCHANGED walVars \/ BusCall(cur[c])
<1>1. CASE Push(c) \/ SlowDown(c) \/ BridgeSend(c) \/ Put(c) \/ Pop(c) \/ Resume(c)
  BY <1>1, Zenon DEF Push, SlowDown, BridgeSend, Put, Pop, Resume
<1>2. CASE Retry(c)
  BY <1>2, Zenon DEF Retry, BusCall
<1>3. CASE Mark(c)
  BY <1>3 DEF Mark, BusCall
<1>4. CASE CompleteMsg(c)
  BY <1>4, Zenon DEF CompleteMsg, BusCall, Completes, At
<1> QED
  BY <1>1, <1>2, <1>3, <1>4, Zenon DEF Handle

LEMMA BusCalls ==
  ASSUME HandlerInv, [Next]_vars
  PROVE  \/ UNCHANGED walVars \/ NewWAL \/ Flush \/ FlushErr \/ CompactStep \/ Crash
         \/ \E id \in Id : BusCall(id)
<1>1. CASE \E c \in Conn : Handle(c)
  <2>1. PICK c \in Conn : Handle(c)
    BY <1>1
  <2>2. pc[c] \notin {"none", "read"}
    BY <2>1, HandleStep, Zenon
  <2> QED
    BY <2>1, <2>2, HandleCalls, Zenon DEF HandlerInv
<1>2. CASE \E c \in Conn, m \in Id : Arrive(c, m)
  BY <1>2, Zenon DEF Arrive, BusCall
<1>3. CASE Boot
  BY <1>3, Zenon DEF Boot
<1>4. CASE ReplayComplete
  BY <1>4, Zenon DEF ReplayComplete, BusCall, Completes, HandlerInv
<1>5. CASE \E id \in Id : ReplaySend(id)
  BY <1>5 DEF ReplaySend
<1>6. CASE Die
  BY <1>6, Zenon DEF Die
<1> QED
  BY <1>1, <1>2, <1>3, <1>4, <1>5, <1>6, OtherStep, Zenon

LEMMA BusStepIsWAL == HandlerInv /\ [Next]_vars => [WALNext]_walVars
BY BusCalls, Zenon DEF BusCall, Call, WALNext

\* Whatever the bus does with its log, it does through the methods of WAL, one
\* at a time: the handlers, the replay, the ticker and the shutdown together are
\* one user of the log as WAL specifies it.
THEOREM BusUsesWAL == Spec => WALSpec
<1>1. Init => WALInit
  BY Zenon DEF Init
<1> QED
  BY <1>1, InitHandler, NextHandler, BusStepIsWAL, PTL DEF Spec, WALSpec

\* Under the concurrent handlers, the replay, the compaction ticker, the
\* shutdown and their crashes the map in memory is the one the log rebuilds, by
\* the loop in recover, and a crash inside Compact loses nothing.
THEOREM BusLogCorrect ==
  Spec => [](MemoryIsLog /\ Compacting /\ CompactionCrashSafe /\ ReplayIsScan)
BY BusUsesWAL, MemoryIsLogCorrect, CompactingCorrect, CompactionCorrect, ReplayIsScanCorrect, PTL

\* As long as flushes end at line boundaries and system calls succeed, what the
\* whole bus does to its log is what one user of a DurableMap does: a crash of
\* the bus undoes a suffix of the updates of all its handlers and nothing else.
THEOREM BusDurable ==
  ASSUME ~Tears, ~WriteErrors
  PROVE  Spec => ImplementsDurableMap
<1>1. WALSpec => ImplementsDurableMap
  BY DurableMapCorrect
<1> QED
  BY <1>1, BusUsesWAL, PTL

-----------------------------------------------------------------------------
(* What the log's lines are made of.  S is a set of lines that garbling does *)
(* not leave.                                                                *)

Closed(S) == S \subseteq Line /\ \A l \in S : Garbled(l) \in S

LinesFrom(S) == file \in Seq(S) /\ frag \in Seq(S) /\ buffer \in Seq(S)

LEMMA AdvanceFrom ==
  ASSUME NEW S, Closed(S), file \in Seq(S), frag \in Seq(S), NEW stream \in Seq(S),
         NEW k \in 0 .. Len(stream), Advance(stream, k)
  PROVE  file' \in Seq(S) /\ frag' \in Seq(S)
<1>1. SubSeq(stream, 1, k) \in Seq(S)
  BY SubSeqProperties, SMTT(30)
<1>2. file' \in Seq(S)
  BY <1>1, ConcatProperties, Zenon DEF Advance
<1>3. \A l \in S : <<l>> \in Seq(S)
  OBVIOUS
<1>4. NoFrag \in Seq(S)
  BY DEF NoFrag
<1>5. CASE k = Len(stream)
  <2>1. frag' = NoFrag
    BY <1>5, Zenon DEF Advance, FragsAfter
  <2> QED
    BY <1>2, <1>4, <2>1, Zenon
<1>6. CASE k # Len(stream)
  <2>1. k + 1 \in 1 .. Len(stream) /\ 1 \in 1 .. Len(stream)
    BY <1>6
  <2>2. stream[k + 1] \in S /\ stream[1] \in S
    BY <2>1, SMTT(30)
  <2>3. Garbled(stream[k + 1]) \in S
    BY <2>2, Zenon DEF Closed
  <2>4. frag' \in {NoFrag, frag, <<stream[1]>>, <<Garbled(stream[k + 1])>>,
                   <<stream[k + 1]>>}
    BY <1>6, Zenon DEF Advance, FragsAfter
  <2> QED
    BY <1>2, <1>3, <1>4, <2>2, <2>3, <2>4, ZenonT(30)
<1> QED
  BY <1>5, <1>6, Zenon

LEMMA StreamFrom ==
  ASSUME NEW S, Closed(S), buffer \in Seq(S), NEW rec \in S
  PROVE  Append(buffer, LineFor(rec)) \in Seq(S)
<1>1. LineFor(rec) \in S
  BY DEF LineFor, Closed
<1> QED
  BY <1>1

LEMMA AppendFrom ==
  ASSUME NEW S, Closed(S), LinesFrom(S), NEW rec \in S, appendEntry(rec)
  PROVE  LinesFrom(S)'
<1> DEFINE stream == Append(buffer, LineFor(rec))
<1>1. stream \in Seq(S)
  BY StreamFrom, Zenon DEF LinesFrom
<1> HIDE DEF stream
<1>2. CASE AdvanceNothing /\ buffer' = stream
  BY <1>1, <1>2, Zenon DEF AdvanceNothing, LinesFrom
<1>3. ASSUME NEW k \in 0 .. Len(stream), Advance(stream, k),
             buffer' = SubSeq(stream, k + 1, Len(stream))
      PROVE  LinesFrom(S)'
  <2>1. buffer' \in Seq(S)
    BY <1>1, <1>3, SMTT(30)
  <2> QED
    BY <1>1, <1>3, <2>1, AdvanceFrom, Zenon DEF LinesFrom
<1> QED
  BY <1>2, <1>3, Zenon DEF appendEntry, stream

LEMMA FailFrom ==
  ASSUME NEW S, Closed(S), LinesFrom(S), NEW stream \in Seq(S), writeFails(stream)
  PROVE  LinesFrom(S)'
<1>1. <<>> \in Seq(S)
  OBVIOUS
<1>2. CASE UNCHANGED <<file, frag>> /\ (buffer' = buffer \/ buffer' = <<>>)
  BY <1>1, <1>2, Zenon DEF LinesFrom
<1>3. CASE (\E k \in 0 .. Len(stream) - 1 : Advance(stream, k)) /\ buffer' = <<>>
  <2>1. PICK k \in 0 .. Len(stream) - 1 : Advance(stream, k)
    BY <1>3, Zenon
  <2>2. k \in 0 .. Len(stream)
    BY LenProperties
  <2> QED
    BY <1>1, <1>3, <2>1, <2>2, AdvanceFrom, Zenon DEF LinesFrom
<1> QED
  BY <1>2, <1>3, Zenon DEF writeFails, AdvanceNothing

LEMMA FlushFrom ==
  ASSUME NEW S, LinesFrom(S), flushAll
  PROVE  LinesFrom(S)'
<1>1. <<>> \in Seq(S)
  OBVIOUS
<1>2. file \o buffer \in Seq(S)
  BY ConcatProperties, Zenon DEF LinesFrom
<1> QED
  BY <1>1, <1>2, Zenon DEF flushAll, LinesFrom, NoFrag

LEMMA WrittenFrom ==
  ASSUME NEW S, LinesFrom(S)
  PROVE  Written \in Seq(S)
BY ConcatProperties, Zenon DEF LinesFrom, Written, OnDisk

-----------------------------------------------------------------------------
(* A complete record follows the delivery.                                   *)

Honest == {l \in Line : l.state = "complete" => l.id \in delivered}

Sent ==
  /\ replayed # NoMsg => replayed \in delivered
  /\ \A c \in Conn : pc[c] = "complete" => cur[c] \in delivered

HonestInv == IInv /\ HandlerInv /\ Sent /\ LinesFrom(Honest) /\ tmp \in Seq(Honest)

LEMMA HonestClosed == Closed(Honest)
BY Zenon DEF Closed, Honest, Garbled, Line, RecordStates

LEMMA SentStep ==
  ASSUME HandlerInv, Sent, [Next]_vars
  PROVE  Sent' /\ delivered \subseteq delivered'
<1>1. CASE \E c \in Conn : Handle(c)
  <2>1. PICK c \in Conn : Handle(c)
    BY <1>1, Zenon
  <2>2. CASE BridgeSend(c)
    BY <2>2, SMTT(30) DEF BridgeSend, Goto, At, Sent, HandlerInv
  <2>3. CASE ~BridgeSend(c)
    <3>1. UNCHANGED delivered /\ pc'[c] # "complete"
      BY <2>1, <2>3, ZenonT(30) DEF Handle, Push, SlowDown, Retry, Mark, Put, CompleteMsg, Pop,
                        Resume, Goto, Finish, HandlerInv
    <3> QED
      BY <2>1, <3>1, HandleStep, Zenon DEF Sent, HandlerStep
  <2> QED
    BY <2>2, <2>3, Zenon
<1>2. CASE \E c \in Conn, m \in Id : Arrive(c, m)
  BY <1>2, SMTT(30) DEF HandlerInv, Arrive, Sent
<1>3. CASE Boot \/ ReplayComplete
  BY <1>3, Zenon DEF Boot, ReplayComplete, Sent
<1>4. CASE \E id \in Id : ReplaySend(id)
  BY <1>4, Zenon DEF ReplaySend, Sent
<1>5. CASE Die
  BY <1>5, Zenon DEF Sent, Die, FreshProcess
<1>6. CASE /\ UNCHANGED <<cur, replaying, replayed, delivered, logged, dlq>>
           /\ \A c \in Conn : pc'[c] = pc[c] \/ {pc[c], pc'[c]} = {"none", "read"}
  BY <1>6, Zenon DEF Sent
<1> QED
  BY <1>1, <1>2, <1>3, <1>4, <1>5, <1>6, OtherStep, Zenon

LEMMA ListingFrom ==
  ASSUME NEW s \in Listings(PendingLines), NEW S, PendingLines \subseteq S
  PROVE  s \in Seq(S)
<1>1. Cardinality(PendingLines) \in Nat
  BY PendingFinite, Zenon
<1>2. s \in [1 .. Cardinality(PendingLines) -> PendingLines]
  BY Zenon DEF Listings, Bijection, Injection, Surjection
<1> QED
  BY <1>1, <1>2, SMTT(30)

LEMMA HonestCall ==
  ASSUME HonestInv, NEW S, S = Honest, NEW id \in Id, BusCall(id)
  PROVE  LinesFrom(S)' /\ tmp' \in Seq(S)
<1>1. Closed(S) /\ LinesFrom(S) /\ tmp \in Seq(S) /\ buffer \in Seq(S)
  BY HonestClosed, Zenon DEF HonestInv, LinesFrom
<1>2. entries[id] \in Nat /\ entries[id] + 1 \in Nat
  BY DEF HonestInv, IInv, WALTypeOK
<1>3. \A st \in {"pending", "dlq"}, n \in Nat : Record(id, st, n) \in S
  BY Zenon DEF Honest, Record, Line, RecordStates
<1>4. ASSUME Completes(id), NEW n \in Nat PROVE Record(id, "complete", n) \in S
  <2>1. id \in delivered
    BY <1>4, Zenon DEF Completes, HonestInv, Sent
  <2> QED
    BY <2>1, Zenon DEF Honest, Record, Line, RecordStates
<1>5. ASSUME NEW rec \in S, appendEntry(rec) \/ appendFails(rec), UNCHANGED tmp
      PROVE  LinesFrom(S)' /\ tmp' \in Seq(S)
  BY <1>1, <1>5, AppendFrom, FailFrom, StreamFrom, ZenonT(30) DEF appendFails
<1>6. CASE WALAppend(id) \/ AppendErr(id)
  BY <1>6, <1>3, <1>5, Zenon DEF WALAppend, AppendErr
<1>7. CASE (Complete(id) \/ RemoveErr(id, "complete")) /\ Completes(id)
  BY <1>7, <1>2, <1>4, <1>5, Zenon DEF Complete, Remove, RemoveErr
<1>8. CASE MarkDLQ(id) \/ RemoveErr(id, "dlq")
  BY <1>8, <1>2, <1>3, <1>5, Zenon DEF MarkDLQ, Remove, RemoveErr
<1>9. CASE IncrementAttempts(id) \/ IncrementAttemptsErr(id)
  BY <1>9, <1>2, <1>3, <1>5, Zenon DEF IncrementAttempts, IncrementAttemptsErr
<1> QED
  BY <1>6, <1>7, <1>8, <1>9, Zenon DEF BusCall

LEMMA HonestStep ==
  ASSUME HonestInv, [Next]_vars, NEW S, S = Honest
  PROVE  LinesFrom(S)' /\ tmp' \in Seq(S)
<1>1. Closed(S) /\ LinesFrom(S) /\ tmp \in Seq(S) /\ buffer \in Seq(S) /\ HandlerInv
  BY HonestClosed, Zenon DEF HonestInv, LinesFrom
<1>2. <<>> \in Seq(S) /\ NoFrag \in Seq(S)
  BY SMTT(30) DEF NoFrag
<1>3. CASE UNCHANGED walVars \/ NewWAL \/ Crash
  BY <1>1, <1>2, <1>3, ZenonT(30) DEF walVars, NewWAL, Crash, LinesFrom
<1>4. CASE Flush \/ FlushErr
  BY <1>1, <1>4, FlushFrom, FailFrom, Zenon DEF Flush, FlushErr
<1>5. CASE CompactStep
  <2>1. CASE CompactWriteTmp
    <3>1. PendingLines \subseteq S
      BY DEF PendingLines, Record, Honest, Line, RecordStates, HonestInv, IInv, WALTypeOK
    <3> QED
      BY <1>1, <2>1, <3>1, ListingFrom, Zenon DEF CompactWriteTmp, LinesFrom
  <2>2. CASE CompactFlush \/ CompactFlushErr
    BY <1>1, <1>2, <2>2, FlushFrom, FailFrom, ZenonT(30) DEF CompactFlush, CompactFlushErr
  <2>3. CASE CompactRename \/ CompactAbandon \/ CompactReopen
    BY <1>1, <1>2, <2>3, ZenonT(30) DEF CompactRename, CompactAbandon, CompactReopen, LinesFrom
  <2> QED
    BY <1>5, <2>1, <2>2, <2>3, Zenon DEF CompactStep
<1> QED
  BY <1>1, <1>3, <1>4, <1>5, BusCalls, HonestCall, Zenon

LEMMA InitHonest == Init => HonestInv
<1> SUFFICES ASSUME Init PROVE HonestInv
  BY Zenon
<1>1. <<>> \in Seq(Honest)
  BY SMTT(30)
<1>2. Sent /\ IInv /\ HandlerInv
  BY InitIInv, InitHandler, Zenon DEF Init, Sent
<1> QED
  BY <1>1, <1>2, Zenon DEF Init, WALInit, HonestInv, LinesFrom, NoFrag

LEMMA NextHonest == HonestInv /\ [Next]_vars => HonestInv'
<1> SUFFICES ASSUME HonestInv, [Next]_vars PROVE HonestInv'
  OBVIOUS
<1>1. IInv' /\ HandlerInv' /\ Sent' /\ delivered \subseteq delivered'
  BY NextIInv, NextHandler, BusStepIsWAL, SentStep, SMTT(30) DEF HonestInv
<1>2. PICK S : S = Honest
  BY Zenon
<1>3. S \subseteq Honest'
  BY <1>1, <1>2, Zenon DEF Honest
<1>4. \A s \in Seq(S) : s \in Seq(Honest')
  BY <1>3, SMTT(30)
<1>5. LinesFrom(S)' /\ tmp' \in Seq(S)
  BY <1>2, HonestStep, Zenon
<1> QED
  BY <1>1, <1>4, <1>5, Zenon DEF HonestInv, LinesFrom

\* For any number of channels, sockets and messages, with crashes, torn lines,
\* failing writes and compaction at any point, the log says "complete" only of a
\* message the bridge has accepted: HandleInbound and ReplayWAL call
\* wal.Complete after bridge.Send, and nothing else makes up such a line.
THEOREM CompletedCorrect == Spec => []CompletedWasDelivered
<1>1. HonestInv => CompletedWasDelivered
  <2> SUFFICES ASSUME HonestInv PROVE CompletedWasDelivered
    BY Zenon
  <2>1. Written \in Seq(Honest)
    BY WrittenFrom, Zenon DEF HonestInv
  <2> QED
    BY <2>1 DEF CompletedWasDelivered, Honest
<1> QED
  BY <1>1, InitHonest, NextHonest, PTL DEF Spec

-----------------------------------------------------------------------------
(* A logged message is held somewhere.                                       *)

HeldInv == HonestInv /\ logged \subseteq Id /\ HeldWhileUp

\* What one call may do to the map.
LEMMA CallKeeps ==
  ASSUME IInv, NEW id \in Id, BusCall(id)
  PROVE  /\ running' = running
         /\ \A m \in Id : entries[m] # 0 /\ entries'[m] = 0 =>
               m = id /\ (Completes(id) \/ MarkDLQ(id))
<1>1. entries \in [Id -> Nat] /\ entries[id] \in Nat
  BY Zenon DEF IInv, WALTypeOK
<1>2. CASE WALAppend(id) \/ AppendErr(id)
  BY <1>1, <1>2, SMTT(30) DEF WALAppend, AppendErr
<1>3. CASE (Complete(id) \/ RemoveErr(id, "complete")) /\ Completes(id)
  BY <1>1, <1>3, Zenon DEF Complete, Remove, RemoveErr
<1>4. CASE MarkDLQ(id)
  BY <1>1, <1>4, SMTT(30) DEF MarkDLQ, Remove
<1>5. CASE RemoveErr(id, "dlq")
  BY <1>1, <1>5, Zenon DEF RemoveErr
<1>6. CASE IncrementAttempts(id) \/ IncrementAttemptsErr(id)
  BY <1>1, <1>6, SMTT(30) DEF IncrementAttempts, IncrementAttemptsErr
<1> QED
  BY <1>2, <1>3, <1>4, <1>5, <1>6, Zenon DEF BusCall

\* A handler's step loses no message: what it takes out of the map was
\* delivered or is about to be put into the DLQ, and what it was about to put
\* is there.
LEMMA HandleKeeps ==
  ASSUME "dlq" \notin Env, HonestInv, NEW c \in Conn, Handle(c), NEW m \in Id,
         m \in delivered \/ entries[m] # 0 \/ m \in dlq \/ BeingPut(m)
  PROVE  m \in delivered' \/ entries'[m] # 0 \/ m \in dlq' \/ BeingPut(m)'
<1>1. HandlerInv /\ IInv /\ Sent /\ cur[c] \in Id
  BY HandleStep, Zenon DEF HonestInv, HandlerInv
<1>2. delivered \subseteq delivered' /\ dlq \subseteq dlq'
  BY ZenonT(30) DEF Handle, Push, SlowDown, BridgeSend, Retry, Mark, Put, CompleteMsg, Pop, Resume
<1>3. CASE entries[m] # 0 /\ entries'[m] = 0
  <2>1. BusCall(cur[c])
    BY <1>1, <1>3, HandleCalls, Zenon DEF walVars
  <2>2. m = cur[c] /\ (Completes(m) \/ MarkDLQ(m))
    BY <1>1, <1>3, <2>1, CallKeeps, SMTT(30)
  <2>3. CASE Mark(c)
    <3>1. pc' = [pc EXCEPT ![c] = "put"] /\ cur' = cur
      BY <2>3, Zenon DEF Mark, Goto
    <3>2. pc'[c] = "put" /\ cur'[c] = m
      BY <1>1, <2>2, <3>1, Zenon DEF HandlerInv
    <3> QED
      BY <3>2, Zenon DEF BeingPut
  <2>4. CASE ~Mark(c)
    <3>1. CASE Push(c) \/ SlowDown(c) \/ BridgeSend(c) \/ Put(c) \/ Pop(c) \/ Resume(c)
      BY <1>3, <3>1, ZenonT(30) DEF Push, SlowDown, BridgeSend, Put, Pop, Resume, walVars
    <3>2. CASE Retry(c)
      <4>1. entries'[m] # 0
        BY <1>1, <1>3, <2>2, <3>2, SMTT(30)
           DEF Retry, IncrementAttempts, IncrementAttemptsErr, IInv, WALTypeOK, walVars
      <4> QED
        BY <4>1, Zenon
    <3>3. CASE CompleteMsg(c)
      BY <1>1, <1>2, <2>2, <3>3, ZenonT(30) DEF CompleteMsg, At, Sent
    <3> QED
      BY <2>4, <3>1, <3>2, <3>3, Zenon DEF Handle
  <2> QED
    BY <2>3, <2>4, ZenonT(30)
<1>4. CASE BeingPut(m)
  <2>1. PICK d \in Conn : pc[d] = "put" /\ cur[d] = m
    BY <1>4, Zenon DEF BeingPut
  <2>2. CASE d # c
    BY <1>1, <2>1, <2>2, HandleStep, SMTT(30) DEF HandlerStep, BeingPut
  <2>3. CASE d = c
    <3>1. Put(c)
      BY <2>1, <2>3, ZenonT(30) DEF Handle, At, Push, SlowDown, BridgeSend, Retry, Mark,
                        CompleteMsg, Pop, Resume
    <3> QED
      BY <2>1, <2>3, <3>1, Zenon DEF Put
  <2> QED
    BY <2>2, <2>3, Zenon
<1> QED
  BY <1>2, <1>3, <1>4, Zenon

LEMMA InitHeld == Init => HeldInv
BY InitHonest, Zenon DEF Init, HeldInv, HeldWhileUp

LEMMA NextHeld ==
  ASSUME "dlq" \notin Env
  PROVE  HeldInv /\ [Next]_vars => HeldInv'
<1> SUFFICES ASSUME HeldInv, [Next]_vars PROVE HeldInv'
  BY Zenon
<1>1. HonestInv' /\ HonestInv /\ HandlerInv /\ IInv /\ Sent
  BY NextHonest, Zenon DEF HeldInv, HonestInv
<1>2. CASE \E c \in Conn : Handle(c)
  <2>1. PICK c \in Conn : Handle(c)
    BY <1>2, Zenon
  <2>2. running' = running
    <3>1. cur[c] \in Id
      BY <1>1, <2>1, HandleStep, Zenon DEF HandlerInv
    <3> QED
      BY <1>1, <2>1, <3>1, HandleCalls, CallKeeps, Zenon DEF walVars
  <2>3. logged' = logged
    BY <1>1, <2>1, HandleStep, ZenonT(30)
  <2> QED
    BY <1>1, <2>1, <2>2, <2>3, HandleKeeps, Zenon DEF HeldInv, HeldWhileUp
<1>3. CASE \E c \in Conn, m \in Id : Arrive(c, m)
  <2>1. PICK c \in Conn, m \in Id : Arrive(c, m)
    BY <1>3, Zenon
  <2>2. BusCall(m) /\ running
    BY <2>1, Zenon DEF Arrive, BusCall, WALAppend, AppendErr, Idle
  <2>3. \A x \in logged : entries[x] # 0 => entries'[x] # 0
    <3>1. entries \in [Id -> Nat] /\ logged \subseteq Id /\ 1 # 0
      BY <1>1 DEF HeldInv, IInv, WALTypeOK
    <3>2. entries' = entries \/ entries' = [entries EXCEPT ![m] = 1]
      BY <2>1, Zenon DEF Arrive, WALAppend, AppendErr
    <3> QED
      BY <3>1, <3>2, Zenon
  <2>4. logged' = logged \/ (logged' = logged \cup {m} /\ entries'[m] # 0)
    <3>1. CASE logged' = logged
      BY <3>1, Zenon
    <3>2. CASE WALAppend(m) /\ logged' = logged \cup {m}
      <4>1. entries' = [entries EXCEPT ![m] = 1] /\ entries \in [Id -> Nat] /\ 1 # 0
        BY <1>1, <3>2 DEF WALAppend, IInv, WALTypeOK
      <4> QED
        BY <3>2, <4>1, Zenon
    <3> QED
      BY <2>1, <3>1, <3>2, Zenon DEF Arrive
  <2>5. \A x \in Id : BeingPut(x) => BeingPut(x)'
    BY <1>1, <2>1, Zenon DEF Arrive, At, BeingPut, HandlerInv
  <2>6. delivered' = delivered /\ dlq' = dlq
    BY <2>1, Zenon DEF Arrive
  <2> QED
    BY <1>1, <2>2, <2>3, <2>4, <2>5, <2>6, Zenon DEF HeldInv, HeldWhileUp
<1>4. CASE Boot
  BY <1>1, <1>4, Zenon DEF Boot, HeldInv, HeldWhileUp
<1>5. CASE ReplayComplete
  <2>1. replayed \in Id /\ BusCall(replayed)
    BY <1>1, <1>5, Zenon DEF ReplayComplete, BusCall, Completes, HandlerInv
  <2>2. running' = running
    BY <1>1, <2>1, CallKeeps, Zenon
  <2>3. \A x \in logged : entries[x] # 0 /\ entries'[x] = 0 => x \in delivered
    BY <1>1, <1>5, Zenon DEF ReplayComplete, Complete, Remove, RemoveErr, Sent, HeldInv, IInv,
                      WALTypeOK
  <2>4. \A x \in Id : BeingPut(x)' <=> BeingPut(x)
    BY <1>5, Zenon DEF ReplayComplete, BeingPut
  <2>5. delivered' = delivered /\ dlq' = dlq /\ logged' = logged
    BY <1>5, Zenon DEF ReplayComplete
  <2> QED
    BY <1>1, <2>2, <2>3, <2>4, <2>5, Zenon DEF HeldInv, HeldWhileUp
<1>6. CASE \E id \in Id : ReplaySend(id)
  BY <1>1, <1>6, SMTT(30) DEF ReplaySend, walVars, HeldInv, HeldWhileUp, BeingPut
<1>7. CASE Die
  BY <1>1, <1>7, Zenon DEF Die, Crash, HeldInv, HeldWhileUp
<1>8. CASE /\ UNCHANGED <<cur, replaying, replayed, delivered, logged, dlq>>
           /\ \A c \in Conn : pc'[c] = pc[c] \/ {pc[c], pc'[c]} = {"none", "read"}
           /\ UNCHANGED walVars \/ Flush \/ FlushErr \/ CompactStep
  <2>1. UNCHANGED <<entries, running>>
    BY <1>8, ZenonT(30) DEF walVars, Flush, FlushErr, CompactStep, CompactWriteTmp, CompactFlush,
                CompactFlushErr, CompactRename, CompactAbandon, CompactReopen
  <2>2. \A x \in Id : BeingPut(x) => BeingPut(x)'
    BY <1>8, Zenon DEF BeingPut
  <2> QED
    BY <1>1, <1>8, <2>1, <2>2, Zenon DEF HeldInv, HeldWhileUp
<1> QED
  BY <1>1, <1>2, <1>3, <1>4, <1>5, <1>6, <1>7, <1>8, OtherStep, Zenon

\* If dlq.Put succeeds, a message the process has logged is never out of sight
\* while the process lives, also between MarkDLQ and Put, whatever crashes,
\* write errors and bridge failures there have been.
THEOREM HeldCorrect ==
  ASSUME "dlq" \notin Env
  PROVE  Spec => []HeldWhileUp
<1>1. HeldInv => HeldWhileUp
  BY Zenon DEF HeldInv
<1>2. HeldInv /\ [Next]_vars => HeldInv'
  BY NextHeld, Zenon
<1> QED
  BY <1>1, <1>2, InitHeld, PTL DEF Spec

\* A process ends in Die and in no other step.
LEMMA EndsByDying ==
  ASSUME HandlerInv, IInv, [Next]_vars, running, ~running'
  PROVE  Die
<1>1. ASSUME NEW c \in Conn, Handle(c) PROVE FALSE
  <2>1. cur[c] \in Id
    BY <1>1, HandleStep, Zenon DEF HandlerInv
  <2> QED
    BY <1>1, <2>1, HandleCalls, CallKeeps, Zenon DEF walVars
<1>2. ASSUME NEW c \in Conn, NEW m \in Id, Arrive(c, m) PROVE FALSE
  BY <1>2, Zenon DEF Arrive, WALAppend, AppendErr
<1>3. ~Boot /\ ~ReplayComplete /\ ~\E id \in Id : ReplaySend(id)
  BY Zenon DEF Boot, NewWAL, ReplayComplete, Complete, Remove, RemoveErr, ReplaySend, walVars
<1>4. ~(UNCHANGED walVars \/ Flush \/ FlushErr \/ CompactStep)
  BY ZenonT(30) DEF walVars, Flush, FlushErr, CompactStep, CompactWriteTmp, CompactFlush,
     CompactFlushErr, CompactRename, CompactAbandon, CompactReopen
<1> QED
  BY <1>1, <1>2, <1>3, <1>4, OtherStep, Zenon

\* The two windows in which the end of a process can lose a message it has
\* logged are bytes still in the buffered writer and a handler between MarkDLQ
\* and dlq.Put.  Outside them, whenever the process dies and however it had
\* failed before, every logged message was delivered, is recovered from the file
\* or is in the DLQ.
THEOREM DeathKeepsFlushed ==
  ASSUME "dlq" \notin Env, ~Tears
  PROVE  Spec => [][/\ running /\ ~running'
                    /\ ~writerErr /\ buffer = <<>> /\ \A m \in logged : ~BeingPut(m)
                    => AtLeastOnce']_vars
<1> DEFINE Keeps == /\ running /\ ~running'
                    /\ ~writerErr /\ buffer = <<>> /\ \A m \in logged : ~BeingPut(m)
                    => AtLeastOnce'
<1>1. HeldInv /\ FlushedSurvivesCrash /\ [Next]_vars => Keeps
  <2> SUFFICES ASSUME HeldInv, FlushedSurvivesCrash, [Next]_vars, running, ~running',
                      ~writerErr, buffer = <<>>, \A m \in logged : ~BeingPut(m)
               PROVE  AtLeastOnce'
    BY Zenon
  <2>1. Die
    BY EndsByDying, Zenon DEF HeldInv, HonestInv
  <2>2. UNCHANGED <<logged, delivered, dlq, file, frag>>
    BY <2>1, Zenon DEF Die, Crash
  <2>3. Replay(OnDisk) = entries
    BY Zenon DEF FlushedSurvivesCrash
  <2>4. Replay(OnDisk') = entries
    BY <2>2, <2>3, Zenon DEF OnDisk
  <2>5. \A m \in logged : m \in delivered \/ entries[m] # 0 \/ m \in dlq
    BY Zenon DEF HeldInv, HeldWhileUp
  <2> QED
    BY <2>2, <2>4, <2>5, Zenon DEF AtLeastOnce
<1>2. HeldInv /\ [Next]_vars => HeldInv'
  BY NextHeld, Zenon
<1>3. WALSpec => []FlushedSurvivesCrash
  BY FlushedCorrect
<1> QED
  BY <1>1, <1>2, <1>3, InitHeld, BusUsesWAL, PTL DEF Spec

-----------------------------------------------------------------------------
(* The ring buffer counts the messages in flight.                            *)

\* From the push of a message to its pop.
InFlight(ch) == {c \in ConnsOf(ch) : pc[c] \in {"slow", "send", "complete", "pop"}}

\* With a bridge that takes every message a handler never gets to the retry.
Smooth ==
  /\ stop = "no" /\ stage \in {"boot", "replay", "serve"}
  /\ bridge \in [kind : Bridges, state : {"nil", "up"}]
  /\ stage # "boot" => bridge.state = "up"
  /\ \A c \in Conn : pc[c] \in {"none", "read", "push", "slow", "send", "complete",
                                "pop", "resume"}

Counts == \A ch \in Chan : Len(queue[ch].items) = Cardinality(InFlight(ch))

CountInv ==
  /\ HandlerInv /\ Smooth /\ Counts
  /\ queue \in [Chan -> [items : Seq(Id), state : States]]

\* A channel has no more handlers than sockets.
LEMMA ConnsCount ==
  ASSUME NEW ch \in Chan
  PROVE  IsFiniteSet(ConnsOf(ch)) /\ Cardinality(ConnsOf(ch)) = Sockets
<1> DEFINE f == [i \in 1 .. Sockets |-> <<ch, i>>]
<1>1. ConnsOf(ch) = {<<ch, i>> : i \in 1 .. Sockets}
  BY DEF ConnsOf, Conn, ChanOf
<1>2. f \in Bijection(1 .. Sockets, ConnsOf(ch))
  BY <1>1, Zenon DEF Bijection, Injection, Surjection, IsInjective
<1>3. ExistsBijection(1 .. Sockets, ConnsOf(ch)) /\ Sockets \in Nat
  BY <1>2, BusAssumption, Zenon DEF ExistsBijection
<1> QED
  BY <1>3, FS_CountingElements, FS_NatBijection, ZenonT(30)

LEMMA FlightCount ==
  ASSUME NEW ch \in Chan
  PROVE  /\ IsFiniteSet(InFlight(ch)) /\ Cardinality(InFlight(ch)) \in Nat
         /\ \A c \in ConnsOf(ch) \ InFlight(ch) :
              Cardinality(InFlight(ch) \cup {c}) = Cardinality(InFlight(ch)) + 1
         /\ \A c \in InFlight(ch) :
              Cardinality(InFlight(ch) \ {c}) = Cardinality(InFlight(ch)) - 1
         /\ InFlight(ch) # ConnsOf(ch) => Cardinality(InFlight(ch)) < Sockets
<1> DEFINE F == InFlight(ch)
           all == ConnsOf(ch)
<1>1. F \subseteq all /\ IsFiniteSet(all) /\ Cardinality(all) = Sockets
  BY ConnsCount, Zenon DEF InFlight
<1> HIDE DEF F, all
<1>2. IsFiniteSet(F) /\ Cardinality(F) \in Nat
  BY <1>1, FS_Subset, FS_CardinalityType, ZenonT(30)
<1>3. \A c \in all \ F : Cardinality(F \cup {c}) = Cardinality(F) + 1
  BY <1>2, FS_AddElement, Zenon
<1>4. \A c \in F : Cardinality(F \ {c}) = Cardinality(F) - 1
  BY <1>2, FS_RemoveElement, Zenon
<1>5. F # all => Cardinality(F) < Sockets
  <2>1. /\ Cardinality(F) <= Cardinality(all)
        /\ Cardinality(all) = Cardinality(F) => all = F
    BY <1>1, FS_Subset, ZenonT(30)
  <2> QED
    BY <1>1, <1>2, <2>1, BusAssumption, SMTT(30)
<1> QED
  BY <1>2, <1>3, <1>4, <1>5, Zenon DEF F, all

LEMMA ChanOfConn ==
  ASSUME NEW c \in Conn
  PROVE  ChanOf(c) \in Chan /\ c \in ConnsOf(ChanOf(c))
         /\ \A ch \in Chan : c \in ConnsOf(ch) => ch = ChanOf(c)
BY Zenon DEF Conn, ChanOf, ConnsOf

\* Steps that move handlers but not in or out of flight.
LEMMA SameFlight ==
  ASSUME Counts, UNCHANGED queue,
         \A c \in Conn : (pc[c] \in {"slow", "send", "complete", "pop"})
                           <=> (pc'[c] \in {"slow", "send", "complete", "pop"})
  PROVE  Counts'
<1>1. \A ch \in Chan : InFlight(ch)' = InFlight(ch)
  BY Zenon DEF InFlight, ConnsOf
<1> QED
  BY <1>1, Zenon DEF Counts

\* What one handler's step does to the count.
LEMMA HandlerCounts ==
  ASSUME CountInv, NEW c \in Conn, HandlerStep(c), NEW ch \in Chan
  PROVE  /\ ch # ChanOf(c) => InFlight(ch)' = InFlight(ch)
         /\ pc[c] = "push" /\ pc'[c] \in {"slow", "send"}
              => /\ c \in ConnsOf(ChanOf(c)) \ InFlight(ChanOf(c))
                 /\ InFlight(ChanOf(c))' = InFlight(ChanOf(c)) \cup {c}
         /\ pc[c] = "pop" /\ pc'[c] \in {"resume", "read"}
              => /\ c \in InFlight(ChanOf(c))
                 /\ InFlight(ChanOf(c))' = InFlight(ChanOf(c)) \ {c}
<1>1. ch # ChanOf(c) => InFlight(ch)' = InFlight(ch)
  BY Zenon DEF InFlight, ConnsOf, HandlerStep
<1>2. c \in ConnsOf(ChanOf(c))
  BY ChanOfConn, Zenon
<1>3. ASSUME pc[c] = "push", pc'[c] \in {"slow", "send"}
      PROVE  /\ c \in ConnsOf(ChanOf(c)) \ InFlight(ChanOf(c))
             /\ InFlight(ChanOf(c))' = InFlight(ChanOf(c)) \cup {c}
  BY <1>2, <1>3, Zenon DEF InFlight, ConnsOf, HandlerStep
<1>4. ASSUME pc[c] = "pop", pc'[c] \in {"resume", "read"}
      PROVE  /\ c \in InFlight(ChanOf(c))
             /\ InFlight(ChanOf(c))' = InFlight(ChanOf(c)) \ {c}
  BY <1>2, <1>4, Zenon DEF InFlight, ConnsOf, HandlerStep
<1> QED
  BY <1>1, <1>3, <1>4, Zenon

LEMMA PushCounts ==
  ASSUME CountInv, Sockets <= Size, NEW c \in Conn, Push(c)
  PROVE  CountInv'
<1> DEFINE ch == ChanOf(c)
           q == queue[ch]
<1>1. ch \in Chan /\ cur[c] \in Id /\ pc[c] = "push" /\ q \in [items : Seq(Id), state : States]
  BY ChanOfConn, Zenon DEF CountInv, HandlerInv, Push, At
<1>2. Push(c) /\ HandlerInv /\ HandlerStep(c)
  BY HandleStep, ZenonT(30) DEF CountInv, Handle
<1>3. pc'[c] \in {"slow", "send"} /\ pc' = [pc EXCEPT ![c] = pc'[c]]
  BY <1>2, Zenon DEF Push, Goto, HandlerInv
<1>4. HandlerInv'
  BY <1>2, <1>1, <1>3, Zenon DEF HandlerInv, HandlerStep, Push, Goto
<1>5. Smooth'
  <2>1. stop' = stop /\ stage' = stage /\ bridge' = bridge
    BY <1>2, Zenon DEF Push
  <2>2. Smooth
    BY ZenonT(30) DEF CountInv
  <2> QED
    BY <1>2, <1>3, <2>1, <2>2, Zenon DEF Smooth, HandlerStep
<1>6. /\ c \in ConnsOf(ch) \ InFlight(ch)
      /\ InFlight(ch)' = InFlight(ch) \cup {c}
      /\ \A other \in Chan : other # ch => InFlight(other)' = InFlight(other)
  BY <1>1, <1>2, <1>3, HandlerCounts, Zenon
<1>7. /\ Cardinality(InFlight(ch)') = Cardinality(InFlight(ch)) + 1
      /\ Cardinality(InFlight(ch)) < Sockets /\ Cardinality(InFlight(ch)) \in Nat
  BY <1>1, <1>6, FlightCount, Zenon
<1>8. queue' = [queue EXCEPT ![ch] = Pushed(q, cur[c])]
  BY <1>2, ZenonT(30) DEF Push
<1>9. Len(q.items) = Cardinality(InFlight(ch))
  BY <1>1, Zenon DEF CountInv, Counts
<1>10. HasRoom(q)
  <2>1. \A n \in Nat : n < Sockets => n # Size
    BY SizeType, BusAssumption
  <2> QED
    BY <1>7, <1>9, <2>1, Zenon DEF HasRoom
<1>11. /\ Pushed(q, cur[c]) \in [items : Seq(Id), state : States]
       /\ Len(Pushed(q, cur[c]).items) = Len(q.items) + 1
  BY <1>1, <1>10, PushedQueue, Zenon DEF Queues
<1>12. queue' \in [Chan -> [items : Seq(Id), state : States]]
  BY <1>1, <1>8, <1>11, Zenon DEF CountInv
<1>13. Counts'
  BY <1>1, <1>6, <1>7, <1>8, <1>9, <1>11, ZenonT(30) DEF CountInv, Counts
<1> QED
  BY <1>4, <1>5, <1>12, <1>13, ZenonT(30) DEF CountInv

LEMMA PopCounts ==
  ASSUME CountInv, NEW c \in Conn, Pop(c)
  PROVE  CountInv'
<1> DEFINE ch == ChanOf(c)
           q == queue[ch]
<1>1. ch \in Chan /\ pc[c] = "pop" /\ q \in [items : Seq(Id), state : States]
      /\ stop = "no"
  BY ChanOfConn, Zenon DEF CountInv, Pop, At, Smooth
<1>2. Pop(c) /\ HandlerInv /\ HandlerStep(c)
      /\ (pc'[c] \in {"none", "read"} \/ cur'[c] = cur[c])
  BY HandleStep, ZenonT(30) DEF CountInv, Handle
<1>3. pc'[c] \in {"resume", "read"}
  BY <1>1, <1>2, Zenon DEF Pop, Goto, Finish, HandlerInv
<1>4. HandlerInv'
  BY <1>1, <1>2, <1>3, Zenon DEF HandlerInv, HandlerStep, Pop
<1>5. Smooth'
  <2>1. stop' = stop /\ stage' = stage /\ bridge' = bridge
    BY <1>2, Zenon DEF Pop
  <2>2. Smooth
    BY ZenonT(30) DEF CountInv
  <2> QED
    BY <1>2, <1>3, <2>1, <2>2, Zenon DEF Smooth, HandlerStep
<1>6. /\ c \in InFlight(ch)
      /\ InFlight(ch)' = InFlight(ch) \ {c}
      /\ \A other \in Chan : other # ch => InFlight(other)' = InFlight(other)
  BY <1>1, <1>2, <1>3, HandlerCounts, Zenon
<1>7. /\ Cardinality(InFlight(ch)') = Cardinality(InFlight(ch)) - 1
      /\ Cardinality(InFlight(ch)') \in Nat /\ Cardinality(InFlight(ch)) \in Nat
  <2>1. /\ IsFiniteSet(InFlight(ch)) /\ Cardinality(InFlight(ch)) \in Nat
        /\ Cardinality(InFlight(ch) \ {c}) = Cardinality(InFlight(ch)) - 1
    BY <1>1, <1>6, FlightCount, ZenonT(30)
  <2>2. IsFiniteSet(InFlight(ch) \ {c})
    BY <2>1, FS_Subset, ZenonT(30)
  <2>3. Cardinality(InFlight(ch) \ {c}) \in Nat
    BY <2>2, FS_CardinalityType, ZenonT(30)
  <2> QED
    BY <1>6, <2>1, <2>3, ZenonT(30)
<1>8. queue' = [queue EXCEPT ![ch] = Popped(q)]
  BY <1>2, Zenon DEF Pop
<1>9. Len(q.items) = Cardinality(InFlight(ch))
  BY <1>1, ZenonT(30) DEF CountInv, Counts
<1>10. q.items # <<>>
  <2>1. Len(q.items) - 1 \in Nat
    BY <1>7, <1>9, ZenonT(30)
  <2>2. 0 - 1 \notin Nat
    OBVIOUS
  <2>3. q.items = <<>> => Len(q.items) = 0
    BY <1>1, PoppedQueue, Zenon DEF Queues
  <2> QED
    BY <2>1, <2>2, <2>3, Zenon
<1>11. /\ Popped(q) \in [items : Seq(Id), state : States]
       /\ Len(Popped(q).items) = Len(q.items) - 1
  BY <1>1, <1>10, PoppedQueue, Zenon DEF Queues
<1>12. queue' \in [Chan -> [items : Seq(Id), state : States]]
  BY <1>1, <1>8, <1>11, Zenon DEF CountInv
<1>13. Counts'
  BY <1>1, <1>6, <1>7, <1>8, <1>9, <1>11, ZenonT(30) DEF CountInv, Counts
<1> QED
  BY <1>4, <1>5, <1>12, <1>13, ZenonT(30) DEF CountInv

LEMMA InitCounts == Init => CountInv
<1> SUFFICES ASSUME Init PROVE CountInv
  OBVIOUS
<1>1. HandlerInv
  BY InitHandler, Zenon
<1>2. Smooth
  BY Zenon DEF Init, Smooth
<1>3. queue \in [Chan -> [items : Seq(Id), state : States]]
  BY DEF Init, EmptyQueue, States
<1>4. \A ch \in Chan : InFlight(ch) = {} /\ queue[ch].items = <<>>
  BY Zenon DEF Init, InFlight, ConnsOf, EmptyQueue
<1>5. Cardinality({}) = 0 /\ Len(<<>>) = 0
  BY FS_EmptySet, Zenon
<1>6. Counts
  BY <1>4, <1>5, ZenonT(30) DEF Counts
<1> QED
  BY <1>1, <1>2, <1>3, <1>6, Zenon DEF CountInv

LEMMA DieCounts ==
  ASSUME CountInv, Die, HandlerInv'
  PROVE  CountInv'
<1>2. Smooth'
  BY Zenon DEF Die, FreshProcess, Bridge, CountInv, Smooth
<1>3. queue' \in [Chan -> [items : Seq(Id), state : States]]
  BY DEF Die, FreshProcess, EmptyQueue, States
<1>4. \A ch \in Chan : InFlight(ch)' = {} /\ queue'[ch].items = <<>>
  BY Zenon DEF Die, FreshProcess, InFlight, ConnsOf, EmptyQueue
<1>5. Cardinality({}) = 0 /\ Len(<<>>) = 0
  BY FS_EmptySet, Zenon
<1>6. Counts'
  BY <1>4, <1>5, Zenon DEF Counts
<1> QED
  BY <1>2, <1>3, <1>6, Zenon DEF CountInv

LEMMA NextCounts ==
  ASSUME "bridge" \notin Env, "term" \notin Env, Sockets <= Size,
         CountInv, [Next]_vars
  PROVE  CountInv'
<1>1. HandlerInv /\ HandlerInv' /\ Smooth /\ Counts
      /\ queue \in [Chan -> [items : Seq(Id), state : States]]
  BY NextHandler, ZenonT(30) DEF CountInv
<1>2. ASSUME NEW c \in Conn, Handle(c) PROVE CountInv'
  <2>1. CASE Push(c)
    BY <2>1, PushCounts, Zenon
  <2>2. CASE Pop(c)
    BY <2>2, PopCounts, Zenon
  <2>3. CASE SlowDown(c) \/ BridgeSend(c) \/ CompleteMsg(c) \/ Resume(c)
    <3>1. HandlerStep(c)
      BY <1>1, <1>2, HandleStep, Zenon
    <3>2. UNCHANGED <<queue, stage, stop, bridge>>
      BY <2>3, ZenonT(30) DEF SlowDown, BridgeSend, CompleteMsg, Resume
    <3>3. <<pc[c], pc'[c]>> \in {<<"slow", "send">>, <<"send", "complete">>,
                                 <<"complete", "pop">>, <<"resume", "read">>}
      BY <1>1, <2>3, ZenonT(30) DEF SlowDown, BridgeSend, CompleteMsg, Resume, At, Goto, Finish, Smooth,
                        HandlerInv, BridgeAccepts
    <3>4. Smooth'
      BY <1>1, <3>1, <3>2, <3>3, Zenon DEF Smooth, HandlerStep
    <3>5. Counts'
      BY <1>1, <3>1, <3>2, <3>3, SameFlight, Zenon DEF HandlerStep
    <3>6. queue' = queue
      BY <3>2, Zenon
    <3> QED
      BY <1>1, <3>4, <3>5, <3>6, ZenonT(30) DEF CountInv
  <2>4. ~Retry(c) /\ ~Mark(c) /\ ~Put(c)
    BY <1>1, ZenonT(30) DEF Retry, Mark, Put, At, Smooth
  <2> QED
    BY <1>2, <2>1, <2>2, <2>3, <2>4, ZenonT(30) DEF Handle
<1>3. ASSUME NEW c \in Conn, NEW m \in Id, Arrive(c, m) PROVE CountInv'
  <2>1. UNCHANGED <<queue, stage, stop, bridge>> /\ pc' = [pc EXCEPT ![c] = "push"]
        /\ pc[c] = "read"
    BY <1>3, ZenonT(30) DEF Arrive, At
  <2>2. Smooth'
    BY <1>1, <2>1, Zenon DEF Smooth, HandlerInv
  <2>3. Counts'
    BY <1>1, <2>1, SameFlight, Zenon DEF HandlerInv
  <2> QED
    BY <1>1, <2>1, <2>2, <2>3, ZenonT(30) DEF CountInv
<1>4. CASE Die
  BY <1>1, <1>4, DieCounts, ZenonT(30)
<1>5. ASSUME NEW c \in Conn, Connect(c) \/ Leave(c) PROVE CountInv'
  <2>1. UNCHANGED <<queue, stage, stop, bridge>>
        /\ \/ pc[c] = "none" /\ pc' = [pc EXCEPT ![c] = "read"]
           \/ pc[c] = "read" /\ pc' = [pc EXCEPT ![c] = "none"]
    BY <1>5, ZenonT(30) DEF Connect, Leave
  <2>2. Smooth'
    BY <1>1, <2>1, Zenon DEF Smooth, HandlerInv
  <2>3. Counts'
    BY <1>1, <2>1, SameFlight, Zenon DEF HandlerInv
  <2>4. queue' = queue
    BY <2>1, ZenonT(30)
  <2> QED
    BY <1>1, <2>2, <2>3, <2>4, ZenonT(30) DEF CountInv
<1>6. ASSUME UNCHANGED <<pc, queue, stop>>,
             bridge' = bridge \/ Bridge("up"),
             \/ stage' = stage
             \/ stage = "boot" /\ stage' = "replay" /\ Bridge("up")
             \/ stage = "replay" /\ stage' = "serve"
      PROVE  CountInv'
  <2>1. Smooth'
    BY <1>1, <1>6, Zenon DEF Smooth, Bridge
  <2>2. Counts'
    BY <1>1, <1>6, SameFlight, Zenon
  <2> QED
    BY <1>1, <1>6, <2>1, <2>2, Zenon DEF CountInv
<1>7. CASE Boot
  <2>1. /\ UNCHANGED <<pc, queue, stop>>
        /\ stage = "boot" /\ stage' = "replay" /\ Bridge("up")
    BY <1>7, ZenonT(30) DEF Boot
  <2> QED
    BY <1>6, <2>1, Zenon
<1>8. CASE Replaying
  <2>1. /\ UNCHANGED <<pc, queue, stop, bridge>>
        /\ stage' = stage \/ (stage = "replay" /\ stage' = "serve")
    BY <1>8, Zenon DEF Replaying, ReplayComplete, Serve, ReplaySend
  <2> QED
    BY <1>6, <2>1, Zenon
<1>9. CASE Compaction \/ UNCHANGED vars \/ \E c \in Conn : Disconnect(c)
  <2>1. UNCHANGED <<pc, queue, stop, bridge, stage>>
    BY <1>9, Zenon DEF Compaction, vars, busVars, procVars, Disconnect
  <2> QED
    BY <1>6, <2>1, Zenon
<1>10. CASE BridgeHeals
  <2>1. UNCHANGED <<pc, queue, stop, stage>> /\ Bridge("up")
    BY <1>10, ZenonT(30) DEF BridgeHeals, procVars
  <2> QED
    BY <1>6, <2>1, Zenon
<1>11. ~SendShutdown /\ ~BridgeBreaks
  BY Zenon DEF SendShutdown, BridgeBreaks
<1>12. ~FlushOnStop /\ ~CloseBridge /\ ~Cancel /\ ~Exit
  BY <1>1, Zenon DEF FlushOnStop, CloseBridge, Cancel, Exit, Smooth
<1> QED
  BY <1>2, <1>3, <1>4, <1>5, <1>7, <1>8, <1>9, <1>10, <1>11, <1>12, ZenonT(30)
     DEF Next, ShuttingDown, Kill, OutboundPanic

\* With a bridge that takes every message, a process that is not told to stop and
\* no more sockets than places in the buffer, a channel's ring buffer counts the
\* messages that handlers have pushed and not popped, whichever handler's message
\* each Pop of HandleInbound takes and however the process crashes and restarts.
THEOREM BufferCorrect ==
  ASSUME "bridge" \notin Env, "term" \notin Env, Sockets <= Size
  PROVE  Spec => []BufferCountsInFlight
<1>1. CountInv => BufferCountsInFlight
  BY Zenon DEF CountInv, Counts, BufferCountsInFlight, InFlight
<1>2. CountInv /\ [Next]_vars => CountInv'
  BY NextCounts, Zenon
<1> QED
  BY <1>1, <1>2, InitCounts, PTL DEF Spec

-----------------------------------------------------------------------------
(* Flow control of the channels.                                             *)

\* A step leaves the buffers alone, pushes to one, pops from one, or ends the
\* process and with it all of them.
LEMMA QueueStep ==
  ASSUME HandlerInv, [Next]_vars
  PROVE  \/ UNCHANGED queue
         \/ queue' = [ch \in Chan |-> EmptyQueue]
         \/ \E c \in Conn : /\ cur[c] \in Id
                            /\ \/ queue' = [queue EXCEPT ![ChanOf(c)] = Pushed(@, cur[c])]
                               \/ queue' = [queue EXCEPT ![ChanOf(c)] = Popped(@)]
<1>1. ASSUME NEW c \in Conn, Handle(c)
      PROVE  \/ UNCHANGED queue
             \/ /\ cur[c] \in Id
                /\ \/ queue' = [queue EXCEPT ![ChanOf(c)] = Pushed(@, cur[c])]
                   \/ queue' = [queue EXCEPT ![ChanOf(c)] = Popped(@)]
  <2>1. cur[c] \in Id
    BY <1>1, HandleStep, Zenon DEF HandlerInv
  <2>2. CASE Push(c)
    BY <2>1, <2>2, Zenon DEF Push
  <2>3. CASE Pop(c)
    BY <2>1, <2>3, Zenon DEF Pop
  <2>4. CASE SlowDown(c) \/ BridgeSend(c) \/ Resume(c)
    BY <2>4, Zenon DEF SlowDown, BridgeSend, Resume
  <2>5. CASE Retry(c) \/ Mark(c) \/ Put(c) \/ CompleteMsg(c)
    BY <2>5, Zenon DEF Retry, Mark, Put, CompleteMsg
  <2> QED
    BY <1>1, <2>2, <2>3, <2>4, <2>5, Zenon DEF Handle
<1>2. CASE \E c \in Conn, m \in Id : Arrive(c, m)
  BY <1>2, Zenon DEF Arrive
<1>3. CASE Boot \/ Replaying
  BY <1>3, Zenon DEF Boot, Replaying, ReplayComplete, Serve, ReplaySend
<1>4. CASE \E c \in Conn : Connect(c) \/ Disconnect(c) \/ Leave(c)
  BY <1>4, Zenon DEF Connect, Disconnect, Leave, procVars
<1>5. CASE SendShutdown \/ FlushOnStop \/ CloseBridge \/ Cancel
  BY <1>5, Zenon DEF SendShutdown, FlushOnStop, CloseBridge, Cancel
<1>6. CASE Exit \/ Kill \/ OutboundPanic
  BY <1>6, Zenon DEF Exit, Kill, OutboundPanic, Die, FreshProcess
<1>7. CASE BridgeBreaks \/ BridgeHeals \/ Compaction \/ UNCHANGED vars
  BY <1>7, Zenon DEF BridgeBreaks, BridgeHeals, Compaction, vars, busVars, procVars
<1> QED
  BY <1>1, <1>2, <1>3, <1>4, <1>5, <1>6, <1>7, Zenon DEF Next, ShuttingDown

FlowInv ==
  /\ HandlerInv /\ queue = [ch \in Chan |-> queue[ch]]
  /\ \A ch \in Chan : Flows(queue[ch])

LEMMA InitFlow == Init => FlowInv
<1> SUFFICES ASSUME Init PROVE FlowInv
  BY Zenon
<1>1. queue = [ch \in Chan |-> EmptyQueue]
  BY Zenon DEF Init
<1> QED
  BY <1>1, InitHandler, EmptyFlows, Zenon DEF FlowInv

LEMMA NextFlow ==
  ASSUME LowMark < HighMark
  PROVE  FlowInv /\ [Next]_vars => FlowInv'
<1> SUFFICES ASSUME FlowInv, [Next]_vars PROVE FlowInv'
  BY Zenon
<1>1. HandlerInv /\ HandlerInv'
  BY NextHandler, Zenon DEF FlowInv
<1>2. CASE UNCHANGED queue
  BY <1>1, <1>2, Zenon DEF FlowInv
<1>3. CASE queue' = [ch \in Chan |-> EmptyQueue]
  BY <1>1, <1>3, EmptyFlows, Zenon DEF FlowInv
<1>4. ASSUME NEW c \in Conn, NEW q, Flows(q), queue' = [queue EXCEPT ![ChanOf(c)] = q]
      PROVE  FlowInv'
  <2>1. queue' = [ch \in Chan |-> IF ch = ChanOf(c) THEN q ELSE queue[ch]]
    BY <1>4, Zenon DEF FlowInv
  <2> QED
    BY <1>1, <1>4, <2>1, Zenon DEF FlowInv
<1>5. ASSUME NEW c \in Conn, cur[c] \in Id
      PROVE  Flows(Pushed(queue[ChanOf(c)], cur[c])) /\ Flows(Popped(queue[ChanOf(c)]))
  <2>1. Flows(queue[ChanOf(c)])
    BY ChanOfConn, Zenon DEF FlowInv
  <2> QED
    BY <1>5, <2>1, PushFlows, PopFlows, Zenon
<1> QED
  BY <1>1, <1>2, <1>3, <1>4, <1>5, QueueStep, Zenon

\* With the low watermark below the high one, whatever the handlers of a channel
\* push and pop concurrently and whichever processes die, its ring buffer fits
\* its array, is in state normal only below the high watermark and in state
\* slow_down only above the low one.
THEOREM FlowCorrect ==
  ASSUME LowMark < HighMark
  PROVE  Spec => [](\A ch \in Chan : Flows(queue[ch]))
<1>1. FlowInv => \A ch \in Chan : Flows(queue[ch])
  BY Zenon DEF FlowInv
<1>2. FlowInv /\ [Next]_vars => FlowInv'
  BY NextFlow, Zenon
<1> QED
  BY <1>1, <1>2, InitFlow, PTL DEF Spec

\* With a bridge that takes every message, a process that is not told to stop
\* and no more sockets than places, a channel none of whose handlers has a
\* message between Push and Pop has an empty ring buffer in state normal: the
\* buffer never keeps holding a client back on behalf of messages that are gone.
THEOREM QuietIsFree ==
  ASSUME LowMark < HighMark, "bridge" \notin Env, "term" \notin Env, Sockets <= Size
  PROVE  Spec => [](\A ch \in Chan : InFlight(ch) = {} => queue[ch] = EmptyQueue)
<1>1. CountInv /\ FlowInv => \A ch \in Chan : InFlight(ch) = {} => queue[ch] = EmptyQueue
  <2> SUFFICES ASSUME CountInv, FlowInv, NEW ch \in Chan, InFlight(ch) = {}
               PROVE  queue[ch] = EmptyQueue
    BY Zenon
  <2> DEFINE q == queue[ch]
  <2>1. Len(q.items) = 0
    BY FS_EmptySet, Zenon DEF CountInv, Counts
  <2>2. q \in Queues /\ Flows(q)
    BY Zenon DEF FlowInv, Flows
  <2> HIDE DEF q
  <2>3. q.items = <<>>
    BY <2>1, <2>2, PoppedQueue, Zenon
  <2>4. q.state = "normal"
    BY <2>1, <2>2, EmptyFlows, Zenon DEF Flows, Queues, States
  <2>5. q = [items |-> q.items, state |-> q.state]
    BY <2>2, Zenon DEF Queues
  <2> QED
    BY <2>3, <2>4, <2>5, Zenon DEF EmptyQueue, q
<1>2. CountInv /\ [Next]_vars => CountInv'
  BY NextCounts, Zenon
<1>3. FlowInv /\ [Next]_vars => FlowInv'
  BY NextFlow, Zenon
<1> QED
  BY <1>1, <1>2, <1>3, InitCounts, InitFlow, PTL DEF Spec
=============================================================================
