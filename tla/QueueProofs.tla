---------------------------- MODULE QueueProofs ----------------------------
(***************************************************************************)
(* Proofs about the two bounded queues of the bus.                         *)
(*                                                                         *)
(* RingBuffer, for every size and every pair of watermarks.  The inductive *)
(* invariant is TypeOK with WindowExact: the refinement needs to know that *)
(* the slot Push writes is not one of those Contents reads.                *)
(*                                                                         *)
(* DLQ, for every set of message IDs, capacity, TTL and base.  SizeBounded *)
(* is inductive once the set of keys is known to be finite, and            *)
(* DroppedForAReason needs it, because a Put that evicts must have found   *)
(* exactly MaxSize entries.                                                *)
(***************************************************************************)
EXTENDS RingBuffer, DLQ, FiniteSetTheorems, TLAPS

-----------------------------------------------------------------------------
(* Arithmetic: every index the buffer computes is below 2 * Size.           *)

LEMMA ModBelow ==
  ASSUME NEW n \in Nat \ {0}, NEW x \in 0 .. n - 1
  PROVE  x % n = x
BY SMT

LEMMA ModAbove ==
  ASSUME NEW n \in Nat \ {0}, NEW x \in n .. 2 * n - 1
  PROVE  x % n = x - n
BY SMT

\* Whatever NewRingBuffer is given, the buffer has at least one slot and the
\* watermarks are percentages.
LEMMA Sanitised ==
  /\ Size \in Nat \ {0}
  /\ HighMark \in 1 .. 100
  /\ LowMark \in 1 .. 100
<1>1. Size \in Nat \ {0}
  BY ArgAssumption DEF Size
<1>2. HighMark \in 1 .. 100
  BY ArgAssumption DEF HighMark
<1>3. LowMark \in 1 .. 100
  BY ArgAssumption, <1>2 DEF LowMark
<1> QED
  BY <1>1, <1>2, <1>3

Wrap(x) == IF x < Size THEN x ELSE x - Size

LEMMA ModWrap ==
  ASSUME NEW x \in 0 .. 2 * Size - 1
  PROVE  x % Size = Wrap(x) /\ Wrap(x) \in Slots
<1>1. CASE x < Size
  BY <1>1, Sanitised, ModBelow DEF Wrap, Slots
<1>2. CASE ~(x < Size)
  BY <1>2, Sanitised, ModAbove DEF Wrap, Slots
<1> QED
  BY <1>1, <1>2

\* The slots of the window, without the remainder.
LEMMA SlotWrap ==
  ASSUME head \in Slots, NEW i \in 1 .. Size
  PROVE  SlotOf(i) = Wrap(head + i - 1) /\ SlotOf(i) \in Slots
<1>1. head + i - 1 \in 0 .. 2 * Size - 1
  BY Sanitised DEF Slots
<1> QED
  BY <1>1, ModWrap DEF SlotOf

-----------------------------------------------------------------------------
(* The inductive invariant.                                                 *)

LEMMA InitInv == Init => TypeOK /\ WindowExact
<1> SUFFICES ASSUME Init PROVE TypeOK /\ WindowExact
  OBVIOUS
<1>1. TypeOK
  BY Sanitised DEF Init, TypeOK, Slots, States
<1>2. tail = (head + count) % Size
  BY Sanitised, ModBelow DEF Init
<1>3. \A s \in Slots : ~(buf[s] # Nil) /\ ~(\E i \in 1 .. count : s = SlotOf(i))
  BY DEF Init
<1> QED
  BY <1>1, <1>2, <1>3 DEF WindowExact

LEMMA PushInv ==
  ASSUME TypeOK, WindowExact, NEW m \in Msg, PushStore(m)
  PROVE  TypeOK' /\ WindowExact'
<1> USE Sanitised DEF TypeOK
<1>1. count \in 0 .. Size - 1 /\ count' = count + 1 /\ head' = head
  BY DEF PushStore
<1>2. tail = Wrap(head + count) /\ tail' = Wrap(head + count + 1)
  <2>1. head + count \in 0 .. 2 * Size - 1
    BY <1>1 DEF Slots
  <2>2. tail = Wrap(head + count)
    BY <2>1, ModWrap DEF WindowExact
  <2>3. tail + 1 \in 0 .. 2 * Size - 1
    BY DEF Slots
  <2>4. tail' = Wrap(tail + 1)
    BY <2>3, ModWrap, Zenon DEF PushStore
  <2> QED
    BY <1>1, <2>2, <2>4 DEF Wrap, Slots
<1>3. TypeOK'
  <2>1. tail' \in Slots
    BY <1>1, <1>2 DEF Wrap, Slots
  <2>2. state' \in States
    BY Zenon DEF PushStore, StateAfterPush, States
  <2>3. buf' \in [Slots -> Msg \cup {Nil}]
    BY DEF PushStore
  <2> QED
    BY <1>1, <2>1, <2>2, <2>3 DEF PushStore
<1>4. tail' = (head' + count') % Size
  <2>1. head + count + 1 \in 0 .. 2 * Size - 1
    BY <1>1 DEF Slots
  <2>2. head' + count' = head + count + 1
    BY <1>1 DEF Slots
  <2> QED
    BY <1>2, <2>1, <2>2, ModWrap, Zenon
<1>5. \A i \in 1 .. count' : SlotOf(i)' = SlotOf(i) /\ SlotOf(i) = Wrap(head + i - 1)
  BY <1>1, SlotWrap DEF SlotOf
<1>6. SlotOf(count') = tail
  BY <1>1, <1>2, <1>5 DEF Slots
<1>7. ASSUME NEW s \in Slots
      PROVE  (buf'[s] # Nil) <=> (\E i \in 1 .. count' : s = SlotOf(i)')
  <2>1. CASE s = tail
    <3>1. buf'[s] = m
      BY <2>1, Zenon DEF PushStore
    <3>2. count' \in 1 .. count'
      BY <1>1
    <3> QED
      BY <2>1, <3>1, <3>2, <1>5, <1>6, NilAssumption
  <2>2. CASE s # tail
    <3>1. buf'[s] = buf[s]
      BY <2>2, Zenon DEF PushStore
    <3>2. (\E i \in 1 .. count' : s = SlotOf(i)) <=> (\E i \in 1 .. count : s = SlotOf(i))
      BY <2>2, <1>1, <1>6
    <3> QED
      BY <3>1, <3>2, <1>5 DEF WindowExact
  <2> QED
    BY <2>1, <2>2, Zenon
<1> QED
  BY <1>3, <1>4, <1>7, Zenon DEF WindowExact

LEMMA PopInv ==
  ASSUME TypeOK, WindowExact, PopTake
  PROVE  TypeOK' /\ WindowExact'
<1> USE Sanitised DEF TypeOK
<1>1. count \in 1 .. Size /\ count' = count - 1 /\ tail' = tail
  BY DEF PopTake
<1>2. head' = Wrap(head + 1) /\ head' \in Slots
  <2>1. head + 1 \in 0 .. 2 * Size - 1
    BY DEF Slots
  <2> QED
    BY <2>1, ModWrap, Zenon DEF PopTake
<1>3. TypeOK'
  <2>1. state' \in States
    BY Zenon DEF PopTake, StateAfterPop, States
  <2>2. buf' \in [Slots -> Msg \cup {Nil}] /\ buf[head] \in Msg \cup {Nil}
    BY Zenon DEF PopTake
  <2> QED
    BY <1>1, <1>2, <2>1, <2>2 DEF PopTake
<1>4. tail' = (head' + count') % Size
  <2>1. /\ head + count \in 0 .. 2 * Size - 1
        /\ head' + count' \in 0 .. 2 * Size - 1
    BY <1>1, <1>2 DEF Slots
  <2>2. Wrap(head' + count') = Wrap(head + count)
    BY <1>1, <1>2, <2>1 DEF Wrap, Slots
  <2> QED
    BY <1>1, <2>1, <2>2, ModWrap, Zenon DEF WindowExact
<1>5. \A i \in 1 .. count : SlotOf(i) = Wrap(head + i - 1) /\ SlotOf(i) \in Slots
  BY <1>1, SlotWrap
<1>6. \A i \in 1 .. count' : SlotOf(i)' = SlotOf(i + 1)
  <2> SUFFICES ASSUME NEW i \in 1 .. count' PROVE SlotOf(i)' = SlotOf(i + 1)
    BY Zenon
  <2>1. head' + i - 1 \in 0 .. 2 * Size - 1
    BY <1>1, <1>2 DEF Slots
  <2>2. SlotOf(i)' = Wrap(head' + i - 1)
    BY <2>1, ModWrap, Zenon DEF SlotOf
  <2>3. SlotOf(i + 1) = Wrap(head + i)
    BY <1>1, <1>5
  <2> QED
    BY <1>1, <1>2, <2>2, <2>3 DEF Wrap, Slots
<1>7. SlotOf(1) = head /\ \A i \in 2 .. count : SlotOf(i) # head
  BY <1>1, <1>5 DEF Wrap, Slots
<1>8. ASSUME NEW s \in Slots
      PROVE  (buf'[s] # Nil) <=> (\E i \in 1 .. count' : s = SlotOf(i)')
  <2>1. (\E i \in 1 .. count' : s = SlotOf(i)') <=> (\E i \in 2 .. count : s = SlotOf(i))
    <3>1. ASSUME NEW i \in 1 .. count', s = SlotOf(i)'
          PROVE  \E j \in 2 .. count : s = SlotOf(j)
      <4>1. i + 1 \in 2 .. count
        BY <1>1
      <4> QED
        BY <3>1, <4>1, <1>6, Zenon
    <3>2. ASSUME NEW j \in 2 .. count, s = SlotOf(j)
          PROVE  \E i \in 1 .. count' : s = SlotOf(i)'
      <4>1. j - 1 \in 1 .. count' /\ (j - 1) + 1 = j
        BY <1>1
      <4> QED
        BY <3>2, <4>1, <1>6, Zenon
    <3> QED
      BY <3>1, <3>2
  <2>2. CASE s = head
    <3>1. buf'[s] = Nil
      BY <2>2, Zenon DEF PopTake
    <3> QED
      BY <2>1, <2>2, <3>1, <1>7, Zenon
  <2>3. CASE s # head
    <3>1. buf'[s] = buf[s]
      BY <2>3, Zenon DEF PopTake
    <3>2. (\E i \in 1 .. count : s = SlotOf(i)) <=> (\E i \in 2 .. count : s = SlotOf(i))
      BY <2>3, <1>1, <1>7
    <3> QED
      BY <2>1, <3>1, <3>2, Zenon DEF WindowExact
  <2> QED
    BY <2>2, <2>3, Zenon
<1> QED
  BY <1>3, <1>4, <1>8, Zenon DEF WindowExact

LEMMA NextInv == TypeOK /\ WindowExact /\ [Next]_vars => TypeOK' /\ WindowExact'
<1> SUFFICES ASSUME TypeOK, WindowExact, [Next]_vars
             PROVE  TypeOK' /\ WindowExact'
  OBVIOUS
<1>1. ASSUME NEW m \in Msg, Push(m) PROVE TypeOK' /\ WindowExact'
  <2>1. CASE PushFull
    BY <2>1 DEF PushFull, TypeOK, WindowExact, SlotOf
  <2>2. CASE PushStore(m)
    BY <2>2, PushInv, Zenon
  <2> QED
    BY <1>1, <2>1, <2>2 DEF Push
<1>2. CASE PopEmpty
  BY <1>2 DEF PopEmpty, TypeOK, WindowExact, SlotOf
<1>3. CASE PopTake
  BY <1>3, PopInv
<1>4. CASE UNCHANGED vars
  BY <1>4, Zenon DEF vars, TypeOK, WindowExact, SlotOf
<1> QED
  BY <1>1, <1>2, <1>3, <1>4, Zenon DEF Next, Pop

\* The variables keep their types, for every argument of NewRingBuffer.
THEOREM TypeCorrect == Spec => []TypeOK
<1>1. Spec => [](TypeOK /\ WindowExact)
  BY InitInv, NextInv, PTL DEF Spec
<1> QED
  BY <1>1, PTL

\* The messages of a ring buffer of any size are exactly the count slots from
\* head: Push never overwrites a message and Pop leaves no reference behind.
THEOREM WindowCorrect == Spec => []WindowExact
<1>1. Spec => [](TypeOK /\ WindowExact)
  BY InitInv, NextInv, PTL DEF Spec
<1> QED
  BY <1>1, PTL

-----------------------------------------------------------------------------
(* Flow control.                                                            *)

LEMMA MarksApart ==
  ASSUME LowMark < HighMark, NEW n \in Nat
  PROVE  ReachesHigh(n) => ~DropsToLow(n)
<1> DEFINE h == HighMark * Size
           l == LowMark * Size
<1>1. h \in Int /\ l \in Int /\ l < h
  BY Sanitised, Z3
<1>2. ~(n * 100 >= h /\ n * 100 <= l)
  <2> HIDE DEF h, l
  <2> QED
    BY <1>1
<1> QED
  BY <1>2 DEF ReachesHigh, DropsToLow

LEMMA Monotone ==
  ASSUME NEW n \in Nat
  PROVE  /\ ReachesHigh(n) => ReachesHigh(n + 1)
         /\ DropsToLow(n + 1) => DropsToLow(n)
<1> DEFINE h == HighMark * Size
           l == LowMark * Size
<1>1. h \in Int /\ l \in Int
  BY Sanitised
<1>2. /\ n * 100 >= h => (n + 1) * 100 >= h
      /\ (n + 1) * 100 <= l => n * 100 <= l
  <2> HIDE DEF h, l
  <2> QED
    BY <1>1
<1> QED
  BY <1>2 DEF ReachesHigh, DropsToLow

LEMMA EmptyIsFree == ~ReachesHigh(0)
<1>1. HighMark * Size \in Int /\ HighMark * Size > 0
  BY Sanitised
<1> QED
  BY <1>1 DEF ReachesHigh

LEMMA HysteresisStep ==
  ASSUME LowMark < HighMark
  PROVE  TypeOK /\ Hysteresis /\ [Next]_vars => Hysteresis'
<1> SUFFICES ASSUME TypeOK, Hysteresis, [Next]_vars
             PROVE  Hysteresis'
  OBVIOUS
<1> USE DEF TypeOK
<1>1. ASSUME NEW m \in Msg, PushStore(m) PROVE Hysteresis'
  <2>1. count \in Nat /\ count' = count + 1
    BY <1>1, Sanitised DEF PushStore
  <2>2. /\ ReachesHigh(count') => ~DropsToLow(count')
        /\ DropsToLow(count') => DropsToLow(count)
    BY <2>1, MarksApart, Monotone
  <2>3. CASE state = "normal" /\ ReachesHigh(count')
    BY <1>1, <2>2, <2>3, Zenon DEF PushStore, StateAfterPush, Hysteresis
  <2>4. CASE ~(state = "normal" /\ ReachesHigh(count'))
    BY <1>1, <2>2, <2>4, Zenon DEF PushStore, StateAfterPush, Hysteresis
  <2> QED
    BY <2>3, <2>4
<1>2. ASSUME PopTake PROVE Hysteresis'
  <2>1. count' \in Nat /\ count = count' + 1
    BY <1>2, Sanitised DEF PopTake
  <2>2. /\ ReachesHigh(count') => ~DropsToLow(count')
        /\ ReachesHigh(count') => ReachesHigh(count)
    BY <2>1, MarksApart, Monotone, Zenon
  <2>3. CASE state = "slow_down" /\ DropsToLow(count')
    BY <1>2, <2>2, <2>3, Zenon DEF PopTake, StateAfterPop, Hysteresis
  <2>4. CASE ~(state = "slow_down" /\ DropsToLow(count'))
    BY <1>2, <2>2, <2>4, Zenon DEF PopTake, StateAfterPop, Hysteresis
  <2> QED
    BY <2>3, <2>4
<1>3. CASE UNCHANGED <<count, state>>
  BY <1>3, Zenon DEF Hysteresis, ReachesHigh, DropsToLow
<1> QED
  BY <1>1, <1>2, <1>3, Zenon DEF Next, Push, Pop, PushFull, PopEmpty, vars

\* With the low watermark below the high one, producers run freely only below
\* the high watermark and are held only above the low one.
THEOREM HysteresisCorrect == LowMark < HighMark => (Spec => []Hysteresis)
<1> SUFFICES ASSUME LowMark < HighMark PROVE Spec => []Hysteresis
  OBVIOUS
<1>1. Init => Hysteresis
  BY EmptyIsFree, Zenon DEF Init, Hysteresis
<1>2. TypeOK /\ Hysteresis /\ [Next]_vars => Hysteresis'
  BY HysteresisStep
<1> QED
  BY <1>1, <1>2, TypeCorrect, PTL DEF Spec

-----------------------------------------------------------------------------
(* The circular array implements the bounded FIFO queue.                    *)

LEMMA SameArithmetic ==
  /\ Queue!Size = Size /\ Queue!HighMark = HighMark /\ Queue!LowMark = LowMark
  /\ \A s, n : Queue!StateAfterPush(s, n) = StateAfterPush(s, n)
  /\ \A s, n : Queue!StateAfterPop(s, n) = StateAfterPop(s, n)
<1>1. Queue!Size = Size
  BY DEF Queue!Size, Size
<1>2. Queue!HighMark = HighMark
  BY DEF Queue!HighMark, HighMark
<1>3. Queue!LowMark = LowMark
  BY <1>2 DEF Queue!LowMark, LowMark
<1>4. \A s, n : Queue!StateAfterPush(s, n) = StateAfterPush(s, n)
  BY <1>1, <1>2 DEF Queue!StateAfterPush, StateAfterPush, Queue!ReachesHigh, ReachesHigh
<1>5. \A s, n : Queue!StateAfterPop(s, n) = StateAfterPop(s, n)
  BY <1>1, <1>3 DEF Queue!StateAfterPop, StateAfterPop, Queue!DropsToLow, DropsToLow
<1> QED
  BY <1>1, <1>2, <1>3, <1>4, <1>5, Zenon

ContentsRead ==
  /\ Contents \in Seq(Msg \cup {Nil})
  /\ Len(Contents) = count
  /\ \A i \in 1 .. count : Contents[i] = buf[SlotOf(i)]

LEMMA ContentsSeq == TypeOK => ContentsRead
<1> SUFFICES ASSUME TypeOK PROVE ContentsRead
  OBVIOUS
<1> USE DEF TypeOK
<1>1. count \in Nat
  BY Sanitised
<1>2. \A i \in 1 .. count : buf[SlotOf(i)] \in Msg \cup {Nil}
  BY SlotWrap, Sanitised
<1> QED
  BY <1>1, <1>2 DEF Contents, ContentsRead

LEMMA PushAppends ==
  ASSUME TypeOK, WindowExact, NEW m \in Msg, PushStore(m)
  PROVE  Contents' = Append(Contents, m)
<1>0. TypeOK'
  BY PushInv
<1>1. count' = count + 1 /\ head' = head /\ count \in 0 .. Size - 1
  BY Sanitised DEF PushStore, TypeOK
<1>2. /\ Contents \in Seq(Msg \cup {Nil}) /\ Len(Contents) = count
      /\ \A i \in 1 .. count : Contents[i] = buf[SlotOf(i)]
  BY ContentsSeq, Zenon DEF ContentsRead
<1>3. /\ Contents' \in Seq(Msg \cup {Nil}) /\ Len(Contents') = count'
      /\ \A i \in 1 .. count' : Contents'[i] = buf'[SlotOf(i)']
  <2>1. TypeOK' => ContentsRead'
    BY ContentsSeq, PTL
  <2> QED
    BY <1>0, <2>1 DEF ContentsRead
<1>4. \A i \in 1 .. count' : SlotOf(i)' = SlotOf(i) /\ SlotOf(i) = Wrap(head + i - 1)
  BY <1>1, SlotWrap, Sanitised DEF SlotOf, TypeOK
<1>5. tail = Wrap(head + count)
  BY <1>1, ModWrap, Sanitised DEF WindowExact, TypeOK, Slots
<1>6. Contents'[count + 1] = m
  <2>1. SlotOf(count + 1) = tail
    BY <1>1, <1>4, <1>5, Sanitised DEF TypeOK, Slots
  <2> QED
    BY <2>1, <1>1, <1>3, <1>4 DEF PushStore, TypeOK
<1>7. \A i \in 1 .. count : Contents'[i] = Contents[i]
  <2> SUFFICES ASSUME NEW i \in 1 .. count PROVE Contents'[i] = Contents[i]
    BY Zenon
  <2>1. SlotOf(i) # tail
    BY <1>1, <1>4, <1>5, Sanitised DEF TypeOK, Slots, Wrap
  <2>2. buf'[SlotOf(i)] = buf[SlotOf(i)]
    BY <2>1, <1>1, SlotWrap DEF PushStore, TypeOK
  <2> QED
    BY <2>2, <1>1, <1>2, <1>3, <1>4
<1> QED
  BY <1>1, <1>2, <1>3, <1>6, <1>7

LEMMA PopTakesHead ==
  ASSUME TypeOK, WindowExact, PopTake
  PROVE  /\ Contents # <<>>
         /\ Contents' = Tail(Contents)
         /\ buf[head] = Head(Contents)
<1>0. TypeOK'
  BY PopInv
<1>1. count' = count - 1 /\ count \in 1 .. Size
  BY Sanitised DEF PopTake, TypeOK
<1>2. /\ Contents \in Seq(Msg \cup {Nil}) /\ Len(Contents) = count
      /\ \A i \in 1 .. count : Contents[i] = buf[SlotOf(i)]
  BY ContentsSeq, Zenon DEF ContentsRead
<1>3. /\ Contents' \in Seq(Msg \cup {Nil}) /\ Len(Contents') = count'
      /\ \A i \in 1 .. count' : Contents'[i] = buf'[SlotOf(i)']
  <2>1. TypeOK' => ContentsRead'
    BY ContentsSeq, PTL
  <2> QED
    BY <1>0, <2>1, Zenon DEF ContentsRead
<1>4. \A i \in 1 .. count : SlotOf(i) = Wrap(head + i - 1) /\ SlotOf(i) \in Slots
  BY <1>1, SlotWrap, Sanitised DEF TypeOK
<1>5. head' = Wrap(head + 1) /\ head' \in Slots
  <2>1. head + 1 \in 0 .. 2 * Size - 1
    BY Sanitised DEF TypeOK, Slots
  <2> QED
    BY <2>1, ModWrap, Zenon DEF PopTake
<1>6. \A i \in 1 .. count' : Contents'[i] = Contents[i + 1]
  <2> SUFFICES ASSUME NEW i \in 1 .. count' PROVE Contents'[i] = Contents[i + 1]
    OBVIOUS
  <2>1. head' + i - 1 \in 0 .. 2 * Size - 1
    BY <1>1, <1>5, Sanitised DEF Slots
  <2>2. SlotOf(i)' = Wrap(head' + i - 1)
    BY <2>1, ModWrap DEF SlotOf
  <2>3. SlotOf(i + 1) = Wrap(head + i)
    BY <1>1, <1>4
  <2>4. SlotOf(i)' = SlotOf(i + 1) /\ SlotOf(i + 1) # head
    BY <1>1, <1>5, <2>2, <2>3, Sanitised DEF Wrap, Slots, TypeOK
  <2>5. i + 1 \in 1 .. count
    BY <1>1
  <2>6. buf'[SlotOf(i + 1)] = buf[SlotOf(i + 1)]
    BY <2>4, <2>5, <1>4, Zenon DEF PopTake, TypeOK
  <2> QED
    BY <2>4, <2>5, <2>6, <1>2, <1>3, Zenon
<1>7. buf[head] = Contents[1]
  BY <1>1, <1>2, <1>4, Sanitised DEF TypeOK, Slots, Wrap
<1> QED
  BY <1>1, <1>2, <1>3, <1>6, <1>7

LEMMA RefinesInit == Init => Queue!QInit
<1> SUFFICES ASSUME Init PROVE Queue!QInit
  OBVIOUS
<1>1. Contents = <<>>
  BY DEF Init, Contents
<1> QED
  BY <1>1, Zenon DEF Init, Queue!QInit, Queue!EmptyQueue, Queue!NoCall

LEMMA RefinesPush ==
  ASSUME TypeOK, WindowExact, NEW m \in Msg, Push(m)
  PROVE  Queue!QPush(m)
<1>1. Contents \in Seq(Msg \cup {Nil}) /\ Len(Contents) = count
  BY ContentsSeq, Zenon DEF ContentsRead
<1>2. CASE PushFull
  <2>1. Contents' = Contents
    BY <1>2, Zenon DEF PushFull, Contents, SlotOf
  <2> QED
    BY <1>1, <1>2, <2>1, SameArithmetic, Zenon
    DEF PushFull, Queue!QPush, Queue!Pushed, Queue!HasRoom
<1>3. CASE PushStore(m)
  <2>1. Contents' = Append(Contents, m)
    BY <1>3, PushAppends
  <2>2. state' = Queue!StateAfterPush(state, Len(Contents) + 1)
    BY <1>1, <1>3, SameArithmetic, Zenon DEF PushStore
  <2> QED
    BY <1>1, <1>3, <2>1, <2>2, SameArithmetic, Zenon
    DEF PushStore, Queue!QPush, Queue!Pushed, Queue!HasRoom
<1> QED
  BY <1>2, <1>3, Zenon DEF Push

LEMMA RefinesPop ==
  ASSUME TypeOK, WindowExact, Pop
  PROVE  Queue!QPop
<1>1. Contents \in Seq(Msg \cup {Nil}) /\ Len(Contents) = count
  BY ContentsSeq, Zenon DEF ContentsRead
<1>2. CASE PopEmpty
  <2>1. Contents' = Contents
    BY <1>2, Zenon DEF PopEmpty, Contents, SlotOf
  <2>2. Contents = <<>>
    BY <1>1, <1>2 DEF PopEmpty
  <2> QED
    BY <1>2, <2>1, <2>2, Zenon DEF PopEmpty, Queue!QPop, Queue!Popped
<1>3. CASE PopTake
  <2>1. /\ Contents # <<>> /\ Contents' = Tail(Contents)
        /\ buf[head] = Head(Contents)
    BY <1>3, PopTakesHead
  <2>2. state' = Queue!StateAfterPop(state, Len(Contents) - 1)
    BY <1>1, <1>3, SameArithmetic, Zenon DEF PopTake
  <2> QED
    BY <1>3, <2>1, <2>2, Zenon DEF PopTake, Queue!QPop, Queue!Popped
<1> QED
  BY <1>2, <1>3 DEF Pop

LEMMA RefinesNext ==
  TypeOK /\ WindowExact /\ [Next]_vars => [Queue!QNext]_(Queue!qvars)
<1> SUFFICES ASSUME TypeOK, WindowExact, [Next]_vars
             PROVE  [Queue!QNext]_(Queue!qvars)
  OBVIOUS
<1>1. CASE \E m \in Msg : Push(m)
  BY <1>1, RefinesPush DEF Queue!QNext
<1>2. CASE Pop
  BY <1>2, RefinesPop DEF Queue!QNext
<1>3. CASE UNCHANGED vars
  BY <1>3, Zenon DEF vars, Queue!qvars, Contents, SlotOf
<1> QED
  BY <1>1, <1>2, <1>3 DEF Next

\* A ring buffer of any size, with any watermarks, is a bounded FIFO queue:
\* its calls return what the queue's would, the order of messages and the
\* reported state changes included.
THEOREM QueueRefinement == Spec => ImplementsQueue
<1>1. Spec => [](TypeOK /\ WindowExact)
  BY InitInv, NextInv, PTL DEF Spec
<1> QED
  BY <1>1, RefinesInit, RefinesNext, PTL DEF Spec, ImplementsQueue, Queue!QSpec

-----------------------------------------------------------------------------
(* The dead letter queue.                                                   *)

Keys == DOMAIN store

DLQInv == DLQTypeOK /\ IsFiniteSet(Keys) /\ SizeBounded

-----------------------------------------------------------------------------
(* The keys after each call.                                               *)

\* A Put leaves the keys it found, but for one of them if there were MaxSize.
LEMMA PutKeys ==
  ASSUME NEW id, Put(id)
  PROVE  \/ ~(Cardinality(Keys) >= MaxSize) /\ store' = With(store, id, now)
         \/ /\ Cardinality(Keys) >= MaxSize
            /\ \E k \in Keys : store' = With(Without(store, {k}), id, now)
<1>1. Oldest(store) \subseteq Keys
  BY Zenon DEF Oldest, Keys
<1>2. CASE Cardinality(Keys) >= MaxSize
  BY <1>1, <1>2, Zenon DEF Put, Keys
<1>3. CASE ~(Cardinality(Keys) >= MaxSize)
  <2>1. store' = With(store, id, now)
    BY <1>3, Zenon DEF Put, Keys
  <2> QED
    BY <1>3, <2>1, Zenon
<1> QED
  BY <1>2, <1>3, Zenon

-----------------------------------------------------------------------------
LEMMA AddKey ==
  ASSUME NEW S, IsFiniteSet(S), NEW x
  PROVE  IsFiniteSet(S \cup {x}) /\ Cardinality(S \cup {x}) <= Cardinality(S) + 1
<1>1. Cardinality(S) \in Nat
  BY FS_CardinalityType, Zenon
<1>2. /\ IsFiniteSet(S \cup {x})
      /\ Cardinality(S \cup {x}) = IF x \in S THEN Cardinality(S) ELSE Cardinality(S) + 1
  BY FS_AddElement, Zenon
<1>3. Cardinality(S \cup {x}) = Cardinality(S) \/ Cardinality(S \cup {x}) = Cardinality(S) + 1
  BY <1>2, Zenon
<1> QED
  BY <1>1, <1>2, <1>3

LEMMA InitDLQInv == DLQInit => DLQInv
<1> SUFFICES ASSUME DLQInit PROVE DLQInv
  OBVIOUS
<1>1. Keys = {}
  BY Zenon DEF DLQInit, Keys
<1>2. IsFiniteSet(Keys) /\ Cardinality(Keys) = 0
  BY <1>1, FS_EmptySet, Zenon
<1>3. DLQTypeOK
  BY <1>1, DLQAssumption DEF DLQInit, DLQTypeOK, Keys
<1> QED
  BY <1>2, <1>3, DLQAssumption DEF DLQInv, SizeBounded, Keys

LEMMA NextDLQInv == DLQInv /\ [DLQNext]_dlqVars => DLQInv'
<1> SUFFICES ASSUME DLQInv, [DLQNext]_dlqVars PROVE DLQInv'
  BY Zenon
<1> USE DLQAssumption
<1>1. Cardinality(Keys) \in Nat /\ Cardinality(Keys) <= MaxSize /\ IsFiniteSet(Keys)
  BY FS_CardinalityType, Zenon DEF DLQInv, SizeBounded, Keys
<1>2. ASSUME NEW id \in Id, Put(id) PROVE DLQInv'
  <2>1. CASE store' = With(store, id, now) /\ ~(Cardinality(Keys) >= MaxSize)
    <3>1. Keys' = Keys \cup {id}
      BY <2>1 DEF Keys, With
    <3>2. IsFiniteSet(Keys') /\ Cardinality(Keys') <= Cardinality(Keys) + 1
      BY <1>1, <3>1, AddKey, Zenon
    <3>3. DLQTypeOK'
      BY <1>2, <2>1, <3>1 DEF DLQInv, DLQTypeOK, Put, Keys, With
    <3>4. Cardinality(Keys') <= MaxSize
      BY <1>1, <2>1, <3>2, FS_CardinalityType
    <3> QED
      BY <3>2, <3>3, <3>4, Zenon DEF DLQInv, SizeBounded, Keys
  <2>2. ASSUME NEW k \in Keys, store' = With(Without(store, {k}), id, now)
        PROVE  DLQInv'
    <3>1. /\ Keys' = (Keys \ {k}) \cup {id}
          /\ \A x \in Keys \ {k} : x # id => store'[x] = store[x]
          /\ store'[id] = now
      BY <2>2, Zenon DEF Keys, With, Without
    <3>2. IsFiniteSet(Keys \ {k}) /\ Cardinality(Keys \ {k}) = Cardinality(Keys) - 1
      BY <1>1, FS_RemoveElement, Zenon
    <3> DEFINE Rest == Keys \ {k}
    <3>3. Cardinality(Rest) \in Nat
      BY <3>2, FS_CardinalityType, Zenon
    <3>4. /\ IsFiniteSet(Rest \cup {id})
          /\ Cardinality(Rest \cup {id}) <= Cardinality(Rest) + 1
      BY <3>2, AddKey, Zenon
    <3>5. IsFiniteSet(Keys') /\ Cardinality(Keys') <= Cardinality(Rest) + 1
      BY <3>1, <3>4, Zenon
    <3>6. Cardinality(Keys') <= MaxSize
      BY <1>1, <3>2, <3>5, FS_CardinalityType
    <3>7. DLQTypeOK'
      BY <1>2, <3>1 DEF DLQInv, DLQTypeOK, Put, Keys
    <3> QED
      BY <3>5, <3>6, <3>7, Zenon DEF DLQInv, SizeBounded, Keys
  <2> QED
    BY <1>2, <2>1, <2>2, PutKeys, Zenon
<1>3. ASSUME NEW S, store' = Without(store, S), now' = now,
             call' \in {"delete", "purge"}
      PROVE  DLQInv'
  <2>1. Keys' = Keys \ S /\ \A x \in Keys' : store'[x] = store[x]
    BY <1>3 DEF Keys, Without
  <2>2. IsFiniteSet(Keys') /\ Cardinality(Keys') <= Cardinality(Keys)
    BY <1>1, <2>1, FS_Subset, Zenon
  <2>3. Cardinality(Keys') <= MaxSize
    BY <1>1, <2>2, FS_CardinalityType
  <2>4. DLQTypeOK'
    BY <1>3, <2>1, Zenon DEF DLQInv, DLQTypeOK, Keys
  <2> QED
    BY <2>2, <2>3, <2>4, Zenon DEF DLQInv, SizeBounded, Keys
<1>4. ASSUME NEW id \in Id, Delete(id) PROVE DLQInv'
  BY <1>3, <1>4, Zenon DEF Delete
<1>5. CASE PurgeExpired
  BY <1>3, <1>5, Zenon DEF PurgeExpired
<1>6. CASE Tick
  BY <1>6 DEF Tick, DLQInv, DLQTypeOK, SizeBounded, Keys
<1>7. CASE UNCHANGED dlqVars
  BY <1>7, Zenon DEF dlqVars, DLQInv, DLQTypeOK, SizeBounded, Keys
<1> QED
  BY <1>2, <1>4, <1>5, <1>6, <1>7, Zenon DEF DLQNext

\* Keys, creation times and the clock keep their types (the entries Put
\* stores, evictOldest and PurgeExpired remove).
THEOREM DLQTypeCorrect == DLQSpec => []DLQTypeOK
<1>1. DLQInv => DLQTypeOK
  BY DEF DLQInv
<1> QED
  BY <1>1, InitDLQInv, NextDLQInv, PTL DEF DLQSpec

\* The queue never outgrows its capacity, whatever the texts evictOldest
\* compares (Put).
THEOREM SizeCorrect == DLQSpec => []SizeBounded
<1>1. DLQInv => SizeBounded
  BY DEF DLQInv
<1> QED
  BY <1>1, InitDLQInv, NextDLQInv, PTL DEF DLQSpec

-----------------------------------------------------------------------------
\* No dead letter disappears but by Delete, by a purge after its TTL, or as
\* the one entry a Put evicts from a full queue (Put, Delete, PurgeExpired).
THEOREM DroppedCorrect == DLQSpec => DroppedForAReason
<1> DEFINE Dropped == DOMAIN store \ DOMAIN store'
           Reason == \/ Dropped = {} \/ call' = "delete"
                     \/ call' = "purge" /\ \A k \in Dropped : store[k] < now - TTL
                     \/ /\ call' = "put" /\ Cardinality(Dropped) = 1
                        /\ Cardinality(DOMAIN store) = MaxSize
<1>1. DLQInv /\ [DLQNext]_dlqVars => [Reason]_dlqVars
  <2> SUFFICES ASSUME DLQInv, DLQNext PROVE Reason
    BY Zenon
  <2>1. Cardinality(Keys) \in Nat /\ Cardinality(Keys) <= MaxSize
    BY FS_CardinalityType, Zenon DEF DLQInv, SizeBounded, Keys
  <2>2. ASSUME NEW id \in Id, Put(id) PROVE Reason
    <3>1. CASE store' = With(store, id, now)
      <4>1. Dropped = {}
        BY <3>1 DEF With
      <4> QED
        BY <4>1, Zenon
    <3>2. ASSUME NEW k \in Keys, store' = With(Without(store, {k}), id, now),
                 Cardinality(Keys) >= MaxSize
          PROVE  Reason
      <4>1. Dropped = {k} \ {id}
        BY <3>2, Zenon DEF Keys, With, Without
      <4>2. CASE k = id
        BY <4>1, <4>2, Zenon
      <4>3. CASE k # id
        <5>1. Dropped = {k}
          BY <4>1, <4>3, Zenon
        <5>2. Cardinality(Dropped) = 1
          BY <5>1, FS_Singleton, Zenon
        <5>3. Cardinality(DOMAIN store) = MaxSize
          BY <2>1, <3>2, DLQAssumption DEF Keys
        <5> QED
          BY <2>2, <5>2, <5>3, Zenon DEF Put
      <4> QED
        BY <4>2, <4>3, Zenon
    <3> QED
      BY <2>2, <3>1, <3>2, PutKeys, Zenon
  <2>3. ASSUME NEW id \in Id, Delete(id) PROVE Reason
    BY <2>3, Zenon DEF Delete
  <2>4. CASE PurgeExpired
    <3>1. Dropped \subseteq {k \in DOMAIN store : store[k] < now - TTL}
      BY <2>4 DEF PurgeExpired, Without
    <3> QED
      BY <2>4, <3>1, Zenon DEF PurgeExpired
  <2>5. CASE Tick
    <3>1. Dropped = {}
      BY <2>5 DEF Tick
    <3> QED
      BY <3>1, Zenon
  <2> QED
    BY <2>2, <2>3, <2>4, <2>5, Zenon DEF DLQNext
<1> QED
  BY <1>1, InitDLQInv, NextDLQInv, PTL DEF DLQSpec, DroppedForAReason
=============================================================================
