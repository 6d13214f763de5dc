----------------------------- MODULE WALProofs -----------------------------
(***************************************************************************)
(* Proofs about WAL for every set of message IDs and every bound: the map  *)
(* in memory is the replay of the log.  MemoryIsLog is not inductive on    *)
(* its own, because Compact replaces the file by the temporary one: the    *)
(* proof adds Compacting, which says what that file holds.                 *)
(***************************************************************************)
EXTENDS WAL, FiniteSetTheorems, SequenceTheorems, TLAPS

-----------------------------------------------------------------------------
(* What replaying a log yields.                                             *)

LEMMA DecidesUnique ==
  ASSUME NEW log \in Seq(Line), NEW id, NEW i \in DOMAIN log, NEW j \in DOMAIN log,
         Decides(log, i, id), Decides(log, j, id)
  PROVE  i = j
<1>1. i \in Int /\ j \in Int
  OBVIOUS
<1>2. ~(i < j) /\ ~(j < i)
  BY <1>1 DEF Decides
<1> QED
  BY <1>1, <1>2

\* The line that decides about an ID, where there is one.
LEMMA ReplayDecided ==
  ASSUME NEW log \in Seq(Line), NEW id \in Id, NEW i \in DOMAIN log,
         Decides(log, i, id)
  PROVE  Replay(log)[id] = IF log[i].state = "pending" THEN log[i].attempts ELSE 0
<1>1. \A j \in DOMAIN log : Decides(log, j, id) => j = i
  BY DecidesUnique
<1>2. (CHOOSE j \in DOMAIN log : Decides(log, j, id)) = i
  BY <1>1
<1> QED
  BY <1>1, <1>2 DEF Replay

LEMMA ReplayUndecided ==
  ASSUME NEW log \in Seq(Line), NEW id \in Id,
         \A i \in DOMAIN log : ~Decides(log, i, id)
  PROVE  Replay(log)[id] = 0
BY DEF Replay

LEMMA ReplayType ==
  ASSUME NEW log \in Seq(Line)
  PROVE  Replay(log) \in [Id -> Nat]
<1>1. ASSUME NEW id \in Id PROVE Replay(log)[id] \in Nat
  <2>1. CASE \E i \in DOMAIN log : Decides(log, i, id)
    <3>1. PICK i \in DOMAIN log : Decides(log, i, id)
      BY <2>1
    <3>2. log[i] \in Line
      OBVIOUS
    <3>3. log[i].attempts \in Nat
      BY <3>2 DEF Line
    <3> QED
      BY <3>1, <3>3, ReplayDecided
  <2>2. CASE \A i \in DOMAIN log : ~Decides(log, i, id)
    BY <2>2, ReplayUndecided
  <2> QED
    BY <2>1, <2>2
<1> QED
  BY <1>1 DEF Replay

\* Appending a record that parses sets the entry of its ID and no other.
LEMMA ReplayAppend ==
  ASSUME NEW log \in Seq(Line), NEW rec \in Line, rec.state # "corrupt"
  PROVE  Replay(Append(log, rec)) =
           [Replay(log) EXCEPT ![rec.id] =
              IF rec.state = "pending" THEN rec.attempts ELSE 0]
<1> DEFINE new == Append(log, rec)
           n == Len(log) + 1
<1>1. /\ new \in Seq(Line) /\ DOMAIN new = 1 .. n /\ DOMAIN log = 1 .. n - 1
      /\ n \in Nat \ {0} /\ new[n] = rec /\ \A i \in DOMAIN log : new[i] = log[i]
  OBVIOUS
<1>2. rec.id \in Id
  BY DEF Line
<1> HIDE DEF new, n
<1>3. ASSUME NEW id \in Id, id = rec.id
      PROVE  Replay(new)[id] = IF rec.state = "pending" THEN rec.attempts ELSE 0
  <2>1. Decides(new, n, id)
    BY <1>1, <1>3 DEF Decides
  <2>2. n \in DOMAIN new
    BY <1>1
  <2>3. Replay(new)[id] = IF new[n].state = "pending" THEN new[n].attempts ELSE 0
    BY <1>1, <2>1, <2>2, ReplayDecided, Zenon
  <2> QED
    BY <1>1, <2>3
<1>4. ASSUME NEW id \in Id, id # rec.id
      PROVE  Replay(new)[id] = Replay(log)[id]
  <2>1. \A i \in DOMAIN log : Decides(new, i, id) <=> Decides(log, i, id)
    BY <1>1, <1>4 DEF Decides
  <2>2. ~Decides(new, n, id)
    BY <1>1, <1>4 DEF Decides
  <2>3. CASE \E i \in DOMAIN log : Decides(log, i, id)
    <3>1. PICK i \in DOMAIN log : Decides(log, i, id)
      BY <2>3
    <3>2. i \in DOMAIN new /\ new[i] = log[i] /\ Decides(new, i, id)
      BY <1>1, <2>1, <3>1
    <3> QED
      BY <1>1, <3>1, <3>2, ReplayDecided
  <2>4. CASE \A i \in DOMAIN log : ~Decides(log, i, id)
    <3>1. \A i \in DOMAIN new : ~Decides(new, i, id)
      BY <1>1, <2>1, <2>2, <2>4
    <3> QED
      BY <1>1, <2>4, <3>1, ReplayUndecided, Zenon
  <2> QED
    BY <2>3, <2>4
<1>5. Replay(log) \in [Id -> Nat] /\ Replay(new) \in [Id -> Nat]
  BY <1>1, ReplayType
<1>6. Replay(new) = [Replay(log) EXCEPT ![rec.id] =
                       IF rec.state = "pending" THEN rec.attempts ELSE 0]
  BY <1>2, <1>3, <1>4, <1>5
<1> QED
  BY <1>6 DEF new

\* Flushing k lines of a stream moves the boundary between the file and the
\* buffer and nothing else.
LEMMA Glue ==
  ASSUME NEW log \in Seq(Line), NEW a \in Seq(Line), NEW b \in Seq(Line)
  PROVE  (log \o a) \o b = log \o (a \o b)
<1>1. /\ Len(log) \in Nat /\ Len(a) \in Nat /\ Len(b) \in Nat
      /\ log \o a \in Seq(Line) /\ Len(log \o a) = Len(log) + Len(a)
      /\ a \o b \in Seq(Line) /\ Len(a \o b) = Len(a) + Len(b)
  OBVIOUS
<1> QED
  BY <1>1

LEMMA SplitStream ==
  ASSUME NEW log \in Seq(Line), NEW stream \in Seq(Line), NEW k \in 0 .. Len(stream)
  PROVE  /\ SubSeq(stream, 1, k) \in Seq(Line)
         /\ SubSeq(stream, k + 1, Len(stream)) \in Seq(Line)
         /\ (log \o SubSeq(stream, 1, k)) \o SubSeq(stream, k + 1, Len(stream))
              = log \o stream
<1>1. Len(stream) \in Nat /\ k \in Nat /\ k <= Len(stream)
  BY LenProperties
<1>2. /\ 1 \in 1 .. Len(stream) + 1
      /\ k \in 1 - 1 .. Len(stream)
      /\ Len(stream) \in k .. Len(stream)
  BY <1>1
<1>3. SubSeq(stream, 1, k) \o SubSeq(stream, k + 1, Len(stream))
        = SubSeq(stream, 1, Len(stream))
  BY <1>2, ConcatAdjacentSubSeq, Zenon
<1>4. SubSeq(stream, 1, Len(stream)) = stream
  BY SubSeqFull
<1>5. SubSeq(stream, 1, k) \in Seq(Line) /\ SubSeq(stream, k + 1, Len(stream)) \in Seq(Line)
  BY <1>1
<1>6. (log \o SubSeq(stream, 1, k)) \o SubSeq(stream, k + 1, Len(stream))
        = log \o (SubSeq(stream, 1, k) \o SubSeq(stream, k + 1, Len(stream)))
  BY <1>5, Glue, ZenonT(30)
<1> QED
  BY <1>3, <1>4, <1>5, <1>6, Zenon

-----------------------------------------------------------------------------
(* What Compact writes.                                                     *)

LEMMA PendingFinite == IsFiniteSet(PendingLines) /\ Cardinality(PendingLines) \in Nat
<1> DEFINE P == {x \in Id : entries[x] # 0}
           R == {Record(id, "pending", entries[id]) : id \in P}
<1>1. IsFiniteSet(P)
  BY WALAssumption, FS_Subset
<1>2. IsFiniteSet(R)
  <2> DEFINE f == [id \in P |-> Record(id, "pending", entries[id])]
  <2>1. f \in Surjection(P, R)
    BY DEF Surjection
  <2> QED
    BY <1>1, <2>1, FS_Surjection
<1> QED
  BY <1>2, FS_CardinalityType DEF PendingLines

LEMMA ListingReplays ==
  ASSUME entries \in [Id -> Nat], NEW s \in Listings(PendingLines)
  PROVE  s \in Seq(Line) /\ Replay(s) = entries
<1> DEFINE n == Cardinality(PendingLines)
<1>1. n \in Nat
  BY PendingFinite
<1>2. /\ s \in [1 .. n -> PendingLines]
      /\ \A i, j \in 1 .. n : s[i] = s[j] => i = j
      /\ \A l \in PendingLines : \E i \in 1 .. n : s[i] = l
  BY DEF Listings, Bijection, Injection, Surjection, IsInjective
<1> HIDE DEF n
<1>3. PendingLines \subseteq Line
  BY DEF PendingLines, Record, Line, RecordStates
<1>4. s \in Seq(Line) /\ DOMAIN s = 1 .. n
  BY <1>1, <1>2, <1>3
<1>5. \A i \in 1 .. n : /\ s[i].id \in Id /\ entries[s[i].id] # 0
                        /\ s[i] = Record(s[i].id, "pending", entries[s[i].id])
  BY <1>2 DEF PendingLines, Record
<1>6. ASSUME NEW id \in Id PROVE Replay(s)[id] = entries[id]
  <2>1. CASE entries[id] = 0
    <3>1. \A i \in DOMAIN s : ~Decides(s, i, id)
      BY <1>4, <1>5, <2>1, Zenon DEF Decides
    <3> QED
      BY <1>4, <2>1, <3>1, ReplayUndecided, Zenon
  <2>2. CASE entries[id] # 0
    <3>1. Record(id, "pending", entries[id]) \in PendingLines
      BY <2>2 DEF PendingLines
    <3>2. PICK i \in 1 .. n : s[i] = Record(id, "pending", entries[id])
      BY <1>2, <3>1
    <3>3. \A j \in 1 .. n : s[j].id = id => j = i
      BY <1>2, <1>5, <3>2
    <3>4. i \in DOMAIN s /\ i \in Int /\ DOMAIN s \subseteq Int
      BY <1>1, <1>4
    <3>5. Decides(s, i, id)
      BY <1>4, <3>2, <3>3, <3>4 DEF Decides, Record
    <3>6. Replay(s)[id] = IF s[i].state = "pending" THEN s[i].attempts ELSE 0
      BY <1>4, <3>4, <3>5, ReplayDecided, Zenon
    <3> QED
      BY <3>2, <3>6 DEF Record
  <2> QED
    BY <2>1, <2>2
<1>7. Replay(s) \in [Id -> Nat]
  BY <1>4, ReplayType
<1> QED
  BY <1>4, <1>6, <1>7

-----------------------------------------------------------------------------
(* The writer.                                                              *)

LEMMA NoLines == <<>> \in Seq(Line) /\ Len(<<>>) = 0
BY EmptySeq

LEMMA NoFragType == NoFrag \in Seq(Line) /\ Len(NoFrag) <= 1
BY DEF NoFrag

LEMMA LineForType ==
  ASSUME NEW rec \in Line
  PROVE  LineFor(rec) \in Line
BY DEF LineFor, Garbled, Line, RecordStates

LEMMA FragsType ==
  ASSUME WALTypeOK, NEW stream \in Seq(Line), NEW k \in 0 .. Len(stream),
         NEW f \in FragsAfter(stream, k)
  PROVE  f \in Seq(Line) /\ Len(f) <= 1 /\ (k = Len(stream) => f = NoFrag)
<1>1. CASE k = Len(stream)
  <2>1. f = NoFrag
    BY <1>1, Zenon DEF FragsAfter
  <2> QED
    BY <2>1 DEF NoFrag
<1>2. CASE k # Len(stream)
  <2>1. k + 1 \in 1 .. Len(stream) /\ 1 \in 1 .. Len(stream)
    BY <1>2
  <2>2. stream[k + 1] \in Line /\ stream[1] \in Line
    BY <2>1
  <2>3. Garbled(stream[k + 1]) \in Line
    BY <2>2, Zenon DEF Garbled, Line, RecordStates
  <2>4. f \in {NoFrag, frag, <<stream[1]>>, <<Garbled(stream[k + 1])>>, <<stream[k + 1]>>}
    BY <1>2 DEF FragsAfter
  <2>5. \A l \in Line : <<l>> \in Seq(Line) /\ Len(<<l>>) = 1
    OBVIOUS
  <2>6. NoFrag \in Seq(Line) /\ Len(NoFrag) <= 1
    BY NoFragType
  <2>7. frag \in Seq(Line) /\ Len(frag) <= 1
    BY DEF WALTypeOK
  <2>8. CASE f = NoFrag \/ f = frag
    BY <1>2, <2>6, <2>7, <2>8, Zenon
  <2>9. CASE \E l \in Line : f = <<l>>
    <3>1. PICK l \in Line : f = <<l>>
      BY <2>9
    <3> QED
      BY <1>2, <2>5, <3>1
  <2> QED
    BY <2>2, <2>3, <2>4, <2>8, <2>9, Zenon
<1> QED
  BY <1>1, <1>2

LEMMA AdvanceType ==
  ASSUME WALTypeOK, NEW stream \in Seq(Line), NEW k \in 0 .. Len(stream),
         Advance(stream, k)
  PROVE  /\ file' \in Seq(Line) /\ frag' \in Seq(Line) /\ Len(frag') <= 1
         /\ k = Len(stream) => frag' = NoFrag
<1>1. SubSeq(stream, 1, k) \in Seq(Line)
  BY SplitStream, EmptySeq, Zenon
<1>2. file' \in Seq(Line)
  BY <1>1, ConcatProperties DEF Advance, WALTypeOK
<1> QED
  BY <1>2, FragsType DEF Advance

\* appendEntry keeps the types; unless it garbles the record, the log written
\* so far grows by exactly that record, wherever the flush stopped.
LEMMA AppendWrites ==
  ASSUME WALTypeOK, NEW rec \in Line, rec.state # "corrupt", appendEntry(rec)
  PROVE  /\ file' \in Seq(Line) /\ frag' \in Seq(Line) /\ Len(frag') <= 1
         /\ buffer' \in Seq(Line) /\ glued' \in BOOLEAN
         /\ ~glued' => Written \in Seq(Line) /\ Written' = Append(Written, rec)
<1> DEFINE stream == Append(buffer, LineFor(rec))
<1>1. stream \in Seq(Line) /\ Len(stream) \in Nat /\ stream # <<>>
  <2>1. LineFor(rec) \in Line /\ buffer \in Seq(Line)
    BY LineForType, Zenon DEF WALTypeOK
  <2> QED
    BY <2>1
<1>2. ~glued' => LineFor(rec) = rec
  BY Zenon DEF appendEntry
<1>3. ASSUME ~glued'
      PROVE  Written \in Seq(Line) /\ file \o stream = Append(Written, rec)
  <2>1. ~(frag # NoFrag /\ buffer = <<>>)
    <3>1. Garbled(rec) # rec
      BY DEF Garbled, Line
    <3> QED
      BY <1>2, <1>3, <3>1 DEF LineFor
  <2>2. Written = file \o buffer
    BY <2>1 DEF Written, OnDisk, NoFrag
  <2>3. Written \in Seq(Line)
    BY <2>2, ConcatProperties DEF WALTypeOK
  <2>4. file \o Append(buffer, rec) = Append(file \o buffer, rec)
    BY DEF WALTypeOK
  <2> QED
    BY <1>2, <1>3, <2>2, <2>3, <2>4, Zenon
<1>4. CASE AdvanceNothing /\ buffer' = stream
  <2>1. Written' = file \o stream
    BY <1>1, <1>4 DEF AdvanceNothing, Written
  <2> QED
    BY <1>1, <1>3, <1>4, <2>1, Zenon DEF AdvanceNothing, WALTypeOK, appendEntry
<1>5. ASSUME NEW k \in 0 .. Len(stream), Advance(stream, k),
             buffer' = SubSeq(stream, k + 1, Len(stream))
      PROVE  /\ file' \in Seq(Line) /\ frag' \in Seq(Line) /\ Len(frag') <= 1
             /\ buffer' \in Seq(Line) /\ glued' \in BOOLEAN
             /\ ~glued' => Written \in Seq(Line) /\ Written' = Append(Written, rec)
  <2> HIDE DEF stream
  <2>1. /\ file' \in Seq(Line) /\ frag' \in Seq(Line) /\ Len(frag') <= 1
        /\ k = Len(stream) => frag' = NoFrag
    BY <1>1, <1>5, AdvanceType
  <2>2. file' = file \o SubSeq(stream, 1, k) /\ file \in Seq(Line)
    BY <1>5 DEF Advance, WALTypeOK
  <2>3. buffer' \in Seq(Line) /\ file' \o buffer' = file \o stream
    BY <1>1, <1>5, <2>2, SplitStream, ZenonT(30)
  <2>4. Written' = file' \o buffer'
    <3>1. CASE k = Len(stream)
      <4>1. buffer' = <<>>
        BY <1>1, <1>5, <3>1
      <4> QED
        BY <2>1, <3>1, <4>1 DEF Written, OnDisk, NoFrag
    <3>2. CASE k # Len(stream)
      <4>1. Len(buffer') > 0
        BY <1>1, <1>5, <3>2
      <4> QED
        BY <4>1, <2>3 DEF Written
    <3> QED
      BY <3>1, <3>2
  <2>5. glued' \in BOOLEAN
    BY DEF appendEntry, WALTypeOK
  <2> QED
    BY <1>3, <2>1, <2>3, <2>4, <2>5, Zenon
<1> QED
  BY <1>4, <1>5, Zenon DEF appendEntry

LEMMA FlushWrites ==
  ASSUME WALTypeOK, flushAll
  PROVE  /\ file' \in Seq(Line) /\ frag' \in Seq(Line) /\ Len(frag') <= 1
         /\ buffer' = <<>> /\ writerErr' = writerErr /\ ~writerErr
         /\ glued' = glued /\ Written' = Written
<1>1. buffer' = <<>> /\ writerErr' = writerErr /\ ~writerErr /\ glued' = glued
  BY DEF flushAll
<1>2. CASE buffer = <<>>
  BY <1>1, <1>2 DEF flushAll, WALTypeOK, Written, OnDisk
<1>3. CASE buffer # <<>>
  <2>1. file' = file \o buffer /\ frag' = <<>>
    BY <1>3 DEF flushAll, NoFrag
  <2>2. file' \in Seq(Line)
    BY <2>1, ConcatProperties DEF WALTypeOK
  <2>3. file' \o <<>> = file'
    BY <2>2, ConcatEmptySeq
  <2> QED
    BY <1>1, <1>3, <2>1, <2>2, <2>3, EmptySeq, SMTT(30) DEF Written, OnDisk
<1> QED
  BY <1>2, <1>3

LEMMA FailType ==
  ASSUME WALTypeOK, NEW stream \in Seq(Line), writeFails(stream)
  PROVE  /\ file' \in Seq(Line) /\ frag' \in Seq(Line) /\ Len(frag') <= 1
         /\ buffer' \in Seq(Line) /\ writerErr' = TRUE
         /\ glued' = glued /\ handle' = handle
<1>1. writerErr' = TRUE /\ glued' = glued /\ handle' = handle
  BY DEF writeFails
<1>2. CASE UNCHANGED <<file, frag>> /\ (buffer' = buffer \/ buffer' = <<>>)
  <2>1. buffer' \in Seq(Line)
    BY <1>2, NoLines, Zenon DEF WALTypeOK
  <2> QED
    BY <1>1, <1>2, <2>1 DEF WALTypeOK
<1>3. CASE (\E k \in 0 .. Len(stream) - 1 : Advance(stream, k)) /\ buffer' = <<>>
  <2>1. PICK k \in 0 .. Len(stream) - 1 : Advance(stream, k)
    BY <1>3
  <2>2. k \in 0 .. Len(stream)
    BY LenProperties
  <2> QED
    BY <1>1, <1>3, <2>1, <2>2, AdvanceType
<1> QED
  BY <1>2, <1>3 DEF writeFails, AdvanceNothing

-----------------------------------------------------------------------------
(* The inductive invariant.                                                 *)

IInv == WALTypeOK /\ Compacting /\ MemoryIsLog

LEMMA InitIInv == WALInit => IInv
<1> SUFFICES ASSUME WALInit PROVE IInv
  OBVIOUS
<1>1. WALTypeOK
  <2>1. entries \in [Id -> Nat]
    BY DEF WALInit
  <2>2. frag \in Seq(Line) /\ Len(frag) <= 1
    BY NoFragType DEF WALInit
  <2> QED
    BY <2>1, <2>2, NoLines, Zenon DEF WALInit, WALTypeOK
<1> QED
  BY <1>1 DEF WALInit, IInv, Compacting, MemoryIsLog

LEMMA NewWALInv ==
  ASSUME IInv, NewWAL
  PROVE  IInv'
<1>1. OnDisk \in Seq(Line) /\ OnDisk' = OnDisk
  BY ConcatProperties DEF IInv, WALTypeOK, NewWAL, OnDisk
<1>2. WALTypeOK'
  <2>1. entries' \in [Id -> Nat]
    BY <1>1, ReplayType DEF NewWAL
  <2> QED
    BY <2>1, NoLines, Zenon DEF IInv, WALTypeOK, NewWAL
<1>3. MemoryIsLog'
  BY <1>1 DEF NewWAL, MemoryIsLog, Written
<1>4. Compacting'
  BY DEF NewWAL, Compacting
<1> QED
  BY <1>2, <1>3, <1>4 DEF IInv

\* A successful Append, Complete, MarkDLQ or IncrementAttempts.
LEMMA RecordInv ==
  ASSUME IInv, Idle, NEW id \in Id, NEW st \in {"pending", "complete", "dlq"},
         NEW n \in Nat, appendEntry(Record(id, st, n)),
         entries' = [entries EXCEPT ![id] = IF st = "pending" THEN n ELSE 0],
         UNCHANGED <<compact, tmp, running>>
  PROVE  IInv'
<1> DEFINE rec == Record(id, st, n)
<1>1. /\ rec \in Line /\ rec.state # "corrupt"
      /\ rec.id = id /\ rec.state = st /\ rec.attempts = n
  BY DEF Record, Line, RecordStates
<1> HIDE DEF rec
<1>2. /\ file' \in Seq(Line) /\ frag' \in Seq(Line) /\ Len(frag') <= 1
      /\ buffer' \in Seq(Line) /\ glued' \in BOOLEAN
      /\ ~glued' => Written \in Seq(Line) /\ Written' = Append(Written, rec)
  BY <1>1, AppendWrites, Zenon DEF IInv, rec
<1>3. writerErr' = writerErr /\ handle' = handle /\ (~glued' => ~glued) /\ ~writerErr
  BY Zenon DEF appendEntry
<1>4. WALTypeOK'
  BY <1>2, <1>3 DEF IInv, WALTypeOK
<1>5. MemoryIsLog'
  <2> SUFFICES ASSUME running', ~writerErr', ~glued'
               PROVE  entries' = Replay(Written')
    BY DEF MemoryIsLog
  <2>1. entries = Replay(Written)
    BY <1>3 DEF IInv, MemoryIsLog
  <2>2. Replay(Written') = [Replay(Written) EXCEPT ![id] = IF st = "pending" THEN n ELSE 0]
    BY <1>1, <1>2, ReplayAppend, Zenon
  <2> QED
    BY <2>1, <2>2
<1>6. Compacting'
  BY DEF Idle, Compacting
<1> QED
  BY <1>4, <1>5, <1>6 DEF IInv

\* A failed one.
LEMMA FailInv ==
  ASSUME IInv, Idle, NEW stream \in Seq(Line), writeFails(stream),
         entries' \in [Id -> Nat], UNCHANGED <<compact, tmp, running>>
  PROVE  IInv'
<1>1. WALTypeOK'
  BY FailType, Zenon DEF IInv, WALTypeOK
<1>2. Compacting' /\ MemoryIsLog'
  BY FailType, Zenon DEF IInv, Idle, Compacting, MemoryIsLog
<1> QED
  BY <1>1, <1>2 DEF IInv

LEMMA FlushInv ==
  ASSUME IInv, Idle \/ compact = "tmp", flushAll, UNCHANGED <<entries, tmp, running>>,
         handle' \in {"open", "closed"},
         compact' = IF compact = "tmp" THEN "flushed" ELSE "idle"
  PROVE  IInv'
<1>1. /\ file' \in Seq(Line) /\ frag' \in Seq(Line) /\ Len(frag') <= 1
      /\ buffer' = <<>> /\ writerErr' = writerErr /\ ~writerErr
      /\ glued' = glued /\ Written' = Written
  BY FlushWrites DEF IInv
<1>2. WALTypeOK'
  BY <1>1, NoLines, Zenon DEF IInv, WALTypeOK
<1>3. MemoryIsLog'
  BY <1>1 DEF IInv, MemoryIsLog
<1>4. Compacting'
  BY <1>1, Zenon DEF IInv, Compacting, Idle, Listings, PendingLines
<1> QED
  BY <1>2, <1>3, <1>4 DEF IInv

LEMMA CallInv ==
  ASSUME IInv, NEW id \in Id, Call(id)
  PROVE  IInv'
<1>1. entries \in [Id -> Nat] /\ entries[id] \in Nat /\ buffer \in Seq(Line)
  BY DEF IInv, WALTypeOK
<1>2. \A st \in {"pending", "complete", "dlq"}, n \in Nat :
         Append(buffer, LineFor(Record(id, st, n))) \in Seq(Line)
  <2> SUFFICES ASSUME NEW st \in {"pending", "complete", "dlq"}, NEW n \in Nat
               PROVE  Append(buffer, LineFor(Record(id, st, n))) \in Seq(Line)
    OBVIOUS
  <2>1. Record(id, st, n) \in Line
    BY DEF Record, Line, RecordStates
  <2> QED
    BY <1>1, <2>1, LineForType
<1>3. CASE WALAppend(id)
  BY <1>3, <1>1, RecordInv, Zenon DEF WALAppend
<1>4. CASE AppendErr(id)
  BY <1>4, <1>1, <1>2, FailInv, Zenon DEF AppendErr, appendFails
<1>5. ASSUME NEW st \in {"complete", "dlq"}, Remove(id, st) PROVE IInv'
  BY <1>5, <1>1, RecordInv, Zenon DEF Remove
<1>6. ASSUME NEW st \in {"complete", "dlq"}, RemoveErr(id, st) PROVE IInv'
  BY <1>6, <1>1, <1>2, FailInv, Zenon DEF RemoveErr, appendFails
<1>7. CASE IncrementAttempts(id)
  <2>1. entries[id] + 1 \in Nat
    BY <1>1
  <2>2. "pending" \in {"pending", "complete", "dlq"}
    OBVIOUS
  <2>3. /\ Idle /\ appendEntry(Record(id, "pending", entries[id] + 1))
        /\ UNCHANGED <<compact, tmp, running>>
        /\ entries' = [entries EXCEPT ![id] =
                         IF "pending" = "pending" THEN entries[id] + 1 ELSE 0]
    BY <1>7 DEF IncrementAttempts
  <2> QED
    BY <2>1, <2>2, <2>3, RecordInv, Zenon
<1>8. CASE IncrementAttemptsErr(id)
  <2>1. entries' \in [Id -> Nat] /\ entries[id] + 1 \in Nat
    BY <1>1, <1>8 DEF IncrementAttemptsErr
  <2> QED
    BY <1>8, <1>2, <2>1, FailInv, Zenon DEF IncrementAttemptsErr, appendFails
<1> QED
  BY <1>3, <1>4, <1>5, <1>6, <1>7, <1>8, SMTT(30) DEF Call, Complete, MarkDLQ

LEMMA CompactInv ==
  ASSUME IInv, CompactStep
  PROVE  IInv'
<1>1. CASE CompactWriteTmp
  <2>1. tmp' \in Seq(Line)
    BY <1>1, ListingReplays, Zenon DEF IInv, WALTypeOK, CompactWriteTmp
  <2>2. Written' = Written /\ PendingLines' = PendingLines
    BY <1>1, Zenon DEF CompactWriteTmp, Written, OnDisk, PendingLines
  <2>3. WALTypeOK'
    BY <1>1, <2>1, Zenon DEF CompactWriteTmp, IInv, WALTypeOK
  <2>4. Compacting' /\ MemoryIsLog'
    BY <1>1, <2>2, Zenon DEF CompactWriteTmp, IInv, Idle, Compacting, MemoryIsLog
  <2> QED
    BY <2>3, <2>4 DEF IInv
<1>2. CASE CompactFlush
  BY <1>2, FlushInv, SMTT(30) DEF CompactFlush
<1>3. CASE CompactFlushErr
  <2>1. buffer \in Seq(Line) /\ WALTypeOK
    BY DEF IInv, WALTypeOK
  <2>2. WALTypeOK'
    BY <1>3, <2>1, FailType, NoLines, Zenon DEF CompactFlushErr, WALTypeOK
  <2>3. Compacting' /\ MemoryIsLog'
    BY <1>3, <2>1, FailType, Zenon DEF CompactFlushErr, Compacting, MemoryIsLog
  <2> QED
    BY <2>2, <2>3 DEF IInv
<1>4. CASE CompactRename
  <2>1. tmp \in Seq(Line) /\ Replay(tmp) = entries /\ buffer = <<>> /\ ~writerErr /\ running
    BY <1>4, ListingReplays, Zenon DEF CompactRename, IInv, WALTypeOK, Compacting
  <2>2. Written' = tmp
    BY <1>4, <2>1, ConcatEmptySeq, SMTT(30) DEF CompactRename, Written, OnDisk, NoFrag
  <2>3. frag' \in Seq(Line) /\ Len(frag') <= 1
    BY <1>4, NoFragType, SMTT(30) DEF CompactRename
  <2>4. WALTypeOK'
    BY <1>4, <2>1, <2>3, NoLines, Zenon DEF CompactRename, IInv, WALTypeOK
  <2>5. Compacting' /\ MemoryIsLog'
    BY <1>4, <2>1, <2>2, Zenon DEF CompactRename, Compacting, MemoryIsLog
  <2> QED
    BY <2>4, <2>5 DEF IInv
<1>5. CASE CompactAbandon
  <2>1. WALTypeOK'
    BY <1>5, NoLines, Zenon DEF CompactAbandon, IInv, WALTypeOK
  <2>2. Compacting' /\ MemoryIsLog'
    BY <1>5, Zenon DEF CompactAbandon, IInv, Compacting, MemoryIsLog, Written, OnDisk
  <2> QED
    BY <2>1, <2>2 DEF IInv
<1>6. CASE CompactReopen
  <2>1. buffer' = buffer /\ writerErr' = writerErr
    BY <1>6, Zenon DEF CompactReopen, IInv, WALTypeOK, Compacting
  <2>2. WALTypeOK'
    BY <1>6, <2>1, Zenon DEF CompactReopen, IInv, WALTypeOK
  <2>3. Compacting' /\ MemoryIsLog'
    BY <1>6, <2>1, Zenon DEF CompactReopen, IInv, Compacting, MemoryIsLog, Written, OnDisk
  <2> QED
    BY <2>2, <2>3 DEF IInv
<1> QED
  BY <1>1, <1>2, <1>3, <1>4, <1>5, <1>6 DEF CompactStep

LEMMA StopInv ==
  ASSUME IInv, Crash \/ Close
  PROVE  IInv'
<1>1. CASE Crash
  <2>1. WALTypeOK'
    BY <1>1, NoLines, Zenon DEF Crash, IInv, WALTypeOK
  <2>2. Compacting' /\ MemoryIsLog'
    BY <1>1 DEF Crash, Compacting, MemoryIsLog
  <2> QED
    BY <2>1, <2>2 DEF IInv
<1>2. CASE Close
  <2>1. WALTypeOK'
    BY <1>2, FlushWrites, NoLines, Zenon DEF Close, IInv, WALTypeOK
  <2>2. Compacting' /\ MemoryIsLog'
    BY <1>2, Zenon DEF Close, Idle, Compacting, MemoryIsLog
  <2> QED
    BY <2>1, <2>2 DEF IInv
<1> QED
  BY <1>1, <1>2, Zenon

LEMMA NextIInv == IInv /\ [WALNext]_walVars => IInv'
<1> SUFFICES ASSUME IInv, [WALNext]_walVars PROVE IInv'
  OBVIOUS
<1>1. CASE Flush
  BY <1>1, FlushInv, Zenon DEF Flush, Idle, IInv, WALTypeOK
<1>2. CASE FlushErr
  BY <1>2, FailInv, Zenon DEF FlushErr, IInv, WALTypeOK
<1>3. CASE UNCHANGED walVars
  BY <1>3, Zenon DEF walVars, IInv, WALTypeOK, Compacting, MemoryIsLog, Written, OnDisk,
              PendingLines
<1> QED
  BY <1>1, <1>2, <1>3, NewWALInv, CallInv, CompactInv, StopInv DEF WALNext

\* Every call, failure and crash keeps the log's variables well typed.
THEOREM WALTypeCorrect == WALSpec => []WALTypeOK
<1>1. IInv => WALTypeOK
  BY SMTT(30) DEF IInv
<1> QED
  BY <1>1, InitIInv, NextIInv, PTL DEF WALSpec

\* For any IDs, any crashes and failures and any flush boundaries, the map in
\* memory is what recover would rebuild from the bytes written so far, as long
\* as the writer has not failed and no record continued a torn line.
THEOREM MemoryIsLogCorrect == WALSpec => []MemoryIsLog
<1>1. IInv => MemoryIsLog
  BY SMTT(30) DEF IInv
<1> QED
  BY <1>1, InitIInv, NextIInv, PTL DEF WALSpec

\* A crash at any point of Compact recovers the map Compact started from.
THEOREM CompactionCorrect == WALSpec => []CompactionCrashSafe
<1>1. IInv => CompactionCrashSafe
  BY DEF IInv, Compacting, MemoryIsLog, CompactionCrashSafe, Written
<1> QED
  BY <1>1, InitIInv, NextIInv, PTL DEF WALSpec

\* Compact holds the mutex to its end: once the old file is closed nothing is
\* buffered, and until the rename the temporary file lists the whole map.
THEOREM CompactingCorrect == WALSpec => []Compacting
<1>1. IInv => Compacting
  BY SMTT(30) DEF IInv
<1> QED
  BY <1>1, InitIInv, NextIInv, PTL DEF WALSpec

-----------------------------------------------------------------------------
(* The loop in recover.  Induction over the lines is by the least number of  *)
(* lines after which loop and closed form would differ.                      *)

LEMMA LeastNumber ==
  ASSUME NEW S \in SUBSET Nat, S # {}
  PROVE  \E n \in S : \A m \in S : n <= m
<1> DEFINE R == {ss \in Nat \X Nat : ss[1] < ss[2]}
<1>1. IsWellFoundedOn(R, Nat)
  BY NatLessThanWellFounded DEF OpToRel
<1>2. PICK n \in S : \A m \in S : ~(<<m, n>> \in R)
  BY <1>1, WFMin, Zenon
<1>3. \A m \in S : ~(m < n)
  BY <1>2, Zenon
<1> QED
  BY <1>3

LEMMA ReplaySkips ==
  ASSUME NEW log \in Seq(Line), NEW rec \in Line, rec.state = "corrupt"
  PROVE  Replay(Append(log, rec)) = Replay(log)
<1> DEFINE new == Append(log, rec)
           n == Len(log) + 1
<1>1. /\ new \in Seq(Line) /\ DOMAIN new = 1 .. n /\ DOMAIN log = 1 .. n - 1
      /\ n \in Nat \ {0} /\ new[n] = rec /\ \A i \in DOMAIN log : new[i] = log[i]
  OBVIOUS
<1> HIDE DEF new, n
<1>2. ASSUME NEW id \in Id
      PROVE  Replay(new)[id] = Replay(log)[id]
  <2>1. \A i \in DOMAIN log : Decides(new, i, id) <=> Decides(log, i, id)
    BY <1>1 DEF Decides
  <2>2. ~Decides(new, n, id)
    BY <1>1, Zenon DEF Decides
  <2>3. CASE \E i \in DOMAIN log : Decides(log, i, id)
    <3>1. PICK i \in DOMAIN log : Decides(log, i, id)
      BY <2>3
    <3>2. i \in DOMAIN new /\ new[i] = log[i] /\ Decides(new, i, id)
      BY <1>1, <2>1, <3>1
    <3> QED
      BY <1>1, <3>1, <3>2, ReplayDecided
  <2>4. CASE \A i \in DOMAIN log : ~Decides(log, i, id)
    <3>1. \A i \in DOMAIN new : ~Decides(new, i, id)
      BY <1>1, <2>1, <2>2, <2>4
    <3> QED
      BY <1>1, <2>4, <3>1, ReplayUndecided, Zenon
  <2> QED
    BY <2>3, <2>4, Zenon
<1>3. Replay(log) \in [Id -> Nat] /\ Replay(new) \in [Id -> Nat]
  BY <1>1, ReplayType, Zenon
<1>4. Replay(new) = Replay(log)
  BY <1>2, <1>3
<1> QED
  BY <1>4 DEF new

\* One turn of the loop.
LEMMA ReplayLine ==
  ASSUME NEW log \in Seq(Line), NEW l \in Line
  PROVE  Replay(Append(log, l)) = ScanLine(Replay(log), l)
<1>1. l.state \in RecordStates
  BY DEF Line
<1>2. CASE l.state = "corrupt"
  BY <1>2, ReplaySkips DEF ScanLine
<1>3. CASE l.state = "pending"
  BY <1>3, ReplayAppend DEF ScanLine
<1>4. CASE l.state \in {"complete", "dlq"}
  BY <1>4, ReplayAppend DEF ScanLine
<1> QED
  BY <1>1, <1>2, <1>3, <1>4, Zenon DEF RecordStates

LEMMA ReplayNothing == Replay(<<>>) = [id \in Id |-> 0]
<1>1. <<>> \in Seq(Line) /\ DOMAIN <<>> = {}
  OBVIOUS
<1>2. Replay(<<>>) \in [Id -> Nat]
  BY <1>1, ReplayType, Zenon
<1>3. \A id \in Id : Replay(<<>>)[id] = 0
  BY <1>1, ReplayUndecided, Zenon
<1> QED
  BY <1>2, <1>3

\* For every log, of any length, corrupt lines included, recover's loop ends
\* with the map that the closed form Replay describes.
THEOREM ScanIsReplay ==
  ASSUME NEW log \in Seq(Line)
  PROVE  Scan(log) = Replay(log)
<1> DEFINE N == Len(log)
           g == [n \in 0 .. N |-> Replay(SubSeq(log, 1, n))]
           f == Scanned(log)
           Turn(h) == [n \in 0 .. N |-> IF n = 0 THEN [id \in Id |-> 0]
                                        ELSE ScanLine(h[n - 1], log[n])]
<1>1. N \in Nat
  OBVIOUS
<1>2. ASSUME NEW n \in 1 .. N
      PROVE  g[n] = ScanLine(g[n - 1], log[n])
  <2>1. /\ SubSeq(log, 1, n - 1) \in Seq(Line) /\ log[n] \in Line
        /\ n \in 0 .. N /\ n - 1 \in 0 .. N
    BY <1>1
  <2>2. SubSeq(log, 1, n) = Append(SubSeq(log, 1, n - 1), log[n])
    BY <1>1
  <2> QED
    BY <2>1, <2>2, ReplayLine, Zenon
<1>3. g[0] = [id \in Id |-> 0]
  <2>1. SubSeq(log, 1, 0) = <<>>
    OBVIOUS
  <2>2. g[0] = Replay(SubSeq(log, 1, 0))
    BY <1>1
  <2> QED
    BY <2>1, <2>2, ReplayNothing, Zenon
<1>4. g = Turn(g)
  <2>1. \A n \in 0 .. N : n = 0 \/ n \in 1 .. N
    BY <1>1
  <2>2. \A n \in 0 .. N : g[n] = IF n = 0 THEN [id \in Id |-> 0]
                                 ELSE ScanLine(g[n - 1], log[n])
    BY <1>2, <1>3, <2>1, Zenon
  <2> HIDE DEF N
  <2> QED
    BY <2>2, Zenon
<1>5. f = CHOOSE h : h = Turn(h)
  BY DEF Scanned
<1>6. f = Turn(f)
  BY <1>4, <1>5, Zenon
<1> HIDE DEF g, f
<1>7. ASSUME NEW m \in 0 .. N, f[m] # g[m]
      PROVE  FALSE
  <2> DEFINE D == {n \in 0 .. N : f[n] # g[n]}
  <2>0. D \in SUBSET Nat /\ D # {}
    BY <1>1, <1>7
  <2>1. PICK n \in D : \A k \in D : n <= k
    BY <2>0, LeastNumber, Zenon
  <2>2. n # 0
    BY <1>1, <1>3, <1>6, <2>1, Zenon
  <2>3. n \in 1 .. N /\ n - 1 \in 0 .. N
    BY <1>1, <2>1, <2>2
  <2>4. f[n - 1] = g[n - 1]
    BY <2>1, <2>3
  <2>5. f[n] = ScanLine(f[n - 1], log[n])
    BY <1>6, <2>2, <2>3, Zenon
  <2> QED
    BY <1>2, <2>1, <2>3, <2>4, <2>5, Zenon
<1>8. f[N] = g[N]
  BY <1>1, <1>7
<1>9. g[N] = Replay(log)
  <2>1. g[N] = Replay(SubSeq(log, 1, N))
    BY <1>1 DEF g
  <2> QED
    BY <2>1, SubSeqFull, Zenon
<1> QED
  BY <1>8, <1>9, Zenon DEF Scan, f

\* Whatever the log holds after any run, a torn last line included, the loop
\* in recover rebuilds what Replay says.
THEOREM ReplayIsScanCorrect == WALSpec => []ReplayIsScan
<1>1. WALTypeOK => ReplayIsScan
  BY ScanIsReplay, ConcatProperties, Zenon DEF WALTypeOK, ReplayIsScan, OnDisk
<1> QED
  BY <1>1, WALTypeCorrect, PTL

-----------------------------------------------------------------------------
(* Flushes that end at line boundaries.  Whole is what makes FlushedSurvives-*)
(* Crash inductive: there is never a fragment for a record to continue.      *)

Whole == frag = NoFrag /\ ~glued

LEMMA WholeAdvance ==
  ASSUME ~Tears, Whole, NEW stream, NEW k, Advance(stream, k)
  PROVE  frag' = NoFrag
BY Zenon DEF Whole, Advance, FragsAfter

LEMMA WholeAppend ==
  ASSUME ~Tears, Whole, NEW rec, appendEntry(rec)
  PROVE  Whole'
<1>1. LineFor(rec) = rec
  BY DEF Whole, LineFor
<1>2. ~glued'
  BY <1>1, Zenon DEF Whole, appendEntry
<1>3. frag' = NoFrag
  BY WholeAdvance, Zenon DEF Whole, appendEntry, AdvanceNothing
<1> QED
  BY <1>2, <1>3 DEF Whole

LEMMA WholeFails ==
  ASSUME ~Tears, Whole, NEW stream, writeFails(stream)
  PROVE  Whole'
<1>1. glued' = glued
  BY DEF writeFails
<1>2. frag' = NoFrag
  BY WholeAdvance, Zenon DEF Whole, writeFails, AdvanceNothing
<1> QED
  BY <1>1, <1>2 DEF Whole

LEMMA WholeFlush ==
  ASSUME Whole, flushAll
  PROVE  Whole'
BY Zenon DEF Whole, flushAll

LEMMA WholeNext ==
  ASSUME ~Tears, Whole, [WALNext]_walVars
  PROVE  Whole'
<1>1. ASSUME NEW id \in Id, Call(id) PROVE Whole'
  BY <1>1, WholeAppend, WholeFails, Zenon
     DEF Call, WALAppend, AppendErr, Complete, MarkDLQ, Remove, RemoveErr,
         IncrementAttempts, IncrementAttemptsErr, appendFails
<1>2. CASE Flush \/ FlushErr \/ Close
  BY <1>2, WholeFlush, WholeFails, Zenon DEF Flush, FlushErr, Close
<1>3. CASE CompactStep
  <2>1. CASE CompactFlush \/ CompactFlushErr
    BY <2>1, WholeFlush, WholeFails, ZenonT(30) DEF CompactFlush, CompactFlushErr
  <2>2. CASE CompactWriteTmp \/ CompactRename \/ CompactAbandon \/ CompactReopen
    BY <2>2 DEF Whole, CompactWriteTmp, CompactRename, CompactAbandon, CompactReopen
  <2> QED
    BY <1>3, <2>1, <2>2, Zenon DEF CompactStep
<1>4. CASE NewWAL \/ Crash \/ UNCHANGED walVars
  BY <1>4 DEF Whole, NewWAL, Crash, walVars
<1> QED
  BY <1>1, <1>2, <1>3, <1>4, Zenon DEF WALNext

\* As long as flushes end at line boundaries, whatever system calls fail, a
\* crash at a moment when the writer holds nothing loses nothing: recover
\* rebuilds the map.
THEOREM FlushedCorrect ==
  ASSUME ~Tears
  PROVE  WALSpec => []FlushedSurvivesCrash
<1>1. WALInit => Whole
  BY DEF WALInit, Whole
<1>2. Whole /\ [WALNext]_walVars => Whole'
  BY WholeNext, Zenon
<1>3. IInv /\ Whole => FlushedSurvivesCrash
  BY Zenon DEF IInv, Whole, MemoryIsLog, FlushedSurvivesCrash, Written
<1> QED
  BY <1>1, <1>2, <1>3, InitIInv, NextIInv, PTL DEF WALSpec

-----------------------------------------------------------------------------
(* The log implements DurableMap.  Hist is History where no fragment exists; *)
(* moving the boundary between file and buffer drops a prefix of it, and a   *)
(* record adds the map with that record replayed at its end.                 *)

Hist(f, b) == [k \in 1 .. Len(b) + 1 |-> Replay(f \o SubSeq(b, 1, k - 1))]

LEMMA HistType ==
  ASSUME NEW f \in Seq(Line), NEW b \in Seq(Line)
  PROVE  /\ Hist(f, b) \in Seq([Id -> Nat]) /\ Len(Hist(f, b)) = Len(b) + 1
         /\ \A k \in 1 .. Len(b) + 1 : Hist(f, b)[k] = Replay(f \o SubSeq(b, 1, k - 1))
<1>1. Len(b) \in Nat
  OBVIOUS
<1>2. ASSUME NEW k \in 1 .. Len(b) + 1
      PROVE  Replay(f \o SubSeq(b, 1, k - 1)) \in [Id -> Nat]
  <2>1. SubSeq(b, 1, k - 1) \in Seq(Line)
    BY <1>1
  <2>2. f \o SubSeq(b, 1, k - 1) \in Seq(Line)
    BY <2>1, ConcatProperties, Zenon
  <2> QED
    BY <2>2, ReplayType, Zenon
<1>3. Hist(f, b) \in [1 .. Len(b) + 1 -> [Id -> Nat]]
  BY <1>2, Zenon DEF Hist
<1>4. Hist(f, b) \in Seq([Id -> Nat])
  BY <1>1, <1>3
<1>5. Len(Hist(f, b)) = Len(b) + 1
  BY <1>1, <1>3, <1>4
<1> QED
  BY <1>4, <1>5, Zenon DEF Hist

LEMMA HistEmpty ==
  ASSUME NEW f \in Seq(Line)
  PROVE  Hist(f, <<>>) = <<Replay(f)>>
<1>1. <<>> \in Seq(Line) /\ Len(<<>>) = 0 /\ SubSeq(<<>>, 1, 0) = <<>>
  OBVIOUS
<1>2. f \o <<>> = f
  BY ConcatEmptySeq, Zenon
<1>3. Hist(f, <<>>) = [k \in 1 .. 1 |-> Replay(f \o SubSeq(<<>>, 1, k - 1))]
  BY <1>1 DEF Hist
<1>4. \A k \in 1 .. 1 : SubSeq(<<>>, 1, k - 1) = <<>>
  BY <1>1
<1>5. Hist(f, <<>>) = [k \in 1 .. 1 |-> Replay(f)]
  BY <1>2, <1>3, <1>4, Zenon
<1> QED
  BY <1>5

\* The first k lines of a stream harden.
LEMMA HistFlush ==
  ASSUME NEW f \in Seq(Line), NEW s \in Seq(Line), NEW k \in 0 .. Len(s)
  PROVE  Hist(f \o SubSeq(s, 1, k), SubSeq(s, k + 1, Len(s)))
           = SubSeq(Hist(f, s), k + 1, Len(Hist(f, s)))
<1> DEFINE a == SubSeq(s, 1, k)
           b == SubSeq(s, k + 1, Len(s))
           h == Hist(f, s)
           g == Hist(f \o a, b)
<1>1. Len(s) \in Nat /\ k \in Nat /\ k <= Len(s)
  OBVIOUS
<1>2. a \in Seq(Line) /\ b \in Seq(Line) /\ Len(b) = Len(s) - k
  BY <1>1
<1>3. f \o a \in Seq(Line)
  BY <1>2, ConcatProperties, Zenon
<1>4. /\ h \in Seq([Id -> Nat]) /\ Len(h) = Len(s) + 1
      /\ \A i \in 1 .. Len(s) + 1 : h[i] = Replay(f \o SubSeq(s, 1, i - 1))
  BY HistType, Zenon
<1>5. /\ g \in Seq([Id -> Nat]) /\ Len(g) = Len(s) - k + 1
      /\ \A i \in 1 .. Len(s) - k + 1 : g[i] = Replay((f \o a) \o SubSeq(b, 1, i - 1))
  <2> HIDE DEF a, b
  <2> QED
    BY <1>2, <1>3, HistType, Zenon
<1>6. ASSUME NEW i \in 1 .. Len(s) - k + 1
      PROVE  g[i] = h[k + i]
  <2>1. SubSeq(b, 1, i - 1) = SubSeq(s, k + 1, k + i - 1)
    BY <1>1
  <2>2. SubSeq(b, 1, i - 1) \in Seq(Line)
    BY <1>1, <1>2
  <2>3. (f \o a) \o SubSeq(b, 1, i - 1) = f \o (a \o SubSeq(b, 1, i - 1))
    <3> DEFINE c == SubSeq(b, 1, i - 1)
    <3>1. c \in Seq(Line)
      BY <2>2, Zenon
    <3> HIDE DEF a, b, c
    <3>2. (f \o a) \o c = f \o (a \o c)
      BY <1>2, <3>1, Glue, Zenon
    <3> QED
      BY <3>2, Zenon DEF c
  <2>4. a \o SubSeq(s, k + 1, k + i - 1) = SubSeq(s, 1, k + i - 1)
    <3>1. 1 \in 1 .. Len(s) + 1 /\ k \in 1 - 1 .. Len(s) /\ k + i - 1 \in k .. Len(s)
      BY <1>1
    <3> QED
      BY <3>1, ConcatAdjacentSubSeq, Zenon
  <2>5. k + i \in 1 .. Len(s) + 1 /\ k + i - 1 = (k + i) - 1
    BY <1>1
  <2> HIDE DEF a, b, g, h
  <2> QED
    BY <1>4, <1>5, <2>1, <2>3, <2>4, <2>5, Zenon
<1> HIDE DEF a, b, g, h
<1>7. g = SubSeq(h, k + 1, Len(h))
  <2> DEFINE t == SubSeq(h, k + 1, Len(h))
             N == Len(s) - k + 1
  <2>1. k + 1 \in Int /\ Len(h) \in Nat /\ k + 1 >= 1 /\ N \in Nat /\ Len(h) = k + N
    BY <1>1, <1>4
  <2>2. t \in Seq([Id -> Nat])
    BY <1>4, <2>1, SubSeqProperties, SMTT(30)
  <2>3. Len(t) = N /\ \A i \in 1 .. N : t[i] = h[k + i]
    BY <1>1, <1>4, <2>1
  <2> HIDE DEF t
  <2>4. \A i \in 1 .. N : g[i] = t[i]
    BY <1>6, <2>3, Zenon
  <2> QED
    BY <1>5, <2>2, <2>3, <2>4, SeqEqual, Zenon DEF t
<1> QED
  BY <1>7, Zenon DEF a, b, g, h

LEMMA HistAppend ==
  ASSUME NEW f \in Seq(Line), NEW b \in Seq(Line), NEW l \in Line
  PROVE  Hist(f, Append(b, l)) = Append(Hist(f, b), Replay(f \o Append(b, l)))
<1> DEFINE s == Append(b, l)
           h == Hist(f, b)
           g == Hist(f, s)
           m == Replay(f \o s)
<1>1. Len(b) \in Nat /\ s \in Seq(Line) /\ Len(s) = Len(b) + 1
  OBVIOUS
<1>2. f \o s \in Seq(Line)
  BY <1>1, ConcatProperties, Zenon
<1>3. m \in [Id -> Nat]
  BY <1>2, ReplayType, Zenon
<1>4. /\ h \in Seq([Id -> Nat]) /\ Len(h) = Len(b) + 1
      /\ \A i \in 1 .. Len(b) + 1 : h[i] = Replay(f \o SubSeq(b, 1, i - 1))
  BY HistType, Zenon
<1>5. /\ g \in Seq([Id -> Nat]) /\ Len(g) = Len(b) + 2
      /\ \A i \in 1 .. Len(b) + 2 : g[i] = Replay(f \o SubSeq(s, 1, i - 1))
  <2>1. Len(s) + 1 = Len(b) + 2
    BY <1>1
  <2> HIDE DEF s
  <2> QED
    BY <1>1, <2>1, HistType, Zenon
<1>6. ASSUME NEW i \in 1 .. Len(b) + 1
      PROVE  g[i] = h[i]
  <2>1. SubSeq(s, 1, i - 1) = SubSeq(b, 1, i - 1)
    BY <1>1
  <2>2. i \in 1 .. Len(b) + 2
    BY <1>1
  <2> HIDE DEF s, g, h
  <2> QED
    BY <1>4, <1>5, <2>1, <2>2, Zenon
<1>7. g[Len(b) + 2] = m
  <2>1. SubSeq(s, 1, Len(s)) = s
    BY <1>1, SubSeqFull, Zenon
  <2>2. Len(b) + 2 \in 1 .. Len(b) + 2 /\ (Len(b) + 2) - 1 = Len(s)
    BY <1>1
  <2>3. g[Len(b) + 2] = Replay(f \o SubSeq(s, 1, Len(s)))
    <3> HIDE DEF s, g
    <3> QED
      BY <1>5, <2>2, Zenon
  <2> QED
    BY <2>1, <2>3, Zenon
<1> HIDE DEF s, h, g, m
<1>8. g = Append(h, m)
  <2>1. Append(h, m) \in Seq([Id -> Nat]) /\ Len(Append(h, m)) = Len(b) + 2
    BY <1>1, <1>3, <1>4
  <2>2. \A i \in 1 .. Len(b) + 2 : Append(h, m)[i] = IF i = Len(b) + 2 THEN m ELSE h[i]
    BY <1>1, <1>3, <1>4
  <2>3. \A i \in 1 .. Len(b) + 2 : g[i] = Append(h, m)[i]
    <3>1. \A i \in 1 .. Len(b) + 2 : i = Len(b) + 2 \/ i \in 1 .. Len(b) + 1
      BY <1>1
    <3> QED
      BY <1>6, <1>7, <2>2, <3>1, Zenon
  <2> QED
    BY <1>5, <2>1, <2>3, SeqEqual, Zenon
<1> QED
  BY <1>8, Zenon DEF s, h, g, m

\* When no system call fails the writer is never stuck and the handle is open
\* except while Compact swaps the files.
Reliable ==
  /\ Whole /\ ~writerErr
  /\ ~running => buffer = <<>>
  /\ (running /\ compact \in {"idle", "tmp"}) => handle = "open"

LEMMA NoFailure ==
  ASSUME ~WriteErrors, Reliable, running, compact \in {"idle", "tmp"}, NEW stream
  PROVE  ~writeFails(stream)
BY Zenon DEF Reliable, writeFails

LEMMA ReliableNext ==
  ASSUME ~Tears, ~WriteErrors, IInv, Reliable, [WALNext]_walVars
  PROVE  Reliable'
<1>1. Whole'
  BY WholeNext DEF Reliable
<1>2. ASSUME NEW id \in Id, Call(id)
      PROVE  /\ ~writerErr' /\ running' /\ compact' = "idle" /\ handle' = "open"
  <2>1. running /\ compact = "idle" /\ handle = "open"
    BY <1>2, Zenon DEF Reliable, Idle, Call, WALAppend, AppendErr, Complete, MarkDLQ,
         Remove, RemoveErr, IncrementAttempts, IncrementAttemptsErr
  <2>2. \A stream : ~writeFails(stream)
    BY <2>1, NoFailure, Zenon
  <2>3. /\ \E rec : appendEntry(rec)
        /\ UNCHANGED <<compact, running>>
    BY <1>2, <2>2, Zenon DEF Call, WALAppend, AppendErr, Complete, MarkDLQ,
         Remove, RemoveErr, IncrementAttempts, IncrementAttemptsErr, appendFails
  <2>4. ~writerErr /\ writerErr' = writerErr /\ handle' = handle
    BY <2>3, Zenon DEF appendEntry
  <2> QED
    BY <2>1, <2>3, <2>4, Zenon
<1>3. CASE Flush
  BY <1>1, <1>3, Zenon DEF Reliable, Flush, flushAll, Idle
<1>4. CASE FlushErr
  BY <1>4, NoFailure, Zenon DEF FlushErr, Idle
<1>5. CASE Close
  BY <1>1, <1>5, Zenon DEF Reliable, Close, flushAll
<1>6. CASE CompactStep
  <2>1. CASE CompactWriteTmp
    BY <1>1, <2>1, Zenon DEF CompactWriteTmp, Reliable, Idle
  <2>2. CASE CompactFlush
    BY <1>1, <2>2, Zenon DEF CompactFlush, flushAll, Reliable, IInv, Compacting
  <2>3. CASE CompactFlushErr
    BY <2>3, NoFailure, Zenon DEF CompactFlushErr, IInv, Compacting
  <2>4. CASE CompactRename \/ CompactReopen
    BY <1>1, <2>4 DEF CompactRename, CompactReopen, Reliable
  <2>5. CASE CompactAbandon
    BY <2>5, Zenon DEF CompactAbandon
  <2> QED
    BY <1>6, <2>1, <2>2, <2>3, <2>4, <2>5, Zenon DEF CompactStep
<1>7. CASE NewWAL \/ Crash
  BY <1>1, <1>7, Zenon DEF Reliable, NewWAL, Crash
<1>8. CASE UNCHANGED walVars
  BY <1>1, <1>8, Zenon DEF Reliable, walVars
<1> QED
  BY <1>1, <1>2, <1>3, <1>4, <1>5, <1>6, <1>7, <1>8, Zenon DEF WALNext, Reliable

LEMMA HistoryIs == WALTypeOK /\ Whole => History = Hist(file, buffer)
<1> SUFFICES ASSUME WALTypeOK, Whole PROVE History = Hist(file, buffer)
  BY Zenon
<1>1. file \in Seq(Line) /\ buffer \in Seq(Line) /\ frag = <<>>
  BY Zenon DEF WALTypeOK, Whole, NoFrag
<1>2. CASE buffer = <<>>
  <2>1. OnDisk = file
    BY <1>1, ConcatEmptySeq, Zenon DEF OnDisk
  <2> QED
    BY <1>1, <1>2, <2>1, HistEmpty, Zenon DEF History
<1>3. CASE buffer # <<>>
  <2>1. /\ Len(buffer) \in Nat /\ Len(buffer) + 1 - 0 = Len(buffer) + 1
        /\ \A k \in 1 .. Len(buffer) + 1 : k - 1 + 0 = k - 1
    BY <1>1
  <2>2. History = [k \in 1 .. Len(buffer) + 1 - 0 |->
                     Replay(file \o SubSeq(buffer, 1, k - 1 + 0))]
    BY <1>1, <1>3, Zenon DEF History
  <2> QED
    BY <2>1, <2>2 DEF Hist
<1> QED
  BY <1>2, <1>3, Zenon

LEMMA HistoryPrime == (WALTypeOK /\ Whole => History = Hist(file, buffer))'
BY HistoryIs, PTL

\* The current map is the last of the history.
LEMMA HistLast ==
  ASSUME IInv, Reliable, running
  PROVE  /\ entries = Replay(file \o buffer)
         /\ Hist(file, buffer)[Len(Hist(file, buffer))] = entries
<1>1. file \in Seq(Line) /\ buffer \in Seq(Line) /\ frag = <<>>
  BY Zenon DEF IInv, WALTypeOK, Reliable, Whole, NoFrag
<1>2. Written = file \o buffer
  BY <1>1, Zenon DEF Written, OnDisk
<1>3. entries = Replay(file \o buffer)
  BY <1>2, Zenon DEF IInv, MemoryIsLog, Reliable, Whole
<1>4. Len(buffer) + 1 \in 1 .. Len(buffer) + 1 /\ (Len(buffer) + 1) - 1 = Len(buffer)
  BY <1>1
<1>5. Hist(file, buffer)[Len(Hist(file, buffer))]
        = Replay(file \o SubSeq(buffer, 1, Len(buffer)))
  BY <1>1, <1>4, HistType
<1>6. SubSeq(buffer, 1, Len(buffer)) = buffer
  BY <1>1, SubSeqFull, Zenon
<1> QED
  BY <1>3, <1>5, <1>6, Zenon

\* A successful call is an update, during which some of the oldest updates may
\* harden.
LEMMA RecordRefines ==
  ASSUME IInv, IInv', Reliable, Reliable', running, running',
         NEW id \in Id, NEW st \in {"pending", "complete", "dlq"},
         NEW n \in Nat, appendEntry(Record(id, st, n)),
         entries' = [entries EXCEPT ![id] = IF st = "pending" THEN n ELSE 0]
  PROVE  Durable!Update(id, IF st = "pending" THEN n ELSE 0)
<1> DEFINE rec == Record(id, st, n)
           s == Append(buffer, rec)
           h == Hist(file, buffer)
<1>1. rec \in Line
  BY Zenon DEF Record, Line, RecordStates
<1>2. LineFor(rec) = rec
  BY Zenon DEF LineFor, Reliable, Whole
<1>3. file \in Seq(Line) /\ buffer \in Seq(Line) /\ WALTypeOK /\ WALTypeOK'
  BY Zenon DEF IInv, WALTypeOK
<1>4. s \in Seq(Line) /\ Len(s) \in Nat
  BY <1>1, <1>3
<1>5. PICK k \in 0 .. Len(s) : /\ file' = file \o SubSeq(s, 1, k)
                               /\ buffer' = SubSeq(s, k + 1, Len(s))
  <2>1. CASE UNCHANGED file /\ buffer' = s
    <3>1. SubSeq(s, 1, 0) = <<>> /\ SubSeq(s, 0 + 1, Len(s)) = s /\ 0 \in 0 .. Len(s)
      BY <1>4, SubSeqFull
    <3>2. file \o <<>> = file
      BY <1>3, ConcatEmptySeq, Zenon
    <3> QED
      BY <2>1, <3>1, <3>2, ZenonT(30)
  <2>2. CASE \E k \in 0 .. Len(s) : Advance(s, k) /\ buffer' = SubSeq(s, k + 1, Len(s))
    BY <2>2, Zenon DEF Advance
  <2> QED
    BY <1>2, <2>1, <2>2, Zenon DEF appendEntry, AdvanceNothing
<1>6. Hist(file', buffer') = SubSeq(Hist(file, s), k + 1, Len(Hist(file, s)))
  BY <1>3, <1>4, <1>5, HistFlush, ZenonT(30)
<1>7. file' \o buffer' = file \o s
  BY <1>3, <1>4, <1>5, SplitStream, ZenonT(30)
<1>8. entries' = Replay(file' \o buffer')
  <2>1. file' \in Seq(Line) /\ buffer' \in Seq(Line) /\ frag' = <<>>
    BY Zenon DEF IInv, WALTypeOK, Reliable, Whole, NoFrag
  <2>2. Written' = file' \o buffer'
    BY <2>1, Zenon DEF Written, OnDisk
  <2> QED
    BY <2>2, Zenon DEF IInv, MemoryIsLog, Reliable, Whole
<1>9. Hist(file, s) = Append(h, entries')
  <2>1. Hist(file, s) = Append(h, Replay(file \o s))
    BY <1>1, <1>3, HistAppend, Zenon
  <2> QED
    BY <1>7, <1>8, <2>1, Zenon
<1>10. Len(Append(h, entries')) = Len(s) + 1
  BY <1>3, <1>4, <1>9, HistType, ZenonT(30)
<1>11. k + 1 \in 1 .. Len(Append(h, entries'))
  BY <1>4, <1>10
<1>12. History = h /\ History' = Hist(file', buffer')
  BY <1>3, HistoryIs, HistoryPrime, Zenon DEF Reliable
<1>13. History' \in Durable!Suffixes(Append(History, entries'))
  BY <1>6, <1>9, <1>11, <1>12, ZenonT(30) DEF Durable!Suffixes
<1> QED
  BY <1>13, Zenon DEF Durable!Update

\* Flushing everything hardens every update.
LEMMA FlushRefines ==
  ASSUME IInv, IInv', Reliable, Reliable', running, flushAll
  PROVE  /\ History' = <<entries>>
         /\ entries = History[Len(History)]
         /\ History' = SubSeq(History, Len(History), Len(History))
         /\ Len(History) \in 1 .. Len(History)
<1>1. file \in Seq(Line) /\ buffer \in Seq(Line) /\ WALTypeOK /\ WALTypeOK'
  BY Zenon DEF IInv, WALTypeOK
<1>2. History = Hist(file, buffer) /\ History' = Hist(file', buffer')
  BY <1>1, HistoryIs, HistoryPrime, Zenon DEF Reliable
<1>3. file' = file \o buffer /\ buffer' = <<>> /\ file' \in Seq(Line)
  BY <1>1, ConcatProperties, Zenon DEF flushAll
<1>4. Hist(file', buffer') = <<Replay(file \o buffer)>>
  BY <1>3, HistEmpty, Zenon
<1>5. entries = Replay(file \o buffer) /\ Hist(file, buffer)[Len(Hist(file, buffer))] = entries
  BY HistLast, Zenon
<1>6. Hist(file, buffer) \in Seq([Id -> Nat]) /\ Len(Hist(file, buffer)) = Len(buffer) + 1
  BY <1>1, HistType, Zenon
<1>7. ASSUME NEW h \in Seq([Id -> Nat]), Len(h) > 0
      PROVE  SubSeq(h, Len(h), Len(h)) = <<h[Len(h)]>> /\ Len(h) \in 1 .. Len(h)
  <2>1. Len(h) \in Nat /\ h[Len(h)] \in [Id -> Nat] /\ Len(h) \in 1 .. Len(h)
    BY <1>7
  <2>2. /\ SubSeq(h, Len(h), Len(h)) \in Seq([Id -> Nat])
        /\ Len(SubSeq(h, Len(h), Len(h))) = 1
        /\ SubSeq(h, Len(h), Len(h))[1] = h[Len(h)]
    BY <1>7, <2>1, SubSeqProperties
  <2>3. \A t \in Seq([Id -> Nat]) : Len(t) = 1 => t = <<t[1]>>
    OBVIOUS
  <2> QED
    BY <2>1, <2>2, <2>3, Zenon
<1>8. Len(Hist(file, buffer)) > 0
  BY <1>1, <1>6
<1> QED
  BY <1>2, <1>4, <1>5, <1>6, <1>7, <1>8, Zenon

LEMMA CallRefines ==
  ASSUME ~WriteErrors, IInv, IInv', Reliable, Reliable', NEW id \in Id, Call(id)
  PROVE  Durable!DNext
<1>1. entries \in [Id -> Nat] /\ entries[id] \in Nat /\ entries[id] + 1 \in Nat
  BY DEF IInv, WALTypeOK
<1>2. running /\ compact = "idle" /\ UNCHANGED running
  BY Zenon DEF Idle, Call, WALAppend, AppendErr, Complete, MarkDLQ,
         Remove, RemoveErr, IncrementAttempts, IncrementAttemptsErr
<1>3. \A stream : ~writeFails(stream)
  BY <1>2, NoFailure, Zenon
<1>4. running'
  BY <1>2, Zenon
<1>5. CASE WALAppend(id)
  <2>1. Durable!Update(id, IF "pending" = "pending" THEN 1 ELSE 0)
    BY <1>2, <1>4, <1>5, RecordRefines, ZenonT(30) DEF WALAppend
  <2> QED
    BY <2>1, Zenon DEF Durable!DNext
<1>6. ASSUME NEW st \in {"complete", "dlq"}, Remove(id, st) PROVE Durable!DNext
  <2>1. Durable!Update(id, IF st = "pending" THEN entries[id] ELSE 0)
    BY <1>1, <1>2, <1>4, <1>6, RecordRefines, ZenonT(30) DEF Remove
  <2>2. Durable!Update(id, 0)
    BY <2>1, Zenon
  <2> QED
    BY <2>2, Zenon DEF Durable!DNext
<1>7. CASE IncrementAttempts(id)
  <2>1. /\ appendEntry(Record(id, "pending", entries[id] + 1))
        /\ entries' = [entries EXCEPT ![id] =
                         IF "pending" = "pending" THEN entries[id] + 1 ELSE 0]
    BY <1>7, Zenon DEF IncrementAttempts
  <2>2. Durable!Update(id, IF "pending" = "pending" THEN entries[id] + 1 ELSE 0)
    BY <1>1, <1>2, <1>4, <2>1, RecordRefines, ZenonT(30)
  <2> QED
    BY <2>2, Zenon DEF Durable!DNext
<1> QED
  BY <1>3, <1>5, <1>6, <1>7, ZenonT(30) DEF Call, Complete, MarkDLQ, AppendErr, RemoveErr,
     IncrementAttemptsErr, appendFails

LEMMA CompactRefines ==
  ASSUME ~WriteErrors, IInv, IInv', Reliable, Reliable', CompactStep
  PROVE  [Durable!DNext]_(Durable!dvars)
<1>1. file \in Seq(Line) /\ buffer \in Seq(Line) /\ WALTypeOK /\ WALTypeOK' /\ running
  BY Zenon DEF IInv, WALTypeOK, Compacting, CompactStep, CompactWriteTmp, CompactFlush,
     CompactFlushErr, CompactRename, CompactAbandon, CompactReopen, Idle
<1>2. History = Hist(file, buffer) /\ History' = Hist(file', buffer')
  BY <1>1, HistoryIs, HistoryPrime, Zenon DEF Reliable
<1>3. CASE CompactWriteTmp
  BY <1>2, <1>3, Zenon DEF CompactWriteTmp, Durable!dvars
<1>4. CASE CompactFlush
  <2>1. /\ History' = SubSeq(History, Len(History), Len(History))
        /\ Len(History) \in 1 .. Len(History)
    BY <1>1, <1>4, FlushRefines, Zenon DEF CompactFlush
  <2>2. History' \in Durable!Suffixes(History)
    BY <2>1, Zenon DEF Durable!Suffixes
  <2> QED
    BY <1>1, <1>4, <2>2, ZenonT(30) DEF CompactFlush, Durable!DNext, Durable!Harden
<1>5. CASE CompactFlushErr
  BY <1>1, <1>5, NoFailure, Zenon DEF CompactFlushErr
<1>6. CASE CompactRename
  <2>1. buffer = <<>> /\ tmp \in Seq(Line) /\ Replay(tmp) = entries
    BY <1>6, ListingReplays, Zenon DEF CompactRename, IInv, WALTypeOK, Compacting
  <2>2. entries = Replay(file)
    <3>1. entries = Replay(file \o buffer)
      BY <1>1, HistLast, Zenon
    <3> QED
      BY <1>1, <2>1, <3>1, ConcatEmptySeq, Zenon
  <2>3. History' = <<entries>>
    BY <1>2, <1>6, <2>1, HistEmpty, Zenon DEF CompactRename
  <2>4. History = <<entries>>
    BY <1>1, <1>2, <2>1, <2>2, HistEmpty, Zenon
  <2> QED
    BY <1>6, <2>3, <2>4, Zenon DEF CompactRename, Durable!dvars
<1>7. CASE CompactAbandon
  BY <1>7, Zenon DEF CompactAbandon
<1>8. CASE CompactReopen
  <2>1. buffer' = buffer
    BY <1>8, Zenon DEF CompactReopen, IInv, Compacting
  <2> QED
    BY <1>2, <1>8, <2>1, Zenon DEF CompactReopen, Durable!dvars
<1> QED
  BY <1>3, <1>4, <1>5, <1>6, <1>7, <1>8, Zenon DEF CompactStep

LEMMA StopRefines ==
  ASSUME IInv, IInv', Reliable, Reliable', NewWAL \/ Close \/ Crash
  PROVE  Durable!DNext
<1>1. file \in Seq(Line) /\ buffer \in Seq(Line) /\ WALTypeOK /\ WALTypeOK'
  BY Zenon DEF IInv, WALTypeOK
<1>2. History = Hist(file, buffer) /\ History' = Hist(file', buffer')
  BY <1>1, HistoryIs, HistoryPrime, Zenon DEF Reliable
<1>3. CASE NewWAL
  <2>1. buffer = <<>> /\ buffer' = <<>> /\ file' = file /\ ~running /\ frag = <<>>
    BY <1>3, Zenon DEF NewWAL, Reliable, Whole, NoFrag
  <2>2. OnDisk = file
    BY <1>1, <2>1, ConcatEmptySeq, Zenon DEF OnDisk
  <2>3. History = <<Replay(file)>> /\ UNCHANGED History
    BY <1>1, <1>2, <2>1, HistEmpty, Zenon
  <2>4. entries' = History[1]
    BY <1>3, <2>2, <2>3, Zenon DEF NewWAL
  <2> QED
    BY <1>3, <2>1, <2>3, <2>4, ZenonT(30) DEF NewWAL, Durable!DNext, Durable!Restart
<1>4. CASE Close
  <2>1. running /\ ~running' /\ entries' = [id \in Id |-> 0] /\ flushAll
    BY <1>4, Zenon DEF Close, Idle
  <2>2. History' = <<History[Len(History)]>>
    BY <2>1, FlushRefines, Zenon
  <2>3. running' = FALSE
    BY <1>4, Zenon DEF Close
  <2> QED
    BY <2>1, <2>2, <2>3, ZenonT(30) DEF Durable!DNext, Durable!Stop, Durable!EmptyMap
<1>5. CASE Crash
  <2>1. running /\ running' = FALSE /\ entries' = [id \in Id |-> 0] /\ buffer' = <<>>
        /\ file' = file
    BY <1>5, Zenon DEF Crash
  <2>2. History' = <<Replay(file)>>
    BY <1>1, <1>2, <2>1, HistEmpty, Zenon
  <2>3. History[1] = Replay(file)
    <3>1. 1 \in 1 .. Len(buffer) + 1 /\ SubSeq(buffer, 1, 1 - 1) = <<>>
      BY <1>1
    <3>2. Hist(file, buffer)[1] = Replay(file \o SubSeq(buffer, 1, 1 - 1))
      BY <1>1, <3>1, HistType, ZenonT(30)
    <3>3. file \o <<>> = file
      BY <1>1, ConcatEmptySeq, Zenon
    <3> QED
      BY <1>2, <3>1, <3>2, <3>3, ZenonT(30)
  <2> QED
    BY <2>1, <2>2, <2>3, ZenonT(30) DEF Durable!DNext, Durable!Fail, Durable!EmptyMap
<1> QED
  BY <1>3, <1>4, <1>5, Zenon

LEMMA StepRefines ==
  ASSUME ~WriteErrors, IInv, IInv', Reliable, Reliable', [WALNext]_walVars
  PROVE  [Durable!DNext]_(Durable!dvars)
<1>1. CASE Flush
  <2>1. /\ History' = SubSeq(History, Len(History), Len(History))
        /\ Len(History) \in 1 .. Len(History)
    BY <1>1, FlushRefines, Zenon DEF Flush, Idle
  <2>2. History' \in Durable!Suffixes(History)
    BY <2>1, Zenon DEF Durable!Suffixes
  <2> QED
    BY <1>1, <2>2, ZenonT(30) DEF Flush, Idle, Durable!DNext, Durable!Harden
<1>2. CASE FlushErr
  BY <1>2, NoFailure, Zenon DEF FlushErr, Idle
<1>3. CASE UNCHANGED walVars
  BY <1>3, Zenon DEF walVars, Durable!dvars, History, OnDisk
<1>4. CASE \E id \in Id : Call(id)
  BY <1>4, CallRefines, Zenon
<1>5. CASE NewWAL \/ Close \/ Crash
  BY <1>5, StopRefines, Zenon
<1> QED
  BY <1>1, <1>2, <1>3, <1>4, <1>5, CompactRefines, ZenonT(30) DEF WALNext

\* As long as flushes end at line boundaries and system calls succeed, the
\* log, buffered writer, Compact and recovery together implement a map whose
\* updates harden in order: a crash at any moment undoes a suffix of the
\* updates and nothing else.
THEOREM DurableMapCorrect ==
  ASSUME ~Tears, ~WriteErrors
  PROVE  WALSpec => ImplementsDurableMap
<1>1. WALInit => Reliable
  BY Zenon DEF WALInit, Reliable, Whole
<1>2. IInv /\ Reliable /\ [WALNext]_walVars => Reliable'
  BY ReliableNext, Zenon
<1>3. WALInit => Durable!DInit
  <2> SUFFICES ASSUME WALInit PROVE Durable!DInit
    BY Zenon
  <2>1. OnDisk = <<>>
    BY DEF WALInit, OnDisk, NoFrag
  <2>2. History = <<[id \in Id |-> 0]>>
    BY <2>1, ReplayNothing, Zenon DEF WALInit, History
  <2> QED
    BY <2>2, Zenon DEF WALInit, Durable!DInit, Durable!EmptyMap
<1>4. IInv /\ IInv' /\ Reliable /\ Reliable' /\ [WALNext]_walVars
        => [Durable!DNext]_(Durable!dvars)
  BY StepRefines, Zenon
<1> QED
  BY <1>1, <1>2, <1>3, <1>4, InitIInv, NextIInv, PTL
     DEF WALSpec, ImplementsDurableMap, Durable!DSpec
=============================================================================
