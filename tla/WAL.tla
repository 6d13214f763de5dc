-------------------------------- MODULE WAL --------------------------------
(***************************************************************************)
(* internal/ipcbus/wal.go: the JSON-lines write-ahead log of the IPC bus.  *)
(*                                                                         *)
(* A record reaches the file through a bufio.Writer, so the file holds a   *)
(* prefix of the bytes written so far and that prefix may end in the       *)
(* middle of a line.  A crash of the process keeps the file (the volume    *)
(* outlives the container and the kernel holds what was written) and       *)
(* loses the writer's buffer and the map.  Bytes are abstracted to lines:  *)
(* "frag" is what the unterminated last line of the file parses to.        *)
(*                                                                         *)
(* Every method holds w.mu, so each one is a step, except Compact, whose   *)
(* system calls a crash can separate; the mutex keeps other methods out.   *)
(***************************************************************************)
EXTENDS Integers, Sequences, FiniteSets, Functions

CONSTANTS Id,           \* message IDs
          MaxLines,     \* bound on the lines of the file and the buffer
          MaxAttempts,  \* bound on an entry's attempts
          WriteErrors,  \* whether system calls on the log may fail
          Tears         \* whether a partial flush may stop inside a line

ASSUME WALAssumption ==
  /\ MaxLines \in Nat /\ MaxAttempts \in Nat
  /\ WriteErrors \in BOOLEAN
  /\ Tears \in BOOLEAN
  /\ IsFiniteSet(Id)

VARIABLES
  entries,    \* the map: attempts of each pending ID, 0 when it has no entry
  file,       \* the terminated lines of wal.jsonl
  frag,       \* its unterminated last line, as a sequence of at most one
  buffer,     \* the lines whose end is still in the bufio.Writer
  writerErr,  \* the bufio.Writer's sticky error
  handle,     \* w.file: open, or closed by a Compact that then failed
  compact,    \* the step Compact has reached, "idle" outside Compact
  tmp,        \* the lines of wal.jsonl.tmp while Compact may still rename it
  running,    \* the process is up, with its WAL recovered
  glued       \* history: a line was appended to a fragment a crash left

walVars == <<entries, file, frag, buffer, writerErr, handle, compact, tmp,
             running, glued>>

RecordStates == {"pending", "complete", "dlq", "corrupt"}
Record(id, st, n) == [id |-> id, state |-> st, attempts |-> n]
Line == [id : Id, state : RecordStates, attempts : Nat]
Garbled(l) == [l EXCEPT !.state = "corrupt"]

NoFrag == <<>>

-----------------------------------------------------------------------------
\* Faulty variant: a corrupt line counts.
MutCorruptDecides(log, i, id) ==
  /\ log[i].id = id
  /\ \A j \in DOMAIN log : (j > i) => log[j].id # id

\* What recover's scan leaves in the map: corrupt lines are skipped, and the
\* last remaining line about an ID decides.
Decides(log, i, id) ==
  /\ log[i].id = id /\ log[i].state # "corrupt"
  /\ \A j \in DOMAIN log :
        (j > i /\ log[j].id = id) => log[j].state = "corrupt"

Replay(log) ==
  [id \in Id |->
     IF \E i \in DOMAIN log : Decides(log, i, id) /\ log[i].state = "pending"
     THEN log[CHOOSE i \in DOMAIN log : Decides(log, i, id)].attempts
     ELSE 0]

\* recover's loop, line by line: pending sets the entry, complete and dlq
\* delete it, a corrupt line is skipped.
ScanLine(map, l) ==
  CASE l.state = "pending" -> [map EXCEPT ![l.id] = l.attempts]
    [] l.state \in {"complete", "dlq"} -> [map EXCEPT ![l.id] = 0]
    [] OTHER -> map

Scanned(log) ==
  LET after[n \in 0 .. Len(log)] ==
        IF n = 0 THEN [id \in Id |-> 0] ELSE ScanLine(after[n - 1], log[n])
  IN  after

Scan(log) == Scanned(log)[Len(log)]

\* What the scanner reads: the terminated lines, then the fragment.
OnDisk == file \o frag

-----------------------------------------------------------------------------
\* What the written part of line k+1 of a stream may parse to.  Bytes are never
\* taken back, so an existing fragment stays or grows to the whole line.
FragsAfter(stream, k) ==
  IF k = Len(stream) THEN {NoFrag}
  ELSE IF k = 0 /\ frag # NoFrag THEN {frag, <<stream[1]>>}
  ELSE IF Tears THEN {NoFrag, <<Garbled(stream[k + 1])>>, <<stream[k + 1]>>}
  ELSE {NoFrag}

\* The first k lines of the stream, and perhaps part of the next, reach the
\* file.  With k = 0 and the fragment as it was, nothing does.
Advance(stream, k) ==
  /\ file' = file \o SubSeq(stream, 1, k)
  /\ frag' \in FragsAfter(stream, k)

AdvanceNothing == UNCHANGED <<file, frag>>

\* bufio.Writer.Write: buffer, and flush what no longer fits.  Right after a
\* restart the bytes continue whatever fragment the crash left.
LineFor(rec) == IF frag # NoFrag /\ buffer = <<>> THEN Garbled(rec) ELSE rec

appendEntry(rec) ==
  LET stream == Append(buffer, LineFor(rec)) IN
  /\ ~writerErr
  /\ Len(file) + Len(stream) <= MaxLines
  /\ \/ AdvanceNothing /\ buffer' = stream
     \/ /\ handle = "open"
        /\ \E k \in 0 .. Len(stream) :
             /\ Advance(stream, k)
             /\ buffer' = SubSeq(stream, k + 1, Len(stream))
  /\ glued' = (glued \/ LineFor(rec) # rec)
  /\ UNCHANGED <<writerErr, handle>>

\* A failing write to the file: part of the stream may be out already, the rest
\* never will be, and the bufio.Writer refuses all that follows.
writeFails(stream) ==
  /\ \/ writerErr /\ UNCHANGED <<file, frag, buffer>>
     \/ ~writerErr /\ handle = "closed" /\ AdvanceNothing /\ buffer' = <<>>
     \/ /\ ~writerErr /\ handle = "open" /\ WriteErrors
        /\ stream # <<>>
        /\ Len(file) + Len(stream) <= MaxLines
        /\ \E k \in 0 .. Len(stream) - 1 : Advance(stream, k)
        /\ buffer' = <<>>
  /\ writerErr' = TRUE
  /\ UNCHANGED <<handle, glued>>

appendFails(rec) == writeFails(Append(buffer, LineFor(rec)))

-----------------------------------------------------------------------------
Idle == running /\ compact = "idle"

WALInit ==
  /\ entries = [id \in Id |-> 0]
  /\ file = <<>> /\ frag = NoFrag /\ buffer = <<>> /\ tmp = <<>>
  /\ writerErr = FALSE /\ handle = "closed" /\ compact = "idle"
  /\ running = FALSE /\ glued = FALSE

\* NewWAL: replay the file, then open it for appending where it ends.
NewWAL ==
  /\ ~running
  /\ entries' = Replay(OnDisk)
  /\ running' = TRUE /\ handle' = "open" /\ writerErr' = FALSE
  /\ buffer' = <<>> /\ compact' = "idle" /\ glued' = FALSE
  /\ UNCHANGED <<file, frag, tmp>>

WALAppend(id) ==
  /\ Idle
  /\ appendEntry(Record(id, "pending", 1))
  /\ entries' = [entries EXCEPT ![id] = 1]
  /\ UNCHANGED <<compact, tmp, running>>

AppendErr(id) ==
  /\ Idle
  /\ appendFails(Record(id, "pending", 1))
  /\ UNCHANGED <<entries, compact, tmp, running>>

\* Faulty variant: the closing record is not written.
MutRemoveOnlyEntry(id, st) ==
  /\ Idle
  /\ entries[id] # 0
  /\ entries' = [entries EXCEPT ![id] = 0]
  /\ UNCHANGED <<file, frag, buffer, writerErr, handle, glued, compact, tmp,
                 running>>

\* Complete and MarkDLQ write a closing record, then drop the entry.
Remove(id, st) ==
  /\ Idle
  /\ entries[id] # 0
  /\ appendEntry(Record(id, st, entries[id]))
  /\ entries' = [entries EXCEPT ![id] = 0]
  /\ UNCHANGED <<compact, tmp, running>>

RemoveErr(id, st) ==
  /\ Idle
  /\ entries[id] # 0
  /\ appendFails(Record(id, st, entries[id]))
  /\ UNCHANGED <<entries, compact, tmp, running>>

Complete(id) == Remove(id, "complete")
MarkDLQ(id) == Remove(id, "dlq")

\* Faulty variant: the old number of attempts is written.
MutWritesOldAttempts(id) ==
  /\ Idle
  /\ entries[id] # 0 /\ entries[id] < MaxAttempts
  /\ entries' = [entries EXCEPT ![id] = @ + 1]
  /\ appendEntry(Record(id, "pending", entries[id]))
  /\ UNCHANGED <<compact, tmp, running>>

IncrementAttempts(id) ==
  /\ Idle
  /\ entries[id] # 0 /\ entries[id] < MaxAttempts
  /\ entries' = [entries EXCEPT ![id] = @ + 1]
  /\ appendEntry(Record(id, "pending", entries[id] + 1))
  /\ UNCHANGED <<compact, tmp, running>>

\* The map is bumped before the write is tried.
IncrementAttemptsErr(id) ==
  /\ Idle
  /\ entries[id] # 0 /\ entries[id] < MaxAttempts
  /\ entries' = [entries EXCEPT ![id] = @ + 1]
  /\ appendFails(Record(id, "pending", entries[id] + 1))
  /\ UNCHANGED <<compact, tmp, running>>

\* bufio.Writer.Flush.
flushAll ==
  /\ ~writerErr
  /\ handle = "open"
  /\ file' = file \o buffer
  /\ frag' = IF buffer = <<>> THEN frag ELSE NoFrag
  /\ buffer' = <<>>
  /\ UNCHANGED <<writerErr, glued>>

Flush ==
  /\ Idle
  /\ flushAll
  /\ UNCHANGED <<entries, handle, compact, tmp, running>>

FlushErr ==
  /\ Idle
  /\ buffer # <<>> \/ writerErr
  /\ writeFails(buffer)
  /\ UNCHANGED <<entries, compact, tmp, running>>

\* Close: flush, sync and close the file; the WAL is not used after it.
Close ==
  /\ Idle
  /\ flushAll
  /\ handle' = "closed" /\ running' = FALSE
  /\ entries' = [id \in Id |-> 0]
  /\ UNCHANGED <<compact, tmp>>

-----------------------------------------------------------------------------
\* Faulty variant: entries that have been retried are not written.
MutFreshLines == {Record(id, "pending", entries[id]) :
                    id \in {x \in Id : entries[x] = 1}}

\* Compact.  Map iteration writes the pending entries in some order.
PendingLines == {Record(id, "pending", entries[id]) :
                   id \in {x \in Id : entries[x] # 0}}

Listings(S) == Bijection(1 .. Cardinality(S), S)

\* Faulty variant: the log itself is truncated and rewritten.
MutCompactInPlace ==
  /\ Idle
  /\ handle = "open"
  /\ tmp' \in Listings(PendingLines)
  /\ file' = <<>> /\ frag' = NoFrag
  /\ compact' = "tmp"
  /\ UNCHANGED <<entries, buffer, writerErr, handle, running, glued>>

\* The ticker calls Compact when Stat succeeds and reports a large file.  A
\* temporary file left behind is never read and is truncated by the next call,
\* so a failure up to its Close changes nothing.
CompactWriteTmp ==
  /\ Idle
  /\ handle = "open"
  /\ tmp' \in Listings(PendingLines)
  /\ compact' = "tmp"
  /\ UNCHANGED <<entries, file, frag, buffer, writerErr, handle, running,
                 glued>>

\* Faulty variant: the old file is closed without flushing the writer.
MutCompactNoFlush ==
  /\ compact = "tmp"
  /\ ~writerErr /\ handle = "open"
  /\ handle' = "closed"
  /\ compact' = "flushed"
  /\ UNCHANGED <<entries, file, frag, buffer, writerErr, tmp, running, glued>>

CompactFlush ==
  /\ compact = "tmp"
  /\ flushAll
  /\ handle' = "closed"
  /\ compact' = "flushed"
  /\ UNCHANGED <<entries, tmp, running>>

CompactFlushErr ==
  /\ compact = "tmp"
  /\ buffer # <<>> \/ writerErr
  /\ writeFails(buffer)
  /\ compact' = "idle" /\ tmp' = <<>>
  /\ UNCHANGED <<entries, running>>

CompactRename ==
  /\ compact = "flushed"
  /\ file' = tmp
  /\ frag' = NoFrag
  /\ tmp' = <<>>
  /\ glued' = FALSE
  /\ compact' = "renamed"
  /\ UNCHANGED <<entries, buffer, writerErr, handle, running>>

\* A failed Close of the old file, rename or reopen returns with w.file closed.
CompactAbandon ==
  /\ compact \in {"flushed", "renamed"}
  /\ WriteErrors
  /\ compact' = "idle" /\ tmp' = <<>>
  /\ UNCHANGED <<entries, file, frag, buffer, writerErr, handle, running,
                 glued>>

CompactReopen ==
  /\ compact = "renamed"
  /\ handle' = "open"
  /\ buffer' = <<>>
  /\ writerErr' = FALSE
  /\ compact' = "idle"
  /\ UNCHANGED <<entries, file, frag, tmp, running, glued>>

CompactStep ==
  \/ CompactWriteTmp \/ CompactFlush \/ CompactFlushErr
  \/ CompactRename \/ CompactAbandon \/ CompactReopen

\* The process dies: the map and the writer's buffer are gone.
Crash ==
  /\ running
  /\ running' = FALSE
  /\ entries' = [id \in Id |-> 0]
  /\ buffer' = <<>> /\ writerErr' = FALSE /\ handle' = "closed"
  /\ compact' = "idle" /\ tmp' = <<>> /\ glued' = FALSE
  /\ UNCHANGED <<file, frag>>

Call(id) ==
  \/ WALAppend(id) \/ AppendErr(id)
  \/ Complete(id) \/ RemoveErr(id, "complete")
  \/ MarkDLQ(id) \/ RemoveErr(id, "dlq")
  \/ IncrementAttempts(id) \/ IncrementAttemptsErr(id)

WALNext ==
  \/ NewWAL
  \/ \E id \in Id : Call(id)
  \/ Flush \/ FlushErr \/ Close
  \/ CompactStep
  \/ Crash

WALSpec == WALInit /\ [][WALNext]_walVars

-----------------------------------------------------------------------------
\* The variables keep their types.
WALTypeOK ==
  /\ entries \in [Id -> Nat]
  /\ file \in Seq(Line) /\ buffer \in Seq(Line) /\ tmp \in Seq(Line)
  /\ frag \in Seq(Line) /\ Len(frag) <= 1
  /\ writerErr \in BOOLEAN /\ running \in BOOLEAN /\ glued \in BOOLEAN
  /\ handle \in {"open", "closed"}
  /\ compact \in {"idle", "tmp", "flushed", "renamed"}

\* The lines a scan would read once everything buffered is in the file.
Written == IF buffer = <<>> THEN OnDisk ELSE file \o buffer

\* While the process is up and no write has failed, the map is exactly what
\* recover would rebuild from the bytes written so far (wal.go: each method
\* changes the map and the log together), unless a record was appended to a
\* fragment that a crash had left behind.
MemoryIsLog ==
  (running /\ ~writerErr /\ ~glued) => entries = Replay(Written)

\* Compact runs with the mutex held.  Once it has closed the old file nothing
\* is buffered, and the temporary file lists the entries of the map.
Compacting ==
  /\ compact # "idle" => running
  /\ compact \in {"tmp", "flushed"} => tmp \in Listings(PendingLines)
  /\ compact \in {"flushed", "renamed"} => buffer = <<>> /\ ~writerErr

\* Between closing the old file and the end of Compact a crash recovers the
\* map Compact started from, whichever of the two files it finds.
CompactionCrashSafe ==
  (compact \in {"flushed", "renamed"} /\ ~glued) => Replay(OnDisk) = entries

\* After a call whose bytes have all reached the file, a crash loses nothing:
\* recover rebuilds the map ("It supports recovery by replaying the log on
\* startup", wal.go).
FlushedSurvivesCrash ==
  (running /\ ~writerErr /\ buffer = <<>>) => Replay(OnDisk) = entries

\* The closed form Replay agrees with the loop in recover on every log the
\* system can write, including one whose last line is a fragment.
ReplayIsScan == Replay(OnDisk) = Scan(OnDisk)

\* The contents of the map from the one on disk to the current one.
History ==
  LET out == IF frag = <<>> THEN 0 ELSE IF frag[1] = buffer[1] THEN 1 ELSE 0
  IN  IF buffer = <<>> THEN <<Replay(OnDisk)>>
      ELSE [k \in 1 .. Len(buffer) + 1 - out |->
              Replay(file \o SubSeq(buffer, 1, k - 1 + out))]

Durable == INSTANCE DurableMap
             WITH Key <- Id, map <- entries, hist <- History, up <- running

\* As long as flushes end at line boundaries and system calls succeed, the log
\* is a map whose updates harden in order: a crash, also one inside Compact,
\* undoes a suffix of the updates and nothing else.
ImplementsDurableMap == Durable!DSpec
=============================================================================
