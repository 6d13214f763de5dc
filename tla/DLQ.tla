-------------------------------- MODULE DLQ --------------------------------
(***************************************************************************)
(* internal/ipcbus/dlq.go: the dead letter queue.  Every method is one     *)
(* BoltDB transaction.  An entry is dated with the text RFC3339Nano gives  *)
(* the current time, and evictOldest compares those texts; the format      *)
(* drops trailing zeros of the fraction, so the text is modelled too: a    *)
(* time has two fractional digits in base "Base" here, nine in base ten    *)
(* there.                                                                  *)
(***************************************************************************)
EXTENDS Integers, Sequences, FiniteSets

CONSTANTS Id,       \* message IDs, the keys
          MaxSize,  \* d.maxSize
          TTL,      \* d.ttl
          Base,     \* values of a fractional digit
          MaxTime   \* bound on the clock

ASSUME DLQAssumption ==
  /\ MaxSize \in Nat \ {0} /\ TTL \in Nat /\ MaxTime \in Nat
  /\ Base \in Nat \ {0, 1}

VARIABLES store,   \* the creation time of each entry, a function on its keys
          now,
          call     \* the latest call

dlqVars == <<store, now, call>>

-----------------------------------------------------------------------------
\* CreatedAt as text: the date and time to the second (fixed width, one symbol
\* here), then the fraction without its trailing zeros, then "Z".  In ASCII the
\* point sorts before the digits and the digits before Z.
Dot == -1
Zulu == Base

CreatedAt(t) ==
  LET sec == t \div (Base * Base)
      d1 == (t \div Base) % Base
      d2 == t % Base
  IN  <<sec>> \o (CASE d1 = 0 /\ d2 = 0 -> <<Zulu>>
                    [] d2 = 0 -> <<Dot, d1, Zulu>>
                    [] OTHER -> <<Dot, d1, d2, Zulu>>)

\* Go's < on strings.
TextLess(s, t) ==
  \E i \in 1 .. Len(s) :
    /\ i <= Len(t)
    /\ \A j \in 1 .. i - 1 : s[j] = t[j]
    /\ s[i] < t[i]

Without(f, S) == [k \in DOMAIN f \ S |-> f[k]]
With(f, k, v) == [x \in DOMAIN f \cup {k} |-> IF x = k THEN v ELSE f[x]]

\* The keys evictOldest may delete: no other entry's text is smaller.
Oldest(f) == {k \in DOMAIN f : \A j \in DOMAIN f :
                 ~TextLess(CreatedAt(f[j]), CreatedAt(f[k]))}

-----------------------------------------------------------------------------
DLQInit == store = [k \in {} |-> 0] /\ now = 0 /\ call = "new"

\* Faulty variant: room is made one entry too late.
MutPutOneMore(id) ==
  /\ IF Cardinality(DOMAIN store) > MaxSize
       THEN \E k \in Oldest(store) : store' = With(Without(store, {k}), id, now)
       ELSE store' = With(store, id, now)
  /\ call' = "put" /\ UNCHANGED now

\* At capacity an entry is evicted, also when the key is already there.
Put(id) ==
  /\ IF Cardinality(DOMAIN store) >= MaxSize
       THEN \E k \in Oldest(store) : store' = With(Without(store, {k}), id, now)
       ELSE store' = With(store, id, now)
  /\ call' = "put" /\ UNCHANGED now

Delete(id) ==
  /\ store' = Without(store, {id})
  /\ call' = "delete" /\ UNCHANGED now

\* Faulty variant: an entry goes when it reaches its TTL.
MutPurgeEarly ==
  /\ store' = Without(store, {k \in DOMAIN store : store[k] <= now - TTL})
  /\ call' = "purge" /\ UNCHANGED now

\* The cut-off is compared as a time, parsed back from the text.
PurgeExpired ==
  /\ store' = Without(store, {k \in DOMAIN store : store[k] < now - TTL})
  /\ call' = "purge" /\ UNCHANGED now

Tick == now < MaxTime /\ now' = now + 1 /\ UNCHANGED <<store, call>>

DLQNext ==
  \/ \E id \in Id : Put(id) \/ Delete(id)
  \/ PurgeExpired
  \/ Tick

DLQSpec == DLQInit /\ [][DLQNext]_dlqVars

-----------------------------------------------------------------------------
\* The variables keep their types.
DLQTypeOK ==
  /\ DOMAIN store \subseteq Id
  /\ \A k \in DOMAIN store : store[k] \in 0 .. now
  /\ now \in 0 .. MaxTime
  /\ call \in {"new", "put", "delete", "purge"}

\* Put makes room before it stores, so the queue never outgrows its capacity.
SizeBounded == Cardinality(DOMAIN store) <= MaxSize

\* A dead letter that nobody deletes disappears only in a purge after its TTL or
\* when a Put finds the queue full, and a Put takes at most one.
DroppedForAReason ==
  [][LET dropped == DOMAIN store \ DOMAIN store' IN
     \/ dropped = {} \/ call' = "delete"
     \/ call' = "purge" /\ \A k \in dropped : store[k] < now - TTL
     \/ /\ call' = "put" /\ Cardinality(dropped) = 1
        /\ Cardinality(DOMAIN store) = MaxSize]_dlqVars
=============================================================================
