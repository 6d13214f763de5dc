----------------------------- MODULE DurableMap -----------------------------
(***************************************************************************)
(* What a write-ahead log promises the router: a map whose updates become  *)
(* durable in the order they were made.  "hist" holds the successive       *)
(* contents of the map from the one that is on disk to the current one; a  *)
(* crash takes the map back to the first of them.                          *)
(***************************************************************************)
EXTENDS Integers, Sequences

CONSTANT Key

VARIABLES map, hist, up

dvars == <<map, hist, up>>

EmptyMap == [k \in Key |-> 0]

Suffixes(s) == {SubSeq(s, i, Len(s)) : i \in 1 .. Len(s)}

DInit == map = EmptyMap /\ hist = <<EmptyMap>> /\ up = FALSE

\* An update; some of the oldest updates may become durable meanwhile.
Update(k, n) ==
  /\ up
  /\ map' = [map EXCEPT ![k] = n]
  /\ hist' \in Suffixes(Append(hist, map'))
  /\ UNCHANGED up

Harden == up /\ hist' \in Suffixes(hist) /\ UNCHANGED <<map, up>>

Fail == up /\ up' = FALSE /\ map' = EmptyMap /\ hist' = <<hist[1]>>

Stop == up /\ up' = FALSE /\ map' = EmptyMap /\ hist' = <<hist[Len(hist)]>>

Restart == ~up /\ up' = TRUE /\ map' = hist[1] /\ UNCHANGED hist

DNext ==
  \/ \E k \in Key : \E n \in {0, 1, map[k] + 1} : Update(k, n)
  \/ Harden
  \/ Fail
  \/ Stop
  \/ Restart

DSpec == DInit /\ [][DNext]_dvars
=============================================================================
