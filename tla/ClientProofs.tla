---------------------------- MODULE ClientProofs ----------------------------
(***************************************************************************)
(* Proofs about ChannelClient for every set of messages, buffer capacity,  *)
(* number of dials and bounds on the environment.                          *)
(*                                                                         *)
(* OnePlace counts; its inductive form, Ledger, speaks of sets instead.    *)
(* It also needs to know that a reconnect loop starts from an empty replay *)
(* (LoopDrain overwrites it), which rests on c.reconnecting keeping a      *)
(* second loop out.  The same ledger yields the refinement of Outbox.      *)
(*                                                                         *)
(* PanicsOnlyAfterLoss needs the whole life of the first connection: what  *)
(* is on its way to the reader, and what the reader will do to the         *)
(* throttle channel when it gets there.                                    *)
(***************************************************************************)
EXTENDS ChannelClient, FiniteSetTheorems, SequenceTheorems, TLAPS

SendSteps == {"idle", "wait", "pick", "push", "write", "mark", "rebuf",
              "retry", "nil", "err"}
Taken(m) == send[m] \in {"retry", "nil"}

Distinct(s) == \A i, j \in DOMAIN s : s[i] = s[j] => i = j

LedgerType ==
  /\ buf \in Seq(Msgs) /\ replay \in Seq(Msgs) /\ dropped \subseteq Msgs
  /\ written \in [Msgs -> 0 .. 1] /\ send \in [Msgs -> SendSteps]

\* One reconnect loop at a time, and nothing in its hands before it drains.
OneLoop ==
  /\ ~reconnecting => loop = "off"
  /\ loop # "replay" => replay = <<>>

\* A message Send has taken is in one of the four places and in no two.
Ledger ==
  /\ Distinct(buf) /\ Distinct(replay)
  /\ Elements(buf) \cap Elements(replay) = {}
  /\ (Elements(buf) \cup Elements(replay)) \cap dropped = {}
  /\ \A m \in Msgs :
       /\ Taken(m) <=> written[m] = 1 \/ m \in Elements(buf)
                       \/ m \in Elements(replay) \/ m \in dropped
       /\ written[m] = 1 => m \notin Elements(buf) \cup Elements(replay) \cup dropped

LedgerInv == LedgerType /\ OneLoop /\ Ledger


-----------------------------------------------------------------------------
(* Sequences without repetition.                                            *)

\* Adding at one end of a sequence and at the other.
LEMMA BothEnds ==
  ASSUME NEW S, NEW w \in Seq(S), NEW g \in S, NEW k \in S
  PROVE  /\ Append(w, k) \in Seq(S) /\ <<g>> \o w \in Seq(S)
         /\ <<g>> \o Append(w, k) = Append(<<g>> \o w, k)
<1>1. Append(w, k) \in Seq(S) /\ <<g>> \in Seq(S)
  OBVIOUS
<1>2. <<g>> \o w \in Seq(S)
  BY <1>1
<1>3. <<g>> \o Append(w, k) = Append(<<g>> \o w, k)
  BY <1>1, <1>2
<1> QED
  BY <1>1, <1>2, <1>3, Zenon

LEMMA Nothing == <<>> \in Seq(Msgs) /\ Elements(<<>>) = {} /\ Distinct(<<>>)
BY DEF Elements, Distinct

LEMMA Appended ==
  ASSUME NEW s \in Seq(Msgs), NEW m \in Msgs
  PROVE  /\ Append(s, m) \in Seq(Msgs)
         /\ Elements(Append(s, m)) = Elements(s) \cup {m}
         /\ Distinct(s) /\ m \notin Elements(s) => Distinct(Append(s, m))
<1> DEFINE t == Append(s, m)
           n == Len(s) + 1
<1>1. /\ t \in Seq(Msgs) /\ DOMAIN t = 1 .. n /\ DOMAIN s = 1 .. n - 1 /\ n \in Nat \ {0}
      /\ t[n] = m /\ \A i \in 1 .. n - 1 : t[i] = s[i]
  OBVIOUS
<1> HIDE DEF t, n
<1>2. DOMAIN t = DOMAIN s \cup {n}
  BY <1>1
<1>3. Elements(t) = Elements(s) \cup {m}
  BY <1>1, <1>2 DEF Elements
<1>4. ASSUME Distinct(s), m \notin Elements(s) PROVE Distinct(t)
  BY <1>1, <1>2, <1>4 DEF Distinct, Elements
<1> QED
  BY <1>1, <1>3, <1>4 DEF t

LEMMA Split ==
  ASSUME NEW s \in Seq(Msgs), s # <<>>
  PROVE  /\ Head(s) \in Msgs /\ Tail(s) \in Seq(Msgs)
         /\ Elements(s) = {Head(s)} \cup Elements(Tail(s))
         /\ Distinct(s) => Distinct(Tail(s)) /\ Head(s) \notin Elements(Tail(s))
<1> DEFINE t == Tail(s)
           n == Len(s)
<1>1. /\ t \in Seq(Msgs) /\ DOMAIN s = 1 .. n /\ DOMAIN t = 1 .. n - 1 /\ n \in Nat \ {0}
      /\ Head(s) = s[1] /\ Head(s) \in Msgs /\ \A i \in 1 .. n - 1 : t[i] = s[i + 1]
  OBVIOUS
<1> HIDE DEF t, n
<1>2. \A i \in 1 .. n : i = 1 \/ (i - 1 \in 1 .. n - 1 /\ t[i - 1] = s[i])
  BY <1>1
<1>3. Elements(s) = {Head(s)} \cup Elements(t)
  <2>1. ASSUME NEW x \in Elements(s) PROVE x \in {Head(s)} \cup Elements(t)
    <3>1. PICK i \in 1 .. n : x = s[i]
      BY <1>1, <2>1 DEF Elements
    <3>2. CASE i = 1
      BY <1>1, <3>1, <3>2
    <3>3. CASE i - 1 \in 1 .. n - 1 /\ t[i - 1] = s[i]
      BY <1>1, <3>1, <3>3, Zenon DEF Elements
    <3> QED
      BY <1>2, <3>2, <3>3, Zenon
  <2>2. ASSUME NEW x \in {Head(s)} \cup Elements(t) PROVE x \in Elements(s)
    <3>1. 1 \in 1 .. n /\ \A i \in 1 .. n - 1 : i + 1 \in 1 .. n
      BY <1>1
    <3>2. CASE x = Head(s)
      BY <1>1, <3>1, <3>2, Zenon DEF Elements
    <3>3. CASE x \in Elements(t)
      BY <1>1, <3>1, <3>3, Zenon DEF Elements
    <3> QED
      BY <2>2, <3>2, <3>3, Zenon
  <2> QED
    BY <2>1, <2>2
<1>4. ASSUME Distinct(s) PROVE Distinct(t) /\ Head(s) \notin Elements(t)
  <2>1. \A i \in 1 .. n - 1 : i + 1 \in 1 .. n /\ i + 1 # 1 /\ t[i] = s[i + 1]
    BY <1>1
  <2>2. Distinct(t)
    <3> SUFFICES ASSUME NEW i \in 1 .. n - 1, NEW j \in 1 .. n - 1, t[i] = t[j]
                 PROVE  i = j
      BY <1>1, Zenon DEF Distinct
    <3>1. i + 1 = j + 1
      <4>1. /\ s[i + 1] = s[j + 1] /\ i + 1 \in DOMAIN s /\ j + 1 \in DOMAIN s
        BY <1>1, <2>1
      <4> QED
        BY <1>4, <4>1, Zenon DEF Distinct
    <3> QED
      BY <1>1, <3>1
  <2>3. ASSUME NEW i \in 1 .. n - 1 PROVE t[i] # s[1]
    <3>1. 1 \in 1 .. n /\ i + 1 \in 1 .. n /\ i + 1 # 1
      BY <1>1
    <3>2. s[i + 1] # s[1]
      BY <1>1, <1>4, <3>1, Zenon DEF Distinct
    <3> QED
      BY <1>1, <3>2, Zenon
  <2> QED
    BY <1>1, <2>2, <2>3, Zenon DEF Elements
<1> QED
  BY <1>1, <1>3, <1>4, Zenon DEF t

-----------------------------------------------------------------------------
(* Every step keeps the ledger.                                             *)

ledgerVars == <<buf, replay, dropped, written, send, reconnecting, loop>>

LEMMA LedgerSame ==
  ASSUME LedgerInv, UNCHANGED ledgerVars
  PROVE  LedgerInv'
<1>1. UNCHANGED <<buf, replay, dropped, written, send, reconnecting, loop>>
  BY Zenon DEF ledgerVars
<1>2. LedgerType' /\ OneLoop'
  BY <1>1, Zenon DEF LedgerInv, LedgerType, OneLoop
<1>3. Ledger'
  BY <1>1, Zenon DEF LedgerInv, Ledger, Taken
<1> QED
  BY <1>2, <1>3, Zenon DEF LedgerInv

LEMMA InitLedger == ClientInit => LedgerInv
<1> SUFFICES ASSUME ClientInit PROVE LedgerInv
  BY Zenon
<1>1. LedgerType
  BY Nothing DEF ClientInit, LedgerType, SendSteps
<1>2. OneLoop
  BY Zenon DEF ClientInit, OneLoop
<1>3. Ledger
  BY Nothing DEF ClientInit, Ledger, Taken
<1> QED
  BY <1>1, <1>2, <1>3 DEF LedgerInv

LEMMA SamePlaces ==
  ASSUME Ledger, UNCHANGED <<buf, replay, dropped, written>>,
         \A x \in Msgs : Taken(x)' <=> Taken(x)
  PROVE  Ledger'
<1>1. /\ Distinct(buf') /\ Distinct(replay')
      /\ Elements(buf') = Elements(buf) /\ Elements(replay') = Elements(replay)
  BY Zenon DEF Ledger, Distinct
<1> QED
  BY <1>1, Zenon DEF Ledger

\* A call of Send that neither takes its message nor has taken it.
LEMMA CallMoves ==
  ASSUME LedgerInv, NEW m \in Msgs, NEW pc \in SendSteps \ {"retry", "nil"},
         ~Taken(m), Go(m, pc),
         UNCHANGED <<buf, replay, dropped, written, reconnecting, loop>>
  PROVE  LedgerInv'
<1>1. LedgerType' /\ OneLoop'
  BY Zenon DEF LedgerInv, LedgerType, OneLoop, Go
<1>2. \A x \in Msgs : Taken(x)' <=> Taken(x)
  BY Zenon DEF LedgerInv, LedgerType, Taken, Go
<1>3. Ledger'
  BY <1>2, SamePlaces, Zenon DEF LedgerInv
<1> QED
  BY <1>1, <1>3, Zenon DEF LedgerInv

\* It takes its message and puts it in the buffer.
LEMMA CallBuffers ==
  ASSUME LedgerInv, NEW m \in Msgs, NEW pc \in {"retry", "nil"}, ~Taken(m), Go(m, pc),
         buf' = Append(buf, m), UNCHANGED <<replay, dropped, written, reconnecting, loop>>
  PROVE  LedgerInv'
<1>1. buf \in Seq(Msgs) /\ Distinct(buf) /\ m \notin Elements(buf)
  BY Zenon DEF LedgerInv, LedgerType, Ledger
<1>2. /\ buf' \in Seq(Msgs) /\ Elements(buf') = Elements(buf) \cup {m} /\ Distinct(buf')
  BY <1>1, Appended, Zenon
<1>3. LedgerType' /\ OneLoop'
  BY <1>2, Zenon DEF LedgerInv, LedgerType, OneLoop, Go, SendSteps
<1>4. \A x \in Msgs : Taken(x)' <=> x = m \/ Taken(x)
  BY Zenon DEF LedgerInv, LedgerType, Taken, Go
<1>5. /\ Elements(replay') = Elements(replay) /\ Distinct(replay')
      /\ m \notin Elements(replay) \cup dropped /\ written[m] # 1
  BY Zenon DEF LedgerInv, Ledger, Distinct
<1>6. Ledger'
  BY <1>2, <1>4, <1>5 DEF LedgerInv, Ledger
<1> QED
  BY <1>3, <1>6, Zenon DEF LedgerInv

LEMMA CallDrops ==
  ASSUME LedgerInv, NEW m \in Msgs, NEW pc \in {"retry", "nil"}, ~Taken(m), Go(m, pc),
         dropped' = dropped \cup {m}, UNCHANGED <<buf, replay, written, reconnecting, loop>>
  PROVE  LedgerInv'
<1>1. LedgerType' /\ OneLoop'
  BY Zenon DEF LedgerInv, LedgerType, OneLoop, Go, SendSteps
<1>2. \A x \in Msgs : Taken(x)' <=> x = m \/ Taken(x)
  BY Zenon DEF LedgerInv, LedgerType, Taken, Go
<1>3. /\ m \notin Elements(buf) \cup Elements(replay) /\ written[m] # 1
      /\ Distinct(buf') /\ Distinct(replay')
      /\ Elements(buf') = Elements(buf) /\ Elements(replay') = Elements(replay)
  BY Zenon DEF LedgerInv, Ledger, Distinct
<1>4. Ledger'
  BY <1>2, <1>3, Zenon DEF LedgerInv, Ledger
<1> QED
  BY <1>1, <1>4, Zenon DEF LedgerInv

LEMMA CallWrites ==
  ASSUME LedgerInv, NEW m \in Msgs, ~Taken(m), Go(m, "nil"),
         written' = [written EXCEPT ![m] = @ + 1],
         UNCHANGED <<buf, replay, dropped, reconnecting, loop>>
  PROVE  LedgerInv'
<1>1. written[m] = 0 /\ m \notin Elements(buf) \cup Elements(replay) \cup dropped
  BY DEF LedgerInv, LedgerType, Ledger
<1>2. LedgerType' /\ OneLoop'
  BY <1>1 DEF LedgerInv, LedgerType, OneLoop, Go, SendSteps
<1>3. \A x \in Msgs : /\ Taken(x)' <=> x = m \/ Taken(x)
                      /\ written'[x] = 1 <=> x = m \/ written[x] = 1
  BY <1>1 DEF LedgerInv, LedgerType, Taken, Go
<1>4. /\ Distinct(buf') /\ Distinct(replay')
      /\ Elements(buf') = Elements(buf) /\ Elements(replay') = Elements(replay)
  BY Zenon DEF LedgerInv, Ledger, Distinct
<1>5. Ledger'
  BY <1>1, <1>3, <1>4, Zenon DEF LedgerInv, Ledger
<1> QED
  BY <1>2, <1>5, Zenon DEF LedgerInv

LEMMA SendLedger ==
  ASSUME LedgerInv, NEW m \in Msgs, Send(m)
  PROVE  LedgerInv'
<1>1. CASE SendStart(m)
  <2>1. ~Taken(m) /\ Go(m, IF throttle.on THEN "wait" ELSE "pick")
    BY <1>1, Zenon DEF SendStart, Taken
  <2>2. \E pc \in SendSteps \ {"retry", "nil"} : Go(m, pc)
    BY <2>1, Zenon DEF SendSteps
  <2> QED
    BY <1>1, <2>1, <2>2, CallMoves, Zenon DEF SendStart, loopVars, histVars
<1>2. CASE SendResumed(m) \/ SendGivesUp(m)
  <2>1. ~Taken(m) /\ \E pc \in SendSteps \ {"retry", "nil"} : Go(m, pc)
    BY <1>2, Zenon DEF SendResumed, SendGivesUp, Taken, SendSteps
  <2> QED
    BY <1>2, <2>1, CallMoves, Zenon DEF SendResumed, SendGivesUp, loopVars, histVars
<1>3. CASE SendPick(m)
  <2>1. ~Taken(m) /\ Go(m, IF conn = Nil THEN "push" ELSE "write")
    BY <1>3, Zenon DEF SendPick, Taken
  <2>2. \E pc \in SendSteps \ {"retry", "nil"} : Go(m, pc)
    BY <2>1, Zenon DEF SendSteps
  <2> QED
    BY <1>3, <2>1, <2>2, CallMoves, Zenon DEF SendPick, loopVars, histVars
<1>4. CASE SendPush(m)
  <2>1. ~Taken(m) /\ UNCHANGED <<replay, dropped, written, reconnecting, loop>>
    BY <1>4, Zenon DEF SendPush, Taken, loopVars, histVars
  <2>2. CASE Full
    <3>1. Go(m, "err") /\ "err" \in SendSteps \ {"retry", "nil"} /\ buf' = buf
      BY <1>4, <2>2, Zenon DEF SendPush, SendSteps
    <3> QED
      BY <2>1, <3>1, CallMoves, Zenon
  <2>3. CASE ~Full
    <3>1. Go(m, "nil") /\ buf' = Append(buf, m)
      BY <1>4, <2>3, Zenon DEF SendPush
    <3> QED
      BY <2>1, <3>1, CallBuffers, Zenon
  <2> QED
    BY <2>2, <2>3, Zenon
<1>5. CASE SendWrite(m)
  <2>1. ~Taken(m) /\ UNCHANGED <<buf, replay, dropped, reconnecting, loop>>
    BY <1>5, Zenon DEF SendWrite, Taken, loopVars, histVars
  <2>2. CASE Writable(held[m], m)
    BY <1>5, <2>1, <2>2, CallWrites, Zenon DEF SendWrite
  <2>3. CASE ~Writable(held[m], m)
    <3>1. Go(m, "mark") /\ "mark" \in SendSteps \ {"retry", "nil"} /\ UNCHANGED written
      BY <1>5, <2>3, Zenon DEF SendWrite, SendSteps
    <3> QED
      BY <2>1, <3>1, CallMoves, Zenon
  <2> QED
    BY <2>2, <2>3, Zenon
<1>6. CASE SendMark(m)
  <2>1. ~Taken(m) /\ Go(m, "rebuf") /\ "rebuf" \in SendSteps \ {"retry", "nil"}
    BY <1>6, Zenon DEF SendMark, Taken, SendSteps
  <2> QED
    BY <1>6, <2>1, CallMoves, Zenon DEF SendMark, loopVars, histVars
<1>7. CASE SendRebuffer(m)
  <2>1. ~Taken(m) /\ Go(m, "retry") /\ UNCHANGED <<replay, written, reconnecting, loop>>
    BY <1>7, Zenon DEF SendRebuffer, Taken, loopVars
  <2>2. CASE Full
    BY <1>7, <2>1, <2>2, CallDrops, Zenon DEF SendRebuffer, PushOrDrop
  <2>3. CASE ~Full
    BY <1>7, <2>1, <2>3, CallBuffers, Zenon DEF SendRebuffer, PushOrDrop
  <2> QED
    BY <2>2, <2>3
<1>8. CASE SendRetry(m)
  <2>1. \A x \in Msgs : Taken(x)' <=> Taken(x)
    BY <1>8, Zenon DEF SendRetry, LedgerInv, LedgerType, Taken, Go
  <2>2. LedgerType' /\ OneLoop'
    BY <1>8, Zenon DEF SendRetry, tryReconnect, histVars, LedgerInv, LedgerType, OneLoop, Go,
       SendSteps
  <2>3. UNCHANGED <<buf, replay, dropped, written>>
    BY <1>8, Zenon DEF SendRetry, tryReconnect, histVars
  <2>4. Ledger'
    BY <2>1, <2>3, SamePlaces, Zenon DEF LedgerInv
  <2> QED
    BY <2>2, <2>4, Zenon DEF LedgerInv
<1> QED
  BY <1>1, <1>2, <1>3, <1>4, <1>5, <1>6, <1>7, <1>8, Zenon DEF Send

LEMMA LoopLedger ==
  ASSUME LedgerInv, ReconnectLoop
  PROVE  LedgerInv'
<1>1. CASE LoopDone \/ LoopDial \/ LoopSpawn \/ LoopExit
  <2>1. UNCHANGED <<buf, replay, dropped, written, send>>
    BY <1>1, Zenon DEF LoopDone, LoopDial, LoopSpawn, LoopExit, histVars, sendVars
  <2>2. OneLoop'
    BY <1>1, Zenon DEF LedgerInv, OneLoop, LoopDone, LoopDial, LoopSpawn, LoopExit
  <2>3. LedgerType'
    BY <2>1, Zenon DEF LedgerInv, LedgerType
  <2>4. Ledger'
    BY <2>1, SamePlaces, Zenon DEF LedgerInv, Taken
  <2> QED
    BY <2>2, <2>3, <2>4 DEF LedgerInv
<1>2. CASE LoopDrain
  <2>1. /\ replay' = buf /\ buf' = <<>> /\ replay = <<>>
        /\ UNCHANGED <<dropped, written, send, reconnecting>>
        /\ loop = "drain" /\ loop' = "replay"
    BY <1>2, Zenon DEF LoopDrain, histVars, sendVars, LedgerInv, OneLoop
  <2>2. LedgerType' /\ OneLoop'
    BY <2>1, Nothing, Zenon DEF LedgerInv, LedgerType, OneLoop
  <2>3. /\ Distinct(buf') /\ Distinct(replay') /\ Elements(buf') = {}
        /\ Elements(replay') = Elements(buf) /\ Elements(replay) = {}
    BY <2>1, Nothing, Zenon DEF LedgerInv, Ledger
  <2>4. Ledger'
    BY <2>1, <2>3, Zenon DEF LedgerInv, Ledger, Taken
  <2> QED
    BY <2>2, <2>4, Zenon DEF LedgerInv
<1>3. CASE LoopReplay
  <2> DEFINE m == Head(replay)
             rest == Tail(replay)
  <2>1. /\ m \in Msgs /\ rest \in Seq(Msgs) /\ Distinct(rest)
        /\ Elements(replay) = {m} \cup Elements(rest) /\ m \notin Elements(rest)
    BY <1>3, Split, Zenon DEF LoopReplay, LedgerInv, LedgerType, Ledger
  <2>2. /\ UNCHANGED <<send, reconnecting, loop>> /\ loop = "replay"
        /\ m \notin Elements(buf) \cup dropped /\ written[m] = 0 /\ Taken(m)
        /\ Elements(rest) \subseteq Msgs /\ buf \in Seq(Msgs) /\ Distinct(buf)
    <3>1. UNCHANGED <<send, reconnecting, loop>> /\ loop = "replay"
      BY <1>3, Zenon DEF LoopReplay, sendVars
    <3>2. m \notin Elements(buf) \cup dropped /\ written[m] = 0 /\ Taken(m)
      BY <2>1 DEF LedgerInv, LedgerType, Ledger
    <3>3. Elements(rest) \subseteq Msgs /\ buf \in Seq(Msgs) /\ Distinct(buf)
      BY <2>1 DEF LedgerInv, LedgerType, Ledger, Elements
    <3> HIDE DEF m, rest
    <3> QED
      BY <3>1, <3>2, <3>3, Zenon
  <2>3. OneLoop'
    BY <2>2, Zenon DEF LedgerInv, OneLoop
  <2> HIDE DEF m, rest
  <2>4. CASE /\ written' = [written EXCEPT ![m] = @ + 1] /\ replay' = rest
             /\ UNCHANGED <<buf, dropped>>
    <3>1. LedgerType'
      BY <2>1, <2>2, <2>4 DEF LedgerInv, LedgerType
    <3>2. \A x \in Msgs : written'[x] = 1 <=> x = m \/ written[x] = 1
      BY <2>1, <2>2, <2>4 DEF LedgerInv, LedgerType
    <3>3. Distinct(buf') /\ Elements(buf') = Elements(buf)
      BY <2>2, <2>4, Zenon
    <3>4. Ledger'
      BY <2>1, <2>2, <2>4, <3>2, <3>3, Zenon DEF LedgerInv, Ledger, Taken
    <3> QED
      BY <2>3, <3>1, <3>4 DEF LedgerInv
  <2>5. CASE /\ buf' = (IF Full THEN buf ELSE Append(buf, m))
             /\ dropped' = dropped \cup Elements(rest) \cup (IF Full THEN {m} ELSE {})
             /\ replay' = <<>> /\ UNCHANGED written
    <3>1. /\ buf' \in Seq(Msgs) /\ Distinct(buf')
          /\ Elements(buf') = Elements(buf) \cup (IF Full THEN {} ELSE {m})
      <4>1. CASE Full
        BY <2>2, <2>5, <4>1, Zenon
      <4>2. CASE ~Full
        BY <2>1, <2>2, <2>5, <4>2, Appended, Zenon
      <4> QED
        BY <4>1, <4>2, Zenon
    <3>2. LedgerType'
      BY <2>1, <2>2, <2>5, <3>1, Nothing, Zenon DEF LedgerInv, LedgerType
    <3>3. Distinct(replay') /\ Elements(replay') = {}
      BY <2>5, Nothing, Zenon
    <3>4. Ledger'
      BY <2>1, <2>2, <2>5, <3>1, <3>3 DEF LedgerInv, Ledger, Taken
    <3> QED
      BY <2>3, <3>2, <3>4 DEF LedgerInv
  <2> QED
    BY <1>3, <2>4, <2>5, Zenon DEF LoopReplay, m, rest
<1> QED
  BY <1>1, <1>2, <1>3, Zenon DEF ReconnectLoop

\* Everything else leaves the ledger alone but may ask for a reconnect loop.
LEMMA RetryLedger ==
  ASSUME LedgerInv, tryReconnect, UNCHANGED <<buf, dropped, written, send>>
  PROVE  LedgerInv'
<1>1. OneLoop' /\ UNCHANGED replay
  BY Zenon DEF tryReconnect, LedgerInv, OneLoop
<1>2. LedgerType'
  BY <1>1, Zenon DEF LedgerInv, LedgerType
<1>3. Ledger'
  BY <1>1, SamePlaces, Zenon DEF LedgerInv, Taken
<1> QED
  BY <1>1, <1>2, <1>3, Zenon DEF LedgerInv

LEMMA NextLedger == LedgerInv /\ [ClientNext]_vars => LedgerInv'
<1> SUFFICES ASSUME LedgerInv, [ClientNext]_vars PROVE LedgerInv'
  OBVIOUS
<1> USE DEF loopVars, sendVars, histVars
<1>1. CASE Connect \/ ConnectCancelled \/ Close \/ CloseConn \/ CloseInbound
  <2>1. UNCHANGED ledgerVars
    BY <1>1, Zenon DEF Connect, ConnectCancelled, Close, CloseConn, CloseInbound, ledgerVars
  <2> QED
    BY <2>1, LedgerSame
<1>2. CASE Heartbeat
  <2>1. CASE BeatTick \/ BeatWrite \/ BeatMark
    <3>1. UNCHANGED ledgerVars
      BY <2>1, Zenon DEF BeatTick, BeatWrite, BeatMark, ledgerVars
    <3> QED
      BY <3>1, LedgerSame
  <2>2. CASE BeatRetry
    BY <2>2, RetryLedger, Zenon DEF BeatRetry
  <2> QED
    BY <1>2, <2>1, <2>2, Zenon DEF Heartbeat
<1>3. ASSUME NEW r \in Conns, Reader(r) PROVE LedgerInv'
  <2>1. CASE \/ ReadTop(r) \/ ReadFrame(r) \/ ReadError(r) \/ ReadTorn(r) \/ ReadMark(r)
    <3>1. UNCHANGED ledgerVars
      BY <2>1, Zenon DEF ReadTop, ReadFrame, ReadError, ReadTorn, ReadMark, ledgerVars
    <3> QED
      BY <3>1, LedgerSame, Zenon
  <2>2. CASE ReadRetry(r)
    BY <2>2, RetryLedger, Zenon DEF ReadRetry
  <2>3. CASE HandleSlowDown(r) \/ HandleResume(r) \/ HandleShutdown(r) \/ HandleInbound(r)
    <3>1. UNCHANGED ledgerVars
      BY <2>3, Zenon DEF HandleSlowDown, HandleResume, HandleShutdown, HandleInbound, Handle,
         ledgerVars
    <3> QED
      BY <3>1, LedgerSame
  <2> QED
    BY <1>3, <2>1, <2>2, <2>3, Zenon DEF Reader
<1>4. CASE Bus
  <2>1. UNCHANGED ledgerVars
    BY <1>4, Zenon DEF Bus, BusStop, BusStart, BusDrop, BusSlowDown, BusResume, BusSend, ledgerVars
  <2> QED
    BY <2>1, LedgerSame
<1>5. CASE UNCHANGED vars
  <2>1. UNCHANGED ledgerVars
    BY <1>5, Zenon DEF vars, ledgerVars
  <2> QED
    BY <2>1, LedgerSame
<1> QED
  BY <1>1, <1>2, <1>3, <1>4, <1>5, SendLedger, LoopLedger, Zenon DEF ClientNext, ClientStep

-----------------------------------------------------------------------------
(* From sets to counts.                                                     *)

LEMMA OccursOnce ==
  ASSUME NEW s \in Seq(Msgs), Distinct(s), NEW m
  PROVE  Occurrences(m, s) = IF m \in Elements(s) THEN 1 ELSE 0
<1> DEFINE At == {i \in DOMAIN s : s[i] = m}
<1>1. CASE m \in Elements(s)
  <2>1. PICK i \in DOMAIN s : s[i] = m
    BY <1>1, Zenon DEF Elements
  <2>2. At = {i}
    BY <2>1, Zenon DEF Distinct
  <2> QED
    BY <1>1, <2>2, FS_Singleton, Zenon DEF Occurrences
<1>2. CASE m \notin Elements(s)
  <2>1. At = {}
    BY <1>2, Zenon DEF Elements
  <2> QED
    BY <1>2, <2>1, FS_EmptySet, Zenon DEF Occurrences
<1> QED
  BY <1>1, <1>2, Zenon

\* For any messages, capacity, faults and interleaving, a message Send took is
\* in exactly one place and a message it refused is in none (Send,
\* replayBuffer, buffer.push and buffer.drain).
THEOREM OnePlaceCorrect == SafetySpec => []OnePlace
<1>1. ASSUME LedgerInv PROVE OnePlace
  <2> SUFFICES ASSUME NEW m \in Msgs
               PROVE  Places(m) = IF send[m] \in {"retry", "nil"} THEN 1 ELSE 0
    BY Zenon DEF OnePlace
  <2>1. /\ Occurrences(m, buf) = IF m \in Elements(buf) THEN 1 ELSE 0
        /\ Occurrences(m, replay) = IF m \in Elements(replay) THEN 1 ELSE 0
    BY <1>1, OccursOnce, Zenon DEF LedgerInv, LedgerType, Ledger
  <2>2. written[m] \in 0 .. 1
    BY <1>1, Zenon DEF LedgerInv, LedgerType
  <2>3. /\ m \notin Elements(buf) \cap Elements(replay)
        /\ m \in Elements(buf) \cup Elements(replay) => m \notin dropped
        /\ written[m] = 1 => m \notin Elements(buf) \cup Elements(replay) \cup dropped
        /\ Taken(m) <=> written[m] = 1 \/ m \in Elements(buf)
                        \/ m \in Elements(replay) \/ m \in dropped
    BY <1>1, Zenon DEF LedgerInv, Ledger
  <2> QED
    BY <2>1, <2>2, <2>3 DEF Places, Taken
<1>2. LedgerInv => OnePlace
  BY <1>1, Zenon
<1> QED
  BY <1>2, InitLedger, NextLedger, PTL DEF SafetySpec

-----------------------------------------------------------------------------
(* The client implements Outbox.  The ledger tells what the status of a      *)
(* message was before each step that settles it.                             *)

LEMMA SameStatus ==
  ASSUME UNCHANGED <<written, dropped, send>>
  PROVE  Status' = Status
BY Zenon DEF Status, Answer

\* One message moves, the others keep their status.
LEMMA OneMoves ==
  ASSUME NEW m \in Msgs, NEW to,
         \A x \in Msgs : Status'[x] = IF x = m THEN to ELSE Status[x],
         <<Status[m], to>> \in outbox!Moves
  PROVE  outbox!Next
<1>1. Status' = [Status EXCEPT ![m] = to]
  BY Zenon DEF Status
<1>2. outbox!Move(m, to)
  BY <1>1, Zenon DEF outbox!Move
<1>3. to \in {"open", "refused", "accepted", "written", "lost"}
  BY Zenon DEF outbox!Moves
<1> QED
  BY <1>2, <1>3, Zenon DEF outbox!Next, outbox!Call, outbox!Settle

LEMMA Untaken ==
  ASSUME LedgerInv, NEW m \in Msgs, ~Taken(m)
  PROVE  /\ Status[m] = Answer(send[m]) /\ written[m] = 0 /\ m \notin dropped
         /\ send[m] \in SendSteps
<1>1. written[m] = 0 /\ m \notin dropped /\ send[m] \in SendSteps
  BY DEF LedgerInv, LedgerType, Ledger
<1> QED
  BY <1>1 DEF Status

\* A step of Send that writes and drops nothing moves its message from one
\* answer to the next.
LEMMA AnswerMoves ==
  ASSUME LedgerInv, NEW m \in Msgs, ~Taken(m), NEW pc, Go(m, pc),
         UNCHANGED <<written, dropped>>,
         \/ Answer(pc) = Answer(send[m])
         \/ <<Answer(send[m]), Answer(pc)>> \in outbox!Moves
  PROVE  outbox!Next \/ Status' = Status
<1>1. Status[m] = Answer(send[m]) /\ written[m] = 0 /\ m \notin dropped
  BY Untaken, Zenon
<1>2. \A x \in Msgs : send'[x] = IF x = m THEN pc ELSE send[x]
  BY Zenon DEF LedgerInv, LedgerType, Go
<1>3. \A x \in Msgs : Status'[x] = IF x = m THEN Answer(pc) ELSE Status[x]
  BY <1>1, <1>2 DEF Status
<1>4. CASE Answer(pc) = Answer(send[m])
  <2>1. \A x \in Msgs : Status'[x] = Status[x]
    BY <1>1, <1>3, <1>4, Zenon
  <2> QED
    BY <2>1, Zenon DEF Status
<1>5. CASE <<Answer(send[m]), Answer(pc)>> \in outbox!Moves
  BY <1>1, <1>3, <1>5, OneMoves, Zenon
<1> QED
  BY <1>4, <1>5, Zenon

LEMMA SendRefines ==
  ASSUME LedgerInv, NEW m \in Msgs, Send(m)
  PROVE  outbox!Next \/ Status' = Status
<1> USE DEF histVars
<1>1. CASE SendStart(m)
  <2>1. /\ ~Taken(m) /\ send[m] = "idle" /\ UNCHANGED <<written, dropped>>
        /\ Go(m, "wait") \/ Go(m, "pick")
    BY <1>1, Zenon DEF SendStart, Taken
  <2>2. \A pc \in {"wait", "pick"} : <<Answer(send[m]), Answer(pc)>> \in outbox!Moves
    BY <2>1, Zenon DEF Answer, outbox!Moves
  <2> QED
    BY <2>1, <2>2, AnswerMoves, Zenon
<1>2. CASE SendResumed(m) \/ SendPick(m) \/ SendMark(m)
  <2>1. /\ ~Taken(m) /\ send[m] \in {"wait", "pick", "mark"} /\ UNCHANGED <<written, dropped>>
        /\ \E pc \in {"pick", "push", "write", "rebuf"} : Go(m, pc)
    BY <1>2, Zenon DEF SendResumed, SendPick, SendMark, Taken
  <2>2. \A pc \in {"pick", "push", "write", "rebuf"} : Answer(pc) = Answer(send[m])
    BY <2>1, Zenon DEF Answer
  <2> QED
    BY <2>1, <2>2, AnswerMoves, Zenon
<1>3. CASE SendGivesUp(m) \/ SendPush(m)
  <2>1. /\ ~Taken(m) /\ send[m] \in {"wait", "push"} /\ UNCHANGED <<written, dropped>>
        /\ \E pc \in {"err", "nil"} : Go(m, pc)
    BY <1>3, Zenon DEF SendGivesUp, SendPush, Taken
  <2>2. \A pc \in {"err", "nil"} : <<Answer(send[m]), Answer(pc)>> \in outbox!Moves
    BY <2>1, Zenon DEF Answer, outbox!Moves
  <2> QED
    BY <2>1, <2>2, AnswerMoves, Zenon
<1>4. CASE SendWrite(m)
  <2>1. ~Taken(m) /\ send[m] = "write" /\ UNCHANGED dropped
    BY <1>4, Zenon DEF SendWrite, Taken
  <2>2. CASE Writable(held[m], m)
    <3>1. Status[m] = "open" /\ written[m] = 0
      BY <2>1, Untaken, Zenon DEF Answer
    <3>2. written' = [written EXCEPT ![m] = @ + 1] /\ Go(m, "nil")
      BY <1>4, <2>2, Zenon DEF SendWrite
    <3>3. \A x \in Msgs : /\ x # m => written'[x] = written[x] /\ send'[x] = send[x]
                          /\ written'[m] = 1
      BY <3>1, <3>2, SMTT(30) DEF LedgerInv, LedgerType, Go
    <3>4. \A x \in Msgs : Status'[x] = IF x = m THEN "written" ELSE Status[x]
      BY <2>1, <3>3 DEF Status
    <3>5. <<Status[m], "written">> \in outbox!Moves
      BY <3>1, Zenon DEF outbox!Moves
    <3> QED
      BY <3>4, <3>5, OneMoves, Zenon
  <2>3. CASE ~Writable(held[m], m)
    <3>1. Go(m, "mark") /\ UNCHANGED <<written, dropped>> /\ Answer("mark") = Answer(send[m])
      BY <1>4, <2>1, <2>3, Zenon DEF SendWrite, Answer
    <3> QED
      BY <2>1, <3>1, AnswerMoves, Zenon
  <2> QED
    BY <2>2, <2>3, Zenon
<1>5. CASE SendRebuffer(m)
  <2>1. ~Taken(m) /\ send[m] = "rebuf" /\ UNCHANGED written /\ Go(m, "retry")
    BY <1>5, Zenon DEF SendRebuffer, Taken
  <2>2. CASE Full
    <3>1. Status[m] = "open" /\ written[m] = 0
      BY <2>1, Untaken, Zenon DEF Answer
    <3>2. dropped' = dropped \cup {m}
      BY <1>5, <2>2, Zenon DEF SendRebuffer, PushOrDrop
    <3>3. \A x \in Msgs : x # m => send'[x] = send[x]
      BY <2>1, Zenon DEF LedgerInv, LedgerType, Go
    <3>4. \A x \in Msgs : Status'[x] = IF x = m THEN "lost" ELSE Status[x]
      BY <2>1, <3>1, <3>2, <3>3, Zenon DEF Status
    <3>5. <<Status[m], "lost">> \in outbox!Moves
      BY <3>1, Zenon DEF outbox!Moves
    <3> QED
      BY <3>4, <3>5, OneMoves, Zenon
  <2>3. CASE ~Full
    <3>1. /\ UNCHANGED <<written, dropped>>
          /\ <<Answer(send[m]), Answer("retry")>> \in outbox!Moves
      BY <1>5, <2>1, <2>3, Zenon DEF SendRebuffer, PushOrDrop, Answer, outbox!Moves
    <3> QED
      BY <2>1, <3>1, AnswerMoves, Zenon
  <2> QED
    BY <2>2, <2>3, Zenon
<1>6. CASE SendRetry(m)
  <2>1. send[m] = "retry" /\ Go(m, "nil") /\ UNCHANGED <<written, dropped>>
    BY <1>6, Zenon DEF SendRetry
  <2>2. \A x \in Msgs : Answer(send'[x]) = Answer(send[x])
    BY <2>1, Zenon DEF LedgerInv, LedgerType, Go, Answer
  <2> QED
    BY <2>1, <2>2, Zenon DEF Status
<1> QED
  BY <1>1, <1>2, <1>3, <1>4, <1>5, <1>6, Zenon DEF Send

LEMMA ReplayRefines ==
  ASSUME LedgerInv, LoopReplay
  PROVE  outbox!Next
<1> DEFINE m == Head(replay)
           rest == Tail(replay)
<1>1. /\ m \in Msgs /\ Elements(replay) = {m} \cup Elements(rest)
      /\ Elements(replay) \subseteq Msgs
  <2>1. replay \in Seq(Msgs) /\ replay # <<>>
    BY Zenon DEF LoopReplay, LedgerInv, LedgerType
  <2>2. Elements(replay) \subseteq Msgs
    BY <2>1 DEF Elements
  <2> QED
    BY <2>1, <2>2, Split, Zenon
<1>2. UNCHANGED send
  BY Zenon DEF LoopReplay, sendVars
<1>3. ASSUME NEW x \in Elements(replay)
      PROVE  Status[x] = "accepted" /\ written[x] = 0 /\ x \notin dropped
  <2>1. x \in Msgs /\ Taken(x) /\ written[x] = 0 /\ x \notin dropped
    BY <1>1 DEF LedgerInv, LedgerType, Ledger
  <2> QED
    BY <2>1 DEF Status, Answer, Taken
<1> HIDE DEF m, rest
<1>4. CASE /\ written' = [written EXCEPT ![m] = @ + 1] /\ UNCHANGED dropped
  <2>1. /\ \A x \in Msgs : x # m => written'[x] = written[x]
        /\ written'[m] = 1
    BY <1>1, <1>3, <1>4, SMTT(30) DEF LedgerInv, LedgerType
  <2>2. \A x \in Msgs : Status'[x] = IF x = m THEN "written" ELSE Status[x]
    BY <1>2, <1>4, <2>1 DEF Status
  <2>3. <<Status[m], "written">> \in outbox!Moves
    BY <1>1, <1>3, Zenon DEF outbox!Moves
  <2> QED
    BY <1>1, <2>2, <2>3, OneMoves, Zenon
<1>5. CASE /\ dropped' = dropped \cup Elements(rest) \cup (IF Full THEN {m} ELSE {})
           /\ UNCHANGED written
  <2> DEFINE S == Elements(rest) \cup (IF Full THEN {m} ELSE {})
  <2>1. S \subseteq Elements(replay) /\ dropped' = dropped \cup S
    BY <1>1, <1>5, Zenon
  <2> HIDE DEF S
  <2>2. S \in SUBSET {x \in Msgs : Status[x] = "accepted"}
    BY <1>1, <1>3, <2>1, Zenon
  <2>3. \A x \in Msgs : Status'[x] = IF x \in S THEN "lost" ELSE Status[x]
    BY <1>2, <1>3, <1>5, <2>1, Zenon DEF Status
  <2>4. Status' = [x \in Msgs |-> IF x \in S THEN "lost" ELSE Status[x]]
    BY <2>3, Zenon DEF Status
  <2> QED
    BY <2>2, <2>4, Zenon DEF outbox!Next, outbox!Abandon
<1> QED
  BY <1>4, <1>5, Zenon DEF LoopReplay, m, rest

\* Whatever the goroutines, the bus and the buffer do, Send keeps the promise
\* of Outbox: a call is refused for good or accepted, and an accepted message
\* is written at most once or thrown away.
THEOREM OutboxCorrect == SafetySpec => ImplementsOutbox
<1>1. ClientInit => outbox!Init
  BY DEF ClientInit, outbox!Init, Status, Answer
<1>2. LedgerInv /\ [ClientNext]_vars => [outbox!Next]_Status
  <2> SUFFICES ASSUME LedgerInv, [ClientNext]_vars
               PROVE  outbox!Next \/ Status' = Status
    OBVIOUS
  <2> USE DEF sendVars, histVars
  <2>1. CASE Connect \/ ConnectCancelled \/ Close \/ CloseConn \/ CloseInbound
    BY <2>1, SameStatus, Zenon DEF Connect, ConnectCancelled, Close, CloseConn, CloseInbound
  <2>2. CASE Heartbeat
    BY <2>2, SameStatus, Zenon DEF Heartbeat, BeatTick, BeatWrite, BeatMark, BeatRetry
  <2>3. ASSUME NEW r \in Conns, Reader(r) PROVE Status' = Status
    <3>1. UNCHANGED <<written, dropped, send>>
      BY <2>3, Zenon DEF Reader, ReadTop, ReadFrame, ReadError, ReadTorn, ReadMark, ReadRetry,
         HandleSlowDown, HandleResume, HandleShutdown, HandleInbound, Handle
    <3> QED
      BY <3>1, SameStatus, Zenon
  <2>4. CASE ReconnectLoop
    <3>1. CASE LoopDone \/ LoopDial \/ LoopDrain \/ LoopSpawn \/ LoopExit
      BY <3>1, SameStatus, Zenon DEF LoopDone, LoopDial, LoopDrain, LoopSpawn, LoopExit
    <3> QED
      BY <2>4, <3>1, ReplayRefines, Zenon DEF ReconnectLoop
  <2>5. CASE Bus
    <3>1. UNCHANGED <<written, dropped, send>>
      BY <2>5, Zenon DEF Bus, BusStop, BusStart, BusDrop, BusSlowDown, BusResume, BusSend
    <3> QED
      BY <3>1, SameStatus, Zenon
  <2>6. CASE UNCHANGED vars
    BY <2>6, SameStatus, Zenon DEF vars
  <2> QED
    BY <2>1, <2>2, <2>3, <2>4, <2>5, <2>6, SendRefines, Zenon DEF ClientNext, ClientStep
<1> QED
  BY <1>1, <1>2, InitLedger, NextLedger, PTL DEF SafetySpec, ImplementsOutbox, outbox!Spec

-----------------------------------------------------------------------------
(* The first connection.                                                     *)

Signals == {"slow_down", "resume"}

\* What is on its way through the first connection: the message its reader
\* has in hand, then the wire.
Stream == IF got[1] = "none" THEN wire[1] ELSE <<got[1]>> \o wire[1]

\* On the wire slow_down and resume alternate, whatever comes between them.
Alternates(s) ==
  \A i, j \in DOMAIN s :
    (i < j /\ s[i] \in Signals /\ s[j] \in Signals
       /\ \A k \in DOMAIN s : i < k /\ k < j => s[k] \notin Signals)
    => s[i] # s[j]

Starts(s, kind) ==
  \E i \in DOMAIN s : s[i] = kind /\ \A k \in DOMAIN s : k < i => s[k] \notin Signals
Ends(s, kind) ==
  \E i \in DOMAIN s : s[i] = kind /\ \A k \in DOMAIN s : k > i => s[k] \notin Signals
Silent(s) == \A i \in DOMAIN s : s[i] \notin Signals

\* The client has not been closed and has not dialled a second time.
FirstLife == ~Done /\ dials <= 1

\* Until then only the first connection and its reader exist.
ReadType ==
  /\ reader \in [Conns -> {"off", "top", "read", "got", "mark", "retry"}]
  /\ reading \in [Conns -> Nat]
  /\ got \in [Conns -> Kinds \cup {"none"}] /\ wire \in [Conns -> Seq(Kinds)]

OnlyReader ==
  \A r \in Conns : /\ r # 1 \/ dials = 0 => reader[r] = "off"
                   /\ reader[r] = "read" => reading[r] = 1
                   /\ reader[r] = "got" <=> got[r] # "none"

OnlyFirst ==
  /\ conn \in {Nil, 1} /\ dials \in 0 .. MaxDials
  /\ busEnds \subseteq {1} /\ cliEnds \subseteq {1}
  /\ dials = 0 => phase # "running" /\ busEnds = {}
  /\ loop \in {"off", "wait"} /\ bus \in [up : BOOLEAN, slow : BOOLEAN]
  /\ ReadType /\ OnlyReader

\* Whenever a resume will be the next signal handled, the channel it will
\* close is open.
Throttling ==
  /\ throttle \in [on : BOOLEAN, ch : Nat] /\ closedCh \subseteq 0 .. throttle.ch
  /\ dials = 0 => closedCh = {}
  /\ 1 \in Conns =>
       /\ dials = 0 => Stream = <<>>
       /\ Alternates(Stream)
       /\ Starts(Stream, "resume") => throttle.ch \notin closedCh
       /\ 1 \in busEnds =>
            /\ Ends(Stream, "slow_down") => bus.slow
            /\ Ends(Stream, "resume") => ~bus.slow
            /\ Silent(Stream) /\ bus.slow => throttle.ch \notin closedCh

FirstInv == dials \in Nat /\ (FirstLife => OnlyFirst /\ Throttling /\ ~panicked)

-----------------------------------------------------------------------------
(* Taking a message from a stream, and adding one.                           *)

LEMMA StreamEmpty == Alternates(<<>>) /\ Silent(<<>>)
                     /\ \A kind : ~Starts(<<>>, kind) /\ ~Ends(<<>>, kind)
BY DEF Alternates, Silent, Starts, Ends

LEMMA StreamTaken ==
  ASSUME NEW w \in Seq(Kinds), NEW kind \in Kinds, Alternates(<<kind>> \o w)
  PROVE  /\ Alternates(w)
         /\ \A e \in Signals : Ends(w, e) => Ends(<<kind>> \o w, e)
         /\ kind \in Signals => Starts(<<kind>> \o w, kind) /\ ~Starts(w, kind)
         /\ kind \notin Signals =>
              /\ \A e \in Signals : Starts(w, e) => Starts(<<kind>> \o w, e)
              /\ Silent(w) => Silent(<<kind>> \o w)
         /\ kind \in Signals /\ Silent(w) => Ends(<<kind>> \o w, kind)
<1> DEFINE s == <<kind>> \o w
           n == Len(w)
<1>1. /\ n \in Nat /\ DOMAIN w = 1 .. n /\ DOMAIN s = 1 .. n + 1
      /\ s[1] = kind /\ \A i \in 1 .. n : s[i + 1] = w[i]
  OBVIOUS
<1>2. \A i \in 1 .. n + 1 : i = 1 \/ (i - 1 \in 1 .. n /\ s[i] = w[i - 1])
  <2>1. \A i \in 1 .. n + 1 : i = 1 \/ (i - 1 \in 1 .. n /\ i = (i - 1) + 1)
    BY <1>1
  <2> HIDE DEF s, n
  <2> QED
    BY <1>1, <2>1, Zenon
<1>3. Alternates(s)
  BY Zenon
<1> HIDE DEF s, n
<1>4. Alternates(w)
  <2> SUFFICES ASSUME NEW i \in 1 .. n, NEW j \in 1 .. n, i < j,
                      w[i] \in Signals, w[j] \in Signals,
                      \A k \in 1 .. n : i < k /\ k < j => w[k] \notin Signals
               PROVE  w[i] # w[j]
    BY <1>1, Zenon DEF Alternates
  <2>1. /\ i + 1 \in DOMAIN s /\ j + 1 \in DOMAIN s /\ i + 1 < j + 1
        /\ s[i + 1] = w[i] /\ s[j + 1] = w[j]
    BY <1>1
  <2>2. \A k \in DOMAIN s : i + 1 < k /\ k < j + 1 => s[k] \notin Signals
    BY <1>1, <1>2
  <2> QED
    BY <1>3, <2>1, <2>2, Zenon DEF Alternates
<1>5. ASSUME NEW e \in Signals, Ends(w, e) PROVE Ends(s, e)
  <2>1. PICK i \in 1 .. n : w[i] = e /\ \A k \in 1 .. n : k > i => w[k] \notin Signals
    BY <1>1, <1>5, Zenon DEF Ends
  <2>2. i + 1 \in DOMAIN s /\ s[i + 1] = e
    BY <1>1, <2>1
  <2>3. \A k \in DOMAIN s : k > i + 1 => s[k] \notin Signals
    <3>1. \A k \in 1 .. n + 1 : k > i + 1 => k # 1 /\ k - 1 > i
      BY <1>1
    <3> QED
      BY <1>1, <1>2, <2>1, <3>1, Zenon
  <2> QED
    BY <2>2, <2>3, Zenon DEF Ends
<1>6. ASSUME kind \in Signals PROVE Starts(s, kind) /\ ~Starts(w, kind)
  <2>1. Starts(s, kind)
    BY <1>1 DEF Starts
  <2>2. ASSUME NEW i \in 1 .. n, w[i] = kind,
               \A k \in 1 .. n : k < i => w[k] \notin Signals
        PROVE  FALSE
    <3>1. 1 \in 1 .. n + 1 /\ i + 1 \in 1 .. n + 1 /\ 1 < i + 1
      BY <1>1
    <3>2. \A k \in 1 .. n + 1 : 1 < k /\ k < i + 1 => k # 1 /\ k - 1 < i
      BY <1>1
    <3>3. \A k \in DOMAIN s : 1 < k /\ k < i + 1 => s[k] \notin Signals
      BY <1>1, <1>2, <2>2, <3>2, Zenon
    <3>4. 1 \in DOMAIN s /\ i + 1 \in DOMAIN s /\ s[1] = kind /\ s[i + 1] = kind
      BY <1>1, <2>2, <3>1, Zenon
    <3>5. s[1] # s[i + 1]
      BY <1>3, <1>6, <3>1, <3>3, <3>4, Zenon DEF Alternates
    <3> QED
      BY <3>4, <3>5, Zenon
  <2> QED
    BY <1>1, <2>1, <2>2, Zenon DEF Starts
<1>7. ASSUME kind \notin Signals, NEW e \in Signals, Starts(w, e) PROVE Starts(s, e)
  <2>1. PICK i \in 1 .. n : w[i] = e /\ \A k \in 1 .. n : k < i => w[k] \notin Signals
    BY <1>1, <1>7, Zenon DEF Starts
  <2>2. i + 1 \in DOMAIN s /\ s[i + 1] = e
    BY <1>1, <2>1
  <2>3. \A k \in DOMAIN s : k < i + 1 => s[k] \notin Signals
    <3>1. \A k \in 1 .. n + 1 : k < i + 1 /\ k # 1 => k - 1 < i
      BY <1>1
    <3> QED
      BY <1>1, <1>2, <1>7, <2>1, <3>1, Zenon
  <2> QED
    BY <2>2, <2>3, Zenon DEF Starts
<1>8. ASSUME kind \notin Signals, Silent(w) PROVE Silent(s)
  BY <1>1, <1>2, <1>8, Zenon DEF Silent
<1>9. ASSUME kind \in Signals, Silent(w) PROVE Ends(s, kind)
  <2>1. \A k \in DOMAIN s : k = 1 \/ s[k] \notin Signals
    BY <1>1, <1>2, <1>9, Zenon DEF Silent
  <2>2. 1 \in DOMAIN s /\ \A k \in DOMAIN s : k > 1 => k # 1
    BY <1>1
  <2> QED
    BY <1>1, <2>1, <2>2, Zenon DEF Ends
<1> QED
  BY <1>4, <1>5, <1>6, <1>7, <1>8, <1>9, Zenon DEF s

LEMMA StreamGrows ==
  ASSUME NEW s \in Seq(Kinds), NEW kind \in Kinds, Alternates(s),
         kind \in Signals => ~Ends(s, kind)
  PROVE  /\ Alternates(Append(s, kind))
         /\ \A e \in Signals : Starts(Append(s, kind), e) =>
              Starts(s, e) \/ (Silent(s) /\ e = kind)
         /\ kind \in Signals =>
              /\ ~Silent(Append(s, kind))
              /\ \A e \in Signals : Ends(Append(s, kind), e) => e = kind
         /\ kind \notin Signals =>
              /\ Silent(Append(s, kind)) => Silent(s)
              /\ \A e \in Signals : Ends(Append(s, kind), e) => Ends(s, e)
<1> DEFINE t == Append(s, kind)
           n == Len(s)
<1>1. /\ n \in Nat /\ DOMAIN s = 1 .. n /\ DOMAIN t = 1 .. n + 1
      /\ t[n + 1] = kind /\ \A i \in 1 .. n : t[i] = s[i]
  OBVIOUS
<1>2. \A i \in 1 .. n + 1 : i = n + 1 \/ i \in 1 .. n
  BY <1>1
<1> HIDE DEF t, n
<1>3. Alternates(t)
  <2> SUFFICES ASSUME NEW i \in 1 .. n + 1, NEW j \in 1 .. n + 1, i < j,
                      t[i] \in Signals, t[j] \in Signals,
                      \A k \in 1 .. n + 1 : i < k /\ k < j => t[k] \notin Signals
               PROVE  t[i] # t[j]
    BY <1>1, Zenon DEF Alternates
  <2>1. i \in 1 .. n
    BY <1>1, SMTT(30)
  <2>2. CASE j \in 1 .. n
    <3>1. \A k \in 1 .. n : i < k /\ k < j => s[k] \notin Signals
      BY <1>1, SMTT(30)
    <3> QED
      BY <1>1, <2>1, <2>2, <3>1, Zenon DEF Alternates
  <2>3. CASE j = n + 1
    <3>1. \A k \in 1 .. n : k > i => s[k] \notin Signals
      BY <1>1, <2>3, SMTT(30)
    <3>2. Ends(s, s[i])
      BY <1>1, <2>1, <3>1, Zenon DEF Ends
    <3> QED
      BY <1>1, <2>1, <2>3, <3>2, Zenon
  <2> QED
    BY <1>2, <2>2, <2>3, Zenon
<1>4. ASSUME NEW e \in Signals, Starts(t, e)
      PROVE  Starts(s, e) \/ (Silent(s) /\ e = kind)
  <2>1. PICK i \in 1 .. n + 1 : t[i] = e /\ \A k \in 1 .. n + 1 : k < i => t[k] \notin Signals
    BY <1>1, <1>4, Zenon DEF Starts
  <2>2. CASE i \in 1 .. n
    BY <1>1, <2>1, <2>2, SMTT(30) DEF Starts
  <2>3. CASE i = n + 1
    <3>1. \A k \in 1 .. n : s[k] \notin Signals
      BY <1>1, <2>1, <2>3
    <3> QED
      BY <1>1, <2>1, <2>3, <3>1, Zenon DEF Silent
  <2> QED
    BY <1>2, <2>2, <2>3, Zenon
<1>5. ASSUME kind \in Signals
      PROVE  ~Silent(t) /\ \A e \in Signals : Ends(t, e) => e = kind
  <2>1. n + 1 \in DOMAIN t
    BY <1>1, SMTT(30)
  <2>2. ~Silent(t)
    BY <1>1, <1>5, <2>1, Zenon DEF Silent
  <2>3. ASSUME NEW e \in Signals, Ends(t, e) PROVE e = kind
    <3>1. PICK i \in 1 .. n + 1 : t[i] = e /\ \A k \in 1 .. n + 1 : k > i => t[k] \notin Signals
      BY <1>1, <2>3, Zenon DEF Ends
    <3>2. ~(n + 1 > i)
      BY <1>1, <1>5, <2>1, <3>1, Zenon
    <3> QED
      BY <1>1, <3>1, <3>2, SMTT(30)
  <2> QED
    BY <2>2, <2>3, Zenon
<1>6. ASSUME kind \notin Signals
      PROVE  /\ Silent(t) => Silent(s)
             /\ \A e \in Signals : Ends(t, e) => Ends(s, e)
  <2>1. Silent(t) => Silent(s)
    BY <1>1, SMTT(30) DEF Silent
  <2>2. ASSUME NEW e \in Signals, Ends(t, e) PROVE Ends(s, e)
    <3>1. PICK i \in 1 .. n + 1 : t[i] = e /\ \A k \in 1 .. n + 1 : k > i => t[k] \notin Signals
      BY <1>1, <2>2, Zenon DEF Ends
    <3>2. i \in 1 .. n
      BY <1>1, <1>2, <1>6, <3>1, Zenon
    <3> QED
      BY <1>1, <3>1, <3>2, SMTT(30) DEF Ends
  <2> QED
    BY <2>1, <2>2, Zenon
<1> QED
  BY <1>3, <1>4, <1>5, <1>6, Zenon DEF t

-----------------------------------------------------------------------------
(* The first connection, step by step.                                       *)

LEMMA InitFirst == ClientInit => FirstInv
<1> SUFFICES ASSUME ClientInit PROVE FirstInv
  OBVIOUS
<1> USE DEF ClientInit
<1>1. OnlyFirst
  <2>1. <<>> \in Seq(Kinds)
    BY EmptySeq, Zenon
  <2>2. ReadType
    BY <2>1, Zenon DEF ReadType, Nil
  <2>3. OnlyReader
    BY Zenon DEF OnlyReader
  <2>4. bus \in [up : BOOLEAN, slow : BOOLEAN]
    BY Zenon
  <2>5. 0 \in 0 .. MaxDials
    BY ClientAssumption
  <2> QED
    BY <2>2, <2>3, <2>4, <2>5, Zenon DEF OnlyFirst, Nil
<1>2. 1 \in Conns => Stream = <<>>
  BY Zenon DEF Stream
<1>3. Throttling
  BY <1>2, StreamEmpty, Zenon DEF Throttling
<1> QED
  BY <1>1, <1>3, Zenon DEF FirstInv

\* Neither a second dial nor Close is ever undone.
LEMMA StaysPast ==
  ASSUME dials \in Nat, [ClientNext]_vars
  PROVE  dials' \in {dials, dials + 1} /\ (Done => Done')
<1> USE DEF connVars, endVars, Done
<1>1. CASE ReconnectLoop
  BY <1>1, Zenon DEF ReconnectLoop, LoopDone, LoopDial, LoopDrain, LoopReplay, LoopSpawn,
     LoopExit, Dialled
<1>2. CASE Heartbeat
  BY <1>2, Zenon DEF Heartbeat, BeatTick, BeatWrite, BeatMark, BeatRetry, markDisconnected
<1>3. ASSUME NEW r \in Conns, Reader(r)
      PROVE  dials' \in {dials, dials + 1} /\ (Done => Done')
  <2>1. CASE \/ ReadTop(r) \/ ReadFrame(r) \/ ReadError(r) \/ ReadTorn(r)
             \/ ReadMark(r) \/ ReadRetry(r)
    BY <2>1, Zenon DEF ReadTop, ReadFrame, ReadError, ReadTorn, ReadMark, ReadRetry,
       markDisconnected
  <2>2. CASE HandleSlowDown(r) \/ HandleResume(r) \/ HandleShutdown(r) \/ HandleInbound(r)
    BY <2>2, Zenon DEF HandleSlowDown, HandleResume, HandleShutdown, HandleInbound, Handle
  <2> QED
    BY <1>3, <2>1, <2>2, Zenon DEF Reader
<1>4. ASSUME NEW m \in Msgs, Send(m)
      PROVE  dials' \in {dials, dials + 1} /\ (Done => Done')
  BY <1>4, Zenon DEF Send, SendStart, SendResumed, SendGivesUp, SendPick, SendPush,
     SendWrite, SendMark, SendRebuffer, SendRetry, markDisconnected
<1>5. CASE Bus
  BY <1>5, Zenon DEF Bus, BusStop, BusStart, BusDrop, BusSlowDown, BusResume, BusSend
<1>6. CASE Connect \/ ConnectCancelled \/ Close \/ CloseConn \/ CloseInbound
  BY <1>6, Zenon DEF Connect, ConnectCancelled, Close, CloseConn, CloseInbound, Dialled
<1>7. CASE UNCHANGED vars
  BY <1>7, Zenon DEF vars
<1> QED
  BY <1>1, <1>2, <1>3, <1>4, <1>5, <1>6, <1>7, Zenon DEF ClientNext, ClientStep

LEMMA SameThrottling ==
  ASSUME Throttling, busEnds' \subseteq busEnds,
         UNCHANGED <<dials, throttle, closedCh, got, wire, bus>>
  PROVE  Throttling'
<1>1. Stream' = Stream
  BY Zenon DEF Stream
<1> QED
  BY <1>1, Zenon DEF Throttling

\* What the goroutines that only lose the connection may change.
LEMMA StaysFirst ==
  ASSUME OnlyFirst, Throttling, ~panicked,
         UNCHANGED <<dials, busEnds, readVars, flowVars, panicked, wire, bus>>,
         conn' \in {conn, Nil}, cliEnds' \subseteq cliEnds, loop' \in {loop, "wait"},
         phase' = phase \/ phase' # "running"
  PROVE  OnlyFirst' /\ Throttling' /\ ~panicked'
<1>1. OnlyFirst'
  BY Zenon DEF OnlyFirst, ReadType, OnlyReader, readVars
<1>2. Throttling'
  BY SameThrottling, Zenon DEF readVars, flowVars
<1> QED
  BY <1>1, <1>2, Zenon

LEMMA ConnectFirst ==
  ASSUME OnlyFirst, Throttling, ~panicked, Connect, dials' <= 1
  PROVE  OnlyFirst' /\ Throttling' /\ ~panicked'
<1>1. dials = 0 /\ dials' = 1 /\ 1 \in Conns /\ conn' = 1
  BY ClientAssumption, SMTT(30) DEF Connect, Dialled, OnlyFirst, Conns
<1>2. OnlyFirst'
  <2>1. /\ reader' = [reader EXCEPT ![1] = "top"]
        /\ UNCHANGED <<reading, got, wire, bus, loop>>
    BY <1>1 DEF Connect, loopVars, busVars
  <2>2. ReadType'
    BY <2>1, Zenon DEF OnlyFirst, ReadType
  <2>3. OnlyReader'
    BY <1>1, <2>1 DEF OnlyFirst, ReadType, OnlyReader
  <2>4. 1 \in 0 .. MaxDials
    BY <1>1, ClientAssumption DEF Conns
  <2> QED
    BY <1>1, <2>1, <2>2, <2>3, <2>4, SMTT(30) DEF OnlyFirst, Connect, Dialled
<1>3. Stream' = <<>> /\ UNCHANGED <<throttle, closedCh>> /\ closedCh = {}
  BY <1>1, Zenon DEF Connect, Stream, Throttling, busVars, flowVars
<1>4. Throttling'
  BY <1>1, <1>3, StreamEmpty, Zenon DEF Throttling
<1> QED
  BY <1>2, <1>4, Zenon DEF Connect, endVars

LEMMA LoopFirst ==
  ASSUME OnlyFirst, ~Done, ReconnectLoop, dials' <= 1
  PROVE  FALSE
<1>1. LoopDial
  BY Zenon DEF OnlyFirst, ReconnectLoop, LoopDone, LoopDrain, LoopReplay, LoopSpawn, LoopExit,
     Running
<1>2. dials # 0
  BY <1>1, Zenon DEF LoopDial, Running, OnlyFirst
<1>3. loop = "wait" => dials' = dials + 1
  BY <1>1, Zenon DEF LoopDial, Dialled
<1> QED
  BY <1>1, <1>2, <1>3, ClientAssumption DEF OnlyFirst, LoopDial

LEMMA BeatFirst ==
  ASSUME OnlyFirst, Throttling, ~panicked, Heartbeat
  PROVE  OnlyFirst' /\ Throttling' /\ ~panicked'
<1>1. /\ UNCHANGED <<dials, busEnds, readVars, flowVars, panicked, wire, bus, phase>>
      /\ conn' \in {conn, Nil} /\ cliEnds' \subseteq cliEnds /\ loop' \in {loop, "wait"}
  BY Zenon DEF Heartbeat, BeatTick, BeatWrite, BeatMark, BeatRetry, markDisconnected,
     tryReconnect, connVars, loopVars, endVars, busVars
<1> QED
  BY <1>1, StaysFirst, Zenon

LEMMA SendFirst ==
  ASSUME OnlyFirst, Throttling, ~panicked, NEW m \in Msgs, Send(m)
  PROVE  OnlyFirst' /\ Throttling' /\ ~panicked'
<1>1. /\ UNCHANGED <<dials, busEnds, readVars, flowVars, panicked, wire, bus, phase>>
      /\ conn' \in {conn, Nil} /\ cliEnds' \subseteq cliEnds /\ loop' \in {loop, "wait"}
  BY Zenon DEF Send, SendStart, SendResumed, SendGivesUp, SendPick, SendPush, SendWrite,
     SendMark, SendRebuffer, SendRetry, markDisconnected, tryReconnect, connVars,
     loopVars, endVars, busVars
<1> QED
  BY <1>1, StaysFirst, Zenon

LEMMA ReadFirst ==
  ASSUME OnlyFirst, Throttling, ~panicked, ~Done, NEW r \in Conns,
         \/ ReadTop(r) \/ ReadFrame(r) \/ ReadError(r) \/ ReadTorn(r)
         \/ ReadMark(r) \/ ReadRetry(r)
  PROVE  OnlyFirst' /\ Throttling' /\ ~panicked'
<1> USE DEF connVars, loopVars, flowVars, endVars, busVars
<1>1. CASE ReadTop(r) \/ ReadError(r) \/ ReadMark(r) \/ ReadRetry(r)
  <2>1. /\ UNCHANGED <<dials, busEnds, got, throttle, closedCh, panicked, wire, bus, phase>>
        /\ conn' \in {conn, Nil} /\ cliEnds' \subseteq cliEnds /\ loop' \in {loop, "wait"}
    BY <1>1, Zenon DEF ReadTop, ReadError, ReadMark, ReadRetry, markDisconnected, tryReconnect
  <2>2. Throttling'
    BY <2>1, SameThrottling, Zenon
  <2>3. reader[r] \notin {"off", "got"}
    BY <1>1, ZenonT(30) DEF ReadTop, ReadError, ReadMark, ReadRetry
  <2>4. PICK pc \in {"off", "read", "mark", "retry"} :
          /\ reader' = [reader EXCEPT ![r] = pc]
          /\ \/ pc = "read" /\ reading' = [reading EXCEPT ![r] = 1]
             \/ pc # "read" /\ reading' \in {reading, [reading EXCEPT ![r] = Nil]}
    BY <1>1, Zenon DEF ReadTop, ReadError, ReadMark, ReadRetry, ReadGo, OnlyFirst, Done
  <2>5. ReadType'
    <3>1. reader' \in [Conns -> {"off", "top", "read", "got", "mark", "retry"}]
      BY <2>4, Zenon DEF OnlyFirst, ReadType
    <3>2. reading' \in [Conns -> Nat]
      <4>1. \A c \in {Nil, 1} : [reading EXCEPT ![r] = c] \in [Conns -> Nat]
        BY DEF OnlyFirst, ReadType, Nil
      <4>2. reading' = reading \/ \E c \in {Nil, 1} : reading' = [reading EXCEPT ![r] = c]
        BY <2>4, Zenon
      <4> QED
        BY <4>1, <4>2 DEF OnlyFirst, ReadType
    <3> QED
      BY <2>1, <3>1, <3>2, Zenon DEF OnlyFirst, ReadType
  <2>6. OnlyReader'
    <3>1. /\ reader' = [x \in Conns |-> IF x = r THEN pc ELSE reader[x]]
          /\ \A x \in Conns : x # r => reading'[x] = reading[x]
          /\ pc = "read" => reading'[r] = 1
      BY <2>4, Zenon DEF OnlyFirst, ReadType
    <3>2. r = 1 /\ dials # 0 /\ got[r] = "none"
      BY <2>3, Zenon DEF OnlyFirst, OnlyReader
    <3> QED
      BY <2>1, <3>1, <3>2, Zenon DEF OnlyFirst, OnlyReader
  <2>7. OnlyFirst'
    BY <2>1, <2>5, <2>6, Zenon DEF OnlyFirst
  <2> QED
    BY <2>1, <2>2, <2>7, Zenon
<1>2. CASE ReadFrame(r)
  <2>1. r = 1 /\ reading[r] = 1 /\ got[1] = "none" /\ dials # 0
    BY <1>2, Zenon DEF ReadFrame, OnlyFirst, OnlyReader
  <2>2. /\ wire[1] \in Seq(Kinds) /\ wire[1] # <<>>
        /\ got' = [got EXCEPT ![1] = Head(wire[1])]
        /\ wire' = [wire EXCEPT ![1] = Tail(wire[1])]
        /\ reader' = [reader EXCEPT ![1] = "got"]
        /\ reading' = [reading EXCEPT ![1] = Nil]
        /\ UNCHANGED <<phase, conn, cliEnds, busEnds, dials, loop, throttle, closedCh,
                       panicked, bus>>
    BY <1>2, <2>1, Zenon DEF ReadFrame, ReadGo, OnlyFirst, ReadType
  <2>3. /\ Head(wire[1]) \in Kinds /\ Tail(wire[1]) \in Seq(Kinds)
        /\ <<Head(wire[1])>> \o Tail(wire[1]) = wire[1]
    BY <2>2, HeadTailProperties
  <2>4. "none" \notin Kinds
    BY Zenon DEF Kinds
  <2>5. got'[1] = Head(wire[1]) /\ wire'[1] = Tail(wire[1])
    BY <2>1, <2>2, Zenon DEF OnlyFirst, ReadType
  <2>6. Stream' = Stream
    BY <2>1, <2>3, <2>4, <2>5, Zenon DEF Stream
  <2>7. OnlyFirst'
    <3>1. ReadType'
      BY <2>2, <2>3, ZenonT(30) DEF OnlyFirst, ReadType, Nil
    <3>2. OnlyReader'
      BY <2>1, <2>2, <2>3, <2>4, <2>5, Zenon DEF OnlyFirst, ReadType, OnlyReader
    <3> QED
      BY <2>2, <3>1, <3>2, Zenon DEF OnlyFirst
  <2>8. Throttling'
    BY <2>2, <2>6, Zenon DEF Throttling
  <2> QED
    BY <2>2, <2>7, <2>8, Zenon
<1>3. CASE ReadTorn(r)
  BY <1>3, Zenon DEF ReadTorn, OnlyFirst, OnlyReader
<1> QED
  BY <1>1, <1>2, <1>3, Zenon

LEMMA HandleFirst ==
  ASSUME OnlyFirst, Throttling, ~panicked, ~Done, ~Done', NEW r \in Conns,
         HandleSlowDown(r) \/ HandleResume(r) \/ HandleShutdown(r) \/ HandleInbound(r)
  PROVE  OnlyFirst' /\ Throttling' /\ ~panicked'
<1> USE DEF connVars, loopVars, flowVars, endVars, busVars
<1>1. PICK kind \in Kinds : Handle(r, kind)
  BY Zenon DEF HandleSlowDown, HandleResume, HandleShutdown, HandleInbound, Kinds
<1> DEFINE w == wire[1]
<1>2. r = 1 /\ got[1] = kind /\ kind # "none" /\ dials # 0 /\ w \in Seq(Kinds)
  BY <1>1, Zenon DEF Handle, OnlyFirst, ReadType, OnlyReader, Kinds
<1>3. /\ reader' = [reader EXCEPT ![1] = "top"] /\ got' = [got EXCEPT ![1] = "none"]
      /\ UNCHANGED <<phase, conn, cliEnds, busEnds, dials, loop, reading, wire, bus>>
  BY <1>1, <1>2, Zenon DEF Handle, ReadGo
<1>4. OnlyFirst'
  <2>1. ReadType'
    BY <1>3, Zenon DEF OnlyFirst, ReadType
  <2>2. OnlyReader'
    BY <1>2, <1>3, Zenon DEF OnlyFirst, ReadType, OnlyReader
  <2> QED
    BY <1>3, <2>1, <2>2, Zenon DEF OnlyFirst
<1>5. Stream = <<kind>> \o w /\ Stream' = w
  BY <1>2, <1>3, Zenon DEF Stream, OnlyFirst, ReadType
<1> HIDE DEF w
<1>6. Alternates(<<kind>> \o w)
  BY <1>2, <1>5, Zenon DEF Throttling
<1>7. /\ Alternates(w)
      /\ \A e \in Signals : Ends(w, e) => Ends(Stream, e)
      /\ kind \in Signals => Starts(Stream, kind) /\ ~Starts(w, kind)
      /\ kind \notin Signals => /\ \A e \in Signals : Starts(w, e) => Starts(Stream, e)
                                /\ Silent(w) => Silent(Stream)
      /\ kind \in Signals /\ Silent(w) => Ends(Stream, kind)
  BY <1>2, <1>5, <1>6, StreamTaken, ZenonT(30)
<1>8. CASE HandleSlowDown(r)
  <2>1. /\ throttle' = [on |-> TRUE, ch |-> throttle.ch + 1] /\ UNCHANGED <<closedCh, panicked>>
        /\ throttle.ch \in Nat /\ throttle.ch + 1 \notin closedCh
        /\ closedCh \subseteq 0 .. throttle.ch + 1
    <3>1. /\ throttle' = [on |-> TRUE, ch |-> throttle.ch + 1]
          /\ UNCHANGED <<closedCh, panicked>>
          /\ throttle.ch \in Nat /\ closedCh \subseteq 0 .. throttle.ch
      BY <1>8, Zenon DEF HandleSlowDown, Throttling
    <3>2. 0 .. throttle.ch \subseteq 0 .. throttle.ch + 1 /\ throttle.ch + 1 \notin 0 .. throttle.ch
      BY <3>1
    <3> QED
      BY <3>1, <3>2, Zenon
  <2>2. Throttling'
    <3>1. throttle' \in [on : BOOLEAN, ch : Nat] /\ throttle'.ch = throttle.ch + 1
      BY <2>1
    <3>2. closedCh' \subseteq 0 .. throttle'.ch /\ throttle'.ch \notin closedCh'
      BY <2>1, <3>1, Zenon
    <3>3. Alternates(Stream') /\ dials' # 0
      BY <1>2, <1>3, <1>5, <1>7, Zenon
    <3>4. 1 \in busEnds' => /\ Ends(Stream', "slow_down") => bus'.slow
                            /\ Ends(Stream', "resume") => ~bus'.slow
      BY <1>2, <1>3, <1>5, <1>7, Zenon DEF Throttling, Signals
    <3> QED
      BY <3>1, <3>2, <3>3, <3>4, Zenon DEF Throttling
  <2> QED
    BY <1>4, <2>1, <2>2, Zenon
<1>9. CASE HandleResume(r)
  <2>1. kind = "resume"
    BY <1>1, <1>2, <1>9, Zenon DEF HandleResume, Handle
  <2>2. throttle.ch \notin closedCh /\ throttle.ch \in Nat
    BY <1>2, <1>7, <2>1, Zenon DEF Throttling, Signals
  <2>3. /\ throttle' = [on |-> FALSE, ch |-> throttle.ch] /\ ~panicked'
        /\ closedCh' = closedCh \cup {throttle.ch}
    BY <1>9, <2>2, Zenon DEF HandleResume, Throttling
  <2>4. closedCh' \subseteq 0 .. throttle'.ch
    <3>1. throttle'.ch = throttle.ch /\ throttle.ch \in 0 .. throttle.ch
      BY <2>2, <2>3
    <3> QED
      BY <2>3, <3>1, Zenon DEF Throttling
  <2>5. 1 \in busEnds /\ Silent(w) => ~bus.slow
    BY <1>2, <1>7, <2>1, Zenon DEF Throttling, Signals
  <2>6. Throttling'
    BY <1>2, <1>3, <1>5, <1>7, <2>1, <2>2, <2>3, <2>4, <2>5, Zenon DEF Throttling, Signals
  <2> QED
    BY <1>4, <2>3, <2>6, Zenon
<1>10. CASE HandleInbound(r)
  <2>1. kind \notin Signals
    BY <1>1, <1>2, <1>10, Zenon DEF HandleInbound, Handle, Signals
  <2>2. UNCHANGED <<throttle, closedCh, panicked>>
    BY <1>10, Zenon DEF HandleInbound, Done
  <2>3. Throttling'
    BY <1>2, <1>3, <1>5, <1>7, <2>1, <2>2, Zenon DEF Throttling, Signals
  <2> QED
    BY <1>4, <2>2, <2>3, Zenon
<1>11. ~HandleShutdown(r)
  BY Zenon DEF HandleShutdown, Done
<1> QED
  BY <1>8, <1>9, <1>10, <1>11, Zenon

LEMMA BusFirst ==
  ASSUME OnlyFirst, Throttling, ~panicked, dials <= 1, Bus
  PROVE  OnlyFirst' /\ Throttling' /\ ~panicked'
<1> USE DEF connVars, loopVars, readVars, flowVars, endVars
<1>1. CASE BusStop \/ BusStart \/ BusDrop
  <2>1. /\ UNCHANGED <<phase, conn, cliEnds, dials, loop, readVars, flowVars, panicked, wire>>
        /\ busEnds' \subseteq busEnds /\ (busEnds' # {} => bus'.slow = bus.slow)
        /\ bus' \in [up : BOOLEAN, slow : BOOLEAN]
    <3>1. CASE BusStop
      BY <3>1, Zenon DEF BusStop
    <3>2. CASE BusStart
      BY <3>2, ZenonT(30) DEF BusStart, OnlyFirst
    <3>3. CASE BusDrop
      BY <3>3, Zenon DEF BusDrop, OnlyFirst
    <3> QED
      BY <1>1, <3>1, <3>2, <3>3, Zenon
  <2>2. OnlyFirst'
    BY <2>1, Zenon DEF OnlyFirst, ReadType, OnlyReader
  <2>3. Stream' = Stream
    BY <2>1, Zenon DEF Stream
  <2>4. Throttling'
    BY <2>1, <2>3, Zenon DEF Throttling
  <2> QED
    BY <2>1, <2>2, <2>4, Zenon
<1>2. ASSUME NEW kind \in Kinds, Deliver(kind),
             UNCHANGED <<phase, connVars, loopVars, readVars, flowVars, endVars>>,
             bus' \in [up : BOOLEAN, slow : BOOLEAN],
             kind = "slow_down" => ~bus.slow /\ bus'.slow,
             kind = "resume" => bus.slow /\ ~bus'.slow,
             kind \notin Signals => bus' = bus
      PROVE  OnlyFirst' /\ Throttling' /\ ~panicked'
  <2>1. CASE 1 \in busEnds /\ 1 \in Conns
    <3>1. dials = 1
      BY <2>1, ClientAssumption, SMTT(30) DEF OnlyFirst
    <3>2. wire' = [wire EXCEPT ![1] = Append(wire[1], kind)]
      BY <1>2, <2>1, <3>1 DEF Deliver, Registered, Nil
    <3>3. wire \in [Conns -> Seq(Kinds)] /\ got[1] \in Kinds \cup {"none"}
      BY <2>1, Zenon DEF OnlyFirst, ReadType
    <3>4. Stream \in Seq(Kinds) /\ Stream' = Append(Stream, kind)
      <4> DEFINE w == wire[1]
      <4>1. w \in Seq(Kinds) /\ wire'[1] = Append(w, kind) /\ got' = got
        BY <1>2, <2>1, <3>2, <3>3, Zenon
      <4>2. Stream = IF got[1] = "none" THEN w ELSE <<got[1]>> \o w
        BY Zenon DEF Stream
      <4>3. Stream' = IF got[1] = "none" THEN Append(w, kind) ELSE <<got[1]>> \o Append(w, kind)
        BY <4>1, Zenon DEF Stream
      <4> HIDE DEF w
      <4>4. CASE got[1] = "none"
        BY <4>1, <4>2, <4>3, <4>4, Zenon
      <4>5. CASE got[1] \in Kinds /\ got[1] # "none"
        <5>1. /\ <<got[1]>> \o w \in Seq(Kinds)
              /\ <<got[1]>> \o Append(w, kind) = Append(<<got[1]>> \o w, kind)
          BY <1>2, <4>1, <4>5, BothEnds
        <5> QED
          BY <4>2, <4>3, <4>5, <5>1, Zenon
      <4> QED
        BY <3>3, <4>4, <4>5, Zenon
    <3>5. kind \in Signals => ~Ends(Stream, kind)
      BY <1>2, <2>1, Zenon DEF Throttling, Signals
    <3>6. /\ Alternates(Stream')
          /\ \A e \in Signals : Starts(Stream', e) => Starts(Stream, e) \/ (Silent(Stream) /\ e = kind)
          /\ kind \in Signals => /\ ~Silent(Stream')
                                 /\ \A e \in Signals : Ends(Stream', e) => e = kind
          /\ kind \notin Signals => /\ Silent(Stream') => Silent(Stream)
                                    /\ \A e \in Signals : Ends(Stream', e) => Ends(Stream, e)
      BY <2>1, <3>4, <3>5, StreamGrows, Zenon DEF Throttling
    <3>7. Starts(Stream', "resume") => throttle.ch \notin closedCh
      BY <1>2, <2>1, <3>6, Zenon DEF Throttling, Signals
    <3>8. /\ Ends(Stream', "slow_down") => bus'.slow
          /\ Ends(Stream', "resume") => ~bus'.slow
          /\ Silent(Stream') /\ bus'.slow => throttle.ch \notin closedCh
      <4>1. CASE kind \in Signals
        BY <1>2, <3>6, <4>1, Zenon DEF Signals
      <4>2. CASE kind \notin Signals
        BY <1>2, <2>1, <3>6, <4>2, Zenon DEF Throttling, Signals
      <4> QED
        BY <4>1, <4>2, Zenon
    <3>9. Throttling'
      <4>1. dials' # 0 /\ UNCHANGED <<throttle, closedCh>>
        BY <1>2, <3>1
      <4> QED
        BY <3>6, <3>7, <3>8, <4>1, Zenon DEF Throttling
    <3>10. OnlyFirst'
      <4>0. Append(wire[1], kind) \in Seq(Kinds)
        BY <1>2, <2>1, <3>3, BothEnds, Zenon
      <4>1. ReadType'
        BY <1>2, <3>2, <3>3, <4>0, Zenon DEF OnlyFirst, ReadType
      <4>2. OnlyReader'
        BY <1>2, Zenon DEF OnlyFirst, OnlyReader
      <4> QED
        BY <1>2, <4>1, <4>2, Zenon DEF OnlyFirst
    <3> QED
      BY <1>2, <3>9, <3>10, Zenon
  <2>2. CASE ~(1 \in busEnds /\ 1 \in Conns)
    <3>1. busEnds = {}
      BY <2>2, ClientAssumption, SMTT(30) DEF OnlyFirst, Conns
    <3>2. UNCHANGED wire
      BY <1>2, <3>1, Zenon DEF Deliver, Registered
    <3>3. Stream' = Stream
      BY <1>2, <3>2, Zenon DEF Stream
    <3>4. OnlyFirst' /\ Throttling'
      BY <1>2, <3>1, <3>2, <3>3, Zenon DEF OnlyFirst, ReadType, OnlyReader, Throttling
    <3> QED
      BY <1>2, <3>4, Zenon
  <2> QED
    BY <2>1, <2>2, Zenon
<1>3. CASE BusSlowDown
  BY <1>2, <1>3, Zenon DEF BusSlowDown, OnlyFirst, Signals, Kinds
<1>5. CASE BusResume
  BY <1>2, <1>5, Zenon DEF BusResume, OnlyFirst, Signals, Kinds
<1>4. CASE BusSend("message") \/ BusSend("shutdown")
  BY <1>2, <1>4, Zenon DEF BusSend, OnlyFirst, Signals, Kinds
<1> QED
  BY <1>1, <1>3, <1>4, <1>5, Zenon DEF Bus

LEMMA NextFirst == FirstInv /\ [ClientNext]_vars => FirstInv'
<1> SUFFICES ASSUME FirstInv, [ClientNext]_vars PROVE FirstInv'
  OBVIOUS
<1>1. dials \in Nat /\ dials' \in {dials, dials + 1} /\ (Done => Done')
  BY StaysPast, Zenon DEF FirstInv
<1> SUFFICES ASSUME FirstLife' PROVE OnlyFirst' /\ Throttling' /\ ~panicked'
  BY <1>1 DEF FirstInv
<1>2. /\ OnlyFirst /\ Throttling /\ ~panicked
      /\ ~Done /\ ~Done' /\ dials <= 1 /\ dials' <= 1
  BY <1>1 DEF FirstInv, FirstLife
<1>3. CASE ReconnectLoop
  BY <1>2, <1>3, LoopFirst, Zenon
<1>4. CASE Heartbeat
  BY <1>2, <1>4, BeatFirst, Zenon
<1>5. ASSUME NEW r \in Conns, Reader(r) PROVE OnlyFirst' /\ Throttling' /\ ~panicked'
  BY <1>2, <1>5, ReadFirst, HandleFirst, ZenonT(30) DEF Reader
<1>6. ASSUME NEW m \in Msgs, Send(m) PROVE OnlyFirst' /\ Throttling' /\ ~panicked'
  BY <1>2, <1>6, SendFirst, Zenon
<1>7. CASE Bus
  BY <1>2, <1>7, BusFirst, Zenon
<1>8. CASE Connect
  BY <1>2, <1>8, ConnectFirst, Zenon
<1>9. CASE ConnectCancelled \/ UNCHANGED vars
  <2>1. /\ UNCHANGED <<dials, busEnds, readVars, flowVars, panicked, wire, bus, conn,
                       cliEnds, loop>>
        /\ phase' = phase \/ phase' # "running"
    BY <1>9, Zenon DEF ConnectCancelled, vars, connVars, loopVars, endVars, busVars
  <2> QED
    BY <1>2, <2>1, StaysFirst, Zenon
<1>10. CASE Close \/ CloseConn \/ CloseInbound
  BY <1>2, <1>10, Zenon DEF Close, CloseConn, CloseInbound, Done
<1> QED
  BY <1>3, <1>4, <1>5, <1>6, <1>7, <1>8, <1>9, <1>10, ZenonT(30) DEF ClientNext, ClientStep

\* For any messages, channel capacity and number of signals, the client does
\* not panic before Close or a second dial: on the first connection the
\* channel handleMessage closes on resume is one the preceding slow_down made.
THEOREM PanicsCorrect == SafetySpec => []PanicsOnlyAfterLoss
<1>1. ClientInit => FirstInv
  BY InitFirst, Zenon
<1>2. FirstInv /\ [ClientNext]_vars => FirstInv'
  BY NextFirst, Zenon
<1>3. FirstInv => PanicsOnlyAfterLoss
  BY DEF FirstInv, FirstLife, PanicsOnlyAfterLoss
<1> QED
  BY <1>1, <1>2, <1>3, PTL DEF SafetySpec
=============================================================================
