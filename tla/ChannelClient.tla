--------------------------- MODULE ChannelClient ---------------------------
(***************************************************************************)
(* The channel SDK client (sdk/channel/client.go, buffer.go): the library  *)
(* a channel sidecar uses to talk to the IPC bus.                          *)
(*                                                                         *)
(* The goroutines of one client are modelled with the steps at which they  *)
(* take a lock or touch the socket: every call of Send, the readers, the   *)
(* heartbeat, the reconnect loop and the body of Close.  The bus may die,  *)
(* restart or drop a connection between any two of them.                   *)
(*                                                                         *)
(* c.connected is not a variable: the code always assigns it together with *)
(* c.conn, so it is TRUE exactly when conn is not nil.                     *)
(***************************************************************************)
EXTENDS Naturals, Sequences, FiniteSets

CONSTANTS Msgs,        \* the payloads given to Send, one call each
          Capacity,    \* WithBufferSize
          InboundCap,  \* capacity of c.inbound (64 in client.go)
          MaxDials,    \* bound: successful dials
          Limits       \* bounds on the environment; a run takes one of them

ASSUME ClientAssumption ==
  /\ Capacity \in Nat \ {0} /\ InboundCap \in Nat \ {0} /\ MaxDials \in Nat
  /\ Limits \subseteq
       [faults : Nat,               \* bus crashes and dropped connections
        signals : Nat,              \* messages the bus sends, resume not counted
        beats : BOOLEAN,            \* whether a heartbeat interval passes
        closes : BOOLEAN,           \* whether the sidecar may call Close
        oversized : SUBSET Msgs]    \* messages writeMessage refuses

\* A connection is named by the number of the dial that made it, and so is
\* the reader started for it.
Conns == 1 .. MaxDials
Nil == 0
Kinds == {"slow_down", "resume", "shutdown", "message"}

VARIABLES
  phase,        \* of Connect: "connecting", "running", "failed"
  conn,         \* c.conn, Nil when disconnected
  cliEnds,      \* connections whose client end is open
  busEnds,      \* connections whose bus end is open
  dials,        \* number of successful dials so far
  reconnecting, \* c.reconnecting
  loop,         \* reconnectLoop: its next step, "off" when none runs
  replay,       \* the drained messages the loop has not yet written
  buf,          \* c.buf
  send,         \* next step of Send for each message, "nil"/"err" at the end
  held,         \* the connection that call has read
  gate,         \* the throttle channel that call waits on
  reader,       \* next step of each reader, "off" when it does not run
  reading,      \* the connection it has read
  got,          \* the message it has received
  beat,         \* next step of heartbeatLoop
  beatConn,     \* the connection it has read
  throttle,     \* c.throttled and c.throttleCh (channels are numbered)
  closedCh,     \* throttle channels that have been closed
  closer,       \* the body of Close: "no", "done", "conn", "closed"
  inbound,      \* number of messages in c.inbound
  panicked,     \* a goroutine panicked: the process is gone
  wire,         \* bus-to-client messages in flight on each connection
  bus,          \* whether the bus is up and has told the client to slow down
  limit,        \* the member of Limits this run is bounded by
  faults,       \* faults so far
  signals,      \* messages the bus has sent so far
  written,      \* history: how often each message was written to a live bus
  dropped       \* history: messages the client itself threw away

connVars == <<conn, cliEnds, busEnds, dials>>
loopVars == <<reconnecting, loop, replay>>
sendVars == <<send, held, gate>>
readVars == <<reader, reading, got>>
beatVars == <<beat, beatConn>>
flowVars == <<throttle, closedCh>>
endVars == <<closer, inbound, panicked>>
busVars == <<wire, bus, limit, faults, signals>>
histVars == <<written, dropped>>
vars == <<phase, connVars, loopVars, buf, sendVars, readVars, beatVars,
          flowVars, endVars, busVars, histVars>>

\* held, gate, reading, got and beatConn are locals: an action that uses one
\* for the last time resets it.
Done == closer # "no"
Running == phase = "running" /\ ~panicked

ClientInit ==
  /\ phase = "connecting"
  /\ conn = Nil /\ cliEnds = {} /\ busEnds = {} /\ dials = 0
  /\ reconnecting = FALSE /\ loop = "off" /\ replay = <<>> /\ buf = <<>>
  /\ send = [m \in Msgs |-> "idle"]
  /\ held = [m \in Msgs |-> Nil]
  /\ gate = [m \in Msgs |-> 0]
  /\ reader = [r \in Conns |-> "off"]
  /\ reading = [r \in Conns |-> Nil]
  /\ got = [r \in Conns |-> "none"]
  /\ beat = "off" /\ beatConn = Nil
  /\ throttle = [on |-> FALSE, ch |-> 0] /\ closedCh = {}
  /\ closer = "no" /\ inbound = 0 /\ panicked = FALSE
  /\ wire = [c \in Conns |-> <<>>]
  /\ bus \in [up : BOOLEAN, slow : {FALSE}]
  /\ limit \in Limits /\ faults = 0 /\ signals = 0
  /\ written = [m \in Msgs |-> 0] /\ dropped = {}

-----------------------------------------------------------------------------
(* buffer.go                                                               *)

Full == Len(buf) >= Capacity

\* push, its result ignored by the caller: a full buffer drops the message.
PushOrDrop(m) ==
  IF Full THEN buf' = buf /\ dropped' = dropped \cup {m}
          ELSE buf' = Append(buf, m) /\ dropped' = dropped

Elements(s) == {s[i] : i \in DOMAIN s}

\* writeMessage refuses an oversized frame before it looks at the socket.
Writable(c, m) == m \notin limit.oversized /\ c \in cliEnds \cap busEnds

-----------------------------------------------------------------------------
(* Shared tails of the goroutines that find the connection broken.         *)

\* Closes whatever c.conn is at this moment.
markDisconnected ==
  /\ conn' = Nil
  /\ cliEnds' = cliEnds \ {conn}
  /\ UNCHANGED <<busEnds, dials>>

tryReconnect ==
  /\ reconnecting' = TRUE
  /\ loop' = IF reconnecting THEN loop ELSE "wait"
  /\ UNCHANGED replay

\* A dial that registered and was acknowledged.  Failed attempts are retried
\* after a pause and leave no trace.
Dialled ==
  /\ bus.up /\ dials < MaxDials
  /\ dials' = dials + 1
  /\ conn' = dials + 1
  /\ cliEnds' = cliEnds \cup {dials + 1}
  /\ busEnds' = busEnds \cup {dials + 1}

-----------------------------------------------------------------------------
(* Connect                                                                 *)

\* connectWithRetry ends: the first dial succeeds and readLoop and
\* heartbeatLoop are started.  Nothing is buffered yet.
Connect ==
  /\ phase = "connecting"
  /\ Dialled
  /\ phase' = "running"
  /\ reader' = [reader EXCEPT ![dials + 1] = "top"]
  /\ beat' = "tick"
  /\ UNCHANGED <<loopVars, buf, sendVars, reading, got, beatConn, flowVars,
                 endVars, busVars, histVars>>

ConnectCancelled ==
  /\ phase = "connecting"
  /\ phase' = "failed"
  /\ UNCHANGED <<connVars, loopVars, buf, sendVars, readVars, beatVars,
                 flowVars, endVars, busVars, histVars>>

-----------------------------------------------------------------------------
(* reconnectLoop                                                           *)

\* The select of the loop sees c.done.
LoopDone ==
  /\ Running /\ loop = "wait" /\ Done
  /\ loop' = "off" /\ reconnecting' = FALSE
  /\ UNCHANGED <<phase, connVars, replay, buf, sendVars, readVars, beatVars,
                 flowVars, endVars, busVars, histVars>>

\* The timer fires (possibly although c.done is closed) and dial connects.
LoopDial ==
  /\ Running /\ loop = "wait"
  /\ Dialled
  /\ loop' = "drain"
  /\ UNCHANGED <<phase, reconnecting, replay, buf, sendVars, readVars,
                 beatVars, flowVars, endVars, busVars, histVars>>

LoopDrain ==
  /\ Running /\ loop = "drain"
  /\ replay' = buf /\ buf' = <<>>
  /\ loop' = "replay"
  /\ UNCHANGED <<phase, connVars, reconnecting, sendVars, readVars, beatVars,
                 flowVars, endVars, busVars, histVars>>

\* Faulty variant: the message whose write failed is not put back.
MutReplayNoPush ==
  /\ Running /\ loop = "replay" /\ replay # <<>>
  /\ LET m == Head(replay) IN
       IF conn # Nil /\ Writable(conn, m)
       THEN /\ written' = [written EXCEPT ![m] = @ + 1]
            /\ replay' = Tail(replay)
            /\ UNCHANGED dropped
       ELSE /\ dropped' = dropped \cup Elements(Tail(replay))
            /\ replay' = <<>>
            /\ UNCHANGED written
  /\ UNCHANGED <<phase, connVars, reconnecting, loop, buf, sendVars, readVars,
                 beatVars, flowVars, endVars, busVars>>

\* One iteration of replayBuffer.  On the first failure it puts the failing
\* message back (at the end) and returns: the rest of the drained slice is
\* unreachable from then on.
LoopReplay ==
  /\ Running /\ loop = "replay" /\ replay # <<>>
  /\ LET m == Head(replay) IN
       IF conn # Nil /\ Writable(conn, m)
       THEN /\ written' = [written EXCEPT ![m] = @ + 1]
            /\ replay' = Tail(replay)
            /\ UNCHANGED <<buf, dropped>>
       ELSE /\ buf' = IF Full THEN buf ELSE Append(buf, m)
            /\ dropped' = dropped \cup Elements(Tail(replay))
                                   \cup (IF Full THEN {m} ELSE {})
            /\ replay' = <<>>
            /\ UNCHANGED written
  /\ UNCHANGED <<phase, connVars, reconnecting, loop, sendVars, readVars,
                 beatVars, flowVars, endVars, busVars>>

\* dial returns nil and reconnectLoop starts the reader of the new connection.
LoopSpawn ==
  /\ Running /\ loop = "replay" /\ replay = <<>>
  /\ reader' = [reader EXCEPT ![dials] = "top"]
  /\ loop' = "exit"
  /\ UNCHANGED <<phase, connVars, reconnecting, replay, buf, sendVars, reading,
                 got, beatVars, flowVars, endVars, busVars, histVars>>

\* The deferred function: only now may another reconnectLoop start.
LoopExit ==
  /\ Running /\ loop = "exit"
  /\ loop' = "off" /\ reconnecting' = FALSE
  /\ UNCHANGED <<phase, connVars, replay, buf, sendVars, readVars, beatVars,
                 flowVars, endVars, busVars, histVars>>

-----------------------------------------------------------------------------
(* Send                                                                    *)

\* The call of m goes on to step pc; nothing but the call's own state and
\* what the action mentions changes.
Go(m, pc) == send' = [send EXCEPT ![m] = pc]

SendStart(m) ==
  /\ Running /\ send[m] = "idle"
  /\ Go(m, IF throttle.on THEN "wait" ELSE "pick")
  /\ gate' = [gate EXCEPT ![m] = IF throttle.on THEN throttle.ch ELSE 0]
  /\ UNCHANGED <<phase, connVars, loopVars, buf, held, readVars, beatVars,
                 flowVars, endVars, busVars, histVars>>

SendResumed(m) ==
  /\ Running /\ send[m] = "wait" /\ gate[m] \in closedCh
  /\ Go(m, "pick")
  /\ gate' = [gate EXCEPT ![m] = 0]
  /\ UNCHANGED <<phase, connVars, loopVars, buf, held, readVars, beatVars,
                 flowVars, endVars, busVars, histVars>>

\* ctx is cancelled or the client is closed while Send waits.
SendGivesUp(m) ==
  /\ Running /\ send[m] = "wait"
  /\ Go(m, "err")
  /\ gate' = [gate EXCEPT ![m] = 0]
  /\ UNCHANGED <<phase, connVars, loopVars, buf, held, readVars, beatVars,
                 flowVars, endVars, busVars, histVars>>

SendPick(m) ==
  /\ Running /\ send[m] = "pick"
  /\ held' = [held EXCEPT ![m] = conn]
  /\ Go(m, IF conn = Nil THEN "push" ELSE "write")
  /\ UNCHANGED <<phase, connVars, loopVars, buf, gate, readVars, beatVars,
                 flowVars, endVars, busVars, histVars>>

\* Faulty variant: pushes first and looks at the capacity afterwards.
MutPushThenCheck(m) ==
  /\ Running /\ send[m] = "push"
  /\ buf' = Append(buf, m)
  /\ Go(m, IF Len(buf) + 1 >= Capacity THEN "err" ELSE "nil")
  /\ UNCHANGED <<phase, connVars, loopVars, held, gate, readVars, beatVars,
                 flowVars, endVars, busVars, histVars>>

\* Disconnected: buffer the message, or refuse it when the buffer is full.
SendPush(m) ==
  /\ Running /\ send[m] = "push"
  /\ buf' = IF Full THEN buf ELSE Append(buf, m)
  /\ Go(m, IF Full THEN "err" ELSE "nil")
  /\ UNCHANGED <<phase, connVars, loopVars, held, gate, readVars, beatVars,
                 flowVars, endVars, busVars, histVars>>

SendWrite(m) ==
  /\ Running /\ send[m] = "write"
  /\ IF Writable(held[m], m)
     THEN /\ written' = [written EXCEPT ![m] = @ + 1]
          /\ Go(m, "nil")
     ELSE /\ Go(m, "mark")
          /\ UNCHANGED written
  /\ held' = [held EXCEPT ![m] = Nil]
  /\ UNCHANGED <<phase, connVars, loopVars, buf, gate, readVars, beatVars,
                 flowVars, endVars, busVars, dropped>>

SendMark(m) ==
  /\ Running /\ send[m] = "mark"
  /\ markDisconnected
  /\ Go(m, "rebuf")
  /\ UNCHANGED <<phase, loopVars, buf, held, gate, readVars, beatVars,
                 flowVars, endVars, busVars, histVars>>

SendRebuffer(m) ==
  /\ Running /\ send[m] = "rebuf"
  /\ PushOrDrop(m)
  /\ Go(m, "retry")
  /\ UNCHANGED <<phase, connVars, loopVars, held, gate, readVars, beatVars,
                 flowVars, endVars, busVars, written>>

SendRetry(m) ==
  /\ Running /\ send[m] = "retry"
  /\ tryReconnect
  /\ Go(m, "nil")
  /\ UNCHANGED <<phase, connVars, buf, held, gate, readVars, beatVars,
                 flowVars, endVars, busVars, histVars>>

Send(m) ==
  \/ SendStart(m) \/ SendResumed(m) \/ SendGivesUp(m) \/ SendPick(m)
  \/ SendPush(m) \/ SendWrite(m) \/ SendMark(m) \/ SendRebuffer(m)
  \/ SendRetry(m)

-----------------------------------------------------------------------------
(* readLoop and handleMessage                                              *)

ReadGo(r, pc) == reader' = [reader EXCEPT ![r] = pc]

\* The top of the loop: leave when closed, sleep while disconnected.
ReadTop(r) ==
  /\ Running /\ reader[r] = "top"
  /\ Done \/ conn # Nil
  /\ ReadGo(r, IF Done THEN "off" ELSE "read")
  /\ reading' = [reading EXCEPT ![r] = IF Done THEN Nil ELSE conn]
  /\ UNCHANGED <<phase, connVars, loopVars, buf, sendVars, got, beatVars,
                 flowVars, endVars, busVars, histVars>>

ReadFrame(r) ==
  /\ Running /\ reader[r] = "read"
  /\ LET c == reading[r] IN
       /\ c \in cliEnds /\ wire[c] # <<>>
       /\ got' = [got EXCEPT ![r] = Head(wire[c])]
       /\ wire' = [wire EXCEPT ![c] = Tail(@)]
  /\ ReadGo(r, "got")
  /\ reading' = [reading EXCEPT ![r] = Nil]
  /\ UNCHANGED <<phase, connVars, loopVars, buf, sendVars, beatVars,
                 flowVars, endVars, bus, limit, faults, signals, histVars>>

\* What was in flight is still read after the bus closed its end; then EOF.
ReadError(r) ==
  /\ Running /\ reader[r] = "read"
  /\ LET c == reading[r] IN
       c \notin cliEnds \/ (c \notin busEnds /\ wire[c] = <<>>)
  /\ ReadGo(r, IF Done THEN "off" ELSE "mark")
  /\ reading' = [reading EXCEPT ![r] = Nil]
  /\ UNCHANGED <<phase, connVars, loopVars, buf, sendVars, got,
                 beatVars, flowVars, endVars, busVars, histVars>>

\* Two readers on one connection: each takes bytes of the other's frame, and
\* the length it then decodes is refused.
ReadTorn(r) ==
  /\ Running /\ reader[r] = "read"
  /\ LET c == reading[r] IN
       /\ \E q \in Conns \ {r} : reader[q] = "read" /\ reading[q] = c
       /\ c \in cliEnds /\ wire[c] # <<>>
       /\ wire' = [wire EXCEPT ![c] = Tail(@)]
  /\ ReadGo(r, IF Done THEN "off" ELSE "mark")
  /\ reading' = [reading EXCEPT ![r] = Nil]
  /\ UNCHANGED <<phase, connVars, loopVars, buf, sendVars, got,
                 beatVars, flowVars, endVars, bus, limit, faults, signals, histVars>>

ReadMark(r) ==
  /\ Running /\ reader[r] = "mark"
  /\ markDisconnected
  /\ ReadGo(r, "retry")
  /\ UNCHANGED <<phase, loopVars, buf, sendVars, reading, got, beatVars,
                 flowVars, endVars, busVars, histVars>>

\* The reader ends; the reconnect loop will start another.
ReadRetry(r) ==
  /\ Running /\ reader[r] = "retry"
  /\ tryReconnect
  /\ ReadGo(r, "off")
  /\ UNCHANGED <<phase, connVars, buf, sendVars, reading, got, beatVars,
                 flowVars, endVars, busVars, histVars>>

Handle(r, kind) ==
  /\ Running /\ reader[r] = "got" /\ got[r] = kind
  /\ ReadGo(r, "top")
  /\ got' = [got EXCEPT ![r] = "none"]
  /\ UNCHANGED <<phase, connVars, loopVars, buf, sendVars, reading, beatVars,
                 busVars, histVars>>

\* Faulty variant: slow_down keeps the throttle channel it finds.
MutKeepsChannel(r) ==
  /\ Handle(r, "slow_down")
  /\ throttle' = [throttle EXCEPT !.on = TRUE]
  /\ UNCHANGED <<closedCh, endVars>>

HandleSlowDown(r) ==
  /\ Handle(r, "slow_down")
  /\ throttle' = [on |-> TRUE, ch |-> throttle.ch + 1]
  /\ UNCHANGED <<closedCh, endVars>>

\* Closing a channel twice panics.
HandleResume(r) ==
  /\ Handle(r, "resume")
  /\ throttle' = [throttle EXCEPT !.on = FALSE]
  /\ closedCh' = closedCh \cup {throttle.ch}
  /\ panicked' = (throttle.ch \in closedCh)
  /\ UNCHANGED <<closer, inbound>>

\* Close is run by the reader itself, once; CloseConn and CloseInbound are
\* the rest of it.
HandleShutdown(r) ==
  /\ Handle(r, "shutdown")
  /\ closer' = IF Done THEN closer ELSE "done"
  /\ UNCHANGED <<flowVars, inbound, panicked>>

\* The select of handleMessage.  A send on the closed channel is a ready case
\* and panics; a full channel leaves the default case, which drops.
HandleInbound(r) ==
  /\ Handle(r, "message")
  /\ \/ /\ closer # "closed"
        /\ inbound' = IF inbound < InboundCap THEN inbound + 1 ELSE inbound
        /\ UNCHANGED panicked
     \/ /\ closer = "closed"
        /\ panicked' = TRUE
        /\ UNCHANGED inbound
     \/ /\ Done
        /\ UNCHANGED <<inbound, panicked>>
  /\ UNCHANGED <<flowVars, closer>>

Reader(r) ==
  \/ ReadTop(r) \/ ReadFrame(r) \/ ReadError(r) \/ ReadTorn(r)
  \/ ReadMark(r) \/ ReadRetry(r)
  \/ HandleSlowDown(r) \/ HandleResume(r) \/ HandleShutdown(r)
  \/ HandleInbound(r)

-----------------------------------------------------------------------------
(* heartbeatLoop                                                           *)

BeatTick ==
  /\ Running /\ beat = "tick" /\ limit.beats
  /\ Done \/ conn # Nil
  /\ beat' \in (IF Done THEN {"off"} ELSE {}) \cup
               (IF conn # Nil THEN {"write"} ELSE {})
  /\ beatConn' = IF beat' = "off" THEN Nil ELSE conn
  /\ UNCHANGED <<phase, connVars, loopVars, buf, sendVars, readVars, flowVars,
                 endVars, busVars, histVars>>

BeatWrite ==
  /\ Running /\ beat = "write"
  /\ beat' = IF beatConn \in cliEnds \cap busEnds THEN "tick" ELSE "mark"
  /\ beatConn' = Nil
  /\ UNCHANGED <<phase, connVars, loopVars, buf, sendVars, readVars,
                 flowVars, endVars, busVars, histVars>>

BeatMark ==
  /\ Running /\ beat = "mark"
  /\ markDisconnected
  /\ beat' = "retry"
  /\ UNCHANGED <<phase, loopVars, buf, sendVars, readVars, beatConn, flowVars,
                 endVars, busVars, histVars>>

BeatRetry ==
  /\ Running /\ beat = "retry"
  /\ tryReconnect
  /\ beat' = "tick"
  /\ UNCHANGED <<phase, connVars, buf, sendVars, readVars, beatConn, flowVars,
                 endVars, busVars, histVars>>

Heartbeat == BeatTick \/ BeatWrite \/ BeatMark \/ BeatRetry

-----------------------------------------------------------------------------
(* Close                                                                   *)

Close ==
  /\ Running /\ limit.closes /\ closer = "no"
  /\ closer' = "done"
  /\ UNCHANGED <<phase, connVars, loopVars, buf, sendVars, readVars, beatVars,
                 flowVars, inbound, panicked, busVars, histVars>>

\* The connection of the moment is closed; c.conn keeps its value.
CloseConn ==
  /\ Running /\ closer = "done"
  /\ closer' = "conn"
  /\ cliEnds' = cliEnds \ {conn}
  /\ UNCHANGED <<phase, conn, busEnds, dials, loopVars, buf, sendVars, readVars,
                 beatVars, flowVars, inbound, panicked, busVars, histVars>>

CloseInbound ==
  /\ Running /\ closer = "conn"
  /\ closer' = "closed"
  /\ UNCHANGED <<phase, connVars, loopVars, buf, sendVars, readVars, beatVars,
                 flowVars, inbound, panicked, busVars, histVars>>

-----------------------------------------------------------------------------
(* The bus, as this client sees it (modelled in IPCBus).                   *)

\* The connection the bus has registered for the channel.
Registered == IF dials \in busEnds THEN dials ELSE Nil

\* The bus writes to the registered connection, or to none.
Deliver(kind) ==
  wire' = IF Registered = Nil THEN wire
          ELSE [wire EXCEPT ![Registered] = Append(@, kind)]

BusStop ==
  /\ bus.up /\ faults < limit.faults
  /\ bus' = [up |-> FALSE, slow |-> FALSE]
  /\ busEnds' = {}
  /\ faults' = faults + 1
  /\ UNCHANGED <<phase, conn, cliEnds, dials, loopVars, buf, sendVars, readVars,
                 beatVars, flowVars, endVars, wire, limit, signals, histVars>>

BusStart ==
  /\ ~bus.up
  /\ bus' = [bus EXCEPT !.up = TRUE]
  /\ UNCHANGED <<phase, connVars, loopVars, buf, sendVars, readVars, beatVars,
                 flowVars, endVars, wire, limit, faults, signals, histVars>>

\* The bus closes one connection only.
BusDrop ==
  /\ Registered # Nil /\ faults < limit.faults
  /\ busEnds' = busEnds \ {Registered}
  /\ faults' = faults + 1
  /\ UNCHANGED <<phase, conn, cliEnds, dials, loopVars, buf, sendVars, readVars,
                 beatVars, flowVars, endVars, wire, bus, limit, signals, histVars>>

\* slow_down is sent on the way to the high watermark, resume on the way back.
BusSlowDown ==
  /\ bus.up /\ ~bus.slow /\ signals < limit.signals
  /\ bus' = [bus EXCEPT !.slow = TRUE]
  /\ Deliver("slow_down")
  /\ signals' = signals + 1
  /\ UNCHANGED <<phase, connVars, loopVars, buf, sendVars, readVars, beatVars,
                 flowVars, endVars, limit, faults, histVars>>

BusResume ==
  /\ bus.up /\ bus.slow
  /\ bus' = [bus EXCEPT !.slow = FALSE]
  /\ Deliver("resume")
  /\ UNCHANGED <<phase, connVars, loopVars, buf, sendVars, readVars, beatVars,
                 flowVars, endVars, limit, faults, signals, histVars>>

\* A message of the runtime, or the shutdown message of a bus that stops.
BusSend(kind) ==
  /\ bus.up /\ Registered # Nil /\ signals < limit.signals
  /\ Deliver(kind)
  /\ signals' = signals + 1
  /\ UNCHANGED <<phase, connVars, loopVars, buf, sendVars, readVars, beatVars,
                 flowVars, endVars, bus, limit, faults, histVars>>

Bus == \/ BusStop \/ BusStart \/ BusDrop \/ BusSlowDown \/ BusResume
       \/ BusSend("message") \/ BusSend("shutdown")

-----------------------------------------------------------------------------
ReconnectLoop == \/ LoopDone \/ LoopDial \/ LoopDrain \/ LoopReplay
                 \/ LoopSpawn \/ LoopExit

ClientStep == \/ Connect \/ ConnectCancelled
              \/ ReconnectLoop \/ Heartbeat
              \/ \E r \in Conns : Reader(r)
              \/ Close \/ CloseConn \/ CloseInbound

ClientNext == ClientStep \/ (\E m \in Msgs : Send(m)) \/ Bus

\* The Go scheduler runs every goroutine that can run, and the bus container
\* is restarted.  Nobody has to cancel a context or to call Close.
ClientFairness ==
  /\ WF_vars(Connect) /\ WF_vars(ReconnectLoop) /\ WF_vars(Heartbeat)
  /\ \A r \in Conns : WF_vars(Reader(r))
  /\ \A m \in Msgs : WF_vars(Send(m) /\ ~SendGivesUp(m))
  /\ WF_vars(CloseConn) /\ WF_vars(CloseInbound)
  /\ WF_vars(BusStart) /\ WF_vars(BusResume)

\* The client without fairness, for safety.
SafetySpec == ClientInit /\ [][ClientNext]_vars

ClientSpec == SafetySpec /\ ClientFairness

-----------------------------------------------------------------------------
Occurrences(m, s) == Cardinality({i \in DOMAIN s : s[i] = m})

\* Where a message is: on the bus, in the buffer, in the hands of the replay,
\* or among those the client itself threw away.
Places(m) == written[m] + Occurrences(m, buf) + Occurrences(m, replay)
             + (IF m \in dropped THEN 1 ELSE 0)

(* Send, replayBuffer and the bus-down buffer never duplicate a message and *)
(* never forget one except where they drop it: from the moment Send has     *)
(* taken a message it is in exactly one place, and a message Send refused   *)
(* with an error is in none, so the caller may send it again.               *)
OnePlace ==
  \A m \in Msgs : Places(m) = IF send[m] \in {"retry", "nil"} THEN 1 ELSE 0

(* handleMessage closes a throttle channel and sends on the inbound channel: *)
(* either may panic, but only once Close has begun or the client has had to  *)
(* dial again.  On its first connection slow_down and resume alternate, and  *)
(* each slow_down makes the channel its resume closes.                       *)
PanicsOnlyAfterLoss == panicked => Done \/ dials > 1

(* Send keeps the promise of Outbox whatever the goroutines, the bus and the *)
(* buffer do.                                                                *)
Answer(pc) == IF pc \in {"retry", "nil"} THEN "accepted"
              ELSE IF pc = "err" THEN "refused"
              ELSE IF pc = "idle" THEN "idle" ELSE "open"

Status == [m \in Msgs |-> IF written[m] > 0 THEN "written"
                          ELSE IF m \in dropped THEN "lost"
                          ELSE Answer(send[m])]

outbox == INSTANCE Outbox WITH status <- Status

ImplementsOutbox == outbox!Spec
=============================================================================
