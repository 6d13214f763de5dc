------------------------------- MODULE IPCBus -------------------------------
(***************************************************************************)
(* The IPC bus sidecar: cmd/ipcbus/main.go, internal/ipcbus/server.go,     *)
(* router.go and the WAL, with the channel clients and the runtime bridge  *)
(* they talk to.                                                           *)
(*                                                                         *)
(* Every accepted socket has a handler goroutine (handleConn) that reads a *)
(* message and takes it through HandleInbound; pc[c] is the next step of   *)
(* the handler of socket c.  The steps of different handlers, the          *)
(* compaction ticker, the shutdown sequence, the bridge and the clients    *)
(* interleave; the process may die between any two of them.                *)
(*                                                                         *)
(* One SDK client serves each channel and holds at most one open socket.   *)
(* A socket delivers in order and its data can still be read after the     *)
(* client has closed it, so a message may arrive on a closed socket.       *)
(***************************************************************************)
EXTENDS WAL, Backpressure

CONSTANTS Chan,              \* channels
          Sockets,           \* sockets per channel whose handlers may coexist
          MaxRetryAttempts,  \* maxRetryAttempts (5 in router.go)
          Bridges,           \* kinds: "dialled" once (WebSocket, TCP, UDS) or
                             \* "posting" each message anew (SSE)
          Env                \* which of EnvEvents may happen

EnvEvents == {"crash", "bridge", "disconnect", "term", "compact", "dlq"}

ASSUME BusAssumption ==
  /\ Sockets \in Nat \ {0} /\ MaxRetryAttempts \in Nat
  /\ Bridges \subseteq {"dialled", "posting"}
  /\ Env \subseteq EnvEvents

Conn == Chan \X (1 .. Sockets)
ChanOf(c) == c[1]
ConnsOf(ch) == {c \in Conn : ChanOf(c) = ch}
NoConn == <<>>

NoMsg == "none"

VARIABLES
  stage,      \* of runServe: "boot", "replay", "serve"
  replaying,  \* snapshot of PendingEntries still to be replayed
  replayed,   \* the entry sent to the bridge and not yet completed
  pc,         \* next step of each socket's handler, "none" without one
  cur,        \* the message the handler works on
  sidecars,   \* r.sidecars: the connection registered for each channel
  queue,      \* r.buffers: the ring buffer of each channel
  bridge,     \* its kind, and "nil" (never connected), "up", "broken", "closed"
  stop,       \* of shutdown: "no", "notified", "flushed", "closed", "cancelled"
  dlq,        \* the dead-lettered messages
  open,       \* the client's end of each socket
  throttled,  \* each client's flow-control flag
  retired,    \* the channels whose client obeyed a shutdown message
  unsent,     \* messages no client has sent yet
  delivered,  \* history: the messages bridge.Send has accepted
  logged      \* history: the messages this process has had in its WAL

procVars == <<stage, replaying, replayed, pc, cur, sidecars, queue, stop>>
clientVars == <<open, throttled, retired, unsent>>
busVars == <<procVars, clientVars, bridge, dlq, delivered, logged>>
vars == <<walVars, busVars>>

-----------------------------------------------------------------------------
FreshProcess ==
  /\ stage' = "boot" /\ replaying' = {} /\ replayed' = NoMsg
  /\ pc' = [c \in Conn |-> "none"]
  /\ cur' = [c \in Conn |-> NoMsg]
  /\ sidecars' = [ch \in Chan |-> NoConn]
  /\ queue' = [ch \in Chan |-> EmptyQueue]
  /\ stop' = "no"

Init ==
  /\ WALInit
  /\ stage = "boot" /\ replaying = {} /\ replayed = NoMsg
  /\ pc = [c \in Conn |-> "none"]
  /\ cur = [c \in Conn |-> NoMsg]
  /\ sidecars = [ch \in Chan |-> NoConn]
  /\ queue = [ch \in Chan |-> EmptyQueue]
  /\ bridge \in [kind : Bridges, state : {"nil"}] /\ stop = "no" /\ dlq = {}
  /\ open = [c \in Conn |-> FALSE]
  /\ throttled = [ch \in Chan |-> FALSE]
  /\ retired = {} /\ unsent = Id /\ delivered = {} /\ logged = {}

Bridge(st) == bridge' = [bridge EXCEPT !.state = st]

-----------------------------------------------------------------------------
(* Start-up: runServe up to server.Start.                                  *)

\* A failed bridge.Connect is logged and start-up goes on.
Boot ==
  /\ stage = "boot"
  /\ NewWAL
  /\ \/ Bridge("up")
     \/ "bridge" \in Env /\ Bridge("nil")
  /\ stage' = "replay"
  /\ replaying' = {id \in Id : entries'[id] # 0}
  /\ logged' = replaying'
  /\ UNCHANGED <<replayed, pc, cur, sidecars, queue, stop, clientVars, dlq,
                 delivered>>

\* bridge.Send as its callers see it; a cancelled context fails it.
BridgeAccepts == bridge.state = "up" /\ stop # "cancelled"

\* Faulty variant: an entry is completed although the bridge refused it.
MutReplayIgnoresError(id) ==
  /\ stage = "replay" /\ replayed = NoMsg /\ id \in replaying
  /\ replaying' = replaying \ {id}
  /\ replayed' = id
  /\ delivered' = IF BridgeAccepts THEN delivered \cup {id} ELSE delivered
  /\ UNCHANGED <<walVars, clientVars, stage, pc, cur, sidecars, queue, bridge,
                 stop, dlq, logged>>

ReplaySend(id) ==
  /\ stage = "replay" /\ replayed = NoMsg /\ id \in replaying
  /\ replaying' = replaying \ {id}
  /\ IF BridgeAccepts
       THEN delivered' = delivered \cup {id} /\ replayed' = id
       ELSE UNCHANGED <<delivered, replayed>>
  /\ UNCHANGED <<walVars, clientVars, stage, pc, cur, sidecars, queue, bridge,
                 stop, dlq, logged>>

ReplayComplete ==
  /\ replayed # NoMsg
  /\ \/ Complete(replayed) \/ RemoveErr(replayed, "complete")
  /\ replayed' = NoMsg
  /\ UNCHANGED <<stage, replaying, pc, cur, sidecars, queue, bridge, stop, dlq,
                 clientVars, delivered, logged>>

Serve ==
  /\ stage = "replay" /\ replaying = {} /\ replayed = NoMsg
  /\ stage' = "serve"
  /\ UNCHANGED <<walVars, clientVars, replaying, replayed, pc, cur, sidecars,
                 queue, bridge, stop, dlq, delivered, logged>>

-----------------------------------------------------------------------------
(* Connections: Server.Start, handleConn, Register and Unregister.          *)

\* A client dials only after it has closed its previous socket; the listener
\* accepts until the context is cancelled.
Connect(c) ==
  /\ stage = "serve" /\ stop # "cancelled"
  /\ pc[c] = "none" /\ ~open[c]
  /\ ChanOf(c) \notin retired
  /\ \A d \in ConnsOf(ChanOf(c)) : ~open[d]
  /\ open' = [open EXCEPT ![c] = TRUE]
  /\ pc' = [pc EXCEPT ![c] = "read"]
  /\ sidecars' = [sidecars EXCEPT ![ChanOf(c)] = c]
  /\ UNCHANGED <<walVars, stage, replaying, replayed, cur, queue, bridge, stop,
                 dlq, throttled, retired, unsent, delivered, logged>>

\* The client closes its end, or the socket breaks.
Disconnect(c) ==
  /\ "disconnect" \in Env
  /\ open[c]
  /\ open' = [open EXCEPT ![c] = FALSE]
  /\ UNCHANGED <<walVars, procVars, bridge, dlq, throttled, retired, unsent,
                 delivered, logged>>

\* Unregister deletes the channel's registration, whoever holds it.
Unregister(c) == sidecars' = [sidecars EXCEPT ![ChanOf(c)] = NoConn]

\* ReadMessage returns an error and handleConn its deferred Unregister.
Leave(c) ==
  /\ pc[c] = "read" /\ ~open[c]
  /\ pc' = [pc EXCEPT ![c] = "none"]
  /\ Unregister(c)
  /\ UNCHANGED <<walVars, clientVars, stage, replaying, replayed, cur, queue,
                 bridge, stop, dlq, delivered, logged>>

-----------------------------------------------------------------------------
(* HandleInbound, step by step.                                             *)

At(c, step) == stage = "serve" /\ pc[c] = step

Goto(c, step) == pc' = [pc EXCEPT ![c] = step] /\ UNCHANGED <<cur, sidecars>>

\* Back to handleConn's loop, which ends once the context is cancelled.
Finish(c) ==
  /\ cur' = [cur EXCEPT ![c] = NoMsg]
  /\ IF stop = "cancelled"
       THEN pc' = [pc EXCEPT ![c] = "none"] /\ Unregister(c)
       ELSE pc' = [pc EXCEPT ![c] = "read"] /\ UNCHANGED sidecars

\* A failed append is logged and the message goes on without a WAL entry.
Arrive(c, m) ==
  /\ At(c, "read") /\ m \in unsent
  /\ \/ WALAppend(m) /\ logged' = logged \cup {m}
     \/ AppendErr(m) /\ UNCHANGED logged
  /\ unsent' = unsent \ {m}
  /\ pc' = [pc EXCEPT ![c] = "push"]
  /\ cur' = [cur EXCEPT ![c] = m]
  /\ UNCHANGED <<stage, replaying, replayed, sidecars, queue, bridge, stop, dlq,
                 open, throttled, retired, delivered>>

\* A full buffer is logged and otherwise ignored.
Push(c) ==
  /\ At(c, "push")
  /\ queue' = [queue EXCEPT ![ChanOf(c)] = Pushed(@, cur[c])]
  /\ Goto(c, IF queue'[ChanOf(c)].state # queue[ChanOf(c)].state
             THEN "slow" ELSE "send")
  /\ UNCHANGED <<walVars, clientVars, stage, replaying, replayed, bridge, stop,
                 dlq, delivered, logged>>

\* from.Send of a flow-control message: lost when the client has closed.
Signal(c, flag) ==
  throttled' = IF open[c] THEN [throttled EXCEPT ![ChanOf(c)] = flag]
                          ELSE throttled

SlowDown(c) ==
  /\ At(c, "slow")
  /\ Signal(c, TRUE)
  /\ Goto(c, "send")
  /\ UNCHANGED <<walVars, stage, replaying, replayed, queue, bridge, stop, dlq,
                 open, retired, unsent, delivered, logged>>

\* Faulty variant: a message whose sender has gone is dropped.
MutDropsOrphans(c) ==
  /\ At(c, "send")
  /\ IF ~open[c] THEN UNCHANGED delivered /\ Goto(c, "pop")
     ELSE IF BridgeAccepts
       THEN delivered' = delivered \cup {cur[c]} /\ Goto(c, "complete")
       ELSE UNCHANGED delivered /\ Goto(c, "retry")
  /\ UNCHANGED <<walVars, clientVars, stage, replaying, replayed, queue, bridge,
                 stop, dlq, logged>>

BridgeSend(c) ==
  /\ At(c, "send")
  /\ IF BridgeAccepts
       THEN delivered' = delivered \cup {cur[c]} /\ Goto(c, "complete")
       ELSE UNCHANGED delivered /\ Goto(c, "retry")
  /\ UNCHANGED <<walVars, clientVars, stage, replaying, replayed, queue, bridge,
                 stop, dlq, logged>>

\* scheduleRetry: only the WAL's counter is advanced; a missing entry or a
\* failed write ends it.
Retry(c) ==
  /\ At(c, "retry")
  /\ \/ /\ IncrementAttempts(cur[c])
        /\ IF entries'[cur[c]] >= MaxRetryAttempts
             THEN Goto(c, "mark") ELSE Finish(c)
     \/ IncrementAttemptsErr(cur[c]) /\ Finish(c)
     \/ entries[cur[c]] = 0 /\ Idle /\ UNCHANGED walVars /\ Finish(c)
  /\ UNCHANGED <<clientVars, stage, replaying, replayed, queue, bridge, stop,
                 dlq, delivered, logged>>

\* Faulty variant: a message marked in the WAL is not put into the DLQ.
MutMarkOnly(c) ==
  /\ At(c, "mark")
  /\ MarkDLQ(cur[c]) \/ RemoveErr(cur[c], "dlq")
  /\ Finish(c)
  /\ UNCHANGED <<clientVars, stage, replaying, replayed, queue, bridge, stop,
                 dlq, delivered, logged>>

Mark(c) ==
  /\ At(c, "mark")
  /\ MarkDLQ(cur[c]) \/ RemoveErr(cur[c], "dlq")
  /\ Goto(c, "put")
  /\ UNCHANGED <<clientVars, stage, replaying, replayed, queue, bridge, stop,
                 dlq, delivered, logged>>

\* dlq.Put is one BoltDB transaction; its failure is only logged.
Put(c) ==
  /\ At(c, "put")
  /\ dlq' \in {dlq \cup {cur[c]}} \cup (IF "dlq" \in Env THEN {dlq} ELSE {})
  /\ Finish(c)
  /\ UNCHANGED <<walVars, clientVars, stage, replaying, replayed, queue, bridge,
                 stop, delivered, logged>>

\* Faulty variant: the message stays in the ring buffer.
MutCompleteNoPop(c) ==
  /\ At(c, "complete")
  /\ \/ Complete(cur[c]) \/ RemoveErr(cur[c], "complete")
     \/ entries[cur[c]] = 0 /\ Idle /\ UNCHANGED walVars
  /\ Finish(c)
  /\ UNCHANGED <<clientVars, stage, replaying, replayed, queue, bridge, stop,
                 dlq, delivered, logged>>

CompleteMsg(c) ==
  /\ At(c, "complete")
  /\ \/ Complete(cur[c]) \/ RemoveErr(cur[c], "complete")
     \/ entries[cur[c]] = 0 /\ Idle /\ UNCHANGED walVars
  /\ Goto(c, "pop")
  /\ UNCHANGED <<clientVars, stage, replaying, replayed, queue, bridge, stop,
                 dlq, delivered, logged>>

\* Faulty variant: the state change that Pop reports is ignored.
MutPopSilent(c) ==
  /\ At(c, "pop")
  /\ queue' = [queue EXCEPT ![ChanOf(c)] = Popped(@)]
  /\ Finish(c)
  /\ UNCHANGED <<walVars, clientVars, stage, replaying, replayed, bridge, stop,
                 dlq, delivered, logged>>

\* Pop takes the oldest message of the channel, not necessarily this one.
Pop(c) ==
  /\ At(c, "pop")
  /\ queue' = [queue EXCEPT ![ChanOf(c)] = Popped(@)]
  /\ IF queue'[ChanOf(c)].state # queue[ChanOf(c)].state
       THEN Goto(c, "resume") ELSE Finish(c)
  /\ UNCHANGED <<walVars, clientVars, stage, replaying, replayed, bridge, stop,
                 dlq, delivered, logged>>

Resume(c) ==
  /\ At(c, "resume")
  /\ Signal(c, FALSE)
  /\ Finish(c)
  /\ UNCHANGED <<walVars, stage, replaying, replayed, queue, bridge, stop, dlq,
                 open, retired, unsent, delivered, logged>>

Handle(c) ==
  \/ Push(c) \/ SlowDown(c) \/ BridgeSend(c)
  \/ Retry(c) \/ Mark(c) \/ Put(c)
  \/ CompleteMsg(c) \/ Pop(c) \/ Resume(c)

-----------------------------------------------------------------------------
(* Shutdown on SIGTERM, main.go.                                            *)

\* SendShutdown reaches the registered connections; an SDK client that reads
\* the message closes its socket and does not come back.
SendShutdown ==
  /\ "term" \in Env
  /\ running /\ stop = "no"
  /\ LET told == {ch \in Chan : sidecars[ch] # NoConn /\ open[sidecars[ch]]} IN
     /\ open' = [c \in Conn |-> open[c] /\ ~(ChanOf(c) \in told
                                             /\ sidecars[ChanOf(c)] = c)]
     /\ retired' = retired \cup told
  /\ stop' = "notified"
  /\ UNCHANGED <<walVars, stage, replaying, replayed, pc, cur, sidecars, queue,
                 bridge, dlq, throttled, unsent, delivered, logged>>

\* wal.Flush after the five seconds of drain; its error is only logged.
FlushOnStop ==
  /\ stop = "notified"
  /\ Flush \/ FlushErr
  /\ stop' = "flushed"
  /\ UNCHANGED <<stage, replaying, replayed, pc, cur, sidecars, queue, bridge,
                 dlq, clientVars, delivered, logged>>

\* SSEBridge.Close ends its event stream; posting still works.
CloseBridge ==
  /\ stop = "flushed"
  /\ IF bridge.kind = "dialled" THEN Bridge("closed") ELSE UNCHANGED bridge
  /\ stop' = "closed"
  /\ UNCHANGED <<walVars, clientVars, stage, replaying, replayed, pc, cur,
                 sidecars, queue, dlq, delivered, logged>>

Cancel ==
  /\ stop = "closed"
  /\ stop' = "cancelled"
  /\ UNCHANGED <<walVars, clientVars, stage, replaying, replayed, pc, cur,
                 sidecars, queue, bridge, dlq, delivered, logged>>

\* The process ends: its memory is gone, its sockets break.
Die ==
  /\ Crash
  /\ FreshProcess
  /\ Bridge("nil")
  /\ open' = [c \in Conn |-> FALSE]
  /\ UNCHANGED <<throttled, retired, unsent, dlq, delivered, logged>>

\* server.Start returns once every handler has; nothing flushes the WAL again.
Exit ==
  /\ stop = "cancelled" /\ stage = "serve"
  /\ \A c \in Conn : pc[c] = "none"
  /\ Die

Kill == "crash" \in Env /\ Die

\* Receive on a WebSocket or stream bridge that never connected dereferences a
\* nil connection in its goroutine.
OutboundPanic == bridge = [kind |-> "dialled", state |-> "nil"] /\ Die

-----------------------------------------------------------------------------
(* The rest of the pod.                                                     *)

BridgeBreaks ==
  /\ "bridge" \in Env
  /\ bridge.state = "up"
  /\ Bridge("broken")
  /\ UNCHANGED <<walVars, procVars, clientVars, dlq, delivered, logged>>

\* Only the SSE bridge, which posts each message anew, works again when the
\* runtime does.
BridgeHeals ==
  /\ bridge.kind = "posting"
  /\ running /\ bridge.state \in {"nil", "broken"}
  /\ Bridge("up")
  /\ UNCHANGED <<walVars, procVars, clientVars, dlq, delivered, logged>>

\* runCompactionTicker, which ends with the context but not inside Compact.
Compaction ==
  /\ "compact" \in Env
  /\ stage = "serve"
  /\ stop = "cancelled" => compact # "idle"
  /\ CompactStep
  /\ UNCHANGED busVars

Replaying == ReplayComplete \/ Serve \/ \E id \in Id : ReplaySend(id)

ShuttingDown == FlushOnStop \/ CloseBridge \/ Cancel \/ Exit

Next ==
  \/ Boot \/ Replaying
  \/ \E c \in Conn : Connect(c) \/ Disconnect(c) \/ Leave(c) \/ Handle(c)
  \/ \E c \in Conn, m \in Id : Arrive(c, m)
  \/ SendShutdown \/ ShuttingDown
  \/ Kill \/ OutboundPanic
  \/ BridgeBreaks \/ BridgeHeals
  \/ Compaction

Spec == Init /\ [][Next]_vars

\* Goroutines are scheduled and a sync.Mutex does not starve a waiter (hence
\* SF: Compact may hold w.mu whenever a handler needs it); the kubelet restarts
\* the container, a client keeps redialling and a stopped runtime comes back.
\* Nobody has to send.
Fairness ==
  /\ WF_vars(Boot) /\ WF_vars(Replaying) /\ WF_vars(ShuttingDown)
  /\ \A c \in Conn : SF_vars(Handle(c)) /\ WF_vars(Leave(c))
  /\ \A ch \in Chan : WF_vars(\E c \in ConnsOf(ch) : Connect(c))
  /\ WF_vars(BridgeHeals)
  /\ WF_vars(compact # "idle" /\ Compaction)

FairSpec == Spec /\ Fairness

-----------------------------------------------------------------------------
\* However handlers, replay and crashes interleave, the log never says that a
\* message is complete before the bridge has accepted it (HandleInbound and
\* ReplayWAL write the record after bridge.Send).
CompletedWasDelivered ==
  \A i \in DOMAIN Written :
     Written[i].state = "complete" => Written[i].id \in delivered

BeingPut(m) == \E c \in Conn : pc[c] = "put" /\ cur[c] = m

\* While the process lives, a message it has logged is delivered, pending in
\* the map, dead-lettered, or on its way from the WAL to the DLQ.
HeldWhileUp ==
  running => \A m \in logged :
     m \in delivered \/ entries[m] # 0 \/ m \in dlq \/ BeingPut(m)

\* When the bridge has taken every message, a channel's ring buffer counts the
\* messages its handlers still work on, also across reconnections.
BufferCountsInFlight ==
  \A ch \in Chan :
     Len(queue[ch].items) =
       Cardinality({c \in ConnsOf(ch) :
                      pc[c] \in {"slow", "send", "complete", "pop"}})

\* "append-only write-ahead log for at-least-once delivery": once the process
\* has ended, what it had logged was delivered, is recoverable or is in the DLQ.
AtLeastOnce ==
  ~running => \A m \in logged :
     m \in delivered \/ Replay(OnDisk)[m] # 0 \/ m \in dlq

\* A sidecar with a handler and an open socket is the one registered for its
\* channel, so outbound messages and the shutdown message reach it.
ConnectedIsRegistered ==
  \A c \in Conn :
     (pc[c] # "none" /\ open[c]) => sidecars[ChanOf(c)] = c

BridgeStaysUp == <>[](running /\ bridge.state = "up")

\* A logged message reaches the runtime or the DLQ once the bridge works for
\* good.
LoggedIsSettled ==
  BridgeStaysUp =>
    \A m \in Id : (m \in logged) ~> (m \in delivered \/ m \in dlq)

ClientsStayConnected == <>[](\A ch \in Chan : \E c \in ConnsOf(ch) : open[c])

\* A client told to slow down is told to resume once the bridge works and the
\* client stays connected for good (its Send "blocks until resumed").
ThrottledIsResumed ==
  (BridgeStaysUp /\ ClientsStayConnected) =>
    \A ch \in Chan : throttled[ch] ~> ~throttled[ch]

\* The same, as long as no handler writes its resume message to a socket that
\* the client has closed meanwhile: the watermarks of the shared ring buffer
\* pair every slow_down with a resume although several handlers push and pop.
ResumedUnlessLost ==
  [](\A c \in Conn : pc[c] = "resume" => open[c]) => ThrottledIsResumed
=============================================================================
