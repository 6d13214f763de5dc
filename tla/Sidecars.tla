------------------------------ MODULE Sidecars ------------------------------
(***************************************************************************)
(* The three channel sidecars: Slack (Socket Mode), generic webhook and    *)
(* Discord.  Each forwards the events of its platform to the IPC bus with  *)
(* Send of the channel SDK, and posts what the runtime answers.            *)
(*                                                                         *)
(* The SDK client is taken as the module Outbox describes it; that the     *)
(* client keeps this promise is checked on ChannelClient.  The platform is *)
(* external: an event may be anything, a post may fail in any way, and a   *)
(* post that took effect may be reported as failed.                        *)
(***************************************************************************)
EXTENDS Naturals, Sequences

CONSTANTS Msgs,           \* events of the platform
          Replies,        \* messages of the runtime
          Chans,          \* conversations of the platform
          NoChan,         \* an empty channel id
          RetryAttempts   \* cfg.RetryAttempts

ASSUME SidecarsAssumption ==
  /\ NoChan \notin Chans
  /\ RetryAttempts \in Nat \ {0}

VARIABLES
  kind,       \* "slack", "webhook" or "discord"
  mode,       \* CHANNEL_MODE
  cfgChan,    \* DefaultChannel (Slack), ChannelID (Discord), or NoChan
  ctx,        \* "live", "cancelled" by SIGTERM, "exited"
  status,     \* the SDK client, see Outbox
  answer,     \* what the platform was told about each event
  socket,     \* slackSocketMode.connected
  inLoop,     \* next step of the Slack inbound loop
  inMsg,      \* the event that loop holds
  tracker,    \* Discord: the channel of the last event
  coming,     \* replies the bus has not delivered yet
  queue,      \* replies in the channel returned by Receive
  closed,     \* that channel is closed: the client has shut down
  out,        \* next step of the outbound loop
  outMsg,     \* the reply it is posting
  attempt,    \* attempts made
  posted,     \* history: how often each reply appeared on the platform
  unanswered, \* history: how often it did without the sidecar knowing
  implied,    \* history: the channel chosen for a reply that names none
  seen        \* history: channels of the events that were forwarded

None == "none"
box == INSTANCE Outbox

inVars == <<answer, socket, inLoop, inMsg, tracker, seen>>
outVars == <<out, outMsg, attempt, posted, unanswered, implied>>
queueVars == <<coming, queue, closed>>
cfgVars == <<kind, mode, cfgChan>>
vars == <<cfgVars, ctx, status, inVars, queueVars, outVars>>

Inbound == mode \in {"inbound", "bidirectional"}
Outbound == mode \in {"outbound", "bidirectional"}

\* run of each sidecar has started its goroutines.  The Slack loop runs in the
\* modes that need it, and Socket Mode is connected.
RunSlack ==
  /\ kind = "slack"
  /\ cfgChan \in Chans \cup {NoChan}
  /\ socket = Inbound
  /\ inLoop = IF Inbound THEN "read" ELSE "off"

RunWebhook == kind = "webhook" /\ cfgChan = NoChan /\ socket = FALSE /\ inLoop = "off"

RunDiscord ==
  kind = "discord" /\ cfgChan \in Chans \cup {NoChan} /\ socket = FALSE /\ inLoop = "off"

Init ==
  /\ mode \in {"inbound", "outbound", "bidirectional"}
  /\ RunSlack \/ RunWebhook \/ RunDiscord
  /\ ctx = "live"
  /\ box!Init
  /\ answer = [m \in Msgs |-> None]
  /\ inMsg = None
  /\ tracker = cfgChan
  /\ coming = Replies /\ queue = <<>> /\ closed = FALSE
  /\ out = IF Outbound THEN "idle" ELSE "off"
  /\ outMsg = None /\ attempt = 0
  /\ posted = [o \in Replies |-> 0]
  /\ unanswered = [o \in Replies |-> 0]
  /\ implied = [o \in Replies |-> NoChan]
  /\ seen = {}

Answer(m, a) == answer' = [answer EXCEPT ![m] = a]
Fresh(m) == answer[m] = None /\ status[m] = "idle"
Returned(m) == status[m] \notin {"idle", "open"}

-----------------------------------------------------------------------------
(* channel-webhook: inboundHandler.ServeHTTP, one goroutine per request.   *)

\* 405, 413 or 401, before Send.
WebhookReject(m) ==
  /\ kind = "webhook" /\ Inbound /\ ctx = "live" /\ Fresh(m)
  /\ Answer(m, "rejected")
  /\ UNCHANGED <<cfgVars, ctx, status, socket, inLoop, inMsg, tracker, seen,
                 queueVars, outVars>>

WebhookSend(m) ==
  /\ kind = "webhook" /\ Inbound /\ ctx = "live" /\ Fresh(m)
  /\ box!Call(m)
  /\ UNCHANGED <<cfgVars, ctx, inVars, queueVars, outVars>>

\* Faulty variant: answers as soon as Send has been called.
MutAnswersEarly(m) ==
  /\ kind = "webhook" /\ ctx # "exited"
  /\ answer[m] = None /\ status[m] # "idle"
  /\ Answer(m, IF status[m] = "refused" THEN "500" ELSE "202")
  /\ UNCHANGED <<cfgVars, ctx, status, socket, inLoop, inMsg, tracker, seen,
                 queueVars, outVars>>

\* 500 when Send returned an error, 202 otherwise.
WebhookAnswer(m) ==
  /\ kind = "webhook" /\ ctx # "exited"
  /\ answer[m] = None /\ Returned(m)
  /\ Answer(m, IF status[m] = "refused" THEN "500" ELSE "202")
  /\ UNCHANGED <<cfgVars, ctx, status, socket, inLoop, inMsg, tracker, seen,
                 queueVars, outVars>>

-----------------------------------------------------------------------------
(* channel-slack: slackSocketMode and runInboundLoop, one goroutine.       *)

SlackStep(pc, next) ==
  /\ kind = "slack" /\ ctx # "exited" /\ inLoop = pc
  /\ inLoop' = next
  /\ UNCHANGED <<cfgVars, ctx, tracker, seen, queueVars, outVars>>

\* An envelope without an id is not acknowledged.
SlackRead(m) ==
  /\ socket /\ Fresh(m)
  /\ \E hasID \in BOOLEAN : SlackStep("read", IF hasID THEN "ack" ELSE "send")
  /\ inMsg' = m
  /\ UNCHANGED <<status, answer, socket>>

\* The read fails, or (connected stays TRUE) the envelope cannot be parsed.
SlackReadFails ==
  /\ SlackStep("read", IF ctx = "live" THEN "reconnect" ELSE "off")
  /\ socket' \in {socket, FALSE}
  /\ UNCHANGED <<status, answer, inMsg>>

\* Connect after two seconds; it is repeated until it works.
SlackReconnect ==
  /\ SlackStep("reconnect", "read")
  /\ socket' = TRUE
  /\ UNCHANGED <<status, answer, inMsg>>

SlackStops ==
  /\ ctx = "cancelled"
  /\ SlackStep("reconnect", "off")
  /\ UNCHANGED <<status, answer, socket, inMsg>>

\* Acknowledge comes before Send; its failure is logged only.
SlackAck ==
  /\ SlackStep("ack", "send")
  /\ \/ Answer(inMsg, "acked")
     \/ UNCHANGED answer
  /\ UNCHANGED <<status, socket, inMsg>>

SlackSend ==
  /\ SlackStep("send", "sent")
  /\ box!Call(inMsg)
  /\ UNCHANGED <<answer, socket, inMsg>>

\* An error of Send is logged only.
SlackSent ==
  /\ inLoop = "sent" /\ Returned(inMsg)
  /\ SlackStep("sent", IF ctx = "live" THEN "read" ELSE "off")
  /\ inMsg' = None
  /\ UNCHANGED <<status, answer, socket>>

-----------------------------------------------------------------------------
(* channel-discord: the message handler, one goroutine per event.          *)

\* Events of bots, of other channels than the configured one, and without
\* text are ignored.
Wanted(bot, ch, empty) ==
  ~bot /\ (cfgChan = NoChan \/ ch = cfgChan) /\ ~empty

\* Faulty variant: remembers the channel before it looks at the event.
MutTracksFirst(m) ==
  /\ kind = "discord" /\ Inbound /\ ctx = "live" /\ Fresh(m)
  /\ \E bot, empty \in BOOLEAN, ch \in Chans :
       /\ tracker' = ch
       /\ IF Wanted(bot, ch, empty)
          THEN seen' = seen \cup {ch} /\ box!Call(m) /\ UNCHANGED answer
          ELSE Answer(m, "ignored") /\ UNCHANGED <<seen, status>>
  /\ UNCHANGED <<cfgVars, ctx, socket, inLoop, inMsg, queueVars, outVars>>

DiscordMessage(m) ==
  /\ kind = "discord" /\ Inbound /\ ctx = "live" /\ Fresh(m)
  /\ \E bot, empty \in BOOLEAN, ch \in Chans :
       IF Wanted(bot, ch, empty)
       THEN /\ tracker' = ch /\ seen' = seen \cup {ch}
            /\ box!Call(m)
            /\ UNCHANGED answer
       ELSE /\ Answer(m, "ignored")
            /\ UNCHANGED <<tracker, seen, status>>
  /\ UNCHANGED <<cfgVars, ctx, socket, inLoop, inMsg, queueVars, outVars>>

-----------------------------------------------------------------------------
(* The outbound loops: runOutboundLoop and post of each sidecar.           *)

OutStep(pc, next) ==
  /\ ctx # "exited" /\ out = pc
  /\ out' = next
  /\ UNCHANGED <<cfgVars, ctx, status, inVars>>

\* Taking a reply whose own channel is `named` (NoChan when it names none).
\* A reply that cannot be parsed, has no text (Discord), or has no channel to
\* go to (Slack, Discord) is logged and dropped.
Destination(named) ==
  LET firstNonEmpty(c, d) == IF c # NoChan THEN c ELSE d
  IN firstNonEmpty(named,
       firstNonEmpty(cfgChan, IF kind = "discord" THEN tracker ELSE NoChan))

OutTake ==
  /\ queue # <<>> /\ queue' = Tail(queue)
  /\ \E valid \in BOOLEAN, named \in Chans \cup {NoChan} :
       LET to == Destination(named)
           ok == kind = "webhook" \/ (valid /\ to # NoChan)
       IN /\ OutStep("idle", IF ok THEN "post" ELSE "idle")
          /\ outMsg' = IF ok THEN Head(queue) ELSE None
          /\ implied' = IF ok /\ kind # "webhook" /\ named = NoChan
                        THEN [implied EXCEPT ![Head(queue)] = to]
                        ELSE implied
  /\ attempt' = 0
  /\ UNCHANGED <<coming, closed, posted, unanswered>>

OutDone == /\ outMsg' = None /\ attempt' = 0

\* Faulty variant: the loop goes on after a success.
MutPostsAgain ==
  /\ OutStep("post", "sleep")
  /\ posted' = [posted EXCEPT ![outMsg] = @ + 1]
  /\ attempt' = attempt + 1
  /\ UNCHANGED <<outMsg, unanswered, implied, queueVars>>

\* The post took effect and the sidecar knows: return nil.
PostOK ==
  /\ OutStep("post", "idle")
  /\ posted' = [posted EXCEPT ![outMsg] = @ + 1]
  /\ OutDone
  /\ UNCHANGED <<unanswered, implied, queueVars>>

\* A final error: slackAPIError, or any error of Discord, which never retries.
PostFinal ==
  /\ OutStep("post", "idle")
  /\ \E effect \in (IF kind = "discord" THEN {0, 1} ELSE {0}) :
       /\ posted' = [posted EXCEPT ![outMsg] = @ + effect]
       /\ unanswered' = [unanswered EXCEPT ![outMsg] = @ + effect]
  /\ OutDone
  /\ UNCHANGED <<implied, queueVars>>

\* Faulty variant: a rate-limited attempt is not counted.
MutRateLimitFree ==
  /\ OutStep("post", "sleep")
  /\ \E effect \in {0, 1}, counted \in {0, 1} :
       /\ posted' = [posted EXCEPT ![outMsg] = @ + effect]
       /\ unanswered' = [unanswered EXCEPT ![outMsg] = @ + effect]
       /\ effect <= counted
       /\ attempt' = attempt + counted
  /\ UNCHANGED <<outMsg, implied, queueVars>>

\* A transient error: no answer (the post may have taken effect), a bad
\* status, or a rate limit.  Then the loop sleeps, after the last attempt too.
PostRetry ==
  /\ OutStep("post", "sleep")
  /\ \E effect \in {0, 1} :
       /\ posted' = [posted EXCEPT ![outMsg] = @ + effect]
       /\ unanswered' = [unanswered EXCEPT ![outMsg] = @ + effect]
  /\ attempt' = attempt + 1
  /\ UNCHANGED <<outMsg, implied, queueVars>>

PostAgain ==
  /\ attempt < RetryAttempts
  /\ OutStep("sleep", "post")
  /\ UNCHANGED <<outMsg, attempt, posted, unanswered, implied,
                 queueVars>>

\* All attempts made, or the context was cancelled during the sleep.
PostGivesUp ==
  /\ attempt >= RetryAttempts \/ ctx = "cancelled"
  /\ OutStep("sleep", "idle")
  /\ OutDone
  /\ UNCHANGED <<posted, unanswered, implied, queueVars>>

\* post of each sidecar: a webhook's errors are all transient, Discord's none.
SlackPost ==
  kind = "slack" /\ (PostOK \/ PostFinal \/ PostRetry \/ PostAgain \/ PostGivesUp)
WebhookPost == kind = "webhook" /\ (PostOK \/ PostRetry \/ PostAgain \/ PostGivesUp)
DiscordPost == kind = "discord" /\ (PostOK \/ PostFinal)

OutStops ==
  /\ ctx = "cancelled" \/ (closed /\ queue = <<>>)
  /\ OutStep("idle", "off")
  /\ UNCHANGED <<outMsg, attempt, posted, unanswered, implied,
                 queueVars>>

-----------------------------------------------------------------------------
(* The SDK client and the process.                                         *)

\* The client settles a call or an accepted message.
ClientSettles(m) ==
  /\ ctx # "exited"
  /\ box!Settle(m)
  /\ UNCHANGED <<cfgVars, ctx, inVars, queueVars, outVars>>

Receive(o) ==
  /\ ctx # "exited" /\ Outbound /\ ~closed
  /\ o \in coming /\ coming' = coming \ {o}
  /\ queue' = Append(queue, o)
  /\ UNCHANGED <<cfgVars, ctx, status, inVars, closed, outVars>>

\* The bus sent a shutdown message: the client closes the channel, and the
\* sidecar goes on serving.
ClientCloses ==
  /\ ctx # "exited" /\ ~closed
  /\ closed' = TRUE
  /\ UNCHANGED <<cfgVars, ctx, status, inVars, coming, queue, outVars>>

Terminate ==
  /\ ctx = "live"
  /\ ctx' = "cancelled"
  /\ UNCHANGED <<cfgVars, status, inVars, queueVars, outVars>>

\* The HTTP server has shut down (within five seconds) and run returns.
Exit ==
  /\ ctx = "cancelled"
  /\ ctx' = "exited"
  /\ UNCHANGED <<cfgVars, status, inVars, queueVars, outVars>>

-----------------------------------------------------------------------------
Slack == \/ \E m \in Msgs : SlackRead(m)
         \/ SlackReadFails \/ SlackReconnect \/ SlackStops
         \/ SlackAck \/ SlackSend \/ SlackSent

OutLoop == OutTake \/ SlackPost \/ WebhookPost \/ DiscordPost \/ OutStops

Next ==
  \/ \E m \in Msgs : \/ WebhookReject(m) \/ WebhookSend(m) \/ WebhookAnswer(m)
                     \/ DiscordMessage(m) \/ ClientSettles(m)
  \/ Slack \/ OutLoop
  \/ \E o \in Replies : Receive(o)
  \/ ClientCloses \/ Terminate \/ Exit

\* The outbound goroutine is scheduled, timers fire and every HTTP call ends
\* (the clients have a timeout of ten seconds).
Spec == Init /\ [][Next]_vars /\ WF_vars(OutLoop)

-----------------------------------------------------------------------------
(* inboundHandler.ServeHTTP answers what became of the request: after 202   *)
(* the SDK client has taken the message, after an error it is nowhere and   *)
(* never reaches the bus, so the sender may repeat it.  An event the        *)
(* Discord handler ignores is never forwarded.                              *)
AnsweredTruthfully ==
  \A m \in Msgs :
    /\ answer[m] = "202" => status[m] \in {"accepted", "written", "lost"}
    /\ answer[m] \in {"500", "rejected", "ignored"}
         => status[m] \in {"idle", "refused"}

(* post: a reply appears twice on the platform only when the sidecar was    *)
(* not told that an earlier attempt had worked, and never more often than   *)
(* there are attempts.                                                      *)
PostedOnce ==
  \A o \in Replies : /\ posted[o] <= 1 + unanswered[o]
                     /\ posted[o] <= RetryAttempts

(* discordPoster.post and slackPoster.post: a reply that names no channel   *)
(* goes to the configured channel, and if there is none to the channel of   *)
(* an event that was forwarded to the runtime, never to one that was only   *)
(* seen and ignored.                                                        *)
RepliesToSeenChannel ==
  \A o \in Replies :
    implied[o] # NoChan =>
      IF cfgChan # NoChan THEN implied[o] = cfgChan ELSE implied[o] \in seen
=============================================================================
