--------------------------- MODULE SidecarsProofs ---------------------------
(***************************************************************************)
(* Proofs about Sidecars for every set of events, replies and channels and *)
(* every number of attempts.  Each property gets the facts that make it    *)
(* inductive: what a Slack sidecar answers, where the Discord tracker      *)
(* comes from, and in which one place a reply is.                          *)
(***************************************************************************)
EXTENDS Sidecars, SequenceTheorems, TLAPS

Channel == Chans \cup {NoChan}
Answers == {None, "202", "500", "rejected", "ignored", "acked"}

\* The variables keep their types; a loop that works on a message has one.
SideTypeOK ==
  /\ cfgChan \in Channel /\ tracker \in Channel
  /\ status \in [Msgs -> box!Statuses]
  /\ answer \in [Msgs -> Answers]
  /\ inLoop \in {"ack", "send", "sent"} => inMsg \in Msgs
  /\ coming \subseteq Replies /\ queue \in Seq(Replies)
  /\ out \in {"off", "idle", "post", "sleep"}
  /\ out \in {"post", "sleep"} => outMsg \in Replies
  /\ attempt \in Nat
  /\ posted \in [Replies -> Nat] /\ unanswered \in [Replies -> Nat]
  /\ implied \in [Replies -> Channel]

AnswerInv ==
  /\ kind = "slack" => \A m \in Msgs : answer[m] \in {None, "acked"}
  /\ AnsweredTruthfully

TrackInv ==
  /\ kind = "discord" => tracker \in seen \cup {cfgChan}
  /\ RepliesToSeenChannel

Posting == out \in {"post", "sleep"}
Untried(o) == posted[o] = 0 /\ unanswered[o] = 0 /\ ~(Posting /\ outMsg = o)

\* A reply is still coming, waits in the queue once, or is in the hands of the
\* outbound loop, which knows of no success and has attempts left.
PostInv ==
  /\ PostedOnce
  /\ \A o \in coming : Untried(o) /\ \A i \in 1 .. Len(queue) : queue[i] # o
  /\ \A i \in 1 .. Len(queue) : Untried(queue[i])
  /\ \A i, j \in 1 .. Len(queue) : queue[i] = queue[j] => i = j
  /\ Posting => /\ posted[outMsg] = unanswered[outMsg]
                /\ posted[outMsg] <= attempt /\ attempt <= RetryAttempts
  /\ out = "post" => attempt < RetryAttempts

SideInv == SideTypeOK /\ AnswerInv /\ TrackInv /\ PostInv

-----------------------------------------------------------------------------
(* The SDK client.                                                         *)

LEMMA CallStatus ==
  ASSUME status \in [Msgs -> box!Statuses], NEW m \in Msgs, box!Call(m)
  PROVE  /\ status[m] = "idle" /\ status' = [status EXCEPT ![m] = "open"]
         /\ status' \in [Msgs -> box!Statuses]
BY DEF box!Call, box!Move, box!Moves, box!Statuses

LEMMA SettleStatus ==
  ASSUME status \in [Msgs -> box!Statuses], NEW m \in Msgs, box!Settle(m)
  PROVE  /\ status' \in [Msgs -> box!Statuses]
         /\ \A n \in Msgs : n # m => status'[n] = status[n]
         /\ status[m] \in {"open", "accepted"}
         /\ status[m] = "accepted" => status'[m] \in {"written", "lost"}
BY DEF box!Settle, box!Move, box!Moves, box!Statuses

-----------------------------------------------------------------------------
LEMMA SideInit == Init => SideInv
<1> SUFFICES ASSUME Init PROVE SideInv
  OBVIOUS
<1>1. SideTypeOK
  BY SidecarsAssumption DEF Init, box!Init, box!Statuses, SideTypeOK, Channel, Answers,
     RunSlack, RunWebhook, RunDiscord, None
<1>2. AnswerInv
  BY DEF Init, AnswerInv, AnsweredTruthfully, None
<1>3. TrackInv
  BY DEF Init, TrackInv, RepliesToSeenChannel
<1>4. PostInv
  BY SidecarsAssumption DEF Init, PostInv, PostedOnce, Posting, Untried
<1> QED
  BY <1>1, <1>2, <1>3, <1>4 DEF SideInv

-----------------------------------------------------------------------------
(* The inbound half: no step of it touches the outbound loop.              *)

\* An inbound step, as seen from the outbound half.
Inward == UNCHANGED <<cfgVars, queueVars, outVars>>

LEMMA InwardPost ==
  ASSUME PostInv, Inward
  PROVE  PostInv'
BY DEF PostInv, PostedOnce, Posting, Untried, Inward, queueVars, outVars

\* A step that leaves channel and replies alone, and forgets no channel.
LEMMA KeepsTrack ==
  ASSUME TrackInv, UNCHANGED <<cfgVars, tracker, seen, implied>>
  PROVE  TrackInv'
BY DEF TrackInv, RepliesToSeenChannel, cfgVars

LEMMA WebhookStep ==
  ASSUME SideInv, NEW m \in Msgs,
         WebhookReject(m) \/ WebhookSend(m) \/ WebhookAnswer(m)
  PROVE  SideInv'
<1> USE DEF SideInv
<1>1. Inward /\ UNCHANGED <<inLoop, inMsg, tracker, seen>> /\ kind = "webhook"
  BY Zenon DEF WebhookReject, WebhookSend, WebhookAnswer, Inward, inVars
<1>2. SideTypeOK' /\ AnswerInv'
  <2>1. CASE WebhookSend(m)
    <3>1. status[m] = "idle" /\ status' = [status EXCEPT ![m] = "open"]
              /\ status' \in [Msgs -> box!Statuses] /\ answer[m] = None /\ answer' = answer
      BY <2>1, CallStatus, Zenon DEF WebhookSend, SideTypeOK, Fresh, inVars
    <3> QED
      BY <1>1, <3>1, Zenon DEF SideTypeOK, AnswerInv, AnsweredTruthfully, None, Inward,
         cfgVars, queueVars, outVars
  <2>2. CASE WebhookReject(m) \/ WebhookAnswer(m)
    <3>1. status' = status
            /\ \/ answer' = [answer EXCEPT ![m] = "rejected"] /\ status[m] = "idle"
               \/ answer' = [answer EXCEPT ![m] = "500"] /\ status[m] = "refused"
               \/ /\ answer' = [answer EXCEPT ![m] = "202"]
                  /\ status[m] \notin {"idle", "open", "refused"}
      BY <2>2, Zenon DEF WebhookReject, WebhookAnswer, Answer, Fresh, Returned
    <3> QED
      BY <1>1, <3>1, ZenonT(30) DEF SideTypeOK, AnswerInv, AnsweredTruthfully, Answers, box!Statuses,
         Inward, cfgVars, queueVars, outVars
  <2> QED
    BY <2>1, <2>2
<1> QED
  BY <1>1, <1>2, InwardPost, KeepsTrack DEF Inward, outVars

LEMMA SlackLoop ==
  ASSUME SideInv, Slack
  PROVE  SideInv'
<1> USE DEF SideInv
<1>1. Inward /\ UNCHANGED <<tracker, seen>> /\ kind = "slack"
  BY Zenon DEF Slack, SlackRead, SlackReadFails, SlackReconnect, SlackStops, SlackAck, SlackSend,
     SlackSent, SlackStep, Inward
<1>2. SideTypeOK' /\ AnswerInv'
  <2>1. CASE SlackSend
    <3>1. inMsg \in Msgs /\ box!Call(inMsg) /\ UNCHANGED <<answer, inMsg>> /\ inLoop' = "sent"
      BY <2>1 DEF SlackSend, SlackStep, SideTypeOK
    <3>2. status[inMsg] = "idle" /\ status' = [status EXCEPT ![inMsg] = "open"]
              /\ status' \in [Msgs -> box!Statuses]
      BY <3>1, CallStatus, Zenon DEF SideTypeOK
    <3> QED
      BY <1>1, <3>1, <3>2, Zenon DEF SideTypeOK, AnswerInv, AnsweredTruthfully, None, Inward,
         cfgVars, queueVars, outVars
  <2>2. CASE SlackAck
    <3>1. inMsg \in Msgs /\ UNCHANGED <<status, inMsg>>
            /\ answer' \in {answer, [answer EXCEPT ![inMsg] = "acked"]}
      BY <2>2 DEF SlackAck, SlackStep, SideTypeOK, Answer
    <3> QED
      BY <1>1, <3>1, Zenon DEF SideTypeOK, AnswerInv, AnsweredTruthfully, None, Answers, Inward,
         cfgVars, queueVars, outVars
  <2>3. CASE (\E m \in Msgs : SlackRead(m)) \/ SlackReadFails \/ SlackReconnect
                \/ SlackStops \/ SlackSent
    <3>1. UNCHANGED <<status, answer>>
            /\ (inLoop' \in {"ack", "send", "sent"} => inMsg' \in Msgs)
      BY <2>3, Zenon DEF SlackRead, SlackReadFails, SlackReconnect, SlackStops, SlackSent,
         SlackStep
    <3> QED
      BY <1>1, <3>1, Zenon DEF SideTypeOK, AnswerInv, AnsweredTruthfully, Inward,
         cfgVars, queueVars, outVars
  <2> QED
    BY <2>1, <2>2, <2>3 DEF Slack
<1> QED
  BY <1>1, <1>2, InwardPost, KeepsTrack DEF Inward, outVars

LEMMA DiscordStep ==
  ASSUME SideInv, NEW m \in Msgs, DiscordMessage(m)
  PROVE  SideInv'
<1> USE DEF SideInv
<1>1. Inward /\ UNCHANGED <<inLoop, inMsg>> /\ kind = "discord"
        /\ answer[m] = None /\ status[m] = "idle"
  BY Zenon DEF DiscordMessage, Inward, Fresh
<1>2. CASE \E ch \in Chans : /\ tracker' = ch /\ seen' = seen \cup {ch}
                             /\ box!Call(m) /\ UNCHANGED answer
  <2>1. status' = [status EXCEPT ![m] = "open"] /\ status' \in [Msgs -> box!Statuses]
    BY <1>2, CallStatus DEF SideTypeOK
  <2>2. SideTypeOK' /\ AnswerInv'
    BY <1>1, <1>2, <2>1, Zenon DEF SideTypeOK, AnswerInv, AnsweredTruthfully, None, Channel, Inward,
       cfgVars, queueVars, outVars
  <2>3. TrackInv'
    BY <1>1, <1>2, Zenon DEF TrackInv, RepliesToSeenChannel, Inward, cfgVars, outVars
  <2> QED
    BY <1>1, <2>2, <2>3, InwardPost
<1>3. CASE Answer(m, "ignored") /\ UNCHANGED <<tracker, seen, status>>
  <2>1. SideTypeOK' /\ AnswerInv'
    BY <1>1, <1>3, Zenon DEF SideTypeOK, AnswerInv, AnsweredTruthfully, Answer, Answers, Inward,
       cfgVars, queueVars, outVars
  <2> QED
    BY <1>1, <1>3, <2>1, InwardPost, KeepsTrack, Zenon DEF Inward, outVars
<1> QED
  BY <1>2, <1>3, Zenon DEF DiscordMessage

LEMMA ClientStep ==
  ASSUME SideInv, NEW m \in Msgs, ClientSettles(m)
  PROVE  SideInv'
<1> USE DEF SideInv
<1>1. Inward /\ UNCHANGED inVars
  BY DEF ClientSettles, Inward
<1>2. /\ status' \in [Msgs -> box!Statuses]
      /\ \A n \in Msgs : n # m => status'[n] = status[n]
      /\ status[m] \in {"open", "accepted"}
      /\ status[m] = "accepted" => status'[m] \in {"written", "lost"}
  BY SettleStatus, Zenon DEF ClientSettles, SideTypeOK
<1>3. SideTypeOK' /\ AnswerInv'
  BY <1>1, <1>2, Zenon DEF SideTypeOK, AnswerInv, AnsweredTruthfully, Inward, inVars,
     cfgVars, queueVars, outVars
<1> QED
  BY <1>1, <1>3, InwardPost, KeepsTrack DEF Inward, inVars, outVars

-----------------------------------------------------------------------------
(* The outbound half.                                                      *)

LEMMA OutwardAnswer ==
  ASSUME AnswerInv, UNCHANGED <<kind, status, answer>>
  PROVE  AnswerInv'
BY DEF AnswerInv, AnsweredTruthfully

LEMMA TakeStep ==
  ASSUME SideInv, OutTake
  PROVE  SideInv'
<1> USE DEF SideInv
<1>1. PICK valid \in BOOLEAN, named \in Channel :
        LET to == Destination(named)
            ok == kind = "webhook" \/ (valid /\ to # NoChan)
        IN /\ OutStep("idle", IF ok THEN "post" ELSE "idle")
           /\ outMsg' = IF ok THEN Head(queue) ELSE None
           /\ implied' = IF ok /\ kind # "webhook" /\ named = NoChan
                         THEN [implied EXCEPT ![Head(queue)] = to]
                         ELSE implied
  BY Zenon DEF OutTake, Channel
<1> DEFINE o == Head(queue)
<1>2. /\ queue # <<>> /\ queue' = Tail(queue) /\ o \in Replies
      /\ queue' \in Seq(Replies) /\ Len(queue') = Len(queue) - 1
      /\ o = queue[1] /\ 1 \in 1 .. Len(queue)
      /\ \A i \in 1 .. Len(queue') : queue'[i] = queue[i + 1] /\ i + 1 \in 1 .. Len(queue)
      /\ UNCHANGED <<coming, closed, posted, unanswered>> /\ attempt' = 0
  BY DEF OutTake, SideTypeOK
<1>3. out = "idle" /\ out' \in {"idle", "post"} /\ UNCHANGED <<cfgVars, ctx, status, inVars>>
        /\ (out' = "post" => outMsg' = o)
  BY <1>1 DEF OutStep
<1>4. Destination(named) \in Channel
  BY DEF Destination, SideTypeOK, Channel
<1>5. SideTypeOK'
  <2>1. implied' \in [Replies -> Channel]
    BY <1>1, <1>2, <1>4, Zenon DEF SideTypeOK
  <2> QED
    BY <1>2, <1>3, <2>1, Zenon DEF SideTypeOK, cfgVars, inVars
<1>6. AnswerInv'
  BY <1>3, OutwardAnswer DEF cfgVars, inVars
<1>7. TrackInv'
  <2>1. implied' = implied \/ (/\ kind # "webhook" /\ Destination(NoChan) # NoChan
                               /\ implied' = [implied EXCEPT ![o] = Destination(NoChan)])
    BY <1>1, Zenon
  <2>2. Destination(NoChan) # NoChan /\ kind # "webhook" =>
          IF cfgChan # NoChan THEN Destination(NoChan) = cfgChan
          ELSE Destination(NoChan) \in seen
    BY DEF Destination, TrackInv
  <2> QED
    BY <1>2, <1>3, <2>1, <2>2, Zenon DEF TrackInv, RepliesToSeenChannel, SideTypeOK, cfgVars, inVars
<1>8. PostInv'
  <2>1. \A x \in Replies : Untried(x) /\ x # o => Untried(x)'
    BY <1>2, <1>3, Zenon DEF Untried, Posting
  <2>2. \A i \in 1 .. Len(queue') : queue'[i] \in Replies /\ queue'[i] # o /\ Untried(queue'[i])
    BY <1>2 DEF PostInv, SideTypeOK
  <2>3. \A i, j \in 1 .. Len(queue') : queue'[i] = queue'[j] => i = j
    BY <1>2 DEF PostInv
  <2>4. \A x \in coming' : /\ x \in Replies /\ x # o /\ Untried(x)
                          /\ \A i \in 1 .. Len(queue') : queue'[i] # x
    BY <1>2 DEF PostInv, SideTypeOK
  <2>5. Posting' => posted'[outMsg'] = 0 /\ unanswered'[outMsg'] = 0
    BY <1>2, <1>3 DEF PostInv, Posting, Untried
  <2> QED
    BY <1>2, <2>1, <2>2, <2>3, <2>4, <2>5, SidecarsAssumption DEF PostInv, PostedOnce
<1> QED
  BY <1>5, <1>6, <1>7, <1>8

\* What an attempt does to the counters of the reply in hand: it took effect or
\* not, the sidecar was told or not, and it only tries again when it was not.
Attempt(effect, told) ==
  /\ posted' = [posted EXCEPT ![outMsg] = @ + effect]
  /\ unanswered' = [unanswered EXCEPT ![outMsg] = @ + effect - told]
  /\ \/ out' = "idle" /\ attempt' = 0
     \/ out' = "sleep" /\ outMsg' = outMsg /\ attempt' = attempt + 1 /\ told = 0

LEMMA AttemptStep ==
  ASSUME SideInv, out = "post", UNCHANGED <<cfgVars, ctx, status, inVars, queueVars, implied>>,
         \E effect \in {0, 1} : \E told \in 0 .. effect : Attempt(effect, told)
  PROVE  SideInv'
<1> USE DEF SideInv
<1>1. outMsg \in Replies
  BY DEF SideTypeOK
<1>2. PICK effect \in {0, 1}, told \in {0, 1} : told <= effect /\ Attempt(effect, told)
  OBVIOUS
<1>3. /\ \A o \in Replies : o # outMsg => posted'[o] = posted[o] /\ unanswered'[o] = unanswered[o]
      /\ posted'[outMsg] = posted[outMsg] + effect
      /\ unanswered'[outMsg] = unanswered[outMsg] + effect - told
      /\ posted[outMsg] = unanswered[outMsg]
      /\ posted' \in [Replies -> Nat] /\ unanswered' \in [Replies -> Nat]
  <2>1. /\ posted' = [posted EXCEPT ![outMsg] = @ + effect]
        /\ unanswered' = [unanswered EXCEPT ![outMsg] = @ + effect - told]
        /\ posted \in [Replies -> Nat] /\ unanswered \in [Replies -> Nat]
        /\ posted[outMsg] = unanswered[outMsg]
    BY <1>1, <1>2, Zenon DEF SideTypeOK, Attempt, PostInv, Posting
  <2>2. posted[outMsg] + effect \in Nat /\ unanswered[outMsg] + effect - told \in Nat
    BY <1>1, <1>2, <2>1
  <2> QED
    BY <1>1, <2>1, <2>2, Zenon
<1>4. SideTypeOK'
  <2>1. /\ out' = "idle" \/ (out' = "sleep" /\ outMsg' = outMsg)
        /\ attempt' \in {0, attempt + 1}
    BY <1>2, Zenon DEF Attempt
  <2>2. attempt' \in Nat /\ "idle" # "post" /\ "idle" # "sleep"
    BY <2>1 DEF SideTypeOK
  <2> QED
    BY <1>1, <1>3, <2>1, <2>2, Zenon DEF SideTypeOK, cfgVars, inVars, queueVars
<1>5. PostInv'
  <2>1. attempt \in Nat /\ attempt < RetryAttempts /\ posted[outMsg] <= attempt
    BY Zenon DEF PostInv, Posting, SideTypeOK
  <2>2. PostedOnce'
    <3>1. \A o \in Replies : /\ o # outMsg => posted'[o] = posted[o]
                                            /\ unanswered'[o] = unanswered[o]
                            /\ posted[o] \in Nat /\ unanswered[o] \in Nat
      BY <1>3, Zenon DEF SideTypeOK
    <3>2. /\ posted'[outMsg] <= RetryAttempts
          /\ posted'[outMsg] <= 1 + unanswered'[outMsg]
      BY <1>1, <1>2, <1>3, <2>1, <3>1, SidecarsAssumption
    <3>3. \A o \in Replies : /\ posted[o] <= 1 + unanswered[o]
                            /\ posted[o] <= RetryAttempts
      BY Zenon DEF PostInv, PostedOnce
    <3>4. ASSUME NEW o \in Replies
          PROVE  posted'[o] <= 1 + unanswered'[o] /\ posted'[o] <= RetryAttempts
      <4>1. CASE o = outMsg
        BY <3>2, <4>1, Zenon
      <4>2. CASE o # outMsg
        BY <3>1, <3>3, <4>2, Zenon
      <4> QED
        BY <4>1, <4>2, Zenon
    <3> QED
      BY <3>4 DEF PostedOnce
  <2>3. \A o \in Replies : Untried(o) => Untried(o)'
    BY <1>1, <1>2, <1>3, Zenon DEF Untried, Posting, Attempt
  <2>4. \A i \in 1 .. Len(queue) : queue[i] \in Replies
    BY DEF SideTypeOK
  <2>5. Posting' => /\ posted'[outMsg'] = unanswered'[outMsg']
                    /\ posted'[outMsg'] <= attempt' /\ attempt' <= RetryAttempts
    <3>1. CASE out' = "idle"
      BY <3>1 DEF Posting
    <3>2. CASE outMsg' = outMsg /\ attempt' = attempt + 1 /\ told = 0
      <4>1. posted[outMsg] \in Nat /\ unanswered[outMsg] \in Nat
        BY <1>1, Zenon DEF SideTypeOK
      <4>2. posted'[outMsg] = unanswered'[outMsg] /\ posted'[outMsg] <= attempt + 1
        BY <1>2, <1>3, <2>1, <3>2, <4>1
      <4>3. attempt + 1 <= RetryAttempts
        BY <2>1, SidecarsAssumption
      <4> QED
        BY <3>2, <4>2, <4>3, Zenon
    <3> QED
      BY <1>2, <3>1, <3>2, Zenon DEF Attempt
  <2>6. out' # "post"
    BY <1>2 DEF Attempt
  <2> QED
    BY <2>2, <2>3, <2>4, <2>5, <2>6, Zenon DEF PostInv, SideTypeOK, queueVars
<1> QED
  BY <1>4, <1>5, OutwardAnswer, KeepsTrack DEF cfgVars, inVars

LEMMA PostStep ==
  ASSUME SideInv, PostOK \/ PostFinal \/ PostRetry
  PROVE  SideInv'
<1>1. outMsg \in Replies /\ posted \in [Replies -> Nat] /\ unanswered \in [Replies -> Nat]
  BY Zenon DEF PostOK, PostFinal, PostRetry, OutStep, SideInv, SideTypeOK
<1>2. out = "post" /\ UNCHANGED <<cfgVars, ctx, status, inVars, queueVars, implied>>
  BY Zenon DEF PostOK, PostFinal, PostRetry, OutStep
<1>3. CASE PostOK
  <2>1. Attempt(1, 1)
    BY <1>1, <1>3 DEF PostOK, OutStep, OutDone, Attempt
  <2> QED
    BY <1>2, <2>1, 1 \in 0 .. 1, AttemptStep
<1>4. CASE PostFinal \/ PostRetry
  <2>1. PICK effect \in {0, 1} :
          /\ posted' = [posted EXCEPT ![outMsg] = @ + effect]
          /\ unanswered' = [unanswered EXCEPT ![outMsg] = @ + effect]
    BY <1>4, Zenon DEF PostFinal, PostRetry
  <2>2. Attempt(effect, 0)
    BY <1>1, <1>4, <2>1 DEF PostFinal, PostRetry, OutStep, OutDone, Attempt
  <2>3. 0 \in 0 .. effect
    BY <2>1
  <2> QED
    BY <1>2, <2>2, <2>3, AttemptStep
<1> QED
  BY <1>3, <1>4

LEMMA WaitStep ==
  ASSUME SideInv, PostAgain \/ PostGivesUp \/ OutStops
  PROVE  SideInv'
<1> USE DEF SideInv
<1>1. /\ UNCHANGED <<cfgVars, ctx, status, inVars, queueVars, posted, unanswered, implied>>
      /\ \/ out = "sleep" /\ out' = "post" /\ UNCHANGED <<outMsg, attempt>>
            /\ attempt < RetryAttempts
         \/ out \in {"sleep", "idle"} /\ out' \in {"idle", "off"}
      /\ attempt' \in {0, attempt}
  BY Zenon DEF PostAgain, PostGivesUp, OutStops, OutStep, OutDone
<1>2. SideTypeOK'
  BY <1>1 DEF SideTypeOK, cfgVars, inVars, queueVars
<1>3. PostInv'
  <2>1. UNCHANGED <<posted, unanswered, coming, queue>> /\ (Posting' => Posting /\ UNCHANGED <<outMsg, attempt>>)
    BY <1>1, Zenon DEF Posting, queueVars
  <2>2. PostedOnce' /\ \A o : Untried(o) => Untried(o)'
    BY <2>1, Zenon DEF PostInv, PostedOnce, Untried
  <2>3. out' = "post" => attempt' < RetryAttempts
    BY <1>1, Zenon
  <2> QED
    BY <2>1, <2>2, <2>3, Zenon DEF PostInv
<1> QED
  BY <1>1, <1>2, <1>3, OutwardAnswer, KeepsTrack, Zenon DEF cfgVars, inVars

LEMMA ReceiveStep ==
  ASSUME SideInv, NEW o \in Replies, Receive(o)
  PROVE  SideInv'
<1> USE DEF SideInv
<1>1. /\ o \in coming /\ coming' = coming \ {o} /\ queue' = Append(queue, o)
      /\ UNCHANGED <<cfgVars, ctx, status, inVars, outVars>>
  BY DEF Receive
<1>2. /\ queue' \in Seq(Replies) /\ Len(queue) \in Nat /\ Len(queue') = Len(queue) + 1
      /\ \A i \in 1 .. Len(queue) : queue'[i] = queue[i]
      /\ queue'[Len(queue) + 1] = o
  BY <1>1, SMTT(30) DEF SideTypeOK
<1>3. SideTypeOK'
  BY <1>1, <1>2, Zenon DEF SideTypeOK, cfgVars, inVars, outVars
<1>4. PostInv'
  <2>1. \A x : Untried(x)' <=> Untried(x)
    BY <1>1, Zenon DEF Untried, Posting, outVars
  <2>2. \A i \in 1 .. Len(queue') : i \in 1 .. Len(queue) \/ i = Len(queue) + 1
    BY <1>2, SMTT(30)
  <2>3. \A i \in 1 .. Len(queue') : Untried(queue'[i])
    BY <1>1, <1>2, <2>2, Zenon DEF PostInv
  <2>4. \A x \in coming' : Untried(x) /\ \A i \in 1 .. Len(queue') : queue'[i] # x
    BY <1>1, <1>2, <2>2 DEF PostInv
  <2>5. \A i, j \in 1 .. Len(queue') : queue'[i] = queue'[j] => i = j
    BY <1>1, <1>2, <2>2, SMTT(30) DEF PostInv
  <2> QED
    BY <1>1, <2>1, <2>3, <2>4, <2>5, Zenon DEF PostInv, PostedOnce, Posting, outVars
<1> QED
  BY <1>1, <1>3, <1>4, OutwardAnswer, KeepsTrack, Zenon DEF cfgVars, inVars, outVars

LEMMA ProcessStep ==
  ASSUME SideInv, ClientCloses \/ Terminate \/ Exit \/ UNCHANGED vars
  PROVE  SideInv'
<1>1. UNCHANGED <<cfgVars, status, inVars, coming, queue, outVars>>
  BY DEF ClientCloses, Terminate, Exit, vars, queueVars
<1> QED
  BY <1>1, OutwardAnswer, KeepsTrack DEF SideInv, SideTypeOK, PostInv, PostedOnce, Posting,
     Untried, cfgVars, inVars, outVars

LEMMA SideStep == SideInv /\ [Next]_vars => SideInv'
<1> SUFFICES ASSUME SideInv, [Next]_vars PROVE SideInv'
  OBVIOUS
<1>1. CASE OutLoop
  BY <1>1, TakeStep, PostStep, WaitStep DEF OutLoop, SlackPost, WebhookPost, DiscordPost
<1> QED
  BY <1>1, WebhookStep, SlackLoop, DiscordStep, ClientStep, ReceiveStep, ProcessStep DEF Next

-----------------------------------------------------------------------------
LEMMA SideAlways == Spec => []SideInv
BY SideInit, SideStep, PTL DEF Spec

\* What a webhook answers is true and stays true, whatever the SDK client and
\* the other requests do (inboundHandler.ServeHTTP, newDiscordMessageHandler).
THEOREM AnswerCorrect == Spec => []AnsweredTruthfully
<1>1. SideInv => AnsweredTruthfully
  BY DEF SideInv, AnswerInv
<1> QED
  BY <1>1, SideAlways, PTL

\* No sidecar posts a reply again that it knows to be posted, nor more often
\* than cfg.RetryAttempts (post of each sidecar).
THEOREM PostedCorrect == Spec => []PostedOnce
<1>1. SideInv => PostedOnce
  BY Zenon DEF SideInv, PostInv
<1> QED
  BY <1>1, SideAlways, PTL

\* A reply that names no channel goes to the configured one or to a channel
\* whose event was forwarded (discordPoster.post, slackPoster.post).
THEOREM RepliesCorrect == Spec => []RepliesToSeenChannel
<1>1. SideInv => RepliesToSeenChannel
  BY DEF SideInv, TrackInv
<1> QED
  BY <1>1, SideAlways, PTL

-----------------------------------------------------------------------------
(* The sidecars as users of the SDK client.                                *)

LEMMA OutboxStep ==
  ASSUME SideTypeOK, [Next]_vars
  PROVE  [box!Next]_status
<1>1. ASSUME NEW m \in Msgs,
             WebhookSend(m) \/ DiscordMessage(m) \/ ClientSettles(m)
      PROVE  (\E n \in Msgs : box!Call(n) \/ box!Settle(n)) \/ UNCHANGED status
  BY <1>1, Zenon DEF WebhookSend, DiscordMessage, ClientSettles
<1>2. ASSUME NEW m \in Msgs, WebhookReject(m) \/ WebhookAnswer(m)
      PROVE  UNCHANGED status
  BY <1>2, Zenon DEF WebhookReject, WebhookAnswer
<1>3. CASE Slack
  <2>1. CASE SlackSend
    BY <2>1, Zenon DEF SlackSend, SlackStep, SideTypeOK, box!Next
  <2>2. CASE \/ \E m \in Msgs : SlackRead(m)
             \/ SlackReadFails \/ SlackReconnect \/ SlackStops \/ SlackAck \/ SlackSent
    BY <2>2, Zenon DEF SlackRead, SlackReadFails, SlackReconnect, SlackStops, SlackAck,
       SlackSent
  <2> QED
    BY <1>3, <2>1, <2>2, Zenon DEF Slack
<1>4. CASE OutLoop
  <2>1. ASSUME NEW a, NEW b, OutStep(a, b) PROVE UNCHANGED status
    BY <2>1, Zenon DEF OutStep
  <2> QED
    BY <1>4, <2>1, Zenon DEF OutLoop, OutTake, SlackPost, WebhookPost, DiscordPost, OutStops,
       PostOK, PostFinal, PostRetry, PostAgain, PostGivesUp
<1>5. CASE \/ \E o \in Replies : Receive(o)
           \/ ClientCloses \/ Terminate \/ Exit \/ UNCHANGED vars
  BY <1>5, Zenon DEF Receive, ClientCloses, Terminate, Exit, vars
<1> QED
  BY <1>1, <1>2, <1>3, <1>4, <1>5, Zenon DEF Next, box!Next

\* Every sidecar keeps to the contract of Send: it calls Send once for an event,
\* from whichever goroutine, and leaves the rest to the client.  ChannelClient
\* is shown to keep the other side of the same contract.
THEOREM SidecarsUseOutbox == Spec => box!Spec
<1>1. Init => box!Init
  BY Zenon DEF Init
<1>2. SideInv /\ [Next]_vars => [box!Next]_status
  BY OutboxStep, Zenon DEF SideInv
<1> QED
  BY <1>1, <1>2, SideAlways, PTL DEF Spec, box!Spec

-----------------------------------------------------------------------------
(* A post comes to an end.                                                 *)

\* How many steps the loop of post has left at most.
StepsLeft == 2 * (RetryAttempts - attempt) + IF out = "sleep" THEN 1 ELSE 0

LEMMA StepsBound ==
  ASSUME SideInv, Posting
  PROVE  StepsLeft \in 1 .. 2 * RetryAttempts + 1
<1>1. /\ attempt \in Nat /\ attempt <= RetryAttempts
      /\ out \in {"post", "sleep"} /\ (out = "post" => attempt < RetryAttempts)
  BY Zenon DEF SideInv, SideTypeOK, PostInv, Posting
<1> QED
  BY <1>1, SidecarsAssumption DEF StepsLeft

\* The steps of a post: an attempt, and the end of a sleep.
LEMMA LoopStep ==
  ASSUME SideInv, Posting, [Next]_vars
  PROVE  \/ UNCHANGED <<out, outMsg, attempt>>
         \/ ~Posting'
         \/ outMsg' = outMsg /\ StepsLeft' < StepsLeft
<1>0. attempt \in Nat
  BY Zenon DEF SideInv, SideTypeOK
<1>1. CASE OutLoop
  <2>1. ~OutTake /\ ~OutStops
    <3>1. out # "idle"
      BY DEF Posting
    <3> QED
      BY <3>1, Zenon DEF OutTake, OutStops, OutStep
  <2>2. CASE PostOK \/ PostFinal \/ PostGivesUp
    <3>1. out' = "idle"
      BY <2>2, Zenon DEF PostOK, PostFinal, PostGivesUp, OutStep
    <3> QED
      BY <3>1 DEF Posting
  <2>3. CASE PostRetry
    <3>1. out = "post" /\ out' = "sleep" /\ outMsg' = outMsg /\ attempt' = attempt + 1
      BY <2>3, Zenon DEF PostRetry, OutStep
    <3>2. StepsLeft' < StepsLeft
      BY <1>0, <3>1, SidecarsAssumption DEF StepsLeft
    <3> QED
      BY <3>1, <3>2, Zenon
  <2>4. CASE PostAgain
    <3>1. out = "sleep" /\ out' = "post" /\ outMsg' = outMsg /\ attempt' = attempt
      BY <2>4, Zenon DEF PostAgain, OutStep
    <3>2. StepsLeft' < StepsLeft
      BY <1>0, <3>1, SidecarsAssumption DEF StepsLeft
    <3> QED
      BY <3>1, <3>2, Zenon
  <2> QED
    BY <1>1, <2>1, <2>2, <2>3, <2>4, Zenon
       DEF OutLoop, SlackPost, WebhookPost, DiscordPost
<1>2. CASE ~OutLoop
  <2>1. UNCHANGED outVars
    <3>1. ASSUME NEW m \in Msgs,
                 \/ WebhookReject(m) \/ WebhookSend(m) \/ WebhookAnswer(m)
                 \/ DiscordMessage(m) \/ ClientSettles(m)
          PROVE  UNCHANGED outVars
      BY <3>1, Zenon DEF WebhookReject, WebhookSend, WebhookAnswer, DiscordMessage,
         ClientSettles
    <3>2. CASE Slack
      BY <3>2, Zenon DEF Slack, SlackRead, SlackReadFails, SlackReconnect, SlackStops,
         SlackAck, SlackSend, SlackSent, SlackStep
    <3>3. CASE \/ \E o \in Replies : Receive(o)
               \/ ClientCloses \/ Terminate \/ Exit \/ UNCHANGED vars
      BY <3>3, Zenon DEF Receive, ClientCloses, Terminate, Exit, vars
    <3> QED
      BY <1>2, <3>1, <3>2, <3>3, Zenon DEF Next
  <2> QED
    BY <2>1, Zenon DEF outVars
<1> QED
  BY <1>1, <1>2, Zenon

\* A post takes at most 2 * RetryAttempts + 1 steps: while a sidecar posts a
\* reply every step of its loop ends the post or brings the end nearer, no other
\* goroutine changes the reply or gives back an attempt, and as long as the post
\* goes on there is a step left (post of each sidecar).  With the scheduling of
\* the loop this is why EveryPostEnds holds.
THEOREM PostIsBounded ==
  Spec => /\ [](Posting => StepsLeft \in 1 .. 2 * RetryAttempts + 1)
          /\ [][Posting => \/ UNCHANGED <<out, outMsg, attempt>>
                           \/ ~Posting'
                           \/ outMsg' = outMsg /\ StepsLeft' < StepsLeft]_vars
<1>1. SideInv => (Posting => StepsLeft \in 1 .. 2 * RetryAttempts + 1)
  BY StepsBound, Zenon
<1>2. SideInv /\ [Next]_vars =>
        [Posting => \/ UNCHANGED <<out, outMsg, attempt>>
                    \/ ~Posting'
                    \/ outMsg' = outMsg /\ StepsLeft' < StepsLeft]_vars
  BY LoopStep, Zenon
<1> QED
  BY <1>1, <1>2, SideAlways, PTL DEF Spec
=============================================================================
