------------------------------- MODULE ClawOps -------------------------------
(***************************************************************************)
(* Autonomous operations on one Claw: the ClawOps controller turns signals *)
(* of the pods into intents (an annotation on the Claw) or escalations;    *)
(* the claw4k8s watcher has an LLM propose an action for an escalation; a  *)
(* human approves or rejects it with kubectl-claw; the Claw controller     *)
(* consumes the intent.                                                    *)
(*                                                                         *)
(* The four actors meet only in API objects.  The two controllers read     *)
(* them through a cache that lags; the watcher and kubectl-claw read the   *)
(* server.  A status update carries the version it is based on and fails   *)
(* on a conflict, a merge patch of the Claw does not.  Where a read is     *)
(* followed by an update that would fail on any change in between, the two *)
(* are one step here.                                                      *)
(***************************************************************************)
EXTENDS Naturals, Sequences, FiniteSets

CONSTANTS
  PodNames,    \* the pods of the Claw, a sequence
  PodStates,   \* the statuses a pod may show
  MaxActions,  \* Config.MaxActionsPerClawPerHour
  Hour,        \* length of the rate-limit window, in ticks
  Cooldown,    \* cool-down of each built-in rule, in ticks
  TTL,         \* Config.EscalationTTL, in ticks
  None,        \* an absent intent
  MaxEsc,      \* bound: escalations ever created, in any run
  MaxTime,     \* bound: ticks, in any run
  Limits       \* bounds on the environment; a run takes one of them

ASSUME ClawOpsAssumption ==
  /\ MaxActions \in Nat \ {0} /\ Hour \in Nat \ {0} /\ TTL \in Nat
  /\ MaxEsc \in Nat /\ MaxTime \in Nat
  /\ Limits \subseteq [escs : 0 .. MaxEsc,    \* escalations created
                       ticks : 0 .. MaxTime,  \* ticks of the clock
                       watcher : BOOLEAN, \* the watcher is deployed
                       shown : SUBSET PodStates,
                       sick : Nat,        \* changes of a pod's status
                       errors : Nat,      \* API calls of the operator that fail
                       restarts : Nat,    \* operator restarts
                       garbage : Nat]     \* invalid intents written by hand

VARIABLES
  time,        \* the clock
  stamp,       \* the last generation given to an intent (UnixMilli)
  pods,        \* status of each pod
  claw,        \* the Claw's annotations: ops-intent and ops-intent-gen
  clawCache,   \* the operator's cached Claw
  esc,         \* the ClawOpsEscalations, by number
  escCache,    \* the operator's cached list
  nEsc,        \* number of escalations created
  queued,      \* a reconcile request for this Claw is queued at ClawOps
  actionCounts,\* recent automatic actions: their times, told apart by the
               \* number of the audit record
  lastExec,    \* last execution of each rule (Engine.cooldowns)
  ops,         \* the ClawOps reconcile: next step and locals
  consumer,    \* the intent consumer: next step and locals
  watch,       \* the watcher: the escalation it is analysing, as it wrote it
  limit,       \* the member of Limits that bounds this run
  sick, errors, restarts, garbage,   \* used so far
  decided,     \* history: intents a rule or a human has decided on
  applied,     \* history: intents the consumer has carried out
  autos        \* history: the AutoExecuted records of this process, with times

objVars == <<claw, esc, nEsc>>
cacheVars == <<clawCache, escCache>>
memVars == <<actionCounts, lastExec>>
limitVars == <<limit, sick, errors, restarts, garbage>>
histVars == <<decided, applied, autos>>
vars == <<time, stamp, pods, objVars, cacheVars, queued, memVars, ops,
          consumer, watch, limitVars, histVars>>

-----------------------------------------------------------------------------
(* The built-in rules and the signals of a pod.                            *)

SeverityRank == [Low |-> 1, Medium |-> 2, High |-> 3, Critical |-> 4]

\* An intent's action is "spec" (bump-memory, bump-cpu, scale-replicas and
\* rollout-restart change only the Claw), "restart" (restart-pod), "params"
\* (a known action whose parameters buildIntentPatch refuses) or "garbage"
\* (ValidateIntent refuses it).  The rules that patch a resource give no
\* "target".
DefaultRules ==
  << [id |-> "oom-bump-memory", type |-> "OOMKilled", minSeverity |-> "High",
      minCount |-> 2, action |-> "params"],
     [id |-> "crashloop-restart-pod", type |-> "CrashLoop",
      minSeverity |-> "High", minCount |-> 5, action |-> "restart"],
     [id |-> "high-cpu-bump-request", type |-> "HighCPU",
      minSeverity |-> "Medium", minCount |-> 1, action |-> "params"] >>

RuleIDs == {DefaultRules[i].id : i \in DOMAIN DefaultRules}
Never == MaxTime + 1

Signal(type, count) == <<[type |-> type, severity |-> "High", count |-> count]>>

\* The concatenation of a sequence of sequences.
Flat(seqs) ==
  LET upto[i \in 0 .. Len(seqs)] == IF i = 0 THEN <<>> ELSE upto[i - 1] \o seqs[i]
  IN upto[Len(seqs)]

ContainerSignals(c) ==
  IF c.oomKilled THEN Signal("OOMKilled", c.restarts)
  ELSE IF c.waiting THEN Signal("CrashLoop", c.restarts)
  ELSE <<>>

ExtractPodSignals(pod) ==
  IF pod.evicted THEN Signal("Evicted", 1)
  ELSE Flat([i \in DOMAIN pod.containers |-> ContainerSignals(pod.containers[i])])

Healthy == [evicted |-> FALSE, containers |-> <<>>]

collectSignals ==
  Flat([i \in DOMAIN PodNames |-> ExtractPodSignals(pods[PodNames[i]])])

ruleMatches(rule, sig) ==
  /\ rule.type = sig.type
  /\ SeverityRank[sig.severity] >= SeverityRank[rule.minSeverity]
  /\ sig.count >= rule.minCount
  /\ \/ Cooldown[rule.id] = 0 \/ lastExec[rule.id] = Never
     \/ time - lastExec[rule.id] >= Cooldown[rule.id]

Matching(sigs) ==
  {i \in DOMAIN sigs : \E k \in DOMAIN DefaultRules :
                         ruleMatches(DefaultRules[k], sigs[i])}

\* The first of the matching signals of the highest severity.
MatchHighestPriority(sigs) ==
  LET rank(i) == SeverityRank[sigs[i].severity]
  IN CHOOSE i \in Matching(sigs) :
       \A j \in Matching(sigs) : rank(i) > rank(j) \/ (rank(i) = rank(j) /\ i <= j)

\* The first rule that matches the signal.
RuleFor(sig) ==
  DefaultRules[CHOOSE k \in DOMAIN DefaultRules :
                 /\ ruleMatches(DefaultRules[k], sig)
                 /\ \A l \in DOMAIN DefaultRules :
                      ruleMatches(DefaultRules[l], sig) => k <= l]

-----------------------------------------------------------------------------
(* Escalations                                                             *)

Ids == 1 .. MaxEsc
Absent == [phase |-> "absent", type |-> "", action |-> None, born |-> 0]

IsTerminalPhase(phase) ==
  phase \in {"AutoExecuted", "Executed", "Rejected", "Failed"}

\* An escalation just created: the phase is set by a second call.
Created(type) == [phase |-> "", type |-> type, action |-> None, born |-> time]

NoOps == [pc |-> "idle", todo |-> {}, list |-> <<>>, base |-> None,
          auto |-> None, jobs |-> <<>>, id |-> 0]
NoConsumer == [pc |-> "idle", base |-> [intent |-> None, gen |-> 0]]
NoWatch == [id |-> 0, copy |-> Absent]

Init ==
  /\ time = 0 /\ stamp = 0
  /\ pods = [p \in {PodNames[i] : i \in DOMAIN PodNames} |-> Healthy]
  /\ claw = [intent |-> None, gen |-> 0] /\ clawCache = claw
  /\ esc = [i \in Ids |-> Absent] /\ escCache = esc
  /\ nEsc = 0 /\ queued = FALSE
  /\ actionCounts = {} /\ lastExec = [r \in RuleIDs |-> Never]
  /\ ops = NoOps /\ consumer = NoConsumer /\ watch = NoWatch
  /\ limit \in Limits /\ sick = 0 /\ errors = 0 /\ restarts = 0 /\ garbage = 0
  /\ decided = {} /\ applied = {} /\ autos = {}

\* An API call of the operator fails.
Fails == /\ errors < limit.errors
         /\ errors' = errors + 1
         /\ UNCHANGED <<limit, sick, restarts, garbage>>

\* A call that has this outcome when cond holds, and whenever it fails.
OrFails(cond) == (cond /\ UNCHANGED limitVars) \/ Fails

-----------------------------------------------------------------------------
(* ClawOpsController.Reconcile, one call at a time.                        *)

AfterApprovals(todo) == IF todo = {} THEN "gc" ELSE "approve"

\* Faulty variant: a proposal nobody has approved yet counts as well.
MutApproved(e) == e.phase \in {"AwaitingApproval", "Approved"} /\ e.action # None

\* What processApprovedEscalations acts on.
ToExecute(e) == e.phase = "Approved" /\ e.action # None

\* Get the Claw and list the escalations, both from the cache.
OpsStart ==
  /\ ops.pc = "idle" /\ queued
  /\ queued' = FALSE
  /\ LET todo == {i \in Ids : ToExecute(escCache[i])}
     IN ops' = [NoOps EXCEPT !.pc = AfterApprovals(todo), !.todo = todo,
                             !.list = escCache, !.base = clawCache.intent]
  /\ UNCHANGED <<time, stamp, pods, objVars, cacheVars, memVars, consumer,
                 watch, limitVars, histVars>>

\* A merge patch writes the annotation only if it differs from the base, and
\* returns the object as the server has it then.
PatchIntent(intent) ==
  claw' = [claw EXCEPT !.intent = IF ops.base = intent THEN @ ELSE intent]

\* processApprovedEscalations, one escalation (a cached list has no order):
\* write the intent ...
OpsWriteApproved ==
  /\ ops.pc = "approve"
  /\ \/ \E i \in ops.todo :
          /\ PatchIntent(ops.list[i].action)
          /\ ops' = [ops EXCEPT !.pc = "execute", !.id = i, !.base = claw'.intent]
          /\ UNCHANGED limitVars
     \/ /\ Fails
        /\ ops' = [ops EXCEPT !.pc = "gc", !.todo = {}]
        /\ UNCHANGED claw
  /\ UNCHANGED <<time, stamp, pods, esc, nEsc, cacheVars, queued, memVars,
                 consumer, watch, histVars>>

\* Faulty variant: the update is not conditional on the version read.
MutMarksBlindly ==
  /\ ops.pc = "execute"
  /\ LET i == ops.id IN
     /\ esc' = [esc EXCEPT ![i].phase = "Executed"]
     /\ ops' = [ops EXCEPT !.todo = @ \ {i}, !.id = 0,
                           !.pc = AfterApprovals(ops.todo \ {i})]
  /\ UNCHANGED <<time, stamp, pods, claw, nEsc, cacheVars, queued, memVars,
                 consumer, watch, limitVars, histVars>>

\* ... then mark it Executed.  A conflict ends the loop; the error is only
\* logged.
OpsMarkExecuted ==
  /\ ops.pc = "execute"
  /\ LET i == ops.id IN
     \/ /\ esc[i] = ops.list[i]
        /\ esc' = [esc EXCEPT ![i].phase = "Executed"]
        /\ ops' = [ops EXCEPT !.todo = @ \ {i}, !.id = 0,
                              !.pc = AfterApprovals(ops.todo \ {i})]
        /\ UNCHANGED limitVars
     \/ /\ OrFails(esc[i] # ops.list[i])
        /\ ops' = [ops EXCEPT !.pc = "gc", !.todo = {}, !.id = 0]
        /\ UNCHANGED esc
  /\ UNCHANGED <<time, stamp, pods, claw, nEsc, cacheVars, queued, memVars,
                 consumer, watch, histVars>>

\* gcExpiredEscalations: delete what is terminal and old; an error stops it.
OpsGC ==
  /\ ops.pc = "gc"
  /\ LET expired == {i \in Ids : /\ IsTerminalPhase(escCache[i].phase)
                                 /\ time - escCache[i].born > TTL}
     IN \E gone \in SUBSET expired :
          /\ OrFails(gone = expired)
          /\ esc' = [i \in Ids |-> IF i \in gone THEN Absent ELSE esc[i]]
  /\ ops' = [ops EXCEPT !.pc = "decide", !.list = <<>>]
  /\ UNCHANGED <<time, stamp, pods, claw, nEsc, cacheVars, queued, memVars,
                 consumer, watch, histVars>>

Within(actions) == {a \in actions : a.at + Hour > time}

\* Faulty variant: the budget may be exceeded by one.
MutRateLimit == Cardinality(Within(actionCounts)) > MaxActions

isRateLimited == Cardinality(Within(actionCounts)) >= MaxActions

\* A signal whose type has an escalation that is not terminal is dropped.
deduplicateSignals(sigs) ==
  SelectSeq(sigs, LAMBDA s : \A i \in Ids :
    ~(/\ escCache[i].type = s.type /\ escCache[i].phase # "absent"
      /\ ~IsTerminalPhase(escCache[i].phase)))

\* A rule handles one of the signals: one action at most in a reconcile.
Matched(sigs) == ~isRateLimited /\ Matching(sigs) # {}

\* It is the most severe one; the others of its type are left to it as well.
Acting(sigs) ==
  LET best == sigs[MatchHighestPriority(sigs)]
  IN [ops EXCEPT !.pc = "auto",
                 !.auto = [sig |-> best, rule |-> RuleFor(best)],
                 !.jobs = SelectSeq(sigs, LAMBDA s : s.type # best.type)]

\* The signals are escalated one after the other.
Escalating(sigs) ==
  IF sigs = <<>> THEN NoOps
  ELSE [ops EXCEPT !.pc = "escalate", !.auto = None, !.jobs = sigs, !.id = 0]

\* Signals, deduplication (skipped when the list fails), rate limit, rules.
\* Bound: when escalations could run out, the pods count as healthy.
OpsDecide ==
  /\ ops.pc = "decide"
  /\ \E sigs \in {collectSignals, deduplicateSignals(collectSignals)} :
       /\ OrFails(sigs = deduplicateSignals(collectSignals))
       /\ LET seen == IF nEsc + Len(sigs) + 1 > limit.escs THEN <<>> ELSE sigs
          IN /\ ops' = IF Matched(seen) THEN Acting(seen) ELSE Escalating(seen)
             /\ actionCounts' = IF seen = <<>> THEN actionCounts
                                ELSE Within(actionCounts)
  /\ UNCHANGED <<time, stamp, pods, objVars, cacheVars, queued, lastExec,
                 consumer, watch, histVars>>

\* autoExecute failed: its signal is escalated before the others.
AutoFailed == ops' = Escalating(<<ops.auto.sig>> \o ops.jobs)

\* autoExecute: write the intent of the rule ...
AutoPatch ==
  /\ ops.pc = "auto"
  /\ \/ LET intent == [from |-> 0, gen |-> stamp + 1,
                       action |-> ops.auto.rule.action]
        IN /\ stamp' = stamp + 1
           /\ PatchIntent(intent)
           /\ decided' = decided \cup {intent}
           /\ ops' = [ops EXCEPT !.pc = "audit", !.base = intent]
           /\ UNCHANGED limitVars
     \/ /\ Fails /\ AutoFailed
        /\ UNCHANGED <<stamp, claw, decided>>
  /\ UNCHANGED <<time, pods, esc, nEsc, cacheVars, queued, memVars, consumer,
                 watch, applied, autos>>

Create(sig, pc) ==
  /\ nEsc' = nEsc + 1
  /\ esc' = [esc EXCEPT ![nEsc + 1] = Created(sig.type)]
  /\ ops' = [ops EXCEPT !.pc = pc, !.id = nEsc + 1]
  /\ UNCHANGED limitVars

\* ... create the audit record; or create the escalation of escalate ...
OpsCreate ==
  /\ \/ ops.pc = "audit" /\ Create(ops.auto.sig, "record")
     \/ ops.pc = "escalate" /\ Create(Head(ops.jobs), "status")
     \/ /\ ops.pc \in {"audit", "escalate"} /\ Fails
        /\ IF ops.pc = "audit" THEN AutoFailed ELSE ops' = Escalating(Tail(ops.jobs))
        /\ UNCHANGED <<esc, nEsc>>
  /\ UNCHANGED <<time, stamp, pods, claw, cacheVars, queued, memVars, consumer,
                 watch, histVars>>

\* Nobody has touched the escalation since it was created.
Untouched == esc[ops.id].phase = ""

\* ... and set its phase; only then does the action count (recordAction,
\* RecordExecution).
AutoStatus ==
  /\ ops.pc = "record"
  /\ \/ /\ Untouched
        /\ esc' = [esc EXCEPT ![ops.id].phase = "AutoExecuted"]
        /\ actionCounts' = actionCounts \cup {[id |-> ops.id, at |-> time]}
        /\ lastExec' = [lastExec EXCEPT ![ops.auto.rule.id] = time]
        /\ autos' = autos \cup {[id |-> ops.id, at |-> time]}
        /\ ops' = Escalating(ops.jobs)
        /\ UNCHANGED limitVars
     \/ /\ OrFails(~Untouched)
        /\ AutoFailed
        /\ UNCHANGED <<esc, memVars, autos>>
  /\ UNCHANGED <<time, stamp, pods, claw, nEsc, cacheVars, queued, consumer,
                 watch, decided, applied>>

\* escalate: the second call.  If it fails the phase stays empty.
EscalateStatus ==
  /\ ops.pc = "status"
  /\ \/ /\ Untouched
        /\ esc' = [esc EXCEPT ![ops.id].phase = "Pending"]
        /\ UNCHANGED limitVars
     \/ /\ OrFails(~Untouched)
        /\ UNCHANGED esc
  /\ ops' = Escalating(Tail(ops.jobs))
  /\ UNCHANGED <<time, stamp, pods, claw, nEsc, cacheVars, queued, memVars,
                 consumer, watch, histVars>>

Reconcile == \/ OpsStart \/ OpsWriteApproved \/ OpsMarkExecuted \/ OpsGC
             \/ OpsDecide \/ AutoPatch \/ OpsCreate \/ AutoStatus
             \/ EscalateStatus

-----------------------------------------------------------------------------
(* consumeAndExecuteOpsIntent of the Claw controller.                      *)

Applies(intent) == applied' = applied \cup {intent}

\* parseOpsIntent on the cached Claw: an intent that was processed before is
\* left where it is.
ConsumeRead ==
  /\ consumer.pc = "idle" /\ clawCache.intent # None
  /\ LET i == clawCache.intent IN
       /\ i.action = "garbage" \/ i.gen > clawCache.gen
       /\ consumer' = [pc |-> IF i.action = "restart" THEN "delete" ELSE "patch",
                       base |-> clawCache]
  /\ UNCHANGED <<time, stamp, pods, objVars, cacheVars, queued, memVars, ops,
                 watch, limitVars, histVars>>

\* applyRestartPod: a pod is deleted and comes back with the same spec.  If
\* that fails the intent is cleared all the same.
ConsumeDelete ==
  /\ consumer.pc = "delete"
  /\ consumer' = [consumer EXCEPT !.pc = "patch"]
  /\ \/ /\ \E p \in DOMAIN pods : pods' = [pods EXCEPT ![p] = Healthy]
        /\ queued' = TRUE
        /\ Applies(consumer.base.intent)
        /\ UNCHANGED limitVars
     \/ /\ Fails
        /\ UNCHANGED <<pods, queued, applied>>
  /\ UNCHANGED <<time, stamp, objVars, cacheVars, memVars, ops, watch, decided,
                 autos>>

\* The value the patch leaves in the generation counter: it is advanced with
\* respect to the copy that was read, or not part of the patch.
clearOpsIntentAnnotations(intent) ==
  LET processed == IF intent.action = "garbage" THEN consumer.base.gen
                   ELSE intent.gen
  IN IF processed > consumer.base.gen THEN processed ELSE claw.gen

\* The single patch: the intent is removed, whatever it is by now, together
\* with the change of the spec and the counter.
ConsumePatch ==
  /\ consumer.pc = "patch"
  /\ consumer' = NoConsumer
  /\ LET intent == consumer.base.intent
     IN \/ /\ claw' = [intent |-> None, gen |-> clearOpsIntentAnnotations(intent)]
           /\ IF intent.action = "spec" THEN Applies(intent)
              ELSE UNCHANGED applied
           /\ UNCHANGED limitVars
        \/ /\ Fails
           /\ UNCHANGED <<claw, applied>>
  /\ UNCHANGED <<time, stamp, pods, esc, nEsc, cacheVars, queued, memVars, ops,
                 watch, decided, autos>>

Consume == ConsumeRead \/ ConsumeDelete \/ ConsumePatch

-----------------------------------------------------------------------------
(* The claw4k8s watcher.                                                   *)

\* processEscalation: Pending -> Analyzing.
WatchPick ==
  /\ limit.watcher /\ watch = NoWatch
  /\ \E i \in Ids :
       /\ esc[i].phase = "Pending"
       /\ esc' = [esc EXCEPT ![i].phase = "Analyzing"]
       /\ watch' = [id |-> i, copy |-> esc'[i]]
  /\ UNCHANGED <<time, stamp, pods, claw, nEsc, cacheVars, queued, memVars, ops,
                 consumer, limitVars, histVars>>

\* The pipeline's answer: no action (nothing usable was said, or a fallback
\* after errors), or a valid one stamped with a new generation, whose
\* parameters the consumer may still refuse.
Proposals(i) ==
  {None} \cup [from : {i}, gen : {stamp + 1}, action : {"spec", "restart", "params"}]

\* Analyzing -> AwaitingApproval, unless somebody was faster.
WatchPropose ==
  /\ watch # NoWatch
  /\ \E action \in Proposals(watch.id) :
       /\ stamp' = IF action = None THEN stamp ELSE stamp + 1
       /\ esc' = IF esc[watch.id] # watch.copy THEN esc
                 ELSE [esc EXCEPT ![watch.id].phase = "AwaitingApproval",
                                  ![watch.id].action = action]
  /\ watch' = NoWatch
  /\ UNCHANGED <<time, pods, claw, nEsc, cacheVars, queued, memVars, ops,
                 consumer, limitVars, histVars>>

\* The watcher stops or its last update fails.  After a cancellation
\* setFailed uses the cancelled context, so its update fails as well.
WatchStops ==
  /\ watch # NoWatch
  /\ Fails
  /\ watch' = NoWatch
  /\ UNCHANGED <<time, stamp, pods, objVars, cacheVars, queued, memVars, ops,
                 consumer, histVars>>

-----------------------------------------------------------------------------
(* kubectl-claw, hand edits, caches, time and restarts.                    *)

runApprove ==
  /\ \E i \in Ids :
       /\ esc[i].phase = "AwaitingApproval" /\ esc[i].action # None
       /\ esc' = [esc EXCEPT ![i].phase = "Approved"]
       /\ decided' = decided \cup {esc[i].action}
  /\ UNCHANGED <<time, stamp, pods, claw, nEsc, cacheVars, queued, memVars, ops,
                 consumer, watch, limitVars, applied, autos>>

runReject ==
  /\ \E i \in Ids :
       /\ esc[i] # Absent /\ ~IsTerminalPhase(esc[i].phase)
       /\ esc' = [esc EXCEPT ![i].phase = "Rejected"]
  /\ UNCHANGED <<time, stamp, pods, claw, nEsc, cacheVars, queued, memVars, ops,
                 consumer, watch, limitVars, histVars>>

WriteGarbage ==
  /\ garbage < limit.garbage
  /\ garbage' = garbage + 1
  /\ claw' = [claw EXCEPT !.intent = [from |-> 0, gen |-> 0, action |-> "garbage"]]
  /\ UNCHANGED <<time, stamp, pods, esc, nEsc, cacheVars, queued, memVars, ops,
                 consumer, watch, limit, sick, errors, restarts, histVars>>

\* The status the operator's cache shows for a pod changes: podToClaw.
PodChanges ==
  /\ sick < limit.sick /\ sick' = sick + 1
  /\ \E p \in DOMAIN pods, s \in limit.shown :
       pods[p] # s /\ pods' = [pods EXCEPT ![p] = s]
  /\ queued' = TRUE
  /\ UNCHANGED <<time, stamp, objVars, cacheVars, memVars, ops, consumer, watch,
                 limit, errors, restarts, garbage, histVars>>

\* A change of an annotation is no event for ClawOps.
SyncClaw ==
  /\ clawCache # claw /\ clawCache' = claw
  /\ UNCHANGED <<time, stamp, pods, objVars, escCache, queued, memVars, ops,
                 consumer, watch, limitVars, histVars>>

\* Faulty variant: the event of an escalation is mapped to no Claw.
MutSync ==
  /\ escCache # esc /\ escCache' = esc
  /\ UNCHANGED <<time, stamp, pods, objVars, clawCache, queued, memVars, ops,
                 consumer, watch, limitVars, histVars>>

\* escalationToClaw
SyncEscalations ==
  /\ escCache # esc /\ escCache' = esc
  /\ queued' = TRUE
  /\ UNCHANGED <<time, stamp, pods, objVars, clawCache, memVars, ops, consumer,
                 watch, limitVars, histVars>>

Tick ==
  /\ time < limit.ticks /\ time' = time + 1
  /\ UNCHANGED <<stamp, pods, objVars, cacheVars, queued, memVars, ops, consumer,
                 watch, limitVars, histVars>>

\* Counters and cool-downs live in memory only; the caches are filled and
\* every object is an event before the first reconcile.
OperatorRestart ==
  /\ restarts < limit.restarts /\ restarts' = restarts + 1
  /\ ops' = NoOps /\ consumer' = NoConsumer
  /\ clawCache' = claw /\ escCache' = esc /\ queued' = TRUE
  /\ actionCounts' = {} /\ lastExec' = [r \in RuleIDs |-> Never]
  /\ autos' = {}
  /\ UNCHANGED <<time, stamp, pods, objVars, watch, limit, sick, errors,
                 garbage, decided, applied>>

Next ==
  \/ Reconcile \/ Consume
  \/ WatchPick \/ WatchPropose \/ WatchStops
  \/ runApprove \/ runReject \/ WriteGarbage
  \/ PodChanges \/ SyncClaw \/ SyncEscalations \/ Tick \/ OperatorRestart

\* The work queue hands out what is queued, a reconcile runs to its end, and
\* the watch of the escalations delivers.
Fairness == WF_vars(Reconcile) /\ WF_vars(SyncEscalations)

SafetySpec == Init /\ [][Next]_vars
Spec == SafetySpec /\ Fairness

-----------------------------------------------------------------------------
\* What the consumer carries out was decided: an intent of a rule, or the
\* action of an escalation a human approved, never a mere proposal and never
\* an invalid annotation (processApprovedEscalations, ValidateIntent).
OnlyDecided == applied \subseteq decided

\* The automatic actions that one operator process records within an hour stay
\* within MaxActionsPerClawPerHour, although the check and the record are calls
\* apart.  An action whose audit record fails is published and not recorded
\* (isRateLimited, recordAction).
AutoWithinBudget == Cardinality(Within(autos)) <= MaxActions

\* A terminal phase is final: the watcher, kubectl-claw and the controller
\* race on an escalation, and none of them overwrites the outcome; it can
\* only be deleted (the optimistic lock of every status update).
TerminalStays ==
  [][\A i \in Ids : IsTerminalPhase(esc[i].phase) => esc'[i] \in {esc[i], Absent}]_vars
=============================================================================
