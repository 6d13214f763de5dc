---------------------------- MODULE ClawOperator ----------------------------
(***************************************************************************)
(* The Claw controller together with the ClawChannel and the               *)
(* ClawSelfConfig controllers, which share its Claw and its caches.  Each  *)
(* controller works on one request at a time, next to the others.          *)
(***************************************************************************)
EXTENDS ClawLifecycle

CONSTANTS
  Requests,   \* requests of self-configs: how much they ask of each action
  Allowed,    \* SelfConfigure.AllowedActions of the Claws
  TTL         \* ticks an applied self-config is kept

Actions == {"skills", "config", "workspaceFiles", "envVars"}

ASSUME OperatorAssumption ==
  /\ Requests \subseteq [Actions -> Nat] /\ Allowed \subseteq Actions
  /\ TTL \in Nat \ {0}

VARIABLES
  chanQueued,   \* a request for the channel is in the work queue
  chanRec,      \* its reconcile
  conf,         \* the ClawSelfConfig
  confCache,
  confQueued,
  confRec

chanVars == <<chanQueued, chanRec>>
confVars == <<conf, confCache, confQueued, confRec>>
allVars == <<vars, chanVars, confVars>>

NoChanRec == [pc |-> "idle", chan |-> NoObj, refs |-> 0]
NoConfRec == [pc |-> "idle", conf |-> NoObj, claw |-> NoObj]

OperatorInit ==
  /\ Init
  /\ chanQueued = FALSE /\ chanRec = NoChanRec
  /\ conf = NoObj /\ confCache = NoObj /\ confQueued = FALSE /\ confRec = NoConfRec

-----------------------------------------------------------------------------
(* ClawChannelReconciler.  Only events of the channel itself are requests. *)

ChannelGoto(pc) == chanRec' = [chanRec EXCEPT !.pc = pc]
ChannelFail == chanRec' = NoChanRec /\ chanQueued' = TRUE
ChannelOnly == UNCHANGED <<claw, childVars, pvc, snaps, cacheVars, queued, rec,
                           others, confVars>>

findReferencingClaws ==
  IF clawCache # NoObj /\ "channel" \in clawCache.on THEN 1 ELSE 0

ChannelReconcile ==
  /\ chanRec.pc = "idle" /\ chanQueued
  /\ chanQueued' = FALSE
  /\ chanRec' = IF chanCache = NoObj THEN NoChanRec
                ELSE [pc |-> IF chanCache.deleting THEN "deletion" ELSE "finalizer",
                      chan |-> chanCache, refs |-> findReferencingClaws]
  /\ UNCHANGED chan /\ ChannelOnly

ChannelFinalizer ==
  /\ chanRec.pc = "finalizer"
  /\ IF chanRec.chan.finalizer
     THEN ChannelGoto("status") /\ UNCHANGED <<chan, chanQueued>>
     ELSE IF chan = NoObj \/ chan.deleting
     THEN ChannelFail /\ UNCHANGED chan
     ELSE /\ chan' = [chan EXCEPT !.finalizer = TRUE]
          /\ chanRec' = [chanRec EXCEPT !.pc = "status", !.chan = chan']
          /\ UNCHANGED chanQueued
  /\ ChannelOnly

\* A status update that returns with the request queued again, or not.
ChannelStatus(again) ==
  IF chan = chanRec.chan
  THEN /\ chan' = [chan EXCEPT !.refs = chanRec.refs]
       /\ chanRec' = NoChanRec
       /\ chanQueued' = (chanQueued \/ again)
  ELSE ChannelFail /\ UNCHANGED chan

updateChannelStatus ==
  /\ chanRec.pc = "status"
  /\ ChannelStatus(FALSE)
  /\ ChannelOnly

\* Faulty variant: a channel in use is not looked at again.
MutChannelInUse ==
  /\ chanRec.pc = "deletion" /\ chanRec.chan.finalizer /\ chanRec.refs > 0
  /\ ChannelStatus(FALSE)
  /\ ChannelOnly

\* In use: InUse is set and the request comes back after ten seconds.
ChannelInUse ==
  /\ chanRec.pc = "deletion" /\ chanRec.chan.finalizer /\ chanRec.refs > 0
  /\ ChannelStatus(TRUE)
  /\ ChannelOnly

ChannelRelease ==
  /\ chanRec.pc = "deletion" /\ (chanRec.chan.finalizer => chanRec.refs = 0)
  /\ IF ~chanRec.chan.finalizer
     THEN chanRec' = NoChanRec /\ UNCHANGED <<chan, chanQueued>>
     ELSE IF chan = NoObj THEN ChannelFail /\ UNCHANGED chan
     ELSE /\ chan' = IF chan.deleting THEN NoObj
                     ELSE [chan EXCEPT !.finalizer = FALSE]
          /\ chanRec' = NoChanRec /\ UNCHANGED chanQueued
  /\ ChannelOnly

ChannelStep == \/ ChannelReconcile \/ ChannelFinalizer \/ updateChannelStatus
               \/ ChannelInUse \/ ChannelRelease

DeleteChannel ==
  /\ chan # NoObj /\ ~chan.deleting
  /\ Spend("drops")
  /\ chan' = IF chan.finalizer THEN [chan EXCEPT !.deleting = TRUE] ELSE NoObj
  /\ UNCHANGED <<claw, childVars, pvc, snaps, cacheVars, queued, rec, time, uids,
                 chanVars, confVars>>

-----------------------------------------------------------------------------
(* ClawSelfConfigReconciler.                                               *)

ConfGoto(pc) == confRec' = [confRec EXCEPT !.pc = pc]
ConfFail == confRec' = NoConfRec /\ confQueued' = TRUE
ConfOnly == UNCHANGED <<childVars, pvc, chan, snaps, cacheVars, queued, rec, others,
                        chanVars, confCache>>

\* Adding and removing are one amount here; a config patch has no limit.
validateActions(asks) ==
  \A a \in Actions : asks[a] > 0 => a \in Allowed /\ (a = "config" \/ asks[a] <= 10)

\* An applied config is deleted when its time is over and is looked at again
\* until then; a denied or failed one is left alone.
SelfReconcile ==
  /\ confRec.pc = "idle" /\ confQueued
  /\ LET c == confCache
         pc == IF c.phase = "Applied" THEN "expire"
               ELSE IF \/ clawCache = NoObj
                       \/ "selfConfigure" \notin clawCache.on
                       \/ ~validateActions(c.asks)
               THEN "deny" ELSE "own"
     IN IF c = NoObj \/ (c # NoObj /\ c.phase \in {"Denied", "Failed"})
        THEN confRec' = NoConfRec /\ confQueued' = FALSE
        ELSE IF c.phase = "Applied" /\ time - c.appliedAt < TTL
        THEN UNCHANGED <<confRec, confQueued>>
        ELSE /\ confRec' = [pc |-> pc, conf |-> c, claw |-> clawCache]
             /\ confQueued' = FALSE
  /\ UNCHANGED <<claw, conf>> /\ ConfOnly

SelfExpire ==
  /\ confRec.pc = "expire"
  /\ conf' = NoObj
  /\ IF conf = NoObj THEN ConfFail ELSE confRec' = NoConfRec /\ UNCHANGED confQueued
  /\ UNCHANGED claw /\ ConfOnly

deny ==
  /\ confRec.pc = "deny"
  /\ IF conf = confRec.conf
     THEN /\ conf' = [conf EXCEPT !.phase = "Denied"]
          /\ confRec' = NoConfRec /\ UNCHANGED confQueued
     ELSE ConfFail /\ UNCHANGED conf
  /\ UNCHANGED claw /\ ConfOnly

\* Faulty variant: the owner is patched in, which carries no version.
MutSelfOwn ==
  /\ confRec.pc = "own"
  /\ IF conf # NoObj
     THEN /\ conf' = [conf EXCEPT !.owner = confRec.claw.uid]
          /\ confRec' = [confRec EXCEPT !.pc = "apply", !.conf = conf']
          /\ UNCHANGED confQueued
     ELSE ConfFail /\ UNCHANGED conf
  /\ UNCHANGED claw /\ ConfOnly

\* The owner reference is written with an update of the whole object.
SelfOwn ==
  /\ confRec.pc = "own"
  /\ IF conf = confRec.conf
     THEN /\ conf' = [conf EXCEPT !.owner = confRec.claw.uid]
          /\ confRec' = [confRec EXCEPT !.pc = "apply", !.conf = conf']
          /\ UNCHANGED confQueued
     ELSE ConfFail /\ UNCHANGED conf
  /\ UNCHANGED claw /\ ConfOnly

\* The annotation last-self-config; a conflict makes the config Failed.
applyChanges ==
  /\ confRec.pc = "apply"
  /\ IF claw # NoObj /\ claw = confRec.claw
     THEN claw' = [claw EXCEPT !.selfConfig = TRUE] /\ ConfGoto("applied")
     ELSE ConfGoto("failed") /\ UNCHANGED claw
  /\ UNCHANGED <<conf, confQueued>> /\ ConfOnly

\* The error of this status update is dropped.
SelfFailed ==
  /\ confRec.pc = "failed"
  /\ conf' = IF conf = confRec.conf THEN [conf EXCEPT !.phase = "Failed"] ELSE conf
  /\ ConfFail
  /\ UNCHANGED claw /\ ConfOnly

SelfApplied ==
  /\ confRec.pc = "applied"
  /\ IF conf = confRec.conf
     THEN conf' = [conf EXCEPT !.phase = "Applied", !.appliedAt = time]
     ELSE UNCHANGED conf
  /\ ConfFail
  /\ UNCHANGED claw /\ ConfOnly

SelfStep == \/ SelfReconcile \/ SelfExpire \/ deny \/ SelfOwn
            \/ applyChanges \/ SelfFailed \/ SelfApplied

SyncConf ==
  /\ confCache # conf /\ confCache' = conf
  /\ confQueued' = TRUE
  /\ UNCHANGED <<vars, chanVars, conf, confRec>>

\* The runtime creates a config for its Claw.
CreateConf ==
  /\ conf = NoObj
  /\ Spend("configs")
  /\ \E asks \in Requests :
       conf' = [asks |-> asks, owner |-> 0, phase |-> "", appliedAt |-> 0]
  /\ UNCHANGED <<serverVars, cacheVars, queued, rec, time, uids, chanVars,
                 confCache, confQueued, confRec>>

CollectConf ==
  /\ conf # NoObj /\ conf.owner # 0 /\ ~Live(conf.owner)
  /\ conf' = NoObj
  /\ UNCHANGED <<vars, chanVars, confCache, confQueued, confRec>>

-----------------------------------------------------------------------------
\* An event of the channel is a request for it, too.
Lifecycle ==
  /\ ClawNext
  /\ chanQueued' = (chanQueued \/ chanCache' # chanCache)
  /\ UNCHANGED <<chanRec, confVars>>

Next == \/ Lifecycle
        \/ ChannelStep \/ DeleteChannel
        \/ SelfStep \/ SyncConf \/ CreateConf \/ CollectConf

SafetySpec == OperatorInit /\ [][Next]_allVars

\* Each controller has a worker of its own.
Spec == /\ SafetySpec /\ ClawFairness
        /\ WF_allVars(ChannelStep) /\ WF_allVars(SelfStep) /\ WF_allVars(SyncConf)

-----------------------------------------------------------------------------
Guarded == KindSet \ {"Service", "ConfigMap", "StatefulSet"}

\* An object of a guarded kind that the Claw does not control is never
\* modified, whatever the cached copy said when its owner was checked
\* (IsControlledBy in ensureRole, ensurePDB, ...).
ForeignUntouched ==
  [][\A k \in Guarded : child[k] # NoObj /\ child[k].owner = 0
                          => child'[k] \in {child[k], NoObj}]_allVars

\* The newest Retain snapshots are there, however stale the list that was
\* pruned (pruneSnapshots).
NewestKept == Newest(Retain, made) \subseteq snaps

\* A self-config that was denied, failed or applied is not applied afterwards,
\* from whatever copy the controller works on (Reconcile of
\* ClawSelfConfigReconciler).
NeverLate ==
  [][claw # NoObj /\ claw' # NoObj /\ claw'.uid = claw.uid
       /\ claw'.selfConfig # claw.selfConfig /\ conf # NoObj
     => conf.phase = ""]_allVars

StatefulSet == child["StatefulSet"]
Built == StatefulSet # NoObj /\ StatefulSet.data # NoObj
Owned == Built /\ claw # NoObj /\ StatefulSet.owner = claw.uid

\* The pod of the StatefulSet can start and its parts find each other: every
\* channel sidecar starts after the IPC bus and after claw-init, and every
\* mounted volume is declared or claimed, except a persistent one that was
\* switched on after the Claw was created, and the output volume of an
\* archiver (buildStatefulSet, ensureStatefulSet).
PodStarts ==
  Built =>
    LET pod == StatefulSet.data.pod
        name(i) == Starts(pod)[i].name
        excused == (IF Owned THEN Persistent \ claw.steady ELSE Persistent)
    IN /\ name(1) = "claw-init"
       /\ \A i \in DOMAIN Starts(pod) :
            name(i) = "channel" => \E j \in 1 .. i : name(j) = "ipc-bus"
       /\ Mounts(pod) \subseteq pod.volumes \cup DOMAIN StatefulSet.claims \cup excused

\* What the claim templates were created with stays true of the spec: a
\* volume that was never switched off has the class it was claimed with, and
\* at least the size, although the StatefulSet may be built from a stale Claw
\* (validateVolumeUpdate, ensureStatefulSet).
ClaimsFit ==
  Owned /\ claw.runtime # "k8sops" =>
    \A v \in claw.steady :
      /\ v \in DOMAIN StatefulSet.claims
      /\ StatefulSet.claims[v].class \in {NoClass, claw.vols[v].class}
      /\ StatefulSet.claims[v].size <= claw.vols[v].size
=============================================================================
