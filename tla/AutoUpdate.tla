----------------------------- MODULE AutoUpdate -----------------------------
(***************************************************************************)
(* internal/controller/autoupdate_controller.go for one Claw with          *)
(* auto-update enabled, with the parts of the system it races: the Claw    *)
(* controller, which copies the target image into the StatefulSet          *)
(* (claw_controller.go), and the StatefulSet controller.                   *)
(*                                                                         *)
(* A reconcile reads the Claw, updates its annotations and then, in a      *)
(* second call, its status.  Both calls carry a resource version, so a     *)
(* reconcile that read an old object changes nothing; but the object read  *)
(* again between the calls may be old (it comes from a cache) or change    *)
(* before the second call, or the operator may die: then the annotations   *)
(* are written and the status is not.  One worker serves a Claw, so the    *)
(* next reconcile starts when the second call is over.                     *)
(*                                                                         *)
(* Versions are numbers in semver order.  As an image 0 is the runtime's   *)
(* default image, as a version it is the empty string.                     *)
(***************************************************************************)
EXTENDS Integers, FiniteSets

CONSTANTS Versions,      \* the semver tags the registry may come to hold
          Allowed,       \* those that satisfy spec.versionConstraint
          Good,          \* the images whose pods become ready
          Replicas,      \* spec.replicas
          MaxRollbacks,  \* spec.maxRollbacks
          MaxTicks,      \* bound on the ticks of the cron schedule
          MaxLost,       \* bound on the status writes that are lost
          NoStatus       \* no status to write

ASSUME UpdateAssumption ==
  /\ Versions \subseteq Nat \ {0} /\ Allowed \subseteq Versions
  /\ Good \subseteq Versions \cup {0}
  /\ Replicas \in Nat /\ MaxRollbacks \in Nat \ {0}
  /\ MaxTicks \in Nat \ {0} /\ MaxLost \in Nat

VARIABLES
  published,  \* the tags in the registry
  tick,       \* the latest tick of the schedule
  ann,        \* the annotations: target image, whether update-phase is
              \* HealthCheck, whether the health timeout has passed since
              \* update-started
  status,     \* status.autoUpdate
  pending,    \* the status a reconcile has still to write, NoStatus outside
  sts,        \* the image in the StatefulSet's template, NoImage without one
  seen,       \* the image of the revision that its status is about
  pods,       \* image and readiness of each pod
  lost,       \* history: how many status writes were lost
  reverted,   \* history: the versions whose updates were rolled back
  streak      \* history: rollbacks since the last successful update

claw == <<ann, status, pending>>
set == <<sts, seen, pods>>
history == <<lost, reverted, streak>>
vars == <<published, tick, claw, set, history>>

NoImage == -1
Image == Versions \cup {0}
Pod == 1 .. Replicas

Status == [current : Image, available : Image, lastCheck : Nat,
           rollbacks : Nat, open : BOOLEAN, failed : SUBSET Image]

ASSUME NoStatusAssumption == NoStatus \notin Status

-----------------------------------------------------------------------------
Init ==
  /\ published = {} /\ tick = 1
  /\ ann = [target |-> 0, phase |-> FALSE, late |-> FALSE]
  /\ status = [current |-> 0, available |-> 0, lastCheck |-> 0,
               rollbacks |-> 0, open |-> FALSE, failed |-> {}]
  /\ pending = NoStatus
  /\ sts = NoImage /\ seen = NoImage
  /\ pods = [p \in Pod |-> [image |-> NoImage, ready |-> FALSE]]
  /\ lost = 0 /\ reverted = {} /\ streak = 0

-----------------------------------------------------------------------------
(* Version check.                                                           *)

\* The versions ResolveBestVersion lets through; it returns the greatest.
MutAnyVersion == {v \in published \cap Allowed : v \notin status.failed}
Candidates == {v \in published \cap Allowed :
                 v \notin status.failed /\ v > status.current}
Best(v) == v \in Candidates /\ \A w \in Candidates : w <= v

Idle == pending = NoStatus /\ ~ann.phase

CheckDue == Idle /\ status.lastCheck < tick

MutIgnoresCircuit == TRUE
CircuitClosed == ~status.open

\* The status once version v was found.
MutNotAvailable(v) == [status EXCEPT !.lastCheck = tick]
AfterCheck(v) == [status EXCEPT !.lastCheck = tick, !.available = v]

\* No newer version, or an open circuit: only the status is written, in one
\* call.  If that call fails nothing has changed.
CheckOnly ==
  /\ CheckDue
  /\ \/ /\ Candidates = {}
        /\ status' = [status EXCEPT !.lastCheck = tick]
     \/ /\ ~CircuitClosed
        /\ \E v \in Versions : Best(v) /\ status' = AfterCheck(v)
  /\ UNCHANGED <<published, tick, ann, pending, set, history>>

Start(v) ==
  /\ CheckDue
  /\ Best(v) /\ CircuitClosed
  /\ ann' = [target |-> v, phase |-> TRUE, late |-> FALSE]
  /\ pending' = AfterCheck(v)
  /\ UNCHANGED <<published, tick, status, set, history>>

-----------------------------------------------------------------------------
(* reconcileHealthCheck and rollback.                                       *)

UpdatedReplicas ==
  Cardinality({p \in Pod : seen # NoImage /\ pods[p].image = seen})
ReadyReplicas == Cardinality({p \in Pod : pods[p].ready})

Checking == pending = NoStatus /\ ann.phase

\* What the check finds: a StatefulSet whose status counts enough replicas.
Healthy ==
  sts # NoImage /\ UpdatedReplicas >= Replicas /\ ReadyReplicas >= Replicas

MutWaitsForSet == ann.late /\ sts # NoImage
TimedOut == ann.late

\* The annotations once update-phase and update-started are deleted.
Cleared(image) == [target |-> image, phase |-> FALSE, late |-> FALSE]

AfterPass ==
  [status EXCEPT !.current = ann.target, !.rollbacks = 0, !.open = FALSE]

\* The target image stays: it is what the Claw now runs.
Pass ==
  /\ Checking
  /\ Healthy
  /\ ann' = Cleared(ann.target)
  /\ pending' = AfterPass
  /\ streak' = 0
  /\ UNCHANGED <<published, tick, status, set, lost, reverted>>

\* The failed version is taken from the status, not from the target image.
MutOpensLate ==
  [status EXCEPT !.failed = @ \cup {status.available}, !.rollbacks = @ + 1,
                 !.open = @ \/ status.rollbacks >= MaxRollbacks]
AfterRollback ==
  [status EXCEPT !.failed = @ \cup {status.available}, !.rollbacks = @ + 1,
                 !.open = @ \/ status.rollbacks + 1 >= MaxRollbacks]

\* The target image goes: the Claw is back at the default image.
Rollback ==
  /\ Checking
  /\ ~Healthy /\ TimedOut
  /\ ann' = Cleared(0)
  /\ pending' = AfterRollback
  /\ reverted' = reverted \cup {ann.target}
  /\ streak' = streak + 1
  /\ UNCHANGED <<published, tick, status, set, lost>>

\* The second call of a reconcile: mergeAutoUpdateStatus and Status().Update.
WriteStatus ==
  /\ pending # NoStatus
  /\ status' = pending
  /\ pending' = NoStatus
  /\ UNCHANGED <<published, tick, ann, set, history>>

\* A conflict, a failed call or the death of the operator.
LoseStatus ==
  /\ pending # NoStatus /\ lost < MaxLost
  /\ pending' = NoStatus
  /\ lost' = lost + 1
  /\ UNCHANGED <<published, tick, ann, status, set, reverted, streak>>

Reconcile == CheckOnly \/ (\E v \in Versions : Start(v)) \/ Pass \/ Rollback

-----------------------------------------------------------------------------
(* The Claw controller and the StatefulSet controller.                      *)

\* ensureStatefulSet with the image override of buildStatefulSet.
EnsureStatefulSet ==
  /\ sts # ann.target
  /\ sts' = ann.target
  /\ UNCHANGED <<published, tick, claw, seen, pods, history>>

\* The StatefulSet controller takes notice of a new template.
Observe ==
  /\ seen # sts
  /\ seen' = sts
  /\ UNCHANGED <<published, tick, claw, sts, pods, history>>

\* OrderedReady: pods are created in order and replaced in reverse order, and
\* only while every pod created so far is ready.
Missing == {p \in Pod : pods[p].image = NoImage}
Outdated == {p \in Pod : pods[p].image # seen}

NextPod(p) ==
  IF Missing # {} THEN p \in Missing /\ \A q \in Missing : p <= q
                  ELSE p \in Outdated /\ \A q \in Outdated : q <= p

Replace(p) ==
  /\ seen = sts /\ seen # NoImage /\ NextPod(p)
  /\ \A q \in Pod \ Missing : pods[q].ready
  /\ pods' = [pods EXCEPT ![p] = [image |-> seen, ready |-> FALSE]]
  /\ UNCHANGED <<published, tick, claw, sts, seen, history>>

PodReady(p) ==
  /\ ~pods[p].ready /\ pods[p].image \in Good
  /\ pods' = [pods EXCEPT ![p].ready = TRUE]
  /\ UNCHANGED <<published, tick, claw, sts, seen, history>>

-----------------------------------------------------------------------------
Publish(v) ==
  /\ v \notin published
  /\ published' = published \cup {v}
  /\ UNCHANGED <<tick, claw, set, history>>

CronTick ==
  /\ tick < MaxTicks
  /\ tick' = tick + 1
  /\ UNCHANGED <<published, claw, set, history>>

HealthTimeout ==
  /\ ann.phase /\ ~ann.late
  /\ ann' = [ann EXCEPT !.late = TRUE]
  /\ UNCHANGED <<published, tick, status, pending, set, history>>

Next ==
  \/ Reconcile \/ WriteStatus \/ LoseStatus
  \/ EnsureStatefulSet \/ Observe
  \/ \E p \in Pod : Replace(p) \/ PodReady(p)
  \/ \E v \in Versions : Publish(v)
  \/ CronTick \/ HealthTimeout

Spec == Init /\ [][Next]_vars

\* The controller polls while an update is under way, its calls return, and
\* time passes.  Nothing is assumed of the Claw and StatefulSet controllers.
Fairness ==
  WF_vars(Reconcile) /\ WF_vars(WriteStatus \/ LoseStatus) /\ WF_vars(HealthTimeout)

FairSpec == Spec /\ Fairness

-----------------------------------------------------------------------------
\* The variables keep their types; only an update has a timeout.
TypeOK ==
  /\ published \subseteq Versions /\ tick \in 1 .. MaxTicks
  /\ ann \in [target : Image, phase : BOOLEAN, late : BOOLEAN]
  /\ ann.late => ann.phase
  /\ status \in Status /\ pending \in Status \cup {NoStatus}
  /\ sts \in Image \cup {NoImage} /\ seen \in Image \cup {NoImage}
  /\ pods \in [Pod -> [image : Image \cup {NoImage}, ready : BOOLEAN]]
  /\ lost \in 0 .. MaxLost /\ reverted \subseteq Image /\ streak \in Nat

\* An open circuit means that no update is under way, also when status writes
\* are lost: the annotations of a rolled-back update are gone before the status
\* that opens the circuit is written.
OpenIsQuiet == status.open => ~ann.phase

\* Without a lost status write, exactly the versions that were rolled back are
\* skipped from then on (rollback, ResolveBestVersion).
FailedIsReverted ==
  (lost = 0 /\ pending = NoStatus) => status.failed = reverted

\* Without a lost status write the circuit breaker bounds the rollbacks in a row
\* ("opens after N consecutive rollbacks, blocks further updates", CHANGELOG.md).
BreakerHolds == lost = 0 => streak <= MaxRollbacks

\* The recorded version never goes back, also when status writes are lost.
CurrentGrows == [][status'.current >= status.current]_vars

\* Every update ends, in success or in a rollback.
UpdateEnds == ann.phase ~> ~ann.phase

\* "Health check passed - all replicas are updated and ready": the version that
\* becomes the current one then runs in every pod.
CurrentWasReady ==
  [][(ann.phase /\ ~ann'.phase /\ ann'.target = ann.target)
       => \A p \in Pod : pods[p] = [image |-> ann.target, ready |-> TRUE]]_vars
=============================================================================
