---------------------------- MODULE ClawLifecycle ----------------------------
(***************************************************************************)
(* The Claw controller: finalizer, the objects it keeps for a Claw, the    *)
(* owner references of the volume claims, the status, scheduled snapshots, *)
(* and deletion under a reclaim policy.                                    *)
(*                                                                         *)
(* The controller reads a cache that lags and writes the API server, one   *)
(* call per step.  An update carries the version that was read and fails   *)
(* when the object has changed; equality with the cached copy stands for   *)
(* the version.  A merge patch and a delete carry no version and no UID.   *)
(* Any error ends the reconcile and puts the request back in the queue.    *)
(* The garbage collector, the StatefulSet controller and the users are the *)
(* environment; the users' changes pass the admission webhooks.  The       *)
(* intents consumed after the finalizer is ensured are left to ClawOps.    *)
(***************************************************************************)
EXTENDS FiniteSets, Admission

CONSTANTS
  MaxUid,     \* bound: Claws created under the name
  NoObj,      \* an object that does not exist
  Retain,     \* SnapshotSpec.Retain: snapshots kept of a volume
  Modes,      \* the modes a ClawChannel may be created with
  Limits      \* bounds on the environment; a run takes one of them

\* What a reconcile ensures, in this order.
Kinds == <<"Service", "ConfigMap", "ServiceAccount", "Role", "RoleBinding",
           "NetworkPolicy", "Ingress", "PDB", "StatefulSet">>
KindSet == {Kinds[i] : i \in DOMAIN Kinds}
Toggles == {"selfConfigure", "networkPolicy", "ingress", "pdb", "ownAccount",
            "channel", "snapshot", "cache", "shared", "archive", "autoUpdate",
            "secretRef", "externalSecret", "keys",
            "otherPath", "badCache", "badSchedule"}
Volumes == {Off} \cup [class : {NoClass, "fast"}, size : 0 .. 2]
Policies == {"", "Delete", "Retain", "Archive"}

Bounds == {"edits",      \* edits of the spec
           "foreign",    \* objects created by somebody else
           "losses",     \* objects removed by somebody else
           "deletes",    \* Claws deleted
           "channels",   \* ClawChannels created
           "drops",      \* ClawChannels deleted
           "configs",    \* ClawSelfConfigs created
           "ticks",      \* ticks of the clock
           "crashes"}    \* failed calls and restarts

ASSUME LifecycleAssumption ==
  /\ MaxUid \in Nat \ {0} /\ Retain \in Nat \ {0}
  /\ Modes \subseteq {"inbound", "outbound", "bidirectional"}
  /\ \A l \in Limits :
       /\ l.kinds \subseteq KindSet       \* the kinds looked at
       /\ l.policies \subseteq Policies
       /\ l.on \subseteq Toggles          \* what a new Claw has switched on
       /\ l.flips \subseteq Toggles       \* what an edit may switch
       /\ l.runtimes \subseteq Runtimes
       /\ l.vols \in [Persistent -> Volumes]       \* of a new Claw
       /\ l.resizes \subseteq Persistent \X Volumes  \* what an edit may set
       /\ l.native \in BOOLEAN            \* NativeSidecarsEnabled
       /\ \A b \in Bounds : l[b] \in Nat

VARIABLES
  claw,        \* the Claw on the server
  clawCache,
  child,       \* the object of each kind on the server
  childCache,
  events,      \* kinds with undelivered events of an object a Claw controls
  pvc,         \* the volume claim of the StatefulSet: its owners
  pvcCache,
  chan,        \* the ClawChannel the Claw may refer to
  chanCache,
  snaps,       \* the VolumeSnapshots of the session volume: their times
  snapCache,
  time,        \* the clock
  queued,      \* a request for the Claw is in the work queue
  rec,         \* the reconcile: next step and the Claw it works on
  uids,        \* UIDs given out
  limit,       \* the member of Limits that bounds this run
  used,        \* how much of it is used up
  made         \* history: the times of all snapshots

childVars == <<child, events>>
serverVars == <<claw, childVars, pvc, chan, snaps>>
cacheVars == <<clawCache, childCache, pvcCache, chanCache, snapCache>>
others == <<time, uids, limit, used, made>>
vars == <<serverVars, cacheVars, queued, rec, others>>

Order == SelectSeq(Kinds, LAMBDA k : k \in limit.kinds)
NoRec == [pc |-> "idle", claw |-> NoObj, next |-> 0]

\* The spec of a Claw is its revision, its runtime, what is switched on and
\* the volumes; steady is a history of the volumes that were never off.
NewClaw(uid, runtime, policy) ==
  [uid |-> uid, rev |-> 1, runtime |-> runtime, on |-> limit.on,
   vols |-> limit.vols, policy |-> Default(policy),
   deleting |-> FALSE, finalizer |-> FALSE, observed |-> 0, phase |-> "",
   archive |-> FALSE, last |-> 0, selfConfig |-> FALSE,
   steady |-> Enabled(limit)]

Init ==
  /\ limit \in Limits
  /\ claw = NoObj /\ clawCache = NoObj
  /\ child = [k \in KindSet |-> NoObj] /\ childCache = child /\ events = {}
  /\ pvc = NoObj /\ pvcCache = NoObj
  /\ chan = NoObj /\ chanCache = NoObj /\ snaps = {} /\ snapCache = {}
  /\ time = 1 /\ queued = FALSE /\ rec = NoRec /\ uids = 0 /\ made = {}
  /\ used = [b \in Bounds |-> 0]

-----------------------------------------------------------------------------
(* The reconcile as a sequence of steps.                                   *)

Goto(pc) == rec' = [rec EXCEPT !.pc = pc]
Done == rec' = NoRec
\* The reconcile returns an error: the request is queued again.
Fail == rec' = NoRec /\ queued' = TRUE

\* Get the Claw; a Claw being deleted is cleaned up.
Reconcile ==
  /\ rec.pc = "idle" /\ queued
  /\ queued' = FALSE
  /\ rec' = IF clawCache = NoObj THEN NoRec
            ELSE [pc |-> IF clawCache.deleting THEN "deletion" ELSE "finalizer",
                  claw |-> clawCache, next |-> 1]
  /\ UNCHANGED <<serverVars, cacheVars, others>>

\* The API server refuses a new finalizer on an object being deleted.
ensureFinalizer ==
  /\ rec.pc = "finalizer"
  /\ IF rec.claw.finalizer THEN Goto("ensure") /\ UNCHANGED <<claw, queued>>
     ELSE IF claw = NoObj \/ claw.deleting
          THEN Fail /\ UNCHANGED claw
          ELSE /\ claw' = [claw EXCEPT !.finalizer = TRUE]
               /\ rec' = [rec EXCEPT !.pc = "ensure", !.claw = claw']
               /\ UNCHANGED queued
  /\ UNCHANGED <<childVars, pvc, chan, snaps, cacheVars, others>>

-----------------------------------------------------------------------------
(* One object per kind.  An object is its content, the claim templates in  *)
(* the case of the StatefulSet, and the UID in the controller reference, 0 *)
(* if none.  The content is what of the spec the builder uses: the         *)
(* revision where that may be any field.                                   *)

needsRBAC(c) == "selfConfigure" \in c.on
networkPolicyEnabled(c) == "networkPolicy" \in c.on
ingressEnabled(c) == "ingress" \in c.on
pdbEnabled(c) == "pdb" \in c.on
isUserManagedSA(c) == "ownAccount" \in c.on

serviceAccountName(c) == IF isUserManagedSA(c) THEN "users" ELSE "claws"

buildService(c) == c.runtime           \* the ports of the runtime
buildConfigMap(c) == c.rev
buildServiceAccount(c) == c.rev
buildRole(c) == c.runtime              \* nothing but the labels
buildRoleBinding(c) == serviceAccountName(c)
buildNetworkPolicy(c) == c.rev
buildIngress(c) == c.rev
buildPDB(c) == c.rev

\* The channel is looked up in the cache.
ChannelFits == chanCache # NoObj /\ isModeCompatible("inbound", chanCache.mode)

buildStatefulSet(c) == [rev |-> c.rev, account |-> serviceAccountName(c),
                        pod |-> Template(c, ChannelFits, limit.native)]

Content(k, c) == CASE k = "Service" -> buildService(c)
                   [] k = "ConfigMap" -> buildConfigMap(c)
                   [] k = "ServiceAccount" -> buildServiceAccount(c)
                   [] k = "Role" -> buildRole(c)
                   [] k = "RoleBinding" -> buildRoleBinding(c)
                   [] k = "NetworkPolicy" -> buildNetworkPolicy(c)
                   [] k = "Ingress" -> buildIngress(c)
                   [] k = "PDB" -> buildPDB(c)
                   [] k = "StatefulSet" -> buildStatefulSet(c)

Object(owner, content, claims) == [owner |-> owner, data |-> content, claims |-> claims]
NoClaims == [v \in {} |-> Off]
Desired(k, c) ==
  Object(c.uid, Content(k, c),
         IF k = "StatefulSet" THEN BuildVolumeClaimTemplates(c) ELSE NoClaims)
IsControlledBy(obj, c) == obj.owner = c.uid

Ensuring(k) == rec.pc = "ensure" /\ rec.next <= Len(Order) /\ Order[rec.next] = k
NextKind == rec' = [rec EXCEPT !.next = @ + 1]

\* A write; one that changes nothing is no event.
Controlled(obj) == obj # NoObj /\ obj.owner # 0
SetChild(k, obj) ==
  /\ child' = [child EXCEPT ![k] = obj]
  /\ events' = IF obj # child[k] /\ (Controlled(obj) \/ Controlled(child[k]))
               THEN events \cup {k} ELSE events

\* The Create call; the name may have been taken meanwhile.
Create(k) ==
  IF child[k] = NoObj
  THEN /\ SetChild(k, Desired(k, rec.claw))
       /\ NextKind /\ UNCHANGED queued
  ELSE Fail /\ UNCHANGED childVars

\* The Update call: the content is replaced, the controller reference and the
\* claim templates are not.
Update(k) ==
  IF child[k] = childCache[k]
  THEN /\ SetChild(k, [child[k] EXCEPT !.data = Content(k, rec.claw)])
       /\ NextKind /\ UNCHANGED queued
  ELSE Fail /\ UNCHANGED childVars

\* The Delete call, by name.  NotFound is an error here.
DeleteChild(k) ==
  IF child[k] # NoObj
  THEN /\ SetChild(k, NoObj)
       /\ NextKind /\ UNCHANGED queued
  ELSE Fail /\ UNCHANGED childVars

\* Service, ConfigMap and StatefulSet: create, or update whatever is there.
CreateOrUpdate(k) ==
  /\ Ensuring(k)
  /\ IF childCache[k] = NoObj THEN Create(k) ELSE Update(k)
  /\ UNCHANGED <<claw, pvc, chan, snaps, cacheVars, others>>

\* Faulty variant: the owner is not looked at before an update.
MutEnsureOwned(k) ==
  IF childCache[k] = NoObj THEN Create(k) ELSE Update(k)

\* The others: create, or update if this Claw controls the object.
EnsureOwned(k) ==
  IF childCache[k] = NoObj THEN Create(k)
  ELSE IF IsControlledBy(childCache[k], rec.claw) THEN Update(k)
  ELSE Fail /\ UNCHANGED childVars

\* Switched off: delete it if this Claw controls it.
DeleteOwned(k) ==
  IF childCache[k] # NoObj /\ IsControlledBy(childCache[k], rec.claw)
  THEN DeleteChild(k)
  ELSE NextKind /\ UNCHANGED <<childVars, queued>>

deleteOwnedRole == DeleteOwned("Role")
deleteOwnedRoleBinding == DeleteOwned("RoleBinding")
deleteOwnedNetworkPolicy == DeleteOwned("NetworkPolicy")
deleteOwnedIngress == DeleteOwned("Ingress")
deleteOwnedPDB == DeleteOwned("PDB")

EnsureIf(wanted, k, deleteOwned) ==
  /\ Ensuring(k)
  /\ IF wanted THEN EnsureOwned(k) ELSE deleteOwned
  /\ UNCHANGED <<claw, pvc, chan, snaps, cacheVars, others>>

ensureService == CreateOrUpdate("Service")
ensureConfigMap == CreateOrUpdate("ConfigMap")
ensureStatefulSet == CreateOrUpdate("StatefulSet")
ensureRole == EnsureIf(needsRBAC(rec.claw), "Role", deleteOwnedRole)
ensureRoleBinding ==
  EnsureIf(needsRBAC(rec.claw), "RoleBinding", deleteOwnedRoleBinding)
ensureNetworkPolicy ==
  EnsureIf(networkPolicyEnabled(rec.claw), "NetworkPolicy", deleteOwnedNetworkPolicy)
ensureIngress ==
  EnsureIf(ingressEnabled(rec.claw), "Ingress", deleteOwnedIngress)
ensurePDB == EnsureIf(pdbEnabled(rec.claw), "PDB", deleteOwnedPDB)

\* An account the operator made before is left where it is.
ensureServiceAccount ==
  /\ Ensuring("ServiceAccount")
  /\ IF isUserManagedSA(rec.claw) THEN NextKind /\ UNCHANGED <<childVars, queued>>
     ELSE EnsureOwned("ServiceAccount")
  /\ UNCHANGED <<claw, pvc, chan, snaps, cacheVars, others>>

EnsureChild ==
  \/ ensureService \/ ensureConfigMap \/ ensureServiceAccount
  \/ ensureRole \/ ensureRoleBinding \/ ensureNetworkPolicy
  \/ ensureIngress \/ ensurePDB \/ ensureStatefulSet

-----------------------------------------------------------------------------
(* Volume claims and status.                                               *)

hasOwnerReference(c) == pvcCache # NoObj /\ c.uid \in pvcCache.owners

\* A merge patch replaces the whole list of owners by the cached one, changed.
PatchOwners(owners, pc) ==
  IF pvc = NoObj THEN Fail /\ UNCHANGED pvc
  ELSE pvc' = [owners |-> owners] /\ Goto(pc) /\ UNCHANGED queued

ensurePVCOwnerReferences ==
  /\ rec.pc = "ensure" /\ rec.next > Len(Order)
  /\ IF pvcCache = NoObj \/ hasOwnerReference(rec.claw)
     THEN Goto("status") /\ UNCHANGED <<pvc, queued>>
     ELSE PatchOwners(pvcCache.owners \cup {rec.claw.uid}, "status")
  /\ UNCHANGED <<claw, childVars, chan, snaps, cacheVars, others>>

\* The Claw is read again; Provisioning and Running are one phase here.
updateStatus ==
  /\ rec.pc = "status"
  /\ LET c == clawCache
         phase == IF childCache["StatefulSet"] = NoObj THEN "Pending" ELSE "Deployed"
     IN IF c = NoObj THEN Done /\ UNCHANGED <<claw, queued>>
        ELSE IF claw = c
        THEN /\ claw' = [claw EXCEPT !.phase = phase, !.observed = c.rev]
             /\ rec' = IF "snapshot" \notin c.on THEN NoRec
                       ELSE [rec EXCEPT !.pc = "snapshot", !.claw = claw']
             /\ UNCHANGED queued
        ELSE Fail /\ UNCHANGED claw
  /\ UNCHANGED <<childVars, pvc, chan, snaps, cacheVars, others>>

-----------------------------------------------------------------------------
(* reconcileSnapshots, for one volume.  The schedule is every tick.        *)

\* A snapshot is named after its second: the same name is no error.  When
\* none is due the request comes back with the next tick.
SnapshotCreate ==
  /\ rec.pc = "snapshot"
  /\ IF time <= rec.claw.last
     THEN Done /\ UNCHANGED <<snaps, made>>
     ELSE /\ snaps' = snaps \cup {time} /\ made' = made \cup {time}
          /\ rec' = [rec EXCEPT !.pc = "annotate", !.next = time]
  /\ UNCHANGED <<claw, childVars, pvc, chan, cacheVars, queued, time, uids, limit, used>>

\* The annotation is written with an update of the whole Claw.
SnapshotAnnotate ==
  /\ rec.pc = "annotate"
  /\ IF claw # NoObj /\ claw = rec.claw
     THEN /\ claw' = [claw EXCEPT !.last = rec.next]
          /\ Goto("prune") /\ UNCHANGED queued
     ELSE Fail /\ UNCHANGED claw
  /\ UNCHANGED <<childVars, pvc, chan, snaps, cacheVars, others>>

Newest(n, S) == {t \in S : Cardinality({u \in S : u > t}) < n}

\* Faulty variant: the list is sorted the wrong way round.
MutExcess(S) == Newest(Cardinality(S) - Retain, S)

\* Sorted by age, all but the last Retain.
Excess(S) == S \ Newest(Retain, S)

\* Deletes what the cached list has in excess.
pruneSnapshots ==
  /\ rec.pc = "prune"
  /\ snaps' = snaps \ (IF Cardinality(snapCache) <= Retain THEN {} ELSE Excess(snapCache))
  /\ Done
  /\ UNCHANGED <<claw, childVars, pvc, chan, cacheVars, queued, others>>

-----------------------------------------------------------------------------
(* handleDeletion                                                          *)

\* No finalizer: nothing to do.  Otherwise branch on the reclaim policy.
DeletionStart ==
  /\ rec.pc = "deletion"
  /\ IF ~rec.claw.finalizer THEN Done
     ELSE Goto(CASE rec.claw.policy = "Delete" -> "erase"
                 [] rec.claw.policy = "Archive" -> "archive"
                 [] OTHER -> "release")
  /\ UNCHANGED <<serverVars, cacheVars, queued, others>>

deleteClawPVCs ==
  /\ rec.pc = "erase"
  /\ pvc' = IF pvcCache = NoObj THEN pvc ELSE NoObj
  /\ Goto("unfinalize")
  /\ UNCHANGED <<claw, childVars, chan, snaps, cacheVars, queued, others>>

\* The condition ArchivePending is written to the status.
ArchivePending ==
  /\ rec.pc = "archive"
  /\ IF claw # NoObj /\ claw = rec.claw
     THEN /\ claw' = [claw EXCEPT !.archive = TRUE]
          /\ rec' = [rec EXCEPT !.pc = "release", !.claw = claw']
          /\ UNCHANGED queued
     ELSE Fail /\ UNCHANGED claw
  /\ UNCHANGED <<childVars, pvc, chan, snaps, cacheVars, others>>

removePVCOwnerReferences ==
  /\ rec.pc = "release"
  /\ IF ~hasOwnerReference(rec.claw)
     THEN Goto("unfinalize") /\ UNCHANGED <<pvc, queued>>
     ELSE PatchOwners(pvcCache.owners \ {rec.claw.uid}, "unfinalize")
  /\ UNCHANGED <<claw, childVars, chan, snaps, cacheVars, others>>

\* A Claw that is being deleted is gone with its finalizer.  The patch names
\* no UID: it also hits a Claw created meanwhile.
RemoveFinalizer ==
  /\ rec.pc = "unfinalize"
  /\ IF claw = NoObj THEN Fail /\ UNCHANGED claw
     ELSE /\ claw' = IF claw.deleting THEN NoObj
                     ELSE [claw EXCEPT !.finalizer = FALSE]
          /\ Done /\ UNCHANGED queued
  /\ UNCHANGED <<childVars, pvc, chan, snaps, cacheVars, others>>

Step == \/ Reconcile \/ ensureFinalizer \/ EnsureChild
        \/ ensurePVCOwnerReferences \/ updateStatus
        \/ SnapshotCreate \/ SnapshotAnnotate \/ pruneSnapshots
        \/ DeletionStart \/ deleteClawPVCs \/ ArchivePending
        \/ removePVCOwnerReferences \/ RemoveFinalizer

Spend(b) == /\ used[b] < limit[b]
            /\ used' = [used EXCEPT ![b] = @ + 1]
            /\ UNCHANGED <<limit, made>>

\* A call fails, or the operator stops, between any two steps.
Crash ==
  /\ rec # NoRec
  /\ Spend("crashes")
  /\ Fail
  /\ UNCHANGED <<serverVars, cacheVars, time, uids>>

-----------------------------------------------------------------------------
(* Caches.  A watch event of an object is a request for the Claw in its    *)
(* controller reference; the reference on a volume claim is none.          *)

SyncClaw ==
  /\ clawCache # claw /\ clawCache' = claw
  /\ queued' = TRUE
  /\ UNCHANGED <<serverVars, childCache, pvcCache, chanCache, snapCache, rec, others>>

\* Faulty variant: the kind is not among those the controller Owns.
MutSyncChild(k) ==
  /\ childCache[k] # child[k] \/ k \in events
  /\ childCache' = [childCache EXCEPT ![k] = child[k]]
  /\ events' = events \ {k}
  /\ UNCHANGED <<claw, child, pvc, chan, snaps, clawCache, pvcCache, chanCache,
                 snapCache, queued, rec, others>>

SyncChild(k) ==
  /\ childCache[k] # child[k] \/ k \in events
  /\ childCache' = [childCache EXCEPT ![k] = child[k]]
  /\ events' = events \ {k}
  /\ queued' = (queued \/ k \in events)
  /\ UNCHANGED <<claw, child, pvc, chan, snaps, clawCache, pvcCache, chanCache,
                 snapCache, rec, others>>

SyncPVC ==
  /\ pvcCache # pvc /\ pvcCache' = pvc
  /\ UNCHANGED <<serverVars, clawCache, childCache, chanCache, snapCache, queued,
                 rec, others>>

\* findClawsForChannel: the index of the cached Claws.
SyncChannel ==
  /\ chanCache # chan /\ chanCache' = chan
  /\ queued' = (queued \/ (clawCache # NoObj /\ "channel" \in clawCache.on))
  /\ UNCHANGED <<serverVars, clawCache, childCache, pvcCache, snapCache, rec, others>>

SyncSnaps ==
  /\ snapCache # snaps /\ snapCache' = snaps
  /\ UNCHANGED <<serverVars, clawCache, childCache, pvcCache, chanCache, queued,
                 rec, others>>

Sync == SyncClaw \/ SyncPVC \/ SyncChannel \/ SyncSnaps
        \/ \E k \in limit.kinds : SyncChild(k)

-----------------------------------------------------------------------------
(* Kubernetes and the users.                                               *)

Live(uid) == claw # NoObj /\ claw.uid = uid

\* An object all of whose owners are gone is collected.
CollectGarbage ==
  /\ \/ \E k \in limit.kinds :
          /\ Controlled(child[k]) /\ ~Live(child[k].owner)
          /\ SetChild(k, NoObj)
          /\ UNCHANGED pvc
     \/ /\ pvc # NoObj /\ pvc.owners # {} /\ \A u \in pvc.owners : ~Live(u)
        /\ pvc' = NoObj
        /\ UNCHANGED childVars
  /\ UNCHANGED <<claw, chan, snaps, cacheVars, queued, rec, others>>

\* The claim is made with the first pod; the status of the set changes too.
StatefulSetMakesPVC ==
  /\ child["StatefulSet"] # NoObj /\ child["StatefulSet"].claims # NoClaims
  /\ pvc = NoObj
  /\ pvc' = [owners |-> {}]
  /\ queued' = TRUE
  /\ UNCHANGED <<claw, childVars, chan, snaps, cacheVars, rec, others>>

\* RequeueAfter of reconcileSnapshots
Tick ==
  /\ Spend("ticks")
  /\ time' = time + 1
  /\ queued' = TRUE
  /\ UNCHANGED <<serverVars, cacheVars, rec, uids>>

CreateClaw ==
  /\ claw = NoObj /\ uids < MaxUid
  /\ uids' = uids + 1
  /\ \E runtime \in limit.runtimes, policy \in limit.policies :
       claw' = NewClaw(uids', runtime, policy)
  /\ ValidateCreate(claw')
  /\ UNCHANGED <<childVars, pvc, chan, snaps, cacheVars, queued, rec, time, limit,
                 used, made>>

\* One option or one volume is changed.
Edits(c) ==
  {[c EXCEPT !.on = IF t \in @ THEN @ \ {t} ELSE @ \cup {t}] : t \in limit.flips}
    \cup {[c EXCEPT !.vols[r[1]] = r[2]] : r \in limit.resizes}

EditClaw ==
  /\ claw # NoObj
  /\ Spend("edits")
  /\ \E new \in Edits(claw) \ {claw} :
       /\ ValidateUpdate(claw, new)
       /\ claw' = [new EXCEPT !.rev = @ + 1, !.steady = @ \cap Enabled(new)]
  /\ UNCHANGED <<childVars, pvc, chan, snaps, cacheVars, queued, rec, time, uids>>

DeleteClaw ==
  /\ claw # NoObj /\ ~claw.deleting
  /\ Spend("deletes")
  /\ claw' = IF claw.finalizer THEN [claw EXCEPT !.deleting = TRUE] ELSE NoObj
  /\ UNCHANGED <<childVars, pvc, chan, snaps, cacheVars, queued, rec, time, uids>>

\* Somebody else creates an object under one of the names.
CreateForeign ==
  /\ Spend("foreign")
  /\ \E k \in limit.kinds :
       /\ child[k] = NoObj
       /\ SetChild(k, Object(0, NoObj, NoClaims))
  /\ UNCHANGED <<claw, pvc, chan, snaps, cacheVars, queued, rec, time, uids>>

\* Somebody else removes an object.
RemoveChild ==
  /\ Spend("losses")
  /\ \E k \in limit.kinds : child[k] # NoObj /\ SetChild(k, NoObj)
  /\ UNCHANGED <<claw, pvc, chan, snaps, cacheVars, queued, rec, time, uids>>

CreateChannel ==
  /\ chan = NoObj
  /\ Spend("channels")
  /\ \E mode \in Modes :
       chan' = [mode |-> mode, deleting |-> FALSE, finalizer |-> FALSE, refs |-> 0]
  /\ UNCHANGED <<claw, childVars, pvc, snaps, cacheVars, queued, rec, time, uids>>

ClawNext ==
  \/ Step \/ Crash \/ Sync
  \/ CollectGarbage \/ StatefulSetMakesPVC \/ Tick
  \/ CreateClaw \/ EditClaw \/ DeleteClaw \/ CreateForeign \/ RemoveChild
  \/ CreateChannel

\* The queue hands out requests, watches deliver, garbage is collected.
ClawFairness == WF_vars(Step) /\ WF_vars(Sync) /\ WF_vars(CollectGarbage)
=============================================================================
