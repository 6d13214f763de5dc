--------------------------- MODULE LifecycleProofs ---------------------------
(***************************************************************************)
(* Proofs about ClawOperator for any number of Claws, edits, crashes and   *)
(* ticks: the snapshots that are kept, the objects of others, the          *)
(* self-configs, and the pod and the volume claims of the StatefulSet.     *)
(* Each has an invariant of its own, about the few variables it depends    *)
(* on.                                                                     *)
(***************************************************************************)
EXTENDS ClawOperator, FiniteSetTheorems, TLAPS

-----------------------------------------------------------------------------
(* Lists of containers: where the elements of an extended list come from.  *)

VolumeNames == {"ipc-socket", "wal-data", "config-vol", "tmp", "cache", "shared",
                "session", "output", "workspace"}
Containers ==
  [name : {"claw-init", "runtime", "ipc-bus", "channel", "archive-sidecar"},
   mounts : SUBSET VolumeNames]

Appended(w, x, u) ==
  /\ u \in Seq(Containers) /\ u # <<>> /\ DOMAIN w \subseteq DOMAIN u
  /\ \A i \in DOMAIN w : u[i] = w[i] /\ 1 .. i \subseteq DOMAIN w
  /\ \A i \in DOMAIN u : \/ i \in DOMAIN w
                         \/ u[i] = x /\ DOMAIN w \subseteq 1 .. i

SecondIn(w, x, u) ==
  /\ u \in Seq(Containers) /\ u # <<>> /\ 1 \in DOMAIN w /\ 2 \in DOMAIN u
  /\ u[1] = w[1] /\ u[2] = x
  /\ \A i \in DOMAIN u : \/ i = 1
                         \/ i = 2
                         \/ 2 \in 1 .. i /\ i - 1 \in DOMAIN w /\ u[i] = w[i - 1]

Joined(a, b, u) ==
  /\ \A i \in DOMAIN a : u[i] = a[i] /\ 1 .. i \subseteq DOMAIN a
  /\ \A i \in DOMAIN u :
       \/ i \in DOMAIN a
       \/ DOMAIN a \subseteq 1 .. i /\ \E j \in DOMAIN b : u[i] = b[j]

LEMMA AppendedPlaces ==
  ASSUME NEW w \in Seq(Containers), NEW x \in Containers
  PROVE  Appended(w, x, Append(w, x))
BY DEF Appended

LEMMA SecondPlaces ==
  ASSUME NEW w \in Seq(Containers), w # <<>>, NEW x \in Containers
  PROVE  SecondIn(w, x, <<Head(w), x>> \o Tail(w))
<1>1. /\ Len(w) \in Nat \ {0} /\ Tail(w) \in Seq(Containers)
      /\ Head(w) = w[1] /\ Head(w) \in Containers
  OBVIOUS
<1>2. Len(Tail(w)) = Len(w) - 1 /\ \A i \in 1 .. Len(w) - 1 : Tail(w)[i] = w[i + 1]
  BY <1>1
<1> QED
  BY <1>1, <1>2 DEF SecondIn

LEMMA JoinedPlaces ==
  ASSUME NEW a \in Seq(Containers), NEW b \in Seq(Containers)
  PROVE  Joined(a, b, a \o b)
<1> DEFINE u == a \o b
<1>1. /\ Len(a) \in Nat /\ Len(b) \in Nat /\ DOMAIN a = 1 .. Len(a) /\ DOMAIN b = 1 .. Len(b)
      /\ u \in Seq(Containers) /\ Len(u) = Len(a) + Len(b) /\ DOMAIN u = 1 .. Len(u)
  OBVIOUS
<1>2. /\ \A i \in 1 .. Len(a) : u[i] = a[i]
      /\ \A i \in Len(a) + 1 .. Len(a) + Len(b) : u[i] = b[i - Len(a)]
  BY <1>1
<1> HIDE DEF u
<1>3. \A i \in DOMAIN u : \/ i \in 1 .. Len(a)
                          \/ i \in Len(a) + 1 .. Len(a) + Len(b) /\ i - Len(a) \in 1 .. Len(b)
  BY <1>1
<1>4. /\ \A i \in 1 .. Len(a) : 1 .. i \subseteq 1 .. Len(a)
      /\ \A i \in Len(a) + 1 .. Len(a) + Len(b) : 1 .. Len(a) \subseteq 1 .. i
  BY <1>1
<1>5. Joined(a, b, u)
  BY <1>1, <1>2, <1>3, <1>4, Zenon DEF Joined
<1> QED
  BY <1>5, Zenon DEF u

-----------------------------------------------------------------------------
(* Snapshots: every copy of the list is a part of what was ever made.      *)

SnapInv == /\ IsFiniteSet(made) /\ snaps \subseteq made /\ snapCache \subseteq made
           /\ NewestKept

\* A snapshot that is among the newest of a set is so in every part of it.
LEMMA NewestInPart ==
  ASSUME NEW S, IsFiniteSet(S), NEW T \in SUBSET S, NEW t \in Newest(Retain, S), t \in T
  PROVE  t \in Newest(Retain, T)
<1> DEFINE Later == {u \in S : u > t}
           Part == {u \in T : u > t}
<1>1. IsFiniteSet(Later) /\ Part \in SUBSET Later /\ Cardinality(Later) < Retain
  <2>1. Later \in SUBSET S /\ Part \in SUBSET Later
    OBVIOUS
  <2>2. Cardinality(Later) < Retain
    BY DEF Newest
  <2> HIDE DEF Later, Part
  <2> QED
    BY <2>1, <2>2, FS_Subset
<1> HIDE DEF Later, Part
<1>2. /\ Cardinality(Part) <= Cardinality(Later) /\ Cardinality(Part) \in Nat
      /\ Cardinality(Later) \in Nat
  BY <1>1, FS_Subset, FS_CardinalityType
<1>3. Cardinality(Part) < Retain
  BY <1>1, <1>2, LifecycleAssumption
<1> QED
  BY <1>3, Zenon DEF Part, Newest

\* What the other steps do about snapshots.
SnapStep == UNCHANGED <<snaps, made>> /\ snapCache' \in {snapCache, snaps}

LEMMA SnapKeeps == SnapInv /\ SnapStep => SnapInv'
BY DEF SnapInv, SnapStep, NewestKept, Newest

LEMMA CreateKeeps ==
  ASSUME SnapInv, SnapshotCreate
  PROVE  SnapInv'
<1>1. snapCache' = snapCache
  BY DEF SnapshotCreate, cacheVars
<1>2. CASE UNCHANGED <<snaps, made>>
  BY <1>1, <1>2, SnapKeeps DEF SnapStep
<1>3. CASE snaps' = snaps \cup {time} /\ made' = made \cup {time}
  <2>1. IsFiniteSet(made') /\ made \in SUBSET made'
    BY <1>3, FS_AddElement DEF SnapInv
  <2>2. \A t \in Newest(Retain, made') : t \in made => t \in Newest(Retain, made)
    BY <2>1, NewestInPart
  <2>3. Newest(Retain, made') \subseteq made'
    BY DEF Newest
  <2>4. NewestKept'
    BY <1>3, <2>2, <2>3, Zenon DEF SnapInv, NewestKept
  <2> QED
    BY <1>1, <1>3, <2>1, <2>4 DEF SnapInv
<1> QED
  BY <1>2, <1>3 DEF SnapshotCreate

LEMMA PruneKeeps ==
  ASSUME SnapInv, pruneSnapshots
  PROVE  SnapInv'
<1>1. UNCHANGED <<snapCache, made>> /\ snaps \ Excess(snapCache) \subseteq snaps'
        /\ snaps' \subseteq snaps
  BY DEF pruneSnapshots, cacheVars, others
<1>2. \A t \in Newest(Retain, made) : t \notin Excess(snapCache)
  BY NewestInPart, Zenon DEF SnapInv, Excess
<1>3. NewestKept'
  BY <1>1, <1>2, Zenon DEF SnapInv, NewestKept
<1> QED
  BY <1>1, <1>3 DEF SnapInv

LEMMA SnapSteps ==
  ASSUME SnapInv, [Next]_allVars
  PROVE  SnapInv'
<1>1. CASE EnsureChild
  <2>1. UNCHANGED <<snaps, made, snapCache>>
    BY <1>1, ZenonT(30) DEF EnsureChild, ensureService, ensureConfigMap,
       ensureServiceAccount, ensureRole, ensureRoleBinding, ensureNetworkPolicy,
       ensureIngress, ensurePDB, ensureStatefulSet, CreateOrUpdate, EnsureIf, cacheVars, others
  <2> QED
    BY <2>1, SnapKeeps, SMTT(30) DEF SnapStep
<1>2. CASE \/ Reconcile \/ ensureFinalizer \/ ensurePVCOwnerReferences \/ updateStatus
           \/ SnapshotAnnotate \/ DeletionStart \/ deleteClawPVCs \/ ArchivePending
           \/ removePVCOwnerReferences \/ RemoveFinalizer
  <2>1. UNCHANGED <<snaps, made, snapCache>>
    BY <1>2, Zenon DEF Reconcile, ensureFinalizer, ensurePVCOwnerReferences, updateStatus,
       SnapshotAnnotate, DeletionStart, deleteClawPVCs, ArchivePending,
       removePVCOwnerReferences, RemoveFinalizer, serverVars, cacheVars, others
  <2> QED
    BY <2>1, SnapKeeps, SMTT(30) DEF SnapStep
<1>3. CASE Step
  BY <1>1, <1>2, <1>3, CreateKeeps, PruneKeeps DEF Step
<1>4. CASE Crash \/ Sync
  <2>1. SnapStep
    BY <1>4, Zenon DEF Crash, Spend, Sync, SyncClaw, SyncPVC, SyncChannel, SyncSnaps, SyncChild,
       SnapStep, serverVars, cacheVars, others
  <2> QED
    BY <2>1, SnapKeeps, SMTT(30)
<1>5. CASE \/ CollectGarbage \/ StatefulSetMakesPVC \/ Tick \/ CreateClaw \/ EditClaw
           \/ DeleteClaw \/ CreateForeign \/ RemoveChild \/ CreateChannel
  <2>1. SnapStep
    BY <1>5, ZenonT(30) DEF CollectGarbage, StatefulSetMakesPVC, Tick, CreateClaw, EditClaw, DeleteClaw,
       CreateForeign, RemoveChild, CreateChannel, Spend, SnapStep, serverVars, cacheVars, others
  <2> QED
    BY <2>1, SnapKeeps, SMTT(30)
<1>6. CASE ChannelStep \/ DeleteChannel
  <2>1. SnapStep
    BY <1>6, Zenon DEF ChannelStep, ChannelReconcile, ChannelFinalizer, updateChannelStatus,
       ChannelInUse, ChannelRelease, ChannelOnly, DeleteChannel, Spend, SnapStep, cacheVars,
       others
  <2> QED
    BY <2>1, SnapKeeps, SMTT(30)
<1>7. CASE SelfStep \/ SyncConf \/ CreateConf \/ CollectConf \/ UNCHANGED allVars
  <2>1. SnapStep
    BY <1>7, Zenon DEF SelfStep, SelfReconcile, SelfExpire, deny, SelfOwn, applyChanges, SelfFailed,
       SelfApplied, ConfOnly, SyncConf, CreateConf, CollectConf, Spend, SnapStep, allVars,
       vars, serverVars, cacheVars, others
  <2> QED
    BY <2>1, SnapKeeps, SMTT(30)
<1> QED
  BY <1>3, <1>4, <1>5, <1>6, <1>7, Zenon DEF Next, Lifecycle, ClawNext

\* The newest Retain snapshots are never pruned, however stale the cached list
\* and however often a reconcile fails in between (pruneSnapshots).
THEOREM NewestCorrect == SafetySpec => []NewestKept
<1>1. OperatorInit => SnapInv
  <2>1. OperatorInit => made = {} /\ snaps = {} /\ snapCache = {}
    BY DEF OperatorInit, Init
  <2> QED
    BY <2>1, FS_EmptySet DEF SnapInv, NewestKept, Newest
<1>2. SnapInv /\ [Next]_allVars => SnapInv'
  BY SnapSteps
<1>3. SnapInv => NewestKept
  BY DEF SnapInv
<1> QED
  BY <1>1, <1>2, <1>3, PTL DEF SafetySpec

-----------------------------------------------------------------------------
(* Identities: a Claw and every copy of it has a UID, which 0, the owner   *)
(* of an object nobody controls, is not.                                   *)

HasId(c) == {"uid", "selfConfig"} \subseteq DOMAIN c /\ c.uid # 0
Named(c) == c # NoObj => HasId(c)

RecInv == /\ rec = [pc |-> rec.pc, claw |-> rec.claw, next |-> rec.next]
          /\ rec.pc # "idle" => HasId(rec.claw)

UidInv == /\ uids \in Nat /\ Named(claw) /\ Named(clawCache) /\ RecInv
          /\ child = [k \in KindSet |-> child[k]]

\* What a step may do to the Claw without changing who it is.
SameClaw(c, d) == {"uid", "selfConfig"} \subseteq DOMAIN d /\ d.uid = c.uid
                    /\ d.selfConfig = c.selfConfig
ClawKept == claw' \in {claw, NoObj} \/ (HasId(claw) /\ SameClaw(claw, claw'))

\* What a step may do to the reconcile.
RecStep == \/ rec' \in {rec, NoRec}
           \/ /\ rec.pc # "idle"
              /\ rec' = [pc |-> rec'.pc, claw |-> rec.claw, next |-> rec'.next]
           \/ /\ rec' = [pc |-> rec'.pc, claw |-> rec'.claw, next |-> rec'.next]
              /\ HasId(rec'.claw)

\* What a step may do to the objects of others.
Spared(k) == child[k] # NoObj /\ child[k].owner = 0 => child'[k] \in {child[k], NoObj}
ChildStep == /\ child' = [k \in KindSet |-> child'[k]]
             /\ \A k \in Guarded : Spared(k)

LEMMA UidKeeps ==
  ASSUME UidInv, ChildStep, RecStep, uids' \in Nat, Named(claw)',
         clawCache' \in {clawCache, claw}
  PROVE  UidInv'
<1>1. Named(clawCache)'
  BY DEF UidInv, Named
<1>2. RecInv'
  <2>1. CASE rec' \in {rec, NoRec}
    BY <2>1 DEF UidInv, RecInv, NoRec
  <2>2. CASE /\ rec.pc # "idle"
             /\ rec' = [pc |-> rec'.pc, claw |-> rec.claw, next |-> rec'.next]
    BY <2>2, SMTT(30) DEF UidInv, RecInv
  <2>3. CASE /\ rec' = [pc |-> rec'.pc, claw |-> rec'.claw, next |-> rec'.next]
             /\ HasId(rec'.claw)
    BY <2>3, Zenon DEF UidInv, RecInv
  <2> QED
    BY <2>1, <2>2, <2>3, Zenon DEF RecStep
<1> QED
  BY <1>1, <1>2 DEF UidInv, ChildStep

LEMMA KeptIsNamed ==
  ASSUME UidInv, ClawKept
  PROVE  Named(claw)'
BY Zenon DEF UidInv, ClawKept, SameClaw, Named, HasId

LEMMA ChildSame ==
  ASSUME UidInv, UNCHANGED child
  PROVE  ChildStep
BY Zenon DEF UidInv, ChildStep, Spared

\* A write to one object.
LEMMA SetOne ==
  ASSUME UidInv, NEW k, NEW obj, SetChild(k, obj),
         k \in Guarded /\ child[k] # NoObj /\ child[k].owner = 0 => obj = NoObj
  PROVE  ChildStep
<1>1. child' = [child EXCEPT ![k] = obj] /\ child = [j \in KindSet |-> child[j]]
  BY Zenon DEF SetChild, UidInv
<1>2. /\ child' = [j \in KindSet |-> child'[j]]
      /\ k \in KindSet => child'[k] = obj
      /\ \A j \in KindSet : j # k => child'[j] = child[j]
  BY <1>1, Zenon
<1> QED
  BY <1>2, Zenon DEF ChildStep, Spared, Guarded

LEMMA RecMoves ==
  ASSUME UidInv, rec.pc # "idle", NextKind \/ Fail \/ Done \/ \E pc : Goto(pc)
  PROVE  RecStep
<1>1. rec = [pc |-> rec.pc, claw |-> rec.claw, next |-> rec.next]
  BY Zenon DEF UidInv, RecInv
<1>2. CASE NextKind
  <2>1. rec' = [pc |-> rec.pc, claw |-> rec.claw, next |-> rec.next + 1]
    BY <1>1, <1>2, Zenon DEF NextKind
  <2> QED
    BY <2>1, Zenon DEF RecStep
<1>3. CASE \E pc : Goto(pc)
  <2>1. PICK pc : rec' = [rec EXCEPT !.pc = pc]
    BY <1>3, Zenon DEF Goto
  <2>2. rec' = [pc |-> pc, claw |-> rec.claw, next |-> rec.next]
    BY <1>1, <2>1, Zenon
  <2> QED
    BY <2>2, Zenon DEF RecStep
<1> QED
  BY <1>2, <1>3, Zenon DEF Fail, Done, RecStep

\* The object of kind k is created, updated or deleted.
LEMMA CallsKeep ==
  ASSUME UidInv, NEW k \in KindSet, Ensuring(k),
         \/ Create(k) \/ DeleteChild(k)
         \/ Update(k) /\ (k \in Guarded => childCache[k].owner = rec.claw.uid)
         \/ Fail /\ UNCHANGED childVars
         \/ NextKind /\ UNCHANGED <<childVars, queued>>
  PROVE  ChildStep /\ RecStep
<1>1. rec.pc # "idle" /\ rec.claw.uid # 0
  BY Zenon DEF Ensuring, UidInv, RecInv, HasId
<1>2. RecStep
  BY <1>1, RecMoves, Zenon DEF Create, DeleteChild, Update
<1>3. CASE UNCHANGED child
  BY <1>2, <1>3, ChildSame, Zenon
<1>4. CASE child[k] = NoObj /\ SetChild(k, Desired(k, rec.claw))
  BY <1>2, <1>4, SetOne, Zenon
<1>5. CASE SetChild(k, NoObj)
  BY <1>2, <1>5, SetOne, Zenon
<1>6. CASE /\ child[k] = childCache[k] /\ SetChild(k, [child[k] EXCEPT !.data = Content(k, rec.claw)])
           /\ k \in Guarded => childCache[k].owner = rec.claw.uid
  BY <1>1, <1>2, <1>6, SetOne, Zenon
<1> QED
  BY <1>3, <1>4, <1>5, <1>6, Zenon DEF Create, DeleteChild, Update, childVars

LEMMA EnsureKeeps ==
  ASSUME UidInv, EnsureChild
  PROVE  UidInv' /\ ChildStep /\ ClawKept
<1>1. UNCHANGED <<claw, clawCache, uids>>
  BY Zenon DEF EnsureChild, ensureService, ensureConfigMap, ensureServiceAccount, ensureRole,
     ensureRoleBinding, ensureNetworkPolicy, ensureIngress, ensurePDB, ensureStatefulSet,
     CreateOrUpdate, EnsureIf, cacheVars, others
<1>2. KindSet = {"Service", "ConfigMap", "ServiceAccount", "Role", "RoleBinding",
                 "NetworkPolicy", "Ingress", "PDB", "StatefulSet"}
  BY DEF KindSet, Kinds
<1>3. ChildStep /\ RecStep
  <2>1. CASE \E k \in KindSet \ Guarded : CreateOrUpdate(k)
    BY <2>1, CallsKeep, Zenon DEF CreateOrUpdate
  <2>2. CASE \E k \in KindSet : Ensuring(k) /\ (EnsureOwned(k) \/ DeleteOwned(k))
    BY <2>2, CallsKeep, Zenon DEF EnsureOwned, DeleteOwned, IsControlledBy
  <2>3. CASE ensureService \/ ensureConfigMap \/ ensureStatefulSet
    BY <1>2, <2>1, <2>3, SMTT(30) DEF ensureService, ensureConfigMap, ensureStatefulSet, Guarded
  <2>4. CASE ensureServiceAccount
    BY <1>2, <2>2, <2>4, CallsKeep, Zenon DEF ensureServiceAccount
  <2>5. CASE ensureRole \/ ensureRoleBinding \/ ensureNetworkPolicy \/ ensureIngress \/ ensurePDB
    BY <1>2, <2>2, <2>5, Zenon DEF ensureRole, ensureRoleBinding, ensureNetworkPolicy, ensureIngress,
       ensurePDB, EnsureIf, deleteOwnedRole, deleteOwnedRoleBinding, deleteOwnedNetworkPolicy,
       deleteOwnedIngress, deleteOwnedPDB
  <2> QED
    BY <2>3, <2>4, <2>5, Zenon DEF EnsureChild
<1>4. ClawKept /\ uids' \in Nat
  BY <1>1, Zenon DEF ClawKept, UidInv
<1> QED
  BY <1>1, <1>3, <1>4, KeptIsNamed, UidKeeps, ZenonT(30)

\* A field other than the two that say who the Claw is.
LEMMA FieldsKept ==
  ASSUME NEW c, {"uid", "selfConfig"} \subseteq DOMAIN c, NEW v, NEW w
  PROVE  /\ SameClaw(c, [c EXCEPT !.finalizer = v]) /\ SameClaw(c, [c EXCEPT !.last = v])
         /\ SameClaw(c, [c EXCEPT !.phase = v, !.observed = w])
         /\ SameClaw(c, [c EXCEPT !.archive = v]) /\ SameClaw(c, [c EXCEPT !.deleting = v])
         /\ SameClaw(c, [c EXCEPT !.on = v]) /\ SameClaw(c, [c EXCEPT !.vols[v] = w])
         /\ SameClaw(c, [c EXCEPT !.rev = v, !.steady = w])
BY DEF SameClaw

\* A step of the reconcile that writes at most the Claw.
LEMMA WriterKeeps ==
  ASSUME UidInv, RecStep, ClawKept, UNCHANGED <<child, clawCache, uids>>
  PROVE  UidInv' /\ ChildStep /\ ClawKept
<1>1. ChildStep /\ uids' \in Nat /\ Named(claw)'
  BY ChildSame, KeptIsNamed, Zenon DEF UidInv
<1> QED
  BY <1>1, UidKeeps

\* A Claw that is written and, as it comes back, worked on.
LEMMA RewriteKeeps ==
  ASSUME UidInv, HasId(claw), SameClaw(claw, claw'), UNCHANGED <<child, clawCache, uids>>,
         rec.pc # "idle",
         \/ NextKind \/ Fail \/ Done \/ \E pc : Goto(pc)
         \/ \E pc : rec' = [rec EXCEPT !.pc = pc, !.claw = claw']
  PROVE  UidInv' /\ ChildStep /\ ClawKept
<1>1. ClawKept
  BY ZenonT(30) DEF ClawKept
<1>2. CASE NextKind \/ Fail \/ Done \/ \E pc : Goto(pc)
  BY <1>1, <1>2, RecMoves, WriterKeeps, ZenonT(30)
<1>3. CASE \E pc : rec' = [rec EXCEPT !.pc = pc, !.claw = claw']
  <2>1. PICK pc : rec' = [rec EXCEPT !.pc = pc, !.claw = claw']
    BY <1>3, ZenonT(30)
  <2>2. rec = [pc |-> rec.pc, claw |-> rec.claw, next |-> rec.next]
    BY ZenonT(30) DEF UidInv, RecInv
  <2>3. rec' = [pc |-> pc, claw |-> claw', next |-> rec.next]
    BY <2>1, <2>2, ZenonT(30)
  <2>4. HasId(claw')
    BY ZenonT(30) DEF SameClaw, HasId
  <2>5. RecStep
    BY <2>3, <2>4, Zenon DEF RecStep
  <2> QED
    BY <1>1, <2>5, WriterKeeps, ZenonT(30)
<1> QED
  BY <1>2, <1>3, ZenonT(30)

LEMMA StepKeeps ==
  ASSUME UidInv, Step
  PROVE  UidInv' /\ ChildStep /\ ClawKept
<1>1. CASE EnsureChild
  BY <1>1, EnsureKeeps
<1>2. SUFFICES ASSUME ~EnsureChild PROVE UidInv' /\ ChildStep /\ ClawKept
  BY <1>1, SMTT(30)
<1>3. UNCHANGED <<child, clawCache, uids>>
  BY <1>2, Zenon DEF Step, Reconcile, ensureFinalizer, ensurePVCOwnerReferences, updateStatus,
     SnapshotCreate, SnapshotAnnotate, pruneSnapshots, DeletionStart, deleteClawPVCs,
     ArchivePending, removePVCOwnerReferences, RemoveFinalizer, serverVars, childVars,
     cacheVars, others
<1>4. /\ claw # NoObj => HasId(claw)
      /\ rec.pc # "idle" => HasId(rec.claw)
  BY Zenon DEF UidInv, RecInv, Named
<1>5. CASE Reconcile
  <2>1. ClawKept /\ RecStep
    BY <1>5, Zenon DEF Reconcile, ClawKept, RecStep, serverVars, UidInv, Named
  <2> QED
    BY <1>3, <2>1, WriterKeeps, Zenon
<1>6. ASSUME rec.pc # "idle", claw' \in {claw, NoObj},
             NextKind \/ Fail \/ Done \/ \E pc : Goto(pc)
      PROVE  UidInv' /\ ChildStep /\ ClawKept
  BY <1>3, <1>6, RecMoves, WriterKeeps, Zenon DEF ClawKept
<1>7. CASE ensureFinalizer
  <2>1. CASE claw # NoObj /\ claw' = [claw EXCEPT !.finalizer = TRUE]
               /\ rec' = [rec EXCEPT !.pc = "ensure", !.claw = claw']
    BY <1>3, <1>4, <1>7, <2>1, FieldsKept, RewriteKeeps, Zenon DEF ensureFinalizer, HasId
  <2>2. CASE UNCHANGED claw /\ (Fail \/ Goto("ensure"))
    BY <1>6, <1>7, <2>2, Zenon DEF ensureFinalizer
  <2> QED
    BY <1>7, <2>1, <2>2, Zenon DEF ensureFinalizer
<1>8. CASE ensurePVCOwnerReferences \/ removePVCOwnerReferences
  BY <1>6, <1>8, Zenon DEF ensurePVCOwnerReferences, removePVCOwnerReferences, PatchOwners
<1>9. CASE updateStatus
  <2>1. CASE \E phase, rev : /\ claw # NoObj
                             /\ claw' = [claw EXCEPT !.phase = phase, !.observed = rev]
                             /\ rec' \in {NoRec, [rec EXCEPT !.pc = "snapshot", !.claw = claw']}
    <3>1. HasId(claw) /\ SameClaw(claw, claw')
      <4>1. PICK phase, rev : claw' = [claw EXCEPT !.phase = phase, !.observed = rev]
        BY <2>1, Zenon
      <4> QED
        BY <1>4, <2>1, <4>1, FieldsKept, ZenonT(30) DEF HasId
    <3>2. Done \/ rec' = [rec EXCEPT !.pc = "snapshot", !.claw = claw']
      BY <2>1 DEF Done
    <3>3. rec.pc # "idle"
      BY <1>9 DEF updateStatus
    <3> QED
      BY <1>3, <3>1, <3>2, <3>3, RewriteKeeps, ZenonT(30)
  <2>2. CASE UNCHANGED claw /\ (Fail \/ Done)
    BY <1>6, <1>9, <2>2, Zenon DEF updateStatus
  <2> QED
    BY <1>9, <2>1, <2>2, ZenonT(30) DEF updateStatus
<1>10. CASE SnapshotCreate
  <2>1. CASE Done
    BY <1>6, <1>10, <2>1, Zenon DEF SnapshotCreate
  <2>2. CASE rec' = [rec EXCEPT !.pc = "annotate", !.next = time]
    <3>1. rec = [pc |-> rec.pc, claw |-> rec.claw, next |-> rec.next]
      BY Zenon DEF UidInv, RecInv
    <3>2. rec' = [pc |-> "annotate", claw |-> rec.claw, next |-> time]
      BY <2>2, <3>1, Zenon
    <3>3. RecStep /\ ClawKept
      BY <1>10, <3>2 DEF RecStep, SnapshotCreate, ClawKept
    <3> QED
      BY <1>3, <3>3, WriterKeeps, Zenon
  <2> QED
    BY <1>10, <2>1, <2>2, Zenon DEF SnapshotCreate
<1>11. CASE SnapshotAnnotate
  <2>1. CASE claw = rec.claw /\ claw' = [claw EXCEPT !.last = rec.next] /\ Goto("prune")
    BY <1>3, <1>4, <1>11, <2>1, FieldsKept, RewriteKeeps, Zenon DEF SnapshotAnnotate, HasId
  <2>2. CASE UNCHANGED claw /\ Fail
    BY <1>6, <1>11, <2>2, SMTT(30) DEF SnapshotAnnotate
  <2> QED
    BY <1>11, <2>1, <2>2, Zenon DEF SnapshotAnnotate
<1>12. CASE pruneSnapshots \/ DeletionStart \/ deleteClawPVCs
  BY <1>6, <1>12, Zenon DEF pruneSnapshots, DeletionStart, deleteClawPVCs, serverVars
<1>13. CASE ArchivePending
  <2>1. CASE /\ claw = rec.claw /\ claw' = [claw EXCEPT !.archive = TRUE]
             /\ rec' = [rec EXCEPT !.pc = "release", !.claw = claw']
    BY <1>3, <1>4, <1>13, <2>1, FieldsKept, RewriteKeeps, Zenon DEF ArchivePending, HasId
  <2>2. CASE UNCHANGED claw /\ Fail
    BY <1>6, <1>13, <2>2 DEF ArchivePending
  <2> QED
    BY <1>13, <2>1, <2>2, SMTT(30) DEF ArchivePending
<1>14. CASE RemoveFinalizer
  <2>1. CASE claw # NoObj /\ claw' = [claw EXCEPT !.finalizer = FALSE] /\ Done
    BY <1>3, <1>4, <1>14, <2>1, FieldsKept, RewriteKeeps, Zenon DEF RemoveFinalizer, HasId
  <2>2. CASE claw' \in {claw, NoObj} /\ (Fail \/ Done)
    BY <1>6, <1>14, <2>2, Zenon DEF RemoveFinalizer
  <2> QED
    BY <1>14, <2>1, <2>2, Zenon DEF RemoveFinalizer
<1> QED
  BY <1>2, <1>5, <1>7, <1>8, <1>9, <1>10, <1>11, <1>12, <1>13, <1>14, Zenon DEF Step

LEMMA WorldKeeps ==
  ASSUME UidInv,
         \/ Crash \/ Sync \/ CollectGarbage \/ StatefulSetMakesPVC \/ Tick
         \/ EditClaw \/ DeleteClaw \/ CreateForeign \/ RemoveChild \/ CreateChannel
  PROVE  UidInv' /\ ChildStep /\ ClawKept
<1>1. /\ UNCHANGED uids /\ clawCache' \in {clawCache, claw} /\ rec' \in {rec, NoRec}
  BY Zenon DEF Crash, Fail, Spend, Sync, SyncClaw, SyncPVC, SyncChannel, SyncSnaps, SyncChild,
     CollectGarbage, StatefulSetMakesPVC, Tick, EditClaw, DeleteClaw, CreateForeign,
     RemoveChild, CreateChannel, serverVars, cacheVars, others
<1>2. ChildStep
  <2>1. CASE CollectGarbage \/ RemoveChild
    <3>1. UNCHANGED child \/ \E k : SetChild(k, NoObj)
      BY <2>1, Zenon DEF CollectGarbage, RemoveChild, childVars
    <3>2. CASE \E k : SetChild(k, NoObj)
      BY <3>2, SetOne, Zenon
    <3> QED
      BY <3>1, <3>2, ChildSame, SMTT(30)
  <2>2. CASE CreateForeign
    <3>1. PICK k : child[k] = NoObj /\ SetChild(k, Object(0, NoObj, NoClaims))
      BY <2>2, Zenon DEF CreateForeign
    <3> QED
      BY <3>1, SetOne, Zenon
  <2>3. CASE \/ Crash \/ Sync \/ StatefulSetMakesPVC \/ Tick
             \/ EditClaw \/ DeleteClaw \/ CreateChannel
    <3>1. UNCHANGED child
      BY <2>3, ZenonT(30) DEF Crash, Sync, SyncClaw, SyncPVC, SyncChannel, SyncSnaps, SyncChild,
         StatefulSetMakesPVC, Tick, EditClaw, DeleteClaw, CreateChannel, serverVars, childVars
    <3> QED
      BY <3>1, ChildSame, Zenon
  <2> QED
    BY <2>1, <2>2, <2>3
<1>3. ClawKept
  <2>1. CASE EditClaw
    <3>1. PICK new \in Edits(claw) :
             \E rev, steady : claw' = [new EXCEPT !.rev = rev, !.steady = steady]
      BY <2>1, ZenonT(30) DEF EditClaw
    <3>2. HasId(claw)
      BY <2>1, Zenon DEF EditClaw, UidInv, Named
    <3>3. SameClaw(claw, new)
      <4>1. \/ \E v : new = [claw EXCEPT !.on = v]
            \/ \E v, w : new = [claw EXCEPT !.vols[v] = w]
        BY Zenon DEF Edits
      <4>2. ASSUME NEW v, new = [claw EXCEPT !.on = v]
            PROVE  SameClaw(claw, new)
        BY <3>2, <4>2, FieldsKept, Zenon DEF HasId
      <4>3. ASSUME NEW v, NEW w, new = [claw EXCEPT !.vols[v] = w]
            PROVE  SameClaw(claw, new)
        BY <3>2, <4>3, FieldsKept, Zenon DEF HasId
      <4> QED
        BY <4>1, <4>2, <4>3, Zenon
    <3>4. SameClaw(new, claw')
      BY <3>1, <3>3, FieldsKept DEF SameClaw
    <3> QED
      BY <3>2, <3>3, <3>4, Zenon DEF SameClaw, ClawKept
  <2>2. CASE DeleteClaw
    BY <2>2, FieldsKept, Zenon DEF DeleteClaw, UidInv, Named, HasId, ClawKept
  <2>3. CASE UNCHANGED claw
    BY <2>3, Zenon DEF ClawKept
  <2> QED
    BY <2>1, <2>2, <2>3, Zenon DEF Crash, Sync, SyncClaw, SyncPVC, SyncChannel, SyncSnaps, SyncChild,
       CollectGarbage, StatefulSetMakesPVC, Tick, CreateForeign, RemoveChild, CreateChannel,
       serverVars
<1>4. RecStep /\ uids' \in Nat /\ Named(claw)'
  BY <1>1, <1>3, KeptIsNamed, Zenon DEF RecStep, UidInv
<1> QED
  BY <1>1, <1>2, <1>3, <1>4, UidKeeps, Zenon

\* Who the Claw is only changes when there is none.
ClawStep == ClawKept \/ claw = NoObj

LEMMA CreateClawKeeps ==
  ASSUME UidInv, CreateClaw
  PROVE  UidInv' /\ ChildStep /\ ClawStep
<1>1. /\ UNCHANGED <<child, clawCache, rec>> /\ claw = NoObj /\ uids' = uids + 1
      /\ \E runtime, policy : claw' = NewClaw(uids', runtime, policy)
  BY Zenon DEF CreateClaw, childVars, cacheVars
<1>2. uids' \in Nat /\ uids' # 0
  BY <1>1 DEF UidInv
<1>3. HasId(claw')
  <2>1. PICK runtime, policy : claw' = NewClaw(uids', runtime, policy)
    BY <1>1, Zenon
  <2>2. claw'.uid = uids' /\ "uid" \in DOMAIN claw' /\ "selfConfig" \in DOMAIN claw'
    BY <2>1, Zenon DEF NewClaw
  <2> QED
    BY <1>2, <2>2, Zenon DEF HasId
<1>4. Named(claw)'
  BY <1>3 DEF Named
<1> QED
  BY <1>1, <1>2, <1>4, ChildSame, UidKeeps, Zenon DEF RecStep, ClawStep

-----------------------------------------------------------------------------
(* Self-configs: the one that is about to be applied has no outcome.       *)

ConfOK(c) ==
  /\ c = [asks |-> c.asks, owner |-> c.owner, phase |-> c.phase, appliedAt |-> c.appliedAt]
  /\ c.phase \in {"", "Applied", "Denied", "Failed"}

ConfInv ==
  /\ conf = NoObj \/ ConfOK(conf)
  /\ confCache = NoObj \/ ConfOK(confCache)
  /\ confRec = [pc |-> confRec.pc, conf |-> confRec.conf, claw |-> confRec.claw]
  /\ confRec.pc # "idle" => ConfOK(confRec.conf)
  /\ confRec.pc \in {"own", "apply"} => HasId(confRec.claw)
  /\ confRec.pc = "own" => confRec.conf.phase = ""
  /\ confRec.pc = "apply" => conf = NoObj \/ conf.phase = ""

LEMMA ConfFields ==
  ASSUME NEW c, ConfOK(c), NEW v
  PROVE  /\ ConfOK([c EXCEPT !.phase = "Denied"]) /\ ConfOK([c EXCEPT !.phase = "Failed"])
         /\ ConfOK([c EXCEPT !.phase = "Applied", !.appliedAt = v])
         /\ ConfOK([c EXCEPT !.owner = v]) /\ [c EXCEPT !.owner = v].phase = c.phase
<1>1. c = [asks |-> c.asks, owner |-> c.owner, phase |-> c.phase, appliedAt |-> c.appliedAt]
  BY Zenon DEF ConfOK
<1>2. ASSUME NEW p \in {"Denied", "Failed", "Applied"} PROVE ConfOK([c EXCEPT !.phase = p])
  <2>1. [c EXCEPT !.phase = p] =
          [asks |-> c.asks, owner |-> c.owner, phase |-> p, appliedAt |-> c.appliedAt]
    BY <1>1
  <2> QED
    BY <2>1, Zenon DEF ConfOK
<1>3. ConfOK([c EXCEPT !.phase = "Applied", !.appliedAt = v])
  <2> DEFINE d == [c EXCEPT !.phase = "Applied"]
  <2>1. d = [asks |-> c.asks, owner |-> c.owner, phase |-> "Applied", appliedAt |-> c.appliedAt]
    BY <1>1
  <2>2. [c EXCEPT !.phase = "Applied", !.appliedAt = v] = [d EXCEPT !.appliedAt = v]
    BY <1>1, Zenon
  <2> HIDE DEF d
  <2>3. [d EXCEPT !.appliedAt = v] =
          [asks |-> c.asks, owner |-> c.owner, phase |-> "Applied", appliedAt |-> v]
    BY <2>1
  <2> QED
    BY <2>2, <2>3, Zenon DEF ConfOK
<1>4. ConfOK([c EXCEPT !.owner = v]) /\ [c EXCEPT !.owner = v].phase = c.phase
  <2>1. [c EXCEPT !.owner = v] =
          [asks |-> c.asks, owner |-> v, phase |-> c.phase, appliedAt |-> c.appliedAt]
    BY <1>1
  <2> QED
    BY <2>1, Zenon DEF ConfOK
<1> QED
  BY <1>2, <1>3, <1>4, Zenon

LEMMA SelfKeeps ==
  ASSUME UidInv, ConfInv, SelfStep
  PROVE  ConfInv'
<1>1. UNCHANGED confCache
  BY Zenon DEF SelfStep, SelfReconcile, SelfExpire, deny, SelfOwn, applyChanges, SelfFailed,
     SelfApplied, ConfOnly
<1>2. ASSUME confRec' = NoConfRec, conf' = NoObj \/ conf' = conf \/ ConfOK(conf')
      PROVE  ConfInv'
  BY <1>1, <1>2, Zenon DEF ConfInv, NoConfRec
<1>3. CASE SelfReconcile
  <2>1. CASE UNCHANGED confRec
    BY <1>1, <1>3, <2>1, Zenon DEF SelfReconcile, ConfInv
  <2>2. CASE confRec' = NoConfRec
    BY <1>2, <1>3, <2>2, Zenon DEF SelfReconcile
  <2>3. CASE confRec' # confRec /\ confRec' # NoConfRec
    <3>1. /\ confCache # NoObj /\ confCache.phase \notin {"Denied", "Failed"}
          /\ \E pc : /\ confRec' = [pc |-> pc, conf |-> confCache, claw |-> clawCache]
                     /\ pc \in {"expire", "deny", "own"}
                     /\ pc = "own" => clawCache # NoObj /\ confCache.phase # "Applied"
          /\ UNCHANGED conf
      <4> DEFINE pc == IF confCache.phase = "Applied" THEN "expire"
                       ELSE IF \/ clawCache = NoObj
                               \/ "selfConfigure" \notin clawCache.on
                               \/ ~validateActions(confCache.asks)
                       THEN "deny" ELSE "own"
      <4>1. /\ confCache # NoObj /\ confCache.phase \notin {"Denied", "Failed"}
            /\ confRec' = [pc |-> pc, conf |-> confCache, claw |-> clawCache]
            /\ UNCHANGED conf
        BY <1>3, <2>3, Zenon DEF SelfReconcile
      <4>2. /\ pc \in {"expire", "deny", "own"}
            /\ pc = "own" => clawCache # NoObj /\ confCache.phase # "Applied"
        BY Zenon
      <4> HIDE DEF pc
      <4> QED
        BY <4>1, <4>2, Zenon
    <3>2. PICK pc : /\ confRec' = [pc |-> pc, conf |-> confCache, claw |-> clawCache]
                    /\ pc \in {"expire", "deny", "own"}
                    /\ pc = "own" => clawCache # NoObj /\ confCache.phase # "Applied"
      BY <3>1, Zenon
    <3>3. ConfOK(confCache) /\ (pc = "own" => confCache.phase = "" /\ HasId(clawCache))
      BY <3>1, <3>2, Zenon DEF ConfInv, ConfOK, UidInv, Named
    <3> QED
      BY <1>1, <3>1, <3>2, <3>3, Zenon DEF ConfInv
  <2> QED
    BY <2>1, <2>2, <2>3, Zenon
<1>4. CASE SelfExpire
  BY <1>2, <1>4, Zenon DEF SelfExpire, ConfFail
<1>5. CASE deny
  BY <1>2, <1>5, ConfFields, Zenon DEF deny, ConfFail, ConfInv
<1>6. CASE SelfOwn
  <2>1. CASE ConfFail /\ UNCHANGED conf
    BY <1>2, <2>1, Zenon DEF ConfFail
  <2>2. CASE /\ conf = confRec.conf /\ conf' = [conf EXCEPT !.owner = confRec.claw.uid]
             /\ confRec' = [confRec EXCEPT !.pc = "apply", !.conf = conf']
    <3>1. ConfOK(conf) /\ conf.phase = "" /\ HasId(confRec.claw)
      BY <1>6, <2>2, ZenonT(30) DEF SelfOwn, ConfInv
    <3>2. ConfOK(conf') /\ conf'.phase = ""
      BY <2>2, <3>1, ConfFields, Zenon
    <3>3. confRec = [pc |-> confRec.pc, conf |-> confRec.conf, claw |-> confRec.claw]
      BY Zenon DEF ConfInv
    <3>4. confRec' = [pc |-> "apply", conf |-> conf', claw |-> confRec.claw]
      BY <2>2, <3>3, Zenon
    <3> QED
      BY <1>1, <3>1, <3>2, <3>4, Zenon DEF ConfInv
  <2> QED
    BY <1>6, <2>1, <2>2, Zenon DEF SelfOwn
<1>7. CASE applyChanges
  <2>1. UNCHANGED conf /\ \E pc \in {"applied", "failed"} : confRec' = [confRec EXCEPT !.pc = pc]
    BY <1>7, Zenon DEF applyChanges, ConfGoto
  <2>2. PICK pc \in {"applied", "failed"} : confRec' = [confRec EXCEPT !.pc = pc]
    BY <2>1, Zenon
  <2>3. confRec = [pc |-> confRec.pc, conf |-> confRec.conf, claw |-> confRec.claw]
    BY Zenon DEF ConfInv
  <2>4. confRec' = [pc |-> pc, conf |-> confRec.conf, claw |-> confRec.claw]
    BY <2>2, <2>3, Zenon
  <2> QED
    BY <1>1, <1>7, <2>1, <2>2, <2>4, Zenon DEF ConfInv, applyChanges
<1>8. CASE SelfFailed
  BY <1>2, <1>8, ConfFields, Zenon DEF SelfFailed, ConfFail, ConfInv
<1>9. CASE SelfApplied
  <2>1. CASE conf = confRec.conf /\ conf' = [conf EXCEPT !.phase = "Applied", !.appliedAt = time]
    <3>1. ConfOK(conf)
      BY <1>9, <2>1, Zenon DEF SelfApplied, ConfInv
    <3>2. ConfOK(conf')
      BY <2>1, <3>1, ConfFields, Zenon
    <3> QED
      BY <1>2, <1>9, <3>2, Zenon DEF SelfApplied, ConfFail
  <2> QED
    BY <1>2, <1>9, <2>1, Zenon DEF SelfApplied, ConfFail
<1> QED
  BY <1>3, <1>4, <1>5, <1>6, <1>7, <1>8, <1>9, Zenon DEF SelfStep

LEMMA OthersKeepConf ==
  ASSUME ConfInv,
         \/ Lifecycle \/ ChannelStep \/ DeleteChannel
         \/ SyncConf \/ CreateConf \/ CollectConf \/ UNCHANGED allVars
  PROVE  ConfInv'
<1>1. /\ UNCHANGED confRec /\ confCache' \in {confCache, conf}
      /\ \/ conf' \in {conf, NoObj}
         \/ \E asks : conf' = [asks |-> asks, owner |-> 0, phase |-> "", appliedAt |-> 0]
  BY Zenon DEF Lifecycle, ChannelStep, ChannelReconcile, ChannelFinalizer, updateChannelStatus,
     ChannelInUse, ChannelRelease, ChannelOnly, DeleteChannel, SyncConf, CreateConf,
     CollectConf, allVars, confVars
<1>2. conf' \in {conf, NoObj} \/ (ConfOK(conf') /\ conf'.phase = "")
  <2>1. ASSUME NEW asks, conf' = [asks |-> asks, owner |-> 0, phase |-> "", appliedAt |-> 0]
        PROVE  ConfOK(conf') /\ conf'.phase = ""
    BY <2>1, Zenon DEF ConfOK
  <2> QED
    BY <1>1, <2>1, Zenon
<1> QED
  BY <1>1, <1>2, Zenon DEF ConfInv

-----------------------------------------------------------------------------
\* The other two controllers; applyChanges is the one that marks the Claw.
LEMMA ControllersKeep ==
  ASSUME UidInv, ConfInv,
         \/ ChannelStep \/ DeleteChannel
         \/ SelfStep \/ SyncConf \/ CreateConf \/ CollectConf \/ UNCHANGED allVars
  PROVE  UidInv' /\ ChildStep /\ (ClawKept \/ applyChanges)
<1>1. UNCHANGED <<child, clawCache, uids, rec>> /\ (UNCHANGED claw \/ applyChanges)
  BY Zenon DEF ChannelStep, ChannelReconcile, ChannelFinalizer, updateChannelStatus, ChannelInUse,
     ChannelRelease, ChannelOnly, DeleteChannel, Spend, SelfStep, SelfReconcile, SelfExpire,
     deny, SelfOwn, applyChanges, SelfFailed, SelfApplied, ConfOnly, SyncConf, CreateConf,
     CollectConf, allVars, vars, serverVars, childVars, cacheVars, others
<1>2. Named(claw)'
  <2>1. CASE applyChanges /\ claw = confRec.claw /\ claw' = [claw EXCEPT !.selfConfig = TRUE]
    <3>1. HasId(claw)
      BY <2>1, Zenon DEF applyChanges, ConfInv
    <3>2. HasId(claw')
      BY <2>1, <3>1, Zenon DEF HasId
    <3> QED
      BY <3>2, Zenon DEF Named
  <2> QED
    BY <1>1, <2>1, Zenon DEF applyChanges, UidInv, Named
<1> QED
  BY <1>1, <1>2, ChildSame, UidKeeps, Zenon DEF RecStep, ClawKept, UidInv

\* What every step does, of the reconciles and of the world around them.
LEMMA OperatorStep ==
  ASSUME UidInv, ConfInv, [Next]_allVars
  PROVE  UidInv' /\ ConfInv' /\ ChildStep /\ (ClawStep \/ applyChanges)
<1>1. CASE Lifecycle
  BY <1>1, StepKeeps, WorldKeeps, CreateClawKeeps, OthersKeepConf, Zenon DEF Lifecycle, ClawNext, ClawStep
<1>2. CASE ~Lifecycle
  BY <1>2, ControllersKeep, SelfKeeps, OthersKeepConf, Zenon DEF Next, ClawStep
<1> QED
  BY <1>1, <1>2, Zenon

LEMMA OperatorInv == OperatorInit => UidInv /\ ConfInv
BY DEF OperatorInit, Init, UidInv, Named, RecInv, NoRec, ConfInv, NoConfRec

\* The controller never modifies an object of a guarded kind that the Claw
\* does not control (ensureRole, ensureRoleBinding, ensureServiceAccount,
\* ensureNetworkPolicy, ensureIngress, ensurePDB).
THEOREM ForeignCorrect == SafetySpec => ForeignUntouched
<1> DEFINE Keeps == \A k \in Guarded : child[k] # NoObj /\ child[k].owner = 0
                                        => child'[k] \in {child[k], NoObj}
<1>1. UidInv /\ ConfInv /\ [Next]_allVars => (UidInv /\ ConfInv)' /\ [Keeps]_allVars
  BY OperatorStep, Zenon DEF ChildStep, Spared
<1> HIDE DEF Keeps
<1>2. SafetySpec => [][Keeps]_allVars
  BY <1>1, OperatorInv, PTL DEF SafetySpec
<1> QED
  BY <1>2, Zenon DEF ForeignUntouched, Keeps

\* A self-config with an outcome is not applied any more, whatever the cached
\* copy shows (Reconcile and applyChanges of ClawSelfConfigReconciler).
THEOREM NeverLateCorrect == SafetySpec => NeverLate
<1> DEFINE Keeps == claw # NoObj /\ claw' # NoObj /\ claw'.uid = claw.uid
                      /\ claw'.selfConfig # claw.selfConfig /\ conf # NoObj
                    => conf.phase = ""
<1>1. ConfInv /\ applyChanges => Keeps
  BY Zenon DEF ConfInv, applyChanges
<1>2. ClawStep => Keeps
  BY Zenon DEF ClawStep, ClawKept, SameClaw
<1>3. UidInv /\ ConfInv /\ [Next]_allVars => (UidInv /\ ConfInv)' /\ [Keeps]_allVars
  BY <1>1, <1>2, OperatorStep, ZenonT(30)
<1> HIDE DEF Keeps
<1>4. SafetySpec => [][Keeps]_allVars
  BY <1>3, OperatorInv, PTL DEF SafetySpec
<1> QED
  BY <1>4, Zenon DEF NeverLate, Keeps

-----------------------------------------------------------------------------
(* The pod template: what each injector of buildStatefulSet preserves.     *)

Templates == [init : Seq(Containers), main : Seq(Containers), volumes : SUBSET VolumeNames]

\* A template that the next injector may be handed.
Sound(t) ==
  /\ t \in Templates
  /\ {"ipc-socket", "wal-data"} \subseteq t.volumes
  /\ t.init # <<>> /\ t.init[1].name = "claw-init"
  /\ \A i \in DOMAIN t.init :
       t.init[i].name = "channel" => \E j \in 1 .. i : t.init[j].name = "ipc-bus"
  /\ \A i \in DOMAIN t.main : t.main[i].name = "channel" => Has(t.init, "ipc-bus")
  /\ \A i \in DOMAIN t.init : t.init[i].mounts \subseteq t.volumes \cup Persistent
  /\ \A i \in DOMAIN t.main : t.main[i].mounts \subseteq t.volumes \cup Persistent

\* What is left of PodStarts once the claims are there.
PodOK(pod) ==
  /\ Starts(pod)[1].name = "claw-init"
  /\ \A i \in DOMAIN Starts(pod) :
       Starts(pod)[i].name = "channel"
         => \E j \in 1 .. i : Starts(pod)[j].name = "ipc-bus"
  /\ Mounts(pod) \subseteq pod.volumes \cup Persistent

LEMMA BuildSound ==
  ASSUME NEW c
  PROVE  Sound(BuildPodTemplate(c))
<1> DEFINE t == BuildPodTemplate(c)
           i == buildInitContainer(c)
           r == buildRuntimeContainer(c)
<1>1. t.init = <<i>> /\ t.main = <<r>> /\ t.volumes = buildVolumes(c)
      /\ t = [init |-> t.init, main |-> t.main, volumes |-> t.volumes]
  BY Zenon DEF BuildPodTemplate
<1>2. i \in Containers /\ i.name = "claw-init" /\ i.mounts \subseteq buildVolumes(c) \cup Persistent
  <2>1. i.mounts \in SUBSET VolumeNames /\ i.mounts \subseteq buildVolumes(c) \cup Persistent
    BY Zenon DEF buildInitContainer, VolumeNames, buildVolumes, Persistent, When
  <2> QED
    BY <2>1, Zenon DEF buildInitContainer, Containers
<1>3. r \in Containers /\ r.name = "runtime" /\ r.mounts \subseteq buildVolumes(c) \cup Persistent
  <2>1. r.mounts \in SUBSET VolumeNames /\ r.mounts \subseteq buildVolumes(c) \cup Persistent
    BY Zenon DEF buildRuntimeContainer, VolumeNames, buildVolumes, Persistent, When, Enabled
  <2> QED
    BY <2>1, Zenon DEF buildRuntimeContainer, Containers
<1>4. buildVolumes(c) \in SUBSET VolumeNames /\ {"ipc-socket", "wal-data"} \subseteq buildVolumes(c)
  BY Zenon DEF buildVolumes, When, VolumeNames
<1> HIDE DEF t, i, r
<1>5. t \in Templates
  <2>1. <<i>> \in Seq(Containers) /\ <<r>> \in Seq(Containers)
    BY <1>2, <1>3
  <2> QED
    BY <1>1, <1>4, <2>1, Zenon DEF Templates
<1> QED
  BY <1>1, <1>2, <1>3, <1>4, <1>5, SMTT(30) DEF Sound, t

LEMMA BusSound ==
  ASSUME NEW c, NEW t, Sound(t)
  PROVE  /\ Sound(injectIPCBusIfNeeded(c, t))
         /\ "channel" \in c.on => Has(injectIPCBusIfNeeded(c, t).init, "ipc-bus")
<1> DEFINE u == injectIPCBusSidecar(t)
<1>1. /\ t \in Templates
      /\ t.init \in Seq(Containers) /\ t.init # <<>>
  BY Zenon DEF Sound, Templates
<1>2. Bus \in Containers /\ Bus.name = "ipc-bus" /\ Bus.mounts = {"ipc-socket", "wal-data"}
  BY Zenon DEF Bus, Containers, VolumeNames
<1>3. /\ u.init = <<Head(t.init), Bus>> \o Tail(t.init)
      /\ u.main = t.main /\ u.volumes = t.volumes
      /\ u = [init |-> u.init, main |-> u.main, volumes |-> u.volumes]
  <2>1. t = [init |-> t.init, main |-> t.main, volumes |-> t.volumes]
    BY <1>1, Zenon DEF Templates
  <2> DEFINE q == <<Head(t.init), Bus>> \o Tail(t.init)
  <2>2. u = [t EXCEPT !.init = q]
    BY <1>1, Zenon DEF injectIPCBusSidecar
  <2> HIDE DEF u, q
  <2>3. u = [init |-> q, main |-> t.main, volumes |-> t.volumes]
    BY <2>1, <2>2
  <2>4. u.init = q /\ u.main = t.main /\ u.volumes = t.volumes
        /\ u = [init |-> u.init, main |-> u.main, volumes |-> u.volumes]
    BY <2>3, Zenon
  <2> QED
    BY <2>4, Zenon DEF q
<1>4. /\ u.init \in Seq(Containers) /\ u.init # <<>>
      /\ u.init[1] = t.init[1] /\ u.init[2] = Bus /\ 2 \in DOMAIN u.init /\ 1 \in DOMAIN t.init
      /\ \A i \in DOMAIN u.init :
           \/ i = 1
           \/ i = 2
           \/ 2 \in 1 .. i /\ i - 1 \in DOMAIN t.init /\ u.init[i] = t.init[i - 1]
  <2>1. SecondIn(t.init, Bus, <<Head(t.init), Bus>> \o Tail(t.init))
    BY <1>1, <1>2, SecondPlaces, Zenon
  <2> HIDE DEF u
  <2> QED
    BY <1>3, <2>1, Zenon DEF SecondIn
<1> HIDE DEF u
<1>5. Sound(u)
  <2>1. u \in Templates
    BY <1>1, <1>3, <1>4, Zenon DEF Templates
  <2>2. 2 \in 1 .. 2 /\ "channel" # "claw-init"
    OBVIOUS
  <2>3. Has(u.init, "ipc-bus")
    BY <1>2, <1>4, Zenon DEF Has
  <2>4. \A i \in DOMAIN u.init : u.init[i].name = "channel" => 2 \in 1 .. i
    BY <1>4, <2>2, Zenon DEF Sound
  <2>5. \A i \in DOMAIN u.init :
          u.init[i].name = "channel" => \E j \in 1 .. i : u.init[j].name = "ipc-bus"
    BY <1>2, <1>4, <2>4, Zenon
  <2>6. \A i \in DOMAIN u.init : u.init[i].mounts \subseteq u.volumes \cup Persistent
    <3>1. \A i \in DOMAIN t.init : t.init[i].mounts \subseteq u.volumes \cup Persistent
      BY <1>3, Zenon DEF Sound
    <3>2. Bus.mounts \subseteq u.volumes \cup Persistent
      BY <1>2, <1>3, Zenon DEF Sound
    <3> QED
      BY <1>4, <3>1, <3>2, Zenon
  <2>7. /\ u.init # <<>> /\ u.init[1].name = "claw-init"
        /\ {"ipc-socket", "wal-data"} \subseteq u.volumes
    BY <1>3, <1>4, Zenon DEF Sound
  <2>8. /\ \A i \in DOMAIN u.main : u.main[i].name = "channel" => Has(u.init, "ipc-bus")
        /\ \A i \in DOMAIN u.main : u.main[i].mounts \subseteq u.volumes \cup Persistent
    BY <1>3, <2>3, Zenon DEF Sound
  <2> QED
    BY <2>1, <2>5, <2>6, <2>7, <2>8, Zenon DEF Sound
<1>6. Has(u.init, "ipc-bus")
  BY <1>2, <1>4, Zenon DEF Has
<1> QED
  BY <1>2, <1>5, <1>6, Zenon DEF injectIPCBusIfNeeded, shouldInjectIPCBus, u

\* A container after the others.
LEMMA AppendSound ==
  ASSUME NEW t, Sound(t), NEW x \in Containers,
         x.mounts \subseteq t.volumes \cup Persistent,
         x.name = "channel" => Has(t.init, "ipc-bus")
  PROVE  /\ Sound([t EXCEPT !.init = Append(t.init, x)])
         /\ Sound([t EXCEPT !.main = Append(t.main, x)])
<1>1. /\ t.init \in Seq(Containers) /\ t.main \in Seq(Containers) /\ t.init # <<>>
      /\ t = [init |-> t.init, main |-> t.main, volumes |-> t.volumes]
      /\ t.volumes \subseteq VolumeNames
  BY Zenon DEF Sound, Templates
<1>2. Sound([t EXCEPT !.init = Append(t.init, x)])
  <2> DEFINE u == [t EXCEPT !.init = Append(t.init, x)]
             q == Append(t.init, x)
  <2>1. u.init = Append(t.init, x) /\ u.main = t.main /\ u.volumes = t.volumes
        /\ u = [init |-> q, main |-> t.main, volumes |-> t.volumes]
    <3>1. u = [t EXCEPT !.init = q]
      BY Zenon
    <3> HIDE DEF u, q
    <3>2. u = [init |-> q, main |-> t.main, volumes |-> t.volumes]
      BY <1>1, <3>1
    <3> QED
      BY <3>2, Zenon DEF q
  <2> HIDE DEF u
  <2>2. /\ u.init \in Seq(Containers) /\ u.init # <<>> /\ DOMAIN t.init \subseteq DOMAIN u.init
        /\ \A i \in DOMAIN t.init : 1 .. i \subseteq DOMAIN t.init
        /\ \A i \in DOMAIN t.init : u.init[i] = t.init[i]
        /\ \A i \in DOMAIN u.init : \/ i \in DOMAIN t.init
                                    \/ u.init[i] = x /\ DOMAIN t.init \subseteq 1 .. i
    <3>1. Appended(t.init, x, Append(t.init, x))
      BY <1>1, AppendedPlaces, Zenon
    <3> QED
      BY <2>1, <3>1, Zenon DEF Appended
  <2>3. Has(t.init, "ipc-bus") => Has(u.init, "ipc-bus")
    BY <2>2, Zenon DEF Has
  <2>4. \A i \in DOMAIN u.init :
          u.init[i].name = "channel" => \E j \in 1 .. i : u.init[j].name = "ipc-bus"
    <3> TAKE i \in DOMAIN u.init
    <3>1. CASE i \in DOMAIN t.init
      <4>1. t.init[i].name = "channel" => \E j \in 1 .. i : t.init[j].name = "ipc-bus"
        BY <3>1, Zenon DEF Sound
      <4> QED
        BY <2>2, <3>1, <4>1, Zenon
    <3>2. CASE u.init[i] = x /\ DOMAIN t.init \subseteq 1 .. i
      BY <2>2, <3>2, Zenon DEF Has
    <3> QED
      BY <2>2, <3>1, <3>2, Zenon
  <2>5. \A i \in DOMAIN u.init : u.init[i].mounts \subseteq u.volumes \cup Persistent
    BY <2>1, <2>2, Zenon DEF Sound
  <2>6. u \in Templates
    BY <1>1, <2>1, <2>2, Zenon DEF Templates
  <2>7. 1 \in DOMAIN t.init
    BY <1>1
  <2>8. u.init[1].name = "claw-init"
    BY <2>2, <2>7, Zenon DEF Sound
  <2>9. Sound(u)
    BY <2>1, <2>2, <2>3, <2>4, <2>5, <2>6, <2>8, Zenon DEF Sound
  <2> QED
    BY <2>9, Zenon DEF u
<1>3. Sound([t EXCEPT !.main = Append(t.main, x)])
  <2> DEFINE u == [t EXCEPT !.main = Append(t.main, x)]
             q == Append(t.main, x)
  <2>1. u.main = Append(t.main, x) /\ u.init = t.init /\ u.volumes = t.volumes
        /\ u = [init |-> t.init, main |-> q, volumes |-> t.volumes]
    <3>1. u = [t EXCEPT !.main = q]
      BY Zenon
    <3> HIDE DEF u, q
    <3>2. u = [init |-> t.init, main |-> q, volumes |-> t.volumes]
      BY <1>1, <3>1
    <3> QED
      BY <3>2, Zenon DEF q
  <2> HIDE DEF u
  <2>2. /\ u.main \in Seq(Containers)
        /\ \A i \in DOMAIN t.main : u.main[i] = t.main[i]
        /\ \A i \in DOMAIN u.main : i \in DOMAIN t.main \/ u.main[i] = x
    <3>1. Appended(t.main, x, Append(t.main, x))
      BY <1>1, AppendedPlaces, Zenon
    <3> QED
      BY <2>1, <3>1, Zenon DEF Appended
  <2>3. \A i \in DOMAIN u.main : u.main[i].mounts \subseteq u.volumes \cup Persistent
    BY <2>1, <2>2, Zenon DEF Sound
  <2>4. \A i \in DOMAIN u.main : u.main[i].name = "channel" => Has(u.init, "ipc-bus")
    BY <2>1, <2>2, Zenon DEF Sound
  <2>5. u \in Templates
    BY <1>1, <2>1, <2>2, Zenon DEF Templates
  <2>6. Sound(u)
    BY <2>1, <2>3, <2>4, <2>5, Zenon DEF Sound
  <2> QED
    BY <2>6, Zenon DEF u
<1> QED
  BY <1>2, <1>3, Zenon

\* Whatever the spec says, whichever channels fit and with native sidecars or
\* without, the pod that buildStatefulSet turns it into is in order: claw-init
\* comes first, every channel sidecar after the IPC bus, and a container mounts
\* only what is declared or may be claimed.
THEOREM TemplateSound ==
  ASSUME NEW c, NEW fits, NEW native
  PROVE  Sound(Template(c, fits, native))
<1> DEFINE b == injectIPCBusIfNeeded(c, BuildPodTemplate(c))
           s == injectChannelSidecars(c, b, fits, native)
<1>1. Sound(b) /\ ("channel" \in c.on => Has(b.init, "ipc-bus"))
  BY BuildSound, BusSound, Zenon
<1> HIDE DEF b
<1>2. Sound(s)
  <2>1. buildChannelContainer \in Containers /\ buildChannelContainer.mounts = {"ipc-socket"}
    BY Zenon DEF buildChannelContainer, Containers, VolumeNames
  <2>2. "ipc-socket" \in b.volumes
    BY <1>1, Zenon DEF Sound
  <2> QED
    BY <1>1, <2>1, <2>2, AppendSound, Zenon DEF injectChannelSidecars
<1> HIDE DEF s
<1> DEFINE x == [name |-> "archive-sidecar", mounts |-> {"output"}]
<1>3. x \in Containers /\ x.name # "channel" /\ x.mounts \subseteq Persistent
  BY Zenon DEF Containers, Persistent, VolumeNames
<1>4. Sound(injectArchiverIfNeeded(c, s))
  <2>1. Sound([s EXCEPT !.init = Append(s.init, x)])
    BY <1>2, <1>3, AppendSound, Zenon
  <2> QED
    BY <1>2, <2>1, Zenon DEF injectArchiverIfNeeded, injectArchiverSidecar
<1> QED
  BY <1>4, Zenon DEF Template, s, b

LEMMA SoundIsOK ==
  ASSUME NEW t, Sound(t)
  PROVE  PodOK(t)
<1> DEFINE s == Starts(t)
<1>1. /\ t.init \in Seq(Containers) /\ t.main \in Seq(Containers) /\ t.init # <<>>
      /\ s = t.init \o t.main
  BY Zenon DEF Sound, Templates, Starts
<1> HIDE DEF s
<1>2. /\ \A i \in DOMAIN t.init : s[i] = t.init[i] /\ 1 .. i \subseteq DOMAIN t.init
      /\ \A i \in DOMAIN s :
           \/ i \in DOMAIN t.init
           \/ DOMAIN t.init \subseteq 1 .. i /\ \E j \in DOMAIN t.main : s[i] = t.main[j]
      /\ 1 \in DOMAIN t.init
  <2>1. Joined(t.init, t.main, t.init \o t.main)
    BY <1>1, JoinedPlaces, Zenon
  <2>2. 1 \in DOMAIN t.init
    BY <1>1
  <2> QED
    BY <1>1, <2>1, <2>2, Zenon DEF Joined
<1>3. s[1].name = "claw-init"
  BY <1>2, Zenon DEF Sound
<1>4. ASSUME NEW i \in DOMAIN s, s[i].name = "channel"
      PROVE  \E j \in 1 .. i : s[j].name = "ipc-bus"
  <2>1. CASE i \in DOMAIN t.init
    <3>1. \E j \in 1 .. i : t.init[j].name = "ipc-bus"
      BY <1>2, <1>4, <2>1, Zenon DEF Sound
    <3> QED
      BY <1>2, <2>1, <3>1, Zenon
  <2>2. CASE DOMAIN t.init \subseteq 1 .. i /\ \E j \in DOMAIN t.main : s[i] = t.main[j]
    <3>1. PICK j \in DOMAIN t.init : t.init[j].name = "ipc-bus"
      BY <1>4, <2>2, Zenon DEF Sound, Has
    <3> QED
      BY <1>2, <2>2, <3>1, Zenon
  <2> QED
    BY <1>2, <2>1, <2>2, Zenon
<1>5. \A i \in DOMAIN s : s[i].mounts \subseteq t.volumes \cup Persistent
  BY <1>2, Zenon DEF Sound
<1>6. Mounts(t) \subseteq t.volumes \cup Persistent
  BY <1>5, Zenon DEF Mounts, s
<1> QED
  BY <1>3, <1>4, <1>6, Zenon DEF PodOK, s

-----------------------------------------------------------------------------
(* The claims: every copy of a Claw is one it has grown out of.             *)

SpecFields == {"uid", "runtime", "vols", "steady"}

\* What the webhooks let through, of the first n Claws.
SpecOK(c, n) ==
  /\ SpecFields \subseteq DOMAIN c
  /\ c.uid \in 1 .. n /\ c.runtime \in Runtimes
  /\ c.vols \in [Persistent -> Volumes]
  /\ c.steady \subseteq Enabled(c)
  /\ \A v \in Enabled(c) : c.vols[v].size > 0

\* A claim made for the volume old serves the volume new.
Serves(old, new) == old.class \in {NoClass, new.class} /\ old.size <= new.size

\* d is c after edits that the webhooks have allowed.
Later(c, d) ==
  d.uid = c.uid =>
    /\ d.runtime = c.runtime /\ d.steady \subseteq c.steady
    /\ d.runtime # "k8sops" => \A v \in d.steady : Serves(c.vols[v], d.vols[v])

\* c is a copy of the Claw d or of one that is gone.
Copy(c, n, d) == SpecOK(c, n) /\ (d # NoObj => Later(c, d))

\* A StatefulSet whose pod is in order and whose claims serve its owner d.
SetOK(s, n, d) ==
  /\ s = [owner |-> s.owner, data |-> s.data, claims |-> s.claims]
  /\ s.owner \in 0 .. n /\ \A v \in DOMAIN s.claims : s.claims[v].size \in Nat
  /\ s.data # NoObj => PodOK(s.data.pod)
  /\ d # NoObj /\ s.owner = d.uid =>
       /\ d.steady \subseteq DOMAIN s.claims
       /\ d.runtime # "k8sops" => \A v \in d.steady : Serves(s.claims[v], d.vols[v])

VolInv ==
  /\ uids \in Nat /\ limit \in Limits
  /\ claw # NoObj => SpecOK(claw, uids)
  /\ clawCache # NoObj => Copy(clawCache, uids, claw)
  /\ rec.pc # "idle" => Copy(rec.claw, uids, claw)
  /\ StatefulSet # NoObj => SetOK(StatefulSet, uids, claw)

\* What a write may make of the Claw d.
Grows(d, e, n) == e = NoObj \/ (d # NoObj /\ SpecOK(e, n) /\ e.uid = d.uid /\ Later(d, e))

SameSpec(c, d) == /\ SpecFields \subseteq DOMAIN d
                  /\ d.uid = c.uid /\ d.runtime = c.runtime
                  /\ d.vols = c.vols /\ d.steady = c.steady

LEMMA VolumeType ==
  ASSUME NEW c, NEW n, SpecOK(c, n), NEW v \in Enabled(c) \cup c.steady
  PROVE  v \in Enabled(c) /\ c.vols[v].size \in Nat /\ c.vols[v].size > 0
<1>1. v \in Persistent /\ c.vols[v] # Off /\ c.vols[v] \in Volumes /\ v \in Enabled(c)
  BY Zenon DEF SpecOK, Enabled
<1>2. c.vols[v] \in [class : {NoClass, "fast"}, size : 0 .. 2]
  BY <1>1, Zenon DEF Volumes
<1> QED
  BY <1>1, <1>2 DEF SpecOK

LEMMA SameGrows ==
  ASSUME NEW d, NEW e, NEW n, d # NoObj, SpecOK(d, n), SameSpec(d, e)
  PROVE  SpecOK(e, n) /\ e.uid = d.uid /\ Later(d, e) /\ Grows(d, e, n)
<1>1. SpecOK(e, n)
  BY Zenon DEF SpecOK, SameSpec, Enabled
<1>2. \A v \in d.steady : Serves(d.vols[v], d.vols[v])
  BY VolumeType DEF Serves
<1>3. Later(d, e)
  BY <1>2, Zenon DEF Later, SameSpec
<1> QED
  BY <1>1, <1>3, Zenon DEF Grows, SameSpec

LEMMA ServesTrans ==
  ASSUME NEW a, NEW b, NEW c, a.size \in Nat, b.size \in Nat, c.size \in Nat,
         Serves(a, b), Serves(b, c)
  PROVE  Serves(a, c)
BY DEF Serves

LEMMA CopyGrows ==
  ASSUME NEW c, NEW d, NEW e, NEW n, Copy(c, n, d), Grows(d, e, n),
         d # NoObj => SpecOK(d, n)
  PROVE  Copy(c, n, e)
<1> SUFFICES ASSUME e # NoObj, e.uid = c.uid PROVE Later(c, e)
  BY Zenon DEF Copy, Later
<1>1. /\ SpecOK(c, n) /\ SpecOK(d, n) /\ SpecOK(e, n)
      /\ Later(c, d) /\ Later(d, e) /\ d.uid = c.uid
  BY Zenon DEF Copy, Grows
<1>2. e.runtime = c.runtime /\ d.runtime = c.runtime
      /\ e.steady \subseteq d.steady /\ d.steady \subseteq c.steady
  BY <1>1, Zenon DEF Later
<1>3. ASSUME e.runtime # "k8sops", NEW v \in e.steady
      PROVE  Serves(c.vols[v], e.vols[v])
  <2>1. Serves(c.vols[v], d.vols[v]) /\ Serves(d.vols[v], e.vols[v])
    BY <1>1, <1>2, <1>3, Zenon DEF Later
  <2> QED
    BY <1>1, <1>2, <2>1, VolumeType, ServesTrans, Zenon
<1> QED
  BY <1>2, <1>3, Zenon DEF Later

LEMMA SetGrows ==
  ASSUME NEW s, NEW d, NEW e, NEW n, SetOK(s, n, d), Grows(d, e, n),
         d # NoObj => SpecOK(d, n)
  PROVE  SetOK(s, n, e)
<1> SUFFICES ASSUME e # NoObj, s.owner = e.uid
             PROVE  /\ e.steady \subseteq DOMAIN s.claims
                    /\ e.runtime # "k8sops" => \A v \in e.steady : Serves(s.claims[v], e.vols[v])
  BY Zenon DEF SetOK
<1>1. d # NoObj /\ SpecOK(d, n) /\ SpecOK(e, n) /\ Later(d, e) /\ e.uid = d.uid
  BY Zenon DEF Grows
<1>2. e.runtime = d.runtime /\ e.steady \subseteq d.steady /\ d.steady \subseteq DOMAIN s.claims
  BY <1>1, Zenon DEF Later, SetOK
<1>3. ASSUME e.runtime # "k8sops", NEW v \in e.steady
      PROVE  Serves(s.claims[v], e.vols[v])
  <2>1. Serves(s.claims[v], d.vols[v]) /\ Serves(d.vols[v], e.vols[v])
    BY <1>1, <1>2, <1>3, Zenon DEF Later, SetOK
  <2>2. s.claims[v].size \in Nat /\ d.vols[v].size \in Nat /\ e.vols[v].size \in Nat
    BY <1>1, <1>2, <1>3, VolumeType, Zenon DEF SetOK
  <2> QED
    BY <2>1, <2>2, ServesTrans, Zenon
<1> QED
  BY <1>2, <1>3, Zenon

\* A new Claw has a new UID.
LEMMA NewIsNobodys ==
  ASSUME NEW n \in Nat, NEW e, e.uid = n + 1
  PROVE  /\ \A c : Copy(c, n, NoObj) => Copy(c, n + 1, e)
         /\ \A s : SetOK(s, n, NoObj) => SetOK(s, n + 1, e)
<1>1. ASSUME NEW c, SpecOK(c, n) PROVE SpecOK(c, n + 1) /\ c.uid # e.uid
  BY <1>1 DEF SpecOK
<1>2. ASSUME NEW s, s.owner \in 0 .. n PROVE s.owner \in 0 .. n + 1 /\ s.owner # e.uid
  BY <1>2
<1> QED
  BY <1>1, <1>2, Zenon DEF Copy, Later, SetOK

\* The StatefulSet built from a copy of the Claw serves the Claw.
LEMMA SetOfCopy ==
  ASSUME NEW c, NEW n, NEW d, Copy(c, n, d), NEW pod, PodOK(pod.pod)
  PROVE  SetOK(Object(c.uid, pod, BuildVolumeClaimTemplates(c)), n, d)
<1> DEFINE s == Object(c.uid, pod, BuildVolumeClaimTemplates(c))
<1>1. /\ s = [owner |-> s.owner, data |-> s.data, claims |-> s.claims]
      /\ s.owner = c.uid /\ s.data = pod
      /\ s.claims = [v \in Enabled(c) |-> c.vols[v]]
  BY Zenon DEF Object, BuildVolumeClaimTemplates
<1> HIDE DEF s
<1>2. s.owner \in 0 .. n
  BY <1>1 DEF Copy, SpecOK
<1>3. \A v \in DOMAIN s.claims : s.claims[v].size \in Nat
  BY <1>1, VolumeType, Zenon DEF Copy
<1>4. ASSUME d # NoObj, s.owner = d.uid
      PROVE  /\ d.steady \subseteq DOMAIN s.claims
             /\ d.runtime # "k8sops" => \A v \in d.steady : Serves(s.claims[v], d.vols[v])
  <2>1. Later(c, d) /\ c.steady \subseteq Enabled(c)
    BY <1>4, Zenon DEF Copy, SpecOK
  <2> QED
    BY <1>1, <1>4, <2>1, Zenon DEF Later
<1>5. SetOK(s, n, d)
  BY <1>1, <1>2, <1>3, <1>4, Zenon DEF SetOK
<1> QED
  BY <1>5, Zenon DEF s

\* What the steps other than CreateClaw do, to the reconcile and the StatefulSet.
RecTakes ==
  rec'.pc # "idle" =>
    \/ rec.pc # "idle" /\ rec'.claw = rec.claw
    \/ clawCache # NoObj /\ rec'.claw = clawCache
    \/ claw # NoObj /\ rec'.claw = claw' /\ SpecOK(claw', uids)

SetMoves ==
  \/ StatefulSet' \in {StatefulSet, NoObj, Object(0, NoObj, NoClaims)}
  \/ StatefulSet # NoObj /\ \E c : StatefulSet' = [StatefulSet EXCEPT !.data = buildStatefulSet(c)]
  \/ rec.pc # "idle" /\ StatefulSet' = Desired("StatefulSet", rec.claw)

LEMMA BuiltOK ==
  ASSUME NEW c
  PROVE  PodOK(buildStatefulSet(c).pod)
<1>1. buildStatefulSet(c).pod = Template(c, ChannelFits, limit.native)
  BY Zenon DEF buildStatefulSet
<1> QED
  BY <1>1, TemplateSound, SoundIsOK, Zenon

LEMMA SetKeeps ==
  ASSUME VolInv, uids' = uids, Grows(claw, claw', uids), SetMoves, StatefulSet' # NoObj
  PROVE  SetOK(StatefulSet', uids, claw')
<1> DEFINE s == StatefulSet
<1>1. s # NoObj => SetOK(s, uids, claw')
  BY SetGrows, Zenon DEF VolInv
<1>2. CASE StatefulSet' = s
  BY <1>1, <1>2, Zenon
<1>3. CASE StatefulSet' = Object(0, NoObj, NoClaims)
  <2>1. claw' # NoObj => claw'.uid # 0
    BY DEF Grows, SpecOK, VolInv
  <2>2. DOMAIN NoClaims = {} /\ 0 \in 0 .. uids
    BY DEF NoClaims, VolInv
  <2> QED
    BY <1>3, <2>1, <2>2, Zenon DEF SetOK, Object
<1>4. ASSUME s # NoObj, NEW c, StatefulSet' = [s EXCEPT !.data = buildStatefulSet(c)]
      PROVE  SetOK(StatefulSet', uids, claw')
  <2> DEFINE data == buildStatefulSet(c)
  <2>1. PodOK(data.pod) /\ SetOK(s, uids, claw')
    BY <1>1, <1>4, BuiltOK, Zenon
  <2>2. s = [owner |-> s.owner, data |-> s.data, claims |-> s.claims]
    BY <2>1, Zenon DEF SetOK
  <2>3. StatefulSet' = [s EXCEPT !.data = data]
    BY <1>4, Zenon
  <2> HIDE DEF s, data
  <2>4. StatefulSet' = [owner |-> s.owner, data |-> data, claims |-> s.claims]
    BY <2>2, <2>3, Zenon
  <2> QED
    BY <2>1, <2>4, Zenon DEF SetOK
<1>5. CASE rec.pc # "idle" /\ StatefulSet' = Desired("StatefulSet", rec.claw)
  <2> DEFINE c == rec.claw
  <2>1. Copy(c, uids, claw')
    BY <1>5, CopyGrows, Zenon DEF VolInv
  <2>2. StatefulSet' = Object(c.uid, buildStatefulSet(c), BuildVolumeClaimTemplates(c))
    BY <1>5, Zenon DEF Desired, Content
  <2> QED
    BY <2>1, <2>2, BuiltOK, SetOfCopy, Zenon
<1> QED
  BY <1>2, <1>3, <1>4, <1>5, Zenon DEF SetMoves

LEMMA VolKeeps ==
  ASSUME VolInv, UNCHANGED <<uids, limit>>, Grows(claw, claw', uids),
         clawCache' \in {clawCache, claw}, RecTakes, SetMoves
  PROVE  VolInv'
<1>1. claw' # NoObj => SpecOK(claw', uids)
  BY Zenon DEF Grows
<1>2. \A c : SpecOK(c, uids) => \A v \in c.steady : Serves(c.vols[v], c.vols[v])
  BY VolumeType, SMTT(30) DEF Serves
<1>3. \A c : SpecOK(c, uids) => Copy(c, uids, c)
  BY <1>2, Zenon DEF Copy, Later
<1>4. \A c : Copy(c, uids, claw) => Copy(c, uids, claw')
  BY CopyGrows, ZenonT(30) DEF VolInv
<1>5. clawCache' # NoObj => Copy(clawCache', uids, claw')
  BY <1>3, <1>4, SMTT(30) DEF VolInv
<1>6. rec'.pc # "idle" => Copy(rec'.claw, uids, claw')
  BY <1>3, <1>4, Zenon DEF VolInv, RecTakes
<1>7. StatefulSet' # NoObj => SetOK(StatefulSet', uids, claw')
  BY SetKeeps, Zenon
<1> QED
  BY <1>1, <1>5, <1>6, <1>7, Zenon DEF VolInv

\* A write that leaves the volumes alone.
LEMMA KeptGrows ==
  ASSUME VolInv, claw' \in {claw, NoObj} \/ (claw # NoObj /\ SameSpec(claw, claw'))
  PROVE  Grows(claw, claw', uids)
<1>1. CASE claw' = NoObj
  BY <1>1 DEF Grows
<1>2. CASE claw # NoObj /\ (claw' = claw \/ SameSpec(claw, claw'))
  <2>1. SpecOK(claw, uids)
    BY <1>2, Zenon DEF VolInv
  <2>2. SameSpec(claw, claw')
    BY <1>2, <2>1, Zenon DEF SameSpec, SpecOK
  <2> QED
    BY <1>2, <2>1, <2>2, SameGrows, Zenon
<1> QED
  BY <1>1, <1>2, Zenon

LEMMA FieldsSame ==
  ASSUME NEW c, NEW n, SpecOK(c, n), NEW v, NEW w
  PROVE  /\ SameSpec(c, [c EXCEPT !.finalizer = v]) /\ SameSpec(c, [c EXCEPT !.last = v])
         /\ SameSpec(c, [c EXCEPT !.phase = v, !.observed = w])
         /\ SameSpec(c, [c EXCEPT !.archive = v]) /\ SameSpec(c, [c EXCEPT !.deleting = v])
         /\ SameSpec(c, [c EXCEPT !.selfConfig = v])
<1>1. SpecFields \subseteq DOMAIN c
  BY Zenon DEF SpecOK
<1> QED
  BY <1>1, Zenon DEF SameSpec, SpecFields

LEMMA RecMovesTake ==
  ASSUME UidInv, rec.pc # "idle", NextKind \/ Fail \/ Done \/ \E pc : Goto(pc)
  PROVE  RecTakes
<1>1. rec = [pc |-> rec.pc, claw |-> rec.claw, next |-> rec.next]
  BY DEF UidInv, RecInv
<1>2. CASE Fail \/ Done
  BY <1>2 DEF Fail, Done, NoRec, RecTakes
<1>3. CASE NextKind
  <2>1. rec' = [pc |-> rec.pc, claw |-> rec.claw, next |-> rec.next + 1]
    BY <1>1, <1>3 DEF NextKind
  <2> QED
    BY <2>1, Zenon DEF RecTakes
<1>4. CASE \E pc : Goto(pc)
  <2>1. PICK pc : rec' = [rec EXCEPT !.pc = pc]
    BY <1>4 DEF Goto
  <2>2. rec' = [pc |-> pc, claw |-> rec.claw, next |-> rec.next]
    BY <1>1, <2>1
  <2> QED
    BY <2>2, Zenon DEF RecTakes
<1> QED
  BY <1>2, <1>3, <1>4, Zenon

LEMMA SetChildSet ==
  ASSUME UidInv, NEW k, NEW obj, SetChild(k, obj)
  PROVE  StatefulSet' = IF k = "StatefulSet" THEN obj ELSE StatefulSet
<1>1. child' = [child EXCEPT ![k] = obj] /\ child = [j \in KindSet |-> child[j]]
  BY Zenon DEF SetChild, UidInv
<1>2. "StatefulSet" \in KindSet
  BY DEF KindSet, Kinds
<1> QED
  BY <1>1, <1>2, Zenon DEF StatefulSet

\* The object of kind k is created, updated or deleted.
LEMMA CallsTake ==
  ASSUME UidInv, NEW k \in KindSet, Ensuring(k),
         \/ Create(k) \/ DeleteChild(k)
         \/ Update(k) /\ childCache[k] # NoObj
         \/ Fail /\ UNCHANGED childVars
         \/ NextKind /\ UNCHANGED <<childVars, queued>>
  PROVE  RecTakes /\ SetMoves
<1>1. rec.pc # "idle"
  BY Zenon DEF Ensuring
<1>2. RecTakes
  BY <1>1, RecMovesTake, Zenon DEF Create, DeleteChild, Update
<1>3. CASE UNCHANGED child
  BY <1>2, <1>3, Zenon DEF SetMoves, StatefulSet
<1>4. CASE SetChild(k, Desired(k, rec.claw))
  BY <1>1, <1>2, <1>4, SetChildSet DEF SetMoves
<1>5. CASE SetChild(k, NoObj)
  BY <1>2, <1>5, SetChildSet, Zenon DEF SetMoves
<1>6. CASE child[k] # NoObj /\ SetChild(k, [child[k] EXCEPT !.data = Content(k, rec.claw)])
  <2>1. CASE k # "StatefulSet"
    BY <1>2, <1>6, <2>1, SetChildSet, Zenon DEF SetMoves
  <2>2. CASE k = "StatefulSet"
    <3>1. StatefulSet' = [StatefulSet EXCEPT !.data = Content(k, rec.claw)]
      BY <1>6, <2>2, SetChildSet, Zenon DEF StatefulSet
    <3>2. Content(k, rec.claw) = buildStatefulSet(rec.claw)
      BY <2>2, Zenon DEF Content
    <3> QED
      BY <1>2, <1>6, <2>2, <3>1, <3>2, Zenon DEF SetMoves, StatefulSet
  <2> QED
    BY <2>1, <2>2, Zenon
<1> QED
  BY <1>3, <1>4, <1>5, <1>6, Zenon DEF Create, DeleteChild, Update, childVars

LEMMA EnsureVol ==
  ASSUME UidInv, VolInv, EnsureChild
  PROVE  VolInv'
<1>1. UNCHANGED <<claw, clawCache, uids, limit>>
  BY Zenon DEF EnsureChild, ensureService, ensureConfigMap, ensureServiceAccount, ensureRole,
     ensureRoleBinding, ensureNetworkPolicy, ensureIngress, ensurePDB, ensureStatefulSet,
     CreateOrUpdate, EnsureIf, cacheVars, others
<1>2. KindSet = {"Service", "ConfigMap", "ServiceAccount", "Role", "RoleBinding",
                 "NetworkPolicy", "Ingress", "PDB", "StatefulSet"}
  BY DEF KindSet, Kinds
<1>3. RecTakes /\ SetMoves
  <2>1. CASE \E k \in KindSet : CreateOrUpdate(k)
    BY <2>1, CallsTake, Zenon DEF CreateOrUpdate
  <2>2. CASE \E k \in KindSet : Ensuring(k) /\ (EnsureOwned(k) \/ DeleteOwned(k))
    BY <2>2, CallsTake, Zenon DEF EnsureOwned, DeleteOwned
  <2>3. CASE ensureService \/ ensureConfigMap \/ ensureStatefulSet
    BY <1>2, <2>1, <2>3, Zenon DEF ensureService, ensureConfigMap, ensureStatefulSet
  <2>4. CASE ensureServiceAccount
    BY <1>2, <2>2, <2>4, CallsTake, Zenon DEF ensureServiceAccount
  <2>5. CASE ensureRole \/ ensureRoleBinding \/ ensureNetworkPolicy \/ ensureIngress \/ ensurePDB
    BY <1>2, <2>2, <2>5, Zenon DEF ensureRole, ensureRoleBinding, ensureNetworkPolicy, ensureIngress,
       ensurePDB, EnsureIf, deleteOwnedRole, deleteOwnedRoleBinding, deleteOwnedNetworkPolicy,
       deleteOwnedIngress, deleteOwnedPDB
  <2> QED
    BY <2>3, <2>4, <2>5, Zenon DEF EnsureChild
<1> QED
  BY <1>1, <1>3, KeptGrows, VolKeeps, ZenonT(30)

\* A step of the reconcile that writes at most the Claw.
LEMMA StepVol ==
  ASSUME UidInv, VolInv, Step
  PROVE  VolInv'
<1>1. CASE EnsureChild
  BY <1>1, EnsureVol, Zenon
<1>2. SUFFICES ASSUME ~EnsureChild PROVE VolInv'
  BY <1>1, Zenon
<1>3. UNCHANGED <<child, clawCache, uids, limit>>
  BY <1>2, Zenon DEF Step, Reconcile, ensureFinalizer, ensurePVCOwnerReferences, updateStatus,
     SnapshotCreate, SnapshotAnnotate, pruneSnapshots, DeletionStart, deleteClawPVCs,
     ArchivePending, removePVCOwnerReferences, RemoveFinalizer, serverVars, childVars,
     cacheVars, others
<1>4. SetMoves
  BY <1>3, Zenon DEF SetMoves, StatefulSet
<1>5. ASSUME RecTakes, claw' \in {claw, NoObj} \/ (claw # NoObj /\ SameSpec(claw, claw'))
      PROVE  VolInv'
  BY <1>3, <1>4, <1>5, KeptGrows, VolKeeps, Zenon
<1>6. ASSUME rec.pc # "idle", claw' \in {claw, NoObj} \/ (claw # NoObj /\ SameSpec(claw, claw')),
             NextKind \/ Fail \/ Done \/ \E pc : Goto(pc)
      PROVE  VolInv'
  BY <1>5, <1>6, RecMovesTake, Zenon
<1>7. ASSUME claw # NoObj, SameSpec(claw, claw'),
             NEW pc, rec' = [rec EXCEPT !.pc = pc, !.claw = claw']
      PROVE  VolInv'
  <2>1. rec = [pc |-> rec.pc, claw |-> rec.claw, next |-> rec.next]
    BY Zenon DEF UidInv, RecInv
  <2>2. rec' = [pc |-> pc, claw |-> claw', next |-> rec.next]
    BY <1>7, <2>1, ZenonT(30)
  <2>3. SpecOK(claw', uids)
    BY <1>7, SameGrows, Zenon DEF VolInv
  <2>4. RecTakes
    BY <1>7, <2>2, <2>3, Zenon DEF RecTakes
  <2> QED
    BY <1>5, <1>7, <2>4, Zenon
<1>8. ASSUME claw # NoObj, NEW v, NEW w
      PROVE  /\ SameSpec(claw, [claw EXCEPT !.finalizer = v]) /\ SameSpec(claw, [claw EXCEPT !.last = v])
             /\ SameSpec(claw, [claw EXCEPT !.phase = v, !.observed = w])
             /\ SameSpec(claw, [claw EXCEPT !.archive = v])
  BY <1>8, FieldsSame, Zenon DEF VolInv
<1>9. CASE Reconcile
  <2>1. RecTakes /\ claw' = claw
    BY <1>9, Zenon DEF Reconcile, RecTakes, NoRec, serverVars
  <2> QED
    BY <1>5, <2>1, Zenon
<1>10. CASE ensureFinalizer
  <2>1. CASE claw # NoObj /\ claw' = [claw EXCEPT !.finalizer = TRUE]
               /\ rec' = [rec EXCEPT !.pc = "ensure", !.claw = claw']
    BY <1>7, <1>8, <2>1, ZenonT(30)
  <2>2. CASE UNCHANGED claw /\ (Fail \/ Goto("ensure"))
    BY <1>6, <1>10, <2>2, Zenon DEF ensureFinalizer
  <2> QED
    BY <1>10, <2>1, <2>2, Zenon DEF ensureFinalizer
<1>11. CASE ensurePVCOwnerReferences \/ removePVCOwnerReferences
  BY <1>6, <1>11, Zenon DEF ensurePVCOwnerReferences, removePVCOwnerReferences, PatchOwners
<1>12. CASE updateStatus
  <2>1. CASE \E phase, rev : /\ claw # NoObj
                             /\ claw' = [claw EXCEPT !.phase = phase, !.observed = rev]
                             /\ rec' \in {NoRec, [rec EXCEPT !.pc = "snapshot", !.claw = claw']}
    <3>1. claw # NoObj /\ SameSpec(claw, claw')
      <4>1. PICK phase, rev : claw' = [claw EXCEPT !.phase = phase, !.observed = rev]
        BY <2>1, Zenon
      <4> QED
        BY <1>8, <2>1, <4>1, Zenon
    <3>2. Done \/ rec' = [rec EXCEPT !.pc = "snapshot", !.claw = claw']
      BY <2>1, Zenon DEF Done
    <3>3. rec.pc # "idle"
      BY <1>12, Zenon DEF updateStatus
    <3> QED
      BY <1>6, <1>7, <3>1, <3>2, <3>3, ZenonT(30)
  <2>2. CASE UNCHANGED claw /\ (Fail \/ Done)
    BY <1>6, <1>12, <2>2, Zenon DEF updateStatus
  <2> QED
    BY <1>12, <2>1, <2>2, ZenonT(30) DEF updateStatus
<1>13. CASE SnapshotCreate
  <2>1. CASE Done
    BY <1>6, <1>13, <2>1, Zenon DEF SnapshotCreate
  <2>2. CASE rec' = [rec EXCEPT !.pc = "annotate", !.next = time]
    <3>1. rec = [pc |-> rec.pc, claw |-> rec.claw, next |-> rec.next]
      BY DEF UidInv, RecInv
    <3>2. rec' = [pc |-> "annotate", claw |-> rec.claw, next |-> time]
      BY <2>2, <3>1, Zenon
    <3>3. RecTakes /\ claw' = claw
      BY <1>13, <3>2, Zenon DEF RecTakes, SnapshotCreate
    <3> QED
      BY <1>5, <3>3
  <2> QED
    BY <1>13, <2>1, <2>2, Zenon DEF SnapshotCreate
<1>14. CASE SnapshotAnnotate
  <2>1. CASE claw # NoObj /\ claw' = [claw EXCEPT !.last = rec.next] /\ Goto("prune")
    BY <1>6, <1>8, <1>14, <2>1, ZenonT(30) DEF SnapshotAnnotate
  <2>2. CASE UNCHANGED claw /\ Fail
    BY <1>6, <1>14, <2>2, Zenon DEF SnapshotAnnotate
  <2> QED
    BY <1>14, <2>1, <2>2, Zenon DEF SnapshotAnnotate
<1>15. CASE pruneSnapshots \/ DeletionStart \/ deleteClawPVCs
  BY <1>6, <1>15, Zenon DEF pruneSnapshots, DeletionStart, deleteClawPVCs, serverVars
<1>16. CASE ArchivePending
  <2>1. CASE /\ claw # NoObj /\ claw' = [claw EXCEPT !.archive = TRUE]
             /\ rec' = [rec EXCEPT !.pc = "release", !.claw = claw']
    BY <1>7, <1>8, <2>1, Zenon
  <2>2. CASE UNCHANGED claw /\ Fail
    BY <1>6, <1>16, <2>2, Zenon DEF ArchivePending
  <2> QED
    BY <1>16, <2>1, <2>2, Zenon DEF ArchivePending
<1>17. CASE RemoveFinalizer
  <2>1. CASE claw # NoObj /\ claw' = [claw EXCEPT !.finalizer = FALSE] /\ Done
    BY <1>6, <1>8, <1>17, <2>1, ZenonT(30) DEF RemoveFinalizer
  <2>2. CASE claw' \in {claw, NoObj} /\ (Fail \/ Done)
    BY <1>6, <1>17, <2>2, Zenon DEF RemoveFinalizer
  <2> QED
    BY <1>17, <2>1, <2>2, Zenon DEF RemoveFinalizer
<1> QED
  BY <1>2, <1>9, <1>10, <1>11, <1>12, <1>13, <1>14, <1>15, <1>16, <1>17, Zenon DEF Step

\* An edit that the webhooks allow keeps class and size of a volume that stays on.
LEMMA EditVol ==
  ASSUME VolInv, EditClaw
  PROVE  Grows(claw, claw', uids)
<1>1. PICK new \in Edits(claw) :
        /\ ValidateUpdate(claw, new)
        /\ claw' = [new EXCEPT !.rev = @ + 1, !.steady = @ \cap Enabled(new)]
  BY Zenon DEF EditClaw
<1>2. claw # NoObj /\ SpecOK(claw, uids) /\ limit \in Limits
  BY ZenonT(30) DEF EditClaw, VolInv
<1>3. limit.resizes \subseteq Persistent \X Volumes
  BY <1>2, LifecycleAssumption, Zenon
<1>4. /\ SpecFields \subseteq DOMAIN new /\ new.uid = claw.uid /\ new.runtime = claw.runtime
      /\ new.vols \in [Persistent -> Volumes] /\ new.steady = claw.steady
  <2>1. \/ \E v : new = [claw EXCEPT !.on = v]
        \/ \E v \in Persistent, w \in Volumes : new = [claw EXCEPT !.vols[v] = w]
    BY <1>3, Zenon DEF Edits
  <2>2. SpecFields \subseteq DOMAIN claw /\ claw.vols \in [Persistent -> Volumes]
    BY <1>2, Zenon DEF SpecOK
  <2>3. ASSUME NEW v, new = [claw EXCEPT !.on = v]
        PROVE  /\ SpecFields \subseteq DOMAIN new /\ new.uid = claw.uid
               /\ new.runtime = claw.runtime /\ new.vols = claw.vols /\ new.steady = claw.steady
    BY <2>2, <2>3 DEF SpecFields
  <2>4. ASSUME NEW v \in Persistent, NEW w \in Volumes, new = [claw EXCEPT !.vols[v] = w]
        PROVE  /\ SpecFields \subseteq DOMAIN new /\ new.uid = claw.uid
               /\ new.runtime = claw.runtime /\ new.steady = claw.steady
               /\ new.vols = [claw.vols EXCEPT ![v] = w]
    BY <2>2, <2>4, Zenon DEF SpecFields
  <2>5. \A v \in Persistent, w \in Volumes :
          [claw.vols EXCEPT ![v] = w] \in [Persistent -> Volumes]
    BY <2>2, Zenon
  <2>6. CASE \E v : new = [claw EXCEPT !.on = v]
    <3>1. PICK v : new = [claw EXCEPT !.on = v]
      BY <2>6, Zenon
    <3> QED
      BY <2>2, <2>3, <3>1, Zenon
  <2>7. CASE \E v \in Persistent, w \in Volumes : new = [claw EXCEPT !.vols[v] = w]
    <3>1. PICK v \in Persistent, w \in Volumes : new = [claw EXCEPT !.vols[v] = w]
      BY <2>7, Zenon
    <3>2. new.vols = [claw.vols EXCEPT ![v] = w]
      BY <2>4, <3>1, Zenon
    <3>3. new.vols \in [Persistent -> Volumes]
      BY <2>5, <3>2, Zenon
    <3> QED
      BY <2>4, <3>1, <3>3, Zenon
  <2> QED
    BY <2>1, <2>6, <2>7, ZenonT(30)
<1>5. /\ SpecFields \subseteq DOMAIN claw' /\ claw'.uid = claw.uid /\ claw'.runtime = claw.runtime
      /\ claw'.vols = new.vols /\ claw'.steady = claw.steady \cap Enabled(new)
  BY <1>1, <1>4, Zenon DEF SpecFields
<1>6. Enabled(claw') = Enabled(new)
  BY <1>5, Zenon DEF Enabled
<1>7. \A v \in Enabled(new) : new.vols[v].size > 0
  BY <1>1, Zenon DEF ValidateUpdate, validatePVCSizes, validateVolumeSize
<1>8. SpecOK(claw', uids)
  BY <1>2, <1>4, <1>5, <1>6, <1>7, Zenon DEF SpecOK
<1>9. ASSUME claw.runtime # "k8sops", NEW v \in claw'.steady
      PROVE  Serves(claw.vols[v], claw'.vols[v])
  <2>1. validatePersistenceUpdate(claw, new)
    BY <1>1, <1>2, <1>4, <1>9, Zenon DEF ValidateUpdate, validateRuntimeUpdate, SpecOK
  <2>2. v \in Persistent /\ v \in Enabled(claw) /\ v \in Enabled(new)
    BY <1>2, <1>5, <1>9, Zenon DEF SpecOK, Enabled
  <2>3. claw.vols[v] # Off /\ new.vols[v] # Off /\ validateVolumeUpdate(claw.vols[v], new.vols[v])
    BY <2>1, <2>2, Zenon DEF validatePersistenceUpdate, Enabled
  <2>4. /\ claw.vols[v].size \in Nat /\ claw.vols[v].size > 0
        /\ claw'.vols[v].size \in Nat /\ claw'.vols[v].size > 0
    BY <1>2, <1>6, <1>8, <2>2, VolumeType, Zenon
  <2> QED
    BY <1>5, <2>3, <2>4, Zenon DEF validateVolumeUpdate, Serves
<1>10. Later(claw, claw')
  BY <1>5, <1>9, Zenon DEF Later
<1> QED
  BY <1>2, <1>5, <1>8, <1>10, Zenon DEF Grows

LEMMA WorldVol ==
  ASSUME UidInv, VolInv,
         \/ Crash \/ Sync \/ CollectGarbage \/ StatefulSetMakesPVC \/ Tick
         \/ EditClaw \/ DeleteClaw \/ CreateForeign \/ RemoveChild \/ CreateChannel
  PROVE  VolInv'
<1>1. UNCHANGED <<uids, limit>> /\ clawCache' \in {clawCache, claw} /\ rec' \in {rec, NoRec}
  BY ZenonT(30) DEF Crash, Fail, Spend, Sync, SyncClaw, SyncPVC, SyncChannel, SyncSnaps, SyncChild,
     CollectGarbage, StatefulSetMakesPVC, Tick, EditClaw, DeleteClaw, CreateForeign,
     RemoveChild, CreateChannel, serverVars, cacheVars, others
<1>2. RecTakes
  BY <1>1 DEF RecTakes, NoRec
<1>3. SetMoves
  <2>1. CASE CollectGarbage \/ RemoveChild
    <3>1. UNCHANGED child \/ \E k : SetChild(k, NoObj)
      BY <2>1, Zenon DEF CollectGarbage, RemoveChild, childVars
    <3>2. CASE \E k : SetChild(k, NoObj)
      BY <3>2, SetChildSet, Zenon DEF SetMoves
    <3> QED
      BY <3>1, <3>2, Zenon DEF SetMoves, StatefulSet
  <2>2. CASE CreateForeign
    <3>1. PICK k : SetChild(k, Object(0, NoObj, NoClaims))
      BY <2>2, Zenon DEF CreateForeign
    <3> QED
      BY <3>1, SetChildSet, Zenon DEF SetMoves
  <2>3. CASE \/ Crash \/ Sync \/ StatefulSetMakesPVC \/ Tick
             \/ EditClaw \/ DeleteClaw \/ CreateChannel
    <3>1. UNCHANGED child
      BY <2>3, ZenonT(30) DEF Crash, Sync, SyncClaw, SyncPVC, SyncChannel, SyncSnaps, SyncChild,
         StatefulSetMakesPVC, Tick, EditClaw, DeleteClaw, CreateChannel, serverVars, childVars
    <3> QED
      BY <3>1, Zenon DEF SetMoves, StatefulSet
  <2> QED
    BY <2>1, <2>2, <2>3, Zenon
<1>4. Grows(claw, claw', uids)
  <2>1. CASE DeleteClaw
    <3>1. claw # NoObj /\ SpecOK(claw, uids)
      BY <2>1, Zenon DEF DeleteClaw, VolInv
    <3>2. claw' \in {claw, NoObj} \/ SameSpec(claw, claw')
      BY <2>1, <3>1, FieldsSame, ZenonT(30) DEF DeleteClaw
    <3> QED
      BY <3>1, <3>2, KeptGrows, Zenon
  <2>2. CASE UNCHANGED claw
    BY <2>2, KeptGrows, Zenon
  <2> QED
    BY <2>1, <2>2, EditVol, ZenonT(30) DEF Crash, Sync, SyncClaw, SyncPVC, SyncChannel, SyncSnaps,
       SyncChild, CollectGarbage, StatefulSetMakesPVC, Tick, CreateForeign, RemoveChild,
       CreateChannel, serverVars
<1> QED
  BY <1>1, <1>2, <1>3, <1>4, VolKeeps, ZenonT(30)

LEMMA CreateVol ==
  ASSUME UidInv, VolInv, CreateClaw
  PROVE  VolInv'
<1>1. /\ UNCHANGED <<child, clawCache, rec, limit>> /\ claw = NoObj /\ uids' = uids + 1
      /\ \E runtime \in limit.runtimes : \E policy : claw' = NewClaw(uids', runtime, policy)
      /\ validatePVCSizes(claw')
  BY Zenon DEF CreateClaw, childVars, cacheVars, ValidateCreate
<1>2. uids \in Nat /\ uids' \in Nat /\ limit \in Limits
  BY <1>1, SMTT(30) DEF VolInv
<1>3. limit.vols \in [Persistent -> Volumes] /\ limit.runtimes \subseteq Runtimes
  BY <1>2, LifecycleAssumption, Zenon
<1>4. /\ SpecFields \subseteq DOMAIN claw' /\ claw'.uid = uids + 1
      /\ claw'.runtime \in limit.runtimes
      /\ claw'.vols = limit.vols /\ claw'.steady = Enabled(limit)
  <2>1. PICK runtime \in limit.runtimes : \E policy : claw' = NewClaw(uids', runtime, policy)
    BY <1>1, Zenon
  <2>2. PICK policy : claw' = NewClaw(uids', runtime, policy)
    BY <2>1, Zenon
  <2>3. /\ claw'.uid = uids' /\ claw'.runtime = runtime /\ claw'.vols = limit.vols
        /\ claw'.steady = Enabled(limit)
    BY <2>2, Zenon DEF NewClaw
  <2>4. /\ "uid" \in DOMAIN claw' /\ "runtime" \in DOMAIN claw'
        /\ "vols" \in DOMAIN claw' /\ "steady" \in DOMAIN claw'
    BY <2>2, Zenon DEF NewClaw
  <2> QED
    BY <1>1, <2>3, <2>4, Zenon DEF SpecFields
<1>5. Enabled(claw') = Enabled(limit)
  BY <1>4, Zenon DEF Enabled
<1>6. \A v \in Enabled(claw') : claw'.vols[v].size > 0
  BY <1>1, Zenon DEF validatePVCSizes, validateVolumeSize
<1>7. SpecOK(claw', uids')
  BY <1>1, <1>2, <1>3, <1>4, <1>5, <1>6, SMTT(30) DEF SpecOK
<1>8. /\ \A c : Copy(c, uids, NoObj) => Copy(c, uids + 1, claw')
      /\ \A s : SetOK(s, uids, NoObj) => SetOK(s, uids + 1, claw')
  BY <1>2, <1>4, NewIsNobodys, Zenon
<1>9. /\ clawCache' # NoObj => Copy(clawCache', uids', claw')
      /\ rec'.pc # "idle" => Copy(rec'.claw, uids', claw')
      /\ StatefulSet' # NoObj => SetOK(StatefulSet', uids', claw')
  BY <1>1, <1>8, Zenon DEF VolInv, StatefulSet
<1> QED
  BY <1>1, <1>2, <1>7, <1>9, ZenonT(30) DEF VolInv

LEMMA ControllersVol ==
  ASSUME UidInv, VolInv,
         \/ ChannelStep \/ DeleteChannel
         \/ SelfStep \/ SyncConf \/ CreateConf \/ CollectConf \/ UNCHANGED allVars
  PROVE  VolInv'
<1>1. UNCHANGED <<child, clawCache, uids, rec, limit>> /\ (UNCHANGED claw \/ applyChanges)
  BY Zenon DEF ChannelStep, ChannelReconcile, ChannelFinalizer, updateChannelStatus, ChannelInUse,
     ChannelRelease, ChannelOnly, DeleteChannel, Spend, SelfStep, SelfReconcile, SelfExpire,
     deny, SelfOwn, applyChanges, SelfFailed, SelfApplied, ConfOnly, SyncConf, CreateConf,
     CollectConf, allVars, vars, serverVars, childVars, cacheVars, others
<1>2. UNCHANGED claw \/ (claw # NoObj /\ claw' = [claw EXCEPT !.selfConfig = TRUE])
  BY <1>1, Zenon DEF applyChanges
<1>3. claw' = claw \/ (claw # NoObj /\ SameSpec(claw, claw'))
  <2>1. claw # NoObj => SameSpec(claw, [claw EXCEPT !.selfConfig = TRUE])
    BY FieldsSame, Zenon DEF VolInv
  <2> QED
    BY <1>2, <2>1, ZenonT(30)
<1>4. Grows(claw, claw', uids)
  BY <1>3, KeptGrows, Zenon
<1>5. RecTakes /\ SetMoves
  BY <1>1, Zenon DEF RecTakes, SetMoves, StatefulSet
<1> QED
  BY <1>1, <1>4, <1>5, VolKeeps, ZenonT(30)

LEMMA VolStep ==
  ASSUME UidInv, VolInv, [Next]_allVars
  PROVE  VolInv'
BY StepVol, WorldVol, CreateVol, ControllersVol, ZenonT(30) DEF Next, Lifecycle, ClawNext

LEMMA VolInit == OperatorInit => VolInv
BY DEF OperatorInit, Init, VolInv, NoRec, StatefulSet, KindSet, Kinds

LEMMA VolCorrect == SafetySpec => []VolInv
<1>1. (UidInv /\ ConfInv /\ VolInv) /\ [Next]_allVars => (UidInv /\ ConfInv /\ VolInv)'
  BY OperatorStep, VolStep, Zenon
<1> QED
  BY <1>1, OperatorInv, VolInit, PTL DEF SafetySpec

\* Every pod that buildStatefulSet builds and ensureStatefulSet writes can start:
\* a channel sidecar comes after the bus and claw-init, and what is mounted is
\* declared, claimed or one of the persistent volumes switched on later, whatever
\* stale copies the reconcile works on.
THEOREM PodStartsCorrect == SafetySpec => []PodStarts
<1>1. VolInv => PodStarts
  <2> SUFFICES ASSUME VolInv, Built PROVE PodStarts
    BY Zenon DEF PodStarts
  <2> DEFINE pod == StatefulSet.data.pod
  <2>1. SetOK(StatefulSet, uids, claw) /\ StatefulSet.data # NoObj
    BY Zenon DEF VolInv, Built
  <2>2. PodOK(pod)
    BY <2>1, Zenon DEF SetOK
  <2>3. Owned => claw.steady \subseteq DOMAIN StatefulSet.claims
    BY <2>1, Zenon DEF Owned, SetOK
  <2>4. Mounts(pod) \subseteq pod.volumes \cup DOMAIN StatefulSet.claims
                                \cup (IF Owned THEN Persistent \ claw.steady ELSE Persistent)
    BY <2>2, <2>3, Zenon DEF PodOK
  <2> QED
    BY <2>2, <2>4, ZenonT(30) DEF PodStarts, PodOK
<1> QED
  BY <1>1, VolCorrect, PTL

\* The claim templates of a Claw's StatefulSet serve the volumes that were never
\* switched off: the class is the claimed one and the size at least that
\* (validateVolumeUpdate), although ensureStatefulSet may have used a stale Claw.
THEOREM ClaimsCorrect == SafetySpec => []ClaimsFit
<1>1. VolInv => ClaimsFit
  <2> SUFFICES ASSUME VolInv, Owned, claw.runtime # "k8sops" PROVE ClaimsFit
    BY Zenon DEF ClaimsFit
  <2>1. SetOK(StatefulSet, uids, claw)
    BY Zenon DEF VolInv, Owned, Built
  <2> QED
    BY <2>1, Zenon DEF ClaimsFit, SetOK, Owned, Serves
<1> QED
  BY <1>1, VolCorrect, PTL

-----------------------------------------------------------------------------
(* The finalizer.  The patch that removes it names no UID, and the copy of   *)
(* the Claw that a clean-up works on may be of a Claw that is gone.  It does *)
(* no harm: a Claw of the same name gets its finalizer from the same worker, *)
(* not before the cache has stopped showing the old Claw.                    *)

FateFields == {"uid", "policy", "deleting", "finalizer", "archive"}
Fated(c) == FateFields \subseteq DOMAIN c

SameFate(c, d) ==
  /\ Fated(d) /\ d.uid = c.uid /\ d.policy = c.policy
  /\ d.deleting = c.deleting /\ d.finalizer = c.finalizer /\ d.archive = c.archive

\* What a write other than that of the finalizer may make of the Claw d.
Turns(d, e) ==
  \/ e \in {d, NoObj}
  \/ /\ d # NoObj /\ Fated(e) /\ e.uid = d.uid /\ e.policy = d.policy
     /\ d.deleting => e.deleting
     /\ ~d.finalizer => ~e.finalizer
     /\ d.archive => e.archive

\* The Claw d as it may be when c is a copy that shows a deletion: the same
\* Claw, or a later one whose finalizer is not set yet.
Behind(c, d) ==
  d # NoObj => \/ d.uid = c.uid /\ d.deleting
               \/ d.uid > c.uid /\ ~d.finalizer

FateCopy(c, d) ==
  /\ Fated(c)
  /\ d # NoObj /\ d.uid = c.uid => d.policy = c.policy
  /\ c.deleting => Behind(c, d)

Announced(c, d) == d # NoObj /\ d.uid = c.uid /\ d.policy = "Archive" => d.archive

Cleaning == {"deletion", "erase", "archive", "release", "unfinalize"}

FateInv ==
  /\ claw # NoObj => Fated(claw) /\ (claw.deleting => claw.finalizer)
  /\ clawCache # NoObj => FateCopy(clawCache, claw)
  /\ rec.pc \in Cleaning => FateCopy(rec.claw, claw) /\ rec.claw.deleting
  /\ rec.pc = "finalizer" /\ clawCache # NoObj /\ clawCache.deleting =>
       claw # NoObj /\ claw.uid = clawCache.uid
  /\ rec.pc = "erase" => rec.claw.policy = "Delete"
  /\ rec.pc \in {"release", "unfinalize"} => Announced(rec.claw, claw)

LEMMA CopyTurns ==
  ASSUME NEW c, NEW d, NEW e, Turns(d, e)
  PROVE  /\ FateCopy(c, d) => FateCopy(c, e)
         /\ Announced(c, d) => Announced(c, e)
BY Zenon DEF Turns, FateCopy, Behind, Announced

LEMMA FateWrites ==
  ASSUME NEW c, Fated(c), NEW v, NEW w
  PROVE  /\ SameFate(c, [c EXCEPT !.last = v]) /\ SameFate(c, [c EXCEPT !.selfConfig = v])
         /\ SameFate(c, [c EXCEPT !.phase = v, !.observed = w])
         /\ SameFate(c, [c EXCEPT !.on = v]) /\ SameFate(c, [c EXCEPT !.vols[v] = w])
         /\ SameFate(c, [c EXCEPT !.rev = v, !.steady = w])
BY Zenon DEF Fated, SameFate, FateFields

LEMMA FateTurns ==
  ASSUME NEW c, c # NoObj, Fated(c)
  PROVE  /\ \A d : SameFate(c, d) => Turns(c, d)
         /\ Turns(c, [c EXCEPT !.finalizer = FALSE])
         /\ Turns(c, [c EXCEPT !.archive = TRUE])
         /\ Turns(c, [c EXCEPT !.deleting = TRUE])
         /\ [c EXCEPT !.archive = TRUE].archive
         /\ Fated([c EXCEPT !.finalizer = TRUE])
<1>1. ASSUME NEW d, SameFate(c, d) PROVE Turns(c, d)
  BY <1>1, Zenon DEF SameFate, Turns
<1>2. Turns(c, [c EXCEPT !.finalizer = FALSE])
  BY Zenon DEF Fated, Turns, FateFields
<1>3. Turns(c, [c EXCEPT !.archive = TRUE]) /\ [c EXCEPT !.archive = TRUE].archive
  BY Zenon DEF Fated, Turns, FateFields
<1>4. Turns(c, [c EXCEPT !.deleting = TRUE])
  BY Zenon DEF Fated, Turns, FateFields
<1>5. Fated([c EXCEPT !.finalizer = TRUE])
  BY Zenon DEF Fated, FateFields
<1> QED
  BY <1>1, <1>2, <1>3, <1>4, <1>5, Zenon

\* The steps, as far as the invariant can tell them apart.
FateQuiet ==
  /\ clawCache' = clawCache
  /\ claw' = claw \/ (claw # NoObj /\ SameFate(claw, claw'))
  /\ rec' = rec \/ rec'.pc \notin Cleaning \cup {"finalizer"}
FateSync == claw' = claw /\ rec' = rec /\ clawCache' = claw
FateTaken ==
  /\ claw' = claw /\ clawCache' = clawCache
  /\ clawCache # NoObj /\ rec'.claw = clawCache
  /\ rec'.pc = IF clawCache.deleting THEN "deletion" ELSE "finalizer"
FateClean ==
  /\ claw' = claw /\ clawCache' = clawCache /\ rec'.claw = rec.claw
  /\ \/ rec.pc = "deletion" /\ rec'.pc = "erase" /\ rec.claw.policy = "Delete"
     \/ rec.pc = "deletion" /\ rec'.pc = "archive"
     \/ rec.pc = "deletion" /\ rec'.pc = "release" /\ rec.claw.policy # "Archive"
     \/ rec.pc = "erase" /\ rec'.pc = "unfinalize"
     \/ rec.pc = "release" /\ rec'.pc = "unfinalize"
FateArchive ==
  /\ rec.pc = "archive" /\ rec'.pc = "release" /\ clawCache' = clawCache
  /\ claw # NoObj /\ claw = rec.claw /\ rec'.claw = claw'
  /\ claw' = [claw EXCEPT !.archive = TRUE]
FateAdd ==
  /\ rec.pc = "finalizer" /\ rec'.pc = "ensure" /\ clawCache' = clawCache
  /\ claw # NoObj /\ ~claw.deleting /\ claw' = [claw EXCEPT !.finalizer = TRUE]
FateRemove ==
  /\ rec.pc = "unfinalize" /\ rec'.pc = "idle" /\ clawCache' = clawCache
  /\ claw # NoObj
  /\ claw' = IF claw.deleting THEN NoObj ELSE [claw EXCEPT !.finalizer = FALSE]
FateDelete ==
  /\ rec' = rec /\ clawCache' = clawCache /\ claw # NoObj
  /\ claw' = IF claw.finalizer THEN [claw EXCEPT !.deleting = TRUE] ELSE NoObj
FateCreate ==
  /\ rec' = rec /\ clawCache' = clawCache /\ claw = NoObj
  /\ Fated(claw') /\ claw'.uid = uids + 1 /\ ~claw'.deleting /\ ~claw'.finalizer

FateStep == \/ FateQuiet \/ FateSync \/ FateTaken \/ FateClean \/ FateArchive
            \/ FateAdd \/ FateRemove \/ FateDelete \/ FateCreate

LEMMA RecPcs ==
  ASSUME UidInv
  PROVE  /\ \A pc : Goto(pc) => rec'.pc = pc /\ rec'.claw = rec.claw
         /\ \A pc, c : rec' = [rec EXCEPT !.pc = pc, !.claw = c] => rec'.pc = pc /\ rec'.claw = c
         /\ \A pc, n : rec' = [rec EXCEPT !.pc = pc, !.next = n] => rec'.pc = pc
         /\ NextKind => rec'.pc = rec.pc
         /\ Fail \/ Done => rec'.pc = "idle"
<1>1. rec = [pc |-> rec.pc, claw |-> rec.claw, next |-> rec.next]
  BY Zenon DEF UidInv, RecInv
<1>2. ASSUME NEW pc, Goto(pc) PROVE rec'.pc = pc /\ rec'.claw = rec.claw
  BY <1>1, <1>2, Zenon DEF Goto
<1>3. ASSUME NEW pc, NEW c, rec' = [rec EXCEPT !.pc = pc, !.claw = c]
      PROVE  rec'.pc = pc /\ rec'.claw = c
  BY <1>1, <1>3, Zenon
<1>4. ASSUME NEW pc, NEW n, rec' = [rec EXCEPT !.pc = pc, !.next = n] PROVE rec'.pc = pc
  BY <1>1, <1>4, Zenon
<1>5. ASSUME NextKind PROVE rec'.pc = rec.pc
  BY <1>1, <1>5, Zenon DEF NextKind
<1>6. ASSUME Fail \/ Done PROVE rec'.pc = "idle"
  BY <1>6 DEF Fail, Done, NoRec
<1> QED
  BY <1>2, <1>3, <1>4, <1>5, <1>6, Zenon

LEMMA PlainPcs ==
  \A pc \in {"idle", "ensure", "status", "snapshot", "annotate", "prune"} :
    pc \notin Cleaning \cup {"finalizer"}
BY DEF Cleaning

LEMMA EnsureFate ==
  ASSUME UidInv, EnsureChild
  PROVE  FateQuiet
<1>1. claw' = claw /\ clawCache' = clawCache
  BY Zenon DEF EnsureChild, ensureService, ensureConfigMap, ensureServiceAccount, ensureRole,
     ensureRoleBinding, ensureNetworkPolicy, ensureIngress, ensurePDB, ensureStatefulSet,
     CreateOrUpdate, EnsureIf, cacheVars, others
<1>2. rec' = rec \/ NextKind \/ Fail
  BY ZenonT(30) DEF EnsureChild, ensureService, ensureConfigMap, ensureServiceAccount, ensureRole,
     ensureRoleBinding, ensureNetworkPolicy, ensureIngress, ensurePDB, ensureStatefulSet,
     CreateOrUpdate, EnsureIf, EnsureOwned, DeleteOwned, Create, Update, DeleteChild,
     deleteOwnedRole, deleteOwnedRoleBinding, deleteOwnedNetworkPolicy,
     deleteOwnedIngress, deleteOwnedPDB
<1>3. rec.pc = "ensure"
  BY Zenon DEF EnsureChild, ensureService, ensureConfigMap, ensureServiceAccount, ensureRole,
     ensureRoleBinding, ensureNetworkPolicy, ensureIngress, ensurePDB, ensureStatefulSet,
     CreateOrUpdate, EnsureIf, EnsureOwned, DeleteOwned, Ensuring
<1>4. rec' = rec \/ rec'.pc \in {"idle", "ensure"}
  BY <1>2, <1>3, RecPcs, Zenon
<1>5. rec' = rec \/ rec'.pc \notin Cleaning \cup {"finalizer"}
  BY <1>4, PlainPcs, Zenon
<1> QED
  BY <1>1, <1>5, Zenon DEF FateQuiet

\* The steps of the reconcile.
LEMMA StepFate ==
  ASSUME UidInv, FateInv, Step
  PROVE  FateStep
<1>1. ASSUME claw' = claw \/ (claw # NoObj /\ SameFate(claw, claw')), clawCache' = clawCache,
             rec'.pc \in {"idle", "ensure", "status", "snapshot", "annotate", "prune"}
      PROVE  FateStep
  BY <1>1, PlainPcs, Zenon DEF FateStep, FateQuiet
<1>2. \A pc, c : rec' = [rec EXCEPT !.pc = pc, !.claw = c] => rec'.pc = pc /\ rec'.claw = c
  BY RecPcs, Zenon
<1>3. \A pc : Goto(pc) => rec'.pc = pc /\ rec'.claw = rec.claw
  BY RecPcs, Zenon
<1>4. Fail \/ Done => rec'.pc = "idle"
  BY RecPcs, Zenon
<1>5. claw # NoObj => Fated(claw)
  BY Zenon DEF FateInv
<1>6. CASE Reconcile
  <2>1. clawCache' = clawCache /\ claw' = claw
    BY <1>6, Zenon DEF Reconcile, serverVars, cacheVars
  <2>2. CASE rec' = NoRec
    BY <1>1, <2>1, <2>2, Zenon DEF NoRec
  <2>3. CASE clawCache # NoObj
    BY <1>6, <2>1, <2>3, Zenon DEF Reconcile, FateStep, FateTaken
  <2> QED
    BY <1>6, <2>2, <2>3, Zenon DEF Reconcile
<1>7. CASE ensureFinalizer
  <2>1. clawCache' = clawCache /\ rec.pc = "finalizer"
    BY <1>7, Zenon DEF ensureFinalizer, cacheVars
  <2>2. CASE claw' = claw /\ (Fail \/ Goto("ensure"))
    BY <1>1, <1>3, <1>4, <2>1, <2>2, Zenon
  <2>3. CASE /\ claw # NoObj /\ ~claw.deleting /\ claw' = [claw EXCEPT !.finalizer = TRUE]
             /\ rec' = [rec EXCEPT !.pc = "ensure", !.claw = claw']
    <3>1. rec'.pc = "ensure"
      BY <1>2, <2>3, Zenon
    <3> QED
      BY <2>1, <2>3, <3>1, Zenon DEF FateStep, FateAdd
  <2> QED
    BY <1>7, <2>2, <2>3, Zenon DEF ensureFinalizer
<1>8. CASE ensurePVCOwnerReferences
  <2>1. claw' = claw /\ clawCache' = clawCache /\ (Goto("status") \/ Fail)
    BY <1>8, Zenon DEF ensurePVCOwnerReferences, PatchOwners, cacheVars
  <2> QED
    BY <1>1, <1>3, <1>4, <2>1, Zenon
<1>9. CASE updateStatus
  <2>1. clawCache' = clawCache
    BY <1>9, Zenon DEF updateStatus, cacheVars
  <2>2. CASE claw' = claw /\ (Fail \/ Done)
    BY <1>1, <1>4, <2>1, <2>2, Zenon
  <2>3. CASE \E phase, rev : /\ claw # NoObj
                             /\ claw' = [claw EXCEPT !.phase = phase, !.observed = rev]
                             /\ rec' \in {NoRec, [rec EXCEPT !.pc = "snapshot", !.claw = claw']}
    <3>1. PICK phase, rev : /\ claw # NoObj
                            /\ claw' = [claw EXCEPT !.phase = phase, !.observed = rev]
                            /\ rec' \in {NoRec, [rec EXCEPT !.pc = "snapshot", !.claw = claw']}
      BY <2>3, Zenon
    <3>2. SameFate(claw, claw')
      BY <1>5, <3>1, FateWrites, Zenon
    <3>3. rec'.pc \in {"idle", "snapshot"}
      BY <1>2, <1>4, <3>1, Zenon DEF Done
    <3> QED
      BY <1>1, <2>1, <3>1, <3>2, <3>3, Zenon
  <2> QED
    BY <1>9, <2>2, <2>3, ZenonT(30) DEF updateStatus
<1>10. CASE SnapshotCreate
  <2>1. claw' = claw /\ clawCache' = clawCache
    BY <1>10, Zenon DEF SnapshotCreate, cacheVars
  <2>2. Done \/ rec' = [rec EXCEPT !.pc = "annotate", !.next = time]
    BY <1>10, Zenon DEF SnapshotCreate
  <2>3. rec'.pc \in {"idle", "annotate"}
    BY <1>4, <2>2, RecPcs, Zenon
  <2> QED
    BY <1>1, <2>1, <2>3, Zenon
<1>11. CASE SnapshotAnnotate
  <2>1. clawCache' = clawCache /\ (Goto("prune") \/ Fail)
    BY <1>11, Zenon DEF SnapshotAnnotate, cacheVars
  <2>2. claw' = claw \/ (claw # NoObj /\ claw' = [claw EXCEPT !.last = rec.next])
    BY <1>11, Zenon DEF SnapshotAnnotate
  <2>3. claw # NoObj => SameFate(claw, [claw EXCEPT !.last = rec.next])
    BY <1>5, FateWrites, Zenon
  <2>4. claw' = claw \/ (claw # NoObj /\ SameFate(claw, claw'))
    BY <2>2, <2>3, Zenon
  <2> QED
    BY <1>1, <1>3, <1>4, <2>1, <2>4, Zenon
<1>12. CASE pruneSnapshots
  BY <1>1, <1>4, <1>12, Zenon DEF pruneSnapshots, cacheVars
<1>13. CASE DeletionStart
  <2>1. claw' = claw /\ clawCache' = clawCache /\ rec.pc = "deletion"
    BY <1>13, Zenon DEF DeletionStart, serverVars, cacheVars
  <2>2. \/ Done
        \/ Goto("erase") /\ rec.claw.policy = "Delete"
        \/ Goto("archive")
        \/ Goto("release") /\ rec.claw.policy # "Archive"
    BY <1>13, Zenon DEF DeletionStart
  <2>3. CASE Done
    BY <1>1, <1>4, <2>1, <2>3, Zenon
  <2> QED
    BY <1>3, <2>1, <2>2, <2>3, Zenon DEF FateStep, FateClean
<1>14. CASE deleteClawPVCs
  BY <1>3, <1>14, Zenon DEF deleteClawPVCs, cacheVars, FateStep, FateClean
<1>15. CASE ArchivePending
  <2>1. clawCache' = clawCache /\ rec.pc = "archive"
    BY <1>15, Zenon DEF ArchivePending, cacheVars
  <2>2. CASE claw' = claw /\ Fail
    BY <1>1, <1>4, <2>1, <2>2, Zenon
  <2>3. CASE /\ claw # NoObj /\ claw = rec.claw /\ claw' = [claw EXCEPT !.archive = TRUE]
             /\ rec' = [rec EXCEPT !.pc = "release", !.claw = claw']
    <3>1. rec'.pc = "release" /\ rec'.claw = claw'
      BY <1>2, <2>3, Zenon
    <3> QED
      BY <2>1, <2>3, <3>1, Zenon DEF FateStep, FateArchive
  <2> QED
    BY <1>15, <2>2, <2>3, Zenon DEF ArchivePending
<1>16. CASE removePVCOwnerReferences
  <2>1. claw' = claw /\ clawCache' = clawCache /\ rec.pc = "release"
    BY <1>16, Zenon DEF removePVCOwnerReferences, cacheVars
  <2>2. Goto("unfinalize") \/ Fail
    BY <1>16, Zenon DEF removePVCOwnerReferences, PatchOwners
  <2>3. CASE Fail
    BY <1>1, <1>4, <2>1, <2>3, Zenon
  <2> QED
    BY <1>3, <2>1, <2>2, <2>3, Zenon DEF FateStep, FateClean
<1>17. CASE RemoveFinalizer
  <2>1. clawCache' = clawCache /\ rec.pc = "unfinalize" /\ rec'.pc = "idle"
    BY <1>4, <1>17, Zenon DEF RemoveFinalizer, cacheVars
  <2>2. CASE claw' = claw
    BY <1>1, <2>1, <2>2, Zenon
  <2>3. CASE claw # NoObj /\ claw' = IF claw.deleting THEN NoObj ELSE [claw EXCEPT !.finalizer = FALSE]
    BY <2>1, <2>3, Zenon DEF FateStep, FateRemove
  <2> QED
    BY <1>17, <2>2, <2>3, Zenon DEF RemoveFinalizer
<1> QED
  BY <1>6, <1>7, <1>8, <1>9, <1>10, <1>11, <1>12, <1>13, <1>14, <1>15, <1>16, <1>17,
     EnsureFate, Zenon DEF Step, FateStep

\* The steps of everybody else.
LEMMA OthersFate ==
  ASSUME UidInv, VolInv, FateInv, [Next]_allVars, ~Step
  PROVE  FateStep
<1>1. claw # NoObj => Fated(claw)
  BY Zenon DEF FateInv
<1>2. CASE \/ Crash \/ CollectGarbage \/ StatefulSetMakesPVC \/ Tick \/ CreateForeign
           \/ RemoveChild \/ CreateChannel \/ SyncPVC \/ SyncChannel \/ SyncSnaps
           \/ UNCHANGED allVars \/ \E k \in limit.kinds : SyncChild(k)
  <2>1. claw' = claw /\ clawCache' = clawCache /\ rec' \in {rec, NoRec}
    BY <1>2, ZenonT(30) DEF Crash, Fail, CollectGarbage, StatefulSetMakesPVC, Tick, CreateForeign,
       RemoveChild, CreateChannel, SyncPVC, SyncChannel, SyncSnaps, SyncChild, serverVars,
       cacheVars, allVars, vars
  <2>2. rec' = rec \/ rec'.pc = "idle"
    BY <2>1 DEF NoRec
  <2>3. rec' = rec \/ rec'.pc \notin Cleaning \cup {"finalizer"}
    BY <2>2, PlainPcs, Zenon
  <2> QED
    BY <2>1, <2>3, Zenon DEF FateStep, FateQuiet
<1>3. CASE SyncClaw
  BY <1>3, Zenon DEF SyncClaw, FateStep, FateSync, serverVars
<1>4. CASE EditClaw
  <2>1. claw # NoObj /\ clawCache' = clawCache /\ rec' = rec
    BY <1>4, Zenon DEF EditClaw, cacheVars
  <2>2. PICK new \in Edits(claw) :
          claw' = [new EXCEPT !.rev = @ + 1, !.steady = @ \cap Enabled(new)]
    BY <1>4, Zenon DEF EditClaw
  <2>3. (\E v : new = [claw EXCEPT !.on = v]) \/ \E v, w : new = [claw EXCEPT !.vols[v] = w]
    BY <2>2, Zenon DEF Edits
  <2>4. SameFate(claw, new)
    <3>1. CASE \E v : new = [claw EXCEPT !.on = v]
      <4>1. PICK v : new = [claw EXCEPT !.on = v]
        BY <3>1, Zenon
      <4>2. SameFate(claw, [claw EXCEPT !.on = v])
        BY <1>1, <2>1, FateWrites, Zenon
      <4> QED
        BY <4>1, <4>2, Zenon
    <3>2. CASE \E v, w : new = [claw EXCEPT !.vols[v] = w]
      <4>1. PICK v, w : new = [claw EXCEPT !.vols[v] = w]
        BY <3>2, Zenon
      <4>2. SameFate(claw, [claw EXCEPT !.vols[v] = w])
        BY <1>1, <2>1, FateWrites, Zenon
      <4> QED
        BY <4>1, <4>2, Zenon
    <3> QED
      BY <2>3, <3>1, <3>2, Zenon
  <2>5. SameFate(new, claw')
    <3>1. Fated(new)
      BY <2>4, Zenon DEF SameFate
    <3>2. SameFate(new, [new EXCEPT !.rev = new.rev + 1, !.steady = new.steady \cap Enabled(new)])
      BY <3>1, FateWrites, Zenon
    <3> QED
      BY <2>2, <3>2, Zenon
  <2>6. SameFate(claw, claw')
    BY <2>4, <2>5, Zenon DEF SameFate
  <2> QED
    BY <2>1, <2>6, Zenon DEF FateStep, FateQuiet
<1>5. CASE DeleteClaw
  BY <1>5, Zenon DEF DeleteClaw, cacheVars, FateStep, FateDelete
<1>6. CASE CreateClaw
  <2>1. claw = NoObj /\ clawCache' = clawCache /\ rec' = rec
    BY <1>6, Zenon DEF CreateClaw, cacheVars
  <2>2. PICK runtime, policy : claw' = NewClaw(uids', runtime, policy)
    BY <1>6, Zenon DEF CreateClaw
  <2>3. uids' = uids + 1
    BY <1>6, Zenon DEF CreateClaw
  <2>4. claw'.uid = uids' /\ ~claw'.deleting /\ ~claw'.finalizer
    BY <2>2, Zenon DEF NewClaw
  <2>5. Fated(claw')
    BY <2>2, Zenon DEF NewClaw, Fated, FateFields
  <2> QED
    BY <2>1, <2>3, <2>4, <2>5, Zenon DEF FateStep, FateCreate
<1>7. CASE ChannelStep \/ DeleteChannel \/ SelfStep \/ SyncConf \/ CreateConf \/ CollectConf
  <2>1. clawCache' = clawCache /\ rec' = rec /\ (claw' = claw \/ applyChanges)
    BY <1>7, Zenon DEF ChannelStep, ChannelReconcile, ChannelFinalizer, updateChannelStatus,
       ChannelInUse, ChannelRelease, ChannelOnly, DeleteChannel, Spend, SelfStep, SelfReconcile,
       SelfExpire, deny, SelfOwn, applyChanges, SelfFailed, SelfApplied, ConfOnly, SyncConf,
       CreateConf, CollectConf, vars, serverVars, childVars, cacheVars, others
  <2>2. claw' = claw \/ (claw # NoObj /\ claw' = [claw EXCEPT !.selfConfig = TRUE])
    BY <2>1, Zenon DEF applyChanges
  <2>3. claw # NoObj => SameFate(claw, [claw EXCEPT !.selfConfig = TRUE])
    BY <1>1, FateWrites, Zenon
  <2>4. claw' = claw \/ (claw # NoObj /\ SameFate(claw, claw'))
    BY <2>2, <2>3, Zenon
  <2> QED
    BY <2>1, <2>4, Zenon DEF FateStep, FateQuiet
<1> QED
  BY <1>2, <1>3, <1>4, <1>5, <1>6, <1>7, ZenonT(30) DEF Next, Lifecycle, ClawNext, Sync

LEMMA FateKeeps ==
  ASSUME ~Fated(NoObj), VolInv, FateInv, FateStep
  PROVE  FateInv'
<1>1. /\ claw # NoObj => Fated(claw) /\ (claw.deleting => claw.finalizer)
      /\ clawCache # NoObj => FateCopy(clawCache, claw)
      /\ rec.pc \in Cleaning => FateCopy(rec.claw, claw) /\ rec.claw.deleting
      /\ rec.pc = "finalizer" /\ clawCache # NoObj /\ clawCache.deleting =>
           claw # NoObj /\ claw.uid = clawCache.uid
      /\ rec.pc = "erase" => rec.claw.policy = "Delete"
      /\ rec.pc \in {"release", "unfinalize"} => Announced(rec.claw, claw)
  BY Zenon DEF FateInv
\* What a write leaves of the copies, when the reconcile goes on or stops.
<1>2. ASSUME Turns(claw, claw'), clawCache' = clawCache,
             rec' = rec \/ rec'.pc \notin Cleaning \cup {"finalizer"},
             claw' # NoObj => Fated(claw') /\ (claw'.deleting => claw'.finalizer),
             claw # NoObj /\ claw.deleting /\ rec' = rec => claw' # NoObj /\ claw'.uid = claw.uid
      PROVE  FateInv'
  <2>1. clawCache' # NoObj => FateCopy(clawCache', claw')
    BY <1>1, <1>2, CopyTurns, Zenon
  <2>2. CASE rec' = rec
    <3>1. rec'.pc \in Cleaning => FateCopy(rec'.claw, claw') /\ rec'.claw.deleting
      BY <1>1, <1>2, <2>2, CopyTurns, Zenon
    <3>2. rec'.pc \in {"release", "unfinalize"} => Announced(rec'.claw, claw')
      BY <1>1, <1>2, <2>2, CopyTurns, Zenon
    <3>3. ASSUME rec.pc = "finalizer", clawCache # NoObj, clawCache.deleting
          PROVE  claw' # NoObj /\ claw'.uid = clawCache.uid
      <4>1. claw # NoObj /\ claw.uid = clawCache.uid /\ Behind(clawCache, claw)
        BY <1>1, <3>3, Zenon DEF FateCopy
      <4>2. claw.uid \in Nat
        BY <4>1 DEF VolInv, SpecOK
      <4>3. ~(claw.uid > claw.uid)
        BY <4>2
      <4>4. claw.deleting
        BY <4>1, <4>3, Zenon DEF Behind
      <4> QED
        BY <1>2, <2>2, <4>1, <4>4, Zenon
    <3> QED
      BY <1>1, <1>2, <2>1, <2>2, <3>1, <3>2, <3>3, Zenon DEF FateInv
  <2>3. CASE rec'.pc \notin Cleaning \cup {"finalizer"}
    BY <1>2, <2>1, <2>3, Zenon DEF FateInv, Cleaning
  <2> QED
    BY <1>2, <2>2, <2>3, Zenon
<1>3. CASE FateQuiet
  <2>1. CASE claw' = claw
    BY <1>1, <1>2, <1>3, <2>1, Zenon DEF FateQuiet, Turns
  <2>2. CASE claw # NoObj /\ SameFate(claw, claw')
    <3>1. Turns(claw, claw') /\ claw' # NoObj
      BY <1>1, <2>2, FateTurns, Zenon DEF SameFate
    <3> QED
      BY <1>1, <1>2, <1>3, <2>2, <3>1, Zenon DEF FateQuiet, SameFate
  <2> QED
    BY <1>3, <2>1, <2>2, Zenon DEF FateQuiet
<1>4. CASE FateSync
  <2>1. claw # NoObj => FateCopy(claw, claw)
    BY <1>1, Zenon DEF FateCopy, Behind
  <2> QED
    BY <1>1, <1>4, <2>1, Zenon DEF FateSync, FateInv
<1>5. CASE FateTaken
  <2>1. CASE clawCache.deleting
    BY <1>1, <1>5, <2>1 DEF FateTaken, FateInv, Cleaning
  <2>2. CASE ~clawCache.deleting
    BY <1>1, <1>5, <2>2 DEF FateTaken, FateInv, Cleaning
  <2> QED
    BY <2>1, <2>2
<1>6. CASE FateClean
  <2>1. rec.pc \in Cleaning /\ rec'.pc \in Cleaning
    BY <1>6 DEF FateClean, Cleaning
  <2>2. FateCopy(rec.claw, claw) /\ rec.claw.deleting
    BY <1>1, <2>1, Zenon
  <2>3. rec.claw.policy # "Archive" => Announced(rec.claw, claw)
    BY <2>2, Zenon DEF FateCopy, Announced
  <2>4. rec'.pc \in {"release", "unfinalize"} => Announced(rec.claw, claw)
    BY <1>1, <1>6, <2>3 DEF FateClean
  <2>5. rec'.pc = "erase" => rec.claw.policy = "Delete"
    BY <1>6 DEF FateClean
  <2>6. rec'.pc # "finalizer" /\ claw' = claw /\ clawCache' = clawCache /\ rec'.claw = rec.claw
    BY <1>6 DEF FateClean
  <2> QED
    BY <1>1, <2>2, <2>4, <2>5, <2>6, Zenon DEF FateInv
<1>7. CASE FateArchive
  <2>1. claw # NoObj /\ claw' = [claw EXCEPT !.archive = TRUE] /\ Fated(claw)
    BY <1>1, <1>7, Zenon DEF FateArchive
  <2>2. claw'.archive
    BY <2>1, FateTurns, Zenon
  <2>3. Fated(claw') /\ claw'.deleting = claw.deleting /\ claw'.finalizer = claw.finalizer
    BY <2>1, Zenon DEF Fated, FateFields
  <2>4. Turns(claw, claw')
    BY <2>1, FateTurns, Zenon
  <2>5. clawCache' # NoObj => FateCopy(clawCache', claw')
    BY <1>1, <1>7, <2>4, CopyTurns, Zenon DEF FateArchive
  <2>6. rec.claw.deleting
    BY <1>1, <1>7, Zenon DEF FateArchive, Cleaning
  <2>7. FateCopy(claw', claw') /\ claw'.deleting
    BY <1>7, <2>3, <2>6, Zenon DEF FateCopy, Behind, FateArchive
  <2>8. Announced(claw', claw')
    BY <2>2, Zenon DEF Announced
  <2>9. rec'.pc = "release" /\ rec'.claw = claw'
    BY <1>7, Zenon DEF FateArchive
  <2> QED
    BY <1>1, <2>1, <2>3, <2>5, <2>7, <2>8, <2>9, Zenon DEF FateInv
<1>8. CASE FateAdd
  <2>1. claw # NoObj /\ ~claw.deleting /\ claw' = [claw EXCEPT !.finalizer = TRUE] /\ Fated(claw)
    BY <1>1, <1>8, Zenon DEF FateAdd
  <2>2. /\ Fated(claw') /\ claw'.uid = claw.uid /\ claw'.policy = claw.policy
        /\ claw'.deleting = claw.deleting
    BY <2>1, Zenon DEF Fated, FateFields
  <2>3. ASSUME clawCache # NoObj PROVE FateCopy(clawCache, claw')
    <3>1. FateCopy(clawCache, claw)
      BY <1>1, <2>3, Zenon
    <3>2. ~clawCache.deleting
      <4>1. SUFFICES ASSUME clawCache.deleting PROVE FALSE
        BY Zenon
      <4>2. claw.uid = clawCache.uid /\ Behind(clawCache, claw)
        BY <1>1, <1>8, <2>3, <3>1, <4>1, Zenon DEF FateCopy, FateAdd
      <4>3. claw.uid \in Nat
        BY <2>1 DEF VolInv, SpecOK
      <4>4. ~(claw.uid > claw.uid)
        BY <4>3
      <4> QED
        BY <2>1, <4>2, <4>4, Zenon DEF Behind
    <3> QED
      BY <2>1, <2>2, <3>1, <3>2, Zenon DEF FateCopy
  <2>4. clawCache' = clawCache /\ rec'.pc = "ensure"
    BY <1>8, Zenon DEF FateAdd
  <2>5. rec'.pc \notin Cleaning \cup {"finalizer"}
    BY <2>4, PlainPcs, Zenon
  <2> QED
    BY <2>1, <2>2, <2>3, <2>4, <2>5, Zenon DEF FateInv, Cleaning
<1>9. CASE FateRemove
  <2>1. Turns(claw, claw')
    BY <1>1, <1>9, FateTurns, Zenon DEF FateRemove, Turns
  <2>2. claw' # NoObj => Fated(claw') /\ ~claw'.deleting
    BY <1>1, <1>9, Zenon DEF FateRemove, Fated, FateFields
  <2>3. clawCache' = clawCache /\ rec'.pc = "idle"
    BY <1>9, Zenon DEF FateRemove
  <2>4. rec'.pc \notin Cleaning \cup {"finalizer"}
    BY <2>3, PlainPcs, Zenon
  <2>5. rec' # rec
    BY <1>9 DEF FateRemove
  <2> QED
    BY <1>2, <2>1, <2>2, <2>3, <2>4, <2>5, Zenon
<1>10. CASE FateDelete
  <2>1. Turns(claw, claw')
    BY <1>1, <1>10, FateTurns, Zenon DEF FateDelete, Turns
  <2>2. claw.finalizer => claw' = [claw EXCEPT !.deleting = TRUE]
    BY <1>10, Zenon DEF FateDelete
  <2>3. claw # NoObj /\ Fated(claw)
    BY <1>1, <1>10, Zenon DEF FateDelete
  <2>4. claw.finalizer => Fated(claw') /\ claw'.uid = claw.uid /\ claw'.finalizer
    BY <2>2, <2>3, Zenon DEF Fated, FateFields
  <2>5. ~claw.finalizer => claw' = NoObj
    BY <1>10, Zenon DEF FateDelete
  <2>6. claw.finalizer => claw' # NoObj
    BY <2>4, Zenon
  <2> QED
    BY <1>1, <1>2, <1>10, <2>1, <2>3, <2>4, <2>5, <2>6, Zenon DEF FateDelete
<1>11. CASE FateCreate
  <2>1. /\ rec' = rec /\ clawCache' = clawCache /\ claw = NoObj /\ Fated(claw')
        /\ claw'.uid = uids + 1 /\ ~claw'.deleting /\ ~claw'.finalizer
    BY <1>11, Zenon DEF FateCreate
  <2>2. ASSUME NEW c, SpecOK(c, uids), FateCopy(c, claw)
        PROVE  FateCopy(c, claw') /\ Announced(c, claw')
    <3>1. uids \in Nat /\ c.uid \in 1 .. uids
      BY <2>2, Zenon DEF VolInv, SpecOK
    <3>2. uids + 1 > c.uid /\ uids + 1 # c.uid
      BY <3>1
    <3> QED
      BY <2>1, <2>2, <3>2, Zenon DEF FateCopy, Behind, Announced
  <2>3. /\ clawCache # NoObj => SpecOK(clawCache, uids)
        /\ rec.pc \in Cleaning => SpecOK(rec.claw, uids)
    BY Zenon DEF VolInv, Copy, Cleaning
  <2>4. {"release", "unfinalize"} \subseteq Cleaning
    BY Zenon DEF Cleaning
  <2>5. ~(rec.pc = "finalizer" /\ clawCache # NoObj /\ clawCache.deleting)
    BY <1>1, <2>1, Zenon
  <2>6. clawCache' # NoObj => FateCopy(clawCache', claw')
    BY <1>1, <2>1, <2>2, <2>3, Zenon
  <2>7. rec'.pc \in Cleaning =>
          FateCopy(rec'.claw, claw') /\ Announced(rec'.claw, claw') /\ rec'.claw.deleting
    BY <1>1, <2>1, <2>2, <2>3, Zenon
  <2> QED
    BY <1>1, <2>1, <2>4, <2>5, <2>6, <2>7, Zenon DEF FateInv
<1> QED
  BY <1>3, <1>4, <1>5, <1>6, <1>7, <1>8, <1>9, <1>10, <1>11, Zenon DEF FateStep

LEMMA FateCorrect ==
  ASSUME ~Fated(NoObj)
  PROVE  SafetySpec => [](UidInv /\ VolInv /\ FateInv)
<1>1. UidInv /\ VolInv /\ FateInv /\ [Next]_allVars => FateInv'
  BY StepFate, OthersFate, FateKeeps, Zenon
<1>2. OperatorInit => FateInv
  BY DEF OperatorInit, Init, FateInv, NoRec, Cleaning
<1>3. (UidInv /\ ConfInv /\ VolInv /\ FateInv) /\ [Next]_allVars
        => (UidInv /\ ConfInv /\ VolInv /\ FateInv)'
  BY <1>1, OperatorStep, VolStep, Zenon
<1> QED
  BY <1>2, <1>3, OperatorInv, VolInit, PTL DEF SafetySpec

FinalizerGoes ==
  claw # NoObj /\ claw.finalizer =>
    \/ claw' # NoObj /\ claw'.uid = claw.uid /\ claw'.finalizer
    \/ /\ claw' = NoObj /\ claw.deleting
       /\ rec.pc = "unfinalize" /\ rec.claw.uid = claw.uid
       /\ claw.policy = "Archive" => claw.archive

\* A Claw with the finalizer keeps it until it is deleted and a reconcile of
\* this very Claw has come to the end of handleDeletion: no stale copy, no clean-up
\* of an earlier Claw of the name and no crash in between takes it away.  A Claw
\* under the policy Archive has announced the archive by then.
THEOREM FinalizerHolds ==
  ASSUME ~Fated(NoObj)
  PROVE  SafetySpec => [][FinalizerGoes]_allVars
<1>1. ASSUME UidInv, VolInv, FateInv, [Next]_allVars PROVE FinalizerGoes
  <2>1. FateStep
    BY <1>1, StepFate, OthersFate, Zenon
  <2>2. SUFFICES ASSUME claw # NoObj, claw.finalizer PROVE FinalizerGoes
    BY Zenon DEF FinalizerGoes
  <2>3. Fated(claw)
    BY <1>1, <2>2, Zenon DEF FateInv
  <2>4. ASSUME Fated(claw'), claw'.uid = claw.uid, claw'.finalizer PROVE FinalizerGoes
    BY <2>4, Zenon DEF FinalizerGoes
  <2>5. CASE claw' = claw
    BY <2>2, <2>3, <2>4, <2>5, Zenon
  <2>6. CASE SameFate(claw, claw')
    BY <2>2, <2>4, <2>6, Zenon DEF SameFate
  <2>7. CASE \/ claw' = [claw EXCEPT !.archive = TRUE]
             \/ claw' = [claw EXCEPT !.finalizer = TRUE]
             \/ claw' = [claw EXCEPT !.deleting = TRUE]
    <3>1. Fated(claw') /\ claw'.uid = claw.uid /\ claw'.finalizer
      BY <2>2, <2>3, <2>7, Zenon DEF Fated, FateFields
    <3> QED
      BY <2>4, <3>1, Zenon
  <2>8. CASE FateRemove
    <3>1. FateCopy(rec.claw, claw) /\ rec.claw.deleting /\ Announced(rec.claw, claw)
      BY <1>1, <2>8, Zenon DEF FateInv, FateRemove, Cleaning
    <3>2. claw.uid = rec.claw.uid /\ claw.deleting
      BY <2>2, <3>1, Zenon DEF FateCopy, Behind
    <3> QED
      BY <2>2, <2>8, <3>1, <3>2, Zenon DEF FinalizerGoes, FateRemove, Announced
  <2> QED
    BY <2>1, <2>2, <2>5, <2>6, <2>7, <2>8, Zenon DEF FateStep, FateQuiet, FateSync, FateTaken,
       FateClean, FateArchive, FateAdd, FateDelete, FateCreate
<1>2. UidInv /\ VolInv /\ FateInv /\ [Next]_allVars => [FinalizerGoes]_allVars
  BY <1>1, Zenon
<1> QED
  BY <1>2, FateCorrect, PTL DEF SafetySpec

\* deleteClawPVCs works only for a Claw whose deletion was asked for under the
\* policy Delete, and the Claw of that name in the cluster is then this one, still
\* under that policy, or a later one whose first reconcile is still to come.
THEOREM EraseIsAsked ==
  ASSUME ~Fated(NoObj)
  PROVE  SafetySpec => [](rec.pc = "erase" =>
           /\ rec.claw.deleting /\ rec.claw.policy = "Delete"
           /\ claw # NoObj =>
                \/ claw.uid = rec.claw.uid /\ claw.deleting /\ claw.policy = "Delete"
                \/ claw.uid > rec.claw.uid /\ ~claw.finalizer)
<1>1. FateInv => (rec.pc = "erase" =>
           /\ rec.claw.deleting /\ rec.claw.policy = "Delete"
           /\ claw # NoObj =>
                \/ claw.uid = rec.claw.uid /\ claw.deleting /\ claw.policy = "Delete"
                \/ claw.uid > rec.claw.uid /\ ~claw.finalizer)
  BY Zenon DEF FateInv, FateCopy, Behind, Cleaning
<1> QED
  BY <1>1, FateCorrect, PTL
=============================================================================
