-------------------------- MODULE AutoUpdateProofs --------------------------
(***************************************************************************)
(* The safety properties of AutoUpdate, for every set of versions, every   *)
(* number of replicas and rollbacks, and any number of lost status writes. *)
(***************************************************************************)
EXTENDS AutoUpdate, TLAPS

(***************************************************************************)
(* OpenIsQuiet and CurrentGrows speak of the status that is stored; a step *)
(* that stores a pending one needs to know the same of that.               *)
(***************************************************************************)
\* The status that a completed second call leaves behind.
Latest == IF pending = NoStatus THEN status ELSE pending

\* No update runs while the circuit is open, in the stored status or the next.
Quiet == (status.open \/ Latest.open) => ~ann.phase

\* An update goes up, and the status that is still to be written never goes down.
Upward ==
  /\ ann.phase => ann.target > status.current /\ Latest.current = status.current
  /\ Latest.current >= status.current

\* As long as no write was lost the status agrees with what really happened.
Faithful ==
  lost = 0 =>
    /\ Latest.failed = reverted
    /\ Latest.rollbacks = streak
    /\ ann.phase => Latest.available = ann.target
    /\ streak >= MaxRollbacks => Latest.open
    /\ streak <= MaxRollbacks

IInv == TypeOK /\ Quiet /\ Upward /\ Faithful

-----------------------------------------------------------------------------
\* Versions are numbers, and so is the empty one.
LEMMA ImageNat == Image \subseteq Nat
  BY UpdateAssumption DEF Image

\* The status after a check: a status, with a new lastCheck and available.
LEMMA AfterCheckFields ==
  ASSUME TypeOK, NEW v \in Versions
  PROVE  /\ AfterCheck(v) \in Status
         /\ AfterCheck(v).current = status.current
         /\ AfterCheck(v).available = v
         /\ AfterCheck(v).rollbacks = status.rollbacks
         /\ AfterCheck(v).open = status.open
         /\ AfterCheck(v).failed = status.failed
<1>1. status \in Status /\ tick \in Nat /\ v \in Image
  BY UpdateAssumption DEF TypeOK, Image
<1> QED
  BY <1>1, Zenon DEF AfterCheck, Status

\* The status after a passed health check.
LEMMA AfterPassFields ==
  ASSUME TypeOK
  PROVE  /\ AfterPass \in Status
         /\ AfterPass.current = ann.target
         /\ AfterPass.rollbacks = 0
         /\ AfterPass.open = FALSE
         /\ AfterPass.failed = status.failed
<1>1. status \in Status /\ ann.target \in Image /\ 0 \in Nat
  BY DEF TypeOK
<1> QED
  BY <1>1, Zenon DEF AfterPass, Status

\* The status after a rollback.
LEMMA AfterRollbackFields == TypeOK =>
  /\ AfterRollback \in Status
  /\ AfterRollback.current = status.current
  /\ AfterRollback.failed = status.failed \cup {status.available}
  /\ AfterRollback.rollbacks = status.rollbacks + 1
  /\ AfterRollback.open = (status.open \/ status.rollbacks + 1 >= MaxRollbacks)
<1> HAVE TypeOK
<1> DEFINE f == status.failed \cup {status.available}
           k == status.rollbacks + 1
           b == status.open \/ status.rollbacks + 1 >= MaxRollbacks
<1>1. status \in Status /\ f \in SUBSET Image /\ k \in Nat
  BY DEF TypeOK, Status
<1>2. b \in BOOLEAN
  OBVIOUS
<1>3. AfterRollback = [status EXCEPT !.failed = f, !.rollbacks = k, !.open = b]
  BY <1>1, Zenon DEF AfterRollback, Status
<1> HIDE DEF f, k, b
<1>4. /\ AfterRollback \in Status
      /\ AfterRollback.current = status.current
      /\ AfterRollback.failed = f
      /\ AfterRollback.rollbacks = k /\ AfterRollback.open = b
  BY <1>1, <1>2, <1>3, Zenon DEF Status
<1> QED
  BY <1>4, Zenon DEF f, k, b

\* The first state: nothing checked, nothing running.
LEMMA InitInv == Init => IInv
  BY UpdateAssumption, NoStatusAssumption
     DEF Init, IInv, TypeOK, Quiet, Upward, Faithful, Latest, Status, Image, Pod, NoImage

\* Every step keeps the variables' types.
LEMMA TypeStep == TypeOK /\ [Next]_vars => TypeOK'
<1> SUFFICES ASSUME TypeOK, [Next]_vars PROVE TypeOK'
  OBVIOUS
<1> USE UpdateAssumption, NoStatusAssumption
<1>1. CASE CheckOnly
  <2>1. status' \in Status
    <3>1. CASE status' = [status EXCEPT !.lastCheck = tick]
      BY <3>1 DEF TypeOK, Status
    <3> QED
      BY <1>1, <3>1, AfterCheckFields DEF CheckOnly
  <2> QED
    BY <1>1, <2>1 DEF CheckOnly, TypeOK, set, history
<1>2. ASSUME NEW v \in Versions, Start(v) PROVE TypeOK'
  BY <1>2, AfterCheckFields DEF Start, TypeOK, Image, set, history
<1>3. CASE Pass
  BY <1>3, AfterPassFields, Zenon DEF Pass, Cleared, TypeOK, set
<1>4. CASE Rollback
  <2>1. pending' \in Status
    BY <1>4, AfterRollbackFields DEF Rollback
  <2>2. ann' \in [target : Image, phase : BOOLEAN, late : BOOLEAN] /\ ~ann'.late
    BY <1>4 DEF Rollback, Cleared, Image
  <2>3. reverted' \subseteq Image /\ streak' \in Nat
    BY <1>4 DEF Rollback, TypeOK
  <2> QED
    BY <1>4, <2>1, <2>2, <2>3 DEF Rollback, TypeOK, set
<1>5. CASE WriteStatus
  BY <1>5 DEF WriteStatus, TypeOK, set, history
<1>6. CASE LoseStatus
  BY <1>6 DEF LoseStatus, TypeOK, set
<1>7. CASE EnsureStatefulSet
  BY <1>7 DEF EnsureStatefulSet, TypeOK, claw, history
<1>8. CASE Observe
  BY <1>8 DEF Observe, TypeOK, claw, history
<1>9. ASSUME NEW p \in Pod, Replace(p) \/ PodReady(p) PROVE TypeOK'
  <2> DEFINE PodState == [image : Image \cup {NoImage}, ready : BOOLEAN]
  <2>1. pods \in [Pod -> PodState] /\ seen \in Image \cup {NoImage}
    BY DEF TypeOK
  <2>2. CASE Replace(p)
    BY <2>1, <2>2, Zenon DEF Replace, TypeOK, claw, history
  <2>3. CASE PodReady(p)
    <3>1. [pods[p] EXCEPT !.ready = TRUE] \in PodState
      BY <2>1, Zenon
    <3>2. pods' = [pods EXCEPT ![p] = [pods[p] EXCEPT !.ready = TRUE]]
      BY <2>3 DEF PodReady
    <3>3. pods' \in [Pod -> PodState]
      BY <2>1, <3>1, <3>2
    <3> QED
      BY <2>3, <3>3, Zenon DEF PodReady, TypeOK, claw, history
  <2> QED
    BY <1>9, <2>2, <2>3
<1>10. ASSUME NEW v \in Versions, Publish(v) PROVE TypeOK'
  BY <1>10 DEF Publish, TypeOK, claw, set, history
<1>11. CASE CronTick
  BY <1>11 DEF CronTick, TypeOK, claw, set, history
<1>12. CASE HealthTimeout
  BY <1>12, Zenon DEF HealthTimeout, TypeOK, set, history
<1>13. CASE UNCHANGED vars
  BY <1>13 DEF vars, claw, set, history, TypeOK
<1> QED
  BY <1>1, <1>2, <1>3, <1>4, <1>5, <1>6, <1>7, <1>8, <1>9, <1>10, <1>11, <1>12,
     <1>13 DEF Next, Reconcile

\* Every step keeps an open circuit quiet.
LEMMA QuietStep == TypeOK /\ Quiet /\ [Next]_vars => Quiet'
<1> SUFFICES ASSUME TypeOK, Quiet, [Next]_vars PROVE Quiet'
  OBVIOUS
<1> USE NoStatusAssumption DEF Quiet, Latest
<1>1. CASE CheckOnly
  BY <1>1 DEF CheckOnly, CheckDue, Idle
<1>2. ASSUME NEW v \in Versions, Start(v) PROVE Quiet'
  BY <1>2, AfterCheckFields DEF Start, CircuitClosed
<1>3. CASE Pass
  BY <1>3 DEF Pass, Cleared
<1>4. CASE Rollback
  BY <1>4 DEF Rollback, Cleared
<1>5. CASE WriteStatus
  BY <1>5 DEF WriteStatus
<1>6. CASE LoseStatus
  BY <1>6 DEF LoseStatus
<1>7. CASE HealthTimeout
  BY <1>7 DEF HealthTimeout, TypeOK
<1>8. CASE UNCHANGED claw
  BY <1>8 DEF claw
<1> QED
  BY <1>1, <1>2, <1>3, <1>4, <1>5, <1>6, <1>7, <1>8, Zenon
     DEF Next, Reconcile, EnsureStatefulSet, Observe, Replace, PodReady, Publish,
         CronTick, vars

\* Every step keeps updates going up, and never lowers the recorded version.
LEMMA UpwardStep ==
  TypeOK /\ Upward /\ [Next]_vars => Upward' /\ status'.current >= status.current
<1> SUFFICES ASSUME TypeOK, Upward, [Next]_vars
             PROVE  Upward' /\ status'.current >= status.current
  OBVIOUS
<1> USE UpdateAssumption, NoStatusAssumption DEF Upward, Latest
<1>0. status \in Status /\ status.current \in Nat /\ ann.target \in Nat
  <2>1. status \in Status /\ status.current \in Image /\ ann.target \in Image
    BY DEF TypeOK, Status
  <2> QED
    BY <2>1, ImageNat, Zenon
<1>1. CASE CheckOnly
  BY <1>0, <1>1, AfterCheckFields DEF CheckOnly, CheckDue, Idle, Status
<1>2. ASSUME NEW v \in Versions, Start(v)
      PROVE  Upward' /\ status'.current >= status.current
  BY <1>0, <1>2, AfterCheckFields DEF Start, Best, Candidates
<1>3. CASE Pass
  BY <1>0, <1>3, AfterPassFields DEF Pass, Cleared, Checking
<1>4. CASE Rollback
  BY <1>0, <1>4, AfterRollbackFields DEF Rollback, Cleared
<1>5. CASE WriteStatus
  <2>1. pending \in Status /\ pending.current \in Image
    BY <1>5, Zenon DEF WriteStatus, TypeOK, Status
  <2>2. pending.current \in Nat
    BY <2>1, ImageNat, Zenon
  <2> QED
    BY <1>0, <1>5, <2>2 DEF WriteStatus
<1>6. CASE LoseStatus
  BY <1>0, <1>6 DEF LoseStatus
<1>7. CASE HealthTimeout
  BY <1>0, <1>7 DEF HealthTimeout, TypeOK
<1>8. CASE UNCHANGED claw
  BY <1>0, <1>8 DEF claw
<1> QED
  BY <1>1, <1>2, <1>3, <1>4, <1>5, <1>6, <1>7, <1>8, Zenon
     DEF Next, Reconcile, EnsureStatefulSet, Observe, Replace, PodReady, Publish,
         CronTick, vars

\* Every step keeps the status faithful while no write is lost.
LEMMA FaithfulStep == TypeOK /\ Quiet /\ Faithful /\ [Next]_vars => Faithful'
<1> SUFFICES ASSUME TypeOK, Quiet, Faithful, [Next]_vars PROVE Faithful'
  OBVIOUS
<1> USE UpdateAssumption, NoStatusAssumption DEF Faithful, Latest
<1>0. status \in Status /\ streak \in Nat /\ lost \in Nat
  BY DEF TypeOK
<1>1. CASE CheckOnly
  BY <1>0, <1>1, AfterCheckFields DEF CheckOnly, CheckDue, Idle, Status, history
<1>2. ASSUME NEW v \in Versions, Start(v) PROVE Faithful'
  BY <1>0, <1>2, AfterCheckFields, Zenon DEF Start, CheckDue, Idle, history
<1>3. CASE Pass
  BY <1>0, <1>3, AfterPassFields DEF Pass, Cleared, Checking
<1>4. CASE Rollback
  <2> SUFFICES ASSUME lost = 0 PROVE Faithful'
    BY <1>4 DEF Rollback
  <2>1. /\ pending = NoStatus /\ ann.phase /\ ~status.open
        /\ status.failed = reverted /\ status.rollbacks = streak
        /\ status.available = ann.target /\ streak < MaxRollbacks
    BY <1>0, <1>4 DEF Rollback, Checking, Quiet
  <2>2. /\ pending' \in Status
        /\ pending'.failed = status.failed \cup {status.available}
        /\ pending'.rollbacks = status.rollbacks + 1
        /\ pending'.open = (status.open \/ status.rollbacks + 1 >= MaxRollbacks)
    BY <1>4, AfterRollbackFields, Zenon DEF Rollback
  <2>3. pending' # NoStatus /\ ~ann'.phase
    BY <1>4, <2>2, Zenon DEF Rollback, Cleared
  <2>4. reverted' = reverted \cup {ann.target} /\ streak' = streak + 1
    BY <1>4 DEF Rollback
  <2>5. streak' >= MaxRollbacks => pending'.open
    BY <2>1, <2>2, <2>4, Zenon
  <2> QED
    BY <1>0, <2>1, <2>2, <2>3, <2>4, <2>5
<1>5. CASE WriteStatus
  BY <1>0, <1>5, Zenon DEF WriteStatus, TypeOK, history
<1>6. CASE LoseStatus
  BY <1>0, <1>6 DEF LoseStatus
<1>7. CASE HealthTimeout
  BY <1>0, <1>7 DEF HealthTimeout, TypeOK, history
<1>8. CASE UNCHANGED <<claw, history>>
  BY <1>0, <1>8 DEF claw, history
<1> QED
  BY <1>1, <1>2, <1>3, <1>4, <1>5, <1>6, <1>7, <1>8, Zenon
     DEF Next, Reconcile, EnsureStatefulSet, Observe, Replace, PodReady, Publish,
         CronTick, vars

-----------------------------------------------------------------------------
\* The inductive invariant holds in every reachable state.
THEOREM UpdateInvariant == Spec => []IInv
<1>1. IInv /\ [Next]_vars => IInv'
  BY TypeStep, QuietStep, UpwardStep, FaithfulStep DEF IInv
<1> QED
  BY InitInv, <1>1, PTL DEF Spec

\* The variables keep their types.
THEOREM UpdateTypeCorrect == Spec => []TypeOK
<1>1. IInv => TypeOK
  BY DEF IInv
<1> QED
  BY UpdateInvariant, <1>1, PTL

\* No update is under way while the circuit is open, whatever writes are lost.
THEOREM OpenIsQuietCorrect == Spec => []OpenIsQuiet
<1>1. IInv => OpenIsQuiet
  BY DEF IInv, Quiet, OpenIsQuiet
<1> QED
  BY UpdateInvariant, <1>1, PTL

\* Exactly the versions that were rolled back are skipped, if no write is lost.
THEOREM FailedIsRevertedCorrect == Spec => []FailedIsReverted
<1>1. IInv => FailedIsReverted
  BY DEF IInv, Faithful, Latest, FailedIsReverted
<1> QED
  BY UpdateInvariant, <1>1, PTL

\* At most maxRollbacks rollbacks in a row, if no write is lost.
THEOREM BreakerCorrect == Spec => []BreakerHolds
<1>1. IInv => BreakerHolds
  BY DEF IInv, Faithful, BreakerHolds
<1> QED
  BY UpdateInvariant, <1>1, PTL

\* The recorded version never goes back, whatever writes are lost.
THEOREM CurrentGrowsCorrect == Spec => CurrentGrows
<1>1. IInv /\ [Next]_vars => [status'.current >= status.current]_vars
  BY UpwardStep DEF IInv
<1> QED
  BY UpdateInvariant, <1>1, PTL DEF Spec, CurrentGrows

-----------------------------------------------------------------------------
(* What an update starts from, and that a version that was rolled back does  *)
(* not come back.                                                            *)

\* A step that starts an update is Start.
LEMMA StartsByStart ==
  ASSUME TypeOK, [Next]_vars, ~ann.phase, ann'.phase
  PROVE  \E v \in Versions : Start(v) /\ ann'.target = v
<1>1. ~Pass /\ ~Rollback /\ ~HealthTimeout
  BY Zenon DEF Pass, Rollback, HealthTimeout, Checking
<1>2. ~CheckOnly /\ ~WriteStatus /\ ~LoseStatus /\ ~UNCHANGED claw
  BY Zenon DEF CheckOnly, WriteStatus, LoseStatus, claw
<1>3. \E v \in Versions : Start(v)
  BY <1>1, <1>2, Zenon
     DEF Next, Reconcile, EnsureStatefulSet, Observe, Replace, PodReady, Publish,
         CronTick, vars
<1>4. \A v \in Versions : Start(v) => ann'.target = v
  BY DEF Start
<1> QED
  BY <1>3, <1>4, Zenon

\* An update starts only towards a published version inside the constraint that
\* is newer than the recorded one and only with a closed circuit; if no status
\* write was lost it is a version that was never rolled back, after fewer than
\* maxRollbacks rollbacks in a row (initiateUpdate, ResolveBestVersion).
THEOREM StartsFresh ==
  Spec => [][~ann.phase /\ ann'.phase =>
               /\ ann'.target \in published \cap Allowed
               /\ ann'.target > status.current /\ ~status.open
               /\ lost = 0 => ann'.target \notin reverted /\ streak < MaxRollbacks]_vars
<1>1. ASSUME IInv, [Next]_vars, ~ann.phase, ann'.phase
      PROVE  /\ ann'.target \in published \cap Allowed
             /\ ann'.target > status.current /\ ~status.open
             /\ lost = 0 => ann'.target \notin reverted /\ streak < MaxRollbacks
  <2>1. PICK v \in Versions : Start(v) /\ ann'.target = v
    BY <1>1, StartsByStart, Zenon DEF IInv
  <2>2. /\ v \in published \cap Allowed /\ v \notin status.failed /\ v > status.current
        /\ ~status.open /\ pending = NoStatus
    BY <2>1, Zenon DEF Start, Best, Candidates, CircuitClosed, CheckDue, Idle
  <2>3. lost = 0 => /\ status.failed = reverted
                    /\ streak >= MaxRollbacks => status.open
    BY <1>1, <2>2, Zenon DEF IInv, Faithful, Latest
  <2>4. ~(streak >= MaxRollbacks) => streak < MaxRollbacks
    BY <1>1, UpdateAssumption DEF IInv, TypeOK
  <2> QED
    BY <2>1, <2>2, <2>3, <2>4, Zenon
<1> QED
  BY <1>1, UpdateInvariant, PTL DEF Spec

\* Neither the recorded version, nor the one still to be recorded, nor the
\* target of an update that is under way was ever rolled back.
Forward ==
  lost = 0 => /\ status.current \notin reverted /\ Latest.current \notin reverted
              /\ ann.phase => ann.target \notin reverted

LEMMA ForwardStep == IInv /\ Forward /\ [Next]_vars => Forward'
<1> SUFFICES ASSUME IInv, Forward, [Next]_vars PROVE Forward'
  OBVIOUS
<1> USE NoStatusAssumption DEF Forward, Latest
<1>0. TypeOK /\ status \in Status
  BY Zenon DEF IInv, TypeOK
<1>1. CASE CheckOnly
  <2>1. UNCHANGED <<ann, pending, lost, reverted>> /\ status'.current = status.current
    <3>1. [status EXCEPT !.lastCheck = tick].current = status.current
      BY <1>0, Zenon DEF Status
    <3> QED
      BY <1>0, <1>1, <3>1, AfterCheckFields, Zenon DEF CheckOnly, history
  <2>2. pending = NoStatus
    BY <1>1, Zenon DEF CheckOnly, CheckDue, Idle
  <2> QED
    BY <2>1, <2>2, Zenon
<1>2. ASSUME NEW v \in Versions, Start(v) PROVE Forward'
  <2>1. /\ UNCHANGED <<status, lost, reverted>> /\ pending = NoStatus
        /\ pending'.current = status.current /\ ann'.target = v
    BY <1>0, <1>2, AfterCheckFields, Zenon DEF Start, CheckDue, Idle, history
  <2>2. lost = 0 => v \notin reverted
    BY <1>2, <2>1, Zenon DEF Start, Best, Candidates, IInv, Faithful
  <2> QED
    BY <2>1, <2>2, Zenon
<1>3. CASE Pass
  <2>1. /\ UNCHANGED <<status, lost, reverted>> /\ ~ann'.phase /\ ann.phase
        /\ pending'.current = ann.target
    BY <1>0, <1>3, AfterPassFields, Zenon DEF Pass, Cleared, Checking
  <2> QED
    BY <2>1, Zenon
<1>4. CASE Rollback
  <2>1. /\ UNCHANGED <<status, lost>> /\ ~ann'.phase /\ ann.phase /\ pending = NoStatus
        /\ reverted' = reverted \cup {ann.target} /\ pending'.current = status.current
    BY <1>0, <1>4, AfterRollbackFields, Zenon DEF Rollback, Cleared, Checking
  <2>2. status.current # ann.target
    <3>1. ann.target > status.current
      BY <2>1, Zenon DEF IInv, Upward
    <3>2. status.current \in Nat
      BY <1>0, ImageNat, Zenon DEF Status
    <3> QED
      BY <3>1, <3>2
  <2> QED
    BY <2>1, <2>2, Zenon
<1>5. CASE WriteStatus
  BY <1>5, Zenon DEF WriteStatus, history
<1>6. CASE LoseStatus
  <2>1. lost' # 0
    BY <1>0, <1>6, UpdateAssumption DEF LoseStatus, TypeOK
  <2> QED
    BY <2>1, Zenon
<1>7. CASE HealthTimeout
  <2>1. UNCHANGED <<status, pending, lost, reverted>> /\ ann'.target = ann.target /\ ann.phase
    BY <1>0, <1>7, Zenon DEF HealthTimeout, TypeOK, history
  <2> QED
    BY <2>1, Zenon
<1>8. CASE UNCHANGED <<claw, history>>
  BY <1>8, Zenon DEF claw, history
<1> QED
  BY <1>1, <1>2, <1>3, <1>4, <1>5, <1>6, <1>7, <1>8, Zenon
     DEF Next, Reconcile, EnsureStatefulSet, Observe, Replace, PodReady, Publish,
         CronTick, vars

\* As long as no status write is lost, a version that was rolled back never
\* becomes the recorded version and never is the target of another update.
THEOREM NeverBack ==
  Spec => [](lost = 0 => /\ status.current \notin reverted
                         /\ ann.phase => ann.target \notin reverted)
<1>1. Init => Forward
  BY Zenon DEF Init, Forward, Latest
<1>2. Forward => (lost = 0 => /\ status.current \notin reverted
                              /\ ann.phase => ann.target \notin reverted)
  BY Zenon DEF Forward
<1> QED
  BY <1>1, <1>2, ForwardStep, UpdateInvariant, PTL DEF Spec
=============================================================================
