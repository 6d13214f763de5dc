---------------------------- MODULE ClawOpsProofs ----------------------------
(***************************************************************************)
(* Proofs about ClawOps for any pods, limits and bounds: only what was     *)
(* decided is carried out, an outcome is never overwritten, and automatic  *)
(* actions keep to their budget.  The first inductive invariant follows an *)
(* approved action through every copy that is taken of it: escalation,     *)
(* cached list, list of the running reconcile, annotation, cached          *)
(* annotation, base of the consumer.                                       *)
(***************************************************************************)
EXTENDS ClawOps, FiniteSetTheorems, TLAPS

\* Records and functions have their fields, whatever the fields hold.
Shape(e) ==
  e = [phase |-> e.phase, type |-> e.type, action |-> e.action, born |-> e.born]

ClawShape == claw = [intent |-> claw.intent, gen |-> claw.gen]
OpsShape == ops = [pc |-> ops.pc, todo |-> ops.todo, list |-> ops.list,
                   base |-> ops.base, auto |-> ops.auto, jobs |-> ops.jobs,
                   id |-> ops.id]

Shapes ==
  /\ ClawShape /\ OpsShape /\ nEsc \in Nat
  /\ esc = [i \in Ids |-> esc[i]] /\ \A i \in Ids : Shape(esc[i])

\* An approval was given by a human, in the escalation and in copies of it.
Backed(e) == e.phase = "Approved" => e.action \in decided

EscInv == \A i \in Ids : /\ Backed(esc[i]) /\ Backed(escCache[i])
                         /\ i > nEsc => esc[i] = Absent

\* What processApprovedEscalations still has to do.
TodoInv ==
  /\ ops.pc \in {"approve", "execute"} =>
       \A i \in ops.todo : /\ i \in Ids /\ ops.list[i].phase = "Approved"
                           /\ ops.list[i].action \in decided
  /\ ops.pc = "execute" => ops.id \in ops.todo

\* An annotation that would be carried out was decided.
Sound(intent) == intent = None \/ intent.action = "garbage" \/ intent \in decided

IntentInv ==
  /\ Sound(claw.intent) /\ Sound(clawCache.intent)
  /\ consumer.pc = "delete" => consumer.base.intent.action = "restart"
  /\ consumer.pc \in {"delete", "patch"} =>
       consumer.base.intent # None /\ Sound(consumer.base.intent)

WatchInv == watch # NoWatch => watch.id \in Ids /\ watch.copy.phase = "Analyzing"

OpsInv == Shapes /\ EscInv /\ TodoInv /\ IntentInv /\ WatchInv /\ OnlyDecided

\* What a step may do to the escalations.
EscStep ==
  /\ esc' = [i \in Ids |-> esc'[i]] /\ nEsc' \in Nat /\ nEsc' >= nEsc
  /\ \A i \in Ids :
       \/ esc'[i] \in {esc[i], Absent}
       \/ /\ ~IsTerminalPhase(esc[i].phase)
          /\ Shape(esc'[i]) /\ Backed(esc[i])' /\ i <= nEsc'

\* What a step may do to the history.
HistStep == decided \subseteq decided' /\ applied' \subseteq applied \cup decided

-----------------------------------------------------------------------------
LEMMA OpsInit == Init => OpsInv
<1> SUFFICES ASSUME Init PROVE OpsInv
  OBVIOUS
<1>1. Shapes
  BY Zenon DEF Init, Shapes, ClawShape, OpsShape, Shape, Absent, NoOps
<1>2. EscInv /\ TodoInv /\ WatchInv /\ OnlyDecided
  BY Zenon DEF Init, EscInv, Backed, Absent, TodoInv, NoOps, WatchInv, OnlyDecided
<1>3. IntentInv
  BY DEF Init, IntentInv, Sound, NoConsumer
<1> QED
  BY <1>1, <1>2, <1>3 DEF OpsInv

-----------------------------------------------------------------------------
(* The conjuncts, one at a time: what a step has to do to keep them.       *)

LEMMA EscKeeps ==
  ASSUME OpsInv, EscStep, HistStep, escCache' \in {escCache, esc}
  PROVE  EscInv' /\ (\A i \in Ids : Shape(esc[i]))'
<1>1. ASSUME NEW i \in Ids
      PROVE  Backed(esc[i])' /\ Shape(esc'[i]) /\ (i > nEsc' => esc'[i] = Absent)
  <2>1. CASE esc'[i] \in {esc[i], Absent}
    <3>1. Backed(esc[i]) /\ Shape(esc[i]) /\ (i > nEsc => esc[i] = Absent)
      BY DEF OpsInv, EscInv, Shapes
    <3>2. Shape(Absent) /\ Absent.phase # "Approved"
      BY DEF Shape, Absent
    <3>3. nEsc' >= nEsc /\ nEsc \in Nat /\ nEsc' \in Nat /\ i \in Nat
      BY DEF EscStep, OpsInv, Shapes, Ids
    <3> QED
      BY <2>1, <3>1, <3>2, <3>3 DEF HistStep, Backed
  <2>2. CASE ~(esc'[i] \in {esc[i], Absent})
    <3>1. Shape(esc'[i]) /\ Backed(esc[i])' /\ i <= nEsc'
      BY <2>2 DEF EscStep
    <3>2. nEsc' \in Nat /\ i \in Nat
      BY DEF EscStep, Ids
    <3> QED
      BY <3>1, <3>2
  <2> QED
    BY <2>1, <2>2
<1>2. \A i \in Ids : Backed(escCache[i])'
  BY DEF OpsInv, EscInv, HistStep, Backed
<1> QED
  BY <1>1, <1>2 DEF EscInv

LEMMA TodoKeeps ==
  ASSUME OpsInv, HistStep,
         \/ UNCHANGED ops
         \/ ops'.pc \notin {"approve", "execute"}
  PROVE  TodoInv'
BY Zenon DEF OpsInv, TodoInv, HistStep

LEMMA IntentKeeps ==
  ASSUME OpsInv, HistStep, claw'.intent = claw.intent \/ Sound(claw.intent)',
         clawCache' \in {clawCache, claw},
         UNCHANGED consumer \/ consumer' = NoConsumer
  PROVE  IntentInv'
BY DEF OpsInv, IntentInv, Sound, HistStep, NoConsumer

LEMMA HistKeeps ==
  ASSUME OpsInv, HistStep
  PROVE  OnlyDecided'
BY DEF OpsInv, OnlyDecided, HistStep

\* A step that leaves the escalations alone.
LEMMA EscSame ==
  ASSUME OpsInv, UNCHANGED <<esc, nEsc>>
  PROVE  EscStep
BY DEF OpsInv, Shapes, EscStep

LEMMA AbsentPhase == Absent.phase = "absent"
BY DEF Absent

\* A step that changes one escalation which has no outcome yet.
LEMMA EscOne ==
  ASSUME OpsInv, NEW i \in Ids, NEW e, esc' = [esc EXCEPT ![i] = e], nEsc' = nEsc,
         esc[i] # Absent, ~IsTerminalPhase(esc[i].phase),
         Shape(e), e.phase = "Approved" => e.action \in decided'
  PROVE  EscStep
<1>1. i <= nEsc
  <2>1. (i > nEsc => esc[i] = Absent) /\ nEsc \in Nat /\ i \in Nat
    BY DEF OpsInv, EscInv, Shapes, Ids
  <2> QED
    BY <2>1
<1>2. /\ \A j \in Ids : j # i => esc'[j] = esc[j]
      /\ esc'[i] = e /\ esc' = [j \in Ids |-> esc'[j]]
  BY DEF OpsInv, Shapes
<1>3. Backed(esc[i])' /\ Shape(esc'[i])
  BY <1>2 DEF Backed
<1> QED
  BY <1>1, <1>2, <1>3 DEF OpsInv, Shapes, EscStep, IsTerminalPhase

\* A step keeps the invariant when it keeps its parts.
LEMMA Together ==
  ASSUME OpsInv, EscStep, HistStep, escCache' \in {escCache, esc},
         ClawShape', OpsShape', TodoInv', IntentInv', WatchInv'
  PROVE  OpsInv'
<1>1. nEsc' \in Nat /\ esc' = [i \in Ids |-> esc'[i]]
  BY DEF EscStep
<1> QED
  BY <1>1, EscKeeps, HistKeeps, Zenon DEF OpsInv, Shapes

-----------------------------------------------------------------------------
(* ClawOpsController.Reconcile                                             *)

\* A step of a reconcile that is past the approvals and patches no intent.
LEMMA LaterStep ==
  ASSUME OpsInv, EscStep, OpsShape', ops'.pc \notin {"approve", "execute"},
         UNCHANGED <<claw, cacheVars, consumer, watch, decided, applied>>
  PROVE  OpsInv'
<1>1. HistStep /\ TodoInv' /\ IntentInv' /\ WatchInv' /\ ClawShape'
  <2>1. HistStep
    BY DEF HistStep
  <2>2. TodoInv' /\ IntentInv'
    BY <2>1, TodoKeeps, IntentKeeps DEF cacheVars
  <2> QED
    BY <2>1, <2>2 DEF OpsInv, Shapes, ClawShape, WatchInv
<1> QED
  BY <1>1, Together DEF cacheVars

LEMMA OpsStartStep ==
  ASSUME OpsInv, OpsStart
  PROVE  OpsInv' /\ EscStep
<1>1. UNCHANGED <<esc, nEsc, claw, clawCache, escCache, consumer, watch, decided, applied>>
  BY DEF OpsStart, objVars, cacheVars, histVars
<1>2. EscStep /\ HistStep
  BY <1>1, EscSame DEF HistStep
<1>3. /\ OpsShape' /\ ops'.list = escCache /\ ops'.pc # "execute"
      /\ ops'.todo = {i \in Ids : ToExecute(escCache[i])}
  BY ZenonT(30) DEF OpsStart, OpsShape, NoOps, AfterApprovals
<1>4. TodoInv'
  BY <1>1, <1>3, Zenon DEF TodoInv, ToExecute, OpsInv, EscInv, Backed
<1>5. IntentInv' /\ WatchInv' /\ ClawShape'
  BY <1>1, <1>2, IntentKeeps, Zenon DEF OpsInv, Shapes, ClawShape, WatchInv
<1> QED
  BY <1>1, <1>2, <1>3, <1>4, <1>5, Together

LEMMA OpsWriteStep ==
  ASSUME OpsInv, OpsWriteApproved
  PROVE  OpsInv' /\ EscStep
<1>1. UNCHANGED <<esc, nEsc, clawCache, escCache, consumer, watch, decided, applied>>
  BY Zenon DEF OpsWriteApproved, cacheVars, histVars
<1>2. EscStep /\ HistStep
  BY <1>1, EscSame DEF HistStep
<1>3. ClawShape /\ OpsShape
  BY DEF OpsInv, Shapes
<1>4. CASE UNCHANGED claw /\ ops' = [ops EXCEPT !.pc = "gc", !.todo = {}]
  <2>1. OpsShape' /\ ops'.pc = "gc"
    BY <1>3, <1>4, Zenon DEF OpsShape
  <2> QED
    BY <1>1, <1>2, <1>4, <2>1, LaterStep DEF cacheVars
<1>5. CASE \E i \in ops.todo :
             /\ PatchIntent(ops.list[i].action)
             /\ ops' = [ops EXCEPT !.pc = "execute", !.id = i, !.base = claw'.intent]
  <2>1. PICK i \in ops.todo :
             /\ PatchIntent(ops.list[i].action)
             /\ ops' = [ops EXCEPT !.pc = "execute", !.id = i, !.base = claw'.intent]
    BY <1>5, Zenon
  <2>2. /\ OpsShape' /\ ops'.pc = "execute" /\ ops'.id = i
        /\ ops'.todo = ops.todo /\ ops'.list = ops.list
    BY <1>3, <2>1, Zenon DEF OpsShape
  <2>3. TodoInv /\ ops.pc = "approve"
    BY Zenon DEF OpsInv, OpsWriteApproved
  <2>4. TodoInv'
    BY <1>1, <2>2, <2>3, Zenon DEF TodoInv
  <2>5. ops.list[i].action \in decided
    BY <2>1, <2>3 DEF TodoInv
  <2>6. ClawShape' /\ claw'.intent \in {claw.intent, ops.list[i].action}
    BY <1>3, <2>1 DEF ClawShape, PatchIntent
  <2>7. IntentInv'
    BY <1>1, <1>2, <2>5, <2>6, IntentKeeps, Zenon DEF Sound
  <2>8. WatchInv'
    BY <1>1, Zenon DEF OpsInv, WatchInv
  <2> QED
    BY <1>1, <1>2, <2>2, <2>4, <2>6, <2>7, <2>8, Together, Zenon
<1> QED
  BY <1>4, <1>5, Zenon DEF OpsWriteApproved

LEMMA OpsMarkStep ==
  ASSUME OpsInv, OpsMarkExecuted
  PROVE  OpsInv' /\ EscStep
<1>1. UNCHANGED <<nEsc, claw, clawCache, escCache, consumer, watch, decided, applied>>
  BY DEF OpsMarkExecuted, cacheVars, histVars
<1>2. OpsShape /\ TodoInv /\ ops.pc = "execute"
  BY Zenon DEF OpsInv, Shapes, OpsMarkExecuted
<1>3. CASE UNCHANGED esc /\ ops' = [ops EXCEPT !.pc = "gc", !.todo = {}, !.id = 0]
  <2>1. EscStep /\ OpsShape' /\ ops'.pc = "gc"
    BY <1>1, <1>2, <1>3, EscSame, Zenon DEF OpsShape
  <2> QED
    BY <1>1, <2>1, LaterStep DEF cacheVars
<1>4. CASE /\ esc[ops.id] = ops.list[ops.id]
           /\ esc' = [esc EXCEPT ![ops.id].phase = "Executed"]
           /\ ops' = [ops EXCEPT !.todo = @ \ {ops.id}, !.id = 0,
                                 !.pc = AfterApprovals(ops.todo \ {ops.id})]
  <2>1. ops.id \in Ids /\ esc[ops.id].phase = "Approved"
    BY <1>2, <1>4 DEF TodoInv
  <2> DEFINE e == [esc[ops.id] EXCEPT !.phase = "Executed"]
  <2>2. Shape(esc[ops.id])
    BY <2>1 DEF OpsInv, Shapes
  <2>3. Shape(e) /\ e.phase = "Executed"
    BY <2>2 DEF Shape
  <2>4. esc' = [esc EXCEPT ![ops.id] = e]
    BY <1>4
  <2> HIDE DEF e
  <2>5. EscStep
    BY <1>1, <2>1, <2>3, <2>4, AbsentPhase, EscOne, Zenon DEF IsTerminalPhase
  <2>6. /\ OpsShape' /\ ops'.todo = ops.todo \ {ops.id} /\ ops'.list = ops.list
        /\ ops'.pc \in {"gc", "approve"}
    BY <1>2, <1>4, Zenon DEF OpsShape, AfterApprovals
  <2>7. TodoInv'
    BY <1>1, <1>2, <2>6 DEF TodoInv
  <2>8. HistStep /\ WatchInv' /\ ClawShape'
    BY <1>1 DEF HistStep, OpsInv, Shapes, ClawShape, WatchInv
  <2>9. IntentInv'
    BY <1>1, <2>8, IntentKeeps
  <2> QED
    BY <1>1, <2>5, <2>6, <2>7, <2>8, <2>9, Together
<1> QED
  BY <1>3, <1>4, Zenon DEF OpsMarkExecuted

LEMMA OpsGCStep ==
  ASSUME OpsInv, OpsGC
  PROVE  OpsInv' /\ EscStep
<1>1. UNCHANGED <<nEsc, claw, cacheVars, consumer, watch, decided, applied>>
  BY DEF OpsGC, histVars
<1>2. PICK gone : esc' = [i \in Ids |-> IF i \in gone THEN Absent ELSE esc[i]]
  BY Zenon DEF OpsGC
<1>3. EscStep
  BY <1>1, <1>2 DEF EscStep, OpsInv, Shapes
<1>4. OpsShape' /\ ops'.pc = "decide"
  BY Zenon DEF OpsGC, OpsInv, Shapes, OpsShape
<1> QED
  BY <1>1, <1>3, <1>4, LaterStep

\* The signals are escalated, or the reconcile ends.
LEMMA EscalatingShape ==
  ASSUME OpsInv, NEW sigs, ops' = Escalating(sigs)
  PROVE  OpsShape' /\ ops'.pc \in {"idle", "escalate"}
<1>1. OpsShape
  BY DEF OpsInv, Shapes
<1>2. CASE ops' = NoOps
  BY <1>2 DEF NoOps, OpsShape
<1>3. CASE ops' = [ops EXCEPT !.pc = "escalate", !.auto = None, !.jobs = sigs, !.id = 0]
  BY <1>1, <1>3, Zenon DEF OpsShape
<1> QED
  BY <1>2, <1>3 DEF Escalating

LEMMA OpsDecideStep ==
  ASSUME OpsInv, OpsDecide
  PROVE  OpsInv' /\ EscStep
<1>1. UNCHANGED <<esc, nEsc, claw, cacheVars, consumer, watch, decided, applied>>
  BY Zenon DEF OpsDecide, objVars, histVars
<1>2. PICK sigs : ops' = Escalating(sigs) \/ ops' = Acting(sigs)
  BY Zenon DEF OpsDecide
<1>3. CASE ops' = Escalating(sigs)
  BY <1>1, <1>3, EscalatingShape, EscSame, LaterStep
<1>4. CASE ops' = Acting(sigs)
  <2>1. PICK auto, jobs : ops' = [ops EXCEPT !.pc = "auto", !.auto = auto, !.jobs = jobs]
    BY <1>4, Zenon DEF Acting
  <2>2. OpsShape' /\ ops'.pc = "auto"
    BY <2>1, Zenon DEF OpsInv, Shapes, OpsShape
  <2> QED
    BY <1>1, <2>2, EscSame, LaterStep
<1> QED
  BY <1>2, <1>3, <1>4

LEMMA AutoPatchStep ==
  ASSUME OpsInv, AutoPatch
  PROVE  OpsInv' /\ EscStep
<1>1. UNCHANGED <<esc, nEsc, clawCache, escCache, consumer, watch, applied>>
  BY DEF AutoPatch, cacheVars
<1>2. EscStep
  BY <1>1, EscSame
<1>3. CASE AutoFailed /\ UNCHANGED <<claw, decided>>
  BY <1>1, <1>2, <1>3, EscalatingShape, LaterStep, Zenon DEF AutoFailed, cacheVars
<1>4. CASE \E intent : /\ PatchIntent(intent)
                       /\ decided' = decided \cup {intent}
                       /\ ops' = [ops EXCEPT !.pc = "audit", !.base = intent]
  <2>1. PICK intent : /\ PatchIntent(intent)
                      /\ decided' = decided \cup {intent}
                      /\ ops' = [ops EXCEPT !.pc = "audit", !.base = intent]
    BY <1>4, Zenon
  <2>2. HistStep /\ WatchInv'
    BY <1>1, <2>1 DEF HistStep, OpsInv, WatchInv
  <2>3. ClawShape' /\ claw'.intent \in {claw.intent, intent}
    BY <2>1 DEF OpsInv, Shapes, ClawShape, PatchIntent
  <2>4. IntentInv'
    BY <1>1, <2>1, <2>2, <2>3, IntentKeeps DEF Sound
  <2>5. OpsShape' /\ ops'.pc = "audit"
    BY <2>1, Zenon DEF OpsInv, Shapes, OpsShape
  <2>6. TodoInv'
    BY <2>2, <2>5, TodoKeeps
  <2> QED
    BY <1>1, <1>2, <2>2, <2>3, <2>4, <2>5, <2>6, Together
<1> QED
  BY <1>3, <1>4, Zenon DEF AutoPatch

LEMMA OpsCreateStep ==
  ASSUME OpsInv, OpsCreate
  PROVE  OpsInv' /\ EscStep
<1>1. UNCHANGED <<claw, cacheVars, consumer, watch, decided, applied>>
  BY DEF OpsCreate, histVars
<1>2. CASE (\E sigs : ops' = Escalating(sigs)) /\ UNCHANGED <<esc, nEsc>>
  BY <1>1, <1>2, EscSame, EscalatingShape, LaterStep
<1>3. ASSUME NEW sig, NEW pc \in {"record", "status"}, Create(sig, pc)
      PROVE  OpsInv' /\ EscStep
  <2> DEFINE e == Created(sig.type)
  <2>1. Shape(e) /\ e.phase = ""
    BY DEF Created, Shape
  <2>2. esc' = [esc EXCEPT ![nEsc + 1] = e] /\ nEsc' = nEsc + 1
    BY <1>3 DEF Create
  <2> HIDE DEF e
  <2>3. nEsc \in Nat /\ esc = [i \in Ids |-> esc[i]]
    BY DEF OpsInv, Shapes
  <2>4. /\ \A i \in Ids : i # nEsc + 1 => esc'[i] = esc[i]
        /\ nEsc + 1 \in Ids => esc'[nEsc + 1] = e
        /\ esc' = [i \in Ids |-> esc'[i]]
    BY <2>2, <2>3
  <2>5. nEsc + 1 \in Ids => ~IsTerminalPhase(esc[nEsc + 1].phase)
    <3>1. nEsc + 1 \in Ids => esc[nEsc + 1] = Absent
      BY <2>3, nEsc + 1 > nEsc DEF OpsInv, EscInv
    <3> QED
      BY <3>1, AbsentPhase DEF IsTerminalPhase
  <2>6. \A i \in Ids : i = nEsc + 1 => Backed(esc[i])'
    BY <2>1, <2>4, Zenon DEF Backed
  <2>7. EscStep
    <3>1. \A i \in Ids : i = nEsc + 1 => Shape(esc'[i]) /\ i <= nEsc'
      <4>1. \A i \in Ids : i = nEsc + 1 => esc'[i] = e
        BY <2>4
      <4>2. nEsc + 1 <= nEsc'
        BY <2>2, <2>3
      <4> QED
        BY <2>1, <4>1, <4>2, Zenon
    <3>2. nEsc' \in Nat /\ nEsc' >= nEsc
      BY <2>2, <2>3
    <3> QED
      BY <2>4, <2>5, <2>6, <3>1, <3>2 DEF EscStep
  <2>8. OpsShape' /\ ops'.pc = pc
    BY <1>3, Zenon DEF Create, OpsInv, Shapes, OpsShape
  <2> QED
    BY <1>1, <2>7, <2>8, LaterStep
<1> QED
  BY <1>2, <1>3, Zenon DEF OpsCreate, AutoFailed

\* Setting the phase of an escalation that nobody has touched.
LEMMA SetPhase ==
  ASSUME OpsInv, NEW i, NEW ph, ph \in {"AutoExecuted", "Pending", "Analyzing", "Rejected"},
         esc[i] # Absent, ~IsTerminalPhase(esc[i].phase),
         esc' = [esc EXCEPT ![i].phase = ph], nEsc' = nEsc
  PROVE  EscStep
<1> DEFINE e == [esc[i] EXCEPT !.phase = ph]
<1>1. CASE i \in Ids
  <2>1. Shape(esc[i])
    BY <1>1 DEF OpsInv, Shapes
  <2>2. Shape(e) /\ e.phase = ph
    BY <2>1 DEF Shape
  <2>3. esc' = [esc EXCEPT ![i] = e]
    OBVIOUS
  <2> HIDE DEF e
  <2> QED
    BY <1>1, <2>2, <2>3, EscOne, Zenon
<1>2. CASE i \notin Ids
  <2>1. esc = [j \in Ids |-> esc[j]]
    BY DEF OpsInv, Shapes
  <2>2. esc' = esc
    BY <1>2, <2>1
  <2> QED
    BY <2>2, EscSame
<1> QED
  BY <1>1, <1>2

LEMMA StatusStep ==
  ASSUME OpsInv, AutoStatus \/ EscalateStatus
  PROVE  OpsInv' /\ EscStep
<1>1. UNCHANGED <<nEsc, claw, cacheVars, consumer, watch, decided, applied>>
  BY Zenon DEF AutoStatus, EscalateStatus, histVars
<1>2. \E sigs : ops' = Escalating(sigs)
  BY Zenon DEF AutoStatus, EscalateStatus, AutoFailed
<1>3. EscStep
  <2>1. CASE UNCHANGED esc
    BY <1>1, <2>1, EscSame
  <2>2. CASE Untouched /\ esc' = [esc EXCEPT ![ops.id].phase = "AutoExecuted"]
    BY <1>1, <2>2, AbsentPhase, SetPhase, Zenon DEF Untouched, IsTerminalPhase
  <2>3. CASE Untouched /\ esc' = [esc EXCEPT ![ops.id].phase = "Pending"]
    BY <1>1, <2>3, AbsentPhase, SetPhase, Zenon DEF Untouched, IsTerminalPhase
  <2> QED
    BY <2>1, <2>2, <2>3, Zenon DEF AutoStatus, EscalateStatus
<1> QED
  BY <1>1, <1>2, <1>3, EscalatingShape, LaterStep

LEMMA ReconcileStep ==
  ASSUME OpsInv, Reconcile
  PROVE  OpsInv' /\ EscStep
BY OpsStartStep, OpsWriteStep, OpsMarkStep, OpsGCStep, OpsDecideStep, AutoPatchStep,
   OpsCreateStep, StatusStep DEF Reconcile

-----------------------------------------------------------------------------
(* The consumer, the watcher, kubectl-claw and the environment.            *)

LEMMA ConsumeStep ==
  ASSUME OpsInv, Consume
  PROVE  OpsInv' /\ EscStep
<1>1. UNCHANGED <<esc, nEsc, clawCache, escCache, ops, watch, decided>>
  BY DEF Consume, ConsumeRead, ConsumeDelete, ConsumePatch, objVars, cacheVars, histVars
<1>2. EscStep
  BY <1>1, EscSame
<1>3. HistStep
  BY Zenon DEF Consume, ConsumeRead, ConsumeDelete, ConsumePatch, Applies, histVars,
     HistStep, OpsInv, IntentInv, Sound
<1>4. TodoInv' /\ WatchInv' /\ OpsShape'
  BY <1>1, <1>3, TodoKeeps, Zenon DEF OpsInv, Shapes, OpsShape, WatchInv
<1>5. ClawShape' /\ IntentInv'
  <2>1. CASE ConsumeRead
    BY <1>1, <2>1, Zenon DEF ConsumeRead, objVars, OpsInv, Shapes, ClawShape, IntentInv, Sound
  <2>2. CASE ConsumeDelete
    <3>1. /\ consumer.pc = "delete" /\ consumer' = [consumer EXCEPT !.pc = "patch"]
          /\ UNCHANGED claw
      BY <2>2 DEF ConsumeDelete, objVars
    <3>2. consumer'.base = consumer.base /\ consumer'.pc # "delete"
      BY <3>1
    <3> QED
      BY <1>1, <3>1, <3>2 DEF OpsInv, Shapes, ClawShape, IntentInv, Sound
  <2>3. CASE ConsumePatch
    <3>1. consumer' = NoConsumer /\ ClawShape' /\ claw'.intent \in {claw.intent, None}
      BY <2>3 DEF ConsumePatch, OpsInv, Shapes, ClawShape
    <3> QED
      BY <1>1, <1>3, <3>1, IntentKeeps, Zenon DEF Sound
  <2> QED
    BY <2>1, <2>2, <2>3 DEF Consume
<1> QED
  BY <1>1, <1>2, <1>3, <1>4, <1>5, Together

\* A step of somebody who only writes escalations.
LEMMA EscWriter ==
  ASSUME OpsInv, EscStep, decided \subseteq decided', WatchInv',
         UNCHANGED <<claw, cacheVars, ops, consumer, applied>>
  PROVE  OpsInv'
<1>1. HistStep
  BY DEF HistStep
<1>2. TodoInv' /\ IntentInv' /\ ClawShape' /\ OpsShape'
  BY <1>1, TodoKeeps, IntentKeeps, Zenon DEF cacheVars, OpsInv, Shapes, ClawShape, OpsShape
<1> QED
  BY <1>1, <1>2, Together DEF cacheVars

LEMMA TwoFields ==
  ASSUME NEW x, Shape(x), NEW ph, NEW action
  PROVE  [x EXCEPT !.phase = ph, !.action = action] =
           [phase |-> ph, type |-> x.type, action |-> action, born |-> x.born]
<1> DEFINE y == [x EXCEPT !.phase = ph]
<1>1. y = [phase |-> ph, type |-> x.type, action |-> x.action, born |-> x.born]
  BY DEF Shape
<1>2. [x EXCEPT !.phase = ph, !.action = action] = [y EXCEPT !.action = action]
  BY DEF Shape
<1> HIDE DEF y
<1>3. [y EXCEPT !.action = action] =
           [phase |-> ph, type |-> x.type, action |-> action, born |-> x.born]
  BY <1>1
<1> QED
  BY <1>2, <1>3

LEMMA WatchStep ==
  ASSUME OpsInv, WatchPick \/ WatchPropose \/ WatchStops
  PROVE  OpsInv' /\ EscStep
<1>1. UNCHANGED <<claw, nEsc, cacheVars, ops, consumer, decided, applied>>
  BY Zenon DEF WatchPick, WatchPropose, WatchStops, objVars, histVars
<1>2. EscStep /\ WatchInv'
  <2>1. CASE WatchPick
    <3>1. PICK i \in Ids :
            /\ esc[i].phase = "Pending"
            /\ esc' = [esc EXCEPT ![i].phase = "Analyzing"]
            /\ watch' = [id |-> i, copy |-> esc'[i]]
      BY <2>1, Zenon DEF WatchPick
    <3>2. esc'[i].phase = "Analyzing"
      BY <3>1 DEF OpsInv, Shapes, Shape
    <3>3. WatchInv'
      BY <3>1, <3>2 DEF WatchInv
    <3> QED
      BY <1>1, <3>1, <3>3, AbsentPhase, SetPhase, Zenon DEF IsTerminalPhase
  <2>2. CASE WatchPropose
    <3>1. WatchInv'
      BY <2>2, Zenon DEF WatchPropose, WatchInv
    <3>2. CASE esc' = esc
      BY <1>1, <3>1, <3>2, EscSame
    <3>3. CASE esc' # esc
      <4>1. PICK action : esc' = [esc EXCEPT ![watch.id].phase = "AwaitingApproval",
                                             ![watch.id].action = action]
        BY <2>2, <3>3, Zenon DEF WatchPropose
      <4>2. watch.id \in Ids /\ esc[watch.id].phase = "Analyzing"
        BY <2>2, <3>3, Zenon DEF WatchPropose, OpsInv, WatchInv
      <4> DEFINE e == [esc[watch.id] EXCEPT !.phase = "AwaitingApproval", !.action = action]
      <4>3. Shape(esc[watch.id])
        BY <4>2 DEF OpsInv, Shapes
      <4>4. Shape(e) /\ e.phase = "AwaitingApproval"
        <5>1. e = [phase |-> "AwaitingApproval", type |-> esc[watch.id].type,
                   action |-> action, born |-> esc[watch.id].born]
          BY <4>3, TwoFields, Zenon DEF Shape
        <5> HIDE DEF e
        <5> QED
          BY <5>1, Zenon DEF Shape
      <4>5. esc' = [esc EXCEPT ![watch.id] = e]
        BY <4>1, <4>2, Zenon DEF OpsInv, Shapes
      <4> HIDE DEF e
      <4>6. EscStep
        BY <1>1, <4>2, <4>4, <4>5, AbsentPhase, EscOne, ZenonT(30) DEF IsTerminalPhase
      <4> QED
        BY <3>1, <4>6, SMTT(30)
    <3> QED
      BY <3>2, <3>3
  <2>3. CASE WatchStops
    BY <1>1, <2>3, EscSame, Zenon DEF WatchStops, WatchInv, objVars
  <2> QED
    BY <2>1, <2>2, <2>3
<1> QED
  BY <1>1, <1>2, EscWriter

LEMMA HumanStep ==
  ASSUME OpsInv, runApprove \/ runReject
  PROVE  OpsInv' /\ EscStep
<1>1. UNCHANGED <<claw, nEsc, cacheVars, ops, consumer, watch, applied>>
  BY DEF runApprove, runReject, histVars
<1>2. decided \subseteq decided' /\ WatchInv'
  BY <1>1, Zenon DEF runApprove, runReject, histVars, OpsInv, WatchInv
<1>3. EscStep
  <2>1. CASE runApprove
    <3>1. PICK i \in Ids : /\ esc[i].phase = "AwaitingApproval"
                           /\ esc' = [esc EXCEPT ![i].phase = "Approved"]
                           /\ decided' = decided \cup {esc[i].action}
      BY <2>1, Zenon DEF runApprove
    <3> DEFINE e == [esc[i] EXCEPT !.phase = "Approved"]
    <3>2. Shape(esc[i])
      BY DEF OpsInv, Shapes
    <3>3. Shape(e) /\ e.action = esc[i].action
      BY <3>2 DEF Shape
    <3>4. esc' = [esc EXCEPT ![i] = e]
      BY <3>1
    <3> HIDE DEF e
    <3> QED
      BY <1>1, <3>1, <3>3, <3>4, AbsentPhase, EscOne, Zenon DEF IsTerminalPhase
  <2>2. CASE runReject
    <3>1. PICK i \in Ids : /\ esc[i] # Absent /\ ~IsTerminalPhase(esc[i].phase)
                           /\ esc' = [esc EXCEPT ![i].phase = "Rejected"]
      BY <2>2, Zenon DEF runReject
    <3> QED
      BY <1>1, <3>1, SetPhase, Zenon
  <2> QED
    BY <2>1, <2>2
<1> QED
  BY <1>1, <1>2, <1>3, EscWriter

LEMMA WorldStep ==
  ASSUME OpsInv,
         \/ WriteGarbage \/ PodChanges \/ SyncClaw \/ SyncEscalations \/ Tick
         \/ OperatorRestart \/ UNCHANGED vars
  PROVE  OpsInv' /\ EscStep
<1> USE DEF WriteGarbage, PodChanges, SyncClaw, SyncEscalations, Tick, OperatorRestart,
            vars, objVars, cacheVars, histVars
<1>1. /\ UNCHANGED <<esc, nEsc, watch, decided, applied>>
      /\ clawCache' \in {clawCache, claw} /\ escCache' \in {escCache, esc}
      /\ UNCHANGED consumer \/ consumer' = NoConsumer
      /\ UNCHANGED ops \/ ops' = NoOps
  BY Zenon
<1>2. EscStep /\ HistStep
  BY <1>1, EscSame, Zenon DEF HistStep
<1>3. OpsShape' /\ TodoInv'
  <2>1. CASE UNCHANGED ops
    BY <1>1, <1>2, <2>1, TodoKeeps, Zenon DEF OpsInv, Shapes, OpsShape
  <2>2. CASE ops' = NoOps
    BY <1>1, <1>2, <2>2, TodoKeeps DEF NoOps, OpsInv, Shapes, OpsShape
  <2> QED
    BY <1>1, <2>1, <2>2, Zenon
<1>4. ClawShape' /\ (claw'.intent = claw.intent \/ Sound(claw.intent)')
  <2>1. CASE UNCHANGED claw
    BY <2>1, Zenon DEF OpsInv, Shapes, ClawShape
  <2>2. CASE claw' = [claw EXCEPT !.intent = [from |-> 0, gen |-> 0, action |-> "garbage"]]
    BY <2>2, Zenon DEF OpsInv, Shapes, ClawShape, Sound
  <2> QED
    BY <2>1, <2>2, Zenon
<1>5. IntentInv' /\ WatchInv'
  BY <1>1, <1>2, <1>4, IntentKeeps, Zenon DEF OpsInv, WatchInv
<1> QED
  BY <1>1, <1>2, <1>3, <1>4, <1>5, Together, Zenon

LEMMA OpsStep == OpsInv /\ [Next]_vars => OpsInv' /\ EscStep
BY ReconcileStep, ConsumeStep, WatchStep, HumanStep, WorldStep DEF Next

-----------------------------------------------------------------------------
\* What the consumer carries out was decided by a rule or a human, whichever
\* stale copies it travels through (consumeAndExecuteOpsIntent).
THEOREM DecidedCorrect == SafetySpec => []OnlyDecided
<1>1. OpsInv => OnlyDecided
  BY DEF OpsInv
<1> QED
  BY <1>1, OpsInit, OpsStep, PTL DEF SafetySpec

\* No actor overwrites the outcome of an escalation (the status updates of
\* ClawOpsController, Watcher and kubectl-claw).
THEOREM TerminalCorrect == SafetySpec => TerminalStays
<1> DEFINE Keeps == \A i \in Ids : IsTerminalPhase(esc[i].phase) => esc'[i] \in {esc[i], Absent}
<1>1. EscStep => Keeps
  BY DEF EscStep
<1>2. OpsInv /\ [Next]_vars => OpsInv' /\ [Keeps]_vars
  BY <1>1, OpsStep, Zenon
<1> HIDE DEF Keeps
<1>3. SafetySpec => [][Keeps]_vars
  BY <1>2, OpsInit, PTL DEF SafetySpec
<1> QED
  BY <1>3 DEF TerminalStays, Keeps

-----------------------------------------------------------------------------
(* The budget of automatic actions.  What the rate limiter still remembers of *)
(* the last hour is exactly what was recorded in it, and while an action is   *)
(* on its way to its record there is room for one more.                       *)

\* From the decision to the record.
ActionPending == ops.pc \in {"auto", "audit", "record"}

BudgetInv ==
  /\ time \in Nat /\ nEsc \in Nat /\ IsFiniteSet(autos)
  /\ \A a \in autos : a.at \in Nat /\ a.id \in Nat /\ a.id <= nEsc
  /\ \A a, b \in autos : a.id = b.id => a = b
  /\ actionCounts \subseteq autos /\ Within(autos) \subseteq actionCounts
  /\ Cardinality(Within(autos)) <= MaxActions
  /\ ActionPending => Cardinality(Within(autos)) < MaxActions
  /\ ops.pc = "record" => /\ ops.id \in Nat /\ ops.id <= nEsc
                          /\ \A a \in autos : a.id < ops.id

LEMMA BudgetInit == Init => BudgetInv
<1> SUFFICES ASSUME Init PROVE BudgetInv
  OBVIOUS
<1>1. Within(autos) = {} /\ autos = {} /\ actionCounts = {}
  BY Zenon DEF Init, Within
<1>2. IsFiniteSet(autos) /\ Cardinality(Within(autos)) = 0
  BY <1>1, FS_EmptySet, Zenon
<1>3. ops.pc = "idle" /\ time = 0 /\ nEsc = 0
  BY Zenon DEF Init, NoOps
<1> QED
  BY <1>1, <1>2, <1>3, ClawOpsAssumption DEF BudgetInv, ActionPending

LEMMA WithinCount ==
  ASSUME BudgetInv
  PROVE  IsFiniteSet(Within(autos)) /\ Cardinality(Within(autos)) \in Nat
<1>1. Within(autos) \subseteq autos /\ IsFiniteSet(autos)
  BY Zenon DEF Within, BudgetInv
<1> QED
  BY <1>1, FS_Subset, FS_CardinalityType, Zenon

\* A step without a new record: time only takes actions out of the window.
LEMMA BudgetKeeps ==
  ASSUME BudgetInv, time' \in {time, time + 1}, nEsc' \in {nEsc, nEsc + 1},
         UNCHANGED autos, actionCounts' \in {actionCounts, Within(actionCounts)},
         ActionPending' => ActionPending \/ Cardinality(Within(autos)) < MaxActions,
         \/ ops'.pc # "record" \/ UNCHANGED ops
         \/ ops'.id = nEsc + 1 /\ nEsc' = nEsc + 1
  PROVE  BudgetInv'
<1>0. time' \in Nat /\ time' >= time /\ nEsc' \in Nat /\ nEsc' >= nEsc
  BY DEF BudgetInv
<1>1. Within(autos)' \subseteq Within(autos)
  BY <1>0, ClawOpsAssumption DEF BudgetInv, Within
<1>2. /\ IsFiniteSet(Within(autos)') /\ Cardinality(Within(autos)') \in Nat
      /\ Cardinality(Within(autos)') <= Cardinality(Within(autos))
  BY <1>1, WithinCount, FS_Subset, FS_CardinalityType, Zenon
<1>3. Cardinality(Within(autos)') <= MaxActions
  BY <1>2, WithinCount, ClawOpsAssumption DEF BudgetInv
<1>4. ActionPending' => Cardinality(Within(autos)') < MaxActions
  BY <1>2, WithinCount, ClawOpsAssumption DEF BudgetInv
<1>5. (actionCounts \subseteq autos /\ Within(autos) \subseteq actionCounts)'
  BY <1>1, Zenon DEF BudgetInv, Within
<1>6. \A a \in autos : a.at \in Nat /\ a.id \in Nat /\ a.id <= nEsc'
  BY <1>0 DEF BudgetInv
<1>7. (ops.pc = "record" => /\ ops.id \in Nat /\ ops.id <= nEsc
                            /\ \A a \in autos : a.id < ops.id)'
  BY <1>0 DEF BudgetInv
<1> QED
  BY <1>0, <1>3, <1>4, <1>5, <1>6, <1>7, Zenon DEF BudgetInv

LEMMA BudgetDecides ==
  ASSUME OpsInv, BudgetInv, OpsDecide
  PROVE  BudgetInv'
<1>1. /\ UNCHANGED <<time, nEsc, autos>>
      /\ actionCounts' \in {actionCounts, Within(actionCounts)}
  BY Zenon DEF OpsDecide, objVars, histVars
<1>2. PICK sigs : ops' = Escalating(sigs) \/ (Matched(sigs) /\ ops' = Acting(sigs))
  BY Zenon DEF OpsDecide
<1>3. CASE ops' = Escalating(sigs)
  <2>1. ops'.pc \in {"idle", "escalate"}
    BY <1>3, EscalatingShape, SMTT(30)
  <2> QED
    BY <1>1, <2>1, BudgetKeeps, Zenon DEF ActionPending
<1>4. CASE Matched(sigs) /\ ops' = Acting(sigs)
  <2>1. PICK auto, jobs : ops' = [ops EXCEPT !.pc = "auto", !.auto = auto, !.jobs = jobs]
    BY <1>4, Zenon DEF Acting
  <2>2. ops'.pc = "auto"
    BY <2>1, Zenon DEF OpsInv, Shapes, OpsShape
  <2>3. Within(actionCounts) = Within(autos)
    BY Zenon DEF BudgetInv, Within
  <2>4. Cardinality(Within(autos)) < MaxActions
    BY <1>4, <2>3, WithinCount, ClawOpsAssumption DEF Matched, isRateLimited
  <2> QED
    BY <1>1, <2>2, <2>4, BudgetKeeps, Zenon
<1> QED
  BY <1>2, <1>3, <1>4

LEMMA BudgetRecords ==
  ASSUME OpsInv, BudgetInv, AutoStatus
  PROVE  BudgetInv'
<1>1. UNCHANGED <<time, nEsc>> /\ ops.pc = "record"
  BY DEF AutoStatus
<1>2. \E sigs : ops' = Escalating(sigs)
  BY Zenon DEF AutoStatus, AutoFailed
<1>3. ops'.pc \in {"idle", "escalate"}
  BY <1>2, EscalatingShape
<1>4. CASE UNCHANGED <<actionCounts, autos>>
  BY <1>1, <1>3, <1>4, BudgetKeeps, Zenon DEF ActionPending
<1>5. CASE /\ actionCounts' = actionCounts \cup {[id |-> ops.id, at |-> time]}
           /\ autos' = autos \cup {[id |-> ops.id, at |-> time]}
  <2> DEFINE r == [id |-> ops.id, at |-> time]
  <2>1. /\ r.id = ops.id /\ r.at = time /\ ops.id \in Nat /\ ops.id <= nEsc
        /\ \A a \in autos : a.id < ops.id
    BY <1>1, Zenon DEF BudgetInv
  <2> HIDE DEF r
  <2>2. actionCounts' = actionCounts \cup {r} /\ autos' = autos \cup {r}
    BY <1>5, Zenon DEF r
  <2>3. Within(autos)' = Within(autos) \cup {r}
    BY <1>1, <2>1, <2>2, ClawOpsAssumption DEF Within, BudgetInv
  <2>4. r \notin Within(autos)
    BY <2>1 DEF Within, BudgetInv
  <2>5. Cardinality(Within(autos)') = Cardinality(Within(autos)) + 1
    BY <2>3, <2>4, WithinCount, FS_AddElement, Zenon
  <2>6. Cardinality(Within(autos)') <= MaxActions
    BY <1>1, <2>5, WithinCount, ClawOpsAssumption DEF BudgetInv, ActionPending
  <2>7. IsFiniteSet(autos')
    BY <2>2, FS_AddElement, Zenon DEF BudgetInv
  <2>8. \A a \in autos' : a.at \in Nat /\ a.id \in Nat /\ a.id <= nEsc'
    BY <1>1, <2>1, <2>2, Zenon DEF BudgetInv
  <2>9. \A a, b \in autos' : a.id = b.id => a = b
    BY <2>1, <2>2 DEF BudgetInv
  <2>10. actionCounts' \subseteq autos' /\ Within(autos)' \subseteq actionCounts'
    BY <2>2, <2>3, Zenon DEF BudgetInv
  <2> QED
    BY <1>1, <1>3, <2>6, <2>7, <2>8, <2>9, <2>10, Zenon DEF BudgetInv, ActionPending
<1> QED
  BY <1>4, <1>5, Zenon DEF AutoStatus, memVars

\* The other steps of a reconcile.
LEMMA BudgetReconciles ==
  ASSUME OpsInv, BudgetInv, Reconcile
  PROVE  BudgetInv'
<1>1. CASE OpsDecide
  BY <1>1, BudgetDecides
<1>2. CASE AutoStatus
  BY <1>2, BudgetRecords
<1>3. CASE OpsStart
  <2>1. UNCHANGED <<time, nEsc, autos, actionCounts>>
    BY <1>3 DEF OpsStart, objVars, memVars, histVars
  <2>2. ops'.pc \in {"gc", "approve"}
    BY <1>3, ZenonT(30) DEF OpsStart, NoOps, AfterApprovals
  <2> QED
    BY <2>1, <2>2, BudgetKeeps, Zenon DEF ActionPending
<1>4. CASE OpsWriteApproved \/ OpsMarkExecuted \/ OpsGC
  <2>1. UNCHANGED <<time, nEsc, autos, actionCounts>>
    BY <1>4, Zenon DEF OpsWriteApproved, OpsMarkExecuted, OpsGC, memVars, histVars
  <2>2. OpsShape
    BY Zenon DEF OpsInv, Shapes
  <2>3. ops'.pc \in {"execute", "gc", "approve", "decide"}
    <3>1. CASE OpsWriteApproved
      BY <2>2, <3>1, ZenonT(30) DEF OpsWriteApproved, OpsShape
    <3>2. CASE OpsMarkExecuted
      BY <2>2, <3>2, ZenonT(30) DEF OpsMarkExecuted, OpsShape, AfterApprovals
    <3>3. CASE OpsGC
      BY <2>2, <3>3, ZenonT(30) DEF OpsGC, OpsShape
    <3> QED
      BY <1>4, <3>1, <3>2, <3>3
  <2> QED
    BY <2>1, <2>3, BudgetKeeps, Zenon DEF ActionPending
<1>5. CASE AutoPatch
  <2>1. UNCHANGED <<time, nEsc, autos, actionCounts>> /\ ops.pc = "auto"
    BY <1>5 DEF AutoPatch, memVars
  <2>2. CASE AutoFailed
    <3>1. ops'.pc \in {"idle", "escalate"}
      BY <2>2, EscalatingShape DEF AutoFailed
    <3> QED
      BY <2>1, <3>1, BudgetKeeps, Zenon DEF ActionPending
  <2>3. CASE \E intent : ops' = [ops EXCEPT !.pc = "audit", !.base = intent]
    <3>1. ops'.pc = "audit"
      BY <2>3, Zenon DEF OpsInv, Shapes, OpsShape
    <3> QED
      BY <2>1, <3>1, BudgetKeeps, Zenon DEF ActionPending
  <2> QED
    BY <1>5, <2>2, <2>3, Zenon DEF AutoPatch
<1>6. CASE OpsCreate
  <2>1. UNCHANGED <<time, autos, actionCounts>>
    BY <1>6, Zenon DEF OpsCreate, memVars, histVars
  <2>2. CASE (\E sigs : ops' = Escalating(sigs)) /\ UNCHANGED nEsc
    <3>1. ops'.pc \in {"idle", "escalate"}
      BY <2>2, EscalatingShape, Zenon
    <3> QED
      BY <2>1, <2>2, <3>1, BudgetKeeps, Zenon DEF ActionPending
  <2>3. ASSUME NEW sig, NEW pc, Create(sig, pc),
               pc = "status" \/ (pc = "record" /\ ops.pc = "audit")
        PROVE  BudgetInv'
    <3>1. ops'.pc = pc /\ ops'.id = nEsc + 1 /\ nEsc' = nEsc + 1
      BY <2>3, Zenon DEF Create, OpsInv, Shapes, OpsShape
    <3> QED
      BY <2>1, <2>3, <3>1, BudgetKeeps, Zenon DEF ActionPending
  <2> QED
    BY <1>6, <2>2, <2>3, Zenon DEF OpsCreate, AutoFailed
<1>7. CASE EscalateStatus
  <2>1. UNCHANGED <<time, nEsc, autos, actionCounts>>
    BY <1>7, Zenon DEF EscalateStatus, memVars, histVars
  <2>2. ops'.pc \in {"idle", "escalate"}
    BY <1>7, EscalatingShape, Zenon DEF EscalateStatus
  <2> QED
    BY <2>1, <2>2, BudgetKeeps, Zenon DEF ActionPending
<1> QED
  BY <1>1, <1>2, <1>3, <1>4, <1>5, <1>6, <1>7, Zenon DEF Reconcile

LEMMA BudgetStep == OpsInv /\ BudgetInv /\ [Next]_vars => BudgetInv'
<1> SUFFICES ASSUME OpsInv, BudgetInv, [Next]_vars PROVE BudgetInv'
  OBVIOUS
<1> USE DEF objVars, memVars, histVars
<1>1. CASE Consume
  <2>1. UNCHANGED <<time, nEsc, autos, actionCounts, ops>>
    BY <1>1, Zenon DEF Consume, ConsumeRead, ConsumeDelete, ConsumePatch
  <2> QED
    BY <2>1, BudgetKeeps, Zenon DEF ActionPending
<1>2. CASE \/ WatchPick \/ WatchPropose \/ WatchStops \/ runApprove \/ runReject
           \/ WriteGarbage \/ PodChanges \/ SyncClaw \/ SyncEscalations \/ UNCHANGED vars
  <2>1. UNCHANGED <<time, nEsc, autos, actionCounts, ops>>
    BY <1>2, Zenon DEF WatchPick, WatchPropose, WatchStops, runApprove, runReject, WriteGarbage,
       PodChanges, SyncClaw, SyncEscalations, vars
  <2> QED
    BY <2>1, BudgetKeeps, Zenon DEF ActionPending
<1>3. CASE Tick
  <2>1. UNCHANGED <<nEsc, autos, actionCounts, ops>> /\ time' = time + 1
    BY <1>3, Zenon DEF Tick
  <2> QED
    BY <2>1, BudgetKeeps, Zenon DEF ActionPending
<1>4. CASE OperatorRestart
  <2>1. /\ autos' = {} /\ actionCounts' = {} /\ ops'.pc = "idle"
        /\ UNCHANGED <<time, nEsc>>
    BY <1>4, Zenon DEF OperatorRestart, NoOps
  <2>2. Within(autos)' = {}
    BY <2>1, Zenon DEF Within
  <2>3. IsFiniteSet(autos') /\ Cardinality(Within(autos)') = 0
    BY <2>1, <2>2, FS_EmptySet, Zenon
  <2> QED
    BY <2>1, <2>2, <2>3, ClawOpsAssumption DEF BudgetInv, ActionPending
<1> QED
  BY <1>1, <1>2, <1>3, <1>4, BudgetReconciles, Zenon DEF Next

\* For any budget and window, the automatic actions one operator process
\* records within an hour stay within MaxActionsPerClawPerHour: nothing is
\* recorded between a decision and the record of its action (isRateLimited,
\* autoExecute, recordAction).
THEOREM BudgetCorrect == SafetySpec => []AutoWithinBudget
<1>1. BudgetInv => AutoWithinBudget
  BY Zenon DEF BudgetInv, AutoWithinBudget
<1> QED
  BY <1>1, OpsInit, OpsStep, BudgetInit, BudgetStep, PTL DEF SafetySpec

-----------------------------------------------------------------------------
(* The life of an escalation.  The garbage collection decides on a cached    *)
(* list, so the invariant says how far such a list may be behind: what it    *)
(* shows with an outcome has that outcome still, or is gone.                 *)

Open == {"", "Pending", "Analyzing", "AwaitingApproval", "Approved"}

\* The updates of a phase: by ClawOps, the watcher and kubectl-claw.
PhaseMove(from, to) ==
  \/ from = "" /\ to \in {"AutoExecuted", "Pending"}
  \/ from = "Approved" /\ to = "Executed"
  \/ from = "Pending" /\ to = "Analyzing"
  \/ from = "AwaitingApproval" /\ to = "Approved"
  \/ from \in Open /\ to = "Rejected"

\* What may become of an escalation in one step.
Moved(i) ==
  \/ esc'[i] = esc[i]
  \/ /\ i = nEsc + 1 /\ nEsc' = nEsc + 1
     /\ esc[i] = Absent /\ esc'[i].phase = "" /\ esc'[i].action = None
  \/ /\ PhaseMove(esc[i].phase, esc'[i].phase)
     /\ esc'[i] = [esc[i] EXCEPT !.phase = esc'[i].phase]
  \/ /\ esc[i].phase = "Analyzing"
     /\ \E action : esc'[i] = [esc[i] EXCEPT !.phase = "AwaitingApproval", !.action = action]
  \/ /\ IsTerminalPhase(esc[i].phase) /\ esc'[i] = Absent

CacheInv ==
  \A i \in Ids : /\ i > nEsc => escCache[i] = Absent
                 /\ esc[i] = Absent \/ esc[i].phase \in Open \/ IsTerminalPhase(esc[i].phase)
                 /\ IsTerminalPhase(escCache[i].phase) => esc[i] \in {escCache[i], Absent}

\* An update of one phase.
LEMMA MoveOne ==
  ASSUME Shapes, NEW i, NEW ph, PhaseMove(esc[i].phase, ph),
         esc' = [esc EXCEPT ![i].phase = ph]
  PROVE  \A j \in Ids : Moved(j)
<1> DEFINE e == [esc[i] EXCEPT !.phase = ph]
<1>1. esc' = [esc EXCEPT ![i] = e] /\ esc = [j \in Ids |-> esc[j]]
  BY Zenon DEF Shapes
<1>2. i \in Ids => e.phase = ph
  BY DEF Shapes, Shape
<1>3. e = [esc[i] EXCEPT !.phase = ph]
  OBVIOUS
<1> HIDE DEF e
<1>4. ASSUME NEW j \in Ids PROVE esc'[j] = IF j = i THEN e ELSE esc[j]
  BY <1>1, Zenon
<1> QED
  BY <1>2, <1>3, <1>4, Zenon DEF Moved

LEMMA ReconcileMoves ==
  ASSUME OpsInv, CacheInv, Reconcile
  PROVE  \A i \in Ids : Moved(i)
<1>0. Shapes
  BY Zenon DEF OpsInv
<1>1. CASE OpsStart \/ OpsWriteApproved \/ OpsDecide \/ AutoPatch
  BY <1>1, Zenon DEF OpsStart, OpsWriteApproved, OpsDecide, AutoPatch, objVars, Moved
<1>2. CASE OpsMarkExecuted
  <2>1. esc[ops.id] = ops.list[ops.id] => esc[ops.id].phase = "Approved"
    BY <1>2, Zenon DEF OpsMarkExecuted, OpsInv, TodoInv
  <2>2. PhaseMove("Approved", "Executed")
    BY DEF PhaseMove
  <2>3. CASE UNCHANGED esc
    BY <2>3, Zenon DEF Moved
  <2>4. CASE esc[ops.id] = ops.list[ops.id] /\ esc' = [esc EXCEPT ![ops.id].phase = "Executed"]
    BY <1>0, <2>1, <2>2, <2>4, MoveOne, Zenon
  <2> QED
    BY <1>2, <2>3, <2>4, Zenon DEF OpsMarkExecuted
<1>3. CASE OpsGC
  <2>1. \A i \in Ids : \/ esc'[i] = esc[i]
                       \/ IsTerminalPhase(escCache[i].phase) /\ esc'[i] = Absent
    BY <1>3, Zenon DEF OpsGC
  <2>2. \A i \in Ids : IsTerminalPhase(escCache[i].phase) =>
                         esc[i] = Absent \/ IsTerminalPhase(esc[i].phase)
    BY Zenon DEF CacheInv
  <2> QED
    BY <2>1, <2>2, Zenon DEF Moved
<1>4. CASE OpsCreate
  <2>1. CASE UNCHANGED esc
    BY <2>1, Zenon DEF Moved
  <2>2. ASSUME NEW sig, NEW pc, Create(sig, pc) PROVE \A i \in Ids : Moved(i)
    <3>1. nEsc' = nEsc + 1 /\ esc' = [esc EXCEPT ![nEsc + 1] = Created(sig.type)]
      BY <2>2, Zenon DEF Create
    <3>2. Created(sig.type).phase = "" /\ Created(sig.type).action = None
      BY DEF Created
    <3>3. nEsc + 1 > nEsc
      BY DEF OpsInv, Shapes
    <3>4. nEsc + 1 \in Ids => esc[nEsc + 1] = Absent
      BY <3>3, Zenon DEF OpsInv, EscInv
    <3>5. \A i \in Ids : esc'[i] = IF i = nEsc + 1 THEN Created(sig.type) ELSE esc[i]
      BY <3>1, <1>0, Zenon DEF Shapes
    <3> QED
      BY <3>1, <3>2, <3>4, <3>5, Zenon DEF Moved
  <2> QED
    BY <1>4, <2>1, <2>2, Zenon DEF OpsCreate
<1>5. CASE AutoStatus \/ EscalateStatus
  <2>1. PhaseMove("", "AutoExecuted") /\ PhaseMove("", "Pending")
    BY DEF PhaseMove
  <2>2. CASE UNCHANGED esc
    BY <2>2, Zenon DEF Moved
  <2>3. ASSUME NEW ph \in {"AutoExecuted", "Pending"}, Untouched,
               esc' = [esc EXCEPT ![ops.id].phase = ph]
        PROVE  \A i \in Ids : Moved(i)
    <3>1. PhaseMove(esc[ops.id].phase, ph)
      BY <2>1, <2>3, Zenon DEF Untouched
    <3> QED
      BY <1>0, <2>3, <3>1, MoveOne, Zenon
  <2> QED
    BY <1>5, <2>2, <2>3, Zenon DEF AutoStatus, EscalateStatus
<1> QED
  BY <1>1, <1>2, <1>3, <1>4, <1>5, Zenon DEF Reconcile

LEMMA OthersMove ==
  ASSUME OpsInv, CacheInv, WatchPick \/ WatchPropose \/ runApprove \/ runReject
  PROVE  \A i \in Ids : Moved(i)
<1>0. Shapes
  BY Zenon DEF OpsInv
<1>1. CASE WatchPick
  <2>1. PhaseMove("Pending", "Analyzing")
    BY DEF PhaseMove
  <2> QED
    BY <1>0, <1>1, <2>1, MoveOne, Zenon DEF WatchPick
<1>2. CASE WatchPropose
  <2>1. PICK action : esc' = IF esc[watch.id] # watch.copy THEN esc
                             ELSE [esc EXCEPT ![watch.id].phase = "AwaitingApproval",
                                              ![watch.id].action = action]
    BY <1>2, Zenon DEF WatchPropose
  <2>2. CASE UNCHANGED esc
    BY <2>2, Zenon DEF Moved
  <2>3. CASE /\ esc[watch.id] = watch.copy
             /\ esc' = [esc EXCEPT ![watch.id].phase = "AwaitingApproval",
                                   ![watch.id].action = action]
    <3>1. watch.id \in Ids /\ esc[watch.id].phase = "Analyzing"
      BY <1>2, <2>3, Zenon DEF WatchPropose, OpsInv, WatchInv
    <3>2. \A i \in Ids : esc'[i] =
            IF i = watch.id
            THEN [esc[i] EXCEPT !.phase = "AwaitingApproval", !.action = action]
            ELSE esc[i]
      BY <1>0, <2>3, <3>1, TwoFields, Zenon DEF Shapes
    <3> QED
      BY <3>1, <3>2, Zenon DEF Moved
  <2> QED
    BY <2>1, <2>2, <2>3, Zenon
<1>3. CASE runApprove
  <2>1. PICK i \in Ids : /\ esc[i].phase = "AwaitingApproval"
                        /\ esc' = [esc EXCEPT ![i].phase = "Approved"]
    BY <1>3, Zenon DEF runApprove
  <2>2. PhaseMove(esc[i].phase, "Approved")
    BY <2>1, Zenon DEF PhaseMove
  <2> QED
    BY <1>0, <2>1, <2>2, MoveOne, Zenon
<1>4. CASE runReject
  <2>1. PICK i \in Ids : /\ esc[i] # Absent /\ ~IsTerminalPhase(esc[i].phase)
                        /\ esc' = [esc EXCEPT ![i].phase = "Rejected"]
    BY <1>4, Zenon DEF runReject
  <2>2. PhaseMove(esc[i].phase, "Rejected")
    BY <2>1, Zenon DEF CacheInv, PhaseMove
  <2> QED
    BY <1>0, <2>1, <2>2, MoveOne, Zenon
<1> QED
  BY <1>1, <1>2, <1>3, <1>4, Zenon

LEMMA EscMoves ==
  ASSUME OpsInv, CacheInv, [Next]_vars
  PROVE  /\ \A i \in Ids : Moved(i)
         /\ escCache' = escCache \/ (escCache' = esc /\ UNCHANGED <<esc, nEsc>>)
<1>1. CASE Reconcile
  <2>1. escCache' = escCache
    BY <1>1, Zenon DEF Reconcile, OpsStart, OpsWriteApproved, OpsMarkExecuted, OpsGC, OpsDecide,
       AutoPatch, OpsCreate, AutoStatus, EscalateStatus, cacheVars
  <2> QED
    BY <1>1, <2>1, ReconcileMoves, Zenon
<1>2. CASE WatchPick \/ WatchPropose \/ runApprove \/ runReject
  <2>1. escCache' = escCache
    BY <1>2, Zenon DEF WatchPick, WatchPropose, runApprove, runReject, cacheVars
  <2> QED
    BY <1>2, <2>1, OthersMove, Zenon
<1>3. CASE \/ Consume \/ WatchStops \/ WriteGarbage \/ PodChanges \/ SyncClaw
           \/ SyncEscalations \/ Tick \/ OperatorRestart \/ UNCHANGED vars
  <2>1. UNCHANGED <<esc, nEsc>> /\ escCache' \in {escCache, esc}
    BY <1>3, Zenon DEF Consume, ConsumeRead, ConsumeDelete, ConsumePatch, WatchStops, WriteGarbage,
       PodChanges, SyncClaw, SyncEscalations, Tick, OperatorRestart, vars, objVars, cacheVars
  <2> QED
    BY <2>1, Zenon DEF Moved
<1> QED
  BY <1>1, <1>2, <1>3, Zenon DEF Next

LEMMA CacheStep ==
  ASSUME OpsInv, OpsInv', EscStep, CacheInv, [Next]_vars
  PROVE  CacheInv'
<1>1. nEsc \in Nat /\ nEsc' \in Nat /\ nEsc' >= nEsc
  BY Zenon DEF OpsInv, Shapes, EscStep
<1>2. ASSUME NEW i \in Ids
      PROVE  esc'[i] = Absent \/ esc'[i].phase \in Open \/ IsTerminalPhase(esc'[i].phase)
  <2>1. Moved(i) /\ Shape(esc[i])
    BY <1>2, EscMoves, Zenon DEF OpsInv, Shapes
  <2>2. \A ph, action : [esc[i] EXCEPT !.phase = ph, !.action = action].phase = ph
    BY <2>1, TwoFields, Zenon
  <2>3. \A ph : PhaseMove(esc[i].phase, ph) => ph \in Open \/ IsTerminalPhase(ph)
    BY Zenon DEF PhaseMove, Open, IsTerminalPhase
  <2>4. esc[i] = Absent \/ esc[i].phase \in Open \/ IsTerminalPhase(esc[i].phase)
    BY <1>2, Zenon DEF CacheInv
  <2>5. "" \in Open /\ "AwaitingApproval" \in Open
    BY Zenon DEF Open
  <2>6. CASE \E action : esc'[i] = [esc[i] EXCEPT !.phase = "AwaitingApproval",
                                               !.action = action]
    <3>1. PICK action : esc'[i] = [esc[i] EXCEPT !.phase = "AwaitingApproval",
                                                 !.action = action]
      BY <2>6, Zenon
    <3>2. esc'[i].phase = "AwaitingApproval"
      BY <2>2, <3>1, Zenon
    <3> QED
      BY <2>5, <3>2, Zenon
  <2>7. CASE PhaseMove(esc[i].phase, esc'[i].phase)
    BY <2>3, <2>7, Zenon
  <2>8. CASE esc'[i] \in {esc[i], Absent} \/ esc'[i].phase = ""
    BY <2>4, <2>5, <2>8, Zenon
  <2> QED
    BY <2>1, <2>6, <2>7, <2>8, Zenon DEF Moved
<1>3. ASSUME NEW i \in Ids
      PROVE  /\ i > nEsc' => escCache'[i] = Absent
             /\ IsTerminalPhase(escCache'[i].phase) => esc'[i] \in {escCache'[i], Absent}
  <2>1. /\ Moved(i)
        /\ escCache' = escCache \/ (escCache' = esc /\ UNCHANGED <<esc, nEsc>>)
    BY <1>3, EscMoves, Zenon
  <2>2. CASE escCache' = esc /\ UNCHANGED <<esc, nEsc>>
    BY <1>3, <2>2, Zenon DEF OpsInv, EscInv
  <2>3. CASE escCache' = escCache
    <3>1. i \in Nat
      BY <1>3 DEF Ids
    <3>2. i > nEsc' => i > nEsc
      BY <1>1, <3>1
    <3>3. ~(nEsc + 1 > nEsc) => FALSE
      BY <1>1
    <3>4. i > nEsc => escCache[i] = Absent
      BY <1>3, Zenon DEF CacheInv
    <3>5. ~IsTerminalPhase(Absent.phase)
      BY DEF Absent, IsTerminalPhase
    <3>6. ASSUME IsTerminalPhase(escCache[i].phase) PROVE esc'[i] \in {escCache[i], Absent}
      <4>1. esc[i] \in {escCache[i], Absent}
        BY <1>3, <3>6, Zenon DEF CacheInv
      <4>2. CASE IsTerminalPhase(esc[i].phase)
        BY <1>3, <4>1, <4>2, Zenon DEF EscStep
      <4>3. CASE esc[i] = Absent
        <5>1. i # nEsc + 1
          BY <3>3, <3>4, <3>5, <3>6, Zenon
        <5>2. \A ph : ~PhaseMove("absent", ph)
          BY Zenon DEF PhaseMove, Open
        <5> QED
          BY <2>1, <4>3, <5>1, <5>2, AbsentPhase, Zenon DEF Moved
      <4> QED
        BY <3>6, <4>1, <4>2, <4>3, Zenon
    <3> QED
      BY <2>3, <3>2, <3>4, <3>6, Zenon
  <2> QED
    BY <2>1, <2>2, <2>3, Zenon
<1> QED
  BY <1>2, <1>3, Zenon DEF CacheInv

\* An escalation goes through its phases in order, whichever way the ClawOps
\* controller, the watcher and kubectl-claw race on it: it is created once, only
\* a proposal that waits for approval is approved, only an approved one is
\* executed, what is proposed never changes once somebody can approve it, and
\* although gcExpiredEscalations decides on a cached list only an escalation that
\* has an outcome is deleted.
THEOREM PhasesInOrder == SafetySpec => [][\A i \in Ids : Moved(i)]_vars
<1>1. Init => CacheInv
  BY Zenon DEF Init, CacheInv
<1>2. OpsInv /\ CacheInv /\ [Next]_vars =>
        OpsInv' /\ CacheInv' /\ [\A i \in Ids : Moved(i)]_vars
  BY OpsStep, CacheStep, EscMoves, Zenon
<1> QED
  BY <1>1, <1>2, OpsInit, PTL DEF SafetySpec
=============================================================================
