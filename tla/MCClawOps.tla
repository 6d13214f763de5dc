------------------------------ MODULE MCClawOps ------------------------------
(***************************************************************************)
(* ClawOps for TLC: one Claw with one or two pods, one automatic action an *)
(* hour, a few escalations.                                                *)
(***************************************************************************)
EXTENDS ClawOps

CONSTANTS p1

Container(oom, crash, count) ==
  [oomKilled |-> oom, waiting |-> crash, restarts |-> count]
Pod(containers) == [evicted |-> FALSE, containers |-> containers]

Gone == [evicted |-> TRUE, containers |-> <<>>]
Crash == Pod(<<Container(FALSE, TRUE, 5)>>)
Both == Pod(<<Container(TRUE, TRUE, 2), Container(FALSE, TRUE, 4)>>)

MCPodNames == <<p1>>
MCPodStates == {Gone, Crash, Both, Healthy}
MCCooldown == [r \in RuleIDs |-> 0]

Limit(watched, shows, escs, ticks, changes, failures, starts, edits) ==
  [watcher |-> watched, shown |-> shows, escs |-> escs, ticks |-> ticks,
   sick |-> changes, errors |-> failures, restarts |-> starts, garbage |-> edits]

MCLimits ==
  {Limit(TRUE, {Gone, Crash}, 2, 0, 1, 1, 0, 0),    \* a call fails
   Limit(TRUE, {Gone}, 2, 0, 1, 0, 1, 0),           \* a restart
   Limit(TRUE, {Gone}, 2, 0, 1, 0, 0, 1),           \* an invalid intent
   Limit(TRUE, {Gone}, 2, 1, 1, 0, 0, 0),           \* escalations expire
   Limit(FALSE, {Both}, 3, 0, 1, 1, 0, 0),          \* two signals at once
   Limit(FALSE, {Crash, Healthy}, 3, 1, 2, 0, 0, 0)}  \* two actions in an hour

\* Two actions compete, neither call nor process fails.
MCReplayLimits == {Limit(TRUE, {Gone, Crash}, 3, 0, 2, 0, 0, 0)}

\* The generation counter is only advanced, although it is patched without a
\* lock from a stale copy (clearOpsIntentAnnotations).
GenNeverLowered == [][claw'.gen >= claw.gen]_vars

Approved == {i \in Ids : esc[i].phase = "Approved"}

\* What was approved is acted on or rejected, as long as no call fails: no
\* approval is lost between the watch events and the cached lists
\* (processApprovedEscalations).
ApprovedIsHandled == (Approved # {}) ~> (Approved = {} \/ errors > 0)
=============================================================================
