------------------------------ MODULE MCClient ------------------------------
(* The SDK client against a bus that crashes, drops it and throttles it.   *)
EXTENDS ChannelClient, TLC

CONSTANTS m1, m2

MCMsgs == {m1, m2}
MCSymmetry == Permutations(MCMsgs)

Limit(f, s, b, c, o) ==
  [faults |-> f, signals |-> s, beats |-> b, closes |-> c, oversized |-> o]

\* Connections lost twice; one lost with heartbeats, and with a signal; two
\* signals; Close; any one message too large.
MCLimits == { Limit(2, 0, FALSE, FALSE, {}),
              Limit(1, 0, TRUE, FALSE, {}),
              Limit(1, 1, FALSE, FALSE, {}),
              Limit(0, 2, FALSE, FALSE, {}),
              Limit(0, 1, FALSE, TRUE, {}) }
            \cup { Limit(0, 0, FALSE, FALSE, {m}) : m \in MCMsgs }

\* One message, and connections lost twice.
OneMsg == {m1}
TwoFaults == { Limit(2, 0, FALSE, FALSE, {}) }

-----------------------------------------------------------------------------
(* The client reconnects by itself: while the sidecar runs and the bus is    *)
(* restarted, a lost connection is eventually replaced.                      *)
Reconnects ==
  (phase = "running" /\ conn = Nil /\ dials < MaxDials)
    ~> (conn # Nil \/ Done \/ panicked)
=============================================================================
