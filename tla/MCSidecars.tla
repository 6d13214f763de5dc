----------------------------- MODULE MCSidecars -----------------------------
(* Each sidecar in each mode, with two events, a reply and SIGTERM.        *)
EXTENDS Sidecars

(* The outbound loop never hangs on one reply: rate limits, errors and      *)
(* cancellation all lead back to the loop.                                  *)
EveryPostEnds == out \in {"post", "sleep"} ~> (out \in {"idle", "off"} \/ ctx = "exited")
=============================================================================
