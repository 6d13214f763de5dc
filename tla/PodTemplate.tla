----------------------------- MODULE PodTemplate -----------------------------
(***************************************************************************)
(* The pod template and the volume claim templates of a Claw's             *)
(* StatefulSet (internal/runtime/pod_builder.go and the injectors of       *)
(* internal/controller), as far as containers, their order and their       *)
(* volumes go.                                                             *)
(*                                                                         *)
(* A spec c is a record with the fields                                    *)
(*   on    what is switched on, a set of names,                            *)
(*   vols  the persistent volumes: Off, or their storage class and size.   *)
(* A template is the sequence of init containers, the sequence of          *)
(* containers, and the set of the pod's volumes; a container is its name   *)
(* and the set of the volumes it mounts.                                   *)
(***************************************************************************)
EXTENDS Sequences

CONSTANT Off    \* a persistent volume that is absent or not enabled

Persistent == {"session", "output", "workspace"}

Enabled(c) == {v \in Persistent : c.vols[v] # Off}

\* What an option of the spec contributes.
When(cond, S) == IF cond THEN S ELSE {}

-----------------------------------------------------------------------------
(* pod_builder.go                                                          *)

hasWorkspacePVC(c) == "workspace" \in Enabled(c)

\* The persistent volumes are not among them: they are claims.
buildVolumes(c) ==
  {"ipc-socket", "wal-data", "config-vol", "tmp"}
    \cup When("cache" \in c.on, {"cache"})
    \cup When("shared" \in c.on, {"shared"})

buildInitContainer(c) ==
  [name |-> "claw-init",
   mounts |-> {"config-vol", "tmp"} \cup When(hasWorkspacePVC(c), {"workspace"})]

\* The adapters' extra mounts are of config-vol, too.
buildRuntimeContainer(c) ==
  [name |-> "runtime",
   mounts |-> {"ipc-socket", "wal-data", "config-vol", "tmp"}
                \cup When("cache" \in c.on, {"cache"})
                \cup Enabled(c)
                \cup When("shared" \in c.on, {"shared"})]

BuildPodTemplate(c) ==
  [init |-> <<buildInitContainer(c)>>,
   main |-> <<buildRuntimeContainer(c)>>,
   volumes |-> buildVolumes(c)]

BuildVolumeClaimTemplates(c) == [v \in Enabled(c) |-> c.vols[v]]

-----------------------------------------------------------------------------
(* claw_ipcbus.go                                                          *)

shouldInjectIPCBus(c) == "channel" \in c.on

Bus == [name |-> "ipc-bus", mounts |-> {"ipc-socket", "wal-data"}]

Has(containers, name) == \E i \in DOMAIN containers : containers[i].name = name

\* Faulty variant: the bus is a container like the runtime.
MutBusMain(t) == [t EXCEPT !.main = Append(t.main, Bus)]

\* Right after claw-init.
injectIPCBusSidecar(t) ==
  [t EXCEPT !.init = IF t.init = <<>> THEN <<Bus>>
                     ELSE <<Head(t.init), Bus>> \o Tail(t.init)]

injectIPCBusIfNeeded(c, t) ==
  IF shouldInjectIPCBus(c) /\ ~Has(t.init, Bus.name)
  THEN injectIPCBusSidecar(t) ELSE t

-----------------------------------------------------------------------------
(* channel_sidecar.go, for the one channel a Claw may refer to.            *)

\* A bidirectional channel serves every request.
isModeCompatible(requested, capability) ==
  capability \in {"bidirectional", requested}

buildChannelContainer == [name |-> "channel", mounts |-> {"ipc-socket"}]

\* A channel that is missing or does not fit is skipped: fits says neither.
\* A native sidecar is an init container.
injectChannelSidecars(c, t, fits, native) ==
  IF "channel" \notin c.on \/ ~fits THEN t
  ELSE IF native THEN [t EXCEPT !.init = Append(t.init, buildChannelContainer)]
  ELSE [t EXCEPT !.main = Append(t.main, buildChannelContainer)]

-----------------------------------------------------------------------------
(* claw_archiver.go                                                        *)

\* output.enabled is not looked at.
shouldInjectArchiver(c) == "archive" \in c.on

injectArchiverSidecar(t) ==
  [t EXCEPT !.init = Append(t.init, [name |-> "archive-sidecar", mounts |-> {"output"}])]

injectArchiverIfNeeded(c, t) ==
  IF shouldInjectArchiver(c) /\ ~Has(t.init, "archive-sidecar")
  THEN injectArchiverSidecar(t) ELSE t

-----------------------------------------------------------------------------
(* buildStatefulSet                                                        *)

Template(c, fits, native) ==
  injectArchiverIfNeeded(c,
    injectChannelSidecars(c, injectIPCBusIfNeeded(c, BuildPodTemplate(c)),
                          fits, native))

\* The order in which the kubelet starts the containers.
Starts(t) == t.init \o t.main

Mounts(t) == UNION {Starts(t)[i].mounts : i \in DOMAIN Starts(t)}
=============================================================================
