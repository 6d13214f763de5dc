------------------------------ MODULE Admission ------------------------------
(***************************************************************************)
(* The admission webhooks for Claws (internal/webhook) and the validators  *)
(* of the runtimes they call (internal/runtime): which specs the API       *)
(* server stores.                                                          *)
(*                                                                         *)
(* Besides on and vols (see PodTemplate) a spec has the field runtime.     *)
(* In on, "badSchedule" stands for an auto-update setting that does not    *)
(* parse or is out of range, "otherPath" for a session or workspace volume *)
(* mounted elsewhere than the Hermes runtimes want it, "badCache" for a    *)
(* cache size that is no quantity.  Size 0 is a size that is no quantity.  *)
(***************************************************************************)
EXTENDS Naturals, PodTemplate

CONSTANT NoClass   \* no storage class is named

Runtimes == {"openclaw", "hermesclaw", "hermesrs", "k8sops"}

\* The webhook of ClawDefaulter.
Default(policy) == IF policy = "" THEN "Retain" ELSE policy

-----------------------------------------------------------------------------
(* Rules for one object.                                                   *)

validateCredentialExclusivity(c) == ~({"secretRef", "externalSecret"} \subseteq c.on)

validateVolumeSize(vol) == vol.size > 0

validatePVCSizes(c) ==
  /\ \A v \in Enabled(c) : validateVolumeSize(c.vols[v])
  /\ ~({"cache", "badCache"} \subseteq c.on)

validateAutoUpdate(c) == ~({"autoUpdate", "badSchedule"} \subseteq c.on)

hasCredentials(c) == c.on \cap {"secretRef", "externalSecret", "keys"} # {}

\* The Hermes runtimes prescribe where session and workspace are mounted.
RightPaths(c) == "otherPath" \in c.on => Enabled(c) \cap {"session", "workspace"} = {}

OpenClawValidate(c) == hasCredentials(c)
HermesClawValidate(c) == hasCredentials(c) /\ "channel" \notin c.on /\ RightPaths(c)
HermesRSValidate(c) == hasCredentials(c) /\ RightPaths(c)
K8sOpsValidate(c) == "networkPolicy" \in c.on

validateRuntime(c) ==
  CASE c.runtime = "openclaw" -> OpenClawValidate(c)
    [] c.runtime = "hermesclaw" -> HermesClawValidate(c)
    [] c.runtime = "hermesrs" -> HermesRSValidate(c)
    [] c.runtime = "k8sops" -> K8sOpsValidate(c)
    [] OTHER -> FALSE

-----------------------------------------------------------------------------
(* Rules for a change.                                                     *)

validateRuntimeImmutability(old, new) == old.runtime = new.runtime

\* Faulty variant: the size may shrink.
MutVolumeUpdate(old, new) ==
  old # Off /\ new # Off => old.class \in {NoClass, new.class}

\* A volume that is off before or after the change is not looked at.
validateVolumeUpdate(old, new) ==
  old # Off /\ new # Off
    => /\ old.class \in {NoClass, new.class}
       /\ (old.size > 0 /\ new.size > 0) => new.size >= old.size

validatePersistenceUpdate(old, new) ==
  \A v \in Persistent : validateVolumeUpdate(old.vols[v], new.vols[v])

\* Of the runtimes only k8sops repeats on an update what it asks of a new
\* Claw, and it does not look at the volumes.
validateRuntimeUpdate(old, new) ==
  IF new.runtime = "k8sops" THEN K8sOpsValidate(new)
  ELSE new.runtime \in Runtimes => validatePersistenceUpdate(old, new)

-----------------------------------------------------------------------------
ValidateCreate(c) ==
  /\ validateCredentialExclusivity(c) /\ validatePVCSizes(c)
  /\ validateAutoUpdate(c) /\ validateRuntime(c)

ValidateUpdate(old, new) ==
  /\ validateRuntimeImmutability(old, new)
  /\ validateCredentialExclusivity(new) /\ validatePVCSizes(new)
  /\ validateAutoUpdate(new) /\ validateRuntimeUpdate(old, new)
=============================================================================
