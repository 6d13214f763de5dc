----------------------------- MODULE MCLifecycle -----------------------------
(***************************************************************************)
(* ClawOperator for TLC.   A run looks at two or three kinds of objects    *)
(* and at one or two disturbances; between them the runs cover all kinds.  *)
(***************************************************************************)
EXTENDS ClawOperator, TLC

Volume(class, size) == [class |-> class, size |-> size]
Session == [v \in Persistent |-> IF v = "session" THEN Volume(NoClass, 1) ELSE Off]

None == [b \in Bounds |-> 0] @@ [runtimes |-> {"openclaw"}, vols |-> Session,
                                 resizes |-> {}, native |-> TRUE]
Limit(ks, ps, on, flip, bounds) ==
  bounds @@ [kinds |-> ks, policies |-> ps, on |-> on \cup {"keys"}, flips |-> flip]
         @@ None

\* Edits of volumes and of what the pod consists of, some of them refused.
MCVolumes ==
  [resizes |-> {<<"session", v>> : v \in {Off, Volume(NoClass, 2), Volume("fast", 1)}}]

MCLimits ==
  {Limit({"Role", "PDB"}, {"Retain"}, {}, {"selfConfigure", "pdb"},
         [edits |-> 1, foreign |-> 1, deletes |-> 1]),
   Limit({"RoleBinding", "Ingress"}, {"Retain"}, {}, {"selfConfigure", "ingress"},
         [edits |-> 1, losses |-> 1, crashes |-> 1]),
   Limit({"ServiceAccount", "NetworkPolicy"}, {"Retain"}, {},
         {"networkPolicy", "ownAccount"}, [edits |-> 2, foreign |-> 1]),
   Limit({"Service", "ConfigMap"}, {"Retain"}, {}, {"pdb"},
         [edits |-> 1, foreign |-> 1]),
   Limit({"StatefulSet"}, {""}, {}, {}, [losses |-> 1, deletes |-> 1]),
   Limit({"StatefulSet"}, {"Delete", "Archive"}, {}, {}, [deletes |-> 1, crashes |-> 1]),
   Limit({"StatefulSet"}, {"Retain"}, {"channel"}, {}, [channels |-> 1]),
   Limit({}, {"Retain"}, {"channel"}, {"channel"},
         [edits |-> 1, channels |-> 1, drops |-> 1]),
   Limit({}, {"Retain"}, {"snapshot"}, {}, [ticks |-> 2, deletes |-> 1, crashes |-> 1]),
   Limit({}, {"Retain"}, {"selfConfigure"}, {"selfConfigure"},
         [edits |-> 1, configs |-> 1, ticks |-> 1]),
   Limit({}, {"Delete"}, {"selfConfigure"}, {}, [configs |-> 1, deletes |-> 1])}
  \cup {MCVolumes @@ Limit({"StatefulSet"}, {"Retain"}, {}, {}, [edits |-> 2]),
        [runtimes |-> {"hermesrs"}, native |-> FALSE] @@
          Limit({"StatefulSet"}, {"Retain"}, {"channel", "cache"}, {}, [channels |-> 1]),
        [runtimes |-> {"hermesclaw"}] @@
          Limit({"StatefulSet"}, {"Retain"}, {"cache"}, {"channel", "badCache"},
                [edits |-> 1]),
        [runtimes |-> {"k8sops"}] @@
          Limit({"StatefulSet"}, {"Retain"}, {"networkPolicy", "channel", "shared"},
                {"archive", "networkPolicy", "badSchedule"}, [edits |-> 1])}

\* One Claw, created and deleted; nothing else happens.
MCRetainLimits ==
  {Limit({"StatefulSet"}, {"Retain", "Archive"}, {}, {}, [deletes |-> 1])}

\* An allowed request, one too large and one that is not allowed.
MCRequests ==
  {[a \in Actions |-> IF a = ask THEN n ELSE 0] : <<ask, n>> \in
     {<<"skills", 10>>, <<"skills", 11>>, <<"envVars", 1>>}}
MCAllowed == {"skills", "config"}
MCModes == {"inbound", "outbound"}

\* Under Retain and Archive the data outlives the Claw
\* (removePVCOwnerReferences).
RetainKeepsData ==
  [][("Delete" \notin limit.policies /\ pvc # NoObj) => pvc' # NoObj]_allVars

Fits(k) ==
  LET wanted == CASE k \in {"Role", "RoleBinding"} -> needsRBAC(claw)
                  [] k = "NetworkPolicy" -> networkPolicyEnabled(claw)
                  [] k = "Ingress" -> ingressEnabled(claw)
                  [] k = "PDB" -> pdbEnabled(claw)
                  [] OTHER -> TRUE
  IN \/ ~wanted /\ child[k] = NoObj
     \/ /\ wanted /\ child[k] # NoObj
        /\ child[k].owner = claw.uid /\ child[k].data = Content(k, claw)
     \/ k = "ServiceAccount" /\ isUserManagedSA(claw)

\* When nobody interferes any more, the objects are those the Claw asks for,
\* built from its latest revision, the status says so, and a deleted Claw is
\* gone with everything it controls.
Converged ==
  \/ claw = NoObj /\ \A k \in limit.kinds : ~Controlled(child[k])
  \/ \E k \in limit.kinds : child[k] # NoObj /\ child[k].owner = 0
  \/ /\ claw # NoObj /\ ~claw.deleting /\ claw.observed = claw.rev
     /\ \A k \in limit.kinds : Fits(k)
Converges == <>[]Converged

\* A deleted channel goes once no Claw refers to it, although no event of a
\* Claw is a request for the channel (RequeueAfter in handleChannelDeletion).
ChannelGone ==
  []<>~(chan # NoObj /\ chan.deleting /\ (claw = NoObj \/ "channel" \notin claw.on))
=============================================================================
