-------------------------- MODULE InstallerService --------------------------
(***************************************************************************)
(* What a node's container runtime may expect of the installer of          *)
(* linkerd's CNI plugin, with nothing said of how it goes about it: while   *)
(* it is up it puts linkerd into the configuration the runtime uses, keeps  *)
(* the plugin's kubeconfig fresh and its binary in place, and takes none of *)
(* them back, whoever else writes to the host.  Only an installer that was  *)
(* told to stop does.                                                       *)
(***************************************************************************)
EXTENDS Naturals

VARIABLES phase,  \* of the installer
          conf,   \* what the runtime's configuration runs
          kube,   \* the credentials in the plugin's kubeconfig
          bin,    \* whether the plugin's binary is installed
          given   \* what the providers and the kubelet have written so far

vars == <<phase, conf, kube, bin, given>>

Phases == {"up", "stuck", "stopping", "down"}
Confs  == {"none", "other", "linkerd"}
Kubes  == {"none", "stale", "fresh"}

Init == /\ phase = "up" /\ conf \in Confs
        /\ kube = "none" /\ bin = FALSE

\* A provider writes, moves or deletes a configuration.
Provide ==
  /\ given' # given
  /\ conf' \in Confs
  /\ UNCHANGED <<phase, kube, bin>>

\* The kubelet rotates the token.
Rotate ==
  /\ given' # given
  /\ kube' = IF kube = "fresh" THEN "stale" ELSE kube
  /\ UNCHANGED <<phase, conf, bin>>

\* The installer's own steps, until it is told to stop.
Install ==
  /\ phase = "up" /\ bin' = TRUE
  /\ UNCHANGED <<phase, conf, kube, given>>

Inject ==
  /\ phase = "up" /\ conf # "linkerd"
  /\ conf' \in Confs
  /\ UNCHANGED <<phase, kube, bin, given>>

Configure ==
  /\ phase = "up" /\ kube # "fresh"
  /\ kube' \in {"stale", "fresh"}
  /\ UNCHANGED <<phase, conf, bin, given>>

\* It may stop for an error, or be stopped; stuck, it does nothing any more.
Stop ==
  /\ phase # "down"
  /\ phase' \in Phases \ {phase, "up"}
  /\ UNCHANGED <<conf, kube, bin, given>>

\* Told to stop, it takes back what it did, in any order.
Remove ==
  /\ phase = "stopping"
  /\ conf' \in Confs /\ kube' \in Kubes /\ bin' \in BOOLEAN
  /\ UNCHANGED <<phase, given>>

Restart ==
  /\ phase = "down" /\ phase' = "up"
  /\ UNCHANGED <<conf, kube, bin, given>>

Next == Provide \/ Rotate \/ Install \/ Inject \/ Configure \/ Stop \/ Remove \/ Restart

Serving == bin /\ kube = "fresh" /\ conf \in {"none", "linkerd"}

\* Once the others have done what they had to, an installer that is up serves.
Progress == <>[](phase = "up" => Serving)

Safety == Init /\ [][Next]_vars
Spec   == Safety /\ Progress
=============================================================================
