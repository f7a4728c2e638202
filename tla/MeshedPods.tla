------------------------------ MODULE MeshedPods ------------------------------
(***************************************************************************)
(* What linkerd's CNI plugin, the network validator and the repair         *)
(* controller together promise of the pods of a node: a pod serves only if *)
(* its traffic goes through the proxy, and a pod that was started without  *)
(* that is replaced.  RepairController implements it.                      *)
(***************************************************************************)
CONSTANT Name

VARIABLES phase,     \* of the pod of each name: outside or inside the mesh, if it runs
          suspect,   \* names of pods that have failed to validate
          leaving    \* names of pods their owners have deleted

vars == <<phase, suspect, leaving>>

Phase == {"absent", "waiting", "outside", "inside", "serving"}

Init == /\ phase \in [Name -> {"absent", "waiting"}]
        /\ suspect = {} /\ leaving = {}

Move(n, from, to) ==
  /\ phase[n] \in from
  /\ \E p \in to : phase' = [phase EXCEPT ![n] = p]
  /\ UNCHANGED <<suspect, leaving>>

Create(n) == Move(n, {"absent"}, {"waiting"})

\* A pod gets its rules when it is started, or never.
Start(n) == Move(n, {"waiting"}, {"outside", "inside"})

Serve(n) == Move(n, {"inside"}, {"serving"})

Doubt(n) == /\ phase[n] \in {"outside", "inside"}
            /\ suspect' = suspect \cup {n}
            /\ UNCHANGED <<phase, leaving>>

Leave(n) == /\ phase[n] # "absent"
            /\ leaving' = leaving \cup {n}
            /\ UNCHANGED <<phase, suspect>>

End(n) == /\ n \in suspect \cup leaving
          /\ phase' = [phase EXCEPT ![n] = "absent"]
          /\ suspect' = suspect \ {n} /\ leaving' = leaving \ {n}

Next == \E n \in Name :
          Create(n) \/ Start(n) \/ Serve(n) \/ Doubt(n) \/ Leave(n) \/ End(n)

\* Every pod serves or ends: one outside the mesh, which cannot serve, ends.
Progress == \A n \in Name : phase[n] # "absent" ~> phase[n] \in {"serving", "absent"}

Safety == Init /\ [][Next]_vars

Spec == Safety /\ Progress
=============================================================================
