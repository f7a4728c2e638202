--------------------------- MODULE RepairController ---------------------------
(***************************************************************************)
(* The repair controller of one node (cni-repair-controller).  A pod that  *)
(* was started before linkerd's CNI plugin was configured has no redirect  *)
(* rules: its init container linkerd-network-validator fails with exit     *)
(* code 95, over and over.  The controller watches the pods and deletes    *)
(* those, so that their owner creates them again.                          *)
(*                                                                         *)
(* Two tasks run, joined by a channel of bounded capacity: process_events  *)
(* reads the watch and puts references of failed pods into the channel,    *)
(* dropping them when it is full; process_pods takes them out and deletes  *)
(* the pods by name, giving up on a request after a second.  Around them   *)
(* act the kubelet, which runs the validator, the pods' owners, and the    *)
(* API server, whose requests may fail, get lost or be late and whose      *)
(* watch may break off.                                                    *)
(***************************************************************************)
EXTENDS Integers, Sequences, FiniteSets

CONSTANTS Name,                    \* names of pods
          NoName,                  \* no name of a pod
          InitialPods,             \* those that exist at the start
          NamesReused,             \* an owner gives a new pod the old one's name
          EVENT_CHANNEL_CAPACITY,  \* 32
          MaxStream,               \* bound on the events the watch is behind
          MaxPods,                 \* bound on the pods ever created
          MaxTransient,            \* bound on validators that fail although rules are set
          MaxFaults                \* bound on faults of the API and of the controller

ASSUME RepairAssumption ==
  /\ NoName \notin Name
  /\ InitialPods \subseteq Name /\ IsFiniteSet(InitialPods)
  /\ NamesReused \in BOOLEAN
  /\ EVENT_CHANNEL_CAPACITY \in Nat \ {0}
  /\ MaxStream \in Nat /\ MaxPods \in Nat /\ MaxTransient \in Nat /\ MaxFaults \in Nat

VARIABLES pods,     \* the pod of each name
          names,    \* names that have been used
          ready,    \* the CNI plugin is configured on the node
          stream,   \* Apply events of the watch, not yet received
          queue,    \* the channel: the names in its references
          repair,   \* where process_pods is
          ref,      \* the name in the reference it handles
          late,     \* names in delete requests it has given up on
          born, transients, faults

clusterVars == <<pods, names, ready, stream, born, transients>>
repairVars  == <<repair, ref, late>>
vars == <<clusterVars, queue, repairVars, faults>>

\* rules: its traffic is redirected; last95: the last state of its validator is
\* terminated with code 95; deleting: it has a deletion timestamp.
NewPod == [rules |-> FALSE, validator |-> "waiting", last95 |-> FALSE, deleting |-> FALSE]
NoPod  == [NewPod EXCEPT !.validator = "none"]

Exists(n) == pods[n] # NoPod

Init ==
  /\ pods = [n \in Name |-> IF n \in InitialPods THEN NewPod ELSE NoPod]
  /\ names = InitialPods /\ born = Cardinality(InitialPods)
  /\ ready = FALSE
  /\ stream = <<>> /\ queue = <<>>
  /\ repair = "recv" /\ ref = NoName /\ late = {}
  /\ transients = 0 /\ faults = 0

-----------------------------------------------------------------------------
(* The kubelet and the pods' owners. *)

\* A pod changes, and the watch reports it.
Update(n, pod) ==
  /\ Len(stream) < MaxStream
  /\ pods' = [pods EXCEPT ![n] = pod]
  /\ stream' = Append(stream, [name |-> n, pod |-> pod])

\* The installer has written the node's CNI configuration.
CniReady ==
  /\ ~ready /\ ready' = TRUE
  /\ UNCHANGED <<pods, names, stream, born, transients, queue, repairVars, faults>>

\* The installer is removed and takes the plugin out of the configuration.
CniGone ==
  /\ ready /\ ready' = FALSE
  /\ faults < MaxFaults /\ faults' = faults + 1
  /\ UNCHANGED <<pods, names, stream, born, transients, queue, repairVars>>

\* The pod is scheduled to the node.
CreatePod(n) ==
  /\ ~Exists(n) /\ born < MaxPods
  /\ NamesReused \/ n \notin names
  /\ born' = born + 1 /\ names' = names \cup {n}
  /\ Update(n, NewPod)
  /\ UNCHANGED <<ready, transients, queue, repairVars, faults>>

\* Its sandbox is set up, by the plugin too if it is configured now: the pod has its
\* rules from the start or never.  Until its ADD succeeds the pod waits.
StartPod(n) ==
  /\ Exists(n) /\ pods[n].validator = "waiting" /\ ~pods[n].deleting
  /\ Update(n, [pods[n] EXCEPT !.rules = ready, !.validator = "running"])
  /\ UNCHANGED <<names, ready, born, transients, queue, repairVars, faults>>

\* The validator exits with 95 if its connection is not redirected to itself, and
\* also on a signal or, for other reasons, on its timeout.
ValidatorFails(n) ==
  /\ Exists(n) /\ pods[n].validator = "running"
  /\ IF pods[n].rules /\ ~pods[n].deleting
     THEN transients < MaxTransient /\ transients' = transients + 1
     ELSE transients' = transients
  /\ Update(n, [pods[n] EXCEPT !.validator = "failed"])
  /\ UNCHANGED <<names, ready, born, queue, repairVars, faults>>

\* Only now is the failure its last state.
ValidatorRestarts(n) ==
  /\ Exists(n) /\ pods[n].validator = "failed" /\ ~pods[n].deleting
  /\ Update(n, [pods[n] EXCEPT !.validator = "running", !.last95 = TRUE])
  /\ UNCHANGED <<names, ready, born, transients, queue, repairVars, faults>>

\* Mutated form of ValidatorPasses: the server reached need not be the validator's own.
MutValidatorPasses(n) ==
  /\ Exists(n) /\ pods[n].validator = "running"
  /\ Update(n, [pods[n] EXCEPT !.validator = "passed"])
  /\ UNCHANGED <<names, ready, born, transients, queue, repairVars, faults>>

ValidatorPasses(n) ==
  /\ Exists(n) /\ pods[n].validator = "running" /\ pods[n].rules
  /\ Update(n, [pods[n] EXCEPT !.validator = "passed"])
  /\ UNCHANGED <<names, ready, born, transients, queue, repairVars, faults>>

\* Any other change of a pod is reported with the same last state.
StatusUpdate(n) ==
  /\ Exists(n) /\ pods[n].validator = "passed"
  /\ Update(n, pods[n])
  /\ UNCHANGED <<names, ready, born, transients, queue, repairVars, faults>>

\* Its owner deletes a pod: it is given time to end, then it is gone.
DeletePod(n) ==
  /\ Exists(n) /\ ~pods[n].deleting
  /\ Update(n, [pods[n] EXCEPT !.deleting = TRUE])
  /\ UNCHANGED <<names, ready, born, transients, queue, repairVars, faults>>

PodGone(n) ==
  /\ Exists(n) /\ pods[n].deleting
  /\ pods' = [pods EXCEPT ![n] = NoPod]
  /\ UNCHANGED <<names, ready, stream, born, transients, queue, repairVars, faults>>

-----------------------------------------------------------------------------
(* process_events *)

\* The last state of the validator is terminated with 95, and the pod is not
\* being deleted.
Failed(pod) == pod.last95 /\ ~pod.deleting

\* Mutated form of process_events: every pod that is not being deleted is reported.
MutProcessEvents ==
  /\ stream # <<>>
  /\ stream' = Tail(stream)
  /\ LET evt == Head(stream)
     IN queue' = IF ~evt.pod.deleting /\ Len(queue) < EVENT_CHANNEL_CAPACITY
                 THEN Append(queue, evt.name) ELSE queue
  /\ UNCHANGED <<pods, names, ready, born, transients, repairVars, faults>>

\* Mutated form of process_events: the channel takes one reference too many.
MutTrySend ==
  /\ stream # <<>>
  /\ stream' = Tail(stream)
  /\ LET evt == Head(stream)
     IN queue' = IF Failed(evt.pod) /\ Len(queue) <= EVENT_CHANNEL_CAPACITY
                 THEN Append(queue, evt.name) ELSE queue
  /\ UNCHANGED <<pods, names, ready, born, transients, repairVars, faults>>

\* try_send: the reference of a failed pod is dropped if the channel is full.
process_events ==
  /\ stream # <<>>
  /\ stream' = Tail(stream)
  /\ LET evt == Head(stream)
     IN queue' = IF Failed(evt.pod) /\ Len(queue) < EVENT_CHANNEL_CAPACITY
                 THEN Append(queue, evt.name) ELSE queue
  /\ UNCHANGED <<pods, names, ready, born, transients, repairVars, faults>>

\* The watch breaks off and starts again with a list of the pods; listed pods are
\* no Apply events, so that what happened meanwhile is not seen.
WatchRestarts ==
  /\ faults < MaxFaults /\ faults' = faults + 1
  /\ stream' = <<>>
  /\ UNCHANGED <<pods, names, ready, born, transients, queue, repairVars>>

-----------------------------------------------------------------------------
(* process_pods *)

Recv ==
  /\ repair = "recv" /\ queue # <<>>
  /\ ref' = Head(queue) /\ queue' = Tail(queue)
  /\ repair' = "delete"
  /\ UNCHANGED <<clusterVars, late, faults>>

\* The API server deletes the pod of that name at once (grace period 0), whichever
\* pod it is, and answers.
ApiDeletes ==
  /\ repair = "delete"
  /\ repair' = IF Exists(ref) THEN "deleted" ELSE "error"
  /\ pods' = [pods EXCEPT ![ref] = NoPod]
  /\ UNCHANGED <<names, ready, stream, born, transients, queue, ref, late, faults>>

ApiFails ==
  /\ repair = "delete"
  /\ faults < MaxFaults /\ faults' = faults + 1
  /\ repair' = "error"
  /\ UNCHANGED <<clusterVars, queue, ref, late>>

\* Mutated form of DeleteReturns: an error ends the task.
MutDeleteReturns ==
  /\ \/ repair = "deleted" /\ repair' = "publish"
     \/ repair = "error" /\ repair' = "ended"
  /\ UNCHANGED <<clusterVars, queue, ref, late, faults>>

\* The answer arrives in time: publish an event, or go on with the next pod.
DeleteReturns ==
  /\ \/ repair = "deleted" /\ repair' = "publish" /\ ref' = ref
     \/ repair = "error" /\ repair' = "recv" /\ ref' = NoName
  /\ UNCHANGED <<clusterVars, queue, late, faults>>

\* It does not: go on with the next pod.  The request may not have reached the API
\* server yet, and may never reach it.
DeleteTimesOut ==
  /\ repair \in {"delete", "deleted", "error"}
  /\ faults < MaxFaults /\ faults' = faults + 1
  /\ late' \in {late, IF repair = "delete" THEN late \cup {ref} ELSE late}
  /\ repair' = "recv" /\ ref' = NoName
  /\ UNCHANGED <<clusterVars, queue>>

ApiDeletesLate ==
  /\ \E n \in late : late' = late \ {n} /\ pods' = [pods EXCEPT ![n] = NoPod]
  /\ UNCHANGED <<names, ready, stream, born, transients, queue, repair, ref, faults>>

\* Published, failed or timed out: go on with the next pod.
PublishReturns ==
  /\ repair = "publish"
  /\ repair' = "recv" /\ ref' = NoName
  /\ UNCHANGED <<clusterVars, queue, late, faults>>

\* The controller exits and is started again: a request may still be on its way.
ControllerRestarts ==
  /\ faults < MaxFaults /\ faults' = faults + 1
  /\ stream' = <<>> /\ queue' = <<>>
  /\ late' \in {late, IF repair = "delete" THEN late \cup {ref} ELSE late}
  /\ repair' = "recv" /\ ref' = NoName
  /\ UNCHANGED <<pods, names, ready, born, transients>>

-----------------------------------------------------------------------------
Kubelet(n) == \/ StartPod(n) \/ ValidatorFails(n) \/ ValidatorRestarts(n)
              \/ ValidatorPasses(n)

process_pods == \/ Recv \/ DeleteReturns \/ DeleteTimesOut \/ PublishReturns

ApiServer == ApiDeletes \/ ApiFails \/ ApiDeletesLate

Next == \/ CniReady \/ CniGone
        \/ \E n \in Name : \/ CreatePod(n) \/ Kubelet(n) \/ StatusUpdate(n)
                           \/ DeletePod(n) \/ PodGone(n)
        \/ process_events \/ WatchRestarts
        \/ process_pods \/ ApiServer \/ ControllerRestarts

Spec == Init /\ [][Next]_vars

\* The installer finishes, the kubelet starts pods, runs validators and ends pods, and
\* both tasks and the API server go on.  The kubelet's fairness is strong only because
\* MaxStream disables its steps now and then.
Fairness == /\ WF_vars(CniReady)
            /\ \A n \in Name : SF_vars(Kubelet(n)) /\ WF_vars(PodGone(n))
            /\ WF_vars(process_events)
            /\ WF_vars(process_pods)
            /\ WF_vars(ApiDeletes \/ ApiFails)

FairSpec == Spec /\ Fairness

-----------------------------------------------------------------------------
(* Properties. *)

Pod == [rules : BOOLEAN, validator : {"none", "waiting", "running", "failed", "passed"},
        last95 : BOOLEAN, deleting : BOOLEAN]

TypeOK ==
  /\ pods \in [Name -> Pod] /\ names \subseteq Name /\ ready \in BOOLEAN
  /\ stream \in Seq([name : Name, pod : Pod])
  /\ queue \in Seq(Name)
  /\ Len(queue) <= EVENT_CHANNEL_CAPACITY
  /\ repair \in {"recv", "delete", "deleted", "error", "publish"}
  /\ ref \in Name \cup {NoName}
  /\ late \subseteq Name
  /\ born \in Nat /\ transients \in Nat /\ faults \in Nat
  /\ repair = "recv" <=> ref = NoName

\* Only a pod whose validator has failed is taken away from its owner, however far
\* behind the watch, the channel and the API server are.
DeletesOnlyFailed ==
  [][ \A n \in Name : Exists(n) /\ ~pods[n].deleting /\ ~Exists(n)' => pods[n].last95 ]_vars

\* Whatever events are dropped or lost, and whatever requests fail, in the end every
\* pod on the node has its rules and a validator that has seen them.
EventuallyRepaired ==
  <>[](\A n \in Name : Exists(n) /\ ~pods[n].deleting => pods[n].validator = "passed")

\* The abstract pod of each name (MeshedPods).
phase ==
  [n \in Name |-> IF ~Exists(n) THEN "absent"
                  ELSE IF pods[n].validator = "waiting" THEN "waiting"
                  ELSE IF pods[n].validator = "passed" THEN "serving"
                  ELSE IF pods[n].rules THEN "inside" ELSE "outside"]

Mesh == INSTANCE MeshedPods WITH
          suspect <- {n \in Name : pods[n].last95},
          leaving <- {n \in Name : pods[n].deleting}

\* The node keeps the promise of MeshedPods, although the two tasks work on events and
\* names that may be long out of date: no pod serves outside the mesh, and only pods in
\* doubt or on their way out end.
MeshesPods == Mesh!Safety

\* Every pod ends up serving, or gives way to another: one outside the mesh is deleted,
\* whatever events are dropped and requests fail.
EventuallyMeshed == Mesh!Progress
=============================================================================
