------------------------ MODULE RepairControllerProofs ------------------------
(***************************************************************************)
(* Proofs about RepairController, for every set of names, every capacity   *)
(* of the channel and every bound: type correctness, with the bound on the *)
(* channel, and that a pod that works is never deleted, as long as owners  *)
(* do not give a new pod the name of an old one.                           *)
(***************************************************************************)
EXTENDS RepairController, SequenceTheorems, FiniteSetTheorems, TLAPS

\* A reference with this name can only delete a pod whose validator has failed: the
\* name has been used, and if there is a pod of that name, it is the one that failed.
Marked(n) == n \in names /\ (Exists(n) => pods[n].last95)

\* There is a reference of that name somewhere between the watch and the API server.
Referenced(n) ==
  \/ \E i \in DOMAIN stream : stream[i].name = n /\ Failed(stream[i].pod)
  \/ \E i \in DOMAIN queue : queue[i] = n
  \/ repair = "delete" /\ ref = n
  \/ n \in late

\* Every reference is to a pod that has failed.
ReferencesMarked ==
  \A n \in Name : /\ Exists(n) => n \in names
                  /\ Referenced(n) => Marked(n)

-----------------------------------------------------------------------------
(* Type correctness. *)

LEMMA PodTypes == NoPod \in Pod /\ NewPod \in Pod
BY DEF NoPod, NewPod, Pod

LEMMA ExistsMarked == ~NoPod.last95 /\ ~NoPod.deleting
BY DEF NoPod, NewPod

\* Update keeps the types of what it changes.
LEMMA UpdateType ==
  ASSUME TypeOK, NEW n \in Name, NEW pod \in Pod, Update(n, pod)
  PROVE  pods' \in [Name -> Pod] /\ stream' \in Seq([name : Name, pod : Pod])
<1>1. [name |-> n, pod |-> pod] \in [name : Name, pod : Pod]
  OBVIOUS
<1> QED BY <1>1, AppendProperties DEF Update, TypeOK

LEMMA InitTypeOK == Init => TypeOK
<1> SUFFICES ASSUME Init PROVE TypeOK
  OBVIOUS
<1>1. pods \in [Name -> Pod]
  BY PodTypes DEF Init
<1>2. born \in Nat
  BY RepairAssumption, FS_CardinalityType DEF Init
<1>3. stream \in Seq([name : Name, pod : Pod]) /\ queue \in Seq(Name)
      /\ Len(queue) <= EVENT_CHANNEL_CAPACITY
  BY RepairAssumption, EmptySeq DEF Init
<1> QED BY <1>1, <1>2, <1>3, RepairAssumption DEF Init, TypeOK

LEMMA ClusterTypeOK ==
  ASSUME TypeOK, NEW n \in Name,
         CreatePod(n) \/ Kubelet(n) \/ StatusUpdate(n) \/ DeletePod(n) \/ PodGone(n)
  PROVE  TypeOK'
<1> USE DEF repairVars
<1>1. pods[n] \in Pod
  BY DEF TypeOK
<1>2. CASE CreatePod(n)
  <2>1. NewPod \in Pod /\ born' \in Nat /\ names' \subseteq Name
    BY <1>2, PodTypes DEF CreatePod, TypeOK
  <2> QED BY <1>2, <2>1, UpdateType DEF CreatePod, TypeOK
<1>3. CASE ValidatorFails(n)
  <2>1. [pods[n] EXCEPT !.validator = "failed"] \in Pod
    BY <1>1 DEF Pod
  <2>2. transients' \in Nat
    BY <1>3 DEF ValidatorFails, TypeOK
  <2> QED BY <1>3, <2>1, <2>2, UpdateType DEF ValidatorFails, TypeOK
<1>4. CASE ValidatorRestarts(n)
  <2>1. [pods[n] EXCEPT !.validator = "running", !.last95 = TRUE] \in Pod
    BY <1>1 DEF Pod
  <2> QED BY <1>4, <2>1, UpdateType DEF ValidatorRestarts, TypeOK
<1>5. CASE ValidatorPasses(n)
  <2>1. [pods[n] EXCEPT !.validator = "passed"] \in Pod
    BY <1>1 DEF Pod
  <2> QED BY <1>5, <2>1, UpdateType DEF ValidatorPasses, TypeOK
<1>6. CASE StatusUpdate(n)
  BY <1>6, <1>1, UpdateType DEF StatusUpdate, TypeOK
<1>7. CASE DeletePod(n)
  <2>1. [pods[n] EXCEPT !.deleting = TRUE] \in Pod
    BY <1>1 DEF Pod
  <2> QED BY <1>7, <2>1, UpdateType DEF DeletePod, TypeOK
<1>8. CASE PodGone(n)
  BY <1>8, PodTypes DEF PodGone, TypeOK
<1>9. CASE StartPod(n)
  <2>1. [pods[n] EXCEPT !.rules = ready, !.validator = "running"] \in Pod
    BY <1>1 DEF Pod, TypeOK
  <2> QED BY <1>9, <2>1, UpdateType DEF StartPod, TypeOK
<1> QED BY <1>2, <1>3, <1>4, <1>5, <1>6, <1>7, <1>8, <1>9 DEF Kubelet

LEMMA EventsTypeOK == TypeOK /\ (process_events \/ WatchRestarts) => TypeOK'
<1> USE DEF repairVars
<1> SUFFICES ASSUME TypeOK, process_events \/ WatchRestarts PROVE TypeOK'
  OBVIOUS
<1>1. CASE process_events
  <2>1. /\ Head(stream) \in [name : Name, pod : Pod]
        /\ Tail(stream) \in Seq([name : Name, pod : Pod])
    BY <1>1, HeadTailProperties DEF process_events, TypeOK
  <2>2. queue' \in Seq(Name) /\ Len(queue') <= EVENT_CHANNEL_CAPACITY
    <3>1. CASE queue' = queue
      BY <3>1 DEF TypeOK
    <3>2. CASE /\ Len(queue) < EVENT_CHANNEL_CAPACITY
               /\ queue' = Append(queue, Head(stream).name)
      BY <3>2, <2>1, AppendProperties, RepairAssumption DEF TypeOK
    <3> QED BY <1>1, <3>1, <3>2 DEF process_events
  <2> QED BY <1>1, <2>1, <2>2 DEF process_events, TypeOK
<1>2. CASE WatchRestarts
  BY <1>2, EmptySeq DEF WatchRestarts, TypeOK
<1> QED BY <1>1, <1>2

LEMMA PodsTypeOK ==
  TypeOK /\ (CniReady \/ CniGone \/ process_pods \/ ApiServer \/ ControllerRestarts)
    => TypeOK'
<1> USE DEF repairVars, clusterVars
<1> SUFFICES ASSUME TypeOK, \/ CniReady \/ CniGone \/ process_pods \/ ApiServer
                            \/ ControllerRestarts
             PROVE  TypeOK'
  OBVIOUS
<1>1. CASE Recv
  <2>1. /\ Head(queue) \in Name /\ Tail(queue) \in Seq(Name)
        /\ Len(Tail(queue)) <= EVENT_CHANNEL_CAPACITY
    BY <1>1, HeadTailProperties, RepairAssumption DEF Recv, TypeOK
  <2> QED BY <1>1, <2>1, RepairAssumption DEF Recv, TypeOK
<1>2. CASE ApiDeletes
  BY <1>2, PodTypes DEF ApiDeletes, TypeOK
<1>3. CASE ApiDeletesLate
  BY <1>3, PodTypes DEF ApiDeletesLate, TypeOK
<1>4. CASE CniReady
  BY <1>4 DEF CniReady, TypeOK
<1>9. CASE CniGone
  <2>1. faults' \in Nat
    BY <1>9 DEF CniGone, TypeOK
  <2> QED BY <1>9, <2>1 DEF CniGone, TypeOK
<1>8. CASE ApiFails
  <2>1. faults' \in Nat
    BY <1>8 DEF ApiFails, TypeOK
  <2> QED BY <1>8, <2>1, RepairAssumption DEF ApiFails, TypeOK
<1>5. CASE DeleteReturns \/ PublishReturns
  BY <1>5 DEF DeleteReturns, PublishReturns, TypeOK
<1>6. CASE DeleteTimesOut
  BY <1>6 DEF DeleteTimesOut, TypeOK
<1>7. CASE ControllerRestarts
  BY <1>7, EmptySeq, RepairAssumption DEF ControllerRestarts, TypeOK
<1> QED BY <1>1, <1>2, <1>3, <1>4, <1>5, <1>6, <1>7, <1>8, <1>9
        DEF process_pods, ApiServer

LEMMA NextTypeOK == TypeOK /\ [Next]_vars => TypeOK'
<1> SUFFICES ASSUME TypeOK, [Next]_vars PROVE TypeOK'
  OBVIOUS
<1>1. CASE UNCHANGED vars
  BY <1>1 DEF vars, clusterVars, repairVars, TypeOK
<1> QED BY <1>1, ClusterTypeOK, EventsTypeOK, PodsTypeOK DEF Next

\* Types, and the channel between the tasks never holds more references than its
\* capacity, as process_events (cni-repair-controller/src/lib.rs) only tries to send.
THEOREM RepairTypeCorrect == Spec => []TypeOK
BY InitTypeOK, NextTypeOK, PTL DEF Spec

-----------------------------------------------------------------------------
(* Only failed pods are deleted. *)

\* Pods exist under names that have been used.
LEMMA ExistsNamed ==
  ASSUME TypeOK, ReferencesMarked, [Next]_vars, NEW m \in Name, Exists(m)'
  PROVE  m \in names'
<1>1. Exists(m) => m \in names
  BY DEF ReferencesMarked
<1>2. CASE \E n \in Name : CreatePod(n)
  BY <1>1, <1>2 DEF CreatePod, Update, Exists, TypeOK
<1>3. CASE \E n \in Name : \/ Kubelet(n) \/ StatusUpdate(n) \/ DeletePod(n) \/ PodGone(n)
  BY <1>1, <1>3 DEF Kubelet, StartPod, ValidatorFails, ValidatorRestarts, ValidatorPasses,
     StatusUpdate, DeletePod, PodGone, Update, Exists, TypeOK
<1>4. CASE ApiDeletes \/ ApiDeletesLate
  BY <1>1, <1>4 DEF ApiDeletes, ApiDeletesLate, Exists, TypeOK
<1>5. CASE UNCHANGED <<pods, names>>
  BY <1>1, <1>5 DEF Exists
<1> QED BY <1>2, <1>3, <1>4, <1>5 DEF Next, ApiServer, ApiFails, CniReady, CniGone,
           process_events, WatchRestarts, process_pods, Recv, DeleteReturns, DeleteTimesOut,
           PublishReturns, ControllerRestarts, clusterVars, vars

\* A reference to a failed pod stays one: no step takes the last state of a validator
\* back, and no new pod has a name that has been used.
LEMMA MarkedStays ==
  ASSUME ~NamesReused, TypeOK, [Next]_vars, NEW m \in Name, Marked(m)
  PROVE  Marked(m)'
<1>1. CASE \E n \in Name : CreatePod(n)
  <2>1. PICK n \in Name : CreatePod(n)
    BY <1>1
  <2>2. m # n /\ pods'[m] = pods[m] /\ m \in names'
    BY <2>1 DEF CreatePod, Update, TypeOK, Marked
  <2> QED BY <2>2 DEF Marked, Exists
<1>2. CASE \E n \in Name : Kubelet(n) \/ StatusUpdate(n) \/ DeletePod(n)
  <2>1. PICK n \in Name, pod \in Pod :
          /\ Exists(n) /\ Update(n, pod) /\ (pods[n].last95 => pod.last95)
          /\ names' = names
    <3>1. ASSUME NEW n \in Name
          PROVE  /\ [pods[n] EXCEPT !.validator = "failed"] \in Pod
                 /\ [pods[n] EXCEPT !.validator = "running", !.last95 = TRUE] \in Pod
                 /\ [pods[n] EXCEPT !.validator = "passed"] \in Pod
                 /\ [pods[n] EXCEPT !.deleting = TRUE] \in Pod
                 /\ [pods[n] EXCEPT !.validator = "failed"].last95 = pods[n].last95
                 /\ [pods[n] EXCEPT !.validator = "running", !.last95 = TRUE].last95
                 /\ [pods[n] EXCEPT !.validator = "passed"].last95 = pods[n].last95
                 /\ [pods[n] EXCEPT !.deleting = TRUE].last95 = pods[n].last95
                 /\ [pods[n] EXCEPT !.rules = ready, !.validator = "running"] \in Pod
                 /\ [pods[n] EXCEPT !.rules = ready, !.validator = "running"].last95
                    = pods[n].last95
                 /\ pods[n] \in Pod
      BY DEF TypeOK, Pod
    <3> QED BY <1>2, <3>1 DEF Kubelet, StartPod, ValidatorFails, ValidatorRestarts,
               ValidatorPasses, StatusUpdate, DeletePod
  <2>2. pods'[m] = IF m = n THEN pod ELSE pods[m]
    BY <2>1 DEF Update, TypeOK
  <2> QED BY <2>1, <2>2 DEF Marked, Exists
<1>3. CASE (\E n \in Name : PodGone(n)) \/ ApiDeletes \/ ApiDeletesLate
  <2>1. (pods'[m] = pods[m] \/ pods'[m] = NoPod) /\ names' = names
    BY <1>3 DEF PodGone, ApiDeletes, ApiDeletesLate, TypeOK
  <2> QED BY <2>1 DEF Marked, Exists
<1>4. CASE UNCHANGED <<pods, names>>
  BY <1>4 DEF Marked, Exists
<1> QED BY <1>1, <1>2, <1>3, <1>4 DEF Next, ApiServer, ApiFails, CniReady, CniGone,
           process_events, WatchRestarts, process_pods, Recv, DeleteReturns, DeleteTimesOut,
           PublishReturns, ControllerRestarts, clusterVars, vars

\* Pods change by an update that the watch reports, or by going away.
LEMMA ClusterUpdates ==
  ASSUME TypeOK, NEW n \in Name,
         CreatePod(n) \/ Kubelet(n) \/ StatusUpdate(n) \/ DeletePod(n)
  PROVE  /\ \E pod \in Pod : Update(n, pod)
         /\ UNCHANGED <<queue, repair, ref, late>>
<1>1. /\ [pods[n] EXCEPT !.validator = "failed"] \in Pod
      /\ [pods[n] EXCEPT !.validator = "running", !.last95 = TRUE] \in Pod
      /\ [pods[n] EXCEPT !.validator = "passed"] \in Pod
      /\ [pods[n] EXCEPT !.deleting = TRUE] \in Pod
      /\ [pods[n] EXCEPT !.rules = ready, !.validator = "running"] \in Pod
      /\ pods[n] \in Pod /\ NewPod \in Pod
  BY PodTypes DEF TypeOK, Pod
<1> QED BY <1>1 DEF CreatePod, Kubelet, StartPod, ValidatorFails, ValidatorRestarts,
           ValidatorPasses, StatusUpdate, DeletePod, repairVars

\* A reference is new only to a pod whose validator has just been reported as failed;
\* otherwise references are handed on or dropped.
LEMMA NewReference ==
  ASSUME TypeOK, [Next]_vars, NEW m \in Name, Referenced(m)', ~Referenced(m)
  PROVE  pods'[m].last95
<1>1. CASE \E n \in Name : CreatePod(n) \/ Kubelet(n) \/ StatusUpdate(n) \/ DeletePod(n)
  <2>1. PICK n \in Name, pod \in Pod :
          Update(n, pod) /\ UNCHANGED <<queue, repair, ref, late>>
    BY <1>1, ClusterUpdates
  <2>2. PICK i \in DOMAIN stream' : stream'[i].name = m /\ Failed(stream'[i].pod)
    BY <2>1 DEF Referenced
  <2>3. ~(i \in DOMAIN stream /\ stream'[i] = stream[i])
    BY <2>2 DEF Referenced
  <2>4. stream'[i] = [name |-> n, pod |-> pod]
    BY <2>1, <2>3, AppendProperties DEF Update, TypeOK
  <2>5. pods'[n] = pod
    BY <2>1 DEF Update, TypeOK
  <2> QED BY <2>2, <2>4, <2>5 DEF Failed
<1>2. CASE process_events
  <2>a. stream # <<>> /\ stream' = Tail(stream)
    BY <1>2 DEF process_events
  <2>1. /\ Head(stream) = stream[1] /\ 1 \in DOMAIN stream
        /\ \A i \in DOMAIN stream' : i + 1 \in DOMAIN stream /\ stream'[i] = stream[i + 1]
        /\ Head(stream).name \in Name
    <3> DEFINE Evt == [name : Name, pod : Pod]
    <3>1. stream \in Seq(Evt)
      BY DEF TypeOK
    <3> HIDE DEF Evt
    <3>2. /\ Head(stream) = stream[1] /\ 1 \in DOMAIN stream /\ stream[1] \in Evt
          /\ \A i \in DOMAIN stream' : i + 1 \in DOMAIN stream /\ stream'[i] = stream[i + 1]
      BY <2>a, <3>1, HeadTailProperties
    <3> QED BY <3>2 DEF Evt
  <2>2. UNCHANGED <<repair, ref, late>>
    BY <1>2 DEF process_events, repairVars
  <2>3. \A i \in DOMAIN queue' : \/ i \in DOMAIN queue /\ queue'[i] = queue[i]
                                 \/ /\ Failed(Head(stream).pod)
                                    /\ queue'[i] = Head(stream).name
    BY <1>2, <2>1, AppendProperties DEF process_events, TypeOK
  <2> QED BY <2>1, <2>2, <2>3 DEF Referenced
<1>3. CASE Recv
  <2>1. /\ Head(queue) = queue[1] /\ 1 \in DOMAIN queue
        /\ \A i \in DOMAIN queue' : i + 1 \in DOMAIN queue /\ queue'[i] = queue[i + 1]
    BY <1>3, HeadTailProperties DEF Recv, TypeOK
  <2>2. UNCHANGED <<stream, late>>
    BY <1>3 DEF Recv, clusterVars
  <2> QED BY <1>3, <2>1, <2>2 DEF Recv, Referenced
<1>4. CASE DeleteReturns \/ DeleteTimesOut \/ PublishReturns \/ ControllerRestarts
  <2>1. /\ stream' = stream \/ stream' = <<>>
        /\ queue' = queue \/ queue' = <<>>
        /\ repair' # "delete"
        /\ late' = late \/ (repair = "delete" /\ late' = late \cup {ref})
    BY <1>4 DEF DeleteReturns, DeleteTimesOut, PublishReturns, ControllerRestarts,
       clusterVars
  <2> QED BY <2>1 DEF Referenced
<1>5. CASE ApiServer
  <2>1. /\ UNCHANGED <<stream, queue>>
        /\ (repair' = repair /\ ref' = ref) \/ repair' # "delete"
        /\ late' \subseteq late
    BY <1>5 DEF ApiServer, ApiDeletes, ApiFails, ApiDeletesLate, clusterVars
  <2> QED BY <2>1 DEF Referenced
<1>6. CASE UNCHANGED <<queue, repair, ref, late>> /\ (stream' = stream \/ stream' = <<>>)
  BY <1>6 DEF Referenced
<1> QED BY <1>1, <1>2, <1>3, <1>4, <1>5, <1>6 DEF Next, PodGone, CniReady, CniGone,
           WatchRestarts, process_pods, repairVars, clusterVars, vars

LEMMA NextReferencesMarked ==
  ASSUME ~NamesReused
  PROVE  TypeOK /\ ReferencesMarked /\ [Next]_vars => ReferencesMarked'
<1> SUFFICES ASSUME TypeOK, ReferencesMarked, [Next]_vars PROVE ReferencesMarked'
  OBVIOUS
<1> SUFFICES ASSUME NEW m \in Name
             PROVE  (Exists(m) => m \in names)' /\ (Referenced(m) => Marked(m))'
  BY DEF ReferencesMarked
<1>1. (Exists(m) => m \in names)'
  BY ExistsNamed
<1>2. ASSUME Referenced(m)' PROVE Marked(m)'
  <2>1. CASE Referenced(m)
    BY <2>1, MarkedStays DEF ReferencesMarked
  <2>2. CASE ~Referenced(m)
    <3>1. pods'[m].last95
      BY <1>2, <2>2, NewReference
    <3>2. Exists(m)'
      BY <3>1, ExistsMarked DEF Exists
    <3> QED BY <1>1, <3>1, <3>2 DEF Marked
  <2> QED BY <2>1, <2>2
<1> QED BY <1>1, <1>2

\* A pod that is not being deleted is only taken away if it is marked.
LEMMA StepDeletesOnlyFailed ==
  ASSUME TypeOK, ReferencesMarked, [Next]_vars,
         NEW n \in Name, Exists(n), ~pods[n].deleting, ~Exists(n)'
  PROVE  pods[n].last95
<1>1. CASE \E m \in Name : CreatePod(m) \/ Kubelet(m) \/ StatusUpdate(m) \/ DeletePod(m)
  <2>1. \A m \in Name : /\ NewPod # NoPod
                        /\ [pods[m] EXCEPT !.rules = ready, !.validator = "running"] # NoPod
                        /\ [pods[m] EXCEPT !.validator = "failed"] # NoPod
                        /\ [pods[m] EXCEPT !.validator = "running", !.last95 = TRUE] # NoPod
                        /\ [pods[m] EXCEPT !.validator = "passed"] # NoPod
                        /\ [pods[m] EXCEPT !.deleting = TRUE] # NoPod
    BY DEF NewPod, NoPod, TypeOK, Pod
  <2> QED BY <1>1, <2>1 DEF CreatePod, Kubelet, StartPod, ValidatorFails, ValidatorRestarts,
             ValidatorPasses, StatusUpdate, DeletePod, Update, Exists, TypeOK
<1>2. CASE \E m \in Name : PodGone(m)
  BY <1>2 DEF PodGone, Exists, TypeOK
<1>3. CASE ApiDeletes
  <2>1. n = ref
    BY <1>3 DEF ApiDeletes, Exists, TypeOK
  <2> QED BY <1>3, <2>1 DEF ApiDeletes, ReferencesMarked, Referenced, Marked
<1>4. CASE ApiDeletesLate
  <2>1. n \in late
    BY <1>4 DEF ApiDeletesLate, Exists, TypeOK
  <2> QED BY <2>1 DEF ReferencesMarked, Referenced, Marked
<1>5. CASE pods' = pods
  BY <1>5 DEF Exists
<1> QED BY <1>1, <1>2, <1>3, <1>4, <1>5 DEF Next, ApiServer, ApiFails, CniReady, CniGone,
           process_events, WatchRestarts, process_pods, Recv, DeleteReturns,
           DeleteTimesOut, PublishReturns, ControllerRestarts, clusterVars, vars

LEMMA InitReferencesMarked == Init => ReferencesMarked
<1> SUFFICES ASSUME Init, NEW n \in Name
             PROVE  (Exists(n) => n \in names) /\ ~Referenced(n)
  BY DEF ReferencesMarked
<1>1. Exists(n) => n \in names
  BY DEF Init, Exists
<1>2. stream = <<>> /\ queue = <<>> /\ repair # "delete" /\ late = {}
  BY DEF Init
<1>3. ~Referenced(n)
  BY <1>2 DEF Referenced
<1> QED BY <1>1, <1>3

\* When pods' names are not used again, what process_pods deletes by name is always a
\* pod whose validator has failed, however long its reference, the watch's event or a
\* request that timed out has been under way (cni-repair-controller/src/lib.rs).
THEOREM OnlyFailedDeleted ==
  ASSUME ~NamesReused
  PROVE  Spec => DeletesOnlyFailed
<1>2. TypeOK /\ ReferencesMarked /\ [Next]_vars => ReferencesMarked'
  BY NextReferencesMarked
<1>3. /\ TypeOK /\ ReferencesMarked /\ [Next]_vars
      => [ \A n \in Name :
             Exists(n) /\ ~pods[n].deleting /\ ~Exists(n)' => pods[n].last95 ]_vars
  BY StepDeletesOnlyFailed
<1> QED BY <1>2, <1>3, InitReferencesMarked, RepairTypeCorrect, PTL
        DEF Spec, DeletesOnlyFailed

-----------------------------------------------------------------------------
(* The node keeps the safety part of the promise of MeshedPods. *)

suspectPods == {n \in Name : pods[n].last95}
leavingPods == {n \in Name : pods[n].deleting}

LEMMA InitMesh == Init => Mesh!Init
<1> SUFFICES ASSUME Init PROVE Mesh!Init
  OBVIOUS
<1>1. ASSUME NEW n \in Name
      PROVE  /\ pods[n] = NewPod \/ pods[n] = NoPod
             /\ ~NewPod.last95 /\ ~NewPod.deleting /\ ~NoPod.last95 /\ ~NoPod.deleting
             /\ NewPod.validator = "waiting"
  BY DEF Init, NewPod, NoPod
<1>2. ASSUME NEW n \in Name
      PROVE  phase[n] \in {"absent", "waiting"} /\ ~pods[n].last95 /\ ~pods[n].deleting
  BY <1>1 DEF phase, Exists
<1>3. phase \in [Name -> {"absent", "waiting"}]
  BY <1>2 DEF phase
<1> QED BY <1>2, <1>3 DEF Mesh!Init

\* A step that changes no pod is a stutter of MeshedPods.
LEMMA SamePods == UNCHANGED pods => UNCHANGED Mesh!vars
BY DEF Mesh!vars, phase, Exists

\* A step that changes one pod changes the abstract pod of that name only.
LEMMA OnePodChanges ==
  ASSUME TypeOK, NEW n \in Name, NEW pod \in Pod, pods' = [pods EXCEPT ![n] = pod]
  PROVE  /\ phase' = [phase EXCEPT ![n] = phase'[n]]
         /\ phase'[n] = phase[n] => phase' = phase
         /\ suspectPods' = IF pod.last95 THEN suspectPods \cup {n} ELSE suspectPods \ {n}
         /\ leavingPods' = IF pod.deleting THEN leavingPods \cup {n} ELSE leavingPods \ {n}
<1>1. pods'[n] = pod /\ \A m \in Name \ {n} : pods'[m] = pods[m]
  BY DEF TypeOK
<1>2. \A m \in Name \ {n} : phase'[m] = phase[m]
  BY <1>1 DEF phase, Exists
<1>3. phase' = [phase EXCEPT ![n] = phase'[n]]
  BY <1>2 DEF phase
<1>4. suspectPods' = IF pod.last95 THEN suspectPods \cup {n} ELSE suspectPods \ {n}
  BY <1>1 DEF suspectPods
<1>5. leavingPods' = IF pod.deleting THEN leavingPods \cup {n} ELSE leavingPods \ {n}
  BY <1>1 DEF leavingPods
<1>6. phase'[n] = phase[n] => phase' = phase
  BY <1>2 DEF phase
<1> QED BY <1>3, <1>4, <1>5, <1>6

\* A pod in doubt or on its way out may end.
LEMMA EndStep ==
  ASSUME TypeOK, NEW n \in Name, Exists(n) => pods[n].last95 \/ pods[n].deleting,
         pods' = [pods EXCEPT ![n] = NoPod]
  PROVE  [Mesh!Next]_(Mesh!vars)
<1>1. CASE ~Exists(n)
  <2>1. pods' = pods
    BY <1>1 DEF Exists, TypeOK
  <2> QED BY <2>1, SamePods
<1>2. CASE Exists(n)
  <2>1. /\ phase' = [phase EXCEPT ![n] = phase'[n]]
        /\ suspectPods' = suspectPods \ {n} /\ leavingPods' = leavingPods \ {n}
    BY OnePodChanges, PodTypes, ExistsMarked
  <2>2. phase'[n] = "absent"
    <3>1. pods'[n] = NoPod
      BY DEF TypeOK
    <3> QED BY <3>1 DEF phase, Exists
  <2>3. n \in suspectPods \cup leavingPods
    BY <1>2 DEF suspectPods, leavingPods
  <2>4. Mesh!End(n)
    BY <2>1, <2>2, <2>3 DEF Mesh!End, suspectPods, leavingPods
  <2> QED BY <2>4 DEF Mesh!Next
<1> QED BY <1>1, <1>2

\* A step of the kubelet or of an owner moves one abstract pod.
LEMMA PodStep ==
  ASSUME TypeOK, NEW n \in Name,
         CreatePod(n) \/ Kubelet(n) \/ StatusUpdate(n) \/ DeletePod(n)
  PROVE  [Mesh!Next]_(Mesh!vars)
<1>0. pods[n] \in Pod
  BY DEF TypeOK
<1>1. CASE CreatePod(n)
  <2>1. pods' = [pods EXCEPT ![n] = NewPod] /\ pods[n] = NoPod
    BY <1>1 DEF CreatePod, Update, Exists
  <2>2. phase[n] = "absent" /\ phase'[n] = "waiting"
        /\ ~NewPod.last95 /\ ~NewPod.deleting /\ ~NoPod.last95 /\ ~NoPod.deleting
    <3>1. pods'[n] = NewPod
      BY <2>1 DEF TypeOK
    <3> QED BY <2>1, <3>1 DEF phase, Exists, NewPod, NoPod
  <2>3. UNCHANGED <<suspectPods, leavingPods>>
    <3>1. suspectPods' = suspectPods \ {n} /\ leavingPods' = leavingPods \ {n}
      BY <2>1, <2>2, OnePodChanges, PodTypes
    <3>2. n \notin suspectPods /\ n \notin leavingPods
      BY <2>1, <2>2 DEF suspectPods, leavingPods
    <3> QED BY <3>1, <3>2
  <2>4. phase' = [phase EXCEPT ![n] = "waiting"]
    BY <2>1, <2>2, OnePodChanges, PodTypes
  <2>5. Mesh!Create(n)
    BY <2>2, <2>3, <2>4 DEF Mesh!Create, Mesh!Move, suspectPods, leavingPods
  <2> QED BY <2>5 DEF Mesh!Next
<1>2. CASE StartPod(n)
  <2> DEFINE pod == [pods[n] EXCEPT !.rules = ready, !.validator = "running"]
  <2>1. pods' = [pods EXCEPT ![n] = pod] /\ Exists(n) /\ pods[n].validator = "waiting"
    BY <1>2 DEF StartPod, Update
  <2>2. pod \in Pod /\ pod.last95 = pods[n].last95 /\ pod.deleting = pods[n].deleting
        /\ pod.validator = "running"
    BY <1>0 DEF Pod, TypeOK
  <2>3. phase[n] = "waiting" /\ phase'[n] \in {"inside", "outside"}
    <3>1. pods'[n] = pod
      BY <2>1 DEF TypeOK
    <3> HIDE DEF pod
    <3>2. pod # NoPod
      BY <2>2 DEF NoPod, NewPod
    <3> QED BY <2>1, <2>2, <3>1, <3>2 DEF phase, Exists
  <2> HIDE DEF pod
  <2>4. UNCHANGED <<suspectPods, leavingPods>>
    BY <2>1, <2>2, OnePodChanges DEF suspectPods, leavingPods
  <2>5. phase' = [phase EXCEPT ![n] = phase'[n]]
    BY <2>1, <2>2, OnePodChanges
  <2>6. Mesh!Start(n)
    BY <2>3, <2>4, <2>5 DEF Mesh!Start, Mesh!Move, suspectPods, leavingPods
  <2> QED BY <2>6 DEF Mesh!Next
<1>3. CASE ValidatorFails(n)
  <2> DEFINE pod == [pods[n] EXCEPT !.validator = "failed"]
  <2>1. pods' = [pods EXCEPT ![n] = pod] /\ Exists(n) /\ pods[n].validator = "running"
    BY <1>3 DEF ValidatorFails, Update
  <2>2. pod \in Pod /\ pod.last95 = pods[n].last95 /\ pod.deleting = pods[n].deleting
        /\ pod.validator = "failed" /\ pod.rules = pods[n].rules
    BY <1>0 DEF Pod
  <2> HIDE DEF pod
  <2>3. phase'[n] = phase[n]
    <3>1. pods'[n] = pod /\ pod # NoPod
      BY <2>1, <2>2 DEF TypeOK, NoPod, NewPod
    <3> QED BY <2>1, <2>2, <3>1 DEF phase, Exists
  <2>4. UNCHANGED <<suspectPods, leavingPods>>
    BY <2>1, <2>2, OnePodChanges DEF suspectPods, leavingPods
  <2>5. phase' = phase
    BY <2>1, <2>2, <2>3, OnePodChanges
  <2> QED BY <2>4, <2>5 DEF Mesh!vars, suspectPods, leavingPods
<1>4. CASE ValidatorRestarts(n)
  <2> DEFINE pod == [pods[n] EXCEPT !.validator = "running", !.last95 = TRUE]
  <2>1. pods' = [pods EXCEPT ![n] = pod] /\ Exists(n) /\ pods[n].validator = "failed"
    BY <1>4 DEF ValidatorRestarts, Update
  <2>2. pod \in Pod /\ pod.last95 /\ pod.deleting = pods[n].deleting
        /\ pod.validator = "running" /\ pod.rules = pods[n].rules
    BY <1>0 DEF Pod
  <2> HIDE DEF pod
  <2>3. phase'[n] = phase[n] /\ phase[n] \in {"outside", "inside"}
    <3>1. pods'[n] = pod /\ pod # NoPod
      BY <2>1, <2>2 DEF TypeOK, NoPod, NewPod
    <3> QED BY <2>1, <2>2, <3>1 DEF phase, Exists
  <2>4. suspectPods' = suspectPods \cup {n} /\ leavingPods' = leavingPods
    BY <2>1, <2>2, OnePodChanges DEF leavingPods
  <2>5. phase' = phase
    BY <2>1, <2>2, <2>3, OnePodChanges
  <2>6. Mesh!Doubt(n)
    BY <2>3, <2>4, <2>5 DEF Mesh!Doubt, suspectPods, leavingPods
  <2> QED BY <2>6 DEF Mesh!Next
<1>5. CASE ValidatorPasses(n)
  <2> DEFINE pod == [pods[n] EXCEPT !.validator = "passed"]
  <2>1. /\ pods' = [pods EXCEPT ![n] = pod] /\ Exists(n)
        /\ pods[n].validator = "running" /\ pods[n].rules
    BY <1>5 DEF ValidatorPasses, Update
  <2>2. pod \in Pod /\ pod.last95 = pods[n].last95 /\ pod.deleting = pods[n].deleting
        /\ pod.validator = "passed"
    BY <1>0 DEF Pod
  <2> HIDE DEF pod
  <2>3. phase[n] = "inside" /\ phase'[n] = "serving"
    <3>1. pods'[n] = pod /\ pod # NoPod
      BY <2>1, <2>2 DEF TypeOK, NoPod, NewPod
    <3> QED BY <2>1, <2>2, <3>1 DEF phase, Exists
  <2>4. UNCHANGED <<suspectPods, leavingPods>>
    BY <2>1, <2>2, OnePodChanges DEF suspectPods, leavingPods
  <2>5. phase' = [phase EXCEPT ![n] = "serving"]
    BY <2>1, <2>2, <2>3, OnePodChanges
  <2>6. Mesh!Serve(n)
    BY <2>3, <2>4, <2>5 DEF Mesh!Serve, Mesh!Move, suspectPods, leavingPods
  <2> QED BY <2>6 DEF Mesh!Next
<1>6. CASE StatusUpdate(n)
  <2>1. pods' = pods
    BY <1>6 DEF StatusUpdate, Update, TypeOK
  <2> QED BY <2>1, SamePods
<1>7. CASE DeletePod(n)
  <2> DEFINE pod == [pods[n] EXCEPT !.deleting = TRUE]
  <2>1. pods' = [pods EXCEPT ![n] = pod] /\ Exists(n)
    BY <1>7 DEF DeletePod, Update
  <2>2. pod \in Pod /\ pod.last95 = pods[n].last95 /\ pod.deleting
        /\ pod.validator = pods[n].validator /\ pod.rules = pods[n].rules
    BY <1>0 DEF Pod
  <2> HIDE DEF pod
  <2>3. phase'[n] = phase[n] /\ phase[n] # "absent"
    <3>1. pods'[n] = pod /\ pod # NoPod
      BY <2>1, <2>2 DEF TypeOK, NoPod, NewPod
    <3> QED BY <2>1, <2>2, <3>1 DEF phase, Exists
  <2>4. suspectPods' = suspectPods /\ leavingPods' = leavingPods \cup {n}
    BY <2>1, <2>2, OnePodChanges DEF suspectPods
  <2>5. phase' = phase
    BY <2>1, <2>2, <2>3, OnePodChanges
  <2>6. Mesh!Leave(n)
    BY <2>3, <2>4, <2>5 DEF Mesh!Leave, suspectPods, leavingPods
  <2> QED BY <2>6 DEF Mesh!Next
<1> QED BY <1>1, <1>2, <1>3, <1>4, <1>5, <1>6, <1>7 DEF Kubelet

LEMMA MeshStep ==
  ASSUME TypeOK, ReferencesMarked, [Next]_vars
  PROVE  [Mesh!Next]_(Mesh!vars)
<1>1. CASE \E n \in Name : CreatePod(n) \/ Kubelet(n) \/ StatusUpdate(n) \/ DeletePod(n)
  BY <1>1, PodStep
<1>2. CASE \E n \in Name : PodGone(n)
  BY <1>2, EndStep DEF PodGone
<1>3. CASE ApiDeletes
  <2>1. ref \in Name /\ Referenced(ref) /\ pods' = [pods EXCEPT ![ref] = NoPod]
    BY <1>3 DEF ApiDeletes, TypeOK, Referenced
  <2> QED BY <2>1, EndStep DEF ReferencesMarked, Marked
<1>4. CASE ApiDeletesLate
  <2>1. PICK n \in late : pods' = [pods EXCEPT ![n] = NoPod]
    BY <1>4 DEF ApiDeletesLate
  <2>2. n \in Name /\ Referenced(n)
    BY DEF TypeOK, Referenced
  <2> QED BY <2>1, <2>2, EndStep DEF ReferencesMarked, Marked
<1>5. CASE pods' = pods
  BY <1>5, SamePods
<1> QED BY <1>1, <1>2, <1>3, <1>4, <1>5 DEF Next, ApiServer, ApiFails, CniReady, CniGone,
           process_events, WatchRestarts, process_pods, Recv, DeleteReturns,
           DeleteTimesOut, PublishReturns, ControllerRestarts, clusterVars, vars

\* When pods' names are not used again, every step of the repair controller and around it
\* is a step that MeshedPods allows: no pod serves outside the mesh, and only pods in doubt
\* or on their way out end (validator/src/main.rs, cni-repair-controller/src/lib.rs).
THEOREM RepairMeshes ==
  ASSUME ~NamesReused
  PROVE  Spec => MeshesPods
<1>1. TypeOK /\ ReferencesMarked /\ [Next]_vars => ReferencesMarked'
  BY NextReferencesMarked
<1>2. TypeOK /\ ReferencesMarked /\ [Next]_vars => [Mesh!Next]_(Mesh!vars)
  BY MeshStep
<1> QED BY <1>1, <1>2, InitMesh, InitReferencesMarked, RepairTypeCorrect, PTL
        DEF Spec, MeshesPods, Mesh!Safety
=============================================================================
