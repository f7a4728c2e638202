------------------------------ MODULE NodeProofs ------------------------------
(***************************************************************************)
(* Proofs about Node: with its processes, the validator of each pod does   *)
(* only what RepairController supposes of it, and the timeout that bounds  *)
(* it is the one that was asked for.                                       *)
(***************************************************************************)
EXTENDS Node, RepairControllerProofs

-----------------------------------------------------------------------------
(* The timeout. *)

LEMMA UnitValues ==
  /\ DOMAIN Unit = {"ms", "s", "m", "h", "d"}
  /\ Unit["ms"] = 1 /\ Unit["s"] = 1000 /\ Unit["m"] = 60000
  /\ Unit["h"] = 3600000 /\ Unit["d"] = 86400000
BY DEF Unit

LEMMA UnitsHaveLetters == ASSUME NEW u \in DOMAIN Unit PROVE u # ""
<1>1. "" \notin {"ms", "s", "m", "h", "d"}
  BY Zenon
<1>2. DOMAIN Unit = {"ms", "s", "m", "h", "d"}
  BY UnitValues
<1>3. u \in {"ms", "s", "m", "h", "d"}
  BY <1>2
<1> QED BY <1>1, <1>3, Zenon

\* Comparing with the quotient tells whether the number and its product both fit.
LEMMA ProductFits ==
  ASSUME NEW k \in Nat, NEW u \in DOMAIN Unit
  PROVE  /\ k * Unit[u] \in Nat
         /\ k <= MaxU64 \div Unit[u] <=> k <= MaxU64 /\ k * Unit[u] <= MaxU64
<1>1. CASE u = "ms"
  BY <1>1, UnitValues, ValidatorAssumption
<1>2. CASE u = "s"
  BY <1>2, UnitValues, ValidatorAssumption
<1>3. CASE u = "m"
  BY <1>3, UnitValues, ValidatorAssumption
<1>4. CASE u = "h"
  BY <1>4, UnitValues, ValidatorAssumption
<1>5. CASE u = "d"
  BY <1>5, UnitValues, ValidatorAssumption
<1> QED BY <1>1, <1>2, <1>3, <1>4, <1>5, UnitValues

LEMMA ParseIsExact ==
  ASSUME timeout \in [number : SUBSET Nat, unit : STRING]
  PROVE  TimeoutIsAsked
<1> DEFINE u == timeout.unit
           bare == u = ""
           numbers == {k \in timeout.number : k <= MaxU64}
           zero == {k \in timeout.number : bare /\ k = 0}
           fits == {k * Unit[u] : k \in {j \in timeout.number : j <= MaxU64 \div Unit[u]}}
<1> HIDE DEF u, bare
<1>1. timeout.number \subseteq Nat
  OBVIOUS
<1>6. TimeoutIsAsked <=> parse_timeout(timeout) = IF u \in DOMAIN Unit THEN fits ELSE zero
  BY DEF u, bare, TimeoutIsAsked
<1>7. parse_timeout(timeout)
        = {ms \in {k * Unit[v] : k \in numbers, v \in UnitsOf(timeout)} : ms <= MaxU64}
          \cup {k \in numbers : bare /\ k = 0}
  BY DEF u, bare, parse_timeout
<1>8. UnitsOf(timeout) = {u} \cap DOMAIN Unit
  BY DEF u, UnitsOf
<1>2. {k \in numbers : bare /\ k = 0} = zero
  <2>1. 0 <= MaxU64
    BY ValidatorAssumption
  <2>2. ASSUME NEW k \in timeout.number, k = 0 PROVE k <= MaxU64
    BY <2>1, <2>2
  <2> QED BY <2>2, Zenon
<1>3. CASE u \in DOMAIN Unit
  <2>1. UnitsOf(timeout) = {u}
    BY <1>3, <1>8
  <2>3. zero = {}
    <3>1. ~bare
      BY <1>3, UnitsHaveLetters, Zenon DEF bare
    <3> QED BY <3>1, Zenon
  <2>2. {ms \in {k * Unit[v] : k \in numbers, v \in {u}} : ms <= MaxU64}
          = fits
    BY <1>1, <1>3, ProductFits
  <2> QED BY <1>2, <1>3, <1>6, <1>7, <2>1, <2>2, <2>3
<1>4. CASE u \notin DOMAIN Unit
  <2>1. UnitsOf(timeout) = {}
    BY <1>4, <1>8
  <2>2. parse_timeout(timeout) = {k \in numbers : bare /\ k = 0}
    BY <1>7, <2>1
  <2> QED BY <1>2, <1>4, <1>6, <2>2, Zenon
<1>5. u \in DOMAIN Unit \/ u \notin DOMAIN Unit
  OBVIOUS
<1> QED BY <1>3, <1>4, <1>5

-----------------------------------------------------------------------------
(* The processes. *)

\* A process is connected to its own server only if its pod is redirected.
OwnIsRedirected ==
  \A n \in Name : Running(n) /\ proc[n] = "own" => pods[n].rules

NodeInv ==
  /\ TypeOK
  /\ proc \in [Name -> ProcessState] /\ timeout \in Timeouts
  /\ OwnIsRedirected

\* What a process may get to, and from where it gets to its own server and to success.
LEMMA ValidateSteps ==
  ASSUME NEW state, NEW redirected \in BOOLEAN, NEW text,
         NEW p \in validate(state, redirected, text)
  PROVE  /\ p \in ProcessState
         /\ p = "own" => redirected
         /\ p = EXIT_OK => state = "own"
BY DEF validate, Parse, Bind, Connect, Compare, ProcessState, Waiting, EXIT_OK, EXIT_FAILED,
       EXIT_USAGE

\* Nothing but its kubelet starts a pod, or changes whether it is redirected.
LEMMA RunningStays ==
  ASSUME TypeOK, Others, NEW n \in Name, Running(n)'
  PROVE  Running(n) /\ pods'[n].rules = pods[n].rules
<1>0. NewPod.validator = "waiting" /\ NoPod.validator = "none"
  BY DEF NewPod, NoPod
<1>1. ASSUME UNCHANGED pods PROVE Running(n) /\ pods'[n].rules = pods[n].rules
  BY <1>1 DEF Running, Exists
<1>2. ASSUME NEW m \in Name \cup {NoName}, pods' = [pods EXCEPT ![m] = NoPod]
      PROVE  Running(n) /\ pods'[n].rules = pods[n].rules
  BY <1>0, <1>2 DEF Running, Exists, TypeOK
<1>3. ASSUME NEW m \in Name, NEW pod \in Pod, Update(m, pod),
             pod.validator = "running" =>
               pods[m].validator = "running" /\ Exists(m) /\ pod.rules = pods[m].rules
      PROVE  Running(n) /\ pods'[n].rules = pods[n].rules
  BY <1>3 DEF Running, Exists, TypeOK, Update
<1>4. CASE CniReady \/ CniGone \/ process_events \/ WatchRestarts \/ ControllerRestarts
  BY <1>1, <1>4 DEF CniReady, CniGone, process_events, WatchRestarts, ControllerRestarts
<1>5. CASE process_pods
  BY <1>1, <1>5 DEF process_pods, Recv, DeleteReturns, DeleteTimesOut, PublishReturns,
     clusterVars
<1>6. CASE ApiServer
  BY <1>1, <1>2, <1>6
     DEF ApiServer, ApiDeletes, ApiFails, ApiDeletesLate, clusterVars, TypeOK
<1>7. CASE \E m \in Name : PodGone(m)
  BY <1>2, <1>7 DEF PodGone
<1>8. CASE \E m \in Name : CreatePod(m)
  BY <1>0, <1>3, <1>8, PodTypes DEF CreatePod
<1>9. CASE \E m \in Name : StatusUpdate(m) \/ DeletePod(m)
  <2>1. \A m \in Name : [pods[m] EXCEPT !.deleting = TRUE] \in Pod /\ pods[m] \in Pod
    BY DEF TypeOK, Pod
  <2> QED BY <1>3, <1>9, <2>1 DEF StatusUpdate, DeletePod, Pod
<1> QED BY <1>4, <1>5, <1>6, <1>7, <1>8, <1>9 DEF Others

LEMMA InitNodeInv == NodeInit => NodeInv
<1> SUFFICES ASSUME NodeInit PROVE NodeInv
  OBVIOUS
<1>1. proc \in [Name -> ProcessState] /\ \A n \in Name : proc[n] # "own"
  BY DEF NodeInit, ProcessState
<1> QED BY <1>1, InitTypeOK DEF NodeInit, NodeInv, OwnIsRedirected

\* With its process, a container that starts, succeeds or fails does what the pod of
\* RepairController does.
LEMMA NodeStep ==
  ASSUME NodeInv, [NodeNext]_nodeVars
  PROVE  [Next]_vars
<1>1. ASSUME NEW n \in Name, StartValidator(n) PROVE Next
  BY <1>1 DEF StartValidator, Next, Kubelet
<1>2. ASSUME NEW n \in Name, ValidatorStep(n) PROVE UNCHANGED vars
  BY <1>2 DEF ValidatorStep
<1>3. ASSUME NEW n \in Name, ExitOk(n) PROVE Next
  <2>1. proc[n] = "own" /\ pods[n].rules
    BY <1>3, ValidateSteps DEF ExitOk, NodeInv, OwnIsRedirected, TypeOK, Pod
  <2>2. ValidatorPasses(n)
    BY <1>3, <2>1 DEF ExitOk, Running, ValidatorPasses
  <2> QED BY <2>2 DEF Next, Kubelet
<1>4. ASSUME NEW n \in Name, ExitFailed(n) PROVE Next
  <2>1. ValidatorFails(n)
    BY <1>4 DEF ExitFailed, Running, ValidatorFails
  <2> QED BY <2>1 DEF Next, Kubelet
<1>5. ASSUME Others PROVE Next
  BY <1>5 DEF Others, Next
<1>6. ASSUME UNCHANGED nodeVars PROVE UNCHANGED vars
  BY <1>6 DEF nodeVars
<1> QED BY <1>1, <1>2, <1>3, <1>4, <1>5, <1>6 DEF NodeNext

LEMMA NextOwnIsRedirected ==
  ASSUME NodeInv, [NodeNext]_nodeVars
  PROVE  proc' \in [Name -> ProcessState] /\ OwnIsRedirected' /\ timeout' = timeout
<1> USE DEF NodeInv
<1>1. ASSUME NEW n \in Name, NEW p \in ProcessState, proc' = [proc EXCEPT ![n] = p],
             NEW pod, Update(n, pod) \/ UNCHANGED pods,
             p = "own" => UNCHANGED pods /\ pods[n].rules
      PROVE  proc' \in [Name -> ProcessState] /\ OwnIsRedirected'
  <2>1. proc' \in [Name -> ProcessState]
    BY <1>1
  <2>2. ASSUME NEW m \in Name \ {n} PROVE pods'[m] = pods[m] /\ proc'[m] = proc[m]
    BY <1>1 DEF Update, TypeOK
  <2>3. proc'[n] = p
    BY <1>1
  <2> QED BY <1>1, <2>1, <2>2, <2>3 DEF OwnIsRedirected, Running, Exists
<1>2. "args" \in ProcessState /\ "args" # "own"
  BY DEF ProcessState
<1>3. CASE \E n \in Name : StartValidator(n) \/ ExitOk(n) \/ ExitFailed(n)
  BY <1>1, <1>2, <1>3 DEF StartValidator, StartPod, ValidatorRestarts, ExitOk, ExitFailed
<1>4. CASE \E n \in Name : ValidatorStep(n)
  <2>1. PICK n \in Name : ValidatorStep(n)
    BY <1>4
  <2>2. PICK p \in validate(proc[n], pods[n].rules, timeout) :
          proc' = [proc EXCEPT ![n] = p]
    BY <2>1 DEF ValidatorStep
  <2>3. pods[n].rules \in BOOLEAN
    BY DEF TypeOK, Pod
  <2> QED BY <1>1, <2>1, <2>2, <2>3, ValidateSteps DEF ValidatorStep, vars, clusterVars
<1>5. CASE Others
  <2>1. proc' = [n \in Name |-> IF Exists(n)' THEN proc[n] ELSE "args"]
        /\ UNCHANGED timeout
    BY <1>5 DEF Others
  <2>2. proc' \in [Name -> ProcessState]
    BY <1>2, <2>1
  <2>3. ASSUME NEW n \in Name, Running(n)'
        PROVE  Running(n) /\ pods'[n].rules = pods[n].rules
    BY <1>5, <2>3, RunningStays
  <2> QED BY <1>2, <2>1, <2>2, <2>3 DEF OwnIsRedirected
<1>6. CASE UNCHANGED nodeVars
  BY <1>6 DEF nodeVars, vars, clusterVars, OwnIsRedirected, Running, Exists
<1> QED BY <1>3, <1>4, <1>5, <1>6 DEF NodeNext, StartValidator, ValidatorStep, ExitOk,
        ExitFailed

LEMMA NextNodeInv == NodeInv /\ [NodeNext]_nodeVars => NodeInv'
<1> SUFFICES ASSUME NodeInv, [NodeNext]_nodeVars PROVE NodeInv'
  OBVIOUS
<1>1. TypeOK'
  BY NodeStep, NextTypeOK DEF NodeInv
<1> QED BY <1>1, NextOwnIsRedirected DEF NodeInv

\* The types of a node's variables, and: a validator is connected to its own server only
\* in a pod that is redirected (connect in validator/src/main.rs).
THEOREM NodeInvariant == NodeSpec => []NodeInv
BY InitNodeInv, NextNodeInv, PTL DEF NodeSpec

\* With the processes of the validators in place of what RepairController supposes of
\* them, a node is still one RepairController describes: a validator succeeds only if its
\* pod is redirected (validate in validator/src/main.rs).
THEOREM NodeImplements == NodeSpec => ImplementsRepairController
<1>1. NodeInv /\ [NodeNext]_nodeVars => [Next]_vars
  BY NodeStep
<1>2. NodeInit => Init
  BY DEF NodeInit
<1> QED BY <1>1, <1>2, NodeInvariant, PTL DEF NodeSpec, Spec, ImplementsRepairController

\* Whatever the number and the unit of --timeout, and however wide its type, the timeout
\* is their product or refused (parse_timeout in validator/src/main.rs).
THEOREM TimeoutAsAsked == NodeSpec => []TimeoutIsAsked
<1>1. NodeInv => TimeoutIsAsked
  BY NodeAssumption, ParseIsExact DEF NodeInv
<1> QED BY <1>1, NodeInvariant, PTL

\* And so a node keeps the promise of MeshedPods, if names are not used again.
THEOREM NodeMeshes == ASSUME ~NamesReused PROVE NodeSpec => MeshesPods
<1>1. NodeSpec => Spec
  BY NodeImplements, PTL DEF ImplementsRepairController
<1> QED BY <1>1, RepairMeshes, PTL
=============================================================================
