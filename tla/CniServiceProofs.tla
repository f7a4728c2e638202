--------------------------- MODULE CniServiceProofs ---------------------------
(***************************************************************************)
(* Proofs about what CniInstaller does for the container runtime: that an  *)
(* idle installer has written the latest credentials, and that every step  *)
(* is one InstallerService allows.                                         *)
(***************************************************************************)
EXTENDS CniInstallerProofs

Handlers == {"k8sToken", "k8sCA", "k8sWrite"} \cup Handling

-----------------------------------------------------------------------------
(* The phases of the two goroutines. *)

\* What the loop turns to when it is given an event.
LEMMA DeliverLoop ==
  ASSUME NEW n, NEW op, Deliver(n, op)
  PROVE  /\ loop' \in {"select", "err", "k8sToken", "cniRead"}
         /\ loop' = "k8sToken" => Dir(n) = "sa"
         /\ loop' = "err" => op = "Overflow"
BY DEF Deliver

\* Remove runs, and the loop ends, only when told to stop.
LEMMA PhaseKept ==
  ASSUME PhaseInv, [Next]_vars
  PROVE  PhaseInv'
<1> USE DEF PhaseInv
<1>1. CASE \/ InstallRegularFiles \/ WatchServiceAccount \/ WatchCniConfig \/ ReadDir
           \/ FeedPanics \/ RunReturns
  BY <1>1 DEF InstallRegularFiles, WatchServiceAccount, WatchCniConfig, ReadDir, FeedPanics,
     RunReturns, mainVars, loopVars, sharedVars
<1>2. CASE FeedData \/ Feed \/ ReceiveEvent
  <2>1. /\ loop' \in {"select", "err", "k8sToken", "cniRead"} /\ loop = "select"
        /\ cancelled' = cancelled
    BY <1>2, DeliverLoop DEF FeedData, Feed, ReceiveEvent, sharedVars
  <2>2. main' = main \/ (main # "exited" /\ main' \in {"readDir", "feed", "select"})
    BY <1>2 DEF FeedData, Feed, ReceiveEvent, mainVars
  <2> QED BY <2>1, <2>2
<1>3. CASE RunFails \/ RunErr \/ RemoveReturns \/ Kill
  BY <1>3 DEF RunFails, RunErr, RemoveReturns, Kill, Gone
<1>4. CASE RevertEntry \/ RevertTruncate \/ RevertWrite
  BY <1>4 DEF RevertEntry, RevertTruncate, RevertWrite, loopVars, sharedVars
<1>5. CASE \/ LoopCtxDone \/ SendErr \/ K8sReadToken \/ K8sReadCA \/ K8sWrite
           \/ CniRead \/ CniRename \/ CniUnlink
  BY <1>5 DEF LoopCtxDone, SendErr, K8sReadToken, K8sReadCA, K8sWrite, CniRead, CniRename,
     CniUnlink, mainVars, sharedVars
<1>6. CASE Provider \/ RotateToken \/ Signal \/ Restart \/ UNCHANGED vars
  BY <1>6 DEF Provider, ProviderWrite, ProviderOpen, ProviderClose, ProviderRemove,
     RotateToken, Signal, Restart, vars, mainVars, loopVars, sharedVars
<1> QED BY <1>1, <1>2, <1>3, <1>4, <1>5, <1>6 DEF Next, Run, RemoveAll, watchFS, Kubelet

-----------------------------------------------------------------------------
(* The credentials. *)

\* Both the kubeconfig and what a handler has read only get newer, until they are removed.
LEMMA NeverOlderKept ==
  ASSUME TypeOK, NeverOlder, [Next]_vars
  PROVE  NeverOlder'
<1>0. /\ kubeconfig.token \in Nat /\ kubeconfig.ca \in Nat /\ gen \in Nat \ {0}
      /\ creds.token \in Nat /\ creds.ca \in Nat /\ creds \in Creds
      /\ NoCreds.token = 0 /\ NoCreds.ca = 0
  BY DEF TypeOK, HostType, LoopType, Creds, NoCreds
<1>1. CASE /\ kubeconfig' \in {kubeconfig, NoCreds} /\ gen' = gen /\ creds' = creds
           /\ loop' = loop \/ loop' \notin {"k8sCA", "k8sWrite"}
  BY <1>0, <1>1 DEF NeverOlder
<1>2. CASE \/ InstallRegularFiles \/ WatchServiceAccount \/ WatchCniConfig \/ ReadDir
           \/ FeedPanics \/ RunReturns \/ RevertEntry \/ RevertTruncate \/ RevertWrite
  BY <1>1, <1>2 DEF InstallRegularFiles, WatchServiceAccount, WatchCniConfig, ReadDir,
     FeedPanics, RunReturns, RevertEntry, RevertTruncate, RevertWrite, hostVars, loopVars
<1>3. CASE FeedData \/ Feed \/ ReceiveEvent
  <2>1. loop' \in {"select", "err", "k8sToken", "cniRead"}
    BY <1>3, DeliverLoop DEF FeedData, Feed, ReceiveEvent
  <2> QED BY <1>1, <1>3, <2>1 DEF FeedData, Feed, ReceiveEvent, hostVars
<1>4. CASE RunFails \/ RunErr \/ RemoveReturns \/ Kill
  <2>1. UNCHANGED <<kubeconfig, gen>> /\ loop' = "off"
    BY <1>4 DEF RunFails, RunErr, RemoveReturns, Kill, Gone, hostVars
  <2> QED BY <2>1 DEF NeverOlder
<1>5. CASE LoopCtxDone \/ SendErr \/ CniRead \/ CniRename \/ CniUnlink
  BY <1>1, <1>5 DEF LoopCtxDone, SendErr, CniRead, CniRename, CniUnlink, hostVars
<1>6. CASE K8sReadToken
  <2>1. loop' = "err" \/ (loop' = "k8sCA" /\ creds'.token = gen)
    BY <1>0, <1>6 DEF K8sReadToken, Creds
  <2> QED BY <1>0, <1>6, <2>1 DEF K8sReadToken, hostVars, NeverOlder
<1>7. CASE K8sReadCA
  <2>1. CASE loop' = "err"
    BY <1>7, <2>1 DEF K8sReadCA, hostVars, NeverOlder
  <2>2. CASE creds' = [creds EXCEPT !.ca = IF KubeCAFile THEN 1 ELSE gen]
    BY <1>0, <1>7, <2>2 DEF K8sReadCA, hostVars, NeverOlder, Creds
  <2> QED BY <1>7, <2>1, <2>2 DEF K8sReadCA
<1>8. CASE K8sWrite
  <2>1. kubeconfig' \in {kubeconfig, creds} /\ gen' = gen /\ loop' \in {"select", "err"}
    BY <1>8 DEF K8sWrite
  <2> QED BY <1>0, <1>8, <2>1 DEF K8sWrite, NeverOlder
<1>9. CASE RotateToken
  BY <1>0, <1>9 DEF RotateToken, loopVars, NeverOlder
<1>10. CASE Provider \/ Signal \/ Restart \/ UNCHANGED vars
  BY <1>1, <1>10 DEF Provider, ProviderWrite, ProviderOpen, ProviderClose, ProviderRemove,
     Signal, Restart, vars, hostVars, loopVars
<1> QED BY <1>2, <1>3, <1>4, <1>5, <1>6, <1>7, <1>8, <1>9, <1>10
        DEF Next, Run, RemoveAll, watchFS, Kubelet

-----------------------------------------------------------------------------
(* A kubeconfig that has to be refreshed. *)

\* The service account's directory stays watched as long as the loop may receive events.
LEMMA DataWatchedKept ==
  ASSUME TypeOK, DataWatched, [Next]_vars
  PROVE  DataWatched'
<1>1. CASE Run \/ RemoveAll
  BY <1>1 DEF Run, RemoveAll, InstallRegularFiles, WatchServiceAccount, WatchCniConfig,
     FeedData, ReadDir, Feed, FeedPanics, RunFails, RunErr, RunReturns, RevertEntry,
     RevertTruncate, RevertWrite, RemoveReturns, Gone, Deliver, mainVars, loopVars,
     kernelVars, DataWatched
<1>2. CASE watchFS
  BY <1>2 DEF watchFS, ReceiveEvent, LoopCtxDone, SendErr, K8sReadToken, K8sReadCA,
     K8sWrite, CniRead, CniRename, CniUnlink, mainVars, kernelVars, DataWatched
<1>3. CASE Provider \/ Kubelet \/ UNCHANGED vars
  BY <1>3 DEF Provider, ProviderWrite, ProviderOpen, ProviderClose, ProviderRemove,
     Kubelet, RotateToken, Signal, Kill, Restart, Gone, mainVars, loopVars, kernelVars,
     vars, DataWatched
<1> QED BY <1>1, <1>2, <1>3 DEF Next

\* The reasons to expect a refresh that do not depend on the running handler.
Expected == NotYetFed \/ Failing \/ Queued(Data)

\* They last while events are only added, unless the loop leaves an error behind.
LEMMA ExpectedKept ==
  ASSUME Expected, QueueGrows, NotYetFed => NotYetFed', errs' = errs,
         loop' = loop \/ loop \in Handlers \cup {"select"}
  PROVE  Expected'
<1>1. Queued(Data) => Queued(Data)'
  BY DEF Queued, QueueGrows
<1>2. (\E i \in DOMAIN queue : queue[i] = OverflowEvent)
        => (\E i \in DOMAIN queue' : queue'[i] = OverflowEvent)
  BY DEF QueueGrows
<1>3. Failing => Failing'
  BY <1>2 DEF Failing, Handlers, Handling
<1> QED BY <1>1, <1>3 DEF Expected

\* Steps that leave the credentials alone, wherever they are, keep RefreshPending.
LEMMA RefreshKept ==
  ASSUME RefreshPending, QueueGrows, NotYetFed => NotYetFed',
         UNCHANGED <<kubeconfig, gen, creds, errs>>,
         \/ loop' = loop
         \/ loop \in Handling \cup {"select"} /\ loop' \notin {"k8sCA", "k8sWrite"}
  PROVE  RefreshPending'
<1>1. Expected => Expected'
  BY ExpectedKept DEF Handlers, Handling
<1>2. Fresh' <=> Fresh
  BY DEF Fresh
<1>3. loop' = loop => (Refreshing' <=> Refreshing)
  BY DEF Refreshing
<1> QED BY <1>1, <1>2, <1>3 DEF RefreshPending, Expected, Refreshing, Handling

\* An event about the credentials that is taken from the queue starts their handler.
LEMMA ReceiveRefresh ==
  ASSUME TypeOK, RefreshPending, ReceiveEvent
  PROVE  RefreshPending'
<1> DEFINE e == Head(queue)
<1>1. queue # <<>> /\ queue \in Seq(Event) /\ queue' = Tail(queue) /\ loop = "select"
  BY DEF ReceiveEvent, TypeOK, QueueType
<1>2. /\ \A i \in DOMAIN queue :
           i = 1 \/ (i - 1 \in DOMAIN queue' /\ queue'[i - 1] = queue[i])
      /\ e = queue[1]
  BY <1>1, HeadTailProperties
<1>3. UNCHANGED <<main, errs, kubeconfig, gen>>
  BY DEF ReceiveEvent, mainVars, sharedVars, hostVars
<1>4. loop' \notin {"k8sCA", "k8sWrite"} /\ (Fresh' <=> Fresh)
  BY <1>3, DeliverLoop DEF ReceiveEvent, Fresh
<1>5. CASE NotYetFed \/ errs = 1
  BY <1>3, <1>5 DEF NotYetFed, Failing, RefreshPending
<1>6. CASE \E i \in DOMAIN queue : queue[i] = OverflowEvent
  <2>1. PICK i \in DOMAIN queue : queue[i] = OverflowEvent
    BY <1>6
  <2>2. CASE i = 1
    <3>1. loop' = "err"
      BY <1>2, <2>1, <2>2 DEF ReceiveEvent, Deliver, OverflowEvent, applies
    <3> QED BY <3>1 DEF Failing, RefreshPending
  <2>3. CASE i # 1
    BY <1>2, <2>1, <2>3 DEF Failing, RefreshPending
  <2> QED BY <2>2, <2>3
<1>7. CASE Queued(Data)
  <2>1. PICK i \in DOMAIN queue : queue[i].name = Data /\ applies(queue[i].op)
    BY <1>7 DEF Queued
  <2>2. CASE i = 1
    <3>1. e.name = Data /\ applies(e.op)
      BY <1>2, <2>1, <2>2
    <3>2. loop' = "k8sToken"
      BY <3>1 DEF ReceiveEvent, Deliver, Dir, Data
    <3> QED BY <3>2 DEF Refreshing, RefreshPending
  <2>3. CASE i # 1
    BY <1>2, <2>1, <2>3 DEF Queued, RefreshPending
  <2> QED BY <2>2, <2>3
<1>8. CASE Fresh
  BY <1>4, <1>8 DEF RefreshPending
<1> QED BY <1>1, <1>5, <1>6, <1>7, <1>8 DEF RefreshPending, Failing, Refreshing

\* The handler's own steps: what it writes is the latest, or it is expected to run again.
LEMMA HandlerRefresh ==
  ASSUME TypeOK, RefreshPending, K8sReadToken \/ K8sReadCA \/ K8sWrite
  PROVE  RefreshPending'
<1>1. creds \in Creds /\ gen \in Nat \ {0} /\ UNCHANGED <<main, errs, gen>>
  BY DEF K8sReadToken, K8sReadCA, K8sWrite, TypeOK, LoopType, HostType, mainVars, hostVars,
         sharedVars
<1>2. ASSUME loop' = "err" PROVE RefreshPending'
  BY <1>2 DEF RefreshPending, Failing
<1>3. QueueGrows
  <2>1. UNCHANGED queue \/ queue' = Emit(queue, Kubeconfig, "Create")
    BY DEF K8sReadToken, K8sReadCA, K8sWrite, kernelVars
  <2> QED BY <2>1, EmitGrows, NamesType DEF QueueGrows, TypeOK, Op
<1>4. loop \in Handlers /\ (Expected => Expected')
  <2>1. loop \in Handlers
    BY DEF K8sReadToken, K8sReadCA, K8sWrite, Handlers
  <2> QED BY <1>1, <1>3, <2>1, ExpectedKept DEF NotYetFed
<1>5. CASE K8sReadToken /\ loop' # "err"
  BY <1>1, <1>5 DEF K8sReadToken, Creds, RefreshPending, Refreshing
<1>6. CASE K8sReadCA /\ loop' # "err"
  <2>1. creds'.token = creds.token /\ creds'.ca = IF KubeCAFile THEN 1 ELSE gen
    BY <1>1, <1>6 DEF K8sReadCA, Creds
  <2> QED BY <1>1, <1>4, <1>6, <2>1 DEF K8sReadCA, RefreshPending, Expected, Refreshing
<1>7. CASE K8sWrite /\ loop' # "err"
  BY <1>1, <1>4, <1>7 DEF K8sWrite, RefreshPending, Expected, Refreshing, Fresh
<1> QED BY <1>2, <1>5, <1>6, <1>7 DEF K8sReadCA

LEMMA RotateRefresh ==
  ASSUME TypeOK, RefreshPending, DataWatched, RotateToken
  PROVE  RefreshPending'
<1>1. UNCHANGED <<main, errs, loop>> /\ queue' = Emit(queue, Data, "Create")
  BY DEF RotateToken, mainVars, loopVars, sharedVars
<1>2. CASE "sa" \in watched
  <2>1. Dir(Data) \in watched
    BY <1>2 DEF Dir, Data
  <2>2. Queued(Data)' \/ Failing'
    BY <1>1, <2>1, EmitQueues DEF TypeOK
  <2> QED BY <2>2 DEF RefreshPending
<1>3. CASE "sa" \notin watched
  <2>1. NotYetFed \/ loop \in {"closeErr", "done"}
    BY <1>3 DEF DataWatched, NotYetFed, TypeOK, MainType, MainPc
  <2> QED BY <1>1, <2>1 DEF RefreshPending, NotYetFed, Failing
<1> QED BY <1>2, <1>3

LEMMA NextRefreshPending ==
  ASSUME TypeOK, RefreshPending, DataWatched, [Next]_vars
  PROVE  RefreshPending'
<1>1. ASSUME NotYetFed' PROVE RefreshPending'
  BY <1>1 DEF RefreshPending
<1>2. CASE \/ InstallRegularFiles \/ WatchServiceAccount \/ WatchCniConfig
           \/ FeedPanics \/ RunReturns \/ RunFails \/ RunErr \/ RemoveAll \/ Kill \/ Restart
  BY <1>1, <1>2 DEF InstallRegularFiles, WatchServiceAccount, WatchCniConfig, FeedPanics,
     RunReturns, RunFails, RunErr, RemoveAll, RevertEntry, RevertTruncate, RevertWrite,
     RemoveReturns, Kill, Restart, Gone, NotYetFed, mainVars
<1>3. CASE FeedData
  <2>1. loop' = "k8sToken"
    BY <1>3 DEF FeedData, Deliver, applies, Dir, Data
  <2> QED BY <2>1 DEF RefreshPending, Refreshing
<1>4. CASE ReadDir
  BY <1>4, RefreshKept DEF ReadDir, QueueGrows, NotYetFed, hostVars, kernelVars, loopVars,
     sharedVars
<1>5. CASE Feed
  <2>1. loop = "select" /\ loop' \notin {"k8sCA", "k8sWrite"} /\ main = "feed"
    BY <1>5, DeliverLoop DEF Feed
  <2> QED BY <1>5, <2>1, RefreshKept DEF Feed, QueueGrows, NotYetFed, hostVars, kernelVars,
             sharedVars
<1>6. CASE ReceiveEvent
  BY <1>6, ReceiveRefresh
<1>7. CASE LoopCtxDone \/ SendErr
  BY <1>7 DEF LoopCtxDone, SendErr, RefreshPending, Failing
<1>8. CASE K8sReadToken \/ K8sReadCA \/ K8sWrite
  BY <1>8, HandlerRefresh
<1>9. CASE CniRead \/ CniRename \/ CniUnlink
  <2>1. /\ loop \in Handling /\ loop' \notin {"k8sCA", "k8sWrite"} /\ ev \in CniFile
        /\ UNCHANGED <<kubeconfig, gen, creds, errs, main>>
    BY <1>9 DEF CniRead, CniRename, CniUnlink, Handling, hostVars, mainVars, sharedVars,
       TypeOK, LoopType
  <2>2. UNCHANGED queue \/ \E m \in Names, op \in Op : queue' = Emit(queue, m, op)
    BY <1>9, <2>1, ListedType, NamesType DEF CniRead, CniRename, CniUnlink, kernelVars, Op
  <2>3. QueueGrows
    BY <2>2, EmitGrows DEF QueueGrows, TypeOK
  <2> QED BY <2>1, <2>3, RefreshKept DEF NotYetFed
<1>10. CASE Provider
  <2>1. UNCHANGED <<kubeconfig, gen, creds, errs, main, loop>>
    BY <1>10 DEF Provider, ProviderWrite, ProviderOpen, ProviderClose, ProviderRemove,
       mainVars, loopVars, sharedVars
  <2>2. UNCHANGED queue \/ \E m \in Names, op \in Op : queue' = Emit(queue, m, op)
    <3>1. half \subseteq CniFile \X Content /\ ProviderWrites \subseteq CniFile \X Content
      BY InstallerAssumption DEF TypeOK, EnvType
    <3>2. \A w \in CniFile \X Content : w[1] \in Names
      BY NamesType
    <3> QED BY <1>10, <3>1, <3>2, NamesType DEF Provider, ProviderWrite, ProviderOpen,
               ProviderClose, ProviderRemove, Op
  <2>3. QueueGrows
    BY <2>2, EmitGrows DEF QueueGrows, TypeOK
  <2> QED BY <2>1, <2>3, RefreshKept DEF NotYetFed
<1>11. CASE RotateToken
  BY <1>11, RotateRefresh
<1>12. CASE Signal \/ UNCHANGED vars
  <2>1. UNCHANGED <<kubeconfig, gen, creds, errs, main, loop, queue>>
    BY <1>12 DEF Signal, vars, hostVars, kernelVars, mainVars, loopVars, sharedVars
  <2> QED BY <2>1, RefreshKept DEF QueueGrows, NotYetFed
<1> QED BY <1>2, <1>3, <1>4, <1>5, <1>6, <1>7, <1>8, <1>9, <1>10, <1>11, <1>12
        DEF Next, Run, watchFS, Kubelet

LEMMA InitServiceInv == Init => ServiceInv
<1> SUFFICES ASSUME Init PROVE ServiceInv
  OBVIOUS
<1>1. RefreshPending /\ DataWatched
  BY DEF Init, RefreshPending, NotYetFed, DataWatched
<1>2. NeverOlder
  BY DEF Init, NeverOlder, NoCreds
<1>3. PhaseInv
  BY DEF Init, PhaseInv
<1> QED BY <1>1, <1>2, <1>3 DEF ServiceInv

LEMMA NextServiceInv == TypeOK /\ ServiceInv /\ [Next]_vars => ServiceInv'
BY NextRefreshPending, DataWatchedKept, NeverOlderKept, PhaseKept DEF ServiceInv

\* Whatever is rotated, dropped, failed or killed, credentials that are out of date are
\* on their way to be replaced, by newer ones only (reconfigureK8s, internal/cni/run.go).
THEOREM ServiceInvariant == Spec => []ServiceInv
<1>1. TypeOK /\ ServiceInv /\ [Next]_vars => ServiceInv'
  BY NextServiceInv
<1> QED BY <1>1, InitServiceInv, TypeCorrect, PTL DEF Spec

\* An installer that has handled every event has written the latest token and CA,
\* although it reads one after the other while the kubelet may rotate both.
THEOREM SettledIsFresh == Spec => []SettledKubeconfigFresh
<1>1. ServiceInv => SettledKubeconfigFresh
  BY EmptySeq DEF ServiceInv, SettledKubeconfigFresh, Settled, RefreshPending, NotYetFed,
     Failing, Queued, Refreshing
<1> QED BY <1>1, ServiceInvariant, PTL

-----------------------------------------------------------------------------
(* The refinement of InstallerService. *)

\* The abstract state, before and after a step.
LEMMA ServiceTypes ==
  /\ servicePhase \in Service!Phases /\ servicePhase' \in Service!Phases
  /\ runtimeConf \in Service!Confs /\ runtimeConf' \in Service!Confs
  /\ pluginCreds \in Service!Kubes /\ pluginCreds' \in Service!Kubes
BY DEF servicePhase, runtimeConf, pluginCreds, Service!Phases, Service!Confs, Service!Kubes

\* An instance that is down, stuck or stopping does not come up but by a restart.
LEMMA PhaseSteps ==
  ASSUME TypeOK, PhaseInv, [Next]_vars, ~Restart
  PROVE  servicePhase' = servicePhase \/ (servicePhase # "down" /\ servicePhase' # "up")
<1>1. main = "exited" => main' = "exited"
  <2>1. CASE Run \/ RemoveAll
    BY <2>1 DEF Run, RemoveAll, InstallRegularFiles, WatchServiceAccount, WatchCniConfig,
       FeedData, ReadDir, Feed, FeedPanics, RunFails, RunErr, RunReturns, RevertEntry,
       RevertTruncate, RevertWrite, RemoveReturns
  <2>2. CASE watchFS
    BY <2>2 DEF watchFS, ReceiveEvent, LoopCtxDone, SendErr, K8sReadToken, K8sReadCA,
       K8sWrite, CniRead, CniRename, CniUnlink, mainVars
  <2>3. CASE Provider \/ RotateToken \/ Signal \/ Kill \/ UNCHANGED vars
    BY <2>3 DEF Provider, ProviderWrite, ProviderOpen, ProviderClose, ProviderRemove,
       RotateToken, Signal, Kill, mainVars, vars
  <2> QED BY <2>1, <2>2, <2>3 DEF Next, Kubelet
<1>2. Jammed => Jammed' \/ main' = "exited"
  <2>1. CASE Run \/ RemoveAll
    BY <2>1 DEF Run, RemoveAll, InstallRegularFiles, WatchServiceAccount, WatchCniConfig,
       FeedData, ReadDir, Feed, FeedPanics, RunFails, RunErr, RunReturns, RevertEntry,
       RevertTruncate, RevertWrite, RemoveReturns, Jammed
  <2>2. CASE watchFS
    BY <2>2 DEF watchFS, ReceiveEvent, LoopCtxDone, SendErr, K8sReadToken, K8sReadCA,
       K8sWrite, CniRead, CniRename, CniUnlink, Jammed
  <2>3. CASE Provider \/ RotateToken \/ Signal \/ Kill \/ UNCHANGED vars
    BY <2>3 DEF Provider, ProviderWrite, ProviderOpen, ProviderClose, ProviderRemove,
       RotateToken, Signal, Kill, Gone, mainVars, loopVars, sharedVars, vars, Jammed
  <2> QED BY <2>1, <2>2, <2>3 DEF Next, Kubelet
<1>3. cancelled => cancelled' \/ main' = "exited"
  <2>1. CASE Run \/ RemoveAll
    BY <2>1 DEF Run, RemoveAll, InstallRegularFiles, WatchServiceAccount, WatchCniConfig,
       FeedData, ReadDir, Feed, FeedPanics, RunFails, RunErr, RunReturns, RevertEntry,
       RevertTruncate, RevertWrite, RemoveReturns, Gone, sharedVars
  <2>2. CASE watchFS
    BY <2>2 DEF watchFS, ReceiveEvent, LoopCtxDone, SendErr, K8sReadToken, K8sReadCA,
       K8sWrite, CniRead, CniRename, CniUnlink, sharedVars
  <2>3. CASE Provider \/ RotateToken \/ Signal \/ Kill \/ UNCHANGED vars
    BY <2>3 DEF Provider, ProviderWrite, ProviderOpen, ProviderClose, ProviderRemove,
       RotateToken, Signal, Kill, Gone, sharedVars, vars
  <2> QED BY <2>1, <2>2, <2>3 DEF Next, Kubelet
<1> QED BY <1>1, <1>2, <1>3 DEF servicePhase

\* A step that changes nothing of what the runtime uses at most stops the installer.
LEMMA QuietStep ==
  ASSUME UNCHANGED <<file, kubeconfig, bin, gen, writes, half>>,
         servicePhase' = servicePhase \/ (servicePhase # "down" /\ servicePhase' # "up")
  PROVE  [Service!Next]_(Service!vars)
<1>1. runtimeConf' = runtimeConf
  BY DEF runtimeConf, UsedByRuntime, UpToDate
<1>2. pluginCreds' = pluginCreds
  BY DEF pluginCreds, Fresh
<1>3. CASE servicePhase' = servicePhase
  BY <1>1, <1>2, <1>3 DEF Service!vars
<1>4. CASE servicePhase' # servicePhase
  <2>1. Service!Stop
    BY <1>1, <1>2, <1>4, ServiceTypes DEF Service!Stop
  <2> QED BY <2>1 DEF Service!Next
<1> QED BY <1>3, <1>4

\* An instance that was told to stop may take back anything, and a handler may still
\* finish.
LEMMA StoppingStep ==
  ASSUME servicePhase = "stopping", servicePhase' = "stopping", bin' \in BOOLEAN,
         UNCHANGED <<writes, half, gen>>
  PROVE  Service!Next
BY ServiceTypes DEF Service!Next, Service!Remove

-----------------------------------------------------------------------------
(* Which configuration the runtime uses. *)

\* Configuration files are ordered by their names.
LEMMA PrecedesOrder ==
  ASSUME NEW a \in CniFile, NEW b \in CniFile, NEW c \in CniFile
  PROVE  /\ a # b => Precedes(a, b) \/ Precedes(b, a)
         /\ a # b => ~(Precedes(a, b) /\ Precedes(b, a))
         /\ a # b /\ b # c /\ Precedes(a, b) /\ Precedes(b, c) => Precedes(a, c)
<1>1. ASSUME NEW n \in CniFile
      PROVE  n[1] \in Nat /\ n[2] \in {"conf", "conflist"} /\ n = <<n[1], n[2]>>
  <2>1. PICK x \in Bases, y \in {"conf", "conflist"} : n = <<x, y>>
    BY <1>1 DEF CniFile
  <2> QED BY <2>1, InstallerAssumption
<1>2. \A m, n \in CniFile : m[1] = n[1] /\ m[2] = n[2] => m = n
  BY <1>1
<1> QED BY <1>1, <1>2 DEF Precedes

\* A list with linkerd in it that is written anywhere, and a single-plugin file that is
\* removed, leave a runtime that runs linkerd with linkerd.
LEMMA LinkerdStays ==
  ASSUME file \in [CniFile -> FileState], NEW n \in CniFile, NEW c \in FileState,
         file' = [file EXCEPT ![n] = c], runtimeConf = "linkerd",
         \/ n[2] = "conflist" /\ Injected(c) /\ c # Absent
         \/ n[2] = "conf" /\ c = Absent
  PROVE  runtimeConf' = "linkerd"
<1>1. PICK u \in CniFile : UsedByRuntime(u) /\ UpToDate(u)
  BY DEF runtimeConf
<1>2. u[2] = "conflist" /\ file[u] # Absent
  BY <1>1 DEF UsedByRuntime, UpToDate
<1>3. \A m \in CniFile : file'[m] = IF m = n THEN c ELSE file[m]
  OBVIOUS
<1>4. ASSUME c = Absent PROVE UsedByRuntime(u)' /\ UpToDate(u)'
  <2>1. u # n
    BY <1>2, <1>4 DEF Injected
  <2> QED BY <1>1, <1>3, <1>4, <2>1 DEF UsedByRuntime, UpToDate
<1>5. ASSUME c # Absent, n = u \/ Precedes(u, n) PROVE UsedByRuntime(u)' /\ UpToDate(u)'
  BY <1>1, <1>3, <1>5 DEF UsedByRuntime, UpToDate
<1>6. ASSUME c # Absent, n # u, ~Precedes(u, n) PROVE UsedByRuntime(n)' /\ UpToDate(n)'
  <2>1. Precedes(n, u)
    BY <1>6, PrecedesOrder
  <2>2. ASSUME NEW m \in CniFile \ {n}, file'[m] # Absent PROVE Precedes(n, m)
    <3>1. m = u \/ Precedes(u, m)
      BY <1>1, <1>3, <2>2 DEF UsedByRuntime
    <3> QED BY <1>6, <2>1, <3>1, PrecedesOrder
  <2> QED BY <1>3, <1>6, <2>2 DEF UsedByRuntime, UpToDate
<1>7. \E m \in CniFile : file'[m] # Absent /\ UsedByRuntime(m)' /\ UpToDate(m)'
  BY <1>4, <1>5, <1>6 DEF UsedByRuntime
<1> QED BY <1>7 DEF runtimeConf

-----------------------------------------------------------------------------
(* Each step of the installer and of what surrounds it is one InstallerService allows. *)

\* A step of a handler that goes on, or of Run, leaves the phase as it is.
LEMMA PhaseStays ==
  ASSUME UNCHANGED cancelled, main # "exited", main' # "exited",
         loop # "err" \/ main \notin {"feedData", "feed"},
         loop' # "err" \/ main' \notin {"feedData", "feed"}
  PROVE  servicePhase' = servicePhase /\ servicePhase \in {"up", "stopping"}
BY DEF servicePhase, Jammed

\* The loop is off only in an instance that has not begun to watch or is gone.
LEMMA HandlerServes ==
  ASSUME PhaseInv, loop # "off"
  PROVE  main # "exited"
BY DEF PhaseInv

LEMMA InstallStep ==
  ASSUME TypeOK, InstallRegularFiles
  PROVE  Service!Next
<1>1. /\ UNCHANGED <<file, kubeconfig, gen, writes, half, cancelled>>
      /\ bin' = TRUE /\ main = "install" /\ main' = "watch"
  BY DEF InstallRegularFiles, envVars
<1>2. servicePhase' = servicePhase /\ servicePhase \in {"up", "stopping"}
  BY <1>1, PhaseStays
<1>3. CASE servicePhase = "up"
  <2>1. UNCHANGED <<runtimeConf, pluginCreds>>
    BY <1>1 DEF runtimeConf, UsedByRuntime, UpToDate, pluginCreds, Fresh
  <2> QED BY <1>1, <1>2, <1>3, <2>1 DEF Service!Next, Service!Install
<1>4. CASE servicePhase = "stopping"
  BY <1>1, <1>2, <1>4, StoppingStep
<1> QED BY <1>2, <1>3, <1>4

LEMMA RevertStep ==
  ASSUME TypeOK, PhaseInv, RevertEntry \/ RevertTruncate \/ RevertWrite
  PROVE  Service!Next
<1>1. /\ main \in {"remove", "revertTruncate", "revertWrite"} /\ main # "exited"
      /\ main' \in {"remove", "revertTruncate", "revertWrite"}
      /\ bin' \in BOOLEAN /\ UNCHANGED <<writes, half, gen, cancelled, loop>>
  BY DEF RevertEntry, RevertTruncate, RevertWrite, envVars, sharedVars, loopVars, TypeOK,
     HostType
<1>2. cancelled
  BY <1>1 DEF PhaseInv
<1>3. servicePhase = "stopping" /\ servicePhase' = "stopping"
  BY <1>1, <1>2 DEF servicePhase, Jammed
<1> QED BY <1>1, <1>3, StoppingStep

\* A handler never replaces the latest credentials by older ones.
LEMMA K8sWriteStep ==
  ASSUME TypeOK, ServiceInv, K8sWrite, loop' # "err"
  PROVE  [Service!Next]_(Service!vars)
<1>1. /\ loop = "k8sWrite" /\ kubeconfig' = creds
      /\ UNCHANGED <<file, bin, gen, writes, half, cancelled, main>>
  BY DEF K8sWrite, envVars, mainVars
<1>2. servicePhase' = servicePhase /\ servicePhase \in {"up", "stopping"}
  BY <1>1, PhaseStays, HandlerServes DEF ServiceInv
<1>3. UNCHANGED runtimeConf
  BY <1>1 DEF runtimeConf, UsedByRuntime, UpToDate
<1>4. /\ kubeconfig \in Creds /\ creds \in Creds /\ gen \in Nat \ {0}
  BY DEF TypeOK, HostType, LoopType
<1>5. pluginCreds' \in {"stale", "fresh"}
  <2>1. kubeconfig' # NoCreds
    BY <1>1, <1>4 DEF ServiceInv, NeverOlder, NoCreds, Creds
  <2> QED BY <2>1 DEF pluginCreds, NoCreds
<1>6. Fresh => Fresh'
  BY <1>1, <1>4 DEF ServiceInv, NeverOlder, Creds, Fresh
<1>7. CASE servicePhase = "stopping"
  BY <1>1, <1>2, <1>7, StoppingStep DEF TypeOK, HostType
<1>8. CASE servicePhase = "up" /\ pluginCreds # "fresh"
  BY <1>1, <1>2, <1>3, <1>5, <1>8 DEF Service!Next, Service!Configure
<1>9. CASE servicePhase = "up" /\ pluginCreds = "fresh"
  BY <1>1, <1>2, <1>3, <1>6, <1>9 DEF Service!vars, pluginCreds
<1> QED BY <1>2, <1>7, <1>8, <1>9

\* A handler never takes linkerd out of the configuration the runtime uses, not while it
\* replaces a single-plugin file by its list either.
LEMMA CniHandlerStep ==
  ASSUME TypeOK, ServiceInv, MergedIsInjected, CniRename \/ CniUnlink, loop' # "err"
  PROVE  [Service!Next]_(Service!vars)
<1>1. /\ loop \in {"cniRename", "cniUnlink"} /\ ev \in CniFile
      /\ UNCHANGED <<kubeconfig, bin, gen, writes, half, cancelled, main>>
  BY DEF CniRename, CniUnlink, envVars, mainVars, sharedVars, TypeOK, LoopType
<1>2. servicePhase' = servicePhase /\ servicePhase \in {"up", "stopping"}
  BY <1>1, PhaseStays, HandlerServes DEF ServiceInv
<1>3. UNCHANGED pluginCreds
  BY <1>1 DEF pluginCreds, Fresh
<1>4. ASSUME runtimeConf = "linkerd" PROVE runtimeConf' = "linkerd"
  <2>1. CASE CniRename
    <3>1. file' = [file EXCEPT ![Listed(ev)] = merged] /\ Injected(merged)
      BY <2>1 DEF CniRename, MergedIsInjected
    <3>2. Listed(ev) \in CniFile /\ Listed(ev)[2] = "conflist" /\ merged # Absent
      BY <1>1, <3>1, ListedType DEF Listed, Injected, Absent
    <3> QED BY <1>4, <3>1, <3>2, LinkerdStays DEF TypeOK, HostType, LoopType
  <2>2. CASE CniUnlink
    <3>1. file' = [file EXCEPT ![ev] = Absent] /\ ev[2] = "conf" /\ Absent \in FileState
      BY <2>2, ConstantContents DEF CniUnlink, ServiceInv, PhaseInv, FileState
    <3> QED BY <1>1, <1>4, <3>1, LinkerdStays DEF TypeOK, HostType
  <2> QED BY <2>1, <2>2
<1>5. CASE servicePhase = "stopping"
  BY <1>1, <1>2, <1>5, StoppingStep DEF TypeOK, HostType
<1>6. CASE servicePhase = "up" /\ runtimeConf # "linkerd"
  BY <1>1, <1>2, <1>3, <1>6, ServiceTypes DEF Service!Next, Service!Inject
<1>7. CASE servicePhase = "up" /\ runtimeConf = "linkerd"
  BY <1>1, <1>2, <1>3, <1>4, <1>7 DEF Service!vars
<1> QED BY <1>2, <1>5, <1>6, <1>7

LEMMA ProviderStep ==
  ASSUME TypeOK, Provider
  PROVE  Service!Next
<1>1. UNCHANGED <<kubeconfig, gen, bin, main, loop, errs, cancelled>>
  BY DEF Provider, ProviderWrite, ProviderOpen, ProviderClose, ProviderRemove, mainVars,
     loopVars, sharedVars
<1>2. UNCHANGED <<servicePhase, pluginCreds>>
  BY <1>1 DEF servicePhase, Jammed, pluginCreds, Fresh
<1>3. <<writes, half, gen>>' # <<writes, half, gen>>
  <2>1. CASE ProviderWrite \/ ProviderOpen \/ ProviderRemove
    <3>1. writes \in Nat /\ writes' = writes + 1
      BY <2>1 DEF ProviderWrite, ProviderOpen, ProviderRemove, TypeOK, EnvType
    <3> QED BY <3>1
  <2>2. CASE ProviderClose
    BY <2>2 DEF ProviderClose
  <2> QED BY <2>1, <2>2 DEF Provider
<1> QED BY <1>1, <1>2, <1>3, ServiceTypes DEF Service!Next, Service!Provide

LEMMA RotateStep ==
  ASSUME TypeOK, ServiceInv, RotateToken
  PROVE  Service!Next
<1>1. /\ gen' = gen + 1
      /\ UNCHANGED <<file, kubeconfig, bin, main, loop, errs, cancelled>>
  BY DEF RotateToken, mainVars, loopVars, sharedVars
<1>2. UNCHANGED <<servicePhase, runtimeConf>>
  BY <1>1 DEF servicePhase, Jammed, runtimeConf, UsedByRuntime, UpToDate
<1>3. gen \in Nat \ {0} /\ kubeconfig \in Creds /\ kubeconfig.token <= gen
  BY DEF TypeOK, HostType, ServiceInv, NeverOlder
<1>4. ~Fresh' /\ (Fresh => kubeconfig # NoCreds)
  BY <1>1, <1>3 DEF Fresh, NoCreds, Creds
<1>5. pluginCreds' = IF pluginCreds = "fresh" THEN "stale" ELSE pluginCreds
  BY <1>1, <1>4 DEF pluginCreds
<1>6. <<writes, half, gen>>' # <<writes, half, gen>>
  BY <1>1, <1>3
<1> QED BY <1>1, <1>2, <1>5, <1>6 DEF Service!Next, Service!Rotate

LEMMA RestartStep ==
  ASSUME PhaseInv, Restart
  PROVE  Service!Next
<1>1. /\ main = "exited" /\ main' = "install" /\ ~cancelled /\ ~cancelled'
      /\ UNCHANGED <<file, kubeconfig, gen, bin, writes, half>>
  BY DEF Restart, PhaseInv, hostVars, sharedVars
<1>2. servicePhase = "down" /\ servicePhase' = "up"
  BY <1>1 DEF servicePhase, Jammed
<1>3. UNCHANGED <<runtimeConf, pluginCreds>>
  BY <1>1 DEF runtimeConf, UsedByRuntime, UpToDate, pluginCreds, Fresh
<1> QED BY <1>1, <1>2, <1>3 DEF Service!Next, Service!Restart

LEMMA ServiceStep ==
  ASSUME TypeOK, MergedIsInjected, ServiceInv, [Next]_vars
  PROVE  [Service!Next]_(Service!vars)
<1>1. ASSUME UNCHANGED <<file, kubeconfig, bin, gen, writes, half>>, ~Restart
      PROVE  [Service!Next]_(Service!vars)
  BY <1>1, PhaseSteps, QuietStep DEF ServiceInv
<1>2. CASE Run /\ ~InstallRegularFiles
  BY <1>1, <1>2 DEF Run, WatchServiceAccount, WatchCniConfig, FeedData, ReadDir, Feed,
     FeedPanics, RunFails, RunErr, RunReturns, Restart, Gone, hostVars, envVars
<1>3. CASE InstallRegularFiles
  BY <1>3, InstallStep
<1>4. CASE RevertEntry \/ RevertTruncate \/ RevertWrite
  BY <1>4, RevertStep DEF ServiceInv
<1>5. CASE RemoveReturns
  BY <1>1, <1>5 DEF RemoveReturns, Restart, Gone, hostVars, envVars
<1>6. CASE ReceiveEvent \/ LoopCtxDone \/ SendErr \/ K8sReadToken \/ K8sReadCA \/ CniRead
  BY <1>1, <1>6 DEF ReceiveEvent, LoopCtxDone, SendErr, K8sReadToken, K8sReadCA, CniRead,
     Restart, mainVars, hostVars, envVars
<1>7. CASE K8sWrite
  <2>1. loop' = "err" => UNCHANGED kubeconfig
    BY <1>7 DEF K8sWrite
  <2>2. UNCHANGED <<file, bin, gen, writes, half>> /\ ~Restart
    BY <1>7 DEF K8sWrite, Restart, mainVars, envVars
  <2> QED BY <1>1, <1>7, <2>1, <2>2, K8sWriteStep
<1>8. CASE CniRename \/ CniUnlink
  <2>1. loop' = "err" => UNCHANGED file
    BY <1>8 DEF CniRename, CniUnlink
  <2>2. UNCHANGED <<kubeconfig, bin, gen, writes, half>> /\ ~Restart
    BY <1>8 DEF CniRename, CniUnlink, Restart, mainVars, envVars
  <2> QED BY <1>1, <1>8, <2>1, <2>2, CniHandlerStep
<1>9. CASE Provider
  BY <1>9, ProviderStep
<1>10. CASE RotateToken
  BY <1>10, RotateStep
<1>11. CASE Restart
  BY <1>11, RestartStep DEF ServiceInv
<1>12. CASE (Signal \/ Kill \/ UNCHANGED vars) /\ ~Restart
  BY <1>1, <1>12 DEF Signal, Kill, vars, hostVars, envVars
<1> QED BY <1>2, <1>3, <1>4, <1>5, <1>6, <1>7, <1>8, <1>9, <1>10, <1>11, <1>12
        DEF Next, RemoveAll, watchFS, Kubelet

LEMMA InitService == Init => Service!Init
<1> SUFFICES ASSUME Init PROVE Service!Init
  OBVIOUS
<1>1. servicePhase = "up" /\ bin = FALSE
  BY DEF Init, servicePhase, Jammed
<1>2. pluginCreds = "none"
  BY DEF Init, pluginCreds, Fresh, NoCreds
<1> QED BY <1>1, <1>2, ServiceTypes DEF Service!Init

\* Every step of the installer, of the providers, of the kubelet and of a crash is one
\* InstallerService allows: until it is told to stop, the installer takes nothing of
\* linkerd's away from the container runtime (internal/cni, cni-install), whatever the
\* sizes of the directory and the queue, and however often it is restarted.
THEOREM ServesTheRuntime == Spec => ServesRuntime
<1>1. TypeOK /\ InjectionInv /\ ServiceInv /\ [Next]_vars => [Service!Next]_(Service!vars)
  BY ServiceStep DEF InjectionInv
<1> QED BY <1>1, InitService, TypeCorrect, InjectionIsPending, ServiceInvariant, PTL
        DEF Spec, ServesRuntime, Service!Safety
=============================================================================
