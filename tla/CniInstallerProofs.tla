-------------------------- MODULE CniInstallerProofs --------------------------
(***************************************************************************)
(* Proofs about CniInstaller, for every set of files, every content, every *)
(* set of faults and of doings of the environment and every bound: type    *)
(* correctness, and that an installer with nothing left to do has injected *)
(* linkerd into every configuration on the host.                           *)
(***************************************************************************)
EXTENDS CniInstaller, SequenceTheorems, TLAPS

\* What names and states stand for, to be expanded in most steps.
Names == CniFile \cup {Kubeconfig, Data, Overflow}

-----------------------------------------------------------------------------
(* Lemmas on documents. *)

\* Taking linkerd out of a list leaves a list.
LEMMA WithoutLinkerdType ==
  ASSUME NEW ps \in Seq(Element)
  PROVE  WithoutLinkerd(ps) \in Seq(Element)
<1>1. CASE LinkerdAt(ps) = {}
  BY <1>1 DEF WithoutLinkerd
<1>2. CASE LinkerdAt(ps) # {}
  <2>1. PICK i \in DOMAIN ps : WithoutLinkerd(ps) = RemoveAt(ps, i)
    BY <1>2 DEF WithoutLinkerd, LinkerdAt
  <2>2. SubSeq(ps, 1, i - 1) \in Seq(Element) /\ SubSeq(ps, i + 1, Len(ps)) \in Seq(Element)
    BY LenProperties
  <2> QED BY <2>1, <2>2 DEF RemoveAt
<1> QED BY <1>1, <1>2

\* What inject (conf.go) builds is a document whose chain ends in linkerd.
LEMMA InjectProperties ==
  ASSUME NEW c \in Content
  PROVE  inject(c) \in Content /\ Injected(inject(c)) /\ inject(c) # Absent
<1> DEFINE ps == IF c.form = "single" THEN c.plugins ELSE WithoutLinkerd(c.plugins)
<1>1. ps \in Seq(Element)
  BY WithoutLinkerdType DEF Content
<1>2. Linkerd \in Element
  BY DEF Element
<1>3. /\ Append(ps, Linkerd) \in Seq(Element) /\ Append(ps, Linkerd) # <<>>
      /\ Append(ps, Linkerd)[Len(Append(ps, Linkerd))] = Linkerd
  BY <1>1, <1>2, AppendProperties
<1>4. inject(c) = [form |-> "list", plugins |-> Append(ps, Linkerd)]
  BY DEF inject
<1> HIDE DEF ps
<1> QED BY <1>3, <1>4 DEF Content, Form, Injected, Absent

\* revert (remove.go) writes a document.
LEMMA RevertedType ==
  ASSUME NEW c \in Content
  PROVE  reverted(c) \in Content
BY WithoutLinkerdType DEF reverted, Content

\* The constant documents are documents, and no installer leaves them as its own.
LEMMA ConstantContents == /\ Absent \in Content /\ Unparsable \in Content
                          /\ Absent # Unparsable
                          /\ ~Injected(Absent) /\ ~Injected(Unparsable)
BY EmptySeq DEF Absent, Unparsable, Content, Form, Injected

-----------------------------------------------------------------------------
(* Lemmas on the queue, the log and the end of the process. *)

\* An emitted event leaves a queue of events; nothing that was in it is lost.
LEMMA EmitType ==
  ASSUME NEW q \in Seq(Event), NEW n \in Names, NEW op \in Op
  PROVE  Emit(q, n, op) \in Seq(Event)
<1>1. [name |-> n, op |-> op] \in Event /\ OverflowEvent \in Event
  BY DEF Event, OverflowEvent, Op, Names
<1> QED BY <1>1 DEF Emit

LEMMA AppendEntryType ==
  ASSUME NEW l \in Seq(Entry), NEW n \in Entry
  PROVE  appendEntry(l, n) \in Seq(Entry)
BY DEF appendEntry

\* The list that replaces a configuration file is one too, under one name.
LEMMA ListedType ==
  ASSUME NEW n \in CniFile
  PROVE  Listed(n) \in CniFile /\ Listed(n)[2] = "conflist"
BY DEF Listed, CniFile

LEMMA NamesType == /\ CniFile \subseteq Entry /\ Bin \in Entry /\ Kubeconfig \in Entry
                   /\ CniFile \subseteq Names /\ Kubeconfig \in Names /\ Data \in Names
BY DEF Entry, Names

\* The end of the process leaves well-typed, initial memory.
LEMMA GoneType ==
  ASSUME TypeOK, NEW how \in {"panic", "removed", "fatal", "killed"}, Gone(how),
         UNCHANGED <<hostVars, envVars, joined>>
  PROVE  TypeOK'
<1>1. HostType' /\ EnvType'
  BY DEF TypeOK, HostType, EnvType, hostVars, envVars
<1>2. QueueType' /\ SharedType'
  BY ConstantContents, EmptySeq DEF Gone, QueueType, SharedType, FileState
<1>3. MainType'
  BY ConstantContents, EmptySeq DEF Gone, TypeOK, MainType, MainPc, FileState
<1>4. LoopType'
  BY ConstantContents DEF Gone, LoopType, LoopPc, FileState, Creds, NoCreds
<1> QED BY <1>1, <1>2, <1>3, <1>4 DEF TypeOK

-----------------------------------------------------------------------------
(* Type correctness. *)

LEMMA InitTypeOK == Init => TypeOK
<1> SUFFICES ASSUME Init PROVE TypeOK
  OBVIOUS
<1>1. HostType
  <2>1. file \in [CniFile -> FileState]
    BY InstallerAssumption DEF Init
  <2>2. kubeconfig \in Creds /\ gen \in Nat \ {0}
    BY DEF Init, Creds, NoCreds
  <2>3. bin \in BOOLEAN
    BY DEF Init
  <2> QED BY <2>1, <2>2, <2>3 DEF HostType
<1>2. QueueType
  BY EmptySeq DEF Init, QueueType
<1>3. MainType
  BY ConstantContents, EmptySeq DEF Init, MainType, MainPc, FileState
<1>4. LoopType
  BY ConstantContents DEF Init, LoopType, LoopPc, FileState, Creds, NoCreds
<1>5. SharedType
  BY ConstantContents, EmptySeq DEF Init, SharedType, FileState
<1>6. EnvType
  BY DEF Init, EnvType
<1> QED BY <1>1, <1>2, <1>3, <1>4, <1>5, <1>6 DEF TypeOK

\* What the event loop turns to is a handler of the name it was given.
LEMMA DeliverType ==
  ASSUME NEW n \in Names, NEW op \in Op, Deliver(n, op)
  PROVE  /\ loop' \in LoopPc
         /\ loop' \notin {"off", "begin", "closeErr", "done"}
         /\ loop' \notin {"cniRename", "cniUnlink"}
         /\ loop' = "cniRead" => n \in CniFile
BY DEF Deliver, LoopPc, Names, isCNIFile, Kubeconfig, Data, Overflow, CniFile

LEMMA NextTypeOK == TypeOK /\ [Next]_vars => TypeOK'
<1> SUFFICES ASSUME TypeOK, [Next]_vars PROVE TypeOK'
  OBVIOUS
<1> USE DEF TypeOK
<1>1. CASE InstallRegularFiles
  <2>1. QueueType' /\ LoopType' /\ EnvType'
    BY <1>1 DEF InstallRegularFiles, QueueType, LoopType, EnvType, kernelVars,
       loopVars, envVars
  <2>2. HostType'
    BY <1>1 DEF InstallRegularFiles, HostType, hostVars
  <2>3. MainType'
    BY <1>1 DEF InstallRegularFiles, MainType, mainVars, MainPc
  <2>4. SharedType'
    BY <1>1, AppendEntryType, NamesType DEF InstallRegularFiles, SharedType,
       sharedVars
  <2> QED BY <2>1, <2>2, <2>3, <2>4 DEF TypeOK
<1>2. CASE WatchServiceAccount
  <2>1. HostType' /\ MainType' /\ SharedType' /\ EnvType'
    BY <1>2 DEF WatchServiceAccount, HostType, MainType, SharedType, EnvType,
       hostVars, mainVars, sharedVars, envVars
  <2>2. QueueType'
    BY <1>2 DEF WatchServiceAccount, QueueType, kernelVars
  <2>3. LoopType'
    BY <1>2 DEF WatchServiceAccount, LoopType, loopVars, LoopPc
  <2> QED BY <2>1, <2>2, <2>3 DEF TypeOK
<1>3. CASE WatchCniConfig
  <2>1. HostType' /\ SharedType' /\ EnvType'
    BY <1>3 DEF WatchCniConfig, HostType, SharedType, EnvType, hostVars, sharedVars,
       envVars
  <2>2. QueueType'
    BY <1>3 DEF WatchCniConfig, QueueType, kernelVars
  <2>3. MainType'
    BY <1>3 DEF WatchCniConfig, MainType, mainVars, MainPc
  <2>4. LoopType'
    BY <1>3 DEF WatchCniConfig, LoopType, loopVars, LoopPc
  <2> QED BY <2>1, <2>2, <2>3, <2>4 DEF TypeOK
<1>4. CASE FeedData
  <2>1. HostType' /\ QueueType' /\ SharedType' /\ EnvType'
    BY <1>4 DEF FeedData, HostType, QueueType, SharedType, EnvType, hostVars,
       kernelVars, sharedVars, envVars
  <2>2. MainType'
    BY <1>4 DEF FeedData, MainType, mainVars, MainPc
  <2>3. LoopType'
    BY <1>4, DeliverType, NamesType DEF FeedData, LoopType, loopVars, Op, Names
  <2> QED BY <2>1, <2>2, <2>3 DEF TypeOK
<1>5. CASE ReadDir
  <2>1. HostType' /\ QueueType' /\ LoopType' /\ SharedType' /\ EnvType'
    BY <1>5 DEF ReadDir, HostType, QueueType, LoopType, SharedType, EnvType,
       hostVars, kernelVars, loopVars, sharedVars, envVars
  <2>2. MainType'
    BY <1>5 DEF ReadDir, MainType, mainVars, MainPc, Entries
  <2> QED BY <2>1, <2>2 DEF TypeOK
<1>6. CASE Feed
  <2>1. HostType' /\ QueueType' /\ SharedType' /\ EnvType'
    BY <1>6 DEF Feed, HostType, QueueType, SharedType, EnvType, hostVars,
       kernelVars, sharedVars, envVars
  <2>2. MainType'
    BY <1>6 DEF Feed, MainType, mainVars, MainPc
  <2>3. LoopType'
    BY <1>6, DeliverType, NamesType DEF Feed, LoopType, loopVars, MainType, Op,
       Names
  <2> QED BY <2>1, <2>2, <2>3 DEF TypeOK
<1>7. CASE FeedPanics
  <2>1. HostType' /\ QueueType' /\ LoopType' /\ SharedType' /\ EnvType'
    BY <1>7 DEF FeedPanics, HostType, QueueType, LoopType, SharedType, EnvType,
       hostVars, kernelVars, loopVars, sharedVars, envVars
  <2>2. MainType'
    BY <1>7 DEF FeedPanics, MainType, mainVars, MainPc, SharedType
  <2> QED BY <2>1, <2>2 DEF TypeOK
<1>8. CASE RunReturns
  <2>1. HostType' /\ QueueType' /\ LoopType' /\ SharedType' /\ EnvType'
    BY <1>8 DEF RunReturns, HostType, QueueType, LoopType, SharedType, EnvType,
       hostVars, kernelVars, loopVars, sharedVars, envVars
  <2>2. MainType'
    BY <1>8 DEF RunReturns, MainType, mainVars, MainPc, SharedType
  <2> QED BY <2>1, <2>2 DEF TypeOK
<1>9. CASE RevertTruncate
  <2>1. LoopType' /\ SharedType' /\ EnvType'
    BY <1>9 DEF RevertTruncate, LoopType, SharedType, EnvType, loopVars, sharedVars,
       envVars
  <2>2. HostType'
    BY <1>9, ConstantContents DEF RevertTruncate, HostType, hostVars, FileState,
       MainType
  <2>3. QueueType'
    BY <1>9, EmitType, NamesType DEF RevertTruncate, QueueType, kernelVars,
       MainType, Op
  <2>4. MainType'
    BY <1>9, ConstantContents, HeadTailProperties DEF RevertTruncate, MainType,
       mainVars, MainPc, FileState
  <2> QED BY <2>1, <2>2, <2>3, <2>4 DEF TypeOK
<1>10. CASE RevertWrite
  <2>1. LoopType' /\ SharedType' /\ EnvType'
    BY <1>10 DEF RevertWrite, LoopType, SharedType, EnvType, loopVars, sharedVars,
       envVars
  <2>2. HostType'
    BY <1>10 DEF RevertWrite, HostType, hostVars, FileState, MainType
  <2>3. QueueType'
    BY <1>10, EmitType, NamesType DEF RevertWrite, QueueType, kernelVars, MainType,
       Op
  <2>4. MainType'
    BY <1>10, ConstantContents, HeadTailProperties DEF RevertWrite, MainType,
       mainVars, MainPc, FileState
  <2> QED BY <2>1, <2>2, <2>3, <2>4 DEF TypeOK
<1>11. CASE ReceiveEvent
  <2>1. HostType' /\ MainType' /\ SharedType' /\ EnvType'
    BY <1>11 DEF ReceiveEvent, HostType, MainType, SharedType, EnvType, hostVars,
       mainVars, sharedVars, envVars
  <2>2. QueueType'
    BY <1>11, HeadTailProperties DEF ReceiveEvent, QueueType, kernelVars
  <2>3. LoopType'
    <3>1. Head(queue) \in Event
      BY <1>11, HeadTailProperties DEF ReceiveEvent, QueueType
    <3>2. Head(queue).name \in Names /\ Head(queue).op \in Op
      BY <3>1 DEF Event, Names
    <3>3. loop' \in LoopPc /\ loop' \notin {"cniRename", "cniUnlink"}
          /\ (loop' = "cniRead" => ev' \in CniFile)
      BY <1>11, <3>2, DeliverType DEF ReceiveEvent
    <3> QED BY <1>11, <3>2, <3>3 DEF ReceiveEvent, LoopType, Names
  <2> QED BY <2>1, <2>2, <2>3 DEF TypeOK
<1>12. CASE LoopCtxDone
  <2>1. HostType' /\ MainType' /\ SharedType' /\ EnvType'
    BY <1>12 DEF LoopCtxDone, HostType, MainType, SharedType, EnvType, hostVars,
       mainVars, sharedVars, envVars
  <2>2. QueueType'
    BY <1>12, EmptySeq DEF LoopCtxDone, QueueType, kernelVars
  <2>3. LoopType'
    BY <1>12 DEF LoopCtxDone, LoopType, loopVars, LoopPc
  <2> QED BY <2>1, <2>2, <2>3 DEF TypeOK
<1>13. CASE SendErr
  <2>1. HostType' /\ QueueType' /\ MainType' /\ EnvType'
    BY <1>13 DEF SendErr, HostType, QueueType, MainType, EnvType, hostVars,
       kernelVars, mainVars, envVars
  <2>2. LoopType'
    BY <1>13 DEF SendErr, LoopType, loopVars, LoopPc
  <2>3. SharedType'
    BY <1>13 DEF SendErr, SharedType, sharedVars
  <2> QED BY <2>1, <2>2, <2>3 DEF TypeOK
<1>14. CASE K8sReadToken
  <2>1. HostType' /\ QueueType' /\ MainType' /\ SharedType' /\ EnvType'
    BY <1>14 DEF K8sReadToken, HostType, QueueType, MainType, SharedType, EnvType,
       hostVars, kernelVars, mainVars, sharedVars, envVars
  <2>2. LoopType'
    BY <1>14 DEF K8sReadToken, LoopType, loopVars, LoopPc, HostType, Creds
  <2> QED BY <2>1, <2>2 DEF TypeOK
<1>15. CASE K8sReadCA
  <2>1. HostType' /\ QueueType' /\ MainType' /\ SharedType' /\ EnvType'
    BY <1>15 DEF K8sReadCA, HostType, QueueType, MainType, SharedType, EnvType,
       hostVars, kernelVars, mainVars, sharedVars, envVars
  <2>2. LoopType'
    BY <1>15 DEF K8sReadCA, LoopType, loopVars, LoopPc, HostType, Creds, NoCreds
  <2> QED BY <2>1, <2>2 DEF TypeOK
<1>16. CASE K8sWrite
  <2>1. MainType' /\ EnvType'
    BY <1>16 DEF K8sWrite, MainType, EnvType, mainVars, envVars
  <2>2. HostType'
    BY <1>16 DEF K8sWrite, HostType, hostVars, LoopType
  <2>3. QueueType'
    BY <1>16, EmitType, NamesType DEF K8sWrite, QueueType, kernelVars, Op
  <2>4. LoopType'
    BY <1>16 DEF K8sWrite, LoopType, loopVars, LoopPc, NoCreds, Creds
  <2>5. SharedType'
    BY <1>16, AppendEntryType, NamesType DEF K8sWrite, SharedType, sharedVars
  <2> QED BY <2>1, <2>2, <2>3, <2>4, <2>5 DEF TypeOK
<1>17. CASE CniRead
  <2>1. HostType' /\ QueueType' /\ MainType' /\ SharedType' /\ EnvType'
    BY <1>17 DEF CniRead, HostType, QueueType, MainType, SharedType, EnvType,
       hostVars, kernelVars, mainVars, sharedVars, envVars
  <2>2. LoopType'
    BY <1>17, InjectProperties DEF CniRead, LoopType, loopVars, LoopPc, HostType,
       FileState
  <2> QED BY <2>1, <2>2 DEF TypeOK
<1>18. CASE CniRename
  <2>1. MainType' /\ EnvType'
    BY <1>18 DEF CniRename, MainType, EnvType, mainVars, envVars
  <2>2. HostType'
    BY <1>18, ListedType DEF CniRename, HostType, hostVars, LoopType
  <2>3. QueueType'
    <3>1. Listed(ev) \in Names /\ Listed(ev) \in Entry
      BY <1>18, ListedType, NamesType DEF CniRename, LoopType
    <3>2. Emit(queue, Listed(ev), "Create") \in Seq(Event)
      BY <3>1, EmitType DEF QueueType, Op
    <3> QED BY <1>18, <3>2 DEF CniRename, QueueType
  <2>4. LoopType'
    BY <1>18, ConstantContents DEF CniRename, LoopType, loopVars, LoopPc, FileState
  <2>5. SharedType'
    <3>1. Listed(ev) \in Names /\ Listed(ev) \in Entry
      BY <1>18, ListedType, NamesType DEF CniRename, LoopType
    <3>2. appendEntry(log, Listed(ev)) \in Seq(Entry)
      BY <3>1, AppendEntryType DEF SharedType
    <3>3. hash' \in [CniFile -> FileState]
      BY <1>18 DEF CniRename, SharedType, LoopType
    <3> QED BY <1>18, <3>2, <3>3 DEF CniRename, SharedType
  <2> QED BY <2>1, <2>2, <2>3, <2>4, <2>5 DEF TypeOK
<1>19. CASE CniUnlink
  <2>1. MainType' /\ SharedType' /\ EnvType'
    BY <1>19 DEF CniUnlink, MainType, SharedType, EnvType, mainVars, sharedVars,
       envVars
  <2>2. HostType'
    BY <1>19, ConstantContents DEF CniUnlink, HostType, hostVars, FileState,
       LoopType
  <2>3. QueueType'
    BY <1>19, EmitType, NamesType DEF CniUnlink, QueueType, kernelVars, Op, LoopType
  <2>4. LoopType'
    BY <1>19 DEF CniUnlink, LoopType, loopVars, LoopPc
  <2> QED BY <2>1, <2>2, <2>3, <2>4 DEF TypeOK
<1>20. CASE ProviderWrite
  <2>1. MainType' /\ LoopType' /\ SharedType'
    BY <1>20 DEF ProviderWrite, MainType, LoopType, SharedType, mainVars, loopVars,
       sharedVars
  <2>2. HostType'
    BY <1>20, InstallerAssumption DEF ProviderWrite, HostType, hostVars, FileState
  <2>3. QueueType'
    BY <1>20, EmitType, NamesType, InstallerAssumption DEF ProviderWrite, QueueType,
       kernelVars, Op
  <2>4. EnvType'
    BY <1>20 DEF ProviderWrite, EnvType, envVars
  <2> QED BY <2>1, <2>2, <2>3, <2>4 DEF TypeOK
<1>21. CASE ProviderOpen
  <2>1. MainType' /\ LoopType' /\ SharedType'
    BY <1>21 DEF ProviderOpen, MainType, LoopType, SharedType, mainVars, loopVars,
       sharedVars
  <2>2. HostType'
    BY <1>21, InstallerAssumption, ConstantContents DEF ProviderOpen, HostType,
       hostVars, FileState
  <2>3. QueueType'
    <3>1. PICK w \in ProviderWrites :
             queue' = Emit(queue, w[1], IF file[w[1]] = Absent THEN "Create" ELSE "Write")
      BY <1>21 DEF ProviderOpen
    <3>2. w[1] \in Names
      BY InstallerAssumption, NamesType
    <3> QED BY <1>21, <3>1, <3>2, EmitType DEF ProviderOpen, QueueType, Op
  <2>4. EnvType'
    BY <1>21 DEF ProviderOpen, EnvType, envVars
  <2> QED BY <2>1, <2>2, <2>3, <2>4 DEF TypeOK
<1>22. CASE ProviderClose
  <2>1. MainType' /\ LoopType' /\ SharedType'
    BY <1>22 DEF ProviderClose, MainType, LoopType, SharedType, mainVars, loopVars,
       sharedVars
  <2>2. HostType'
    BY <1>22, InstallerAssumption DEF ProviderClose, HostType, hostVars, FileState,
       EnvType
  <2>3. QueueType'
    <3>1. PICK w \in half : queue' = queue \/ queue' = Emit(queue, w[1], "Write")
      BY <1>22 DEF ProviderClose
    <3>2. w[1] \in Names
      BY InstallerAssumption, NamesType DEF EnvType
    <3> QED BY <1>22, <3>1, <3>2, EmitType DEF ProviderClose, QueueType, Op
  <2>4. EnvType'
    BY <1>22 DEF ProviderClose, EnvType, envVars
  <2> QED BY <2>1, <2>2, <2>3, <2>4 DEF TypeOK
<1>23. CASE ProviderRemove
  <2>1. MainType' /\ LoopType' /\ SharedType'
    BY <1>23 DEF ProviderRemove, MainType, LoopType, SharedType, mainVars, loopVars,
       sharedVars
  <2>2. HostType'
    BY <1>23, ConstantContents DEF ProviderRemove, HostType, hostVars, FileState
  <2>3. QueueType'
    <3>1. PICK n \in CniFile, op \in {"Remove", "Rename"} : queue' = Emit(queue, n, op)
      BY <1>23 DEF ProviderRemove
    <3>2. n \in Names /\ op \in Op
      BY NamesType DEF Op
    <3> QED BY <1>23, <3>1, <3>2, EmitType DEF ProviderRemove, QueueType
  <2>4. EnvType'
    BY <1>23 DEF ProviderRemove, EnvType, envVars
  <2> QED BY <2>1, <2>2, <2>3, <2>4 DEF TypeOK
<1>24. CASE RotateToken
  <2>1. MainType' /\ LoopType' /\ SharedType' /\ EnvType'
    BY <1>24 DEF RotateToken, MainType, LoopType, SharedType, EnvType, mainVars,
       loopVars, sharedVars, envVars
  <2>2. HostType'
    BY <1>24 DEF RotateToken, HostType, hostVars
  <2>3. QueueType'
    BY <1>24, EmitType, NamesType DEF RotateToken, QueueType, kernelVars, Op
  <2> QED BY <2>1, <2>2, <2>3 DEF TypeOK
<1>25. CASE Signal
  <2>1. HostType' /\ QueueType' /\ MainType' /\ LoopType' /\ EnvType'
    BY <1>25 DEF Signal, HostType, QueueType, MainType, LoopType, EnvType, hostVars,
       kernelVars, mainVars, loopVars, envVars
  <2>2. SharedType'
    BY <1>25 DEF Signal, SharedType, sharedVars
  <2> QED BY <2>1, <2>2 DEF TypeOK
<1>26. CASE Restart
  <2>1. HostType' /\ QueueType' /\ LoopType' /\ SharedType'
    BY <1>26 DEF Restart, HostType, QueueType, LoopType, SharedType, hostVars,
       kernelVars, loopVars, sharedVars
  <2>2. MainType'
    BY <1>26 DEF Restart, MainType, mainVars, MainPc
  <2>3. EnvType'
    BY <1>26 DEF Restart, EnvType, envVars
  <2> QED BY <2>1, <2>2, <2>3 DEF TypeOK
<1>27. CASE RunFails
  BY <1>27, GoneType DEF RunFails
<1>28. CASE RunErr
  BY <1>28, GoneType DEF RunErr
<1>29. CASE RemoveReturns
  BY <1>29, GoneType DEF RemoveReturns
<1>30. CASE Kill
  BY <1>30, GoneType DEF Kill
<1>31. CASE RevertEntry
  <2> DEFINE n == Head(todo)
  <2>1. QueueType' /\ LoopType' /\ SharedType' /\ EnvType'
    <3>1. QueueType'
      BY <1>31, EmitType, NamesType DEF RevertEntry, QueueType, Op
    <3> QED BY <1>31, <3>1 DEF RevertEntry, LoopType, SharedType, EnvType, loopVars,
               sharedVars, envVars
  <2>2. HostType'
    <3>1. bin' \in BOOLEAN
      BY <1>31 DEF RevertEntry, HostType
    <3> QED BY <1>31, <3>1 DEF RevertEntry, HostType, Creds, NoCreds
  <2>3. MainType'
    <3>1. n \in Entry /\ Tail(todo) \in Seq(Entry)
      BY <1>31, HeadTailProperties DEF RevertEntry, MainType
    <3>2. todo' \in Seq(Entry) /\ rbuf' \in FileState
      BY <1>31, <3>1, RevertedType DEF RevertEntry, MainType, HostType, FileState
    <3>3. rerr' \in BOOLEAN
      BY <1>31 DEF RevertEntry, MainType
    <3>4. /\ main' \in MainPc
          /\ main' \in {"revertTruncate", "revertWrite"} =>
               todo' # <<>> /\ Head(todo') \in CniFile
      BY <1>31 DEF RevertEntry, MainType, MainPc
    <3> QED BY <1>31, <3>2, <3>3, <3>4 DEF RevertEntry, MainType
  <2> QED BY <2>1, <2>2, <2>3 DEF TypeOK
<1>32. CASE UNCHANGED vars
  BY <1>32 DEF vars, hostVars, kernelVars, mainVars, loopVars, sharedVars, envVars,
     TypeOK, HostType, QueueType, MainType, LoopType, SharedType, EnvType
<1> QED BY <1>1, <1>2, <1>3, <1>4, <1>5, <1>6, <1>7, <1>8, <1>9, <1>10, <1>11,
   <1>12, <1>13, <1>14, <1>15, <1>16, <1>17, <1>18, <1>19, <1>20, <1>21, <1>22,
   <1>23, <1>24, <1>25, <1>26, <1>27, <1>28, <1>29, <1>30, <1>31, <1>32 DEF Next,
   Run, RemoveAll, watchFS, Provider, Kubelet

\* In every reachable state the variables have their types: errs holds at most the
\* one error it has room for, and CNI handlers and Remove rewrite CNI files only.
THEOREM TypeCorrect == Spec => []TypeOK
<1>1. Init => TypeOK
  BY InitTypeOK
<1>2. TypeOK /\ [Next]_vars => TypeOK'
  BY NextTypeOK
<1> QED BY <1>1, <1>2, PTL DEF Spec

-----------------------------------------------------------------------------
(* The files that need an injection. *)

\* The queue keeps what it holds.
QueueGrows == \A i \in DOMAIN queue : i \in DOMAIN queue' /\ queue'[i] = queue[i]

Handling == {"cniRead", "cniRename", "cniUnlink"}

LEMMA EmitGrows ==
  ASSUME QueueType, NEW n \in Names, NEW op \in Op, queue' = Emit(queue, n, op)
  PROVE  QueueGrows
<1>1. [name |-> n, op |-> op] \in Event /\ OverflowEvent \in Event
  BY DEF Event, OverflowEvent, Op, Names
<1> QED BY <1>1, AppendProperties DEF Emit, QueueGrows, QueueType

\* An event on a watched file is queued, or the overflow of the queue is.
LEMMA EmitQueues ==
  ASSUME QueueType, NEW n \in CniFile \cup {Data}, NEW op \in {"Create", "Write"},
         Dir(n) \in watched, queue' = Emit(queue, n, op)
  PROVE  Queued(n)' \/ Failing'
<1>1. [name |-> n, op |-> op] \in Event /\ OverflowEvent \in Event
  BY NamesType DEF Event, OverflowEvent, Op, Names
<1>2. Dir(n) \in watched
  OBVIOUS
<1>3. CASE Len(queue) < QueueCap
  <2>1. queue' = Append(queue, [name |-> n, op |-> op])
    BY <1>2, <1>3 DEF Emit
  <2>2. queue'[Len(queue) + 1] = [name |-> n, op |-> op] /\ Len(queue) + 1 \in DOMAIN queue'
    BY <1>1, <2>1, AppendProperties DEF QueueType
  <2> QED BY <2>2 DEF Queued, applies
<1>4. CASE ~(Len(queue) < QueueCap)
  <2>1. CASE \E i \in DOMAIN queue : queue[i] = OverflowEvent
    BY <1>2, <1>4, <2>1 DEF Emit, Failing
  <2>2. CASE queue' = Append(queue, OverflowEvent)
    <3>1. queue'[Len(queue) + 1] = OverflowEvent /\ Len(queue) + 1 \in DOMAIN queue'
      BY <1>1, <2>2, AppendProperties DEF QueueType
    <3> QED BY <3>1 DEF Failing
  <2> QED BY <1>2, <1>4, <2>1, <2>2 DEF Emit
<1> QED BY <1>3, <1>4

\* A file that is pending stays so in a step of others than the handler's.
LEMMA PendingKept ==
  ASSUME NEW n \in CniFile, Pending(n), QueueGrows, UNCHANGED <<main, toFeed, errs>>,
         \/ loop' = loop /\ ev' = ev
         \/ loop \in {"k8sToken", "k8sCA", "k8sWrite"}
         \/ loop \in Handling /\ ev # n
  PROVE  Pending(n)'
<1>1. Queued(n) => Queued(n)'
  BY DEF Queued, QueueGrows
<1>2. (\E i \in DOMAIN queue : queue[i] = OverflowEvent)
        => (\E i \in DOMAIN queue' : queue'[i] = OverflowEvent)
  BY DEF QueueGrows
<1>3. NotServing => NotServing'
  BY DEF NotServing
<1>4. Failing => Failing'
  BY <1>2 DEF Failing, Handling
<1> QED BY <1>1, <1>3, <1>4 DEF Pending, Handling

LEMMA UpToDateKept ==
  ASSUME NEW n, file'[n] = file[n]
  PROVE  UpToDate(n)' <=> UpToDate(n)
BY DEF UpToDate

\* An event the loop takes from the queue makes it turn to the file the event is
\* about, or to the overflow; all others stay in the queue.
LEMMA ReceivePending ==
  ASSUME TypeOK, NEW n \in CniFile, Pending(n), ReceiveEvent
  PROVE  Pending(n)'
<1> DEFINE e == Head(queue)
<1>1. queue # <<>> /\ queue \in Seq(Event) /\ queue' = Tail(queue) /\ loop = "select"
  BY DEF ReceiveEvent, TypeOK, QueueType
<1>2. /\ \A i \in DOMAIN queue :
           i = 1 \/ (i - 1 \in DOMAIN queue' /\ queue'[i - 1] = queue[i])
      /\ e = queue[1]
  BY <1>1, HeadTailProperties
<1>3. UNCHANGED <<main, toFeed, errs>>
  BY DEF ReceiveEvent, mainVars, sharedVars
<1>4. CASE NotServing \/ errs = 1 \/ (main = "feed" /\ n \in toFeed)
  BY <1>3, <1>4 DEF NotServing, Failing, Pending
<1>5. CASE \E i \in DOMAIN queue : queue[i] = OverflowEvent
  <2>1. PICK i \in DOMAIN queue : queue[i] = OverflowEvent
    BY <1>5
  <2>2. CASE i = 1
    <3>1. loop' = "err"
      BY <1>2, <2>1, <2>2 DEF ReceiveEvent, Deliver, OverflowEvent, applies
    <3> QED BY <3>1 DEF Failing, Pending
  <2>3. CASE i # 1
    BY <1>2, <2>1, <2>3 DEF Failing, Pending
  <2> QED BY <2>2, <2>3
<1>6. CASE Queued(n)
  <2>1. PICK i \in DOMAIN queue : queue[i].name = n /\ applies(queue[i].op)
    BY <1>6 DEF Queued
  <2>2. CASE i = 1
    <3>1. e.name = n /\ applies(e.op)
      BY <1>2, <2>1, <2>2
    <3>2. loop' = "cniRead" /\ ev' = n
      BY <3>1 DEF ReceiveEvent, Deliver, Dir, isCNIFile, CniFile
    <3> QED BY <3>2 DEF Pending
  <2>3. CASE i # 1
    BY <1>2, <2>1, <2>3 DEF Queued, Pending
  <2> QED BY <2>2, <2>3
<1> QED BY <1>1, <1>4, <1>5, <1>6 DEF Pending, Failing

\* Steps that neither change a file nor take an event nor run a CNI handler.
LEMMA QuietStepPending ==
  ASSUME TypeOK, NEW n \in CniFile, Pending(n), UNCHANGED <<main, toFeed, errs>>,
         \/ UNCHANGED queue
         \/ \E m \in Names, op \in Op : queue' = Emit(queue, m, op),
         \/ loop' = loop /\ ev' = ev
         \/ loop \in {"k8sToken", "k8sCA", "k8sWrite"}
         \/ loop \in Handling /\ ev # n
  PROVE  Pending(n)'
<1>1. QueueGrows
  BY EmitGrows DEF QueueGrows, TypeOK
<1> QED BY <1>1, PendingKept

LEMMA RunPending ==
  ASSUME TypeOK, InjectionInv, Run \/ RemoveAll, NEW n \in CniFile, ~UpToDate(n)'
  PROVE  Pending(n)'
<1>1. CASE \/ InstallRegularFiles \/ WatchServiceAccount \/ WatchCniConfig \/ FeedData
           \/ FeedPanics \/ RunFails \/ RunErr \/ RunReturns \/ RemoveAll
  BY <1>1 DEF InstallRegularFiles, WatchServiceAccount, WatchCniConfig, FeedData,
     FeedPanics, RunFails, RunErr, RunReturns, RemoveAll, RevertEntry, RevertTruncate,
     RevertWrite, RemoveReturns, Gone, mainVars, Pending, NotServing
<1>2. CASE ReadDir
  <2>1. file[n] # Absent /\ n \in Entries
    BY <1>2 DEF ReadDir, hostVars, UpToDate, Entries
  <2> QED BY <1>2, <2>1 DEF ReadDir, Pending
<1>3. CASE Feed
  <2>1. PICK m \in toFeed : /\ Deliver(m, "Write") /\ ev' = m /\ toFeed' = toFeed \ {m}
                            /\ main' = IF toFeed = {m} THEN "select" ELSE "feed"
    BY <1>3 DEF Feed
  <2>2. ~UpToDate(n) /\ Pending(n)
    BY <1>3, UpToDateKept DEF Feed, hostVars, InjectionInv, InjectionPending
  <2>3. CASE m = n
    <3>1. loop' = "cniRead"
      BY <2>1, <2>3 DEF Deliver, applies, Dir, isCNIFile, CniFile
    <3> QED BY <2>1, <2>3, <3>1 DEF Pending
  <2>4. CASE m # n
    BY <1>3, <2>1, <2>2, <2>4
       DEF Feed, kernelVars, sharedVars, Pending, NotServing, Failing, Queued
  <2> QED BY <2>3, <2>4
<1> QED BY <1>1, <1>2, <1>3 DEF Run

\* The handler of the CNI watch leaves its file up to date, goes on with it or
\* fails; it takes no other file from those that are pending.
LEMMA HandlerPending ==
  ASSUME TypeOK, InjectionInv, CniRead \/ CniRename \/ CniUnlink,
         NEW n \in CniFile, ~UpToDate(n)'
  PROVE  Pending(n)'
<1>1. loop \in Handling /\ ev \in CniFile /\ UNCHANGED <<main, toFeed, errs, ev>>
  BY DEF CniRead, CniRename, CniUnlink, TypeOK, LoopType, Handling, mainVars, sharedVars
<1>2. ASSUME loop' = "err" PROVE Pending(n)'
  BY <1>2 DEF Pending, Failing
<1>3. ASSUME loop' \in Handling, ev = n PROVE Pending(n)'
  BY <1>1, <1>3 DEF Pending, Handling
<1>4. CASE CniRead
  <2>1. UNCHANGED <<file, queue>>
    BY <1>4 DEF CniRead, hostVars, kernelVars
  <2>2. ~UpToDate(n) /\ Pending(n)
    BY <2>1, UpToDateKept DEF InjectionInv, InjectionPending
  <2>3. CASE ev = n
    <3>1. ~Skips(n)
      BY <2>2 DEF Skips, UpToDate, InjectionInv, HashedIsLogged
    <3> QED BY <1>2, <1>3, <1>4, <2>3, <3>1 DEF CniRead, Handling
  <2>4. CASE ev # n
    BY <1>1, <2>1, <2>2, <2>4, QuietStepPending
  <2> QED BY <2>3, <2>4
<1>5. CASE CniRename /\ loop' # "err"
  <2> DEFINE L == Listed(ev)
  <2>1. /\ loop = "cniRename" /\ L \in CniFile /\ L[2] = "conflist"
        /\ file' = [file EXCEPT ![L] = merged]
        /\ queue' = Emit(queue, L, "Create")
        /\ loop' = IF ev[2] = "conf" THEN "cniUnlink" ELSE "select"
    BY <1>1, <1>5, ListedType DEF CniRename
  <2>2. n # L
    BY <2>1 DEF UpToDate, InjectionInv, MergedIsInjected, TypeOK, HostType
  <2>3. file'[n] = file[n]
    BY <2>1, <2>2 DEF TypeOK, HostType
  <2>4. ~UpToDate(n) /\ Pending(n)
    BY <2>3, UpToDateKept DEF InjectionInv, InjectionPending
  <2>5. CASE ev = n
    <3>1. ev[2] = "conf"
      BY <1>1, <2>2, <2>5 DEF Listed, CniFile
    <3> QED BY <1>3, <2>1, <2>5, <3>1 DEF Handling
  <2>6. CASE ev # n
    <3>1. L \in Names /\ "Create" \in Op
      BY <2>1, NamesType DEF Op
    <3> QED BY <1>1, <2>1, <2>4, <2>6, <3>1, QuietStepPending
  <2> QED BY <2>5, <2>6
<1>6. CASE CniUnlink /\ loop' # "err"
  <2>1. file' = [file EXCEPT ![ev] = Absent] /\ queue' = Emit(queue, ev, "Remove")
    BY <1>6 DEF CniUnlink
  <2>2. ev # n
    BY <1>1, <2>1 DEF UpToDate, TypeOK, HostType
  <2>3. ~UpToDate(n) /\ Pending(n)
    BY <1>1, <2>1, <2>2, UpToDateKept DEF InjectionInv, InjectionPending, TypeOK, HostType
  <2>4. ev \in Names /\ "Remove" \in Op
    BY <1>1, NamesType DEF Op
  <2> QED BY <1>1, <2>1, <2>2, <2>3, <2>4, QuietStepPending
<1> QED BY <1>2, <1>4, <1>5, <1>6

LEMMA LoopPending ==
  ASSUME TypeOK, InjectionInv, watchFS, NEW n \in CniFile, ~UpToDate(n)'
  PROVE  Pending(n)'
<1>1. CASE ReceiveEvent
  BY <1>1, ReceivePending, UpToDateKept
     DEF ReceiveEvent, hostVars, InjectionInv, InjectionPending
<1>2. CASE LoopCtxDone \/ SendErr
  BY <1>2 DEF LoopCtxDone, SendErr, Pending, Failing
<1>3. CASE K8sReadToken \/ K8sReadCA \/ K8sWrite
  <2>1. /\ UNCHANGED <<file, main, toFeed, errs>>
        /\ loop \in {"k8sToken", "k8sCA", "k8sWrite"}
    BY <1>3 DEF K8sReadToken, K8sReadCA, K8sWrite, hostVars, mainVars, sharedVars
  <2>2. UNCHANGED queue \/ \E m \in Names, op \in Op : queue' = Emit(queue, m, op)
    BY <1>3, NamesType DEF K8sReadToken, K8sReadCA, K8sWrite, kernelVars, Op
  <2> QED BY <2>1, <2>2, QuietStepPending, UpToDateKept DEF InjectionInv, InjectionPending
<1>4. CASE CniRead \/ CniRename \/ CniUnlink
  BY <1>4, HandlerPending
<1> QED BY <1>1, <1>2, <1>3, <1>4 DEF watchFS

\* A file written by a provider is queued; a file removed needs no injection.
LEMMA ProviderPending ==
  ASSUME TypeOK, InjectionInv, Provider, NEW n \in CniFile, ~UpToDate(n)'
  PROVE  Pending(n)'
<1>1. UNCHANGED <<main, toFeed, errs, loop, ev, watched>>
  BY DEF Provider, ProviderWrite, ProviderOpen, ProviderClose, ProviderRemove,
         mainVars, loopVars, sharedVars
<1>2. PICK m \in CniFile, op \in Op :
         /\ \/ UNCHANGED <<file, queue>>
            \/ /\ queue' = Emit(queue, m, op)
               /\ \E c \in Content : file' = [file EXCEPT ![m] = c]
         /\ op \in {"Create", "Write"} \/ file' = [file EXCEPT ![m] = Absent]
  <2>1. CASE ProviderWrite
    BY <2>1, InstallerAssumption DEF ProviderWrite, Op
  <2>2. CASE ProviderOpen
    BY <2>2, InstallerAssumption, ConstantContents DEF ProviderOpen, Op
  <2>3. CASE ProviderClose
    BY <2>3, InstallerAssumption DEF ProviderClose, TypeOK, EnvType, Op
  <2>4. CASE ProviderRemove
    BY <2>4, ConstantContents DEF ProviderRemove, Op
  <2> QED BY <2>1, <2>2, <2>3, <2>4 DEF Provider
<1>3. UNCHANGED queue \/ \E k \in Names, o \in Op : queue' = Emit(queue, k, o)
  BY <1>2, NamesType
<1>4. CASE file'[n] = file[n]
  BY <1>1, <1>3, <1>4, UpToDateKept, QuietStepPending DEF InjectionInv, InjectionPending
<1>5. CASE file'[n] # file[n]
  <2>1. m = n /\ queue' = Emit(queue, n, op) /\ op \in {"Create", "Write"}
    BY <1>2, <1>5 DEF TypeOK, HostType, UpToDate
  <2>2. CASE NotServing \/ loop \in {"closeErr", "done"}
    BY <1>1, <2>2 DEF Pending, NotServing, Failing
  <2>3. CASE "cni" \in watched
    <3>1. Dir(n) \in watched
      BY <2>3 DEF Dir, CniFile
    <3> QED BY <2>1, <3>1, EmitQueues DEF TypeOK, Pending
  <2>4. NotServing \/ loop \in {"closeErr", "done"} \/ "cni" \in watched
    BY DEF InjectionInv, CniWatched, NotServing, TypeOK, MainType, MainPc
  <2> QED BY <2>2, <2>3, <2>4
<1> QED BY <1>4, <1>5

LEMMA KubeletPending ==
  ASSUME TypeOK, InjectionInv, Kubelet \/ UNCHANGED vars, NEW n \in CniFile, ~UpToDate(n)'
  PROVE  Pending(n)'
<1>1. CASE Kill \/ Restart
  BY <1>1 DEF Kill, Restart, Gone, Pending, NotServing
<1>2. CASE RotateToken \/ Signal \/ UNCHANGED vars
  <2>1. UNCHANGED <<file, main, toFeed, errs, loop, ev>>
    BY <1>2 DEF RotateToken, Signal, vars, hostVars, mainVars, loopVars, sharedVars
  <2>2. UNCHANGED queue \/ \E m \in Names, op \in Op : queue' = Emit(queue, m, op)
    BY <1>2, NamesType DEF RotateToken, Signal, vars, kernelVars, Op
  <2> QED BY <2>1, <2>2, QuietStepPending, UpToDateKept DEF InjectionInv, InjectionPending
<1> QED BY <1>1, <1>2 DEF Kubelet

\* The CNI directory stays watched as long as the loop may receive events.
LEMMA CniWatchedKept ==
  ASSUME TypeOK, CniWatched, [Next]_vars
  PROVE  CniWatched'
<1>1. CASE Run \/ RemoveAll
  BY <1>1 DEF Run, RemoveAll, InstallRegularFiles, WatchServiceAccount, WatchCniConfig,
     FeedData, ReadDir, Feed, FeedPanics, RunFails, RunErr, RunReturns, RevertEntry,
     RevertTruncate, RevertWrite, RemoveReturns, Gone, Deliver, mainVars, loopVars,
     kernelVars, CniWatched
<1>2. CASE watchFS
  BY <1>2 DEF watchFS, ReceiveEvent, LoopCtxDone, SendErr, K8sReadToken, K8sReadCA,
     K8sWrite, CniRead, CniRename, CniUnlink, mainVars, kernelVars, CniWatched
<1>3. CASE Provider \/ Kubelet \/ UNCHANGED vars
  BY <1>3 DEF Provider, ProviderWrite, ProviderOpen, ProviderClose, ProviderRemove,
     Kubelet, RotateToken, Signal, Kill, Restart, Gone, mainVars, loopVars, kernelVars,
     vars, CniWatched
<1> QED BY <1>1, <1>2, <1>3 DEF Next

LEMMA AppendEntryKeeps ==
  ASSUME NEW l \in Seq(Entry), NEW n \in Entry
  PROVE  /\ \A m : (\E i \in DOMAIN l : l[i] = m)
                     => \E i \in DOMAIN appendEntry(l, n) : appendEntry(l, n)[i] = m
         /\ \E i \in DOMAIN appendEntry(l, n) : appendEntry(l, n)[i] = n
BY AppendProperties DEF appendEntry

\* A handler remembers the hash of what it built, and logs the file it wrote.
LEMMA HashesKept ==
  ASSUME TypeOK, HashedIsLogged, MergedIsInjected, [Next]_vars
  PROVE  HashedIsLogged' /\ MergedIsInjected'
<1>1. CASE CniRead
  <2>1. HashedIsLogged'
    BY <1>1 DEF CniRead, sharedVars, HashedIsLogged
  <2>2. loop' = "cniRename" => merged' = inject(file[ev]) /\ file[ev] \in Content
    BY <1>1 DEF CniRead, TypeOK, LoopType, HostType, FileState
  <2> QED BY <2>1, <2>2, InjectProperties DEF MergedIsInjected
<1>2. CASE CniRename
  <2>1. MergedIsInjected'
    BY <1>2 DEF CniRename, MergedIsInjected
  <2>2. CASE UNCHANGED <<hash, log>>
    BY <2>1, <2>2 DEF HashedIsLogged
  <2>3. CASE /\ hash' = [hash EXCEPT ![Listed(ev)] = merged]
             /\ log' = appendEntry(log, Listed(ev))
    <3>1. PICK L \in CniFile : L = Listed(ev) /\ L[2] = "conflist" /\ L \in Entry
      BY <1>2, ListedType, NamesType DEF CniRename, TypeOK, LoopType
    <3>2. /\ hash \in [CniFile -> FileState] /\ hash' = [hash EXCEPT ![L] = merged]
          /\ log \in Seq(Entry) /\ log' = appendEntry(log, L)
      BY <2>3, <3>1 DEF TypeOK, SharedType
    <3>3. /\ \A m : (\E i \in DOMAIN log : log[i] = m) => \E i \in DOMAIN log' : log'[i] = m
          /\ \E i \in DOMAIN log' : log'[i] = L
      <4>1. L \in Entry /\ log \in Seq(Entry) /\ log' = appendEntry(log, L)
        BY <3>1, <3>2
      <4> QED BY <4>1, AppendEntryKeeps
    <3>4. Injected(hash'[L])
      BY <1>2, <3>2 DEF CniRename, MergedIsInjected
    <3>5. ASSUME NEW n \in CniFile, hash'[n] # Absent
          PROVE  /\ Injected(hash'[n]) /\ n[2] = "conflist"
                 /\ \E i \in DOMAIN log' : log'[i] = n
      <4>1. CASE n = L
        BY <3>1, <3>3, <3>4, <4>1
      <4>2. CASE n # L
        <5>1. hash'[n] = hash[n]
          BY <3>2, <4>2
        <5>2. /\ Injected(hash[n]) /\ n[2] = "conflist"
              /\ \E i \in DOMAIN log : log[i] = n
          BY <3>5, <5>1 DEF HashedIsLogged
        <5> QED BY <3>3, <5>1, <5>2
      <4> QED BY <4>1, <4>2
    <3> QED BY <2>1, <3>5 DEF HashedIsLogged
  <2> QED BY <1>2, <2>2, <2>3 DEF CniRename
<1>3. CASE RunFails \/ RunErr \/ RemoveReturns \/ Kill
  BY <1>3 DEF RunFails, RunErr, RemoveReturns, Kill, Gone, HashedIsLogged,
     MergedIsInjected
<1>4. CASE InstallRegularFiles \/ K8sWrite
  <2>1. PICK n \in Entry : UNCHANGED hash /\ (log' = log \/ log' = appendEntry(log, n))
    BY <1>4, NamesType DEF InstallRegularFiles, K8sWrite
  <2>2. HashedIsLogged'
    <3>1. \A m : (\E i \in DOMAIN log : log[i] = m) => \E i \in DOMAIN log' : log'[i] = m
      BY <2>1, AppendEntryKeeps DEF TypeOK, SharedType
    <3> QED BY <2>1, <3>1 DEF HashedIsLogged
  <2>3. loop' # "cniRename" \/ UNCHANGED <<loop, merged>>
    BY <1>4 DEF InstallRegularFiles, K8sWrite, loopVars
  <2> QED BY <2>2, <2>3 DEF MergedIsInjected
<1>5. CASE /\ UNCHANGED <<hash, log>>
           /\ loop' # "cniRename" \/ UNCHANGED <<loop, merged>>
  BY <1>5 DEF HashedIsLogged, MergedIsInjected
<1>6. CASE \/ WatchServiceAccount \/ WatchCniConfig \/ FeedData \/ ReadDir \/ Feed
           \/ FeedPanics \/ RunReturns \/ RevertEntry \/ RevertTruncate \/ RevertWrite
  BY <1>5, <1>6 DEF WatchServiceAccount, WatchCniConfig, FeedData, ReadDir, Feed, Deliver,
     FeedPanics, RunReturns, RevertEntry, RevertTruncate, RevertWrite, sharedVars, loopVars
<1>7. CASE \/ ReceiveEvent \/ LoopCtxDone \/ SendErr \/ K8sReadToken \/ K8sReadCA
           \/ CniUnlink
  BY <1>5, <1>7 DEF ReceiveEvent, Deliver, LoopCtxDone, SendErr, K8sReadToken, K8sReadCA,
     CniUnlink, sharedVars
<1>8. CASE Provider \/ RotateToken \/ Signal \/ Restart \/ UNCHANGED vars
  BY <1>5, <1>8 DEF Provider, ProviderWrite, ProviderOpen, ProviderClose, ProviderRemove,
     RotateToken, Signal, Restart, vars, sharedVars, loopVars
<1> QED BY <1>1, <1>2, <1>3, <1>4, <1>6, <1>7, <1>8
        DEF Next, Run, RemoveAll, watchFS, Kubelet

LEMMA InitInjectionInv == Init => InjectionInv
BY DEF Init, InjectionInv, InjectionPending, Pending, NotServing, CniWatched,
       HashedIsLogged, MergedIsInjected

LEMMA NextInjectionInv == TypeOK /\ InjectionInv /\ [Next]_vars => InjectionInv'
<1> SUFFICES ASSUME TypeOK, InjectionInv, [Next]_vars PROVE InjectionInv'
  OBVIOUS
<1>1. ASSUME NEW n \in CniFile, ~UpToDate(n)' PROVE Pending(n)'
  BY <1>1, RunPending, LoopPending, ProviderPending, KubeletPending DEF Next
<1>2. CniWatched'
  BY CniWatchedKept DEF InjectionInv
<1>3. HashedIsLogged' /\ MergedIsInjected'
  BY HashesKept DEF InjectionInv
<1> QED BY <1>1, <1>2, <1>3 DEF InjectionInv, InjectionPending

\* No file that needs an injection is ever forgotten (internal/cni/run.go and
\* watch_fs.go): it is an entry to be sent, a queued event or the running
\* handler's, unless the process fails, stops or has not started to serve.
THEOREM InjectionIsPending == Spec => []InjectionInv
<1>1. Init => InjectionInv
  BY InitInjectionInv
<1>2. TypeOK /\ InjectionInv /\ [Next]_vars => InjectionInv'
  BY NextInjectionInv
<1> QED BY <1>1, <1>2, TypeCorrect, PTL DEF Spec

\* An installer that has handled every event has injected linkerd, as the last
\* plugin, into every configuration in the directory (reconfigureCNI, conf.go).
THEOREM SettledIsInjected == Spec => []SettledInjected
<1>1. InjectionInv => SettledInjected
  <2> SUFFICES ASSUME InjectionInv, Settled, NEW n \in CniFile PROVE UpToDate(n)
    BY DEF SettledInjected
  <2>1. ~Pending(n)
    BY EmptySeq DEF Settled, Pending, NotServing, Failing, Queued
  <2> QED BY <2>1 DEF InjectionInv, InjectionPending
<1> QED BY <1>1, InjectionIsPending, PTL

\* What the installer remembers as its own work is in the log that Remove reverts,
\* and needs no injection (appendEntry and fileHashSet, internal/cni).
THEOREM HashesAreLogged == Spec => []HashedIsLogged
<1>1. InjectionInv => HashedIsLogged
  BY DEF InjectionInv
<1> QED BY <1>1, InjectionIsPending, PTL
=============================================================================
