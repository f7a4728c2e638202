----------------------------- MODULE CniInstaller -----------------------------
(***************************************************************************)
(* The installer of linkerd's CNI plugin (internal/cni, cni-install).  One *)
(* process per node copies the plugin's binary to the host, then keeps two *)
(* things up to date: the plugin's kubeconfig (from the service account's  *)
(* token and CA) and the CNI configuration files, into each of which it    *)
(* injects the linkerd plugin.  On SIGTERM it reverts all it did.          *)
(*                                                                         *)
(* Two goroutines run: main (Run, then the deferred Remove) and the event  *)
(* loop of watchFS.  They share an unbuffered channel of events, errs (a   *)
(* channel of capacity 1), the context, the log and the files.  Around     *)
(* them act the providers of CNI configurations, which write the same      *)
(* files, the kubelet, which rotates the token, stops, kills and restarts  *)
(* the process, and inotify, whose queue of events is bounded.             *)
(***************************************************************************)
EXTENDS CniConf, FiniteSets

CONSTANTS Bases,          \* base names of configuration files, ranked by name
          InitialFiles,   \* what the directory may hold at the start
          ProviderWrites, \* <<file, content>> pairs that providers may write
          SourceReads,    \* what the sources of linkerd's own document return
          KubeCAFile,     \* KUBE_CA_FILE is set: the CA does not rotate
          IOFaults,       \* operations that may fail, see Faults
          Environment,    \* what the environment does, see Doings
          QueueCap,       \* capacity of the inotify queue
          MaxWrites, MaxRotations, MaxRestarts  \* bounds on the environment

Faults == {"copy", "watch", "token", "ca", "writeK8s", "readDir", "readConf",
           "writeConf", "unlink", "revert", "close"}
Doings == {"signal", "kill", "delete", "move", "inplace"}

CniFile   == Bases \X {"conf", "conflist"}
FileState == Content

\* Other names: the plugin's binary, its kubeconfig, which lies in the
\* directory of the CNI configurations, and the service account's data.
Bin        == <<0, "bin">>
Kubeconfig == <<0, "kubeconfig">>
Data       == <<0, "..data">>
Overflow   == <<0, "overflow">>

Entry == CniFile \cup {Bin, Kubeconfig}
Op    == {"Create", "Write", "Rename", "Remove", "Overflow"}
Event == [name : CniFile \cup {Kubeconfig, Data, Overflow}, op : Op]

NoCreds == [token |-> 0, ca |-> 0]

ASSUME InstallerAssumption ==
  /\ Bases \subseteq Nat
  /\ InitialFiles \subseteq [CniFile -> FileState]
  /\ ProviderWrites \subseteq CniFile \X Content
  /\ KubeCAFile \in BOOLEAN
  /\ IOFaults \subseteq Faults
  /\ Environment \subseteq Doings
  /\ QueueCap \in Nat
  /\ MaxWrites \in Nat /\ MaxRotations \in Nat /\ MaxRestarts \in Nat

VARIABLES
  \* the host and the service account's directory
  file,        \* content of each CNI configuration file
  kubeconfig,  \* the credentials in the plugin's kubeconfig
  bin,         \* whether the plugin's binary is installed
  gen,         \* generation of the token and CA
  \* inotify
  queue, watched,
  \* the main goroutine
  main, toFeed, todo, rbuf, rerr, outcome,
  \* the goroutine of watchFS
  loop, ev, merged, creds,
  \* shared by the two
  errs, cancelled, log, hash,
  \* providers, and bounds on the environment
  provided, half, writes, restarts,
  \* history: the event loop had ended when Remove began
  joined

hostVars   == <<file, kubeconfig, bin, gen>>
kernelVars == <<queue, watched>>
mainVars   == <<main, toFeed, todo, rbuf, rerr, outcome, joined>>
loopVars   == <<loop, ev, merged, creds>>
sharedVars == <<errs, cancelled, log, hash>>
envVars    == <<provided, half, writes, restarts>>
vars == <<hostVars, kernelVars, mainVars, loopVars, sharedVars, envVars>>

-----------------------------------------------------------------------------
\* isCNIFile
isCNIFile(n) == n[2] \in {"conf", "conflist"}

\* A single-plugin file 99-foo.conf is replaced by the list 99-foo.conflist.
Listed(n) == <<n[1], "conflist">>

Dir(n) == IF n[2] = "..data" THEN "sa" ELSE "cni"

\* os.ReadDir sorts by name: the kubeconfig is called ZZZ-...
Precedes(m, n) ==
  \/ n[2] = "kubeconfig"
  \/ m[2] # "kubeconfig" /\ m[1] < n[1]
  \/ m[1] = n[1] /\ m[2] = "conf"

\* Mutated form of applies: creations are not watched for.
MutApplies(op) == op \in {"Rename", "Write"}

\* The operations both watches ask for.
applies(op) == op \in {"Create", "Rename", "Write"}

OverflowEvent == [name |-> Overflow, op |-> "Overflow"]

\* What inotify does with a change of name n: nothing if its directory has no
\* watch; a full queue drops the event and holds one overflow event instead.
Emit(q, n, op) ==
  IF Dir(n) \notin watched THEN q
  ELSE IF Len(q) < QueueCap THEN Append(q, [name |-> n, op |-> op])
  ELSE IF \E i \in DOMAIN q : q[i] = OverflowEvent THEN q
  ELSE Append(q, OverflowEvent)

\* Mutated form of appendEntry: the index ignores the extension.
MutAppendEntry(l, n) == IF \E i \in DOMAIN l : l[i][1] = n[1] THEN l ELSE Append(l, n)

appendEntry(l, n) == IF \E i \in DOMAIN l : l[i] = n THEN l ELSE Append(l, n)

\* The process is gone, and with it its memory and its watches.
Gone(how) ==
  /\ main' = "exited" /\ outcome' = how
  /\ toFeed' = {} /\ todo' = <<>> /\ rbuf' = Absent /\ rerr' = FALSE
  /\ loop' = "off" /\ ev' = Data /\ merged' = Absent /\ creds' = NoCreds
  /\ errs' = 0 /\ cancelled' = FALSE /\ log' = <<>>
  /\ hash' = [n \in CniFile |-> Absent]
  /\ queue' = <<>> /\ watched' = {}

Init ==
  /\ file \in InitialFiles
  /\ kubeconfig = NoCreds /\ bin = FALSE /\ gen = 1
  /\ queue = <<>> /\ watched = {}
  /\ main = "install" /\ toFeed = {} /\ todo = <<>> /\ rbuf = Absent
  /\ rerr = FALSE /\ outcome = "running" /\ joined = FALSE
  /\ loop = "off" /\ ev = Data /\ merged = Absent /\ creds = NoCreds
  /\ errs = 0 /\ cancelled = FALSE /\ log = <<>>
  /\ hash = [n \in CniFile |-> Absent]
  /\ provided = [b \in Bases |-> Others(IF file[<<b, "conf">>] # Absent
                                        THEN file[<<b, "conf">>]
                                        ELSE file[<<b, "conflist">>])]
  /\ half = {} /\ writes = 0 /\ restarts = 0

-----------------------------------------------------------------------------
(* The main goroutine: Run. *)

\* installRegularFiles: copy the binary, then log it.
InstallRegularFiles ==
  /\ main = "install"
  /\ bin' = TRUE
  /\ log' = appendEntry(log, Bin)
  /\ main' = "watch"
  /\ UNCHANGED <<file, kubeconfig, gen, kernelVars, toFeed, todo, rbuf, rerr,
                 outcome, joined, loopVars, errs, cancelled, hash, envVars>>

\* watchFS starts the event loop, which waits until both watches are added,
\* first the one on the service account's directory.
WatchServiceAccount ==
  /\ main = "watch" /\ watched = {}
  /\ watched' = {"sa"}
  /\ loop' = "begin"
  /\ UNCHANGED <<hostVars, queue, mainVars, ev, merged, creds, sharedVars, envVars>>

WatchCniConfig ==
  /\ main = "watch" /\ watched = {"sa"}
  /\ watched' = {"sa", "cni"}
  /\ loop' = "select"
  /\ main' = "feedData"
  /\ UNCHANGED <<hostVars, queue, toFeed, todo, rbuf, rerr, outcome, joined,
                 ev, merged, creds, sharedVars, envVars>>

\* What the event loop does with an event it receives: find the watch of its
\* directory, see that the operation applies and fire the handler.
Deliver(n, op) ==
  IF ~applies(op)          THEN loop' = IF op = "Overflow" THEN "err" ELSE "select"
  ELSE IF Dir(n) = "sa"    THEN loop' = "k8sToken"
  ELSE IF isCNIFile(n)     THEN loop' = "cniRead"
  ELSE loop' = "select"

\* Mutated form of FeedData: no event is sent for the kubeconfig.
MutFeedData ==
  /\ main = "feedData" /\ main' = "readDir"
  /\ UNCHANGED <<hostVars, kernelVars, toFeed, todo, rbuf, rerr, outcome, joined,
                 loopVars, sharedVars, envVars>>

\* Run sends the loop an event of its own, to write the kubeconfig. The channel
\* is unbuffered: the send waits for the loop.
FeedData ==
  /\ main = "feedData" /\ loop = "select"
  /\ Deliver(Data, "Create")
  /\ ev' = Data
  /\ main' = "readDir"
  /\ UNCHANGED <<hostVars, kernelVars, toFeed, todo, rbuf, rerr, outcome, joined,
                 merged, creds, sharedVars, envVars>>

\* Mutated form of Entries: only lists are looked for.
MutEntries == {n \in CniFile : file[n] # Absent /\ n[2] = "conflist"}

Entries == {n \in CniFile : file[n] # Absent}
           \cup (IF kubeconfig = NoCreds THEN {} ELSE {Kubeconfig})

ReadDir ==
  /\ main = "readDir"
  /\ toFeed' = Entries
  /\ main' = IF Entries = {} THEN "select" ELSE "feed"
  /\ UNCHANGED <<hostVars, kernelVars, todo, rbuf, rerr, outcome, joined,
                 loopVars, sharedVars, envVars>>

\* One event per directory entry, in order.
Feed ==
  /\ main = "feed" /\ loop = "select"
  /\ \E n \in toFeed :
       /\ \A m \in toFeed \ {n} : Precedes(n, m)
       /\ Deliver(n, "Write")
       /\ ev' = n
       /\ toFeed' = toFeed \ {n}
       /\ main' = IF toFeed = {n} THEN "select" ELSE "feed"
  /\ UNCHANGED <<hostVars, kernelVars, todo, rbuf, rerr, outcome, joined,
                 merged, creds, sharedVars, envVars>>

\* Mutated form of FeedPanics: once the loop has ended, the send waits for ever.
MutFeedPanics ==
  /\ main \in {"feedData", "feed"} /\ loop = "closeErr"
  /\ main' = "remove" /\ todo' = log /\ toFeed' = {}
  /\ outcome' = "panic" /\ joined' = TRUE
  /\ UNCHANGED <<hostVars, kernelVars, rbuf, rerr, loopVars, sharedVars, envVars>>

\* The loop has closed the watcher, and with it the channel Run sends on: the
\* send panics, and the deferred Remove runs before the process crashes.
FeedPanics ==
  /\ main \in {"feedData", "feed"} /\ loop \in {"closeErr", "done"}
  /\ main' = "remove" /\ todo' = log /\ toFeed' = {}
  /\ outcome' = "panic" /\ joined' = TRUE
  /\ UNCHANGED <<hostVars, kernelVars, rbuf, rerr, loopVars, sharedVars, envVars>>

\* Run returns an error before its select: main logs it as fatal and exits,
\* without running the deferred Remove.
RunFails ==
  /\ \/ main = "install" /\ "copy"    \in IOFaults
     \/ main = "watch"   /\ "watch"   \in IOFaults
     \/ main = "readDir" /\ "readDir" \in IOFaults
  /\ Gone("fatal")
  /\ UNCHANGED <<hostVars, envVars, joined>>

\* Mutated form of RunErr: errors are looked at only when told to stop.
MutRunErr ==
  /\ main = "select" /\ errs = 1 /\ cancelled
  /\ Gone("fatal")
  /\ UNCHANGED <<hostVars, envVars, joined>>

\* Run's select: an error of the event loop, with the same end ...
RunErr ==
  /\ main = "select" /\ errs = 1
  /\ Gone("fatal")
  /\ UNCHANGED <<hostVars, envVars, joined>>

\* ... or the cancelled context, or errs, which the loop closes when it ends on
\* that: Run returns nil and Remove starts, over the log as it is now.
RunReturns ==
  /\ main = "select" /\ cancelled
  /\ main' = "remove" /\ todo' = log
  /\ joined' = (loop = "done")
  /\ UNCHANGED <<hostVars, kernelVars, toFeed, rbuf, rerr, outcome, loopVars,
                 sharedVars, envVars>>

-----------------------------------------------------------------------------
(* The main goroutine: Remove. *)

\* revert of the next entry in the log: remove the binary or the kubeconfig if
\* it is there; read a CNI configuration and, if linkerd is in it, rewrite it.
\* Errors are collected.
RevertEntry ==
  /\ main = "remove" /\ todo # <<>>
  /\ LET n == Head(todo)
         c == file[n]
     IN \/ /\ n = Bin /\ bin' = FALSE
           /\ main' = main /\ todo' = Tail(todo)
           /\ UNCHANGED <<queue, kubeconfig, rbuf, rerr>>
        \/ /\ n = Kubeconfig /\ kubeconfig' = NoCreds
           /\ queue' = IF kubeconfig = NoCreds THEN queue
                       ELSE Emit(queue, Kubeconfig, "Remove")
           /\ main' = main /\ todo' = Tail(todo)
           /\ UNCHANGED <<bin, rbuf, rerr>>
        \/ /\ n \in CniFile /\ RevertError(c)
           /\ rerr' = TRUE
           /\ main' = main /\ todo' = Tail(todo)
           /\ UNCHANGED <<bin, kubeconfig, queue, rbuf>>
        \/ /\ n \in CniFile /\ ~RevertError(c) /\ RevertNoop(c)
           /\ main' = main /\ todo' = Tail(todo)
           /\ UNCHANGED <<bin, kubeconfig, queue, rbuf, rerr>>
        \/ /\ n \in CniFile /\ ~RevertError(c) /\ ~RevertNoop(c)
           /\ rbuf' = reverted(c)
           /\ main' = "revertTruncate" /\ todo' = todo
           /\ UNCHANGED <<bin, kubeconfig, queue, rerr>>
        \/ /\ "revert" \in IOFaults
           /\ rerr' = TRUE
           /\ main' = main /\ todo' = Tail(todo)
           /\ UNCHANGED <<bin, kubeconfig, queue, rbuf>>
  /\ UNCHANGED <<file, gen, watched, toFeed, outcome, joined, loopVars,
                 sharedVars, envVars>>

\* os.WriteFile truncates the file, unless the Stat before it finds it gone; either may
\* fail ...
RevertTruncate ==
  /\ main = "revertTruncate"
  /\ LET n == Head(todo)
     IN \/ /\ file[n] = Absent \/ "revert" \in IOFaults
           /\ rerr' = (rerr \/ file[n] # Absent)
           /\ main' = "remove" /\ todo' = Tail(todo) /\ rbuf' = Absent
           /\ UNCHANGED <<file, queue>>
        \/ /\ file[n] # Absent
           /\ file' = [file EXCEPT ![n] = Unparsable]
           /\ queue' = Emit(queue, n, "Write")
           /\ main' = "revertWrite"
           /\ UNCHANGED <<todo, rbuf, rerr>>
  /\ UNCHANGED <<kubeconfig, bin, gen, watched, toFeed, outcome, joined,
                 loopVars, sharedVars, envVars>>

\* ... and writes it, into the file it truncated: a file renamed over that one
\* meanwhile is not changed, and a file that cannot be written stays truncated.
RevertWrite ==
  /\ main = "revertWrite"
  /\ LET n == Head(todo)
     IN \/ /\ file[n] = Unparsable
           /\ file' = [file EXCEPT ![n] = rbuf]
           /\ queue' = Emit(queue, n, "Write")
           /\ rerr' = rerr
        \/ /\ file[n] # Unparsable
           /\ UNCHANGED <<file, queue, rerr>>
        \/ /\ "revert" \in IOFaults
           /\ rerr' = TRUE
           /\ UNCHANGED <<file, queue>>
  /\ main' = "remove" /\ todo' = Tail(todo) /\ rbuf' = Absent
  /\ UNCHANGED <<kubeconfig, bin, gen, watched, toFeed, outcome, joined,
                 loopVars, sharedVars, envVars>>

\* main returns, and the process ends whatever the event loop is doing.
RemoveReturns ==
  /\ main = "remove" /\ todo = <<>>
  /\ Gone(IF rerr THEN "fatal" ELSE IF outcome = "panic" THEN "panic" ELSE "removed")
  /\ UNCHANGED <<hostVars, envVars, joined>>

-----------------------------------------------------------------------------
(* The event loop of watchFS. *)

ReceiveEvent ==
  /\ loop = "select" /\ queue # <<>>
  /\ Deliver(Head(queue).name, Head(queue).op)
  /\ ev' = Head(queue).name
  /\ queue' = Tail(queue)
  /\ UNCHANGED <<hostVars, watched, mainVars, merged, creds, sharedVars, envVars>>

\* ctx.Done(): close the watcher, return, and so close errs.
LoopCtxDone ==
  /\ loop = "select" /\ cancelled
  /\ \/ loop' = "done"
     \/ "close" \in IOFaults /\ loop' = "closeErr"
  /\ queue' = <<>> /\ watched' = {}
  /\ UNCHANGED <<hostVars, mainVars, ev, merged, creds, sharedVars, envVars>>

\* Mutated form of SendErr: the channel is taken to have room.
MutSendErr ==
  /\ loop \in {"err", "closeErr"}
  /\ errs' = errs + 1
  /\ loop' = IF loop = "err" THEN "select" ELSE "done"
  /\ UNCHANGED <<hostVars, kernelVars, mainVars, ev, merged, creds, cancelled,
                 log, hash, envVars>>

\* errs <- err waits for room in the channel.
SendErr ==
  /\ loop \in {"err", "closeErr"} /\ errs = 0
  /\ errs' = 1
  /\ loop' = IF loop = "err" THEN "select" ELSE "done"
  /\ UNCHANGED <<hostVars, kernelVars, mainVars, ev, merged, creds, cancelled,
                 log, hash, envVars>>

\* reconfigureK8s: read the token, then the CA, then write and rename.
K8sReadToken ==
  /\ loop = "k8sToken"
  /\ \/ loop' = "k8sCA" /\ creds' = [creds EXCEPT !.token = gen]
     \/ "token" \in IOFaults /\ loop' = "err" /\ creds' = creds
  /\ UNCHANGED <<hostVars, kernelVars, mainVars, ev, merged, sharedVars, envVars>>

\* Mutated form of K8sReadCA: a CA that has been written is not read again.
MutK8sReadCA ==
  /\ loop = "k8sCA"
  /\ loop' = "k8sWrite"
  /\ creds' = [creds EXCEPT !.ca = IF kubeconfig = NoCreds THEN gen ELSE kubeconfig.ca]
  /\ UNCHANGED <<hostVars, kernelVars, mainVars, ev, merged, sharedVars, envVars>>

K8sReadCA ==
  /\ loop = "k8sCA"
  /\ \/ loop' = "k8sWrite" /\ creds' = [creds EXCEPT !.ca = IF KubeCAFile THEN 1 ELSE gen]
     \/ "ca" \in IOFaults /\ loop' = "err" /\ creds' = NoCreds
  /\ UNCHANGED <<hostVars, kernelVars, mainVars, ev, merged, sharedVars, envVars>>

K8sWrite ==
  /\ loop = "k8sWrite"
  /\ \/ /\ kubeconfig' = creds
        /\ queue' = Emit(queue, Kubeconfig, "Create")
        /\ log' = appendEntry(log, Kubeconfig)
        /\ loop' = "select"
     \/ /\ "writeK8s" \in IOFaults
        /\ loop' = "err"
        /\ UNCHANGED <<kubeconfig, queue, log>>
  /\ creds' = NoCreds
  /\ UNCHANGED <<file, bin, gen, watched, mainVars, ev, merged, errs, cancelled,
                 hash, envVars>>

\* The file reconfigureCNI has nothing to do for: gone, or what it wrote.
Skips(n) == file[n] = Absent \/ hash[n] = file[n]

\* Mutated form of CniRead: the file makes room for the list before it is written.
MutCniRead ==
  /\ loop = "cniRead" /\ ~Skips(ev) /\ ~InjectError(file[ev])
  /\ loop' = "cniRename" /\ merged' = inject(file[ev])
  /\ file' = [file EXCEPT ![ev] = Absent]
  /\ queue' = Emit(queue, ev, "Remove")
  /\ UNCHANGED <<kubeconfig, bin, gen, watched, mainVars, ev, creds, sharedVars, envVars>>

\* reconfigureCNI: read the file and build what will replace it.
CniRead ==
  /\ loop = "cniRead"
  /\ \/ Skips(ev) /\ loop' = "select" /\ merged' = merged
     \/ /\ ~Skips(ev)
        /\ \E reads \in SourceReads :
             IF ConfigureCNIError(reads) \/ InjectError(file[ev])
             THEN loop' = "err" /\ merged' = merged
             ELSE loop' = "cniRename" /\ merged' = inject(file[ev])
     \/ "readConf" \in IOFaults /\ loop' = "err" /\ merged' = merged
  /\ UNCHANGED <<hostVars, kernelVars, mainVars, ev, creds, sharedVars, envVars>>

\* Mutated form of CniRename: the single-plugin file is logged in place of its list.
MutCniRename ==
  /\ loop = "cniRename"
  /\ file' = [file EXCEPT ![Listed(ev)] = merged]
  /\ queue' = Emit(queue, Listed(ev), "Create")
  /\ log' = appendEntry(log, ev)
  /\ hash' = [hash EXCEPT ![Listed(ev)] = merged]
  /\ loop' = IF ev[2] = "conf" THEN "cniUnlink" ELSE "select"
  /\ merged' = Absent
  /\ UNCHANGED <<kubeconfig, bin, gen, watched, mainVars, ev, creds, errs,
                 cancelled, envVars>>

\* Write a temporary file and rename it over the list's name, log the list and
\* remember the hash of what was written.
CniRename ==
  /\ loop = "cniRename"
  /\ \/ /\ file' = [file EXCEPT ![Listed(ev)] = merged]
        /\ queue' = Emit(queue, Listed(ev), "Create")
        /\ log' = appendEntry(log, Listed(ev))
        /\ hash' = [hash EXCEPT ![Listed(ev)] = merged]
        /\ loop' = IF ev[2] = "conf" THEN "cniUnlink" ELSE "select"
     \/ /\ "writeConf" \in IOFaults
        /\ loop' = "err"
        /\ UNCHANGED <<file, queue, log, hash>>
  /\ merged' = Absent
  /\ UNCHANGED <<kubeconfig, bin, gen, watched, mainVars, ev, creds, errs,
                 cancelled, envVars>>

\* Mutated form of CniUnlink: the single-plugin file is left beside its list.
MutCniUnlink ==
  /\ loop = "cniUnlink" /\ loop' = "select"
  /\ UNCHANGED <<hostVars, kernelVars, mainVars, ev, merged, creds, sharedVars, envVars>>

\* Remove the single-plugin file the list replaces; it is an error if it is gone.
CniUnlink ==
  /\ loop = "cniUnlink"
  /\ \/ /\ file[ev] # Absent
        /\ file' = [file EXCEPT ![ev] = Absent]
        /\ queue' = Emit(queue, ev, "Remove")
        /\ loop' = "select"
     \/ /\ file[ev] = Absent \/ "unlink" \in IOFaults
        /\ loop' = "err"
        /\ UNCHANGED <<file, queue>>
  /\ UNCHANGED <<kubeconfig, bin, gen, watched, mainVars, ev, merged, creds,
                 sharedVars, envVars>>

-----------------------------------------------------------------------------
(* The environment. *)

\* A provider writes a configuration and renames it into place.
ProviderWrite ==
  /\ writes < MaxWrites
  /\ \E w \in ProviderWrites :
       /\ file' = [file EXCEPT ![w[1]] = w[2]]
       /\ queue' = Emit(queue, w[1], "Create")
       /\ provided' = [provided EXCEPT ![w[1][1]] = Others(w[2])]
  /\ writes' = writes + 1
  /\ UNCHANGED <<kubeconfig, bin, gen, watched, mainVars, loopVars, sharedVars,
                 half, restarts>>

\* ... or writes it in place, so that it can be seen half-written.
ProviderOpen ==
  /\ "inplace" \in Environment /\ writes < MaxWrites /\ half = {}
  /\ \E w \in ProviderWrites :
       /\ half' = {w}
       /\ file' = [file EXCEPT ![w[1]] = Unparsable]
       /\ queue' = Emit(queue, w[1], IF file[w[1]] = Absent THEN "Create" ELSE "Write")
  /\ writes' = writes + 1
  /\ UNCHANGED <<kubeconfig, bin, gen, watched, mainVars, loopVars, sharedVars,
                 provided, restarts>>

\* Nothing is written to a file that was replaced or removed since.
ProviderClose ==
  /\ \E w \in half :
       /\ provided' = [provided EXCEPT ![w[1][1]] = Others(w[2])]
       /\ IF file[w[1]] = Unparsable
          THEN /\ file' = [file EXCEPT ![w[1]] = w[2]]
               /\ queue' = Emit(queue, w[1], "Write")
          ELSE UNCHANGED <<file, queue>>
  /\ half' = {}
  /\ UNCHANGED <<kubeconfig, bin, gen, watched, mainVars, loopVars, sharedVars,
                 writes, restarts>>

\* A provider removes its configuration, or moves it out of the way.
ProviderRemove ==
  /\ writes < MaxWrites
  /\ \E n \in CniFile, op \in {"Remove", "Rename"} :
       /\ (IF op = "Remove" THEN "delete" ELSE "move") \in Environment
       /\ file[n] # Absent
       /\ file' = [file EXCEPT ![n] = Absent]
       /\ queue' = Emit(queue, n, op)
       /\ provided' = [provided EXCEPT ![n[1]] = <<>>]
  /\ writes' = writes + 1
  /\ UNCHANGED <<kubeconfig, bin, gen, watched, mainVars, loopVars, sharedVars,
                 half, restarts>>

\* The kubelet renames ..data: token and CA change together.
RotateToken ==
  /\ gen <= MaxRotations
  /\ gen' = gen + 1
  /\ queue' = Emit(queue, Data, "Create")
  /\ UNCHANGED <<file, kubeconfig, bin, watched, mainVars, loopVars, sharedVars, envVars>>

\* SIGTERM or SIGINT cancels the context.
Signal ==
  /\ "signal" \in Environment /\ main # "exited" /\ ~cancelled
  /\ cancelled' = TRUE
  /\ UNCHANGED <<hostVars, kernelVars, mainVars, loopVars, errs, log, hash, envVars>>

\* SIGKILL, a crash of the node, or the runtime's abort on a data race.
Kill ==
  /\ "kill" \in Environment /\ main # "exited"
  /\ Gone("killed")
  /\ UNCHANGED <<hostVars, envVars, joined>>

\* The kubelet starts the container again, or that of the next version.
Restart ==
  /\ main = "exited" /\ restarts < MaxRestarts
  /\ main' = "install" /\ outcome' = "running" /\ joined' = FALSE
  /\ restarts' = restarts + 1
  /\ UNCHANGED <<hostVars, kernelVars, toFeed, todo, rbuf, rerr, loopVars,
                 sharedVars, provided, half, writes>>

-----------------------------------------------------------------------------
Run == \/ InstallRegularFiles \/ WatchServiceAccount \/ WatchCniConfig
       \/ FeedData \/ ReadDir \/ Feed \/ FeedPanics
       \/ RunFails \/ RunErr \/ RunReturns

RemoveAll == RevertEntry \/ RevertTruncate \/ RevertWrite \/ RemoveReturns

watchFS == \/ ReceiveEvent \/ LoopCtxDone \/ SendErr
           \/ K8sReadToken \/ K8sReadCA \/ K8sWrite
           \/ CniRead \/ CniRename \/ CniUnlink

Provider == ProviderWrite \/ ProviderOpen \/ ProviderClose \/ ProviderRemove

Kubelet == RotateToken \/ Signal \/ Kill \/ Restart

Next == Run \/ RemoveAll \/ watchFS \/ Provider \/ Kubelet

Spec == Init /\ [][Next]_vars

\* Each goroutine that can take a step takes one; a provider that has begun to
\* write ends its write; the kubelet restarts a container that exited.
Fairness == /\ WF_vars(Run \/ RemoveAll)
            /\ WF_vars(watchFS)
            /\ WF_vars(ProviderClose)
            /\ WF_vars(Restart)

FairSpec == Spec /\ Fairness

-----------------------------------------------------------------------------
(* Properties. *)

MainPc == {"install", "watch", "feedData", "readDir", "feed", "select",
           "remove", "revertTruncate", "revertWrite", "exited"}
LoopPc == {"off", "begin", "select", "k8sToken", "k8sCA", "k8sWrite", "cniRead",
           "cniRename", "cniUnlink", "err", "closeErr", "done"}
Creds  == [token : Nat, ca : Nat]

HostType == /\ file \in [CniFile -> FileState] /\ kubeconfig \in Creds
            /\ bin \in BOOLEAN /\ gen \in Nat \ {0}

QueueType == queue \in Seq(Event) /\ watched \in SUBSET {"sa", "cni"}

MainType == /\ main \in MainPc
            /\ outcome \in {"running", "panic", "removed", "fatal", "killed"}
            /\ toFeed \subseteq CniFile \cup {Kubeconfig}
            /\ todo \in Seq(Entry) /\ rbuf \in FileState
            /\ rerr \in BOOLEAN /\ joined \in BOOLEAN
            /\ main \in {"revertTruncate", "revertWrite"} =>
                 todo # <<>> /\ Head(todo) \in CniFile

LoopType == /\ loop \in LoopPc
            /\ ev \in CniFile \cup {Kubeconfig, Data, Overflow}
            /\ merged \in FileState /\ creds \in Creds
            /\ loop \in {"cniRead", "cniRename", "cniUnlink"} => ev \in CniFile

SharedType == /\ errs \in {0, 1} /\ cancelled \in BOOLEAN
              /\ log \in Seq(Entry) /\ hash \in [CniFile -> FileState]

EnvType == /\ DOMAIN provided = Bases /\ half \subseteq ProviderWrites
           /\ writes \in Nat /\ restarts \in Nat

\* The types of the variables.  Among them: errs never holds more than the one
\* error it has room for, a CNI handler runs on a CNI file, and Remove rewrites
\* CNI files only.
TypeOK == HostType /\ QueueType /\ MainType /\ LoopType /\ SharedType /\ EnvType

\* Nothing is left to do: all events handled, and no error on its way.
Settled == /\ main = "select" /\ loop = "select" /\ errs = 0
           /\ queue = <<>> /\ ~cancelled

\* The process has not come to its initial events yet, or no longer serves.
NotServing == main \in {"install", "watch", "feedData", "readDir", "remove",
                        "revertTruncate", "revertWrite", "exited"}

\* An error is on its way to Run, which will exit, or the loop has ended.
Failing == \/ loop \in {"err", "closeErr", "done"} \/ errs = 1
           \/ \E i \in DOMAIN queue : queue[i] = OverflowEvent

Queued(n) == \E i \in DOMAIN queue : queue[i].name = n /\ applies(queue[i].op)

UpToDate(n) == file[n] = Absent \/ (n[2] = "conflist" /\ Injected(file[n]))

\* Once the installer has handled every event, no configuration on the host
\* lacks linkerd: neither one that was there before the watch, nor one written
\* while another was handled, nor a single-plugin file beside its list, whatever
\* events were dropped or errors met on the way.
SettledInjected == Settled => \A n \in CniFile : UpToDate(n)

\* A file that needs an injection and is on its way to one: as an entry Run has
\* still to send, an event in the queue or the file of the handler that runs.
Pending(n) ==
  \/ NotServing \/ Failing
  \/ main = "feed" /\ n \in toFeed
  \/ Queued(n)
  \/ loop \in {"cniRead", "cniRename", "cniUnlink"} /\ ev = n

InjectionPending == \A n \in CniFile : ~UpToDate(n) => Pending(n)

\* From the initial events on, until the loop ends, the CNI directory is watched.
CniWatched ==
  main \in {"feedData", "readDir", "feed", "select"} /\ loop \notin {"closeErr", "done"}
    => "cni" \in watched

\* A hash is remembered only of a list that Remove will revert, and only of a
\* content that needs no injection: a file skipped as unchanged never needs work.
HashedIsLogged ==
  \A n \in CniFile : hash[n] # Absent =>
    /\ Injected(hash[n]) /\ n[2] = "conflist"
    /\ \E i \in DOMAIN log : log[i] = n

MergedIsInjected == loop = "cniRename" => Injected(merged)

\* What keeps SettledInjected true while events are handled, files written, errors
\* met and instances killed and started: no file that needs an injection is
\* forgotten, as long as no file is wrongly taken for one that needs none.
InjectionInv == InjectionPending /\ CniWatched /\ HashedIsLogged /\ MergedIsInjected

\* The kubeconfig holds the latest credentials.
Fresh == kubeconfig.token = gen /\ kubeconfig.ca = IF KubeCAFile THEN 1 ELSE gen

\* Once the installer has handled every event, the kubeconfig holds the latest
\* token and the latest CA, although the two are read one after the other and may
\* be rotated in between.
SettledKubeconfigFresh ==
  Settled => Fresh

\* The initial event for the kubeconfig is still to be sent, or Run is over.
NotYetFed == main \in {"install", "watch", "feedData", "remove", "revertTruncate",
                       "revertWrite", "exited"}

\* The handler that runs will write, or has yet to read, the latest credentials.
Refreshing == \/ loop = "k8sToken"
              \/ loop = "k8sCA" /\ creds.token = gen
              \/ loop = "k8sWrite" /\ creds.token = gen
                                   /\ creds.ca = IF KubeCAFile THEN 1 ELSE gen

\* A kubeconfig that is not the latest, and credentials read too early to be the
\* latest, are on their way to be replaced.
RefreshPending == ~Fresh \/ loop \in {"k8sCA", "k8sWrite"} =>
                    NotYetFed \/ Failing \/ Queued(Data) \/ Refreshing

\* As CniWatched, for the service account's directory.
DataWatched ==
  main \in {"feedData", "readDir", "feed", "select"} /\ loop \notin {"closeErr", "done"}
    => "sa" \in watched

\* The kubeconfig is never newer than what the running handler is about to write.
NeverOlder ==
  /\ kubeconfig.token <= gen /\ kubeconfig.ca <= gen
  /\ loop \in {"k8sCA", "k8sWrite"} =>
       /\ 0 < creds.token /\ kubeconfig.token <= creds.token /\ creds.token <= gen
  /\ loop = "k8sWrite" =>
       IF KubeCAFile THEN creds.ca = 1
       ELSE kubeconfig.ca <= creds.ca /\ creds.ca <= gen

Holds(b) == \E n \in {<<b, "conf">>, <<b, "conflist">>} : Others(file[n]) = provided[b]

\* Remove has truncated this file and not yet written it, or failed to.
Truncated(n) ==
  /\ file[n] = Unparsable
  /\ rerr \/ (main = "revertWrite" /\ Head(todo) = n)

\* The provider's plugins are in the file or in the list that replaces it at
\* every step, so that a crash at any of them loses nothing; only Remove loses
\* them, which rewrites the list in place.
NeverLosesConfig ==
  [][ \A b \in Bases : Holds(b) => Holds(b)' \/ Truncated(<<b, "conflist">>)' ]_vars

\* The plugins of its provider.
Provides(c, n) == Others(c) = provided[n[1]]

ListsOnly(q) == \A i \in DOMAIN q : q[i] \in CniFile => q[i][2] = "conflist"

FilesProvide == \A n \in CniFile : file[n] \in {Absent, Unparsable} \/ Provides(file[n], n)

\* The single-plugin file is given up for a list that has its plugins, or that Remove has
\* truncated.
UnlinksListed ==
  loop = "cniUnlink" => Provides(file[Listed(ev)], ev) \/ Truncated(Listed(ev))

\* What makes NeverLosesConfig true of a host whose providers do not write: each file is
\* absent, truncated or holds its provider's plugins, what is to be written holds them
\* too, and Remove rewrites only lists.
KeepsConfig ==
  /\ half = {}
  /\ FilesProvide
  /\ UnlinksListed
  /\ loop = "cniRename" => Provides(merged, ev)
  /\ ListsOnly(log) /\ ListsOnly(todo)
  /\ main \in {"revertTruncate", "revertWrite"} => Provides(rbuf, Head(todo))

Untouched == /\ \A n \in CniFile : ~HasLinkerd(file[n])
             /\ kubeconfig = NoCreds /\ ~bin

\* If the event loop had ended when Remove began, the first instance on a host
\* leaves nothing of linkerd's behind.
JoinedRemovalIsClean ==
  outcome = "removed" /\ joined /\ restarts = 0 => Untouched

Logged(n) == \E i \in DOMAIN log : log[i] = n

\* A list that one revert rids of linkerd.
HasOneLinkerd(c) ==
  /\ c.form = "list"
  /\ \A i, j \in DOMAIN c.plugins :
       c.plugins[i] = Linkerd /\ c.plugins[j] = Linkerd => i = j

\* All there is of linkerd's on the host.
Left == {n \in CniFile : HasLinkerd(file[n])}
        \cup (IF kubeconfig = NoCreds THEN {} ELSE {Kubeconfig})
        \cup (IF bin THEN {Bin} ELSE {})

\* All of it is the installer's own, in its log, and goes with one revert.
LeftIsOwn ==
  main # "exited" =>
    /\ \A n \in CniFile : HasLinkerd(file[n]) => HasOneLinkerd(file[n])
    /\ \A n \in Left : Logged(n)
    /\ loop = "cniRename" => HasOneLinkerd(merged)
    /\ main \in {"revertTruncate", "revertWrite"} => ~HasLinkerd(rbuf)

\* Remove is still to come to all that is left, unless a revert failed.
LeftIsToDo ==
  joined /\ main \in {"remove", "revertTruncate", "revertWrite"} =>
    /\ loop \in {"closeErr", "done"}
    /\ main = "revertWrite" => ~HasLinkerd(file[Head(todo)])
    /\ rerr \/ \A n \in Left : \E i \in DOMAIN todo : todo[i] = n

\* What makes JoinedRemovalIsClean true of the first instance on a host where linkerd was
\* in no configuration, while providers go on writing theirs.
RemovalInv ==
  restarts = 0 =>
    LeftIsOwn /\ LeftIsToDo /\ (outcome = "removed" => main = "exited")

\* Two errors before Run reaches its select: the first fills errs, the loop waits
\* to send the second and Run to send the loop an event.
Jammed == main \in {"feedData", "feed"} /\ loop = "err" /\ errs = 1

\* In the end the installer has nothing left to do, or has exited; the only way
\* to get stuck is with two errors during Run's initial events.
Settles == <>[](Settled \/ main = "exited" \/ Jammed)

\* The files are taken back only by an instance that was told to stop; one that is gone
\* does nothing; only single-plugin files are removed once their list is written.
PhaseInv ==
  /\ \/ main \in {"remove", "revertTruncate", "revertWrite"}
     \/ loop \in {"closeErr", "done"}
     => cancelled
  /\ main = "exited" => ~cancelled /\ loop = "off"
  /\ loop = "cniUnlink" => ev[2] = "conf"

\* What keeps SettledKubeconfigFresh true while the token is rotated before, between and
\* after the reads of a handler, through errors, kills and restarts, and what makes every
\* step of an installer that is up one towards serving the container runtime.
ServiceInv == RefreshPending /\ DataWatched /\ NeverOlder /\ PhaseInv

\* What the installer does for the container runtime (InstallerService), which uses
\* the first configuration by name.
UsedByRuntime(n) ==
  file[n] # Absent /\ \A m \in CniFile \ {n} : file[m] # Absent => Precedes(n, m)

servicePhase == IF main = "exited" THEN "down" ELSE IF Jammed THEN "stuck"
                ELSE IF cancelled THEN "stopping" ELSE "up"

runtimeConf == IF \A n \in CniFile : file[n] = Absent THEN "none"
               ELSE IF \E n \in CniFile : UsedByRuntime(n) /\ UpToDate(n) THEN "linkerd"
               ELSE "other"

pluginCreds == IF Fresh THEN "fresh" ELSE IF kubeconfig = NoCreds THEN "none" ELSE "stale"

Service == INSTANCE InstallerService WITH
  phase <- servicePhase, conf <- runtimeConf, kube <- pluginCreds,
  given <- <<writes, half, gen>>

\* Until it is told to stop, no step of the installer takes linkerd out of the
\* configuration the runtime uses, puts older credentials in place of the latest, or
\* removes the binary, be it for an instant: not while it replaces files, and not while
\* it starts again over what an instance that crashed has left.
ServesRuntime == Service!Safety

\* When the providers and the kubelet are done, an installer that is up ends up with
\* linkerd in the configuration the runtime uses, its binary and fresh credentials.
EventuallyServes == Service!Progress

\* Told to stop, the process ends, wherever its two goroutines are, with that one
\* exception.
TerminatesAfterSignal == cancelled ~> (main = "exited" \/ Jammed)

\* The doc comment of Run: "If an error occurs it is returned."
ErrorIsReturned == (errs = 1 /\ ~cancelled) ~> (main = "exited" \/ cancelled)

\* What the test of Run checks after cancel and Remove: nothing of linkerd's is
\* left.
RemovedMeansClean == outcome = "removed" /\ restarts = 0 => Untouched

\* The doc comment of Run: if an event of a watch fires, the configuration is
\* rewritten; that is, the file the provider wrote last is the one injected into.
SettledKeepsProviderConfig ==
  Settled => \A b \in Bases :
    provided[b] # <<>> => Others(file[<<b, "conflist">>]) = provided[b]
=============================================================================
