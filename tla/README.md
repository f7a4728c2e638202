# Verification of linkerd2-proxy-init

TLA+ models of the programs in this repository, the TLC runs that check them on small
instances, and theorems about them that TLAPS checks for every value of the constants.

    tlc -config CniInstaller_churn.cfg MCCniInstaller.tla     # one run
    tlapm CniInstallerProofs.tla                              # the proofs of one module

The modules with proofs are `CniInstallerProofs`, `CniServiceProofs`, `CniRemovalProofs`,
`IptablesProofs`, `FirewallProofs`, `CniPluginProofs`, `RepairControllerProofs` and
`NodeProofs`.

## 1. Inventory

The repository holds four programs that take a pod's traffic to its linkerd proxy.

| Component | Code | State it keeps | Operations | Modelled |
|---|---|---|---|---|
| CNI documents | `internal/cni/conf.go`, `remove.go` | none | inject, revert | `CniConf` |
| CNI installer | `internal/cni`, `cni-install/main.go` | the node's CNI directory, kubeconfig, binary; log of what it did, hashes of what it wrote | Run, handlers of two watches, Remove | `CniInstaller` |
| File watcher | `internal/cni/watch_fs.go` | inotify watches, channels of events and errors | event loop | `CniInstaller` |
| iptables rules | `pkg/iptables` | the nat tables of a pod's network namespace | ConfigureFirewall, resolveBinFallback, CleanupFirewallConfig (which nothing in the repository calls) | `Iptables`, `Firewall` |
| Port ranges | `pkg/util/portrange.go` | none | IsValidPort, ParsePortRange | `Iptables` |
| proxy-init | `proxy-init/cmd/root.go` | its options | RunE, BuildFirewallConfiguration | `Firewall` |
| CNI plugin | `cni-plugin/main.go` | none; reads pod, namespace, service | cmdAdd (cmdDel, cmdCheck do nothing) | `CniPlugin`, which extends `Firewall` |
| Repair controller | `cni-repair-controller/src` | channel of 32 references | process_events, process_pods | `RepairController`, `Node` |
| Validator | `validator/src/main.rs` | none | parse_timeout; validate, or exit 95 on failure, timeout, signal | `Validator`, `Node` |
| Build, CI, integration tests | `justfile`, `Dockerfile*`, `*/integration` | - | - | not modelled |

How they interact:

* The **installer** runs on every node. It watches `/etc/cni/net.d` and the service
  account's directory, and writes linkerd's plugin into whatever the CNI *providers*
  (calico, flannel, ...) put there. Provider and installer write the same files with no lock.
* The container runtime calls the **CNI plugin** for each new pod, with the kubeconfig the
  installer wrote; it sets the rules of the pod's network namespace with **pkg/iptables**.
  Without the CNI plugin, **proxy-init** does the same as an init container.
* The **validator** is an init container that fails (95) if the rules are not there, that is
  if the pod was started before the installer was done. The **repair controller** of the
  node sees that in the pod's status and deletes the pod, so that it is created again.

What is hard in it, and what makes each part correct:

* *Installer.* Two goroutines, an unbuffered and a one-place channel, a log shared without a
  lock, files shared with other programs, its own writes coming back as events, crashes at
  any step, a bounded kernel queue. Correct if: idle means every configuration has linkerd
  last and the kubeconfig is fresh; it becomes idle; no step loses a provider's
  configuration; told to stop, it ends and leaves nothing behind.
* *Rules.* A run is a sequence of separate commands, any of which may fail, on a table that
  earlier runs have left in any state, while packets pass. Correct if: no packet is
  redirected that the options exempt, at any moment; a run that ends has set exactly what
  it was asked; repeated runs do not pile up jumps; a failed run can be repeated.
* *ADD.* The pod, its namespace (once per annotation) and a service are read one after the
  other while they are edited; any request may fail; the runtime repeats ADD. Correct if:
  the rules are those the annotations ask for; pods outside the mesh are left alone; an ADD
  that can succeed does.
* *Validation.* A connection may hang, be refused or end at another server, while a timeout
  and signals are due. Correct if: it succeeds only where the traffic is redirected, and
  ends in the timeout asked for.
* *Repair.* A stale watch, a full channel, requests that are lost or late. Correct if: only
  pods that failed are deleted; every failed pod is, in the end.

`PROJECT.json` lists the hazards line by line with the properties that cover them.

## 2. Modules

| Module | What it is |
|---|---|
| `CniConf` | CNI documents and inject / revert as operators |
| `CniInstaller` | the installer's state machine; extends `CniConf` |
| `InstallerService` | what it promises the container runtime; `CniInstaller` implements it |
| `CniInstallerProofs` | theorems about it: types, injection |
| `CniServiceProofs` | theorems: credentials, the refinement of `InstallerService` |
| `CniRemovalProofs` | theorems: what `Remove` leaves behind, what a crash loses |
| `MCCniInstaller` | its instances; `CniInstaller_*.cfg` |
| `Iptables` | ports, binaries, the commands of a configuration or cleanup, iptables, a packet's way |
| `Firewall` | runs of proxy-init on one namespace; extends `Iptables` |
| `IptablesProofs` | lemmas: what complete and half-written chains do to packets |
| `FirewallProofs` | theorems about runs and cleanups |
| `MCFirewall` | its instances; `Firewall_*.cfg` |
| `CniPlugin` | cmdAdd, up to and including the runs of `Firewall`, which it extends |
| `CniPluginProofs` | theorems about ADDs; extends `FirewallProofs` |
| `MCCniPlugin` | its instance; `CniPlugin_plugin.cfg` |
| `RepairController` | both tasks, kubelet, owners, API server |
| `MeshedPods` | what plugin, validator and repair controller promise of pods; `RepairController` implements it |
| `RepairControllerProofs` | theorems about it |
| `MCRepairController` | its instances; `RepairController_*.cfg` |
| `Validator` | `parse_timeout` and the steps of one validator's process |
| `Node` | `RepairController` with the validators' processes; it implements `RepairController` |
| `NodeProofs` | theorems about it; extends `RepairControllerProofs` |
| `MCNode` | its instance; `Node_node.cfg` |

Operators named `Mut...` are faulty forms of the definition that follows them; nothing uses
them. They document which property notices which bug (`mutants` in `PROJECT.json`).

### CniInstaller

`main` is where the main goroutine is, `loop` where the goroutine of `watchFS` is. One
action is what a goroutine does between two points at which another goroutine, another
program or a crash can be noticed:

| Code | Actions |
|---|---|
| `installRegularFiles` | `InstallRegularFiles` |
| `watchFS`, adding the two watches | `WatchServiceAccount`, `WatchCniConfig` |
| the initial events of `Run` | `FeedData`, `ReadDir`, `Feed`; `FeedPanics` when the channel was closed |
| `Run`'s error returns, its `select` | `RunFails`, `RunErr`, `RunReturns` |
| the loop's `select` and its sends to `errs` | `ReceiveEvent`, `LoopCtxDone`, `SendErr` |
| `reconfigureK8s` | `K8sReadToken`, `K8sReadCA`, `K8sWrite` |
| `reconfigureCNI` | `CniRead`, `CniRename`, `CniUnlink` |
| `Remove` | `RevertEntry`, `RevertTruncate`, `RevertWrite`, `RemoveReturns` |

The environment: providers that rename a file into place, write it in place, delete or move
it; the token's rotation; SIGTERM; SIGKILL at any step; the kubelet's restart. `IOFaults`
says which I/O operations may fail besides for the reasons the state gives.

Abstractions. A document is its form and the sequence of its plugins' names; two documents
that differ in layout only are one, and a hash is the content it was computed from. The regular files to install are one
binary. The `*.install` temporary files and their events, which the handlers ignore by
extension, are left out, as are events for other names. inotify does not merge
equal events (a merge only removes repetitions). The append to the log and the rename before
it are one step: only `Remove` reads the log, and a `Remove` that overtakes the append
has the outcome of one that overtakes the rename. `i.log` is read by `Remove` while the
loop may append to it, a data race: a torn slice would crash the process, which `Kill`
stands for. Leaving a process resets its variables (`Gone`).
`provided` (what providers wrote last) and `joined` are history variables.

`InstallerService` is the installer as the container runtime sees it, which uses the first
configuration by name: what that configuration runs (nothing, linkerd last, or anything
else), whether the kubeconfig is fresh, whether the binary is there, and whether the
installer is up, stopping, down, or stuck in the deadlock below. While it is up, its steps
may take linkerd into the configuration but not out, make the kubeconfig fresh but not
stale, and never remove the binary; providers and the kubelet may do anything, which `given`
tells apart from the installer's steps; once it is told to stop nothing is promised.
`ServesRuntime` states that `CniInstaller` implements the safety part. It would fail if a
list was rewritten in place, or if a file was removed before the one that replaces it is
there. `EventuallyServes` is the liveness part.

### Iptables and Firewall

`Iptables` gives the commands of `addIncomingTrafficRules`, `addOutgoingTrafficRules` and
`cleanupRules` as sequences of records, when iptables refuses one (`CmdFails`), what it does
(`Apply`), and the port a packet is redirected to (`RedirectedTo`); these last three are
external. `Asked` says what the flags' documentation promises for a packet. `Firewall` has
an action per step of a run: `Build`, `ShowAllRules`, `Execute` once per command,
`CommandFails` if the table makes it fail, `Fail` if it fails for a reason outside
(the lock, a kill, the sysctl before), `Finish`; then `Retry` by the kubelet, `Start` with any options, `StartCleanup`.
The rules are read with iptables-save once per family and not again, as in the code.
`Variant` and `resolveBinFallback` choose the binaries among those `Installed`; without any,
every command fails. Variants have tables of their own: `OneVariant` restricts `Options` to
those that lead to one variant per family, as they do in one image with one
`--iptables-mode`. Not modelled: `ContinueOnError`, which no caller sets, and the sysctl,
which touches no rule and whose failure is a `Fail`.

### CniPlugin

`cmdAdd` takes over the variables and the steps of `Firewall` (`BuildAndConfigure`) and puts
before them what determines the options: `GetPod` (with the conditions to skip a pod),
`ReadOverride` once per annotation, `SkipApiPorts` or `Overridden`. Each reads the API when
it is taken, so that `Edit` may change pod and namespace between them; `RequestFails` ends
the ADD. The kubelet repeats a failed ADD for a new sandbox, whose tables are empty
(`RetryAdd`). An annotation is the sequence of the elements of its text. Input that does not
parse and the result that is printed are left out: they come before and after, and change
nothing.

### RepairController

`pods` is the API server's truth, `stream` what the watch has yet to deliver, `queue` the
channel. `process_events` and the steps of `process_pods` (`Recv`, `DeleteReturns`,
`DeleteTimesOut`, `PublishReturns`) are the code; the API server carries out a request
(`ApiDeletes`), fails it, or carries it out after it was given up (`ApiDeletesLate`). A
restart of the watch drops what was not delivered: the list after it consists of `InitApply`
events, which the code does not look at. The kubelet's `ValidatorRestarts` is the step that
makes a failure the *last* state, the one the code reads. A pod waits until its sandbox is
set up (`StartPod`): it gets its rules then, if the installer is done, or never. The
installer may also be removed again (`CniGone`). Metrics and logs are left out.

`MeshedPods` is the promise: a pod is started inside or outside the mesh, serves only
inside, ends only if it is suspect (its validator has failed) or its owner wants it to, and
in the end serves or is gone. `MeshesPods` states that `RepairController` implements its
safety part, `EventuallyMeshed` the liveness part.

### Validator and Node

`Validator` gives the steps of the process: `Parse`, `Bind`, `Connect` (to the process's own
server if the pod's traffic is redirected, else to nothing, to another server, or not at
all), `Compare` of what is read with the token, and `Interrupt`, the branches of `main`'s
select for the timeout and for signals. `parse_timeout` computes on texts that are a number
and a unit, with the 64-bit overflow check; `MaxU64` is a constant. `Node` puts one process
into each running pod of `RepairController` in place of `ValidatorPasses` and
`ValidatorFails`; that what these suppose is all a process can do is the refinement
`ImplementsRepairController`, with the identity as its mapping. A validator that refuses its
arguments exits with 2, which the repair controller does not look for; the kubelet runs it
again, to no effect, and the pod stays in `running`.

## 3. Runs

Passing runs:

| Run | Instance | Checks |
|---|---|---|
| `installer_churn` | one name (`.conf` and `.conflist`), a provider's write, delete or move, 1 rotation, SIGTERM and kill anywhere, 1 restart | `SettledInjected`, `SettledKubeconfigFresh`, `ServiceInv`, `HashedIsLogged`, `RemovalInv`, `JoinedRemovalIsClean`, `Settles`, `TerminatesAfterSignal`, `ServesRuntime`, `EventuallyServes` |
| `installer_crash` | two names, kill and SIGTERM anywhere, 2 restarts, reverts that fail at any of their steps | `KeepsConfig`, `NeverLosesConfig` |
| `installer_faults` | broken files, writes in place, every I/O fault, inotify queue of 3 | `TypeOK`, `InjectionInv` |
| `firewall_retry` | 5 ports, 2 per rule, dual stack, ranges, entries that do not parse, listed ports, subnet, refused and simulated options, a variant that is not installed; 2 failures, 2 more runs or cleanups | `FirewallInv`, `RedirectsOnlyAsked`, `DoneIsAsked`, `JumpsOnce`, `CleanedIsEmpty`, `Converges` |
| `plugin` | ten kinds of pods, three of namespaces, IPv4 and dual stack with a variant that is not installed, listed ports of which one is none, 1 edit, 2 failures of requests or commands | `PluginInv`, `AddIsIntended`, `OnlyMeshedTouched`, `ControlPlaneReachesApi`, `AddSucceeds` |
| `repair` | 2 pods with names used once, channel of 1, watch 2 behind, a validator that fails without cause, 2 faults of watch, API, controller or installer | `TypeOK`, `DeletesOnlyFailed`, `MeshesPods`, `EventuallyMeshed` |
| `node` | one name used for up to 3 pods, timeouts that fit, overflow or lack a unit, integers up to 100000, a failure without cause, a fault | `TimeoutIsAsked`, `ImplementsRepairController`, `EventuallyValidated` |

Runs whose property the code violates; each is a finding in `PROJECT.json`:

| Run | What TLC shows |
|---|---|
| `installer_deadlock` | two errors during the initial events block both goroutines for ever |
| `installer_race` | `Remove` overtakes a handler, whose file stays |
| `installer_lostupdate` | a provider's file, replaced between read and rename, is overwritten for good |
| `firewall_subnet` | an IPv4 subnet to ignore makes the IPv6 pass fail for ever |
| `repair_reused` | a new pod is deleted for its predecessor's failure |

More divergences have no run: `CleanupFirewallConfig` stops at its first failing command,
so that a partial configuration is never cleaned up (`iptables.go:131`; nothing calls it); `--proxy-uid 0` is taken for no user
(`iptables.go:188`), so that `RedirectsOnlyAsked` fails for such options, and `IsValidPort`
accepts port 0, against its comment (`portrange.go:15-18`). The instances leave both out.

Bounds. One configuration name is enough for the interplay of a `.conf` with its
`.conflist`; two for that of a file with another one's error. One provider write lets a
file change while it is handled, before and after a restart. The inotify queue overflows at three in
`installer_faults`; elsewhere it is long enough not to. Rules hold two ports instead of 15,
so that two entries fill a rule and the third starts another, once with a range that no
longer fits; 65535 becomes 5. One edit falls between any two reads of an ADD. With minutes
and 100000 for 2^64, a product overflows. Two
failures allow a run to fail in each family, or a run and its retry. The channel of 1 is
full as soon as a second pod fails. Fault bounds only cut off repetition.

Deadlock is not checked where the system may stop: a process that has exited and
is not started again, a run that is done, a node with nothing to do.

Fairness. Each goroutine that can step does (`WF` on `Run \/ RemoveAll` and on `watchFS`):
the Go scheduler's promise. A provider that has begun to write ends (`ProviderClose`); the
kubelet starts a container that exited (`Restart`). Nothing forces a provider to write, a
signal or a crash. A run of proxy-init goes on, and is retried (`restartPolicy` of the pod);
nothing makes failures end but their bound. In `RepairController` the installer finishes,
the kubelet starts pods and runs validators, the tasks and the API server go on. The kubelet's fairness is
strong because the bound on the watch would otherwise let one pod's events keep another's
from happening; a real watch has no such bound. In `CniPlugin` an ADD goes on and a failed
one is repeated; the kubelet promises both. In `Node` a validator goes on where nothing can
hang (`Prompt`), and its timer fires (`TimesOut`); whether a connection that is not
redirected ever answers is left open.

What the exceptions in the properties mean. `Jammed` in `Settles` and
`TerminatesAfterSignal` is the deadlock of `installer_deadlock`: these runs show that it is
the only way to get stuck. `joined` in `JoinedRemovalIsClean` is the absence of the race of
`installer_race`: with it, removal is clean. `Truncated` in `NeverLosesConfig` is the in-place
rewrite of `Remove`: a list it has truncated and not written is lost by a crash, or by a
write that fails, and nothing else loses one. `Acceptable` in `AddSucceeds` are the options
every command of which iptables takes: with others (only entries that do not parse, a
subnet of the other family, a port that is none) ADD fails each time it is repeated.

## 4. Proofs

Every invariant and every action property of the passing runs, and every refinement's safety
part, is stated by a theorem below. The inductive invariants of installer, rules and ADDs are
checked by runs as well.

`CniInstallerProofs` proves, for any sets of files, contents, faults, doings of the
environment and bounds (from `PluginAssumption` and `InstallerAssumption`):

* `TypeCorrect`: `Spec => []TypeOK`.
* `InjectionIsPending`: `Spec => []InjectionInv`.
* `SettledIsInjected`: `Spec => []SettledInjected`.
* `HashesAreLogged`: `Spec => []HashedIsLogged`.

The argument. `SettledInjected` only speaks of idle states and is not inductive. What is
kept at every step is that no file is forgotten: a configuration that lacks linkerd is still
to be listed, is listed and not yet sent, has an event in the queue, is the file of the
running handler, or an error is on its way to end the process (`InjectionPending`). For this
to survive the handler's early return, a file skipped as unchanged must need no work, so a
remembered hash must be of an injected list (`HashedIsLogged`); for it to survive the
handler's rename, what it writes must be injected (`MergedIsInjected`); for a provider's
write to leave an event, or an overflow that becomes an error, the directory must be watched
from the initial events on (`CniWatched`). The four together are `InjectionInv`; the proof
takes each action and each part in turn, on top of `TypeOK`. In an idle state all ways of
being pending are excluded, which gives `SettledInjected`.

`CniServiceProofs` proves, from the same assumptions:

* `ServiceInvariant`: `Spec => []ServiceInv`.
* `SettledIsFresh`: `Spec => []SettledKubeconfigFresh`.
* `ServesTheRuntime`: `Spec => ServesRuntime`, the refinement of `InstallerService`.

The argument. Token and CA are read in two steps and rotated at any time, so that a handler
may write a pair that is neither of the old nor of the new generation. Two parts of
`ServiceInv` make this harmless. While the kubeconfig is out of date, or a handler holds
credentials it has read, something will refresh it: the initial events, an error, an event
of the data directory in the queue, or a handler that has not read yet (`RefreshPending`);
a rotation leaves its event because the directory is watched (`DataWatched`). And a handler
never holds older credentials than the kubeconfig does (`NeverOlder`): handlers run one
after the other, and generations only grow. The last part says that only an instance that
was told to stop runs `Remove` or ends its loop (`PhaseInv`), which the refinement needs for
"until it is told to stop". The refinement then is one lemma per action: a rename puts an
injected list in place (`LinkerdStays`, from `MergedIsInjected`), and the single-plugin file
is removed only where the list precedes it (`PrecedesOrder`).

`CniRemovalProofs` proves:

* `RemovalInvariant`, `RemovalIsClean`: `Spec => []RemovalInv` and
  `Spec => []JoinedRemovalIsClean`, assuming `NoneConfigured`: neither the files at the
  start nor what providers write holds linkerd. `revert` takes one linkerd plugin out of a
  list, so one that was there twice, or that a provider's file brought along, stays.
* `ConfigInvariant`, `ConfigIsNeverLost`: `Spec => []KeepsConfig` and
  `Spec => NeverLosesConfig`, assuming `NobodyWrites`: no provider writes while the installer
  runs, and where a `.conf` and a `.conflist` of one name are there, they are of one provider.
  Without the first, a handler overwrites what it has not read (`installer_lostupdate`);
  without the second, one of the two is given up for the other, as the code means it to be.

The argument for removal. Of the first instance, all there is of linkerd's on the host is in
its log, and each list holds linkerd once, or what `Remove` is about to write holds none
(`LeftIsOwn`); and from the join on, whatever is left is in the part of the log `Remove` has
still to do, unless a revert failed (`LeftIsToDo`). When nothing is to do, nothing is left.
The argument for crashes: every file is absent, truncated or has its provider's plugins, and
so has what a handler has merged or `Remove` has read; a file is removed only when the list
it became is there, or was truncated by `Remove` meanwhile. Both rest on lemmas about documents: inject leaves exactly one linkerd,
for it takes out the first it finds (`InjectedHasOne`); revert takes it out
(`RevertedHasNone`); both keep the other plugins in their order (`OthersAreKept`, by
induction on the position of the plugin removed).

`IptablesProofs` and `FirewallProofs` prove, for any options, packets, binaries, ports per
rule and bounds (from the assumptions of `Iptables` and `Firewall`):

* `FirewallInvariant`: `Spec => []FirewallInv`.
* `EnteredOnce`: `Spec => []JumpsOnce`; `CleanupIsComplete`: `Spec => []CleanedIsEmpty`.
* `OnlyAskedIsRedirected`: `Spec => []RedirectsOnlyAsked`; `DoneRunIsAsked`:
  `Spec => []DoneIsAsked`; both assuming `IdsGiven` of all options and packets, which only
  excludes user and group 0, that the code takes for none (see the hazard).

The argument. A chain holds, at every step, the first rules of the chain of *one* run
(`TablesInv`), is entered from one place at most (`TypeOK`), and what a run has still to
execute completes exactly what its table has so far (`RunInv`: `Configuring` or `Cleaning`). This is
not obvious because a run decides, once per family and before its first command, whether a
chain is to be flushed or created; it holds because nothing else runs in the namespace until
it ends. That a chain is a prefix is enough for packets: the rules that ignore come before
those that redirect, so a prefix that redirects anything has all the rules that ignore
(`ChainRedirects`). What the rules of the ports to ignore match is a
loop that fills a rule with up to 15 ports, a range counting for two: `PortsCovered` shows
by induction on its rounds that together they match the ports asked for, whatever the limit.

`CniPluginProofs` proves, for any pods, namespaces, services and configurations:

* `PluginInvariant`: `PluginSpec => []PluginInv`.
* `OnlyMeshedAreTouched`: `PluginSpec => []OnlyMeshedTouched`.
* `ApiServerIsReached`: `PluginSpec => []ControlPlaneReachesApi`.
* `AddDoesAsIntended`: `PluginSpec => []AddIsIntended`, assuming `IdsRespected`: as
  `IdsGiven`, and no annotation asks for user or group 0.

`PluginInv` is `FirewallInv` (the steps of a run are those of `Firewall`) with: what was read
was there during this ADD (`SeenInv`); tables are empty until a pod in the mesh was read
(`MeshInv`); between two reads, the options are what the annotations read *so far* make of
the configuration, each the pod's or one its namespace had meanwhile (`OverrideInv`); once
complete they do not change, and all rules are theirs (`OptionsInv`). The rest follows with
`ChainRedirects`.

`RepairControllerProofs` proves, for any pods, capacity of the channel and bounds (from
`RepairAssumption`):

* `RepairTypeCorrect`: `Spec => []TypeOK`, which bounds the channel.
* `OnlyFailedDeleted`: `Spec => DeletesOnlyFailed`, when `NamesReused` is false.

The argument. Pods are deleted by name, seconds after their failure was read. What makes
this safe is an invariant over everything that still refers to a name, `ReferencesMarked`: a
report of a failure in the watch, a reference in the channel, the request of `process_pods`
and the ones it gave up on all name a pod that has failed, or that is gone and whose name
is used up. References are only created where a failure is reported (`NewReference`), and
what they name stays failed (`MarkedStays`), because a last state with code 95 is never taken back.
The second needs that names are used once; `repair_reused` shows it fail otherwise.

* `RepairMeshes`: `Spec => MeshesPods`, when `NamesReused` is false: the refinement of
  `MeshedPods`.

Its argument. Initial states map to initial states (`InitMesh`). A step changes at most one
pod of the abstract state (`OnePodChanges`), by a change that is one of `MeshedPods`'
actions (`PodStep`); only the API server's and the kubelet's ends of a pod need more, that
it has failed or is leaving (`EndStep`), which is `ReferencesMarked` again.

`NodeProofs` proves, for any widths of integers, numbers and units (from `NodeAssumption`):

* `NodeImplements`: `NodeSpec => ImplementsRepairController`.
* `TimeoutAsAsked`: `NodeSpec => []TimeoutIsAsked`.
* `NodeMeshes`: `NodeSpec => MeshesPods`, when `NamesReused` is false, from the first and
  `RepairMeshes`.

The argument. The one thing the validators' processes add is how they come to succeed: with
the connection to their own server. `NodeInv` (by `NodeInvariant`) says that a process has
it only in a pod that is redirected, which is what `RepairController` supposes. It must
survive what happens to the pod meanwhile: `RunningStays` shows that the rules of a running
pod do not change, and that a name that runs anew has a new process. The timeout is exact
for every number and unit (`ParseIsExact`): the checked product refuses what does not fit
and nothing else.

Induction over data is done on sets of natural numbers: the library's induction theorems
take an operator and cannot be used, but that `<` is well-founded on `Nat` can
(`NatLessThanWellFounded`, `WFMin`). The positions at which a claim fails have, if there are
any, a least one (`LeastPosition`, `LeastElement`), and it is shown that this is none.

What is only model-checked. Liveness (`Settles`, `TerminatesAfterSignal`, `EventuallyServes`,
`Converges`, `AddSucceeds`, `EventuallyMeshed`, `EventuallyValidated`): fairness rests on
ENABLED, which the prover does not reason about. The properties the five other runs show
violated are false in general; most hypotheses above exclude just what such a run shows.

## 5. Plan

Done: all components with behaviour of their own, their composition in `Node`, the abstract
specifications `InstallerService` and `MeshedPods` and their refinements, and a theorem for
every safety property of the passing runs. Still worth doing, all of it proofs:

1. `NeverLosesConfig` with providers that write: a handler's step loses at most a file that
   was replaced since it was read, and only that one.
2. `RemovalIsClean` for instances after the first, whose log is shorter than what their
   predecessor left: a kill before the log is filled again is the one exception.
3. `DeletesOnlyFailed` with names that are used again: what is deleted has the name of a pod
   that has failed.

## 6. Not modelled

* Build, packaging, CI, and the integration tests, which run on a cluster.
* Logging, metrics, the text of rules, of the kubeconfig and of published events, file modes.
* proxy-init's sysctl and logging flags; `ContinueOnError`, which is never set.
* cmdDel and cmdCheck, which do nothing; input of the CNI plugin that does not parse.
* Signals that reach the validator before its handlers are registered: they end it with
  another code, which counts as no failure for the repair controller, and the kubelet
  starts it again.
