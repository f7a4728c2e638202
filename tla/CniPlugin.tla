------------------------------ MODULE CniPlugin ------------------------------
(***************************************************************************)
(* The CNI plugin (cni-plugin/main.go): cmdAdd, which the container        *)
(* runtime calls for the sandbox of a pod.  It reads the pod from the API, *)
(* leaves pods outside the mesh alone, and for the others derives options  *)
(* from its network configuration, from the annotations of the pod or else *)
(* of its namespace - which is read anew for every annotation - and, for   *)
(* the control plane, from the ports of the API server.  It then           *)
(* configures IPv4 and IPv6 as in Firewall, whose variables and steps this *)
(* module takes over.                                                      *)
(*                                                                         *)
(* Meanwhile the pod and the namespace are edited, requests and commands   *)
(* fail, and the kubelet repeats an ADD that failed in a new network       *)
(* namespace, whose tables are empty.                                      *)
(*                                                                         *)
(* An annotation is the sequence of the elements of its text: ranges of    *)
(* ports, subnets, or one number; <<>> for a user or a group is a text     *)
(* that is not a number.  An empty annotation counts as none.              *)
(***************************************************************************)
EXTENDS Firewall

CONSTANTS Pods,         \* what the API may hold under the pod's name
          Namespaces,   \* the annotations its namespace may have
          ApiService,   \* the ports of the service "kubernetes", with their targets
          DefaultPorts, \* 443 and 6443
          MaxEdits      \* bound on edits of the pod and of its namespace

\* The annotations, in the order cmdAdd looks for them.
Keys == <<"skip-outbound-ports", "skip-inbound-ports", "skip-subnets",
          "proxy-uid", "proxy-gid">>

\* The elements of an annotation's text.
Value(key) == CASE key \in {"proxy-uid", "proxy-gid"} -> Seq(Int)
                [] key = "skip-subnets"              -> Seq(Subnet)
                [] OTHER                             -> Seq(PortRange)

Annotations(a) == \A key \in ToSet(Keys) \cap DOMAIN a : a[key] \in Value(key)

ASSUME PluginAssumption ==
  /\ \A q \in Pods : q.controlPlane \in BOOLEAN /\ Annotations(q.annotations)
  /\ \A a \in Namespaces : Annotations(a)
  /\ ApiService \in Seq([port : PortRange, numeric : BOOLEAN, target : PortRange])
  /\ DefaultPorts \in Seq(PortRange)
  /\ MaxEdits \in Nat

VARIABLES named,        \* the runtime names a pod: it runs under Kubernetes
          conf,         \* the options in the network configuration
          pod, ns,      \* the pod and its namespace's annotations, in the API
          got,          \* the pod this ADD has read
          unread,       \* the annotations it has still to look for, in order
          edits,
          seenNs        \* history: the namespace's annotations since this ADD began

pluginOnly == <<named, conf, pod, ns, got, unread, edits, seenNs>>
pluginVars == <<vars, pluginOnly>>

PluginInit ==
  /\ table = [f \in Families |-> EmptyTable]
  /\ named \in BOOLEAN
  /\ conf \in Options /\ options = conf
  /\ goal = "configure" /\ pc = "get" /\ family = 4 /\ cmds = <<>>
  /\ used = [f \in Families |-> {}]
  /\ failures = 0 /\ runs = 0 /\ edits = 0
  /\ pod \in Pods /\ got = pod /\ unread = <<>>
  /\ ns \in Namespaces /\ seenNs = {ns}

-----------------------------------------------------------------------------
(* cmdAdd. *)

\* A proxy is a container or, as a native sidecar, an init container.
containsLinkerdProxy(q) == "linkerd-proxy" \in q.containers \cup q.initContainers

\* Mutated form of Meshed: the init container is not looked for.
MutMeshed(q) == containsLinkerdProxy(q)

\* The pods to configure have a proxy and do not configure themselves.
Meshed(q) == containsLinkerdProxy(q) /\ "linkerd-init" \notin q.initContainers

\* Get the pod, if the runtime names one, and skip it if it is not to be configured.
GetPod ==
  /\ pc = "get"
  /\ IF named /\ Meshed(pod)
     THEN pc' = "override" /\ unread' = Keys /\ got' = pod
     ELSE pc' = "skipped" /\ UNCHANGED <<unread, got>>
  /\ options' = conf
  /\ UNCHANGED <<table, goal, family, cmds, failures, runs, used,
                 named, conf, pod, ns, edits, seenNs>>

\* What getAnnotationOverride finds, if anything: a set of at most one annotation.
getAnnotationOverride(q, annotations, key) ==
  IF key \in DOMAIN q.annotations THEN {q.annotations[key]}
  ELSE {annotations[k] : k \in {key} \cap DOMAIN annotations}

\* Mutated form of WithOverride: the ports to skip replace the configured ones.
MutWithOverride(o, key, value) ==
  CASE key = "skip-outbound-ports" -> [o EXCEPT !.outboundIgnore = value]
    [] key = "skip-inbound-ports"  -> [o EXCEPT !.inboundIgnore = value]
    [] key = "skip-subnets"        -> [o EXCEPT !.subnets = value]
    [] key = "proxy-uid"           -> [o EXCEPT !.uid = Head(value)]
    [] key = "proxy-gid"           -> [o EXCEPT !.gid = Head(value)]

\* Inbound ports are added to the configured ones, the others replace theirs.
WithOverride(o, key, value) ==
  CASE key = "skip-outbound-ports" -> [o EXCEPT !.outboundIgnore = value]
    [] key = "skip-inbound-ports"  -> [o EXCEPT !.inboundIgnore = @ \o value]
    [] key = "skip-subnets"        -> [o EXCEPT !.subnets = value]
    [] key = "proxy-uid"           -> [o EXCEPT !.uid = Head(value)]
    [] key = "proxy-gid"           -> [o EXCEPT !.gid = Head(value)]

\* The user and the group have to be numbers.
Parses(key, value) == key \in {"proxy-uid", "proxy-gid"} => value # <<>>

\* Look for the next annotation and apply it; one that does not parse fails the ADD.
ReadOverride ==
  /\ pc = "override" /\ unread # <<>>
  /\ LET key   == Head(unread)
         found == getAnnotationOverride(got, ns, key)
     IN \/ /\ found = {}
           /\ UNCHANGED <<options, pc>>
        \/ \E value \in found :
             IF Parses(key, value)
             THEN options' = WithOverride(options, key, value) /\ UNCHANGED pc
             ELSE pc' = "failed" /\ UNCHANGED options
  /\ unread' = Tail(unread)
  /\ UNCHANGED <<table, goal, family, cmds, failures, runs, used,
                 named, conf, pod, ns, got, edits, seenNs>>

\* The requests an ADD makes: for the pod, and for the namespace when the pod lacks an
\* annotation.
GetsPod       == pc = "get" /\ named
GetsNamespace == /\ pc = "override" /\ unread # <<>>
                 /\ Head(unread) \notin DOMAIN got.annotations

\* One of them fails, and so does the ADD.
RequestFails ==
  /\ GetsPod \/ GetsNamespace
  /\ failures < MaxFailures /\ failures' = failures + 1
  /\ pc' = "failed" /\ unread' = <<>>
  /\ UNCHANGED <<table, options, goal, family, cmds, runs, used,
                 named, conf, pod, ns, got, edits, seenNs>>

\* Each port of the API server's service, and its target unless that is a name.
getAPIServerPorts(service) ==
  FlattenSeq([i \in DOMAIN service |->
                <<service[i].port>>
                \o When(service[i].numeric, <<service[i].target>>)])

ApiPorts == getAPIServerPorts(ApiService)

\* Mutated form of SkipApiPorts: without the service, no port is skipped.
MutSkipApiPorts ==
  /\ pc = "override" /\ unread = <<>> /\ got.controlPlane
  /\ \/ /\ options' = [options EXCEPT !.outboundIgnore = @ \o ApiPorts]
        /\ UNCHANGED failures
     \/ /\ failures < MaxFailures /\ failures' = failures + 1
        /\ UNCHANGED options
  /\ pc' = "build"
  /\ UNCHANGED <<table, goal, family, cmds, runs, used, pluginOnly>>

\* For the control plane: the API server's ports, or the default ports if the service
\* cannot be read, are not redirected either.
SkipApiPorts ==
  /\ pc = "override" /\ unread = <<>> /\ got.controlPlane
  /\ \/ /\ options' = [options EXCEPT !.outboundIgnore = @ \o ApiPorts]
        /\ UNCHANGED failures
     \/ /\ failures < MaxFailures /\ failures' = failures + 1
        /\ options' = [options EXCEPT !.outboundIgnore = @ \o DefaultPorts]
  /\ pc' = "build"
  /\ UNCHANGED <<table, goal, family, cmds, runs, used, pluginOnly>>

\* Any other pod's options are complete.
Overridden ==
  /\ pc = "override" /\ unread = <<>> /\ ~got.controlPlane
  /\ pc' = "build"
  /\ UNCHANGED <<table, options, goal, family, cmds, failures, runs, used, pluginOnly>>

\* buildAndConfigure, for IPv4 and then IPv6.
BuildAndConfigure ==
  /\ Build \/ ShowAllRules \/ Execute \/ CommandFails \/ Finish
  /\ UNCHANGED pluginOnly

\* A command fails for want of the lock, or the plugin is killed.
CommandInterrupted == Fail /\ UNCHANGED pluginOnly

-----------------------------------------------------------------------------
(* The environment. *)

\* The kubelet repeats a failed ADD for a new sandbox.
RetryAdd ==
  /\ pc \in {"failed", "refused"}
  /\ table' = [f \in Families |-> EmptyTable]
  /\ used' = [f \in Families |-> {}]
  /\ pc' = "get" /\ family' = 4 /\ cmds' = <<>> /\ unread' = <<>>
  /\ seenNs' = {ns}
  /\ UNCHANGED <<options, goal, failures, runs, named, conf, pod, ns, got, edits>>

\* The pod or its namespace is edited, while the ADD has still something to read.
Edit ==
  /\ pc \in {"get", "override"} /\ edits < MaxEdits
  /\ \/ pod' \in Pods /\ UNCHANGED ns
     \/ ns' \in Namespaces /\ UNCHANGED pod
  /\ seenNs' = seenNs \cup {ns'}
  /\ edits' = edits + 1
  /\ UNCHANGED <<vars, named, conf, got, unread>>

PluginNext ==
  \/ GetPod \/ ReadOverride \/ SkipApiPorts \/ Overridden \/ BuildAndConfigure
  \/ RequestFails \/ CommandInterrupted \/ RetryAdd \/ Edit

\* An ADD runs, and a failed one is repeated.
PluginFairness ==
  /\ WF_pluginVars(GetPod \/ ReadOverride \/ SkipApiPorts \/ Overridden
                   \/ BuildAndConfigure)
  /\ WF_pluginVars(RetryAdd)

PluginSpec == PluginInit /\ [][PluginNext]_pluginVars /\ PluginFairness

-----------------------------------------------------------------------------
(* Properties. *)

\* What an annotation asks of pod q: what the pod says, or else what its namespace said
\* when it was looked for, or what is configured.
Wanted(q, at, key, default) ==
  IF key \in DOMAIN q.annotations THEN q.annotations[key]
  ELSE IF key \in DOMAIN at[key] THEN at[key][key] ELSE default

\* The user and the group asked for are numbers.
NumericIds(q, at) ==
  \A key \in {"proxy-uid", "proxy-gid"} : Wanted(q, at, key, <<0>>) # <<>>

\* The options for q of an ADD that is configured with c, sees the namespace as at[key]
\* for each annotation, and the API server on the given ports.
Intended(c, q, at, ports) ==
  [c EXCEPT
     !.outboundIgnore = Wanted(q, at, "skip-outbound-ports", @)
                        \o When(q.controlPlane, ports),
     !.inboundIgnore  = @ \o Wanted(q, at, "skip-inbound-ports", <<>>),
     !.subnets        = Wanted(q, at, "skip-subnets", @),
     !.uid            = Head(Wanted(q, at, "proxy-uid", <<@>>)),
     !.gid            = Head(Wanted(q, at, "proxy-gid", <<@>>))]

\* Options o are what k annotations of pod q make of the configuration c, the pod's own
\* or those its namespace has at[key].
Overriding(o, c, q, at, k) ==
  /\ k >= 4 => Wanted(q, at, Keys[4], <<0>>) # <<>>
  /\ k >= 5 => Wanted(q, at, Keys[5], <<0>>) # <<>>
  /\ o = [c EXCEPT
            !.outboundIgnore = IF k >= 1 THEN Wanted(q, at, Keys[1], @) ELSE @,
            !.inboundIgnore  = IF k >= 2 THEN @ \o Wanted(q, at, Keys[2], <<>>) ELSE @,
            !.subnets        = IF k >= 3 THEN Wanted(q, at, Keys[3], @) ELSE @,
            !.uid            = IF k >= 4 THEN Head(Wanted(q, at, Keys[4], <<@>>)) ELSE @,
            !.gid            = IF k >= 5 THEN Head(Wanted(q, at, Keys[5], <<@>>)) ELSE @]

SeenInv == /\ goal = "configure" /\ conf \in Options /\ {pod, got} \subseteq Pods
           /\ ns \in seenNs /\ seenNs \subseteq Namespaces

\* Only pods in the mesh are configured, once they have been read.
MeshInv ==
  /\ pc \in {"override", "build", "show", "execute", "done"} => named /\ Meshed(got)
  /\ pc \in {"get", "override", "skipped"} => family = 4
  /\ pc \in {"get", "override", "skipped"} \/ ~named \/ ~Meshed(got) =>
       \A f \in Families : table[f] = EmptyTable /\ used[f] = {}

\* The options are what the annotations read so far make of the configuration.
OverrideInv ==
  pc = "override" =>
    \E k \in 0..Len(Keys) :
      /\ unread = SubSeq(Keys, k + 1, Len(Keys))
      /\ \E at \in [ToSet(Keys) -> seenNs] : Overriding(options, conf, got, at, k)

\* Rules are those of the current options, and these are complete before there are any.
OptionsInv ==
  /\ \A f \in Families : used[f] \subseteq {options}
  /\ pc \in {"build", "show", "execute", "done"} \/ (\E f \in Families : used[f] # {}) =>
       \E at \in [ToSet(Keys) -> seenNs], ports \in {ApiPorts, DefaultPorts} :
         NumericIds(got, at) /\ options = Intended(conf, got, at, ports)

\* What an ADD has read is what its options say, and its rules are those of its options.
PluginInv == FirewallInv /\ SeenInv /\ MeshInv /\ OverrideInv /\ OptionsInv

\* An ADD that succeeds has redirected, on every family, exactly what the pod, its
\* namespace and the configuration ask for: each annotation is the pod's, or one its
\* namespace had during this ADD, whatever edits and failed ADDs came in between.
AddIsIntended ==
  pc = "done" /\ ~conf.simulate =>
    \E at \in [ToSet(Keys) -> seenNs], ports \in {ApiPorts, DefaultPorts} :
      /\ NumericIds(got, at)
      /\ \A f \in FamiliesOf(conf), p \in Packets :
           RedirectedTo(table[f], p) = Asked(Intended(conf, got, at, ports), p)

\* A pod that is not to be configured keeps its network namespace untouched: its traffic
\* is never redirected to a proxy it does not have.
OnlyMeshedTouched ==
  \/ ~named \/ pc = "skipped"
  \/ "linkerd-init" \in got.initContainers
  \/ "linkerd-proxy" \notin got.containers \cup got.initContainers
  => \A f \in Families : table[f] = EmptyTable

\* A control plane pod reaches the API server without its proxy, on all of its ports or
\* on the default ones, however many of the pod's rules are written.
ControlPlaneReachesApi ==
  got.controlPlane =>
    \E ports \in {ApiPorts, DefaultPorts} : \A f \in Families, p \in Packets :
      p.chain = "PROXY_INIT_OUTPUT" /\ Ignored(ports, p) => RedirectedTo(table[f], p) = {}

\* What the API now holds can be configured: users and groups are numbers, subnets are
\* CIDR addresses of every family there is to configure, a list of ports has one that
\* parses, and the ports to redirect are ports.
Acceptable ==
  LET at == [key \in ToSet(Keys) |-> ns]
      o  == Intended(conf, pod, at, DefaultPorts)
  IN /\ NumericIds(pod, at)
     /\ ~BuildError(o)
     /\ \A i \in DOMAIN o.subnets : FamiliesOf(o) = {o.subnets[i].family}
     /\ \A ports \in {o.inboundIgnore, o.outboundIgnore} :
          ports # <<>> => \E i \in DOMAIN ports : ValidRange(ports[i])
     /\ \A i \in DOMAIN o.redirect : IsValidPort(o.redirect[i])

\* Once requests and commands stop failing and what the API holds can be configured, an
\* ADD succeeds, whatever earlier ones read or left, and nothing else keeps a pod waiting.
AddSucceeds == <>[]Acceptable => <>(pc \in {"done", "skipped"})
=============================================================================
