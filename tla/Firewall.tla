------------------------------- MODULE Firewall -------------------------------
(***************************************************************************)
(* proxy-init (proxy-init/cmd/root.go) and the last part of the CNI        *)
(* plugin's ADD (buildAndConfigure, cni-plugin/main.go) on the network     *)
(* namespace of one pod: read the rules with iptables-save, then run one   *)
(* iptables command after the other, for IPv4 and then, on a dual-stack    *)
(* cluster, for IPv6.  A command may fail (the xtables lock is held) and   *)
(* the process may be killed between two of them; the kubelet runs the     *)
(* init container again on what the failed run left.  It may also be run   *)
(* with other options, and its rules may be cleaned up.  Packets are       *)
(* filtered at every step.                                                 *)
(***************************************************************************)
EXTENDS Iptables

CONSTANTS Options,      \* the options runs are started with
          Packets,      \* the packets the properties look at
          MaxFailures,  \* bound on commands that fail although they could succeed
          MaxRuns       \* bound on runs and cleanups

\* The fields of FirewallConfiguration and of a packet; family 0 is no CIDR address.
PortRange == [lo : Int, hi : Int]
Subnet    == [family : {0, 4, 6}, id : Nat]
Option    == [uid : Int, gid : Int, incoming : Int, outgoing : Int, ipv6 : BOOLEAN,
              simulate : BOOLEAN, mode : STRING, binPath : STRING,
              inboundIgnore : Seq(PortRange), outboundIgnore : Seq(PortRange),
              subnets : Seq(Subnet), redirect : Seq(Int)]
Packet    == [chain : Chain, dport : Int, src : Subnet, tcp : BOOLEAN,
              uid : Int, gid : Int, lo : BOOLEAN]

ASSUME FirewallAssumption ==
  /\ Options \subseteq Option /\ Packets \subseteq Packet
  /\ MaxFailures \in Nat /\ MaxRuns \in Nat

VARIABLES table,     \* the nat table of each IP family
          options,   \* the options of the current run
          goal,      \* "configure" or "cleanup"
          pc, family, cmds,
          failures, runs,
          used       \* history: the options of all runs on a family since its cleanup

vars == <<table, options, goal, pc, family, cmds, failures, runs, used>>

Families == {4, 6}

FamiliesOf(o) == IF o.ipv6 THEN Families ELSE {4}

\* The variant of iptables asked for: --iptables-mode or, for compatibility, the
\* variant named by --firewall-bin-path; legacy, if neither is given.
Variant(o) == IF o.mode # "" THEN o.mode
              ELSE IF o.binPath # "" THEN o.binPath ELSE "legacy"

\* BuildFirewallConfiguration refuses other variants, proxy ports out of range and
\* subnets that are no CIDR address (family 0).
BuildError(o) ==
  \/ Variant(o) \notin {"legacy", "nft", "plain"}
  \/ ~IsValidPort(o.incoming) \/ ~IsValidPort(o.outgoing)
  \/ \E i \in DOMAIN o.subnets : o.subnets[i].family = 0

\* There is one table per family: the runs in one network namespace use one variant.
ASSUME OneVariant ==
  \A f \in Families, o1, o2 \in {o \in Options : ~BuildError(o)} :
    resolveBinFallback(f, Variant(o1)) = resolveBinFallback(f, Variant(o2))

\* The binaries that execute the commands of the current run are there.
BinFound == <<family, resolveBinFallback(family, Variant(options))>> \in Installed

Init ==
  /\ table = [f \in Families |-> EmptyTable]
  /\ options \in Options /\ goal = "configure"
  /\ used = [f \in Families |-> {}]
  /\ pc = "build" /\ family = 4 /\ cmds = <<>>
  /\ failures = 0 /\ runs = 0

\* RunE: build the configuration of the next family; invalid options are refused.
Build ==
  /\ pc = "build"
  /\ IF BuildError(options)
     THEN pc' = "refused" /\ UNCHANGED used
     ELSE /\ pc' = "show"
          /\ used' = IF options.simulate THEN used
                     ELSE [used EXCEPT ![family] = @ \cup {options}]
  /\ UNCHANGED <<table, options, goal, family, cmds, failures, runs>>

\* ConfigureFirewall: list the rules there are and derive the commands.  A run that
\* only simulates executes no command, this one included, and so sees no rules.
ShowAllRules ==
  /\ pc = "show" /\ (options.simulate \/ BinFound)
  /\ pc' = "execute"
  /\ cmds' = configureRules(options, IF options.simulate THEN EmptyTable
                                    ELSE table[family])
  /\ UNCHANGED <<table, options, goal, family, failures, runs, used>>

Execute ==
  /\ pc = "execute" /\ cmds # <<>>
  /\ options.simulate \/ (BinFound /\ ~CmdFails(family, table[family], Head(cmds)))
  /\ table' = IF options.simulate THEN table
              ELSE [table EXCEPT ![family] = Apply(@, Head(cmds))]
  /\ cmds' = Tail(cmds)
  /\ UNCHANGED <<options, goal, pc, family, failures, runs, used>>

\* A command that cannot succeed ends the run, as no caller sets ContinueOnError.
CommandFails ==
  /\ ~options.simulate
  /\ \/ pc = "show" /\ ~BinFound
     \/ /\ pc = "execute" /\ cmds # <<>>
        /\ BinFound => CmdFails(family, table[family], Head(cmds))
  /\ pc' = "failed" /\ cmds' = <<>>
  /\ UNCHANGED <<table, options, goal, family, failures, runs, used>>

\* Any command fails because the lock is held, or the process is killed before it.
Fail ==
  /\ pc \in {"build", "show", "execute"} /\ failures < MaxFailures
  /\ failures' = failures + 1
  /\ pc' = "failed" /\ cmds' = <<>>
  /\ UNCHANGED <<table, options, goal, family, runs, used>>

\* The rules of a family are done: go on with IPv6, or end.
Finish ==
  /\ pc = "execute" /\ cmds = <<>>
  /\ IF goal = "configure" /\ options.ipv6 /\ family = 4
     THEN pc' = "build" /\ family' = 6
     ELSE pc' = "done" /\ family' = family
  /\ used' = IF goal = "cleanup" /\ ~options.simulate
             THEN [used EXCEPT ![family] = {}] ELSE used
  /\ UNCHANGED <<table, options, goal, cmds, failures, runs>>

\* The kubelet runs a failed init container again (one that was refused is refused
\* again); a failed ADD is repeated in a new network namespace, and starts at Init.
Retry ==
  /\ pc = "failed"
  /\ IF goal = "configure" THEN pc' = "build" /\ family' = 4 /\ cmds' = <<>>
     ELSE pc' = "execute" /\ family' = family /\ cmds' = cleanupRules
  /\ UNCHANGED <<table, options, goal, failures, runs, used>>

\* A new run, with options that may differ.
Start ==
  /\ pc \in {"done", "failed", "refused"} /\ runs < MaxRuns
  /\ options' \in Options
  /\ goal' = "configure" /\ pc' = "build" /\ family' = 4 /\ cmds' = <<>>
  /\ runs' = runs + 1
  /\ UNCHANGED <<table, failures, used>>

\* CleanupFirewallConfig, for one family.
StartCleanup ==
  /\ pc \in {"done", "failed"} /\ goal = "configure" /\ runs < MaxRuns
  /\ family' \in FamiliesOf(options)
  /\ goal' = "cleanup" /\ pc' = "execute" /\ cmds' = cleanupRules
  /\ runs' = runs + 1
  /\ UNCHANGED <<table, options, failures, used>>

Next == \/ Build \/ ShowAllRules \/ Execute \/ CommandFails \/ Fail \/ Finish
        \/ Retry \/ Start \/ StartCleanup

Spec == Init /\ [][Next]_vars

\* A run goes on, and a failed one is retried.
Fairness == /\ WF_vars(Build \/ ShowAllRules \/ Execute \/ CommandFails \/ Finish)
            /\ WF_vars(Retry)

FairSpec == Spec /\ Fairness

-----------------------------------------------------------------------------
(* Properties. *)

\* The types of the variables, but for pc and cmds: see RunInv.  Among them: the tables
\* have two chains, and at most one jump to each.
TypeOK ==
  /\ options \in Option /\ goal \in {"configure", "cleanup"} /\ family \in Families
  /\ used \in [Families -> SUBSET {o \in Option : ~BuildError(o)}]
  /\ DOMAIN table = Families
  /\ \A f \in Families :
       /\ table[f] = [exists |-> [c \in Chain |-> table[f].exists[c]],
                      rules  |-> [c \in Chain |-> table[f].rules[c]],
                      jumps  |-> [c \in Chain |-> table[f].jumps[c]]]
       /\ \A c \in Chain : table[f].exists[c] \in BOOLEAN /\ table[f].jumps[c] \in {0, 1}
  /\ failures \in Nat /\ runs \in Nat

RulesOf(c, o) == IF c = "PROXY_INIT_REDIRECT" THEN incomingRules(o) ELSE outgoingRules(o)

\* A chain holds the first i of the rules that options o give it, and what is left.
Filled(t, c, o, i) == t.exists[c] /\ t.rules[c] = SubSeq(RulesOf(c, o), 1, i)
Left(c, o, i)      == Add(c, SubSeq(RulesOf(c, o), i + 1, Len(RulesOf(c, o))))
Complete(t, c, o)  == t.exists[c] /\ t.jumps[c] = 1 /\ t.rules[c] = RulesOf(c, o)

\* In a run with options o, what is still to execute and what the table has so far.
Configuring(t, o, left) ==
  \/ left = configureRules(o, t)
  \/ \E i \in 0..Len(incomingRules(o)) :
       /\ Filled(t, "PROXY_INIT_REDIRECT", o, i)
       /\ left = Left("PROXY_INIT_REDIRECT", o, i) \o jumpOnce(t, "PROXY_INIT_REDIRECT")
                 \o addOutgoingTrafficRules(o, t)
  \/ /\ Complete(t, "PROXY_INIT_REDIRECT", o)
     /\ \E i \in 0..Len(outgoingRules(o)) :
          /\ Filled(t, "PROXY_INIT_OUTPUT", o, i)
          /\ left = Left("PROXY_INIT_OUTPUT", o, i) \o jumpOnce(t, "PROXY_INIT_OUTPUT")

\* The same for a cleanup, of which k commands have been executed.
Cleaning(t, left) ==
  \E k \in 0..Len(cleanupRules) :
    /\ left = SubSeq(cleanupRules, k + 1, Len(cleanupRules))
    /\ k >= 1 => t.jumps["PROXY_INIT_REDIRECT"] = 0
    /\ k >= 2 => t.jumps["PROXY_INIT_OUTPUT"] = 0
    /\ k >= 3 => t.rules["PROXY_INIT_OUTPUT"] = <<>>
    /\ k >= 4 => t.rules["PROXY_INIT_REDIRECT"] = <<>>
    /\ k >= 5 => ~t.exists["PROXY_INIT_OUTPUT"]
    /\ k >= 6 => ~t.exists["PROXY_INIT_REDIRECT"]

\* A chain never holds anything but the first rules of one run since the last cleanup,
\* whichever run that is, and one that does not exist holds none.
TablesInv ==
  \A f \in Families, c \in Chain :
    /\ \/ table[f].rules[c] = <<>>
       \/ \E o \in used[f] : \E i \in 0..Len(RulesOf(c, o)) : Filled(table[f], c, o, i)
    /\ ~table[f].exists[c] => table[f].rules[c] = <<>> /\ table[f].jumps[c] = 0

\* A run that executes commands is where its commands and its tables say it is.
RunInv ==
  ~options.simulate =>
    /\ goal = "configure" =>
         /\ pc \in {"show", "execute", "done"} => options \in used[family]
         /\ pc = "execute" => Configuring(table[family], options, cmds)
         /\ pc \in {"build", "show", "execute", "done"} /\ family = 6 =>
              \A c \in Chain : Complete(table[4], c, options)
         /\ pc = "done" => /\ options.ipv6 => family = 6
                           /\ \A c \in Chain : Complete(table[family], c, options)
    /\ goal = "cleanup" =>
         /\ pc \in {"execute", "failed", "done"}
         /\ pc = "execute" => Cleaning(table[family], cmds)
         /\ pc = "done" => table[family] = EmptyTable

\* What keeps the table from redirecting what no run has asked for while rules are
\* replaced, and makes it hold what the last run has asked for once that ends.
FirewallInv == TypeOK /\ TablesInv /\ RunInv

\* At every step of every run, a packet is redirected only where the options of a
\* run ask for: the proxy's own packets never are, nor ports to ignore, not even while
\* the rules are half-written, after a run that failed or while others replace them.
RedirectsOnlyAsked ==
  \A f \in Families, p \in Packets :
    RedirectedTo(table[f], p) \subseteq UNION {Asked(o, p) : o \in used[f]}

\* A run that ends has replaced whatever earlier runs, failed or with other options,
\* left: exactly what its options ask for is redirected, on each of its families.
DoneIsAsked ==
  pc = "done" /\ goal = "configure" /\ ~options.simulate =>
    \A f \in FamiliesOf(options), p \in Packets :
      RedirectedTo(table[f], p) = Asked(options, p)

\* However often runs fail and are repeated, a chain is entered from one place.
JumpsOnce == \A f \in Families, c \in Chain : table[f].jumps[c] <= 1

\* A cleanup that ends leaves the table as it was before the first run.
CleanedIsEmpty ==
  pc = "done" /\ goal = "cleanup" /\ ~options.simulate => table[family] = EmptyTable

\* A run is never stopped by what earlier ones left: when commands no longer fail
\* for want of the lock, it ends.
Converges == goal = "configure" ~> (pc \in {"done", "refused"} \/ goal = "cleanup")
=============================================================================
