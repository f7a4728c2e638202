------------------------------- MODULE Iptables -------------------------------
(***************************************************************************)
(* The commands proxy-init and the CNI plugin give to iptables             *)
(* (pkg/iptables), what they do to the nat table of one IP family, and     *)
(* what the table then does to a packet.                                   *)
(*                                                                         *)
(* Ports, users and subnets are small numbers.  A port to ignore is a      *)
(* range [lo, hi]; an entry that cannot be parsed, or whose bounds are out *)
(* of range or in the wrong order, is one for which ValidRange is false.   *)
(***************************************************************************)
EXTENDS Integers, Sequences, SequencesExt

CONSTANTS MaxPort,                 \* 65535
          IptablesMultiportLimit,  \* 15
          Installed                \* the <<family, variant>> whose two binaries are found

ASSUME IptablesAssumption == MaxPort \in Nat /\ IptablesMultiportLimit \in Nat \ {0, 1}

\* The first is reached by a jump from PREROUTING, the second by one from OUTPUT.
Chain == {"PROXY_INIT_REDIRECT", "PROXY_INIT_OUTPUT"}

\* A nat table, as far as these commands change it: the rules of each chain that
\* exists, and how many jumps lead to it.
EmptyTable == [exists |-> [c \in Chain |-> FALSE],
               rules  |-> [c \in Chain |-> <<>>],
               jumps  |-> [c \in Chain |-> 0]]

-----------------------------------------------------------------------------
(* Ports. *)

IsValidPort(port) == port >= 0 /\ port <= MaxPort

\* ParsePortRange succeeds.
ValidRange(r) == IsValidPort(r.lo) /\ IsValidPort(r.hi) /\ ~(r.hi < r.lo)

\* What a destination takes of a rule's capacity: one port, or two for a range.
portCount(r) == IF r.lo = r.hi THEN 1 ELSE 2

\* Mutated form of Chunk: the range that does not fit is dropped.
MutChunk(acc, r) ==
  IF ~ValidRange(r) THEN acc
  ELSE IF acc.count + portCount(r) > IptablesMultiportLimit
  THEN [done |-> Append(acc.done, acc.dests), dests |-> <<>>, count |-> 0]
  ELSE [done |-> acc.done, dests |-> Append(acc.dests, r),
        count |-> acc.count + portCount(r)]

\* One round of the loop of makeMultiportDestinations.  An entry that does not parse is
\* skipped; a range that does not fit begins the next rule.
Chunk(acc, r) ==
  IF ~ValidRange(r) THEN acc
  ELSE IF acc.count + portCount(r) > IptablesMultiportLimit
  THEN [done |-> Append(acc.done, acc.dests), dests |-> <<r>>, count |-> portCount(r)]
  ELSE [done |-> acc.done, dests |-> Append(acc.dests, r),
        count |-> acc.count + portCount(r)]

NoChunk == [done |-> <<>>, dests |-> <<>>, count |-> 0]

\* Where the loop is after each number of entries.
Chunks(portsToIgnore) ==
  LET after[n \in 0..Len(portsToIgnore)] ==
        IF n = 0 THEN NoChunk ELSE Chunk(after[n - 1], portsToIgnore[n])
  IN after

\* The destinations of each rule that ignores ports.  The last one is given a rule
\* even if no entry parses, when it has no destination.
makeMultiportDestinations(portsToIgnore) ==
  LET end == Chunks(portsToIgnore)[Len(portsToIgnore)]
  IN IF portsToIgnore = <<>> THEN <<>> ELSE Append(end.done, end.dests)

-----------------------------------------------------------------------------
(* Commands. *)

\* A rule's target is a port to redirect to, or to return from the chain.
RETURN == -1
Rule(match, arg, target) == [match |-> match, arg |-> arg, target |-> target]

makeIgnoreUserID(uid)         == Rule("uid", uid, RETURN)
makeIgnoreGroupID(gid)        == Rule("gid", gid, RETURN)
makeIgnoreLoopback            == Rule("lo", 0, RETURN)
makeIgnorePorts(dests)        == Rule("ports", dests, RETURN)
makeIgnoreSubnet(subnet)      == Rule("subnet", subnet, RETURN)
makeRedirectChainToPort(port) == Rule("tcp", 0, port)
makeRedirectChainToPortBasedOnDestinationPort(dport, port) == Rule("port", dport, port)

\* -N, -F and -X a chain; -A a rule; -A and -D a jump from the builtin chain.
Cmd(op, chain)    == [op |-> op, chain |-> chain]
Add(chain, rules) ==
  [i \in DOMAIN rules |-> [op |-> "append", chain |-> chain, rule |-> rules[i]]]
When(cond, s)     == IF cond THEN s ELSE <<>>

addRulesForIgnoredPorts(ports) ==
  LET slices == makeMultiportDestinations(ports)
  IN [i \in DOMAIN slices |-> makeIgnorePorts(slices[i])]

addRulesForIgnoredSubnets(subnets) ==
  [i \in DOMAIN subnets |-> makeIgnoreSubnet(subnets[i])]

addRulesForInboundPortRedirect(fc) ==
  IF fc.redirect = <<>> THEN <<makeRedirectChainToPort(fc.incoming)>>
  ELSE [i \in DOMAIN fc.redirect |->
          makeRedirectChainToPortBasedOnDestinationPort(fc.redirect[i], fc.incoming)]

\* Mutated form of freshChain: the chain is always created.
MutFreshChain(t, chain) == <<Cmd("new", chain)>>

\* The chain exists in what iptables-save printed: it is flushed, not created.
freshChain(t, chain) == <<Cmd(IF t.exists[chain] THEN "flush" ELSE "new", chain)>>

\* Mutated form of jumpOnce: the jump is always added.
MutJumpOnce(t, chain) == <<Cmd("jump", chain)>>

\* A jump that is there is not added again.
jumpOnce(t, chain) == When(t.jumps[chain] = 0, <<Cmd("jump", chain)>>)

\* The rules of each chain: those to ignore traffic come first.
incomingRules(fc) ==
  addRulesForIgnoredPorts(fc.inboundIgnore) \o addRulesForIgnoredSubnets(fc.subnets)
  \o addRulesForInboundPortRedirect(fc)

outgoingRules(fc) ==
  When(fc.uid > 0, <<makeIgnoreUserID(fc.uid)>>)
  \o When(fc.gid > 0, <<makeIgnoreGroupID(fc.gid)>>)
  \o <<makeIgnoreLoopback>>
  \o addRulesForIgnoredPorts(fc.outboundIgnore)
  \o <<makeRedirectChainToPort(fc.outgoing)>>

\* Mutated form of addIncomingTrafficRules: traffic is sent to the chain before
\* the ports to ignore are in it.
MutAddIncomingTrafficRules(fc, t) ==
  LET chain == "PROXY_INIT_REDIRECT"
  IN freshChain(t, chain) \o jumpOnce(t, chain)
     \o Add(chain, addRulesForInboundPortRedirect(fc))
     \o Add(chain, addRulesForIgnoredPorts(fc.inboundIgnore))
     \o Add(chain, addRulesForIgnoredSubnets(fc.subnets))

addIncomingTrafficRules(fc, t) ==
  LET chain == "PROXY_INIT_REDIRECT"
  IN freshChain(t, chain) \o Add(chain, incomingRules(fc)) \o jumpOnce(t, chain)

addOutgoingTrafficRules(fc, t) ==
  LET chain == "PROXY_INIT_OUTPUT"
  IN freshChain(t, chain) \o Add(chain, outgoingRules(fc)) \o jumpOnce(t, chain)

\* The commands of ConfigureFirewall, given the table iptables-save printed.
configureRules(fc, t) == addIncomingTrafficRules(fc, t) \o addOutgoingTrafficRules(fc, t)

\* Mutated form of cleanupRules: one chain is left.
MutCleanupRules ==
  <<Cmd("unjump", "PROXY_INIT_REDIRECT"), Cmd("unjump", "PROXY_INIT_OUTPUT"),
    Cmd("flush", "PROXY_INIT_OUTPUT"), Cmd("delete", "PROXY_INIT_OUTPUT")>>

\* The commands of CleanupFirewallConfig: jumps first, then both chains.
cleanupRules ==
  <<Cmd("unjump", "PROXY_INIT_REDIRECT"), Cmd("unjump", "PROXY_INIT_OUTPUT"),
    Cmd("flush", "PROXY_INIT_OUTPUT"), Cmd("flush", "PROXY_INIT_REDIRECT"),
    Cmd("delete", "PROXY_INIT_OUTPUT"), Cmd("delete", "PROXY_INIT_REDIRECT")>>

-----------------------------------------------------------------------------
(* The variant of iptables that runs the commands. *)

\* The order in which a variant that is not there is replaced.
Candidates == <<"nft", "plain", "legacy">>

\* Mutated form of resolveBinFallback: there is no fallback.
MutResolveBinFallback(family, variant) == variant

\* The variant asked for, if its binaries are on PATH, else the first candidate of the
\* same family; if there is none, commands fail.
resolveBinFallback(family, variant) ==
  LET found == SelectSeq(Candidates, LAMBDA v : <<family, v>> \in Installed)
  IN IF <<family, variant>> \in Installed \/ found = <<>> THEN variant ELSE Head(found)

-----------------------------------------------------------------------------
(* iptables: when a command on a family's table fails, and what it does. *)

\* --dports needs a port; ip6tables takes no IPv4 subnet, nor iptables an IPv6 one; a port
\* to redirect, which no option parser checks, may be none.
BadRule(family, rule) ==
  \/ rule.match = "ports" /\ rule.arg = <<>>
  \/ rule.match = "subnet" /\ rule.arg.family # family
  \/ rule.match = "port" /\ ~IsValidPort(rule.arg)

CmdFails(family, t, cmd) ==
  CASE cmd.op = "new"    -> t.exists[cmd.chain]
    [] cmd.op = "append" -> ~t.exists[cmd.chain] \/ BadRule(family, cmd.rule)
    [] cmd.op = "unjump" -> t.jumps[cmd.chain] = 0
    [] cmd.op = "delete" -> \/ ~t.exists[cmd.chain] \/ t.rules[cmd.chain] # <<>>
                            \/ t.jumps[cmd.chain] # 0
    [] OTHER             -> ~t.exists[cmd.chain]

Apply(t, cmd) ==
  LET c == cmd.chain
  IN CASE cmd.op = "new"    -> [t EXCEPT !.exists[c] = TRUE]
       [] cmd.op = "flush"  -> [t EXCEPT !.rules[c] = <<>>]
       [] cmd.op = "append" -> [t EXCEPT !.rules[c] = Append(@, cmd.rule)]
       [] cmd.op = "jump"   -> [t EXCEPT !.jumps[c] = @ + 1]
       [] cmd.op = "unjump" -> [t EXCEPT !.jumps[c] = @ - 1]
       [] cmd.op = "delete" -> [t EXCEPT !.exists[c] = FALSE]

-----------------------------------------------------------------------------
(* What the table does to a packet. *)

Matches(rule, p) ==
  CASE rule.match = "uid"    -> p.uid = rule.arg
    [] rule.match = "gid"    -> p.gid = rule.arg
    [] rule.match = "lo"     -> p.lo
    [] rule.match = "subnet" -> p.src = rule.arg
    [] rule.match = "tcp"    -> p.tcp
    [] rule.match = "port"   -> p.tcp /\ p.dport = rule.arg
    [] rule.match = "ports"  -> p.tcp /\ \E i \in DOMAIN rule.arg :
                                  rule.arg[i].lo <= p.dport /\ p.dport <= rule.arg[i].hi

\* The first rule that matches decides.
Deciding(rules, p) ==
  {i \in DOMAIN rules : Matches(rules[i], p) /\ \A j \in 1..(i - 1) : ~Matches(rules[j], p)}

\* Where a packet is redirected to, if it is.
RedirectedTo(t, p) ==
  LET rules == t.rules[p.chain]
  IN IF t.jumps[p.chain] = 0 THEN {}
     ELSE {rules[i].target : i \in Deciding(rules, p)} \ {RETURN}

\* What the options ask for, by the flags' documentation (proxy-init/cmd/root.go):
\* what is to be ignored has precedence over what is to be redirected.
Ignored(ports, p) ==
  \E i \in DOMAIN ports : ValidRange(ports[i]) /\ p.dport \in ports[i].lo..ports[i].hi

Asked(fc, p) ==
  IF p.chain = "PROXY_INIT_REDIRECT"
  THEN IF /\ p.tcp
          /\ ~Ignored(fc.inboundIgnore, p)
          /\ \A i \in DOMAIN fc.subnets : p.src # fc.subnets[i]
          /\ fc.redirect = <<>> \/ \E i \in DOMAIN fc.redirect : fc.redirect[i] = p.dport
       THEN {fc.incoming} ELSE {}
  ELSE IF /\ p.tcp /\ ~p.lo /\ p.uid # fc.uid /\ p.gid # fc.gid
          /\ ~Ignored(fc.outboundIgnore, p)
       THEN {fc.outgoing} ELSE {}
=============================================================================
