------------------------------ MODULE MCFirewall ------------------------------
(* Small instances of Firewall: ports up to 5, two of them a rule. *)
EXTENDS Firewall

Range2(lo, hi) == [lo |-> lo, hi |-> hi]
Net4 == [family |-> 4, id |-> 1]
Net6 == [family |-> 6, id |-> 1]
Elsewhere == [family |-> 4, id |-> 2]

Base == [uid |-> 2, gid |-> -1, incoming |-> 1, outgoing |-> 2, ipv6 |-> FALSE,
         simulate |-> FALSE, mode |-> "", binPath |-> "",
         inboundIgnore |-> <<>>, outboundIgnore |-> <<>>, subnets |-> <<>>,
         redirect |-> <<>>]

\* Several rules of ports, with ranges, entries that do not parse and a dual stack.
Dual == [Base EXCEPT !.ipv6 = TRUE, !.mode = "plain",
           !.inboundIgnore = <<Range2(1, 1), Range2(2, 2), Range2(5, 4)>>,
           !.outboundIgnore = <<Range2(4, 4), Range2(0, 9), Range2(1, 2), Range2(3, 3)>>]

\* Listed ports, one of which is ignored, and a subnet.
ListedPorts == [Base EXCEPT !.gid = 3, !.incoming = 3, !.binPath = "nft",
                  !.redirect = <<1, 4, 5>>, !.inboundIgnore = <<Range2(4, 4)>>,
                  !.subnets = <<Net4>>]

Invalid == {[Base EXCEPT !.mode = "ipset"], [Base EXCEPT !.incoming = 6],
            [Base EXCEPT !.subnets = <<[family |-> 0, id |-> 0]>>]}

Simulated == [Base EXCEPT !.simulate = TRUE]

\* Only the nft variant is on PATH: the others are replaced by it.
MCInstalled == {<<4, "nft">>, <<6, "nft">>}

MCOptions      == {Dual, ListedPorts, Simulated} \cup Invalid
SubnetOptions  == {[Base EXCEPT !.ipv6 = TRUE, !.subnets = <<Net4>>]}

Inbound  == [chain |-> "PROXY_INIT_REDIRECT", dport |-> 1, src |-> Elsewhere, tcp |-> TRUE,
             uid |-> -2, gid |-> -2, lo |-> FALSE]
Outbound == [Inbound EXCEPT !.chain = "PROXY_INIT_OUTPUT", !.uid = 0, !.gid = 0]

MCPackets ==
  {[p EXCEPT !.dport = port] : p \in {Inbound, Outbound}, port \in 1..5}
  \cup {[p EXCEPT !.tcp = FALSE] : p \in {Inbound, Outbound}}
  \cup {[Inbound EXCEPT !.src = Net4]}
  \cup {[Outbound EXCEPT !.uid = 2], [Outbound EXCEPT !.gid = 3],
        [Outbound EXCEPT !.lo = TRUE]}
=============================================================================
