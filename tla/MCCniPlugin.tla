----------------------------- MODULE MCCniPlugin -----------------------------
(* Small instances of CniPlugin: pods inside and outside the mesh, with and
   without annotations, some of which cannot be configured. *)
EXTENDS CniPlugin

Port(n)       == [lo |-> n, hi |-> n]
Range2(lo, hi) == [lo |-> lo, hi |-> hi]
Net4      == [family |-> 4, id |-> 1]
Elsewhere == [family |-> 4, id |-> 2]
NoSubnet  == [family |-> 0, id |-> 0]

Conf4 == [uid |-> 2, gid |-> -1, incoming |-> 1, outgoing |-> 2, ipv6 |-> FALSE,
          simulate |-> FALSE, mode |-> "", binPath |-> "",
          inboundIgnore |-> <<Port(2)>>, outboundIgnore |-> <<>>, subnets |-> <<>>,
          redirect |-> <<>>]
Conf6 == [Conf4 EXCEPT !.ipv6 = TRUE, !.mode = "legacy"]

\* The last one lists a port to redirect that is none.
MCConfs     == {Conf4, Conf6, [Conf4 EXCEPT !.redirect = <<3, 6>>]}
MCInstalled == {<<4, "nft">>, <<6, "nft">>}

NoAnnotations == [k \in {} |-> <<>>]
App == [containers |-> {"app"}, initContainers |-> {}, controlPlane |-> FALSE,
        annotations |-> NoAnnotations]
Proxied == [App EXCEPT !.containers = {"app", "linkerd-proxy"}]
Annotated(q, key, value) == [q EXCEPT !.annotations = [k \in {key} |-> value]]

MCPods ==
  {App, [Proxied EXCEPT !.initContainers = {"linkerd-init"}], Proxied,
   [App EXCEPT !.initContainers = {"linkerd-proxy"}, !.controlPlane = TRUE],
   Annotated([Proxied EXCEPT !.controlPlane = TRUE], "skip-outbound-ports", <<Port(1)>>),
   Annotated(Proxied, "skip-inbound-ports", <<Port(1), Range2(5, 4)>>),
   Annotated(Proxied, "proxy-uid", <<4>>),
   Annotated(Proxied, "proxy-gid", <<>>),
   Annotated(Proxied, "skip-subnets", <<Net4>>),
   Annotated(Proxied, "skip-outbound-ports", <<Range2(5, 4)>>)}

Together(f, g) == [k \in DOMAIN f \cup DOMAIN g |-> IF k \in DOMAIN f THEN f[k] ELSE g[k]]

MCNamespaces ==
  {NoAnnotations,
   Together([k \in {"skip-inbound-ports"} |-> <<Range2(3, 4)>>],
            [k \in {"skip-outbound-ports"} |-> <<Port(5)>>]),
   Together([k \in {"proxy-uid"} |-> <<5>>], [k \in {"skip-subnets"} |-> <<NoSubnet>>])}

MCApiService   == <<[port |-> Port(3), numeric |-> TRUE, target |-> Port(4)],
                    [port |-> Port(3), numeric |-> FALSE, target |-> Port(1)]>>
MCDefaultPorts == <<Port(4), Port(5)>>

Inbound  == [chain |-> "PROXY_INIT_REDIRECT", dport |-> 1, src |-> Elsewhere, tcp |-> TRUE,
             uid |-> -2, gid |-> -2, lo |-> FALSE]
Outbound == [Inbound EXCEPT !.chain = "PROXY_INIT_OUTPUT", !.uid = 0, !.gid = 0]

MCPackets ==
  {[p EXCEPT !.dport = port] : p \in {Inbound, Outbound}, port \in 1..5}
  \cup {[Inbound EXCEPT !.src = Net4]}
  \cup {[Outbound EXCEPT !.uid = uid] : uid \in {2, 4, 5}}
=============================================================================
