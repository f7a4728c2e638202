---------------------------- MODULE CniPluginProofs ----------------------------
(***************************************************************************)
(* ADDs of the CNI plugin, whatever is edited or fails in between: what an *)
(* ADD has read is what its options say, and the rules it writes are those *)
(* of these options and of no others, in the network namespaces of pods in *)
(* the mesh only.                                                          *)
(***************************************************************************)
EXTENDS CniPlugin, FirewallProofs

-----------------------------------------------------------------------------
(* Annotations and ports. *)

KeySet == {"skip-outbound-ports", "skip-inbound-ports", "skip-subnets",
           "proxy-uid", "proxy-gid"}

\* The annotations cmdAdd looks for, by their place.
LEMMA KeysByPlace ==
  /\ Keys \in Seq(KeySet) /\ Len(Keys) = 5
  /\ Keys[1] = "skip-outbound-ports" /\ Keys[2] = "skip-inbound-ports"
  /\ Keys[3] = "skip-subnets" /\ Keys[4] = "proxy-uid" /\ Keys[5] = "proxy-gid"
  /\ ToSet(Keys) = KeySet /\ \A i \in 1..5 : Keys[i] \in KeySet
<1>1. Keys \in Seq(KeySet) /\ Len(Keys) = 5
  BY DEF Keys, KeySet
<1>2. /\ Keys[1] = "skip-outbound-ports" /\ Keys[2] = "skip-inbound-ports"
      /\ Keys[3] = "skip-subnets" /\ Keys[4] = "proxy-uid" /\ Keys[5] = "proxy-gid"
  BY DEF Keys
<1>3. DOMAIN Keys = 1..5
  BY <1>1, LenProperties
<1> QED BY <1>1, <1>2, <1>3 DEF ToSet, KeySet

\* Sequences of ports put together are a sequence of ports.
LEMMA Flattened ==
  ASSUME NEW S, NEW ss \in Seq(Seq(S))
  PROVE  FlattenSeq(ss) \in Seq(S)
<1> DEFINE n == Len(ss)
           flat(g, m) == g = [i \in 1..m |-> IF i = 1 THEN ss[i] ELSE g[i - 1] \o ss[i]]
           T == {m \in Nat : \E g : flat(g, m)}
<1>1. n \in Nat /\ \A i \in 1..n : ss[i] \in Seq(S)
  BY LenProperties, ElementOfSeq
<1>2. 0 \in T
  <2>1. flat([i \in 1..0 |-> ss], 0)
    OBVIOUS
  <2> QED BY <2>1
<1>3. ASSUME NEW m \in T PROVE m + 1 \in T
  <2>1. PICK g : flat(g, m)
    BY <1>3
  <2> DEFINE h == [i \in 1..(m + 1) |-> IF i <= m THEN g[i]
                                       ELSE IF i = 1 THEN ss[i] ELSE g[i - 1] \o ss[i]]
  <2>2. \A i \in 1..(m + 1) : h[i] = IF i = 1 THEN ss[i] ELSE h[i - 1] \o ss[i]
    <3> SUFFICES ASSUME NEW i \in 1..(m + 1)
                 PROVE  h[i] = IF i = 1 THEN ss[i] ELSE h[i - 1] \o ss[i]
      OBVIOUS
    <3>1. \A j \in 1..m : g[j] = IF j = 1 THEN ss[j] ELSE g[j - 1] \o ss[j]
      BY <2>1
    <3>2. i # 1 => i - 1 \in 1..(m + 1) /\ i - 1 <= m /\ h[i - 1] = g[i - 1]
      OBVIOUS
    <3> HIDE DEF flat
    <3>3. h[i] = IF i <= m THEN g[i] ELSE IF i = 1 THEN ss[i] ELSE g[i - 1] \o ss[i]
      OBVIOUS
    <3>4. i <= m => i \in 1..m
      OBVIOUS
    <3> HIDE DEF h
    <3> QED BY <3>1, <3>2, <3>3, <3>4
  <2>3. flat(h, m + 1)
    BY <2>2
  <2> HIDE DEF flat, h
  <2> QED BY <2>3
<1>4. T = Nat
  <2> HIDE DEF T
  <2> QED BY <1>2, <1>3, SetInduction DEF T
<1> DEFINE g == CHOOSE f : flat(f, n)
<1>5. FlattenSeq(ss) = IF n = 0 THEN ss ELSE g[n]
  BY DEF FlattenSeq
<1>6. flat(g, n)
  <2>1. \E f : flat(f, n)
    BY <1>1, <1>4
  <2> HIDE DEF flat
  <2> QED BY <2>1, Zenon
<1> HIDE DEF g
<1>7. \A i \in 1..n : g[i] = IF i = 1 THEN ss[i] ELSE g[i - 1] \o ss[i]
  BY <1>6
<1> HIDE DEF T, flat
<1> DEFINE U == {m \in Nat : m \in 1..n => g[m] \in Seq(S)}
<1>8. 0 \in U
  OBVIOUS
<1>9. ASSUME NEW m \in U PROVE m + 1 \in U
  <2> SUFFICES ASSUME m + 1 \in 1..n PROVE g[m + 1] \in Seq(S)
    OBVIOUS
  <2>1. ss[m + 1] \in Seq(S)
    BY <1>1
  <2>2. CASE m = 0
    BY <1>7, <2>1, <2>2
  <2>3. CASE m # 0
    <3>1. g[m] \in Seq(S) /\ g[m + 1] = g[m] \o ss[m + 1]
      <4>1. m \in 1..n /\ m + 1 # 1 /\ (m + 1) - 1 = m
        BY <1>1, <2>3
      <4> QED BY <1>7, <4>1
    <3> QED BY <2>1, <3>1, ConcatProperties
  <2> QED BY <2>2, <2>3
<1>10. U = Nat
  <2> HIDE DEF U
  <2> QED BY <1>8, <1>9, SetInduction DEF U
<1>11. CASE n = 0
  <2>1. ss = <<>>
    BY <1>11, EmptySeq
  <2> QED BY <1>5, <1>11, <2>1, EmptySeq
<1>12. CASE n # 0
  <2>1. n \in U /\ n \in 1..n
    BY <1>1, <1>10, <1>12
  <2> QED BY <1>5, <1>12, <2>1
<1> QED BY <1>11, <1>12

\* The API server's ports are ports, or ranges of them.
LEMMA ApiPortsTyped == ApiPorts \in Seq(PortRange) /\ DefaultPorts \in Seq(PortRange)
<1> DEFINE own(i)    == <<ApiService[i].port>>
           target(i) == When(ApiService[i].numeric, <<ApiService[i].target>>)
           ss == [i \in DOMAIN ApiService |-> own(i) \o target(i)]
<1>1. /\ ApiService \in Seq([port : PortRange, numeric : BOOLEAN, target : PortRange])
      /\ DOMAIN ApiService = 1..Len(ApiService) /\ Len(ApiService) \in Nat
  BY PluginAssumption, LenProperties
<1>2. ASSUME NEW i \in DOMAIN ApiService PROVE own(i) \o target(i) \in Seq(PortRange)
  <2>1. ApiService[i] \in [port : PortRange, numeric : BOOLEAN, target : PortRange]
    BY <1>1, ElementOfSeq
  <2>2. own(i) \in Seq(PortRange)
    BY <2>1
  <2>3. target(i) \in Seq(PortRange)
    BY <2>1 DEF When
  <2> QED BY <2>2, <2>3, ConcatProperties
<1>3. ss \in Seq(Seq(PortRange))
  BY <1>1, <1>2
<1>4. ApiPorts = FlattenSeq(ss)
  BY DEF ApiPorts, getAPIServerPorts
<1> HIDE DEF ss
<1> QED BY <1>3, <1>4, Flattened, PluginAssumption

\* What cmdAdd finds of an annotation: nothing, and then the pod asks for what is
\* configured, or one text of the right elements, which is what the pod asks for.
LEMMA FoundIsWanted ==
  ASSUME NEW q \in Pods, NEW a \in Namespaces, NEW at, NEW key \in ToSet(Keys), at[key] = a,
         NEW default
  PROVE  LET found == getAnnotationOverride(q, a, key)
         IN /\ found = {} => Wanted(q, at, key, default) = default
            /\ \A value \in found : /\ value \in Value(key)
                                    /\ Wanted(q, at, key, default) = value
<1>1. Annotations(q.annotations) /\ Annotations(a)
  BY PluginAssumption
<1>2. CASE key \in DOMAIN q.annotations
  BY <1>1, <1>2 DEF Annotations, getAnnotationOverride, Wanted
<1>3. CASE key \notin DOMAIN q.annotations
  <2>1. getAnnotationOverride(q, a, key) = {a[x] : x \in {key} \cap DOMAIN a}
    BY <1>3 DEF getAnnotationOverride
  <2>2. Wanted(q, at, key, default) = IF key \in DOMAIN a THEN a[key] ELSE default
    BY <1>3 DEF Wanted
  <2> QED BY <1>1, <2>1, <2>2 DEF Annotations
<1> QED BY <1>2, <1>3

\* Only the entry of an annotation matters for what is wanted of it.
LEMMA WantedThere ==
  ASSUME NEW q, NEW at, NEW bt, NEW key, at[key] = bt[key], NEW default
  PROVE  Wanted(q, at, key, default) = Wanted(q, bt, key, default)
BY DEF Wanted

-----------------------------------------------------------------------------
(* Options, annotation by annotation. *)

\* What no annotation changes.
Kept(o, c) == /\ o.incoming = c.incoming /\ o.outgoing = c.outgoing /\ o.ipv6 = c.ipv6
              /\ o.simulate = c.simulate /\ o.mode = c.mode /\ o.binPath = c.binPath
              /\ o.redirect = c.redirect

\* Overriding, field by field.
LEMMA OverridingFields ==
  ASSUME NEW o \in Option, NEW c \in Option, NEW q, NEW at, NEW k \in 0..5
  PROVE  Overriding(o, c, q, at, k) <=>
           /\ k >= 4 => Wanted(q, at, Keys[4], <<0>>) # <<>>
           /\ k >= 5 => Wanted(q, at, Keys[5], <<0>>) # <<>>
           /\ Kept(o, c)
           /\ o.outboundIgnore = IF k >= 1 THEN Wanted(q, at, Keys[1], c.outboundIgnore)
                                 ELSE c.outboundIgnore
           /\ o.inboundIgnore = IF k >= 2
                                THEN c.inboundIgnore \o Wanted(q, at, Keys[2], <<>>)
                                ELSE c.inboundIgnore
           /\ o.subnets = IF k >= 3 THEN Wanted(q, at, Keys[3], c.subnets) ELSE c.subnets
           /\ o.uid = IF k >= 4 THEN Head(Wanted(q, at, Keys[4], <<c.uid>>)) ELSE c.uid
           /\ o.gid = IF k >= 5 THEN Head(Wanted(q, at, Keys[5], <<c.gid>>)) ELSE c.gid
<1> DEFINE out == IF k >= 1 THEN Wanted(q, at, Keys[1], c.outboundIgnore)
                  ELSE c.outboundIgnore
           in == IF k >= 2 THEN c.inboundIgnore \o Wanted(q, at, Keys[2], <<>>)
                 ELSE c.inboundIgnore
           nets == IF k >= 3 THEN Wanted(q, at, Keys[3], c.subnets) ELSE c.subnets
           u == IF k >= 4 THEN Head(Wanted(q, at, Keys[4], <<c.uid>>)) ELSE c.uid
           g == IF k >= 5 THEN Head(Wanted(q, at, Keys[5], <<c.gid>>)) ELSE c.gid
<1>1. Overriding(o, c, q, at, k) <=>
        /\ k >= 4 => Wanted(q, at, Keys[4], <<0>>) # <<>>
        /\ k >= 5 => Wanted(q, at, Keys[5], <<0>>) # <<>>
        /\ o = [c EXCEPT !.outboundIgnore = out, !.inboundIgnore = in, !.subnets = nets,
                         !.uid = u, !.gid = g]
  BY Zenon DEF Overriding
<1> HIDE DEF out, in, nets, u, g
<1>2. o = [c EXCEPT !.outboundIgnore = out, !.inboundIgnore = in, !.subnets = nets,
                    !.uid = u, !.gid = g]
        <=> /\ Kept(o, c) /\ o.outboundIgnore = out /\ o.inboundIgnore = in
            /\ o.subnets = nets /\ o.uid = u /\ o.gid = g
  BY DEF Option, Kept
<1> QED BY <1>1, <1>2, Zenon DEF out, in, nets, u, g

\* An annotation's text gives options, if it parses.
LEMMA OverrideTyped ==
  ASSUME NEW o \in Option, NEW key \in KeySet, NEW value \in Value(key), Parses(key, value)
  PROVE  WithOverride(o, key, value) \in Option
<1>1. CASE key \in {"proxy-uid", "proxy-gid"}
  <2>1. value \in Seq(Int) /\ value # <<>>
    BY <1>1 DEF Value, Parses
  <2>2. Head(value) \in Int
    BY <2>1, HeadTailProperties
  <2> QED BY <1>1, <2>2 DEF WithOverride, Option
<1>2. CASE key = "skip-subnets"
  BY <1>2 DEF WithOverride, Option, Value
<1>3. CASE key \in {"skip-outbound-ports", "skip-inbound-ports"}
  <2>1. value \in Seq(PortRange)
    BY <1>3 DEF Value
  <2>2. o.inboundIgnore \o value \in Seq(PortRange)
    BY <2>1, ConcatProperties DEF Option
  <2> QED BY <1>3, <2>1, <2>2 DEF WithOverride, Option
<1> QED BY <1>1, <1>2, <1>3 DEF KeySet

\* One more annotation, if there is none: what is configured stays.
LEMMA NoneFound ==
  ASSUME NEW o \in Option, NEW c \in Option, NEW q, NEW at, NEW bt, NEW k \in 0..4,
         \A j \in 1..5 : j # k + 1 => at[Keys[j]] = bt[Keys[j]],
         Overriding(o, c, q, at, k),
         \A default : Wanted(q, bt, Keys[k + 1], default) = default
  PROVE  Overriding(o, c, q, bt, k + 1)
<1> DEFINE W(j, default) == Wanted(q, at, Keys[j], default)
           V(j, default) == Wanted(q, bt, Keys[j], default)
           none == <<>>
           root == <<0>>
<1>1. \A j \in 1..5 : \A default : j # k + 1 => V(j, default) = W(j, default)
  BY WantedThere
<1>2. \A default : V(k + 1, default) = default
  OBVIOUS
<1>3. /\ k >= 4 => W(4, root) # <<>>
      /\ k >= 5 => W(5, root) # <<>>
      /\ Kept(o, c)
      /\ o.outboundIgnore = IF k >= 1 THEN W(1, c.outboundIgnore) ELSE c.outboundIgnore
      /\ o.inboundIgnore = IF k >= 2 THEN c.inboundIgnore \o W(2, none)
                           ELSE c.inboundIgnore
      /\ o.subnets = IF k >= 3 THEN W(3, c.subnets) ELSE c.subnets
      /\ o.uid = IF k >= 4 THEN Head(W(4, <<c.uid>>)) ELSE c.uid
      /\ o.gid = IF k >= 5 THEN Head(W(5, <<c.gid>>)) ELSE c.gid
  <2>1. k \in 0..5
    OBVIOUS
  <2> QED BY <2>1, OverridingFields, Zenon
<1>4. c.inboundIgnore \o none = c.inboundIgnore /\ root # <<>>
  BY ConcatEmptySeq DEF Option
<1>5. Head(<<c.uid>>) = c.uid /\ Head(<<c.gid>>) = c.gid
  OBVIOUS
<1> HIDE DEF W, V, none, root
<1>6. /\ k + 1 >= 4 => V(4, root) # <<>>
      /\ k + 1 >= 5 => V(5, root) # <<>>
  BY <1>1, <1>2, <1>3, <1>4
<1>7. o.outboundIgnore = IF k + 1 >= 1 THEN V(1, c.outboundIgnore) ELSE c.outboundIgnore
  BY <1>1, <1>2, <1>3
<1>8. o.inboundIgnore = IF k + 1 >= 2 THEN c.inboundIgnore \o V(2, none)
                        ELSE c.inboundIgnore
  <2>1. V(2, none) = IF k = 1 THEN none ELSE W(2, none)
    BY <1>1, <1>2
  <2>2. CASE k = 1
    <3>1. k + 1 >= 2 /\ ~(k >= 2)
      BY <2>2
    <3> QED BY <1>3, <1>4, <2>1, <2>2, <3>1, Zenon
  <2>3. CASE k # 1
    <3>1. k + 1 >= 2 <=> k >= 2
      BY <2>3
    <3> QED BY <1>3, <2>1, <2>3, <3>1, Zenon
  <2> QED BY <2>2, <2>3
<1>9. o.subnets = IF k + 1 >= 3 THEN V(3, c.subnets) ELSE c.subnets
  BY <1>1, <1>2, <1>3
<1>10. o.uid = IF k + 1 >= 4 THEN Head(V(4, <<c.uid>>)) ELSE c.uid
  BY <1>1, <1>2, <1>3, <1>5
<1>11. o.gid = IF k + 1 >= 5 THEN Head(V(5, <<c.gid>>)) ELSE c.gid
  BY <1>1, <1>2, <1>3, <1>5
<1>12. k + 1 \in 0..5
  OBVIOUS
<1> QED BY <1>3, <1>6, <1>7, <1>8, <1>9, <1>10, <1>11, <1>12, OverridingFields, Zenon
     DEF V, none, root

\* One more annotation, with its text.
LEMMA OneFound ==
  ASSUME NEW o \in Option, NEW c \in Option, NEW q, NEW at, NEW bt, NEW k \in 0..4,
         \A j \in 1..5 : j # k + 1 => at[Keys[j]] = bt[Keys[j]],
         Overriding(o, c, q, at, k),
         NEW value \in Value(Keys[k + 1]), Parses(Keys[k + 1], value),
         \A default : Wanted(q, bt, Keys[k + 1], default) = value
  PROVE  /\ WithOverride(o, Keys[k + 1], value) \in Option
         /\ Overriding(WithOverride(o, Keys[k + 1], value), c, q, bt, k + 1)
<1> DEFINE W(j, default) == Wanted(q, at, Keys[j], default)
           V(j, default) == Wanted(q, bt, Keys[j], default)
           none == <<>>
           root == <<0>>
           r == WithOverride(o, Keys[k + 1], value)
<1>1. \A j \in 1..5 : \A default : j # k + 1 => V(j, default) = W(j, default)
  BY WantedThere
<1>2. \A default : V(k + 1, default) = value
  OBVIOUS
<1>3. /\ k >= 4 => W(4, root) # <<>>
      /\ k >= 5 => W(5, root) # <<>>
      /\ Kept(o, c)
      /\ o.outboundIgnore = IF k >= 1 THEN W(1, c.outboundIgnore) ELSE c.outboundIgnore
      /\ o.inboundIgnore = IF k >= 2 THEN c.inboundIgnore \o W(2, none)
                           ELSE c.inboundIgnore
      /\ o.subnets = IF k >= 3 THEN W(3, c.subnets) ELSE c.subnets
      /\ o.uid = IF k >= 4 THEN Head(W(4, <<c.uid>>)) ELSE c.uid
      /\ o.gid = IF k >= 5 THEN Head(W(5, <<c.gid>>)) ELSE c.gid
  <2>1. k \in 0..5
    OBVIOUS
  <2> QED BY <2>1, OverridingFields, Zenon
<1>4. /\ r.outboundIgnore = IF k = 0 THEN value ELSE o.outboundIgnore
      /\ r.inboundIgnore = IF k = 1 THEN o.inboundIgnore \o value ELSE o.inboundIgnore
      /\ r.subnets = IF k = 2 THEN value ELSE o.subnets
      /\ r.uid = IF k = 3 THEN Head(value) ELSE o.uid
      /\ r.gid = IF k = 4 THEN Head(value) ELSE o.gid
      /\ Kept(r, o)
  <2>1. k = 0 \/ k = 1 \/ k = 2 \/ k = 3 \/ k = 4
    OBVIOUS
  <2>2. CASE k = 0
    <3>1. r = [o EXCEPT !.outboundIgnore = value]
      BY <2>2, KeysByPlace DEF WithOverride
    <3> HIDE DEF r
    <3> QED BY <2>2, <3>1 DEF Option, Kept
  <2>3. CASE k = 1
    <3> DEFINE in == o.inboundIgnore \o value
    <3>1. r = [o EXCEPT !.inboundIgnore = in]
      BY <2>3, KeysByPlace DEF WithOverride
    <3> HIDE DEF r, in
    <3>2. /\ r.inboundIgnore = in /\ r.outboundIgnore = o.outboundIgnore
          /\ r.subnets = o.subnets /\ r.uid = o.uid /\ r.gid = o.gid /\ Kept(r, o)
      BY <3>1 DEF Option, Kept
    <3> QED BY <2>3, <3>2 DEF in
  <2>4. CASE k = 2
    <3>1. r = [o EXCEPT !.subnets = value]
      BY <2>4, KeysByPlace DEF WithOverride
    <3> HIDE DEF r
    <3> QED BY <2>4, <3>1 DEF Option, Kept
  <2>5. CASE k = 3
    BY <2>5, KeysByPlace DEF WithOverride, Option, Kept
  <2>6. CASE k = 4
    BY <2>6, KeysByPlace DEF WithOverride, Option, Kept
  <2> QED BY <2>1, <2>2, <2>3, <2>4, <2>5, <2>6
<1>5. Keys[k + 1] \in KeySet
  BY KeysByPlace
<1>6. r \in Option
  BY <1>5, OverrideTyped
<1>7. k \in {3, 4} => value # <<>>
  <2>1. k \in {3, 4} => Keys[k + 1] \in {"proxy-uid", "proxy-gid"}
    BY KeysByPlace
  <2> QED BY <2>1 DEF Parses
<1> HIDE DEF W, V, r, none, root
<1>8. /\ k + 1 >= 4 => V(4, root) # <<>>
      /\ k + 1 >= 5 => V(5, root) # <<>>
  BY <1>1, <1>2, <1>3, <1>7
<1>9. r.outboundIgnore = IF k + 1 >= 1 THEN V(1, c.outboundIgnore) ELSE c.outboundIgnore
  BY <1>1, <1>2, <1>3, <1>4
<1>10. r.inboundIgnore = IF k + 1 >= 2 THEN c.inboundIgnore \o V(2, none)
                         ELSE c.inboundIgnore
  BY <1>1, <1>2, <1>3, <1>4
<1>11. r.subnets = IF k + 1 >= 3 THEN V(3, c.subnets) ELSE c.subnets
  BY <1>1, <1>2, <1>3, <1>4
<1>12. r.uid = IF k + 1 >= 4 THEN Head(V(4, <<c.uid>>)) ELSE c.uid
  BY <1>1, <1>2, <1>3, <1>4
<1>13. r.gid = IF k + 1 >= 5 THEN Head(V(5, <<c.gid>>)) ELSE c.gid
  BY <1>1, <1>2, <1>3, <1>4
<1>14. k + 1 \in 0..5 /\ Kept(r, c)
  BY <1>3, <1>4 DEF Kept
<1>15. Overriding(r, c, q, bt, k + 1)
  BY <1>6, <1>8, <1>9, <1>10, <1>11, <1>12, <1>13, <1>14, OverridingFields, Zenon
     DEF V, none, root
<1> QED BY <1>6, <1>15 DEF r

\* Once all annotations are read, the options are what the pod asks for, but for the
\* API server's ports, if it is of the control plane.
LEMMA AllRead ==
  ASSUME NEW o \in Option, NEW c \in Option, NEW q, q.controlPlane \in BOOLEAN, NEW at,
         Overriding(o, c, q, at, 5), NEW ports \in Seq(PortRange), NEW r \in Option,
         Kept(r, o), r.inboundIgnore = o.inboundIgnore, r.subnets = o.subnets,
         r.uid = o.uid, r.gid = o.gid,
         r.outboundIgnore = IF q.controlPlane THEN o.outboundIgnore \o ports
                            ELSE o.outboundIgnore
  PROVE  NumericIds(q, at) /\ r = Intended(c, q, at, ports)
<1> DEFINE W(key, default) == Wanted(q, at, key, default)
           none == <<>>
           root == <<0>>
           out  == W("skip-outbound-ports", c.outboundIgnore)
           more == out \o When(q.controlPlane, ports)
<1>1. /\ W("proxy-uid", root) # <<>> /\ W("proxy-gid", root) # <<>>
      /\ Kept(o, c) /\ o.outboundIgnore = out
      /\ o.inboundIgnore = c.inboundIgnore \o W("skip-inbound-ports", none)
      /\ o.subnets = W("skip-subnets", c.subnets)
      /\ o.uid = Head(W("proxy-uid", <<c.uid>>))
      /\ o.gid = Head(W("proxy-gid", <<c.gid>>))
  <2> DEFINE k == 5
  <2>1. k >= 1 /\ k >= 2 /\ k >= 3 /\ k >= 4 /\ k >= 5
    OBVIOUS
  <2>4. k \in 0..5
    OBVIOUS
  <2>2. Overriding(o, c, q, at, k)
    OBVIOUS
  <2> HIDE DEF k
  <2>3. /\ k >= 4 => W(Keys[4], root) # <<>>
        /\ k >= 5 => W(Keys[5], root) # <<>>
        /\ Kept(o, c)
        /\ o.outboundIgnore = IF k >= 1 THEN W(Keys[1], c.outboundIgnore)
                              ELSE c.outboundIgnore
        /\ o.inboundIgnore = IF k >= 2 THEN c.inboundIgnore \o W(Keys[2], none)
                             ELSE c.inboundIgnore
        /\ o.subnets = IF k >= 3 THEN W(Keys[3], c.subnets) ELSE c.subnets
        /\ o.uid = IF k >= 4 THEN Head(W(Keys[4], <<c.uid>>)) ELSE c.uid
        /\ o.gid = IF k >= 5 THEN Head(W(Keys[5], <<c.gid>>)) ELSE c.gid
    BY <2>2, <2>4, OverridingFields, Zenon
  <2> HIDE DEF W, none, root
  <2> QED BY <2>1, <2>3, KeysByPlace DEF out
<1>2. NumericIds(q, at)
  BY <1>1 DEF NumericIds
<1>3. out \in Seq(PortRange) /\ out \o none = out
  BY <1>1, ConcatEmptySeq DEF Option
<1>4. more = IF q.controlPlane THEN out \o ports ELSE out
  BY <1>3 DEF When
<1>5. r.outboundIgnore = more
  BY <1>1, <1>4
<1>6. Kept(r, c)
  BY <1>1 DEF Kept
<1>7. r = Intended(c, q, at, ports)
  <2> DEFINE in == c.inboundIgnore \o W("skip-inbound-ports", none)
             nets == W("skip-subnets", c.subnets)
             u == Head(W("proxy-uid", <<c.uid>>))
             g == Head(W("proxy-gid", <<c.gid>>))
  <2>1. Intended(c, q, at, ports) =
          [c EXCEPT !.outboundIgnore = more, !.inboundIgnore = in, !.subnets = nets,
                    !.uid = u, !.gid = g]
    BY Zenon DEF Intended
  <2>2. /\ r \in Option /\ r.outboundIgnore = more /\ r.inboundIgnore = in
        /\ r.subnets = nets /\ r.uid = u /\ r.gid = g
    BY <1>1, <1>5
  <2> HIDE DEF more, in, nets, u, g
  <2>3. r = [c EXCEPT !.outboundIgnore = more, !.inboundIgnore = in, !.subnets = nets,
                      !.uid = u, !.gid = g]
    BY <1>6, <2>2 DEF Option, Kept
  <2> QED BY <2>1, <2>3
<1> QED BY <1>2, <1>7

\* What is left to read: nothing, or an annotation and what comes after it.
LEMMA LeftToRead ==
  ASSUME NEW k \in 0..Len(Keys)
  PROVE  LET left == SubSeq(Keys, k + 1, Len(Keys))
         IN /\ k \in 0..5 /\ (left = <<>> <=> k = 5)
            /\ k = 0 => left = Keys
            /\ left # <<>> => /\ k \in 0..4 /\ Head(left) = Keys[k + 1]
                             /\ Tail(left) = SubSeq(Keys, (k + 1) + 1, Len(Keys))
<1>1. Keys \in Seq(KeySet) /\ Len(Keys) = 5
  BY KeysByPlace
<1>2. SubSeq(Keys, 5 + 1, 5) = <<>> /\ SubSeq(Keys, 0 + 1, 5) = Keys
  BY <1>1, SubSeqEmpty, SubSeqFull
<1>3. ASSUME k < 5
      PROVE  LET left == SubSeq(Keys, k + 1, 5)
             IN /\ left # <<>> /\ Head(left) = Keys[k + 1]
                /\ Tail(left) = SubSeq(Keys, k + 2, 5)
  <2>1. k \in Nat /\ k < Len(Keys)
    BY <1>1, <1>3
  <2> QED BY <1>1, <2>1, Remaining
<1>4. k \in 0..5 /\ (k = 5 \/ k < 5) /\ (k + 1) + 1 = k + 2
  BY <1>1
<1> QED BY <1>1, <1>2, <1>3, <1>4

-----------------------------------------------------------------------------
(* The steps of an ADD. *)

\* Steps that leave tables and commands alone.
LEMMA QuietInv ==
  ASSUME FirewallInv, UNCHANGED <<table, goal, family, runs, used>>, goal = "configure",
         options' \in Option, failures' \in Nat,
         \/ pc' \in {"get", "override", "skipped", "failed", "refused"}
         \/ pc' = "build" /\ family = 4
  PROVE  FirewallInv'
<1>1. TypeOK' /\ TablesInv'
  BY TablesKept DEF FirewallInv, TypeOK
<1>2. RunInv'
  BY DEF RunInv
<1> QED BY <1>1, <1>2 DEF FirewallInv

\* What FirewallInv and SeenInv say of the types of what a step reads.
LEMMA PluginTypes ==
  ASSUME FirewallInv, SeenInv
  PROVE  /\ options \in Option /\ conf \in Option /\ goal = "configure"
         /\ family \in Families /\ failures \in Nat /\ runs \in Nat
         /\ got \in Pods /\ pod \in Pods /\ ns \in Namespaces /\ ns \in seenNs
         /\ \A q \in Pods : q.controlPlane \in BOOLEAN
BY FirewallAssumption, PluginAssumption DEF FirewallInv, TypeOK, SeenInv

LEMMA PluginInitInv == PluginInit => PluginInv
<1> SUFFICES ASSUME PluginInit PROVE PluginInv
  OBVIOUS
<1>1. /\ table = [f \in Families |-> EmptyTable] /\ used = [f \in Families |-> {}]
      /\ options \in Option /\ goal = "configure" /\ pc = "get" /\ family = 4
      /\ failures = 0 /\ runs = 0 /\ family \in Families
  BY FirewallAssumption DEF PluginInit, Families
<1>2. TypeOK
  <2>1. \A f \in Families : TableOK(table[f])
    BY <1>1, EmptyTableOK
  <2>2. used \in [Families -> SUBSET {o \in Option : ~BuildError(o)}]
    BY <1>1
  <2> QED BY <1>1, <2>1, <2>2 DEF TypeOK, TableOK
<1>3. TablesInv
  BY <1>1 DEF TablesInv, EmptyTable
<1>4. RunInv
  BY <1>1 DEF RunInv
<1>5. SeenInv /\ MeshInv /\ OverrideInv /\ OptionsInv
  BY <1>1 DEF PluginInit, SeenInv, MeshInv, OverrideInv, OptionsInv
<1> QED BY <1>2, <1>3, <1>4, <1>5 DEF PluginInv, FirewallInv

LEMMA GetPodInv == PluginInv /\ GetPod => PluginInv'
<1> SUFFICES ASSUME PluginInv, GetPod PROVE PluginInv'
  OBVIOUS
<1>1. /\ UNCHANGED <<table, goal, family, failures, runs, used>> /\ pc = "get"
      /\ options' = conf /\ conf' = conf /\ pod' = pod /\ ns' = ns /\ seenNs' = seenNs
      /\ named' = named
      /\ \/ /\ named /\ Meshed(pod) /\ pc' = "override" /\ unread' = Keys /\ got' = pod
         \/ pc' = "skipped" /\ got' = got
  BY DEF GetPod
<1>2. /\ conf \in Option /\ failures \in Nat /\ goal = "configure" /\ ns \in seenNs
      /\ got \in Pods /\ pod \in Pods
  BY PluginTypes DEF PluginInv
<1>3. FirewallInv'
  BY <1>1, <1>2, QuietInv DEF PluginInv
<1>4. SeenInv'
  BY <1>1 DEF PluginInv, SeenInv
<1>5. MeshInv'
  BY <1>1 DEF PluginInv, MeshInv
<1>6. OverrideInv'
  <2> SUFFICES ASSUME pc' = "override" PROVE OverrideInv'
    BY DEF OverrideInv
  <2> DEFINE at == [key \in ToSet(Keys) |-> ns]
             none == 0
  <2>1. at \in [ToSet(Keys) -> seenNs']
    BY <1>1, <1>2
  <2>2. none \in 0..Len(Keys) /\ none \in 0..5
        /\ ~(none >= 1) /\ ~(none >= 2) /\ ~(none >= 3) /\ ~(none >= 4) /\ ~(none >= 5)
    BY KeysByPlace
  <2>3. unread' = SubSeq(Keys, none + 1, Len(Keys))
    BY <1>1, <2>2, LeftToRead
  <2>4. Kept(conf, conf)
    BY DEF Kept
  <2> HIDE DEF none, at
  <2>5. Overriding(conf, conf, pod, at, none)
    BY <1>2, <2>2, <2>4, OverridingFields
  <2>6. Overriding(options', conf', got', at, none)
    BY <1>1, <2>5
  <2> QED BY <2>1, <2>2, <2>3, <2>6 DEF OverrideInv
<1>7. OptionsInv'
  BY <1>1 DEF PluginInv, MeshInv, OptionsInv
<1> QED BY <1>3, <1>4, <1>5, <1>6, <1>7 DEF PluginInv

LEMMA ReadOverrideInv == PluginInv /\ ReadOverride => PluginInv'
<1> SUFFICES ASSUME PluginInv, ReadOverride PROVE PluginInv'
  OBVIOUS
<1> DEFINE key == Head(unread)
           found == getAnnotationOverride(got, ns, key)
<1>1. /\ UNCHANGED <<table, goal, family, failures, runs, used>> /\ pc = "override"
      /\ unread # <<>> /\ unread' = Tail(unread)
      /\ conf' = conf /\ pod' = pod /\ ns' = ns /\ seenNs' = seenNs
      /\ named' = named /\ got' = got
      /\ \/ found = {} /\ options' = options /\ pc' = pc
         \/ \E value \in found :
              IF Parses(key, value)
              THEN options' = WithOverride(options, key, value) /\ pc' = pc
              ELSE pc' = "failed" /\ options' = options
  BY DEF ReadOverride
<1>2. /\ conf \in Option /\ options \in Option /\ failures \in Nat /\ goal = "configure"
      /\ ns \in seenNs /\ got \in Pods /\ ns \in Namespaces
  BY PluginTypes DEF PluginInv
<1>3. PICK k \in 0..Len(Keys) :
        /\ unread = SubSeq(Keys, k + 1, Len(Keys))
        /\ \E at \in [ToSet(Keys) -> seenNs] : Overriding(options, conf, got, at, k)
  BY <1>1 DEF PluginInv, OverrideInv
<1>4. PICK at \in [ToSet(Keys) -> seenNs] : Overriding(options, conf, got, at, k)
  BY <1>3
<1>5. /\ k \in 0..4 /\ key = Keys[k + 1]
      /\ unread' = SubSeq(Keys, (k + 1) + 1, Len(Keys)) /\ k + 1 \in 0..Len(Keys)
  BY <1>1, <1>3, LeftToRead, KeysByPlace
<1> DEFINE bt == [at EXCEPT ![key] = ns]
<1>6. key \in ToSet(Keys) /\ key \in KeySet
  BY <1>5, KeysByPlace
<1>7. bt \in [ToSet(Keys) -> seenNs'] /\ bt[key] = ns
      /\ \A j \in 1..5 : j # k + 1 => at[Keys[j]] = bt[Keys[j]]
  <2>1. \A j \in 1..5 : j # k + 1 => Keys[j] # key
    BY <1>5, KeysByPlace
  <2>2. \A j \in 1..5 : Keys[j] \in ToSet(Keys)
    BY KeysByPlace
  <2> QED BY <1>1, <1>2, <1>6, <2>1, <2>2
<1> HIDE DEF bt, key, found
<1>8. /\ found = {} => \A default : Wanted(got, bt, Keys[k + 1], default) = default
      /\ \A value \in found : /\ value \in Value(Keys[k + 1])
                              /\ \A default : Wanted(got, bt, Keys[k + 1], default) = value
  BY <1>2, <1>5, <1>6, <1>7, FoundIsWanted DEF found
<1>9. /\ options' \in Option /\ pc' \in {"override", "failed"}
      /\ pc' = "override" => Overriding(options', conf, got, bt, k + 1)
  <2>1. CASE found = {} /\ options' = options /\ pc' = pc
    BY <1>1, <1>2, <1>4, <1>5, <1>7, <1>8, <2>1, NoneFound
  <2>2. CASE \E value \in found :
               IF Parses(key, value)
               THEN options' = WithOverride(options, key, value) /\ pc' = pc
               ELSE pc' = "failed" /\ options' = options
    <3>1. PICK value \in found :
            IF Parses(key, value)
            THEN options' = WithOverride(options, key, value) /\ pc' = pc
            ELSE pc' = "failed" /\ options' = options
      BY <2>2
    <3>2. CASE Parses(key, value)
      <4>1. /\ WithOverride(options, Keys[k + 1], value) \in Option
            /\ Overriding(WithOverride(options, Keys[k + 1], value), conf, got, bt, k + 1)
        BY <1>2, <1>4, <1>5, <1>7, <1>8, <3>2, OneFound
      <4> QED BY <1>1, <1>5, <3>1, <3>2, <4>1
    <3>3. CASE ~Parses(key, value)
      BY <1>2, <3>1, <3>3
    <3> QED BY <3>2, <3>3
  <2> QED BY <1>1, <2>1, <2>2 DEF found, key
<1>10. FirewallInv'
  BY <1>1, <1>2, <1>9, QuietInv DEF PluginInv
<1>11. SeenInv' /\ MeshInv'
  BY <1>1, <1>9 DEF PluginInv, SeenInv, MeshInv
<1>12. OverrideInv'
  BY <1>1, <1>5, <1>7, <1>9 DEF OverrideInv
<1>13. OptionsInv'
  BY <1>1, <1>9 DEF PluginInv, MeshInv, OptionsInv
<1> QED BY <1>10, <1>11, <1>12, <1>13 DEF PluginInv

\* The options are complete, with the API server's ports for the control plane.
LEMMA OptionsComplete == PluginInv /\ (SkipApiPorts \/ Overridden) => PluginInv'
<1> SUFFICES ASSUME PluginInv, SkipApiPorts \/ Overridden PROVE PluginInv'
  OBVIOUS
<1>1. /\ UNCHANGED <<table, goal, family, runs, used, pluginOnly>> /\ pc = "override"
      /\ unread = <<>> /\ pc' = "build"
      /\ conf' = conf /\ pod' = pod /\ ns' = ns /\ seenNs' = seenNs
      /\ named' = named /\ got' = got
  BY DEF SkipApiPorts, Overridden, pluginOnly
<1>2. /\ conf \in Option /\ options \in Option /\ failures \in Nat /\ goal = "configure"
      /\ got \in Pods /\ got.controlPlane \in BOOLEAN
  BY PluginTypes DEF PluginInv
<1>3. failures' \in Nat
  BY <1>2 DEF SkipApiPorts, Overridden
<1>4. PICK ports \in {ApiPorts, DefaultPorts} :
        options' = IF got.controlPlane THEN [options EXCEPT !.outboundIgnore = @ \o ports]
                   ELSE options
  BY DEF SkipApiPorts, Overridden
<1>5. ports \in Seq(PortRange)
  BY ApiPortsTyped
<1>6. PICK at \in [ToSet(Keys) -> seenNs] : Overriding(options, conf, got, at, 5)
  <2>1. PICK k \in 0..Len(Keys) :
          /\ unread = SubSeq(Keys, k + 1, Len(Keys))
          /\ \E at \in [ToSet(Keys) -> seenNs] : Overriding(options, conf, got, at, k)
    BY <1>1 DEF PluginInv, OverrideInv
  <2>2. k = 5
    BY <1>1, <2>1, LeftToRead
  <2> QED BY <2>1, <2>2
<1>7. /\ options' \in Option /\ Kept(options', options)
      /\ options'.inboundIgnore = options.inboundIgnore
      /\ options'.subnets = options.subnets
      /\ options'.uid = options.uid /\ options'.gid = options.gid
      /\ options'.outboundIgnore = IF got.controlPlane THEN options.outboundIgnore \o ports
                                   ELSE options.outboundIgnore
  <2> DEFINE more == options.outboundIgnore \o ports
  <2>1. more \in Seq(PortRange)
    BY <1>2, <1>5, ConcatProperties DEF Option
  <2>2. options' = IF got.controlPlane THEN [options EXCEPT !.outboundIgnore = more]
                   ELSE options
    BY <1>4
  <2> HIDE DEF more
  <2>3. CASE got.controlPlane
    <3>1. /\ options' \in Option /\ Kept(options', options)
          /\ options'.inboundIgnore = options.inboundIgnore
          /\ options'.subnets = options.subnets
          /\ options'.uid = options.uid /\ options'.gid = options.gid
          /\ options'.outboundIgnore = more
      BY <1>2, <2>1, <2>2, <2>3 DEF Option, Kept
    <3> QED BY <2>3, <3>1 DEF more
  <2>4. CASE ~got.controlPlane
    BY <1>2, <2>2, <2>4 DEF Kept
  <2> QED BY <2>3, <2>4
<1>8. NumericIds(got, at) /\ options' = Intended(conf, got, at, ports)
  <2> DEFINE r == options'
             o == options
             c == conf
             q == got
  <2>1. /\ o \in Option /\ c \in Option /\ r \in Option /\ q.controlPlane \in BOOLEAN
        /\ Overriding(o, c, q, at, 5) /\ Kept(r, o)
        /\ r.inboundIgnore = o.inboundIgnore /\ r.subnets = o.subnets
        /\ r.uid = o.uid /\ r.gid = o.gid
        /\ r.outboundIgnore = IF q.controlPlane THEN o.outboundIgnore \o ports
                              ELSE o.outboundIgnore
    BY <1>2, <1>6, <1>7
  <2> HIDE DEF r, o, c, q
  <2>2. NumericIds(q, at) /\ r = Intended(c, q, at, ports)
    BY <1>5, <2>1, AllRead
  <2> QED BY <2>2 DEF r, c, q
<1>9. FirewallInv'
  <2>1. family = 4
    BY <1>1 DEF PluginInv, MeshInv
  <2> QED BY <1>1, <1>2, <1>3, <1>7, <2>1, QuietInv DEF PluginInv
<1>10. SeenInv' /\ MeshInv' /\ OverrideInv'
  BY <1>1 DEF PluginInv, SeenInv, MeshInv, OverrideInv
<1>11. OptionsInv'
  <2>1. \A f \in Families : used'[f] = {}
    BY <1>1 DEF PluginInv, MeshInv
  <2> QED BY <1>1, <1>8, <2>1 DEF OptionsInv
<1> QED BY <1>9, <1>10, <1>11 DEF PluginInv

\* The steps of Firewall: no rules but those of the options.
LEMMA ConfigureInv == PluginInv /\ (BuildAndConfigure \/ CommandInterrupted) => PluginInv'
<1> SUFFICES ASSUME PluginInv, BuildAndConfigure \/ CommandInterrupted PROVE PluginInv'
  OBVIOUS
<1>1. /\ UNCHANGED pluginOnly
      /\ Build \/ ShowAllRules \/ Execute \/ CommandFails \/ Finish \/ Fail
  BY DEF BuildAndConfigure, CommandInterrupted
<1>2. /\ conf' = conf /\ pod' = pod /\ ns' = ns /\ seenNs' = seenNs
      /\ named' = named /\ got' = got
  BY <1>1 DEF pluginOnly
<1>3. FirewallInv'
  BY <1>1, BuildInv, ShowInv, ExecuteInv, FailInv, FinishInv DEF PluginInv
<1>4. /\ goal = "configure" /\ family \in Families /\ DOMAIN used = Families
  BY PluginTypes DEF PluginInv, FirewallInv, TypeOK
<1>5. /\ options' = options /\ goal' = goal /\ pc \in {"build", "show", "execute"}
      /\ pc' \in {"refused", "failed", "build", "show", "execute", "done"}
      /\ used' = used \/ used' = [used EXCEPT ![family] = @ \cup {options}]
  BY <1>1, <1>4 DEF Build, ShowAllRules, Execute, CommandFails, Finish, Fail
<1>6. named /\ Meshed(got)
  BY <1>5 DEF PluginInv, MeshInv
<1>7. SeenInv' /\ MeshInv' /\ OverrideInv'
  BY <1>2, <1>5, <1>6 DEF PluginInv, SeenInv, MeshInv, OverrideInv
<1>8. OptionsInv'
  <2>1. \A f \in Families : used'[f] \subseteq {options}
    BY <1>4, <1>5 DEF PluginInv, OptionsInv
  <2>2. \E at \in [ToSet(Keys) -> seenNs], ports \in {ApiPorts, DefaultPorts} :
          NumericIds(got, at) /\ options = Intended(conf, got, at, ports)
    BY <1>5 DEF PluginInv, OptionsInv
  <2> QED BY <1>2, <1>5, <2>1, <2>2 DEF OptionsInv
<1> QED BY <1>3, <1>7, <1>8 DEF PluginInv

LEMMA RequestFailsInv == PluginInv /\ RequestFails => PluginInv'
<1> SUFFICES ASSUME PluginInv, RequestFails PROVE PluginInv'
  OBVIOUS
<1>1. /\ UNCHANGED <<table, goal, family, runs, used>> /\ pc \in {"get", "override"}
      /\ pc' = "failed" /\ options' = options /\ failures' = failures + 1
      /\ conf' = conf /\ pod' = pod /\ ns' = ns /\ seenNs' = seenNs
      /\ named' = named /\ got' = got
  BY DEF RequestFails, GetsPod, GetsNamespace
<1>2. options \in Option /\ failures \in Nat /\ goal = "configure"
  BY PluginTypes DEF PluginInv
<1>3. FirewallInv'
  BY <1>1, <1>2, QuietInv DEF PluginInv
<1>4. SeenInv' /\ MeshInv' /\ OverrideInv'
  BY <1>1 DEF PluginInv, SeenInv, MeshInv, OverrideInv
<1>5. OptionsInv'
  BY <1>1 DEF PluginInv, MeshInv, OptionsInv
<1> QED BY <1>3, <1>4, <1>5 DEF PluginInv

\* A new sandbox has empty tables.
LEMMA RetryAddInv == PluginInv /\ RetryAdd => PluginInv'
<1> SUFFICES ASSUME PluginInv, RetryAdd PROVE PluginInv'
  OBVIOUS
<1>1. /\ table' = [f \in Families |-> EmptyTable] /\ used' = [f \in Families |-> {}]
      /\ pc' = "get" /\ family' = 4 /\ seenNs' = {ns} /\ options' = options /\ goal' = goal
      /\ failures' = failures /\ runs' = runs
      /\ conf' = conf /\ pod' = pod /\ ns' = ns /\ named' = named /\ got' = got
  BY DEF RetryAdd
<1>2. /\ options \in Option /\ failures \in Nat /\ runs \in Nat /\ goal = "configure"
      /\ ns \in Namespaces
  BY PluginTypes DEF PluginInv
<1>3. FirewallInv'
  <2>1. \A f \in Families : TableOK(table'[f])
    BY <1>1, EmptyTableOK
  <2>2. used' \in [Families -> SUBSET {o \in Option : ~BuildError(o)}]
    BY <1>1
  <2>3. TypeOK'
    BY <1>1, <1>2, <2>1, <2>2 DEF TypeOK, TableOK, Families
  <2>4. TablesInv'
    BY <1>1 DEF TablesInv, EmptyTable
  <2>5. RunInv'
    BY <1>1, <1>2 DEF RunInv
  <2> QED BY <2>3, <2>4, <2>5 DEF FirewallInv
<1>4. SeenInv' /\ MeshInv' /\ OverrideInv' /\ OptionsInv'
  BY <1>1, <1>2 DEF PluginInv, SeenInv, MeshInv, OverrideInv, OptionsInv
<1> QED BY <1>3, <1>4 DEF PluginInv

LEMMA FirewallStutters ==
  ASSUME FirewallInv, UNCHANGED vars
  PROVE  FirewallInv'
<1>1. /\ table' = table /\ options' = options /\ goal' = goal /\ pc' = pc
      /\ family' = family /\ cmds' = cmds /\ failures' = failures /\ runs' = runs
      /\ used' = used
  BY DEF vars
<1>2. TypeOK' /\ TablesInv'
  BY <1>1, TablesKept DEF FirewallInv, TypeOK
<1>3. RunInv'
  BY <1>1 DEF FirewallInv, RunInv
<1> QED BY <1>2, <1>3 DEF FirewallInv

\* What was seen of the namespace stays seen.
LEMMA EditInv == PluginInv /\ (Edit \/ UNCHANGED pluginVars) => PluginInv'
<1> SUFFICES ASSUME PluginInv, Edit \/ UNCHANGED pluginVars PROVE PluginInv'
  OBVIOUS
<1>1. /\ UNCHANGED vars /\ named' = named /\ conf' = conf /\ got' = got
      /\ unread' = unread /\ seenNs \subseteq seenNs'
      /\ \/ pod' \in Pods /\ ns' = ns /\ seenNs' = seenNs \cup {ns}
         \/ ns' \in Namespaces /\ pod' = pod /\ seenNs' = seenNs \cup {ns'}
         \/ pod' = pod /\ ns' = ns /\ seenNs' = seenNs
  BY DEF Edit, pluginVars, pluginOnly
<1>2. /\ table' = table /\ options' = options /\ goal' = goal /\ pc' = pc
      /\ family' = family /\ used' = used
  BY <1>1 DEF vars
<1>3. FirewallInv'
  BY <1>1, FirewallStutters DEF PluginInv
<1>4. SeenInv' /\ MeshInv'
  <2>1. ns \in Namespaces /\ ns \in seenNs /\ pod \in Pods
    BY PluginTypes DEF PluginInv
  <2> QED BY <1>1, <1>2, <2>1 DEF PluginInv, SeenInv, MeshInv
<1>5. [ToSet(Keys) -> seenNs] \subseteq [ToSet(Keys) -> seenNs']
  BY <1>1
<1>6. OverrideInv'
  BY <1>1, <1>2, <1>5 DEF PluginInv, OverrideInv
<1>7. OptionsInv'
  BY <1>1, <1>2, <1>5 DEF PluginInv, OptionsInv
<1> QED BY <1>3, <1>4, <1>6, <1>7 DEF PluginInv

\* At every step of every ADD, its options are what it has read makes of them, and its
\* rules are those of these options.
THEOREM PluginInvariant == PluginSpec => []PluginInv
<1>1. PluginInv /\ [PluginNext]_pluginVars => PluginInv'
  BY GetPodInv, ReadOverrideInv, OptionsComplete, ConfigureInv, RequestFailsInv,
     RetryAddInv, EditInv DEF PluginNext
<1> QED BY <1>1, PluginInitInv, PTL DEF PluginSpec

-----------------------------------------------------------------------------
(* What follows from it. *)

\* The network namespace of a pod that is not to be configured stays as it was, at every
\* step, whatever fails, is repeated or edited.
THEOREM OnlyMeshedAreTouched == PluginSpec => []OnlyMeshedTouched
<1>1. PluginInv => OnlyMeshedTouched
  BY DEF PluginInv, MeshInv, OnlyMeshedTouched, Meshed, containsLinkerdProxy
<1> QED BY <1>1, PluginInvariant, PTL

\* What is intended of a configuration, field by field.
LEMMA IntendedFields ==
  ASSUME NEW c \in Option, NEW q, NEW at, NEW ports
  PROVE  LET r == Intended(c, q, at, ports)
         IN /\ Kept(r, c)
            /\ r.outboundIgnore = Wanted(q, at, "skip-outbound-ports", c.outboundIgnore)
                                  \o When(q.controlPlane, ports)
            /\ r.uid = Head(Wanted(q, at, "proxy-uid", <<c.uid>>))
            /\ r.gid = Head(Wanted(q, at, "proxy-gid", <<c.gid>>))
<1> DEFINE r == Intended(c, q, at, ports)
<1> DEFINE out == Wanted(q, at, "skip-outbound-ports", c.outboundIgnore)
                  \o When(q.controlPlane, ports)
           in == c.inboundIgnore \o Wanted(q, at, "skip-inbound-ports", <<>>)
           nets == Wanted(q, at, "skip-subnets", c.subnets)
           u == Head(Wanted(q, at, "proxy-uid", <<c.uid>>))
           g == Head(Wanted(q, at, "proxy-gid", <<c.gid>>))
<1>1. r = [c EXCEPT !.outboundIgnore = out, !.inboundIgnore = in, !.subnets = nets,
                    !.uid = u, !.gid = g]
  BY Zenon DEF Intended
<1> HIDE DEF out, in, nets, u, g, r
<1>2. Kept(r, c) /\ r.outboundIgnore = out /\ r.uid = u /\ r.gid = g
  BY <1>1 DEF Option, Kept
<1> QED BY <1>2, Zenon DEF out, u, g, r

\* A port to ignore is ignored among others as well.
LEMMA IgnoredAmong ==
  ASSUME NEW s \in Seq(PortRange), NEW ports \in Seq(PortRange), NEW p, Ignored(ports, p)
  PROVE  Ignored(s \o ports, p)
<1> DEFINE z == s \o ports
           m == Len(s)
           n == Len(ports)
<1>1. m \in Nat /\ n \in Nat /\ DOMAIN ports = 1..n
  BY LenProperties
<1>2. /\ z \in Seq(PortRange) /\ Len(z) = m + n
      /\ \A i \in 1..(m + n) : z[i] = IF i <= m THEN s[i] ELSE ports[i - m]
  BY ConcatProperties
<1>3. DOMAIN z = 1..(m + n)
  BY <1>2, LenProperties
<1>4. PICK i \in 1..n : ValidRange(ports[i]) /\ p.dport \in ports[i].lo..ports[i].hi
  BY <1>1 DEF Ignored
<1> HIDE DEF z
<1>5. m + i \in 1..(m + n) /\ z[m + i] = ports[i]
  <2>1. m + i \in 1..(m + n) /\ ~(m + i <= m) /\ (m + i) - m = i
    BY <1>1
  <2> QED BY <1>2, <2>1
<1>6. Ignored(z, p)
  BY <1>3, <1>4, <1>5 DEF Ignored
<1> QED BY <1>6 DEF z

\* A chain of outgoing rules, complete or not, redirects no packet to a port to ignore.
LEMMA IgnoredIsReturned ==
  ASSUME NEW o \in Option, ~BuildError(o),
         NEW p \in Packet, p.chain # "PROXY_INIT_REDIRECT",
         Ignored(o.outboundIgnore, p), NEW t, NEW k \in 0..Len(RulesOf(p.chain, o)),
         t.rules[p.chain] = SubSeq(RulesOf(p.chain, o), 1, k)
  PROVE  RedirectedTo(t, p) = {}
<1> DEFINE c == p.chain
           a == Ignoring(c, o)
           r == Redirecting(c, o)
           s == t.rules[c]
           port == ProxyPort(c, o)
<1>1. c \in Chain /\ RulesOf(c, o) = a \o r
  BY RuleParts DEF Packet
<1>2. port # RETURN
  BY IptablesAssumption DEF BuildError, IsValidPort, ProxyPort, RETURN, Option
<1>3. a \in Seq(RuleType) /\ AllLeadTo(a, RETURN) /\ (p.tcp => HasMatch(a, p))
  BY <1>1, OutboundIgnoring, Zenon
<1>4. r \in Seq(RuleType) /\ AllLeadTo(r, port) /\ (HasMatch(r, p) => p.tcp)
  BY <1>1, RedirectingRules, Zenon
<1>5. RedirectedTo(t, p) = IF t.jumps[c] = 0 THEN {} ELSE LedTo(s, p)
  BY DEF RedirectedTo, LedTo
<1>6. k \in 0..Len(a \o r) /\ s = SubSeq(a \o r, 1, k)
  BY <1>1
<1> HIDE DEF a, r, s, port
<1> DEFINE all == IF HasMatch(r, p) /\ ~HasMatch(a, p) THEN {port} ELSE {}
<1>7. LedTo(s, p) \subseteq all
  BY <1>2, <1>3, <1>4, <1>6, Decide
<1>8. all = {}
  BY <1>3, <1>4
<1> QED BY <1>5, <1>7, <1>8

\* A control plane pod reaches the API server without its proxy at every step, on all of
\* its ports or on the default ones, however many of the pod's rules are written.
THEOREM ApiServerIsReached == PluginSpec => []ControlPlaneReachesApi
<1>1. PluginInv => ControlPlaneReachesApi
  <2> SUFFICES ASSUME PluginInv, got.controlPlane PROVE ControlPlaneReachesApi
    BY DEF ControlPlaneReachesApi
  <2>1. \A f \in Families, c \in Chain : ChainInv(table[f], used[f], c)
    BY TablesTyped DEF PluginInv, FirewallInv
  <2>2. \A p \in Packets : p \in Packet /\ p.chain \in Chain
    BY FirewallAssumption DEF Packet
  <2>3. CASE \A f \in Families : used[f] = {}
    <3>1. ASSUME NEW f \in Families, NEW p \in Packets PROVE RedirectedTo(table[f], p) = {}
      <4>1. table[f].rules[p.chain] = <<>>
        BY <2>1, <2>2, <2>3 DEF ChainInv
      <4>2. Deciding(table[f].rules[p.chain], p) = {}
        BY <4>1 DEF Deciding
      <4> QED BY <4>2 DEF RedirectedTo
    <3> QED BY <3>1 DEF ControlPlaneReachesApi
  <2>4. CASE \E f \in Families : used[f] # {}
    <3>1. PICK at \in [ToSet(Keys) -> seenNs] : \E ports \in {ApiPorts, DefaultPorts} :
            NumericIds(got, at) /\ options = Intended(conf, got, at, ports)
      BY <2>4 DEF PluginInv, OptionsInv
    <3>2. PICK ports \in {ApiPorts, DefaultPorts} :
            NumericIds(got, at) /\ options = Intended(conf, got, at, ports)
      BY <3>1
    <3>3. /\ options \in Option /\ conf \in Option /\ got \in Pods
          /\ seenNs \subseteq Namespaces /\ ports \in Seq(PortRange)
          /\ \A f \in Families : used[f] \subseteq {options}
          /\ \A f \in Families : used[f] \subseteq {o \in Option : ~BuildError(o)}
      BY PluginTypes, ApiPortsTyped
         DEF PluginInv, SeenInv, OptionsInv, FirewallInv, TypeOK
    <3> DEFINE key == "skip-outbound-ports"
               out == Wanted(got, at, key, conf.outboundIgnore)
    <3>4. out \in Seq(PortRange)
      <4>1. key \in ToSet(Keys) /\ Value(key) = Seq(PortRange)
        BY KeysByPlace DEF KeySet, Value
      <4>2. at[key] \in Namespaces
        BY <3>3, <4>1
      <4>3. Annotations(got.annotations) /\ Annotations(at[key])
        BY <3>3, <4>2, PluginAssumption
      <4>4. conf.outboundIgnore \in Seq(PortRange)
        BY <3>3 DEF Option
      <4> QED BY <4>1, <4>3, <4>4 DEF Annotations, Wanted
    <3>5. options.outboundIgnore = out \o ports
      <4>1. options.outboundIgnore = out \o When(got.controlPlane, ports)
        <5> DEFINE o == options
                   c == conf
                   q == got
        <5>1. o.outboundIgnore = Wanted(q, at, key, c.outboundIgnore)
                                 \o When(q.controlPlane, ports)
          <6>1. c \in Option /\ o = Intended(c, q, at, ports)
            BY <3>2, <3>3
          <6> HIDE DEF o, c, q
          <6>2. /\ Kept(o, c)
                /\ o.outboundIgnore = Wanted(q, at, "skip-outbound-ports", c.outboundIgnore)
                                      \o When(q.controlPlane, ports)
                /\ o.uid = Head(Wanted(q, at, "proxy-uid", <<c.uid>>))
                /\ o.gid = Head(Wanted(q, at, "proxy-gid", <<c.gid>>))
            BY <6>1, IntendedFields, Zenon
          <6> QED BY <6>2
        <5> QED BY <5>1
      <4> QED BY <4>1 DEF When
    <3> HIDE DEF out, key
    <3>6. ASSUME NEW f \in Families, NEW p \in Packets, p.chain = "PROXY_INIT_OUTPUT",
                 Ignored(ports, p)
          PROVE  RedirectedTo(table[f], p) = {}
      <4>1. Ignored(options.outboundIgnore, p)
        BY <3>3, <3>4, <3>5, <3>6, IgnoredAmong
      <4>2. ChainInv(table[f], used[f], p.chain) /\ p \in Packet
        BY <2>1, <2>2
      <4>3. CASE table[f].rules[p.chain] = <<>>
        <5>1. Deciding(table[f].rules[p.chain], p) = {}
          BY <4>3 DEF Deciding
        <5> QED BY <5>1 DEF RedirectedTo
      <4>4. CASE \E o \in used[f] : \E i \in 0..Len(RulesOf(p.chain, o)) :
                   Filled(table[f], p.chain, o, i)
        <5>1. /\ ~BuildError(options)
              /\ \E i \in 0..Len(RulesOf(p.chain, options)) :
                   Filled(table[f], p.chain, options, i)
          BY <3>3, <4>4
        <5>2. PICK i \in 0..Len(RulesOf(p.chain, options)) :
                Filled(table[f], p.chain, options, i)
          BY <5>1
        <5> DEFINE t == table[f]
                   o == options
        <5>3. /\ o \in Option /\ ~BuildError(o) /\ Ignored(o.outboundIgnore, p)
              /\ i \in 0..Len(RulesOf(p.chain, o))
              /\ t.rules[p.chain] = SubSeq(RulesOf(p.chain, o), 1, i)
              /\ p.chain # "PROXY_INIT_REDIRECT"
          BY <3>3, <3>6, <4>1, <5>1, <5>2 DEF Filled
        <5> HIDE DEF t, o
        <5>4. RedirectedTo(t, p) = {}
          BY <4>2, <5>3, IgnoredIsReturned
        <5> QED BY <5>4 DEF t
      <4> QED BY <4>2, <4>3, <4>4 DEF ChainInv
    <3> QED BY <3>6 DEF ControlPlaneReachesApi
  <2> QED BY <2>3, <2>4
<1> QED BY <1>1, PluginInvariant, PTL

\* Users and groups asked for that are 0, which the code takes for none (see the hazard),
\* excepted: those configured ignore what they name, and those annotated are not 0.
IdsRespected ==
  /\ \A o \in Options, p \in Packets : IdsGiven(o, p)
  /\ \A a \in Namespaces \cup {q.annotations : q \in Pods} :
       \A key \in {"proxy-uid", "proxy-gid"} \cap DOMAIN a :
         a[key] # <<>> => Head(a[key]) > 0

\* The options of an ADD ignore the users and the groups they name.
LEMMA IntendedIdsGiven ==
  ASSUME IdsRespected, NEW c \in Options, NEW q \in Pods,
         NEW at \in [ToSet(Keys) -> Namespaces], NumericIds(q, at), NEW ports,
         NEW p \in Packets
  PROVE  IdsGiven(Intended(c, q, at, ports), p)
<1> DEFINE r == Intended(c, q, at, ports)
           user == "proxy-uid"
           group == "proxy-gid"
           root == <<0>>
<1>1. /\ r.uid = Head(Wanted(q, at, user, <<c.uid>>))
      /\ r.gid = Head(Wanted(q, at, group, <<c.gid>>))
  <2>1. c \in Option
    BY FirewallAssumption
  <2> QED BY <2>1, IntendedFields, Zenon
<1>2. Wanted(q, at, user, root) # <<>> /\ Wanted(q, at, group, root) # <<>>
  BY Zenon DEF NumericIds
<1>3. ASSUME NEW key \in {user, group}, NEW n
      PROVE  \/ Wanted(q, at, key, <<n>>) = <<n>>
             \/ /\ Wanted(q, at, key, <<n>>) = Wanted(q, at, key, root)
                /\ Wanted(q, at, key, root) # <<>> =>
                     Head(Wanted(q, at, key, root)) > 0
  <2>1. key \in ToSet(Keys)
    BY KeysByPlace DEF KeySet
  <2>2. at[key] \in Namespaces
    BY <2>1
  <2> QED BY <2>2 DEF Wanted, IdsRespected
<1>4. user \in {user, group} /\ group \in {user, group}
  OBVIOUS
<1>5. IdsGiven(c, p)
  BY DEF IdsRespected
<1>6. \A n : Head(<<n>>) = n
  OBVIOUS
<1> HIDE DEF r, user, group, root
<1>7. r.uid = c.uid \/ r.uid > 0
  BY <1>1, <1>2, <1>3, <1>4, <1>6
<1>8. r.gid = c.gid \/ r.gid > 0
  BY <1>1, <1>2, <1>3, <1>4, <1>6
<1>9. IdsGiven(r, p)
  BY <1>5, <1>7, <1>8 DEF IdsGiven
<1> QED BY <1>9 DEF r

\* An ADD that succeeds has redirected, on every family, exactly what the pod, its
\* namespace and the configuration ask for, whatever edits and failed ADDs came before.
\* User and group 0 excepted.
THEOREM AddDoesAsIntended ==
  ASSUME IdsRespected
  PROVE  PluginSpec => []AddIsIntended
<1>1. PluginInv => AddIsIntended
  <2> SUFFICES ASSUME PluginInv, pc = "done", ~conf.simulate
               PROVE  \E at \in [ToSet(Keys) -> seenNs],
                         ports \in {ApiPorts, DefaultPorts} :
                        /\ NumericIds(got, at)
                        /\ \A f \in FamiliesOf(conf), p \in Packets :
                             RedirectedTo(table[f], p)
                               = Asked(Intended(conf, got, at, ports), p)
    BY DEF AddIsIntended
  <2>1. PICK at \in [ToSet(Keys) -> seenNs] : \E ports \in {ApiPorts, DefaultPorts} :
          NumericIds(got, at) /\ options = Intended(conf, got, at, ports)
    BY DEF PluginInv, OptionsInv
  <2>2. PICK ports \in {ApiPorts, DefaultPorts} :
          NumericIds(got, at) /\ options = Intended(conf, got, at, ports)
    BY <2>1
  <2>3. /\ options \in Option /\ conf \in Option /\ conf \in Options /\ got \in Pods
        /\ seenNs \subseteq Namespaces /\ goal = "configure" /\ family \in Families
    BY PluginTypes DEF PluginInv, SeenInv
  <2>4. at \in [ToSet(Keys) -> Namespaces]
    BY <2>3
  <2> DEFINE o == options
             c == conf
             q == got
  <2>5. o.simulate = c.simulate /\ o.ipv6 = c.ipv6
        /\ \A p \in Packets : IdsGiven(o, p)
    <3>1. o = Intended(c, q, at, ports) /\ c \in Option /\ c \in Options /\ q \in Pods
          /\ NumericIds(q, at)
      BY <2>2, <2>3
    <3> HIDE DEF o, c, q
    <3>2. Kept(Intended(c, q, at, ports), c)
      BY <3>1, IntendedFields, Zenon
    <3>3. \A p \in Packets : IdsGiven(Intended(c, q, at, ports), p)
      BY <2>4, <3>1, IntendedIdsGiven
    <3> QED BY <3>1, <3>2, <3>3 DEF Kept
  <2>6. /\ options \in used[family] /\ (options.ipv6 => family = 6)
        /\ \A x \in Chain : Complete(table[family], x, options)
        /\ family = 6 => \A x \in Chain : Complete(table[4], x, options)
    BY <2>3, <2>5 DEF PluginInv, FirewallInv, RunInv
  <2>7. ~BuildError(options)
    BY <2>3, <2>6 DEF PluginInv, FirewallInv, TypeOK
  <2>8. ASSUME NEW f \in FamiliesOf(conf), NEW p \in Packets
        PROVE  RedirectedTo(table[f], p) = Asked(options, p)
    <3> DEFINE t == table[f]
               R == RulesOf(p.chain, o)
    <3>1. p \in Packet /\ p.chain \in Chain
      BY FirewallAssumption DEF Packet
    <3>2. f = family \/ (f = 4 /\ family = 6)
      BY <2>3, <2>5, <2>6 DEF FamiliesOf, Families
    <3>3. Complete(t, p.chain, o) /\ o \in Option /\ ~BuildError(o) /\ IdsGiven(o, p)
      BY <2>3, <2>5, <2>6, <2>7, <3>1, <3>2
    <3> HIDE DEF t, o
    <3>4. Len(R) \in Nat /\ SubSeq(R, 1, Len(R)) = R
      BY <3>1, <3>3, SubSeqGrows
    <3>5. Len(R) \in 0..Len(R) /\ t.rules[p.chain] = SubSeq(R, 1, Len(R))
          /\ t.jumps[p.chain] # 0
      BY <3>3, <3>4 DEF Complete
    <3>6. RedirectedTo(t, p) = Asked(o, p)
      BY <3>1, <3>3, <3>5, ChainRedirects
    <3> QED BY <3>6 DEF t, o
  <2> QED BY <2>2, <2>8
<1> QED BY <1>1, PluginInvariant, PTL
=============================================================================
