---------------------------- MODULE IptablesProofs ----------------------------
(***************************************************************************)
(* What the rules of Iptables do to packets: a chain redirects what its    *)
(* options ask for and, while it is being filled, nothing else.  The loop  *)
(* that spreads the ports to ignore over several rules is reasoned about   *)
(* by induction, over sets of numbers.                                     *)
(***************************************************************************)
EXTENDS Firewall, SequenceTheorems, WellFoundedInduction, TLAPS

-----------------------------------------------------------------------------
(* Induction. *)

LEMMA LeastElement ==
  ASSUME NEW S \in SUBSET Nat, S # {}
  PROVE  \E n \in S : \A m \in S : n <= m
<1>1. PICK n \in S : \A m \in S : <<m, n>> \notin OpToRel(<, Nat)
  BY NatLessThanWellFounded, WFMin
<1>2. ASSUME NEW m \in S, m < n PROVE <<m, n>> \in OpToRel(<, Nat)
  BY <1>2 DEF OpToRel
<1>3. ASSUME NEW m \in S PROVE ~(m < n)
  <2>1. <<m, n>> \notin OpToRel(<, Nat)
    BY <1>1, Zenon
  <2> QED BY <1>2, <2>1, Zenon
<1>4. \A m \in S : n <= m
  BY <1>3
<1> QED BY <1>4

LEMMA SetInduction ==
  ASSUME NEW S \in SUBSET Nat, 0 \in S, \A n \in S : n + 1 \in S
  PROVE  S = Nat
<1> SUFFICES ASSUME Nat \ S # {} PROVE FALSE
  OBVIOUS
<1>1. PICK x \in Nat \ S : \A y \in Nat \ S : x <= y
  BY LeastElement
<1>2. x - 1 \in Nat /\ (x - 1) + 1 = x
  BY <1>1
<1>3. x - 1 \in S
  BY <1>1, <1>2
<1>4. (x - 1) + 1 \in S
  BY <1>3
<1> QED BY <1>1, <1>2, <1>4

-----------------------------------------------------------------------------
(* The destinations of the rules that ignore ports. *)

LEMMA ChunksExist ==
  ASSUME NEW ports, NEW L \in Nat
  PROVE  \E g : g = [n \in 0..L |-> IF n = 0 THEN NoChunk ELSE Chunk(g[n - 1], ports[n])]
<1> DEFINE Upto(g, m) ==
             g = [n \in 0..m |-> IF n = 0 THEN NoChunk ELSE Chunk(g[n - 1], ports[n])]
           S == {m \in Nat : \E g : Upto(g, m)}
<1>1. 0 \in S
  <2>1. Upto([n \in 0..0 |-> NoChunk], 0)
    OBVIOUS
  <2> QED BY <2>1
<1>2. ASSUME NEW m \in S PROVE m + 1 \in S
  <2>1. PICK g : Upto(g, m)
    BY <1>2
  <2> DEFINE h == [n \in 0..(m + 1) |-> IF n <= m THEN g[n] ELSE Chunk(g[m], ports[m + 1])]
  <2>2. \A n \in 0..(m + 1) :
          h[n] = IF n = 0 THEN NoChunk ELSE Chunk(h[n - 1], ports[n])
    <3> SUFFICES ASSUME NEW n \in 0..(m + 1)
                 PROVE  h[n] = IF n = 0 THEN NoChunk ELSE Chunk(h[n - 1], ports[n])
      OBVIOUS
    <3>1. \A i \in 0..m : g[i] = IF i = 0 THEN NoChunk ELSE Chunk(g[i - 1], ports[i])
      BY <2>1
    <3>2. CASE n <= m
      <4>1. n \in 0..m /\ (n # 0 => n - 1 \in 0..m) /\ h[n] = g[n]
        BY <3>2
      <4>2. n # 0 => h[n - 1] = g[n - 1]
        BY <4>1
      <4> QED BY <3>1, <4>1, <4>2
    <3>3. CASE n = m + 1
      <4>1. n # 0 /\ n - 1 = m /\ h[m] = g[m] /\ h[n] = Chunk(g[m], ports[m + 1])
        BY <3>3
      <4> QED BY <3>3, <4>1
    <3> QED BY <3>2, <3>3
  <2>3. Upto(h, m + 1)
    BY <2>2
  <2> HIDE DEF Upto, h
  <2> QED BY <2>3
<1>3. S = Nat
  <2> HIDE DEF S
  <2> QED BY <1>1, <1>2, SetInduction DEF S
<1> QED BY <1>3

\* The loop is what its definition says.
LEMMA ChunksDefined ==
  ASSUME NEW ports, Len(ports) \in Nat
  PROVE  /\ Chunks(ports)[0] = NoChunk
         /\ \A n \in 1..Len(ports) : 
              Chunks(ports)[n] = Chunk(Chunks(ports)[n - 1], ports[n])
<1> DEFINE P(g) == g = [n \in 0..Len(ports) |->
                          IF n = 0 THEN NoChunk ELSE Chunk(g[n - 1], ports[n])]
<1>1. Chunks(ports) = CHOOSE g : P(g)
  BY DEF Chunks
<1>2. \E g : P(g)
  BY ChunksExist
<1>3. P(Chunks(ports))
  <2> HIDE DEF P
  <2> QED BY <1>1, <1>2, Zenon
<1> QED BY <1>3

\* Whether a port is among the destinations of a rule, and of those so far.
Covers(dests, x) == \E i \in DOMAIN dests : dests[i].lo <= x /\ x <= dests[i].hi

CoveredSoFar(acc, x) ==
  Covers(acc.dests, x) \/ \E i \in DOMAIN acc.done : Covers(acc.done[i], x)

ChunkType == [done : Seq(Seq(PortRange)), dests : Seq(PortRange), count : Int]

LEMMA CoversAppend ==
  ASSUME NEW s \in Seq(PortRange), NEW r \in PortRange, NEW x
  PROVE  Covers(Append(s, r), x) <=> Covers(s, x) \/ (r.lo <= x /\ x <= r.hi)
BY AppendProperties, LenProperties DEF Covers

LEMMA CoversSingle ==
  ASSUME NEW r, NEW x
  PROVE  Covers(<<r>>, x) <=> r.lo <= x /\ x <= r.hi
BY DEF Covers

LEMMA SomeAppend ==
  ASSUME NEW done \in Seq(Seq(PortRange)), NEW s \in Seq(PortRange), NEW x
  PROVE  (\E i \in DOMAIN Append(done, s) : Covers(Append(done, s)[i], x))
           <=> Covers(s, x) \/ \E i \in DOMAIN done : Covers(done[i], x)
<1>1. /\ Append(done, s) \in Seq(Seq(PortRange))
      /\ DOMAIN done = 1..Len(done) /\ Len(done) \in Nat
      /\ DOMAIN Append(done, s) = 1..(Len(done) + 1)
      /\ \A i \in 1..Len(done) : Append(done, s)[i] = done[i]
      /\ Append(done, s)[Len(done) + 1] = s
  BY AppendProperties, LenProperties
<1> HIDE DEF Covers
<1>2. Len(done) + 1 \in 1..(Len(done) + 1) /\ 1..Len(done) \subseteq 1..(Len(done) + 1)
  BY <1>1
<1>3. \A i \in 1..(Len(done) + 1) : i = Len(done) + 1 \/ i \in 1..Len(done)
  BY <1>1
<1> QED BY <1>1, <1>2, <1>3, Zenon

\* A round of the loop adds what its entry covers, if that parses, and loses nothing.
LEMMA ChunkCovers ==
  ASSUME NEW acc \in ChunkType, NEW r \in PortRange
  PROVE  /\ Chunk(acc, r) \in ChunkType
         /\ \A x : CoveredSoFar(Chunk(acc, r), x)
                    <=> CoveredSoFar(acc, x) \/ (ValidRange(r) /\ r.lo <= x /\ x <= r.hi)
<1>1. /\ acc.done \in Seq(Seq(PortRange)) /\ acc.dests \in Seq(PortRange)
      /\ acc.count \in Int /\ portCount(r) \in Int
  BY DEF ChunkType, portCount
<1>2. CASE ~ValidRange(r)
  BY <1>2 DEF Chunk
<1>3. CASE ValidRange(r) /\ acc.count + portCount(r) > IptablesMultiportLimit
  <2>1. Chunk(acc, r) = [done |-> Append(acc.done, acc.dests), dests |-> <<r>>,
                         count |-> portCount(r)]
    BY <1>3 DEF Chunk
  <2>2. Chunk(acc, r) \in ChunkType
    BY <1>1, <2>1, AppendProperties DEF ChunkType
  <2>3. \A x : Covers(<<r>>, x) <=> r.lo <= x /\ x <= r.hi
    BY CoversSingle
  <2>4. \A x : (\E i \in DOMAIN Append(acc.done, acc.dests) :
                    Covers(Append(acc.done, acc.dests)[i], x))
                  <=> CoveredSoFar(acc, x)
    BY <1>1, SomeAppend DEF CoveredSoFar
  <2>5. \A x : CoveredSoFar(Chunk(acc, r), x) <=> Covers(<<r>>, x) \/ CoveredSoFar(acc, x)
    BY <2>1, <2>4 DEF CoveredSoFar
  <2> QED BY <1>3, <2>2, <2>3, <2>5
<1>4. CASE ValidRange(r) /\ ~(acc.count + portCount(r) > IptablesMultiportLimit)
  <2>1. Chunk(acc, r) = [done |-> acc.done, dests |-> Append(acc.dests, r),
                         count |-> acc.count + portCount(r)]
    BY <1>4 DEF Chunk
  <2>2. Chunk(acc, r) \in ChunkType
    BY <1>1, <2>1, AppendProperties DEF ChunkType
  <2>3. \A x : CoveredSoFar(Chunk(acc, r), x)
               <=> CoveredSoFar(acc, x) \/ (r.lo <= x /\ x <= r.hi)
    BY <1>1, <2>1, CoversAppend DEF CoveredSoFar
  <2> QED BY <1>4, <2>2, <2>3
<1> QED BY <1>2, <1>3, <1>4

\* The rules that ignore ports cover the ports to ignore, whatever their number and the
\* capacity of a rule, and whichever entries do not parse.
LEMMA PortsCovered ==
  ASSUME NEW ports \in Seq(PortRange), NEW p, p.dport \in Int
  PROVE  /\ makeMultiportDestinations(ports) \in Seq(Seq(PortRange))
         /\ (\E i \in DOMAIN makeMultiportDestinations(ports) :
               Covers(makeMultiportDestinations(ports)[i], p.dport)) <=> Ignored(ports, p)
<1> DEFINE x == p.dport
           after == Chunks(ports)
           Hit(i) == ValidRange(ports[i]) /\ ports[i].lo <= x /\ x <= ports[i].hi
           Skipped(n) == \E i \in 1..n : Hit(i)
           S == {n \in Nat : n <= Len(ports) =>
                               after[n] \in ChunkType
                               /\ (CoveredSoFar(after[n], x) <=> Skipped(n))}
<1>1. Len(ports) \in Nat /\ DOMAIN ports = 1..Len(ports)
      /\ \A i \in 1..Len(ports) : ports[i] \in PortRange
  BY LenProperties
<1>2. /\ after[0] = NoChunk
      /\ \A n \in 1..Len(ports) : after[n] = Chunk(after[n - 1], ports[n])
  BY <1>1, ChunksDefined
<1> HIDE DEF after
<1>3. 0 \in S
  <2>1. NoChunk \in ChunkType
    BY EmptySeq DEF NoChunk, ChunkType
  <2>2. ~CoveredSoFar(NoChunk, x)
    BY DEF NoChunk, CoveredSoFar, Covers
  <2> QED BY <1>2, <2>1, <2>2
<1>4. ASSUME NEW n \in S PROVE n + 1 \in S
  <2> SUFFICES ASSUME n + 1 <= Len(ports)
               PROVE  /\ after[n + 1] \in ChunkType
                      /\ CoveredSoFar(after[n + 1], x) <=> Skipped(n + 1)
    BY <1>4
  <2>1. n \in Nat /\ n + 1 \in 1..Len(ports) /\ (n + 1) - 1 = n
    BY <1>1, <1>4
  <2>2. after[n] \in ChunkType /\ (CoveredSoFar(after[n], x) <=> Skipped(n))
    BY <1>1, <1>4, <2>1
  <2>3. after[n + 1] = Chunk(after[n], ports[n + 1]) /\ ports[n + 1] \in PortRange
    BY <1>1, <1>2, <2>1
  <2>4. Skipped(n + 1) <=> Skipped(n) \/ Hit(n + 1)
    <3> HIDE DEF Hit
    <3>1. \A i : i \in 1..(n + 1) <=> i \in 1..n \/ i = n + 1
      BY <2>1
    <3> QED BY <3>1, Zenon
  <2>5. /\ Chunk(after[n], ports[n + 1]) \in ChunkType
        /\ CoveredSoFar(Chunk(after[n], ports[n + 1]), x)
             <=> CoveredSoFar(after[n], x) \/ Hit(n + 1)
    BY <2>2, <2>3, ChunkCovers
  <2> HIDE DEF Skipped, Hit, x
  <2> QED BY <2>2, <2>3, <2>4, <2>5
<1>5. S = Nat
  <2> HIDE DEF S
  <2> QED BY <1>3, <1>4, SetInduction DEF S
<1>6. after[Len(ports)] \in ChunkType
      /\ (CoveredSoFar(after[Len(ports)], x) <=> Skipped(Len(ports)))
  BY <1>1, <1>5
<1>7. Skipped(Len(ports)) <=> Ignored(ports, p)
  BY <1>1 DEF Ignored, PortRange
<1>8. CASE ports = <<>>
  BY <1>8, EmptySeq DEF makeMultiportDestinations, Ignored
<1>9. CASE ports # <<>>
  <2> DEFINE end == after[Len(ports)]
  <2>1. makeMultiportDestinations(ports) = Append(end.done, end.dests)
    BY <1>9 DEF after, makeMultiportDestinations
  <2>2. end.done \in Seq(Seq(PortRange)) /\ end.dests \in Seq(PortRange)
    BY <1>6 DEF ChunkType
  <2> HIDE DEF end, Skipped
  <2>3. Append(end.done, end.dests) \in Seq(Seq(PortRange))
    BY <2>2, AppendProperties
  <2>4. (\E i \in DOMAIN Append(end.done, end.dests) :
            Covers(Append(end.done, end.dests)[i], x))
          <=> CoveredSoFar(end, x)
    BY <2>2, SomeAppend DEF CoveredSoFar
  <2> QED BY <1>6, <1>7, <2>1, <2>3, <2>4 DEF end
<1> QED BY <1>8, <1>9

-----------------------------------------------------------------------------
(* Which rules match, and which one decides. *)

ArgType  == Int \cup Seq(PortRange) \cup Subnet
Matching == {"uid", "gid", "lo", "subnet", "tcp", "port", "ports"}
RuleType == [match : Matching, arg : ArgType, target : Int]

HasMatch(rules, p)   == \E i \in DOMAIN rules : Matches(rules[i], p)
AllLeadTo(rules, tg) == \A i \in DOMAIN rules : rules[i].target = tg

\* The ports that rules redirect a packet to.
LedTo(rules, p) == {rules[i].target : i \in Deciding(rules, p)} \ {RETURN}

LEMMA ConcatParts ==
  ASSUME NEW a \in Seq(RuleType), NEW c \in Seq(RuleType)
  PROVE  /\ a \o c \in Seq(RuleType) /\ Len(a) \in Nat /\ Len(c) \in Nat
         /\ DOMAIN a = 1..Len(a) /\ DOMAIN c = 1..Len(c)
         /\ DOMAIN (a \o c) = 1..(Len(a) + Len(c)) /\ Len(a \o c) = Len(a) + Len(c)
         /\ \A i \in 1..Len(a) : (a \o c)[i] = a[i]
         /\ \A i \in 1..Len(c) : (a \o c)[Len(a) + i] = c[i]
BY ConcatProperties, LenProperties

LEMMA MatchConcat ==
  ASSUME NEW a \in Seq(RuleType), NEW c \in Seq(RuleType), NEW p
  PROVE  HasMatch(a \o c, p) <=> HasMatch(a, p) \/ HasMatch(c, p)
<1>0. /\ DOMAIN a = 1..Len(a) /\ DOMAIN c = 1..Len(c) /\ Len(a) \in Nat /\ Len(c) \in Nat
      /\ DOMAIN (a \o c) = 1..(Len(a) + Len(c))
      /\ \A i \in 1..Len(a) : (a \o c)[i] = a[i]
      /\ \A i \in 1..Len(c) : (a \o c)[Len(a) + i] = c[i]
  BY ConcatParts
<1>1. \A i \in 1..(Len(a) + Len(c)) : i \in 1..Len(a) \/ \E j \in 1..Len(c) : i = Len(a) + j
  <2> TAKE i \in 1..(Len(a) + Len(c))
  <2>1. Len(a) \in Nat /\ Len(c) \in Nat
    BY LenProperties
  <2>2. i \in 1..Len(a) \/ (i - Len(a) \in 1..Len(c) /\ i = Len(a) + (i - Len(a)))
    BY <2>1
  <2> QED BY <2>2
<1>2. /\ 1..Len(a) \subseteq 1..(Len(a) + Len(c))
      /\ \A j \in 1..Len(c) : Len(a) + j \in 1..(Len(a) + Len(c))
  BY LenProperties
<1>3. ASSUME NEW i \in 1..(Len(a) + Len(c)), Matches((a \o c)[i], p)
      PROVE  HasMatch(a, p) \/ HasMatch(c, p)
  <2>1. CASE i \in 1..Len(a)
    BY <1>0, <1>3, <2>1, Zenon DEF HasMatch
  <2>2. ASSUME NEW j \in 1..Len(c), i = Len(a) + j PROVE HasMatch(c, p)
    BY <1>0, <1>3, <2>2, Zenon DEF HasMatch
  <2> QED BY <1>1, <2>1, <2>2
<1>4. HasMatch(a, p) => HasMatch(a \o c, p)
  BY <1>0, <1>2, Zenon DEF HasMatch
<1>5. HasMatch(c, p) => HasMatch(a \o c, p)
  BY <1>0, <1>2, Zenon DEF HasMatch
<1>6. HasMatch(a \o c, p) => HasMatch(a, p) \/ HasMatch(c, p)
  BY <1>0, <1>3, Zenon DEF HasMatch
<1> QED BY <1>4, <1>5, <1>6

LEMMA LeadConcat ==
  ASSUME NEW a \in Seq(RuleType), NEW c \in Seq(RuleType), NEW tg,
         AllLeadTo(a, tg), AllLeadTo(c, tg)
  PROVE  AllLeadTo(a \o c, tg)
<1>0. /\ DOMAIN a = 1..Len(a) /\ DOMAIN c = 1..Len(c) /\ Len(a) \in Nat /\ Len(c) \in Nat
      /\ DOMAIN (a \o c) = 1..(Len(a) + Len(c))
      /\ \A i \in 1..Len(a) : (a \o c)[i] = a[i]
      /\ \A i \in 1..Len(c) : (a \o c)[Len(a) + i] = c[i]
  BY ConcatParts
<1> SUFFICES ASSUME NEW i \in DOMAIN (a \o c)
             PROVE  (a \o c)[i].target = tg
  BY DEF AllLeadTo
<1>1. CASE i \in 1..Len(a)
  BY <1>0, <1>1, Zenon DEF AllLeadTo
<1>2. CASE i \notin 1..Len(a)
  <2>1. i - Len(a) \in 1..Len(c) /\ Len(a) + (i - Len(a)) = i
    BY <1>0, <1>2
  <2>2. (a \o c)[Len(a) + (i - Len(a))] = c[i - Len(a)]
    BY <1>0, <2>1, Zenon
  <2>3. (a \o c)[i] = c[i - Len(a)]
    BY <2>1, <2>2
  <2> QED BY <1>0, <2>1, <2>3 DEF AllLeadTo
<1> QED BY <1>1, <1>2

\* Where the first k rules of a chain redirect a packet to, if rules that ignore it come
\* before those that redirect to a port.
LEMMA Decide ==
  ASSUME NEW a \in Seq(RuleType), NEW c \in Seq(RuleType), NEW p, NEW port,
         port # RETURN, AllLeadTo(a, RETURN), AllLeadTo(c, port),
         NEW k \in 0..Len(a \o c)
  PROVE  LET s   == SubSeq(a \o c, 1, k)
             all == IF HasMatch(c, p) /\ ~HasMatch(a, p) THEN {port} ELSE {}
         IN LedTo(s, p) \subseteq all /\ (k = Len(a \o c) => LedTo(s, p) = all)
<1> DEFINE m == Len(a)
           n == Len(c)
           s == SubSeq(a \o c, 1, k)
<1>1. /\ m \in Nat /\ n \in Nat /\ k \in 0..(m + n) /\ Len(a \o c) = m + n
      /\ DOMAIN a = 1..m /\ DOMAIN c = 1..n
  BY ConcatParts
<1>2. DOMAIN s = 1..k /\ \A i \in 1..k : s[i] = (a \o c)[i]
  BY <1>1, ConcatParts, SubSeqProperties
<1>3. \A i \in 1..k : i <= m => i \in 1..m /\ s[i] = a[i]
  BY <1>1, <1>2, ConcatParts
<1>4. \A i \in 1..k : ~(i <= m) => i - m \in 1..n /\ s[i] = c[i - m]
  <2> TAKE i \in 1..k
  <2> HAVE ~(i <= m)
  <2>1. i - m \in 1..n /\ m + (i - m) = i
    BY <1>1
  <2>2. (a \o c)[m + (i - m)] = c[i - m]
    BY <2>1, ConcatParts, Zenon
  <2> QED BY <1>2, <2>1, <2>2
<1> HIDE DEF m, n, s
<1>5. ASSUME NEW i \in Deciding(s, p), s[i].target # RETURN
      PROVE  s[i].target = port /\ HasMatch(c, p) /\ ~HasMatch(a, p)
  <2>1. i \in 1..k /\ Matches(s[i], p) /\ \A j \in 1..(i - 1) : ~Matches(s[j], p)
    BY <1>2 DEF Deciding
  <2>2. ~(i <= m)
    BY <1>1, <1>3, <1>5, <2>1 DEF AllLeadTo
  <2>3. i - m \in 1..n /\ s[i] = c[i - m]
    BY <1>4, <2>1, <2>2
  <2>4. \A j \in 1..m : j \in 1..(i - 1) /\ s[j] = a[j]
    BY <1>1, <1>3, <2>1, <2>2
  <2> QED BY <1>1, <2>1, <2>3, <2>4, Zenon DEF AllLeadTo, HasMatch
<1>6. ASSUME k = Len(a \o c), HasMatch(c, p), ~HasMatch(a, p)
      PROVE  \E i \in Deciding(s, p) : s[i].target = port
  <2> DEFINE S == {i \in 1..k : Matches(s[i], p)}
  <2>1. PICK j \in 1..n : Matches(c[j], p)
    BY <1>1, <1>6 DEF HasMatch
  <2>2. m + j \in 1..k /\ ~(m + j <= m) /\ (m + j) - m = j
    BY <1>1, <1>6
  <2>3. s[m + j] = c[j]
    BY <1>4, <2>2
  <2>4. m + j \in S
    BY <2>1, <2>2, <2>3
  <2>5. PICK i \in S : \A l \in S : i <= l
    <3> HIDE DEF S
    <3>1. S \in SUBSET Nat
      BY <1>1 DEF S
    <3> QED BY <2>4, <3>1, LeastElement
  <2>6. i \in Deciding(s, p)
    <3> SUFFICES ASSUME NEW l \in 1..(i - 1) PROVE ~Matches(s[l], p)
      BY <1>2 DEF Deciding
    <3>1. l \in 1..k /\ ~(i <= l)
      BY <1>1
    <3> QED BY <2>5, <3>1
  <2>7. ~(i <= m)
    BY <1>1, <1>3, <1>6 DEF HasMatch
  <2> QED BY <1>1, <1>4, <2>6, <2>7 DEF AllLeadTo
<1>7. LedTo(s, p) \subseteq (IF HasMatch(c, p) /\ ~HasMatch(a, p) THEN {port} ELSE {})
  BY <1>5 DEF LedTo
<1>8. ASSUME k = Len(a \o c), HasMatch(c, p) /\ ~HasMatch(a, p)
      PROVE  port \in LedTo(s, p)
  BY <1>6, <1>8 DEF LedTo
<1> QED BY <1>7, <1>8 DEF s

-----------------------------------------------------------------------------
(* What the rules of the two chains match, and where they lead. *)

LEMMA ArgTypes ==
  /\ \A x \in Int : x \in ArgType
  /\ \A x \in Seq(PortRange) : x \in ArgType
  /\ \A x \in Subnet : x \in ArgType
BY Zenon DEF ArgType

LEMMA MatchCases ==
  ASSUME NEW arg, NEW tg, NEW p \in Packet
  PROVE  /\ Matches(Rule("uid", arg, tg), p) <=> p.uid = arg
         /\ Matches(Rule("gid", arg, tg), p) <=> p.gid = arg
         /\ Matches(Rule("lo", arg, tg), p) <=> p.lo
         /\ Matches(Rule("subnet", arg, tg), p) <=> p.src = arg
         /\ Matches(Rule("tcp", arg, tg), p) <=> p.tcp
         /\ Matches(Rule("port", arg, tg), p) <=> p.tcp /\ p.dport = arg
         /\ Matches(Rule("ports", arg, tg), p) <=> p.tcp /\ Covers(arg, p.dport)
<1>0. p.lo \in BOOLEAN /\ p.tcp \in BOOLEAN
  BY DEF Packet
<1>1. Matches(Rule("uid", arg, tg), p) <=> p.uid = arg
  BY <1>0 DEF Rule, Matches
<1>2. Matches(Rule("gid", arg, tg), p) <=> p.gid = arg
  BY <1>0 DEF Rule, Matches
<1>3. Matches(Rule("lo", arg, tg), p) <=> p.lo
  BY <1>0 DEF Rule, Matches
<1>4. Matches(Rule("subnet", arg, tg), p) <=> p.src = arg
  BY <1>0 DEF Rule, Matches
<1>5. Matches(Rule("tcp", arg, tg), p) <=> p.tcp
  BY <1>0 DEF Rule, Matches
<1>6. Matches(Rule("port", arg, tg), p) <=> p.tcp /\ p.dport = arg
  BY <1>0 DEF Rule, Matches
<1>7. Matches(Rule("ports", arg, tg), p) <=> p.tcp /\ Covers(arg, p.dport)
  BY <1>0 DEF Rule, Matches, Covers
<1> QED BY <1>1, <1>2, <1>3, <1>4, <1>5, <1>6, <1>7

LEMMA RuleTyped ==
  ASSUME NEW m \in Matching, NEW arg \in ArgType, NEW tg \in Int
  PROVE  Rule(m, arg, tg) \in RuleType /\ Rule(m, arg, tg).target = tg
BY DEF Rule, RuleType

LEMMA IgnoredPortsRules ==
  ASSUME NEW ports \in Seq(PortRange), NEW p \in Packet
  PROVE  /\ addRulesForIgnoredPorts(ports) \in Seq(RuleType)
         /\ AllLeadTo(addRulesForIgnoredPorts(ports), RETURN)
         /\ HasMatch(addRulesForIgnoredPorts(ports), p) <=> p.tcp /\ Ignored(ports, p)
<1> DEFINE slices == makeMultiportDestinations(ports)
           rules == addRulesForIgnoredPorts(ports)
<1>1. /\ slices \in Seq(Seq(PortRange)) /\ p.dport \in Int /\ p.tcp \in BOOLEAN
      /\ (\E i \in DOMAIN slices : Covers(slices[i], p.dport)) <=> Ignored(ports, p)
  BY PortsCovered DEF Packet
<1>2. rules = [i \in DOMAIN slices |-> makeIgnorePorts(slices[i])]
  BY DEF addRulesForIgnoredPorts
<1> HIDE DEF slices, rules
<1>3. Len(slices) \in Nat /\ DOMAIN slices = 1..Len(slices)
      /\ \A i \in DOMAIN slices : slices[i] \in Seq(PortRange)
  BY <1>1, LenProperties
<1>4. \A i \in DOMAIN slices :
        rules[i] = Rule("ports", slices[i], RETURN)
  BY <1>2 DEF makeIgnorePorts
<1>5. \A i \in DOMAIN slices : rules[i] \in RuleType /\ rules[i].target = RETURN
  <2> TAKE i \in DOMAIN slices
  <2>1. slices[i] \in ArgType
    BY <1>3, ArgTypes
  <2>2. "ports" \in Matching /\ RETURN \in Int
    BY DEF RETURN, Matching
  <2>3. /\ Rule("ports", slices[i], RETURN) \in RuleType
        /\ Rule("ports", slices[i], RETURN).target = RETURN
    BY <2>1, <2>2, RuleTyped, Zenon
  <2> QED BY <1>4, <2>3
<1>6. rules \in Seq(RuleType) /\ DOMAIN rules = DOMAIN slices
  BY <1>2, <1>3, <1>5
<1>7. AllLeadTo(rules, RETURN)
  BY <1>5, <1>6 DEF AllLeadTo
<1>8. \A i \in DOMAIN slices : Matches(rules[i], p) <=> p.tcp /\ Covers(slices[i], p.dport)
  BY <1>4, MatchCases
<1>9. HasMatch(rules, p) <=> p.tcp /\ Ignored(ports, p)
  BY <1>1, <1>6, <1>8, Zenon DEF HasMatch
<1> QED BY <1>6, <1>7, <1>9 DEF rules

LEMMA SubnetRules ==
  ASSUME NEW subnets \in Seq(Subnet), NEW p \in Packet
  PROVE  /\ addRulesForIgnoredSubnets(subnets) \in Seq(RuleType)
         /\ AllLeadTo(addRulesForIgnoredSubnets(subnets), RETURN)
         /\ HasMatch(addRulesForIgnoredSubnets(subnets), p)
              <=> \E i \in DOMAIN subnets : p.src = subnets[i]
<1> DEFINE rules == addRulesForIgnoredSubnets(subnets)
<1>1. rules = [i \in DOMAIN subnets |-> makeIgnoreSubnet(subnets[i])]
  BY DEF addRulesForIgnoredSubnets
<1> HIDE DEF rules
<1>2. Len(subnets) \in Nat /\ DOMAIN subnets = 1..Len(subnets)
      /\ \A i \in DOMAIN subnets : subnets[i] \in Subnet
  BY LenProperties
<1>3. \A i \in DOMAIN subnets :
        rules[i] = Rule("subnet", subnets[i], RETURN)
  BY <1>1 DEF makeIgnoreSubnet
<1>4. \A i \in DOMAIN subnets : rules[i] \in RuleType /\ rules[i].target = RETURN
  <2> TAKE i \in DOMAIN subnets
  <2>1. subnets[i] \in ArgType
    BY <1>2, ArgTypes
  <2>2. "subnet" \in Matching /\ RETURN \in Int
    BY DEF RETURN, Matching
  <2>3. /\ Rule("subnet", subnets[i], RETURN) \in RuleType
        /\ Rule("subnet", subnets[i], RETURN).target = RETURN
    BY <2>1, <2>2, RuleTyped, Zenon
  <2> QED BY <1>3, <2>3
<1>5. rules \in Seq(RuleType) /\ DOMAIN rules = DOMAIN subnets
  BY <1>1, <1>2, <1>4
<1>6. \A i \in DOMAIN subnets : Matches(rules[i], p) <=> p.src = subnets[i]
  BY <1>3, MatchCases
<1>7. HasMatch(rules, p) <=> \E i \in DOMAIN subnets : p.src = subnets[i]
  BY <1>5, <1>6, Zenon DEF HasMatch
<1>8. AllLeadTo(rules, RETURN)
  BY <1>4, <1>5 DEF AllLeadTo
<1> QED BY <1>5, <1>7, <1>8 DEF rules

LEMMA SingleRule ==
  ASSUME NEW r \in RuleType, NEW p
  PROVE  /\ <<r>> \in Seq(RuleType)
         /\ AllLeadTo(<<r>>, r.target)
         /\ HasMatch(<<r>>, p) <=> Matches(r, p)
BY DEF AllLeadTo, HasMatch

LEMMA NoRule ==
  ASSUME NEW tg, NEW p
  PROVE  <<>> \in Seq(RuleType) /\ AllLeadTo(<<>>, tg) /\ ~HasMatch(<<>>, p)
BY EmptySeq DEF AllLeadTo, HasMatch

LEMMA RedirectRules ==
  ASSUME NEW o \in Option, NEW p \in Packet
  PROVE  /\ addRulesForInboundPortRedirect(o) \in Seq(RuleType)
         /\ AllLeadTo(addRulesForInboundPortRedirect(o), o.incoming)
         /\ HasMatch(addRulesForInboundPortRedirect(o), p)
              <=> /\ p.tcp
                  /\ \/ o.redirect = <<>>
                     \/ \E i \in DOMAIN o.redirect : o.redirect[i] = p.dport
<1> DEFINE rules == addRulesForInboundPortRedirect(o)
<1>1. o.redirect \in Seq(Int) /\ o.incoming \in Int /\ p.dport \in Int /\ p.tcp \in BOOLEAN
  BY DEF Option, Packet
<1>2. CASE o.redirect = <<>>
  <2> DEFINE r == Rule("tcp", 0, o.incoming)
  <2>1. rules = <<r>>
    BY <1>2 DEF addRulesForInboundPortRedirect, makeRedirectChainToPort
  <2>2. r \in RuleType /\ r.target = o.incoming /\ (Matches(r, p) <=> p.tcp)
    <3>1. 0 \in ArgType
      BY ArgTypes
    <3>2. "tcp" \in Matching
      BY DEF Matching
    <3>3. r \in RuleType /\ r.target = o.incoming
      BY <1>1, <3>1, <3>2, RuleTyped, Zenon
    <3>4. Matches(r, p) <=> p.tcp
      BY MatchCases, Zenon
    <3> QED BY <3>3, <3>4
  <2> HIDE DEF r, rules
  <2> QED BY <1>2, <2>1, <2>2, SingleRule DEF rules
<1>3. CASE o.redirect # <<>>
  <2>1. rules = [i \in DOMAIN o.redirect |-> Rule("port", o.redirect[i], o.incoming)]
    BY <1>3 DEF addRulesForInboundPortRedirect,
                makeRedirectChainToPortBasedOnDestinationPort
  <2> HIDE DEF rules
  <2>2. Len(o.redirect) \in Nat /\ DOMAIN o.redirect = 1..Len(o.redirect)
        /\ \A i \in DOMAIN o.redirect : o.redirect[i] \in Int
    BY <1>1, LenProperties
  <2>3. \A i \in DOMAIN o.redirect : rules[i] \in RuleType /\ rules[i].target = o.incoming
    <3> TAKE i \in DOMAIN o.redirect
    <3>1. o.redirect[i] \in ArgType
      BY <2>2, ArgTypes
    <3>2. "port" \in Matching /\ rules[i] = Rule("port", o.redirect[i], o.incoming)
      BY <2>1 DEF Matching
    <3>3. /\ Rule("port", o.redirect[i], o.incoming) \in RuleType
          /\ Rule("port", o.redirect[i], o.incoming).target = o.incoming
      BY <1>1, <3>1, <3>2, RuleTyped, Zenon
    <3> QED BY <3>2, <3>3
  <2>4. rules \in Seq(RuleType) /\ DOMAIN rules = DOMAIN o.redirect
    <3>1. rules = [i \in 1..Len(o.redirect) |-> rules[i]]
      BY <2>1, <2>2
    <3>2. \A i \in 1..Len(o.redirect) : rules[i] \in RuleType
      BY <2>2, <2>3
    <3> QED BY <2>2, <3>1, <3>2
  <2>5. \A i \in DOMAIN o.redirect :
          Matches(rules[i], p) <=> p.tcp /\ p.dport = o.redirect[i]
    BY <2>1, MatchCases
  <2>6. HasMatch(rules, p) <=> p.tcp /\ \E i \in DOMAIN o.redirect : o.redirect[i] = p.dport
    BY <2>4, <2>5 DEF HasMatch
  <2>7. AllLeadTo(rules, o.incoming)
    BY <2>3, <2>4 DEF AllLeadTo
  <2> QED BY <1>3, <2>4, <2>6, <2>7 DEF rules
<1> QED BY <1>2, <1>3

-----------------------------------------------------------------------------
(* What the chains redirect. *)

\* Of options o, the first of the two parts of a chain's rules, and the other.
Ignoring(c, o) ==
  IF c = "PROXY_INIT_REDIRECT"
  THEN addRulesForIgnoredPorts(o.inboundIgnore) \o addRulesForIgnoredSubnets(o.subnets)
  ELSE When(o.uid > 0, <<makeIgnoreUserID(o.uid)>>)
       \o When(o.gid > 0, <<makeIgnoreGroupID(o.gid)>>)
       \o <<makeIgnoreLoopback>>
       \o addRulesForIgnoredPorts(o.outboundIgnore)

Redirecting(c, o) ==
  IF c = "PROXY_INIT_REDIRECT" THEN addRulesForInboundPortRedirect(o)
  ELSE <<makeRedirectChainToPort(o.outgoing)>>

ProxyPort(c, o) == IF c = "PROXY_INIT_REDIRECT" THEN o.incoming ELSE o.outgoing

\* The user and the group to ignore, 0 standing for none: see the hazard.
IdsGiven(o, p) == (o.uid > 0 \/ p.uid # o.uid) /\ (o.gid > 0 \/ p.gid # o.gid)

LEMMA RuleParts ==
  ASSUME NEW o, NEW c \in Chain
  PROVE  RulesOf(c, o) = Ignoring(c, o) \o Redirecting(c, o)
<1>1. CASE c = "PROXY_INIT_REDIRECT"
  BY <1>1, Zenon DEF RulesOf, Ignoring, Redirecting, incomingRules
<1>2. CASE c # "PROXY_INIT_REDIRECT"
  BY <1>2, Zenon DEF RulesOf, Ignoring, Redirecting, outgoingRules
<1> QED BY <1>1, <1>2

LEMMA InboundIgnoring ==
  ASSUME NEW o \in Option, NEW p \in Packet
  PROVE  LET a == Ignoring("PROXY_INIT_REDIRECT", o)
         IN /\ a \in Seq(RuleType) /\ AllLeadTo(a, RETURN)
            /\ HasMatch(a, p) <=> \/ p.tcp /\ Ignored(o.inboundIgnore, p)
                                  \/ \E i \in DOMAIN o.subnets : p.src = o.subnets[i]
<1>1. o.inboundIgnore \in Seq(PortRange) /\ o.subnets \in Seq(Subnet)
  BY DEF Option
<1> DEFINE x == addRulesForIgnoredPorts(o.inboundIgnore)
           y == addRulesForIgnoredSubnets(o.subnets)
<1>2. Ignoring("PROXY_INIT_REDIRECT", o) = x \o y
  BY DEF Ignoring
<1>3. /\ x \in Seq(RuleType) /\ AllLeadTo(x, RETURN)
      /\ HasMatch(x, p) <=> p.tcp /\ Ignored(o.inboundIgnore, p)
  BY <1>1, IgnoredPortsRules, Zenon
<1>4. /\ y \in Seq(RuleType) /\ AllLeadTo(y, RETURN)
      /\ HasMatch(y, p) <=> \E i \in DOMAIN o.subnets : p.src = o.subnets[i]
  BY <1>1, SubnetRules, Zenon
<1> HIDE DEF x, y
<1>5. x \o y \in Seq(RuleType) /\ AllLeadTo(x \o y, RETURN)
      /\ (HasMatch(x \o y, p) <=> HasMatch(x, p) \/ HasMatch(y, p))
  BY <1>3, <1>4, ConcatParts, LeadConcat, MatchConcat, Zenon
<1> QED BY <1>2, <1>3, <1>4, <1>5

LEMMA OutboundIgnoring ==
  ASSUME NEW o \in Option, NEW p \in Packet, NEW c \in Chain, c # "PROXY_INIT_REDIRECT"
  PROVE  LET a == Ignoring(c, o)
         IN /\ a \in Seq(RuleType) /\ AllLeadTo(a, RETURN)
            /\ HasMatch(a, p) <=> \/ o.uid > 0 /\ p.uid = o.uid
                                  \/ o.gid > 0 /\ p.gid = o.gid
                                  \/ p.lo
                                  \/ p.tcp /\ Ignored(o.outboundIgnore, p)
<1>1. o.outboundIgnore \in Seq(PortRange) /\ o.uid \in Int /\ o.gid \in Int
  BY DEF Option
<1>2. RETURN \in Int /\ o.uid \in ArgType /\ o.gid \in ArgType /\ 0 \in ArgType
  BY <1>1, ArgTypes DEF RETURN
<1>3. "uid" \in Matching /\ "gid" \in Matching /\ "lo" \in Matching
  BY DEF Matching
<1> DEFINE u == When(o.uid > 0, <<makeIgnoreUserID(o.uid)>>)
           g == When(o.gid > 0, <<makeIgnoreGroupID(o.gid)>>)
           l == <<makeIgnoreLoopback>>
           x == addRulesForIgnoredPorts(o.outboundIgnore)
<1>4. Ignoring(c, o) = u \o g \o l \o x
  BY DEF Ignoring
<1>5. /\ u \in Seq(RuleType) /\ AllLeadTo(u, RETURN)
      /\ HasMatch(u, p) <=> o.uid > 0 /\ p.uid = o.uid
  <2> DEFINE r == makeIgnoreUserID(o.uid)
  <2>1. r \in RuleType /\ r.target = RETURN /\ (Matches(r, p) <=> p.uid = o.uid)
    <3> DEFINE q == Rule("uid", o.uid, RETURN)
    <3>1. r = q
      BY DEF makeIgnoreUserID
    <3>2. q \in RuleType /\ q.target = RETURN
      BY <1>2, <1>3, RuleTyped, Zenon
    <3>3. Matches(q, p) <=> p.uid = o.uid
      BY MatchCases, Zenon
    <3> HIDE DEF q
    <3> QED BY <3>1, <3>2, <3>3
  <2> HIDE DEF r
  <2>2. CASE o.uid > 0
    <3>1. u = <<r>>
      BY <2>2 DEF When, r
    <3> QED BY <2>1, <2>2, <3>1, SingleRule
  <2>3. CASE ~(o.uid > 0)
    <3>1. u = <<>>
      BY <2>3 DEF When
    <3> QED BY <2>3, <3>1, NoRule
  <2> QED BY <2>2, <2>3
<1>6. /\ g \in Seq(RuleType) /\ AllLeadTo(g, RETURN)
      /\ HasMatch(g, p) <=> o.gid > 0 /\ p.gid = o.gid
  <2> DEFINE r == makeIgnoreGroupID(o.gid)
  <2>1. r \in RuleType /\ r.target = RETURN /\ (Matches(r, p) <=> p.gid = o.gid)
    <3> DEFINE q == Rule("gid", o.gid, RETURN)
    <3>1. r = q
      BY DEF makeIgnoreGroupID
    <3>2. q \in RuleType /\ q.target = RETURN
      BY <1>2, <1>3, RuleTyped, Zenon
    <3>3. Matches(q, p) <=> p.gid = o.gid
      BY MatchCases, Zenon
    <3> HIDE DEF q
    <3> QED BY <3>1, <3>2, <3>3
  <2> HIDE DEF r
  <2>2. CASE o.gid > 0
    <3>1. g = <<r>>
      BY <2>2 DEF When, r
    <3> QED BY <2>1, <2>2, <3>1, SingleRule
  <2>3. CASE ~(o.gid > 0)
    <3>1. g = <<>>
      BY <2>3 DEF When
    <3> QED BY <2>3, <3>1, NoRule
  <2> QED BY <2>2, <2>3
<1>7. l \in Seq(RuleType) /\ AllLeadTo(l, RETURN) /\ (HasMatch(l, p) <=> p.lo)
  <2> DEFINE r == makeIgnoreLoopback
  <2>1. r \in RuleType /\ r.target = RETURN /\ (Matches(r, p) <=> p.lo)
    <3> DEFINE q == Rule("lo", 0, RETURN)
    <3>1. r = q
      BY DEF makeIgnoreLoopback
    <3>2. q \in RuleType /\ q.target = RETURN
      BY <1>2, <1>3, RuleTyped, Zenon
    <3>3. Matches(q, p) <=> p.lo
      BY MatchCases, Zenon
    <3> HIDE DEF q
    <3> QED BY <3>1, <3>2, <3>3
  <2>2. l = <<r>>
    OBVIOUS
  <2> HIDE DEF r, l
  <2> QED BY <2>1, <2>2, SingleRule
<1>8. /\ x \in Seq(RuleType) /\ AllLeadTo(x, RETURN)
      /\ HasMatch(x, p) <=> p.tcp /\ Ignored(o.outboundIgnore, p)
  BY <1>1, IgnoredPortsRules, Zenon
<1> HIDE DEF u, g, l, x
<1>9. u \o g \in Seq(RuleType) /\ AllLeadTo(u \o g, RETURN)
      /\ (HasMatch(u \o g, p) <=> HasMatch(u, p) \/ HasMatch(g, p))
  BY <1>5, <1>6, ConcatParts, LeadConcat, MatchConcat, Zenon
<1>10. u \o g \o l \in Seq(RuleType) /\ AllLeadTo(u \o g \o l, RETURN)
       /\ (HasMatch(u \o g \o l, p) <=> HasMatch(u \o g, p) \/ HasMatch(l, p))
  BY <1>7, <1>9, ConcatParts, LeadConcat, MatchConcat, Zenon
<1>11. u \o g \o l \o x \in Seq(RuleType) /\ AllLeadTo(u \o g \o l \o x, RETURN)
       /\ (HasMatch(u \o g \o l \o x, p) <=> HasMatch(u \o g \o l, p) \/ HasMatch(x, p))
  BY <1>8, <1>10, ConcatParts, LeadConcat, MatchConcat, Zenon
<1> QED BY <1>4, <1>5, <1>6, <1>7, <1>8, <1>9, <1>10, <1>11

LEMMA RedirectingRules ==
  ASSUME NEW o \in Option, NEW p \in Packet, NEW c \in Chain
  PROVE  LET a == Redirecting(c, o)
         IN /\ a \in Seq(RuleType) /\ AllLeadTo(a, ProxyPort(c, o))
            /\ HasMatch(a, p) <=>
                 /\ p.tcp
                 /\ c = "PROXY_INIT_REDIRECT" =>
                      \/ o.redirect = <<>>
                      \/ \E i \in DOMAIN o.redirect : o.redirect[i] = p.dport
<1>1. CASE c = "PROXY_INIT_REDIRECT"
  <2>1. /\ Redirecting(c, o) = addRulesForInboundPortRedirect(o)
        /\ ProxyPort(c, o) = o.incoming
    BY <1>1 DEF Redirecting, ProxyPort
  <2> QED BY <1>1, <2>1, RedirectRules, Zenon
<1>2. CASE c # "PROXY_INIT_REDIRECT"
  <2> DEFINE r == makeRedirectChainToPort(o.outgoing)
  <2>1. Redirecting(c, o) = <<r>> /\ ProxyPort(c, o) = o.outgoing
    BY <1>2 DEF Redirecting, ProxyPort
  <2>2. o.outgoing \in Int /\ 0 \in ArgType /\ "tcp" \in Matching
    BY ArgTypes DEF Option, Matching
  <2>3. r \in RuleType /\ r.target = o.outgoing /\ (Matches(r, p) <=> p.tcp)
    <3> DEFINE q == Rule("tcp", 0, o.outgoing)
    <3>1. r = q
      BY DEF makeRedirectChainToPort
    <3>2. q \in RuleType /\ q.target = o.outgoing
      BY <2>2, RuleTyped, Zenon
    <3>3. Matches(q, p) <=> p.tcp
      BY MatchCases, Zenon
    <3> HIDE DEF q
    <3> QED BY <3>1, <3>2, <3>3
  <2> HIDE DEF r
  <2> QED BY <1>2, <2>1, <2>3, SingleRule
<1> QED BY <1>1, <1>2

\* A chain that holds the first rules of options o redirects no packet they do not ask
\* for; one that holds them all, and that packets are sent to, redirects all others.
LEMMA ChainRedirects ==
  ASSUME NEW o \in Option, ~BuildError(o), NEW p \in Packet, IdsGiven(o, p), NEW t,
         NEW k \in 0..Len(RulesOf(p.chain, o)),
         t.rules[p.chain] = SubSeq(RulesOf(p.chain, o), 1, k)
  PROVE  /\ RedirectedTo(t, p) \subseteq Asked(o, p)
         /\ k = Len(RulesOf(p.chain, o)) /\ t.jumps[p.chain] # 0 =>
              RedirectedTo(t, p) = Asked(o, p)
<1> DEFINE c == p.chain
           a == Ignoring(c, o)
           r == Redirecting(c, o)
           s == t.rules[c]
<1>1. c \in Chain /\ RulesOf(c, o) = a \o r
  BY RuleParts DEF Packet
<1>2. ProxyPort(c, o) # RETURN
  BY IptablesAssumption DEF BuildError, IsValidPort, ProxyPort, RETURN, Option
<1>3. a \in Seq(RuleType) /\ AllLeadTo(a, RETURN)
  BY <1>1, InboundIgnoring, OutboundIgnoring, Zenon
<1>4. r \in Seq(RuleType) /\ AllLeadTo(r, ProxyPort(c, o))
  BY <1>1, RedirectingRules, Zenon
<1>5. Asked(o, p) = IF HasMatch(r, p) /\ ~HasMatch(a, p) THEN {ProxyPort(c, o)} ELSE {}
  <2>1. CASE c = "PROXY_INIT_REDIRECT"
    <3>1. HasMatch(a, p) <=> \/ p.tcp /\ Ignored(o.inboundIgnore, p)
                             \/ \E i \in DOMAIN o.subnets : p.src = o.subnets[i]
      BY <2>1, InboundIgnoring
    <3>2. HasMatch(r, p) <=> /\ p.tcp
                             /\ \/ o.redirect = <<>>
                                \/ \E i \in DOMAIN o.redirect : o.redirect[i] = p.dport
      BY <1>1, <2>1, RedirectingRules
    <3> HIDE DEF a, r
    <3> QED BY <2>1, <3>1, <3>2 DEF Asked, ProxyPort
  <2>2. CASE c # "PROXY_INIT_REDIRECT"
    <3>1. HasMatch(a, p) <=> \/ o.uid > 0 /\ p.uid = o.uid
                             \/ o.gid > 0 /\ p.gid = o.gid
                             \/ p.lo
                             \/ p.tcp /\ Ignored(o.outboundIgnore, p)
      BY <1>1, <2>2, OutboundIgnoring
    <3>2. HasMatch(r, p) <=> p.tcp
      BY <1>1, <2>2, RedirectingRules
    <3> HIDE DEF a, r
    <3> QED BY <2>2, <3>1, <3>2 DEF Asked, ProxyPort, IdsGiven
  <2> QED BY <2>1, <2>2
<1>6. RedirectedTo(t, p) = IF t.jumps[c] = 0 THEN {} ELSE LedTo(s, p)
  BY DEF RedirectedTo, LedTo
<1>7. /\ k \in 0..Len(a \o r) /\ s = SubSeq(a \o r, 1, k)
      /\ Len(RulesOf(p.chain, o)) = Len(a \o r)
  BY <1>1
<1> HIDE DEF a, r, s
<1> DEFINE port == ProxyPort(c, o)
           all == IF HasMatch(r, p) /\ ~HasMatch(a, p) THEN {port} ELSE {}
<1>8. LedTo(s, p) \subseteq all /\ (k = Len(a \o r) => LedTo(s, p) = all)
  <2>1. port # RETURN /\ AllLeadTo(r, port)
    BY <1>2, <1>4
  <2> HIDE DEF port
  <2> QED BY <1>3, <1>4, <1>7, <2>1, Decide
<1> QED BY <1>5, <1>6, <1>7, <1>8
=============================================================================
