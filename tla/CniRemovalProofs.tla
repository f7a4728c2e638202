--------------------------- MODULE CniRemovalProofs ---------------------------
(***************************************************************************)
(* Proofs about what an installer leaves behind.  When it is removed:      *)
(* nothing of linkerd's, if its event loop had ended first.  When it       *)
(* crashes: every plugin of the other providers.                           *)
(***************************************************************************)
EXTENDS CniServiceProofs, WellFoundedInduction

\* Linkerd is in no configuration but for the installer.
NoneConfigured ==
  /\ \A f \in InitialFiles, n \in CniFile : ~HasLinkerd(f[n])
  /\ \A w \in ProviderWrites : ~HasLinkerd(w[2])

-----------------------------------------------------------------------------
(* Lemmas on documents. *)

LEMMA LeastPosition ==
  ASSUME NEW S \in SUBSET Nat, S # {}
  PROVE  \E n \in S : \A m \in S : n <= m
<1>1. PICK n \in S : \A m \in S : <<m, n>> \notin OpToRel(<, Nat)
  BY NatLessThanWellFounded, WFMin
<1>2. ASSUME NEW m \in S, m < n PROVE <<m, n>> \in OpToRel(<, Nat)
  BY <1>2 DEF OpToRel
<1>3. ASSUME NEW m \in S PROVE ~(m < n)
  <2>1. <<m, n>> \notin OpToRel(<, Nat)
    BY <1>1, Zenon
  <2> QED BY <1>2, <2>1, Zenon
<1>4. \A m \in S : n <= m
  BY <1>3
<1> QED BY <1>4

LEMMA PositionInduction ==
  ASSUME NEW S \in SUBSET Nat, 0 \in S, \A n \in S : n + 1 \in S
  PROVE  S = Nat
<1> SUFFICES ASSUME Nat \ S # {} PROVE FALSE
  OBVIOUS
<1>1. PICK x \in Nat \ S : \A y \in Nat \ S : x <= y
  BY LeastPosition
<1>2. x - 1 \in Nat /\ (x - 1) + 1 = x
  BY <1>1
<1>3. x - 1 \in S
  BY <1>1, <1>2
<1>4. (x - 1) + 1 \in S
  BY <1>3
<1> QED BY <1>1, <1>2, <1>4

\* The loops of inject and revert find linkerd if it is there, or fail.
LEMMA LinkerdIsFound ==
  ASSUME NEW ps \in Seq(Element), NEW k \in DOMAIN ps, ps[k] = Linkerd, ~BadElement(ps)
  PROVE  LinkerdAt(ps) # {}
<1>1. Stops(ps) \in SUBSET Nat /\ k \in Stops(ps)
  BY LenProperties DEF Stops
<1>2. PICK i \in Stops(ps) : \A j \in Stops(ps) : i <= j
  BY <1>1, LeastPosition
<1>3. i \in DOMAIN ps /\ StopsAt(ps, i) /\ ps[i] \in {Linkerd, NotAMap}
  BY <1>2 DEF StopsAt, Stops
<1>4. ps[i] # NotAMap
  BY <1>3 DEF BadElement
<1> QED BY <1>3, <1>4 DEF LinkerdAt

\* The elements of a list with one taken out.
LEMMA RemoveAtElements ==
  ASSUME NEW ps \in Seq(Element), NEW i \in DOMAIN ps
  PROVE  /\ RemoveAt(ps, i) \in Seq(Element)
         /\ Len(RemoveAt(ps, i)) = Len(ps) - 1
         /\ \A j \in 1..(Len(ps) - 1) :
              RemoveAt(ps, i)[j] = IF j < i THEN ps[j] ELSE ps[j + 1]
<1> DEFINE front == SubSeq(ps, 1, i - 1)
           back  == SubSeq(ps, i + 1, Len(ps))
<1>1. i \in 1..Len(ps) /\ Len(ps) \in Nat
  BY LenProperties
<1>2. /\ front \in Seq(Element) /\ Len(front) = i - 1
      /\ \A k \in 1..(i - 1) : front[k] = ps[k]
  BY <1>1, SubSeqProperties
<1>3. /\ back \in Seq(Element) /\ Len(back) = Len(ps) - i
      /\ \A k \in 1..(Len(ps) - i) : back[k] = ps[i + k]
  BY <1>1, SubSeqProperties
<1>4. RemoveAt(ps, i) = front \o back
  BY DEF RemoveAt
<1> HIDE DEF front, back
<1>5. /\ front \o back \in Seq(Element)
      /\ Len(front \o back) = Len(front) + Len(back)
      /\ \A k \in 1..Len(front \o back) :
           (front \o back)[k] = IF k <= Len(front) THEN front[k] ELSE back[k - Len(front)]
  <2>1. front \o back \in Seq(Element) /\ Len(front \o back) = Len(front) + Len(back)
    BY <1>2, <1>3, ConcatProperties
  <2>2. \A k \in 1..Len(front) + Len(back) :
          (front \o back)[k] = IF k <= Len(front) THEN front[k] ELSE back[k - Len(front)]
    BY <1>2, <1>3, ConcatProperties
  <2> QED BY <2>1, <2>2
<1>6. ASSUME NEW j \in 1..(Len(ps) - 1)
      PROVE  (front \o back)[j] = IF j < i THEN ps[j] ELSE ps[j + 1]
  <2>1. CASE j < i
    BY <1>1, <1>2, <1>3, <1>5, <2>1
  <2>2. CASE ~(j < i)
    <3>1. j \in 1..Len(front \o back) /\ ~(j <= Len(front)) /\ Len(front) = i - 1
      BY <1>1, <1>2, <1>3, <1>5, <2>2
    <3>2. (front \o back)[j] = back[j - (i - 1)]
      BY <1>5, <3>1
    <3>3. j - (i - 1) \in 1..(Len(ps) - i) /\ i + (j - (i - 1)) = j + 1
      BY <1>1, <2>2
    <3> QED BY <1>3, <2>2, <3>2, <3>3
  <2> QED BY <2>1, <2>2
<1>7. Len(front \o back) = Len(ps) - 1
  BY <1>1, <1>2, <1>3, <1>5
<1> QED BY <1>4, <1>5, <1>6, <1>7, Zenon

\* One linkerd is taken out of a list that has one.
LEMMA WithoutLinkerdHasNone ==
  ASSUME NEW ps \in Seq(Element),
         \A i, j \in DOMAIN ps : ps[i] = Linkerd /\ ps[j] = Linkerd => i = j,
         (\E i \in DOMAIN ps : ps[i] = Linkerd) => ~BadElement(ps)
  PROVE  \A j \in DOMAIN WithoutLinkerd(ps) : WithoutLinkerd(ps)[j] # Linkerd
<1>1. CASE LinkerdAt(ps) = {}
  BY <1>1, LinkerdIsFound DEF WithoutLinkerd
<1>2. CASE LinkerdAt(ps) # {}
  <2>1. PICK i \in DOMAIN ps : ps[i] = Linkerd /\ WithoutLinkerd(ps) = RemoveAt(ps, i)
    BY <1>2 DEF WithoutLinkerd, LinkerdAt
  <2>2. ASSUME NEW j \in DOMAIN RemoveAt(ps, i) PROVE RemoveAt(ps, i)[j] # Linkerd
    <3>1. j \in 1..(Len(ps) - 1) /\ DOMAIN ps = 1..Len(ps) /\ Len(ps) \in Nat
      BY <2>2, RemoveAtElements, LenProperties
    <3>2. PICK k \in DOMAIN ps : k # i /\ RemoveAt(ps, i)[j] = ps[k]
      <4>1. RemoveAt(ps, i)[j] = IF j < i THEN ps[j] ELSE ps[j + 1]
        BY <3>1, RemoveAtElements
      <4>2. CASE j < i
        BY <3>1, <4>1, <4>2
      <4>3. CASE ~(j < i)
        <5>1. j + 1 \in DOMAIN ps /\ j + 1 # i /\ RemoveAt(ps, i)[j] = ps[j + 1]
          BY <3>1, <4>1, <4>3
        <5> QED BY <5>1
      <4> QED BY <4>2, <4>3
    <3> QED BY <2>1, <3>2
  <2> QED BY <2>1, <2>2
<1> QED BY <1>1, <1>2

\* inject puts linkerd in once.
LEMMA InjectedHasOne ==
  ASSUME NEW c \in Content, ~InjectError(c), HasLinkerd(c) => HasOneLinkerd(c)
  PROVE  HasOneLinkerd(inject(c))
<1> DEFINE ps == IF c.form = "single" THEN c.plugins ELSE WithoutLinkerd(c.plugins)
<1>1. c.plugins \in Seq(Element) /\ ps \in Seq(Element)
  BY WithoutLinkerdType DEF Content
<1>2. \A j \in DOMAIN ps : ps[j] # Linkerd
  <2>1. HasLinkerd(c) => c.form = "list" /\ ~BadElement(c.plugins)
    BY DEF HasOneLinkerd, InjectError, ListError
  <2>2. \A i, j \in DOMAIN c.plugins :
           c.plugins[i] = Linkerd /\ c.plugins[j] = Linkerd => i = j
    BY DEF HasLinkerd, HasOneLinkerd
  <2>3. \A j \in DOMAIN WithoutLinkerd(c.plugins) : WithoutLinkerd(c.plugins)[j] # Linkerd
    BY <1>1, <2>1, <2>2, WithoutLinkerdHasNone DEF HasLinkerd
  <2> QED BY <2>1, <2>3 DEF HasLinkerd
<1>3. inject(c) = [form |-> "list", plugins |-> Append(ps, Linkerd)]
  BY DEF inject
<1> HIDE DEF ps
<1>4. Linkerd \in Element
  BY DEF Element
<1>5. \A i \in DOMAIN Append(ps, Linkerd) :
        Append(ps, Linkerd)[i] = Linkerd => i = Len(ps) + 1
  BY <1>1, <1>2, <1>4, AppendProperties, LenProperties
<1>6. inject(c).form = "list" /\ inject(c).plugins = Append(ps, Linkerd)
  BY <1>3
<1> QED BY <1>5, <1>6 DEF HasOneLinkerd

\* revert takes it out, and leaves a file without it alone.
LEMMA RevertedHasNone ==
  ASSUME NEW c \in Content, ~RevertError(c), HasLinkerd(c) => HasOneLinkerd(c)
  PROVE  /\ ~HasLinkerd(reverted(c))
         /\ RevertNoop(c) => ~HasLinkerd(c)
<1>1. c.plugins \in Seq(Element)
  BY DEF Content
<1>2. HasLinkerd(c) => c.form = "list" /\ ~BadElement(c.plugins)
  BY DEF HasOneLinkerd, RevertError, ListError
<1>3. \A i, j \in DOMAIN c.plugins :
        c.plugins[i] = Linkerd /\ c.plugins[j] = Linkerd => i = j
  BY DEF HasLinkerd, HasOneLinkerd
<1>4. \A j \in DOMAIN WithoutLinkerd(c.plugins) : WithoutLinkerd(c.plugins)[j] # Linkerd
  BY <1>1, <1>2, <1>3, WithoutLinkerdHasNone DEF HasLinkerd
<1>5. reverted(c).plugins = WithoutLinkerd(c.plugins)
  BY DEF reverted, Content
<1>6. RevertNoop(c) => ~HasLinkerd(c)
  BY <1>1, <1>2, LinkerdIsFound DEF RevertNoop, HasLinkerd
<1> QED BY <1>4, <1>5, <1>6 DEF HasLinkerd

-----------------------------------------------------------------------------
(* What inject and revert leave of the other providers' plugins: all of it. *)

LEMMA OthersExists ==
  ASSUME NEW ps, NEW L \in Nat
  PROVE  \E f : f = [n \in 0..L |->
                       IF n = 0 THEN <<>>
                       ELSE IF ps[n] = Linkerd THEN f[n - 1] ELSE Append(f[n - 1], ps[n])]
<1> DEFINE With(q, e) == IF e = Linkerd THEN q ELSE Append(q, e)
           UpTo(f, m) == f = [n \in 0..m |-> IF n = 0 THEN <<>> ELSE With(f[n - 1], ps[n])]
           S == {m \in Nat : \E f : UpTo(f, m)}
<1>1. 0 \in S
  <2>1. UpTo([n \in 0..0 |-> <<>>], 0)
    OBVIOUS
  <2> QED BY <2>1
<1>2. ASSUME NEW m \in S PROVE m + 1 \in S
  <2>1. PICK f : UpTo(f, m)
    BY <1>2
  <2> DEFINE h == [n \in 0..(m + 1) |-> IF n <= m THEN f[n] ELSE With(f[m], ps[m + 1])]
  <2> HIDE DEF With
  <2>2. \A n \in 0..(m + 1) : h[n] = IF n = 0 THEN <<>> ELSE With(h[n - 1], ps[n])
    <3> SUFFICES ASSUME NEW n \in 0..(m + 1)
                 PROVE  h[n] = IF n = 0 THEN <<>> ELSE With(h[n - 1], ps[n])
      OBVIOUS
    <3>1. \A i \in 0..m : f[i] = IF i = 0 THEN <<>> ELSE With(f[i - 1], ps[i])
      BY <2>1
    <3>2. CASE n <= m
      <4>1. n \in 0..m /\ (n # 0 => n - 1 \in 0..m) /\ h[n] = f[n]
        BY <3>2
      <4>2. n # 0 => h[n - 1] = f[n - 1]
        BY <4>1
      <4> QED BY <3>1, <4>1, <4>2
    <3>3. CASE n = m + 1
      <4>1. n # 0 /\ n - 1 = m /\ h[m] = f[m] /\ h[n] = With(f[m], ps[m + 1])
        BY <3>3
      <4> QED BY <3>3, <4>1
    <3> QED BY <3>2, <3>3
  <2>3. UpTo(h, m + 1)
    BY <2>2
  <2> HIDE DEF UpTo, h
  <2> QED BY <2>3
<1>3. S = Nat
  <2> HIDE DEF S
  <2> QED BY <1>1, <1>2, PositionInduction DEF S
<1>4. \E f : UpTo(f, L)
  BY <1>3
<1> QED BY <1>4

\* The others are collected as the definition says.
LEMMA OthersDefined ==
  ASSUME NEW ps, Len(ps) \in Nat
  PROVE  /\ OthersUpTo(ps)[0] = <<>>
         /\ \A n \in 1..Len(ps) :
              OthersUpTo(ps)[n] = IF ps[n] = Linkerd THEN OthersUpTo(ps)[n - 1]
                                  ELSE Append(OthersUpTo(ps)[n - 1], ps[n])
<1> DEFINE P(f) == f = [n \in 0..Len(ps) |->
                          IF n = 0 THEN <<>>
                          ELSE IF ps[n] = Linkerd THEN f[n - 1]
                          ELSE Append(f[n - 1], ps[n])]
<1>1. OthersUpTo(ps) = CHOOSE f : P(f)
  BY DEF OthersUpTo
<1>2. \E f : P(f)
  BY OthersExists
<1>3. P(OthersUpTo(ps))
  <2> HIDE DEF P
  <2> QED BY <1>1, <1>2, Zenon
<1> DEFINE f == OthersUpTo(ps)
<1>4. \A n \in 0..Len(ps) :
        f[n] = IF n = 0 THEN <<>>
               ELSE IF ps[n] = Linkerd THEN f[n - 1] ELSE Append(f[n - 1], ps[n])
  <2> HIDE DEF f
  <2> QED BY <1>3 DEF f
<1> HIDE DEF f
<1>5. f[0] = <<>>
  BY <1>4
<1>6. \A n \in 1..Len(ps) :
        f[n] = IF ps[n] = Linkerd THEN f[n - 1] ELSE Append(f[n - 1], ps[n])
  BY <1>4
<1> QED BY <1>5, <1>6 DEF f

\* Linkerd at the end is none of them,
LEMMA OthersOfAppend ==
  ASSUME NEW ps \in Seq(Element), NEW qs \in Seq(Element), qs = Append(ps, Linkerd)
  PROVE  OthersUpTo(qs)[Len(qs)] = OthersUpTo(ps)[Len(ps)]
<1> DEFINE f == OthersUpTo(ps)
           g == OthersUpTo(qs)
           S == {k \in Nat : k <= Len(ps) => g[k] = f[k]}
<1>1. /\ Len(ps) \in Nat /\ Len(qs) = Len(ps) + 1 /\ qs[Len(ps) + 1] = Linkerd
      /\ \A k \in 1..Len(ps) : qs[k] = ps[k]
  <2>1. Linkerd \in Element
    BY DEF Element
  <2> QED BY <2>1, AppendProperties, LenProperties
<1>2. /\ f[0] = <<>>
      /\ \A n \in 1..Len(ps) :
           f[n] = IF ps[n] = Linkerd THEN f[n - 1] ELSE Append(f[n - 1], ps[n])
  BY <1>1, OthersDefined
<1>3. /\ g[0] = <<>>
      /\ \A n \in 1..(Len(ps) + 1) :
           g[n] = IF qs[n] = Linkerd THEN g[n - 1] ELSE Append(g[n - 1], qs[n])
  <2>1. Len(qs) \in Nat
    BY <1>1
  <2> QED BY <1>1, <2>1, OthersDefined
<1> HIDE DEF f, g
<1>4. 0 \in S
  BY <1>2, <1>3
<1>5. ASSUME NEW k \in S PROVE k + 1 \in S
  <2>1. CASE k + 1 <= Len(ps)
    <3>1. /\ k + 1 \in 1..Len(ps) /\ k + 1 \in 1..(Len(ps) + 1) /\ (k + 1) - 1 = k
          /\ g[k] = f[k]
      BY <1>1, <1>5, <2>1
    <3> QED BY <1>1, <1>2, <1>3, <3>1
  <2>2. CASE ~(k + 1 <= Len(ps))
    BY <2>2
  <2> QED BY <2>1, <2>2
<1>6. S = Nat
  <2> HIDE DEF S
  <2> QED BY <1>4, <1>5, PositionInduction DEF S
<1>7. g[Len(ps)] = f[Len(ps)]
  BY <1>1, <1>6
<1>8. Len(ps) + 1 \in 1..(Len(ps) + 1) /\ (Len(ps) + 1) - 1 = Len(ps)
  BY <1>1
<1> QED BY <1>1, <1>3, <1>7, <1>8 DEF f, g

\* nor is linkerd anywhere else.
LEMMA OthersOfRemove ==
  ASSUME NEW ps \in Seq(Element), NEW i \in DOMAIN ps, ps[i] = Linkerd,
         NEW qs \in Seq(Element), qs = RemoveAt(ps, i)
  PROVE  OthersUpTo(qs)[Len(qs)] = OthersUpTo(ps)[Len(ps)]
<1> DEFINE f == OthersUpTo(ps)
           g == OthersUpTo(qs)
           S == {k \in Nat : k <= Len(ps) - 1 => g[k] = IF k < i THEN f[k] ELSE f[k + 1]}
<1>1. /\ Len(ps) \in Nat /\ i \in 1..Len(ps) /\ Len(qs) = Len(ps) - 1
      /\ \A k \in 1..(Len(ps) - 1) : qs[k] = IF k < i THEN ps[k] ELSE ps[k + 1]
  BY RemoveAtElements, LenProperties
<1>2. /\ f[0] = <<>>
      /\ \A n \in 1..Len(ps) :
           f[n] = IF ps[n] = Linkerd THEN f[n - 1] ELSE Append(f[n - 1], ps[n])
  BY <1>1, OthersDefined
<1>3. /\ g[0] = <<>>
      /\ \A n \in 1..(Len(ps) - 1) :
           g[n] = IF qs[n] = Linkerd THEN g[n - 1] ELSE Append(g[n - 1], qs[n])
  <2>1. Len(qs) \in Nat
    BY <1>1
  <2> QED BY <1>1, <2>1, OthersDefined
<1> HIDE DEF f, g
<1>4. f[i] = f[i - 1]
  BY <1>1, <1>2
<1>5. 0 \in S
  BY <1>1, <1>2, <1>3
<1>6. ASSUME NEW k \in S PROVE k + 1 \in S
  <2>1. CASE k + 1 <= Len(ps) - 1 /\ k + 1 < i
    <3>1. /\ k + 1 \in 1..Len(ps) /\ k + 1 \in 1..(Len(ps) - 1) /\ (k + 1) - 1 = k
          /\ g[k] = f[k] /\ qs[k + 1] = ps[k + 1]
      BY <1>1, <1>6, <2>1
    <3>2. g[k + 1] = f[k + 1]
      BY <1>2, <1>3, <3>1
    <3> QED BY <2>1, <3>2
  <2>2. CASE k + 1 <= Len(ps) - 1 /\ ~(k + 1 < i)
    <3>1. /\ k + 2 \in 1..Len(ps) /\ k + 1 \in 1..(Len(ps) - 1) /\ (k + 1) - 1 = k
          /\ (k + 2) - 1 = k + 1 /\ (k + 1) + 1 = k + 2 /\ qs[k + 1] = ps[k + 2]
      BY <1>1, <2>2
    <3>2. g[k] = f[k + 1]
      <4>1. CASE k < i
        <5>1. g[k] = f[k] /\ k + 1 = i
          BY <1>1, <1>6, <2>2, <4>1
        <5> QED BY <1>4, <5>1
      <4>2. CASE ~(k < i)
        BY <1>1, <1>6, <2>2, <4>2
      <4> QED BY <4>1, <4>2
    <3>3. g[k + 1] = f[k + 2]
      BY <1>2, <1>3, <3>1, <3>2
    <3> QED BY <2>2, <3>1, <3>3
  <2>3. CASE ~(k + 1 <= Len(ps) - 1)
    BY <2>3
  <2> QED BY <2>1, <2>2, <2>3
<1>7. S = Nat
  <2> HIDE DEF S
  <2> QED BY <1>5, <1>6, PositionInduction DEF S
<1>8. Len(ps) - 1 \in S
  <2> HIDE DEF S
  <2> QED BY <1>1, <1>7
<1>9. g[Len(ps) - 1] = f[Len(ps)]
  <2>1. CASE Len(ps) - 1 < i
    BY <1>1, <1>4, <1>8, <2>1
  <2>2. CASE ~(Len(ps) - 1 < i)
    BY <1>1, <1>8, <2>2
  <2> QED BY <2>1, <2>2
<1> QED BY <1>1, <1>9 DEF f, g

LEMMA OthersOfWithout ==
  ASSUME NEW ps \in Seq(Element), NEW qs \in Seq(Element), qs = WithoutLinkerd(ps)
  PROVE  OthersUpTo(qs)[Len(qs)] = OthersUpTo(ps)[Len(ps)]
<1>1. CASE LinkerdAt(ps) = {}
  BY <1>1 DEF WithoutLinkerd
<1>2. CASE LinkerdAt(ps) # {}
  <2>1. PICK i \in DOMAIN ps : ps[i] = Linkerd /\ WithoutLinkerd(ps) = RemoveAt(ps, i)
    BY <1>2 DEF WithoutLinkerd, LinkerdAt
  <2> QED BY <2>1, OthersOfRemove
<1> QED BY <1>1, <1>2

\* inject and revert keep them, all and in their order.
LEMMA OthersAreKept ==
  ASSUME NEW c \in Content
  PROVE  Others(inject(c)) = Others(c) /\ Others(reverted(c)) = Others(c)
<1> DEFINE ps == c.plugins
           qs == WithoutLinkerd(ps)
           rs == IF c.form = "single" THEN ps ELSE qs
           ts == Append(rs, Linkerd)
<1>1. ps \in Seq(Element) /\ qs \in Seq(Element) /\ rs \in Seq(Element)
  BY WithoutLinkerdType DEF Content
<1>2. ts \in Seq(Element)
  <2>1. Linkerd \in Element
    BY DEF Element
  <2> HIDE DEF rs
  <2> QED BY <1>1, <2>1, AppendProperties
<1>3. inject(c).plugins = ts /\ reverted(c).plugins = qs
  BY DEF inject, reverted, Content
<1> HIDE DEF ps, qs, rs, ts
<1>4. OthersUpTo(qs)[Len(qs)] = OthersUpTo(ps)[Len(ps)]
  BY <1>1, OthersOfWithout DEF qs
<1>5. rs \in {ps, qs}
  BY DEF rs
<1>6. OthersUpTo(ts)[Len(ts)] = OthersUpTo(rs)[Len(rs)]
  BY <1>1, <1>2, OthersOfAppend DEF ts
<1> QED BY <1>3, <1>4, <1>5, <1>6 DEF Others, ps

LEMMA ConstantsHaveNone == ~HasLinkerd(Absent) /\ ~HasLinkerd(Unparsable)
BY EmptySeq DEF HasLinkerd, Absent, Unparsable

-----------------------------------------------------------------------------
(* All there is of linkerd's on the host is in the installer's log. *)

\* The log only grows while the process lives.
LEMMA LogGrows ==
  ASSUME TypeOK, [Next]_vars, main' # "exited"
  PROVE  \A n : Logged(n) => Logged(n)'
<1>1. CASE InstallRegularFiles \/ K8sWrite \/ CniRename
  <2>1. PICK n \in Entry : log' = log \/ log' = appendEntry(log, n)
    BY <1>1, NamesType, ListedType DEF InstallRegularFiles, K8sWrite, CniRename, TypeOK,
       LoopType
  <2>2. log \in Seq(Entry)
    BY DEF TypeOK, SharedType
  <2>3. \A m : (\E i \in DOMAIN log : log[i] = m) => \E i \in DOMAIN log' : log'[i] = m
    BY <2>1, <2>2, AppendEntryKeeps
  <2> QED BY <2>3 DEF Logged
<1>2. CASE UNCHANGED log
  BY <1>2 DEF Logged
<1>3. CASE Run /\ ~InstallRegularFiles
  BY <1>2, <1>3 DEF Run, WatchServiceAccount, WatchCniConfig, FeedData, ReadDir, Feed,
     FeedPanics, RunReturns, RunFails, RunErr, Gone, sharedVars
<1>4. CASE RemoveAll
  BY <1>2, <1>4 DEF RemoveAll, RevertEntry, RevertTruncate, RevertWrite, RemoveReturns,
     Gone, sharedVars
<1>5. CASE watchFS /\ ~K8sWrite /\ ~CniRename
  BY <1>2, <1>5 DEF watchFS, ReceiveEvent, LoopCtxDone, SendErr, K8sReadToken, K8sReadCA,
     CniRead, CniUnlink, sharedVars
<1>6. CASE Provider \/ Kubelet \/ UNCHANGED vars
  BY <1>2, <1>6 DEF Provider, ProviderWrite, ProviderOpen, ProviderClose, ProviderRemove,
     Kubelet, RotateToken, Signal, Kill, Restart, Gone, sharedVars, vars
<1> QED BY <1>1, <1>3, <1>4, <1>5, <1>6 DEF Next

\* A step leaves what is on the host the installer's own if what it adds is logged.
LEMMA LeftStaysOwn ==
  ASSUME LeftIsOwn, main # "exited", \A n : Logged(n) => Logged(n)',
         \A n \in CniFile : \/ file'[n] = file[n] \/ ~HasLinkerd(file'[n])
                            \/ HasOneLinkerd(file'[n]) /\ Logged(n)',
         kubeconfig' \in {kubeconfig, NoCreds} \/ Logged(Kubeconfig)',
         bin' => bin \/ Logged(Bin)',
         loop' = "cniRename" => (loop = "cniRename" /\ merged' = merged)
                                \/ HasOneLinkerd(merged'),
         main' \in {"revertTruncate", "revertWrite"} =>
           \/ main \in {"revertTruncate", "revertWrite"} /\ rbuf' = rbuf
           \/ ~HasLinkerd(rbuf')
  PROVE  LeftIsOwn'
<1>1. \A n \in CniFile : HasLinkerd(file'[n]) => HasOneLinkerd(file'[n]) /\ Logged(n)'
  BY DEF LeftIsOwn, Left
<1>2. kubeconfig' # NoCreds => Logged(Kubeconfig)'
  BY DEF LeftIsOwn, Left
<1>3. bin' => Logged(Bin)'
  BY DEF LeftIsOwn, Left
<1>4. \A n \in Left' : Logged(n)'
  BY <1>1, <1>2, <1>3 DEF Left
<1> QED BY <1>1, <1>4 DEF LeftIsOwn

\* Providers write configurations without linkerd.
LEMMA ProviderAddsNone ==
  ASSUME NoneConfigured, TypeOK, Provider
  PROVE  \A n \in CniFile : file'[n] = file[n] \/ ~HasLinkerd(file'[n])
<1>1. /\ file \in [CniFile -> FileState] /\ half \subseteq ProviderWrites
      /\ \A w \in ProviderWrites : w[1] \in CniFile /\ ~HasLinkerd(w[2])
  BY InstallerAssumption DEF NoneConfigured, TypeOK, HostType, EnvType
<1>2. \/ UNCHANGED file
      \/ \E n \in CniFile, c \in {Absent, Unparsable} : file' = [file EXCEPT ![n] = c]
      \/ \E w \in ProviderWrites : file' = [file EXCEPT ![w[1]] = w[2]]
  BY <1>1 DEF Provider, ProviderWrite, ProviderOpen, ProviderClose, ProviderRemove
<1> QED BY <1>1, <1>2, ConstantsHaveNone

LEMMA NextLeftIsOwn ==
  ASSUME NoneConfigured, TypeOK, PhaseInv, LeftIsOwn, restarts' = 0, [Next]_vars
  PROVE  LeftIsOwn'
<1> SUFFICES ASSUME main' # "exited" PROVE LeftIsOwn'
  BY DEF LeftIsOwn
<1>1. \A n : Logged(n) => Logged(n)'
  BY LogGrows
<1>2. main # "exited"
  <2>1. restarts \in Nat /\ (main = "exited" => loop = "off")
    BY DEF TypeOK, EnvType, PhaseInv
  <2>2. ASSUME main = "exited" PROVE UNCHANGED main \/ restarts' = restarts + 1
    BY <2>1, <2>2 DEF Next, Run, InstallRegularFiles, WatchServiceAccount, WatchCniConfig,
       FeedData, ReadDir, Feed, FeedPanics, RunFails, RunErr, RunReturns, RemoveAll,
       RevertEntry, RevertTruncate, RevertWrite, RemoveReturns, watchFS, ReceiveEvent,
       LoopCtxDone, SendErr, K8sReadToken, K8sReadCA, K8sWrite, CniRead, CniRename,
       CniUnlink, Provider, ProviderWrite, ProviderOpen, ProviderClose, ProviderRemove,
       Kubelet, RotateToken, Signal, Kill, Restart, mainVars, vars
  <2> QED BY <2>1, <2>2
<1>3. \A n \in CniFile : /\ file[n] \in Content
                         /\ HasLinkerd(file[n]) => HasOneLinkerd(file[n])
  BY <1>2 DEF TypeOK, HostType, FileState, LeftIsOwn
<1>4. CASE /\ UNCHANGED <<file, kubeconfig, bin>>
           /\ loop' # "cniRename" \/ UNCHANGED <<loop, merged>>
           /\ main' \notin {"revertTruncate", "revertWrite"} \/ UNCHANGED <<main, rbuf>>
  BY <1>1, <1>2, <1>4, LeftStaysOwn
<1>5. CASE \/ WatchServiceAccount \/ WatchCniConfig \/ ReadDir \/ FeedPanics \/ RunReturns
           \/ RotateToken \/ Signal \/ UNCHANGED vars
  BY <1>4, <1>5 DEF WatchServiceAccount, WatchCniConfig, ReadDir, FeedPanics, RunReturns,
     RotateToken, Signal, vars, hostVars, mainVars, loopVars
<1>6. CASE FeedData \/ Feed \/ ReceiveEvent
  <2>1. loop' # "cniRename"
    BY <1>6, DeliverLoop DEF FeedData, Feed, ReceiveEvent
  <2> QED BY <1>4, <1>6, <2>1 DEF FeedData, Feed, ReceiveEvent, hostVars, mainVars
<1>7. CASE LoopCtxDone \/ SendErr \/ K8sReadToken \/ K8sReadCA
  BY <1>4, <1>7 DEF LoopCtxDone, SendErr, K8sReadToken, K8sReadCA, hostVars, mainVars
<1>8. CASE InstallRegularFiles
  <2>1. Logged(Bin)'
    BY <1>8, NamesType, AppendEntryKeeps DEF InstallRegularFiles, TypeOK, SharedType, Logged
  <2> QED BY <1>1, <1>2, <1>8, <2>1, LeftStaysOwn DEF InstallRegularFiles, loopVars
<1>9. CASE RunFails \/ RunErr \/ RemoveReturns \/ Kill \/ Restart
  BY <1>2, <1>9 DEF RunFails, RunErr, RemoveReturns, Kill, Gone, Restart
<1>10. CASE RevertEntry
  <2>1. ASSUME main' = "revertTruncate" PROVE ~HasLinkerd(rbuf')
    <3>1. PICK n \in CniFile : ~RevertError(file[n]) /\ rbuf' = reverted(file[n])
      BY <1>10, <2>1 DEF RevertEntry
    <3> QED BY <1>3, <3>1, RevertedHasNone
  <2>2. /\ UNCHANGED <<file, loop, merged>> /\ kubeconfig' \in {kubeconfig, NoCreds}
        /\ bin' => bin
        /\ main' \in {"remove", "revertTruncate"}
    BY <1>10 DEF RevertEntry, loopVars
  <2> QED BY <1>1, <1>2, <2>1, <2>2, LeftStaysOwn
<1>11. CASE RevertTruncate \/ RevertWrite
  <2>1. ~HasLinkerd(rbuf)
    BY <1>2, <1>11 DEF RevertTruncate, RevertWrite, LeftIsOwn
  <2>2. PICK n \in CniFile : file' \in {file, [file EXCEPT ![n] = Unparsable],
                                              [file EXCEPT ![n] = rbuf]}
    BY <1>11 DEF RevertTruncate, RevertWrite, TypeOK, MainType
  <2>3. \A m \in CniFile : file'[m] = file[m] \/ ~HasLinkerd(file'[m])
    BY <2>1, <2>2, ConstantsHaveNone DEF TypeOK, HostType
  <2>4. /\ UNCHANGED <<kubeconfig, bin, loop, merged>>
        /\ main' = "revertWrite" => main = "revertTruncate" /\ rbuf' = rbuf
        /\ main' \in {"remove", "revertWrite"}
    BY <1>11 DEF RevertTruncate, RevertWrite, loopVars
  <2> QED BY <1>1, <1>2, <2>3, <2>4, LeftStaysOwn
<1>12. CASE K8sWrite
  <2>1. kubeconfig' = kubeconfig \/ Logged(Kubeconfig)'
    BY <1>12, NamesType, AppendEntryKeeps DEF K8sWrite, TypeOK, SharedType, Logged
  <2>2. UNCHANGED <<file, bin, main, rbuf>> /\ loop' # "cniRename"
    BY <1>12 DEF K8sWrite, mainVars
  <2> QED BY <1>1, <1>2, <2>1, <2>2, LeftStaysOwn
<1>13. CASE CniRead
  <2>1. ASSUME loop' = "cniRename" PROVE HasOneLinkerd(merged')
    <3>1. ev \in CniFile /\ ~InjectError(file[ev]) /\ merged' = inject(file[ev])
      BY <1>13, <2>1 DEF CniRead, TypeOK, LoopType
    <3> QED BY <1>3, <3>1, InjectedHasOne
  <2>2. UNCHANGED <<file, kubeconfig, bin, main, rbuf>>
    BY <1>13 DEF CniRead, hostVars, mainVars
  <2> QED BY <1>1, <1>2, <2>1, <2>2, LeftStaysOwn
<1>14. CASE CniRename
  <2>1. HasOneLinkerd(merged) /\ Listed(ev) \in CniFile /\ Listed(ev) \in Entry
    BY <1>2, <1>14, ListedType, NamesType DEF CniRename, LeftIsOwn, TypeOK, LoopType
  <2>2. UNCHANGED <<kubeconfig, bin, main, rbuf>> /\ loop' # "cniRename"
    BY <1>14 DEF CniRename, mainVars
  <2>3. CASE UNCHANGED file
    BY <1>1, <1>2, <2>2, <2>3, LeftStaysOwn
  <2>4. CASE /\ file' = [file EXCEPT ![Listed(ev)] = merged]
             /\ log' = appendEntry(log, Listed(ev))
    <3>1. PICK n \in CniFile : n = Listed(ev) /\ n \in Entry
      BY <2>1
    <3>2. log' = appendEntry(log, n) /\ log \in Seq(Entry) /\ n \in Entry
      BY <2>4, <3>1 DEF TypeOK, SharedType
    <3>3. \E i \in DOMAIN log' : log'[i] = n
      BY <3>2, AppendEntryKeeps
    <3>4. file' = [file EXCEPT ![n] = merged] /\ file \in [CniFile -> FileState]
      BY <2>4, <3>1 DEF TypeOK, HostType
    <3>5. \A m \in CniFile : file'[m] = file[m] \/ (HasOneLinkerd(file'[m]) /\ Logged(m)')
      BY <2>1, <3>3, <3>4 DEF Logged
    <3> QED BY <1>1, <1>2, <2>2, <3>5, LeftStaysOwn
  <2> QED BY <1>14, <2>3, <2>4 DEF CniRename
<1>15. CASE CniUnlink
  <2>1. \A n \in CniFile : file'[n] = file[n] \/ ~HasLinkerd(file'[n])
    BY <1>15, ConstantsHaveNone DEF CniUnlink, TypeOK, HostType
  <2> QED BY <1>1, <1>2, <1>15, <2>1, LeftStaysOwn DEF CniUnlink, mainVars
<1>16. CASE Provider
  <2>1. \A n \in CniFile : file'[n] = file[n] \/ ~HasLinkerd(file'[n])
    BY <1>16, ProviderAddsNone
  <2>2. UNCHANGED <<kubeconfig, bin, main, rbuf, loop, merged>>
    BY <1>16 DEF Provider, ProviderWrite, ProviderOpen, ProviderClose, ProviderRemove,
       mainVars, loopVars
  <2> QED BY <1>1, <1>2, <2>1, <2>2, LeftStaysOwn
<1> QED BY <1>5, <1>6, <1>7, <1>8, <1>9, <1>10, <1>11, <1>12, <1>13, <1>14, <1>15, <1>16
        DEF Next, Run, RemoveAll, watchFS, Kubelet

-----------------------------------------------------------------------------
(* Remove takes away what is in the log. *)

LEMMA NamesDiffer == Bin \notin CniFile /\ Kubeconfig \notin CniFile /\ Bin # Kubeconfig
BY DEF CniFile, Bin, Kubeconfig

LEMMA TailKeeps ==
  ASSUME NEW q \in Seq(Entry), q # <<>>, NEW n, n # Head(q), \E i \in DOMAIN q : q[i] = n
  PROVE  \E i \in DOMAIN Tail(q) : Tail(q)[i] = n
<1>1. PICK i \in DOMAIN q : q[i] = n
  OBVIOUS
<1>2. i # 1
  BY <1>1, HeadTailProperties
<1>3. i - 1 \in DOMAIN Tail(q) /\ Tail(q)[i - 1] = q[i]
  BY <1>1, <1>2, HeadTailProperties
<1> QED BY <1>1, <1>3

\* While Remove runs beside an event loop that ended, what is left only gets less, and
\* what Remove has done with it not left any more.
LEMMA NextLeftIsToDo ==
  ASSUME NoneConfigured, TypeOK, PhaseInv, LeftIsOwn, LeftIsToDo, [Next]_vars
  PROVE  LeftIsToDo'
<1> DEFINE Removing == main \in {"remove", "revertTruncate", "revertWrite"}
           ToDo(n) == \E i \in DOMAIN todo : todo[i] = n
<1> SUFFICES ASSUME joined', Removing' PROVE LeftIsToDo'
  BY DEF LeftIsToDo
<1>1. CASE FeedPanics \/ RunReturns
  <2>1. /\ main # "exited" /\ main' = "remove" /\ todo' = log
        /\ UNCHANGED <<file, kubeconfig, bin, loop>> /\ loop \in {"closeErr", "done"}
    BY <1>1 DEF FeedPanics, RunReturns, hostVars, loopVars
  <2>2. \A n \in Left' : ToDo(n)'
    BY <2>1 DEF LeftIsOwn, Left, Logged
  <2> QED BY <2>1, <2>2 DEF LeftIsToDo
<1>2. ASSUME Removing, joined, UNCHANGED <<main, joined, todo>>,
             Provider \/ SendErr \/ UNCHANGED <<file, kubeconfig, bin, loop, rerr>>
      PROVE  LeftIsToDo'
  <2>1. loop \in {"closeErr", "done"}
    BY <1>2 DEF LeftIsToDo
  <2>2. /\ UNCHANGED <<kubeconfig, bin, rerr>> /\ loop' \in {"closeErr", "done"}
    BY <1>2, <2>1 DEF Provider, ProviderWrite, ProviderOpen, ProviderClose, ProviderRemove,
       SendErr, hostVars, mainVars, loopVars
  <2>3. \A n \in CniFile : file'[n] = file[n] \/ ~HasLinkerd(file'[n])
    BY <1>2, ProviderAddsNone DEF SendErr, hostVars
  <2>4. Left' \subseteq Left
    BY <2>2, <2>3 DEF Left
  <2>5. main = "revertWrite" => Head(todo) \in CniFile
    BY DEF TypeOK, MainType
  <2> QED BY <1>2, <2>2, <2>3, <2>4, <2>5 DEF LeftIsToDo
<1>3. CASE Provider \/ SendErr \/ RotateToken \/ Signal \/ UNCHANGED vars
  <2>1. UNCHANGED <<main, joined, todo>>
    BY <1>3 DEF Provider, ProviderWrite, ProviderOpen, ProviderClose, ProviderRemove,
       SendErr, RotateToken, Signal, mainVars, vars
  <2>2. Provider \/ SendErr \/ UNCHANGED <<file, kubeconfig, bin, loop, rerr>>
    BY <1>3 DEF RotateToken, Signal, mainVars, loopVars, hostVars, vars
  <2> QED BY <1>2, <2>1, <2>2
<1>4. CASE \/ ReceiveEvent \/ LoopCtxDone \/ K8sReadToken \/ K8sReadCA \/ K8sWrite
           \/ CniRead \/ CniRename \/ CniUnlink
  <2>1. Removing /\ joined /\ loop \notin {"closeErr", "done"}
    BY <1>4 DEF ReceiveEvent, LoopCtxDone, K8sReadToken, K8sReadCA, K8sWrite, CniRead,
       CniRename, CniUnlink, mainVars
  <2> QED BY <2>1 DEF LeftIsToDo
<1>5. CASE Run /\ ~FeedPanics /\ ~RunReturns
  BY <1>5 DEF Run, InstallRegularFiles, WatchServiceAccount, WatchCniConfig, FeedData,
     ReadDir, Feed, RunFails, RunErr, Gone, mainVars
<1>6. CASE RemoveReturns \/ Kill \/ Restart
  BY <1>6 DEF RemoveReturns, Kill, Restart, Gone
<1>7. ASSUME RemoveAll, ~RemoveReturns
      PROVE  /\ joined /\ main # "exited" /\ loop' \in {"closeErr", "done"}
             /\ todo # <<>> /\ todo \in Seq(Entry)
             /\ \A n \in CniFile : /\ file[n] \in Content
                                   /\ HasLinkerd(file[n]) => HasOneLinkerd(file[n])
             /\ rerr \/ \A n \in Left : ToDo(n)
  <2>1. Removing /\ joined /\ UNCHANGED loop /\ todo # <<>>
    BY <1>7 DEF RemoveAll, RevertEntry, RevertTruncate, RevertWrite, loopVars, TypeOK,
       MainType
  <2> QED BY <2>1 DEF LeftIsToDo, LeftIsOwn, TypeOK, HostType, MainType, FileState
<1>8. ASSUME RemoveAll, ~RemoveReturns, Left' \subseteq Left, Head(todo) \notin Left',
             todo' = Tail(todo), main' = "remove", rerr' = rerr
      PROVE  LeftIsToDo'
  <2>1. \A n \in Left' : ToDo(n) => \E i \in DOMAIN Tail(todo) : Tail(todo)[i] = n
    BY <1>7, <1>8, TailKeeps
  <2> QED BY <1>7, <1>8, <2>1 DEF LeftIsToDo
<1>9. CASE RevertEntry
  <2>1. RemoveAll /\ ~RemoveReturns /\ UNCHANGED file
    BY <1>9 DEF RemoveAll, RevertEntry, RemoveReturns
  <2>2. Bin \notin CniFile /\ Kubeconfig \notin CniFile /\ Bin # Kubeconfig
    BY NamesDiffer
  <2>3. CASE Head(todo) = Bin /\ bin' = FALSE /\ todo' = Tail(todo)
             /\ UNCHANGED <<main, kubeconfig, rerr>>
    <3>1. Left' \subseteq Left /\ Head(todo) \notin Left'
      BY <2>1, <2>2, <2>3 DEF Left
    <3> QED BY <1>8, <1>9, <2>1, <2>3, <3>1 DEF RevertEntry
  <2>4. CASE Head(todo) = Kubeconfig /\ kubeconfig' = NoCreds /\ todo' = Tail(todo)
             /\ UNCHANGED <<main, bin, rerr>>
    <3>1. Left' \subseteq Left /\ Head(todo) \notin Left'
      BY <2>1, <2>2, <2>4 DEF Left
    <3> QED BY <1>8, <1>9, <2>1, <2>4, <3>1 DEF RevertEntry
  <2>5. CASE rerr' /\ UNCHANGED main
    BY <1>7, <1>9, <2>1, <2>5 DEF RevertEntry, LeftIsToDo
  <2>6. CASE /\ Head(todo) \in CniFile /\ ~RevertError(file[Head(todo)])
             /\ RevertNoop(file[Head(todo)]) /\ todo' = Tail(todo)
             /\ UNCHANGED <<main, bin, kubeconfig, rerr>>
    <3>1. ~HasLinkerd(file[Head(todo)])
      BY <1>7, <2>1, <2>6, RevertedHasNone
    <3>2. Left' = Left /\ Head(todo) \notin Left
      BY <2>1, <2>2, <2>6, <3>1 DEF Left
    <3> QED BY <1>8, <1>9, <2>1, <2>6, <3>2 DEF RevertEntry
  <2>7. CASE main' = "revertTruncate" /\ UNCHANGED <<todo, bin, kubeconfig, rerr>>
    <3>1. Left' = Left
      BY <2>1, <2>7 DEF Left
    <3> QED BY <1>7, <2>1, <2>7, <3>1 DEF LeftIsToDo
  <2> QED BY <1>9, <2>3, <2>4, <2>5, <2>6, <2>7 DEF RevertEntry
<1>10. CASE RevertTruncate
  <2>1. RemoveAll /\ ~RemoveReturns /\ UNCHANGED <<bin, kubeconfig>>
        /\ Head(todo) \in CniFile /\ file \in [CniFile -> FileState]
    BY <1>10 DEF RemoveAll, RevertTruncate, RemoveReturns, TypeOK, MainType, HostType
  <2>2. ASSUME file[Head(todo)] = Absent, UNCHANGED <<file, rerr>>, todo' = Tail(todo),
               main' = "remove"
        PROVE  LeftIsToDo'
    <3>1. Left' = Left /\ Head(todo) \notin Left
      BY <2>1, <2>2, ConstantsHaveNone, NamesDiffer DEF Left
    <3> QED BY <1>8, <2>1, <2>2, <3>1
  <2>3. ASSUME file' = [file EXCEPT ![Head(todo)] = Unparsable], todo' = todo,
               main' = "revertWrite", rerr' = rerr
        PROVE  LeftIsToDo'
    <3>1. Left' \subseteq Left /\ ~HasLinkerd(file'[Head(todo)])
      BY <2>1, <2>3, ConstantsHaveNone DEF Left
    <3> QED BY <1>7, <2>1, <2>3, <3>1 DEF LeftIsToDo
  <2>4. ASSUME rerr', main' = "remove" PROVE LeftIsToDo'
    BY <1>7, <2>1, <2>4 DEF LeftIsToDo
  <2> QED BY <1>10, <2>2, <2>3, <2>4 DEF RevertTruncate, TypeOK, MainType
<1>11. CASE RevertWrite
  <2>1. /\ RemoveAll /\ ~RemoveReturns /\ UNCHANGED <<bin, kubeconfig>>
        /\ Head(todo) \in CniFile /\ file \in [CniFile -> FileState]
        /\ todo' = Tail(todo) /\ main' = "remove" /\ (rerr' \/ rerr' = rerr)
        /\ file' = file \/ file' = [file EXCEPT ![Head(todo)] = rbuf]
    BY <1>11 DEF RemoveAll, RevertWrite, RemoveReturns, TypeOK, MainType, HostType
  <2>2. ~HasLinkerd(rbuf) /\ ~HasLinkerd(file[Head(todo)])
    BY <1>7, <1>11, <2>1 DEF RevertWrite, LeftIsOwn, LeftIsToDo
  <2>3. Left' \subseteq Left /\ Head(todo) \notin Left'
    BY <2>1, <2>2, NamesDiffer DEF Left
  <2>4. CASE rerr'
    BY <1>7, <2>1, <2>4 DEF LeftIsToDo
  <2> QED BY <1>8, <2>1, <2>3, <2>4
<1> QED BY <1>1, <1>3, <1>4, <1>5, <1>6, <1>9, <1>10, <1>11
        DEF Next, RemoveAll, watchFS, Kubelet

-----------------------------------------------------------------------------
(* The theorems. *)

LEMMA InitRemovalInv == NoneConfigured /\ Init => RemovalInv
<1> SUFFICES ASSUME NoneConfigured, Init PROVE RemovalInv
  OBVIOUS
<1>1. Left = {} /\ main = "install" /\ loop = "off" /\ outcome = "running"
  BY DEF Init, NoneConfigured, Left
<1> QED BY <1>1 DEF Init, NoneConfigured, RemovalInv, LeftIsOwn, LeftIsToDo

\* The outcome of Remove is there only once it is over.
LEMMA RemovedStays ==
  ASSUME TypeOK, outcome = "removed" => main = "exited", [Next]_vars
  PROVE  outcome' = "removed" => main' = "exited"
<1>1. CASE Run \/ RemoveAll
  BY <1>1 DEF Run, RemoveAll, InstallRegularFiles, WatchServiceAccount, WatchCniConfig,
     FeedData, ReadDir, Feed, FeedPanics, RunFails, RunErr, RunReturns, RevertEntry,
     RevertTruncate, RevertWrite, RemoveReturns, Gone, mainVars
<1>2. CASE watchFS
  BY <1>2 DEF watchFS, ReceiveEvent, LoopCtxDone, SendErr, K8sReadToken, K8sReadCA,
     K8sWrite, CniRead, CniRename, CniUnlink, mainVars
<1>3. CASE Provider \/ Kubelet \/ UNCHANGED vars
  BY <1>3 DEF Provider, ProviderWrite, ProviderOpen, ProviderClose, ProviderRemove,
     Kubelet, RotateToken, Signal, Kill, Restart, Gone, mainVars, vars
<1> QED BY <1>1, <1>2, <1>3 DEF Next

LEMMA NextRemovalInv ==
  NoneConfigured /\ TypeOK /\ PhaseInv /\ RemovalInv /\ [Next]_vars => RemovalInv'
<1> SUFFICES ASSUME NoneConfigured, TypeOK, PhaseInv, RemovalInv, [Next]_vars,
                    restarts' = 0
             PROVE  RemovalInv'
  BY DEF RemovalInv
<1>1. restarts = 0
  BY DEF Next, Run, InstallRegularFiles, WatchServiceAccount, WatchCniConfig, FeedData,
     ReadDir, Feed, FeedPanics, RunFails, RunErr, RunReturns, RemoveAll, RevertEntry,
     RevertTruncate, RevertWrite, RemoveReturns, watchFS, ReceiveEvent, LoopCtxDone,
     SendErr, K8sReadToken, K8sReadCA, K8sWrite, CniRead, CniRename, CniUnlink, Provider,
     ProviderWrite, ProviderOpen, ProviderClose, ProviderRemove, Kubelet, RotateToken,
     Signal, Kill, Restart, TypeOK, EnvType, envVars, vars
<1>2. LeftIsOwn' /\ LeftIsToDo'
  BY <1>1, NextLeftIsOwn, NextLeftIsToDo DEF RemovalInv
<1>3. outcome' = "removed" => main' = "exited"
  BY <1>1, RemovedStays DEF RemovalInv
<1> QED BY <1>2, <1>3 DEF RemovalInv

\* Once Remove has found nothing left to do, only providers change the host.
LEMMA CleanStays ==
  ASSUME NoneConfigured, TypeOK, PhaseInv, RemovalInv, RemovalInv', JoinedRemovalIsClean,
         [Next]_vars
  PROVE  JoinedRemovalIsClean'
<1> SUFFICES ASSUME outcome' = "removed", joined', restarts' = 0 PROVE Untouched'
  BY DEF JoinedRemovalIsClean
<1>1. main' = "exited"
  BY DEF RemovalInv
<1>2. CASE RemoveReturns
  <2>1. /\ joined /\ restarts = 0 /\ rerr = FALSE /\ todo = <<>> /\ main = "remove"
        /\ UNCHANGED <<file, kubeconfig, bin>>
    BY <1>2 DEF RemoveReturns, Gone, hostVars, envVars, TypeOK, MainType
  <2>2. Left = {}
    BY <2>1 DEF RemovalInv, LeftIsToDo
  <2>3. \A n \in CniFile : ~HasLinkerd(file[n])
    BY <2>2 DEF Left
  <2>4. kubeconfig = NoCreds /\ (bin = FALSE)
    BY <2>2 DEF Left, TypeOK, HostType
  <2> QED BY <2>1, <2>3, <2>4 DEF Untouched
<1>3. CASE main = "exited" /\ ~RemoveReturns
  <2>1. loop = "off"
    BY <1>3 DEF PhaseInv
  <2>2. Provider \/ RotateToken \/ UNCHANGED vars
    BY <1>1, <1>3, <2>1 DEF Next, Run, InstallRegularFiles, WatchServiceAccount,
       WatchCniConfig, FeedData, ReadDir, Feed, FeedPanics, RunFails, RunErr, RunReturns,
       RemoveAll, RevertEntry, RevertTruncate, RevertWrite, watchFS, ReceiveEvent,
       LoopCtxDone, SendErr, K8sReadToken, K8sReadCA, K8sWrite, CniRead, CniRename,
       CniUnlink, Kubelet, Signal, Kill, Restart
  <2>3. UNCHANGED <<kubeconfig, bin, outcome, joined, restarts>>
    BY <2>2 DEF Provider, ProviderWrite, ProviderOpen, ProviderClose, ProviderRemove,
       RotateToken, mainVars, hostVars, envVars, vars
  <2>4. Untouched
    BY <2>3 DEF JoinedRemovalIsClean
  <2>5. \A n \in CniFile : file'[n] = file[n] \/ ~HasLinkerd(file'[n])
    BY <2>2, ProviderAddsNone DEF RotateToken, hostVars, vars
  <2> QED BY <2>3, <2>4, <2>5 DEF Untouched
<1>4. CASE main # "exited" /\ ~RemoveReturns
  <2>1. outcome' # "removed" \/ UNCHANGED main
    BY <1>1, <1>4 DEF Next, Run, InstallRegularFiles, WatchServiceAccount,
       WatchCniConfig, FeedData, ReadDir, Feed, FeedPanics, RunFails, RunErr, RunReturns,
       RemoveAll, RevertEntry, RevertTruncate, RevertWrite, watchFS, ReceiveEvent,
       LoopCtxDone, SendErr, K8sReadToken, K8sReadCA, K8sWrite, CniRead, CniRename,
       CniUnlink, Provider, ProviderWrite, ProviderOpen, ProviderClose, ProviderRemove,
       Kubelet, RotateToken, Signal, Kill, Restart, Gone, mainVars, vars
  <2> QED BY <1>1, <1>4, <2>1
<1> QED BY <1>2, <1>3, <1>4

\* On a host whose configurations hold no linkerd but for the installer, all that is there
\* of linkerd's is in the log of the first instance, and Remove comes to all of it
\* (CniInstaller.Remove, internal/cni/remove.go): the binary, the kubeconfig and each list
\* injected into, which holds linkerd once, whatever providers write meanwhile.
THEOREM RemovalInvariant ==
  ASSUME NoneConfigured
  PROVE  Spec => []RemovalInv
<1>1. Init => RemovalInv
  BY InitRemovalInv
<1>2. TypeOK /\ ServiceInv /\ RemovalInv /\ [Next]_vars => RemovalInv'
  BY NextRemovalInv DEF ServiceInv
<1> QED BY <1>1, <1>2, TypeCorrect, ServiceInvariant, PTL DEF Spec

\* A first instance that ends without an error from Remove has removed all it installed, if
\* its event loop had ended when Remove began (cni-install/main.go, which does not wait for
\* it to end).
THEOREM RemovalIsClean ==
  ASSUME NoneConfigured
  PROVE  Spec => []JoinedRemovalIsClean
<1>1. Init => JoinedRemovalIsClean
  BY DEF Init, JoinedRemovalIsClean
<1>2. /\ TypeOK /\ ServiceInv /\ RemovalInv /\ RemovalInv' /\ JoinedRemovalIsClean
      /\ [Next]_vars
      => JoinedRemovalIsClean'
  BY CleanStays DEF ServiceInv
<1> QED BY <1>1, <1>2, TypeCorrect, ServiceInvariant, RemovalInvariant, PTL DEF Spec

-----------------------------------------------------------------------------
(* The configurations of providers that do not write any more. *)

\* A single-plugin file and a list that are both there at the start are of one provider.
NobodyWrites ==
  /\ MaxWrites = 0
  /\ \A f \in InitialFiles, b \in Bases :
       \/ f[<<b, "conf">>] = Absent
       \/ f[<<b, "conflist">>] \in {Absent, Unparsable}
       \/ Others(f[<<b, "conflist">>]) = Others(f[<<b, "conf">>])

LEMMA ListsOnlyKept ==
  ASSUME NEW q \in Seq(Entry), ListsOnly(q)
  PROVE  /\ \A n \in Entry : n \notin CniFile \/ n[2] = "conflist"
                               => ListsOnly(appendEntry(q, n))
         /\ q # <<>> => ListsOnly(Tail(q))
<1>1. ASSUME NEW n \in Entry, n \notin CniFile \/ n[2] = "conflist"
      PROVE  ListsOnly(appendEntry(q, n))
  <2>1. \A i \in DOMAIN Append(q, n) :
          Append(q, n)[i] = n \/ (i \in DOMAIN q /\ Append(q, n)[i] = q[i])
    BY AppendProperties, LenProperties
  <2>2. ListsOnly(Append(q, n))
    BY <1>1, <2>1 DEF ListsOnly
  <2> QED BY <2>2 DEF appendEntry
<1>2. ASSUME q # <<>> PROVE ListsOnly(Tail(q))
  <2>1. \A i \in DOMAIN Tail(q) : i + 1 \in DOMAIN q /\ Tail(q)[i] = q[i + 1]
    BY <1>2, HeadTailProperties, LenProperties
  <2> QED BY <2>1 DEF ListsOnly
<1> QED BY <1>1, <1>2

LEMMA NobodyProvides ==
  ASSUME MaxWrites = 0, TypeOK, half = {}, [Next]_vars
  PROVE  half' = {} /\ UNCHANGED provided /\ ~Provider
<1>1. ~Provider
  BY DEF Provider, ProviderWrite, ProviderOpen, ProviderClose, ProviderRemove, TypeOK,
     EnvType
<1>2. UNCHANGED <<half, provided>>
  BY <1>1 DEF Next, Run, InstallRegularFiles, WatchServiceAccount, WatchCniConfig, FeedData,
     ReadDir, Feed, FeedPanics, RunFails, RunErr, RunReturns, RemoveAll, RevertEntry,
     RevertTruncate, RevertWrite, RemoveReturns, watchFS, ReceiveEvent, LoopCtxDone,
     SendErr, K8sReadToken, K8sReadCA, K8sWrite, CniRead, CniRename, CniUnlink, Kubelet,
     RotateToken, Signal, Kill, Restart, envVars, vars
<1> QED BY <1>1, <1>2

\* What Remove rewrites is a list.
LEMMA HeadListed ==
  ASSUME NEW q \in Seq(Entry), q # <<>>, ListsOnly(q), Head(q) \in CniFile
  PROVE  Head(q)[2] = "conflist"
<1>1. 1 \in DOMAIN q /\ Head(q) = q[1]
  BY LenProperties
<1> QED BY <1>1 DEF ListsOnly

\* Steps that change no file.
LEMMA NoFileChanged ==
  ASSUME KeepsConfig, half' = {}, UNCHANGED <<provided, file>>, ListsOnly(log'),
         ListsOnly(todo'),
         \/ UNCHANGED <<loop, ev, merged>> /\ (rerr => rerr')
         \/ loop' \notin {"cniRename", "cniUnlink"}
         \/ loop' = "cniRename" /\ Provides(merged', ev'),
         \/ UNCHANGED <<main, todo, rbuf>>
         \/ main # "revertWrite" /\ main' \notin {"revertTruncate", "revertWrite"}
         \/ main # "revertWrite" /\ Provides(rbuf', Head(todo'))
  PROVE  KeepsConfig'
<1>1. FilesProvide'
  BY DEF KeepsConfig, FilesProvide, Provides
<1>2. loop' = "cniRename" => Provides(merged, ev)'
  BY DEF KeepsConfig, Provides
<1>3. main' \in {"revertTruncate", "revertWrite"} => Provides(rbuf, Head(todo))'
  BY DEF KeepsConfig, Provides
<1>4. UnlinksListed'
  <2> SUFFICES ASSUME loop' = "cniUnlink" PROVE UnlinksListed'
    BY DEF UnlinksListed
  <2>1. CASE Provides(file[Listed(ev)], ev)
    BY <2>1 DEF UnlinksListed, Provides
  <2>2. CASE Truncated(Listed(ev))
    BY <2>2 DEF UnlinksListed, Truncated
  <2> QED BY <2>1, <2>2 DEF KeepsConfig, UnlinksListed
<1> QED BY <1>1, <1>2, <1>3, <1>4 DEF KeepsConfig

\* The steps of the main goroutine.
LEMMA MainKeepsConfig ==
  ASSUME TypeOK, KeepsConfig, half' = {}, UNCHANGED provided, Run \/ RemoveAll \/ Kill
  PROVE  KeepsConfig'
<1> USE DEF TypeOK
<1>1. /\ log \in Seq(Entry) /\ todo \in Seq(Entry) /\ ListsOnly(log) /\ ListsOnly(todo)
      /\ file \in [CniFile -> Content] /\ rbuf \in Content
      /\ \A n \in CniFile : file[n] \in {Absent, Unparsable} \/ Provides(file[n], n)
  BY DEF SharedType, MainType, HostType, FileState, KeepsConfig, FilesProvide
<1>2. CASE \/ WatchServiceAccount \/ WatchCniConfig \/ ReadDir \/ FeedPanics \/ RunReturns
  <2>1. /\ UNCHANGED <<file, log>> /\ todo' \in {todo, log}
        /\ UNCHANGED <<loop, ev, merged, rerr>> \/ loop' \notin {"cniRename", "cniUnlink"}
        /\ main # "revertWrite" /\ main' \notin {"revertTruncate", "revertWrite"}
    BY <1>2 DEF WatchServiceAccount, WatchCniConfig, ReadDir, FeedPanics, RunReturns,
       hostVars, mainVars, loopVars, sharedVars
  <2> QED BY <1>1, <2>1, NoFileChanged
<1>3. CASE FeedData \/ Feed
  <2>1. /\ UNCHANGED <<file, log, todo>> /\ loop' \notin {"cniRename", "cniUnlink"}
        /\ main # "revertWrite" /\ main' \notin {"revertTruncate", "revertWrite"}
    BY <1>3, DeliverLoop DEF FeedData, Feed, hostVars, sharedVars
  <2> QED BY <1>1, <2>1, NoFileChanged
<1>4. CASE InstallRegularFiles
  <2>1. ListsOnly(log')
    BY <1>1, <1>4, ListsOnlyKept, NamesType, NamesDiffer DEF InstallRegularFiles
  <2> QED BY <1>1, <1>4, <2>1, NoFileChanged DEF InstallRegularFiles, loopVars
<1>5. CASE RunFails \/ RunErr \/ RemoveReturns \/ Kill
  <2>1. /\ UNCHANGED file /\ loop' = "off" /\ main' = "exited"
        /\ log' = <<>> /\ todo' = <<>>
    BY <1>5 DEF RunFails, RunErr, RemoveReturns, Kill, Gone, hostVars
  <2>2. ListsOnly(log') /\ ListsOnly(todo')
    BY <2>1, EmptySeq DEF ListsOnly
  <2>3. FilesProvide'
    BY <1>1, <2>1 DEF FilesProvide, Provides
  <2> QED BY <2>1, <2>2, <2>3 DEF KeepsConfig, UnlinksListed
<1>6. CASE RevertEntry
  <2>1. /\ UNCHANGED <<file, log, loop, ev, merged>> /\ main = "remove" /\ todo # <<>>
        /\ todo' \in {todo, Tail(todo)} /\ main' \in {"remove", "revertTruncate"}
        /\ rerr => rerr'
    BY <1>6 DEF RevertEntry, loopVars, sharedVars
  <2>2. ListsOnly(todo')
    BY <1>1, <2>1, ListsOnlyKept
  <2>3. ASSUME main' = "revertTruncate" PROVE Provides(rbuf', Head(todo'))
    <3>1. PICK n \in CniFile : /\ n = Head(todo) /\ todo' = todo
                               /\ rbuf' = reverted(file[n])
                               /\ ~RevertError(file[n]) /\ ~RevertNoop(file[n])
      BY <1>6, <2>1, <2>3 DEF RevertEntry
    <3>2. file[n] \notin {Absent, Unparsable} /\ file[n] \in Content
      BY <1>1, <3>1 DEF RevertNoop, RevertError, ListError, Absent, Unparsable
    <3> QED BY <1>1, <3>1, <3>2, OthersAreKept DEF Provides
  <2> QED BY <1>1, <2>1, <2>2, <2>3, NoFileChanged
<1>7. CASE RevertTruncate \/ RevertWrite
  <2>1. PICK n \in CniFile : n = Head(todo) /\ todo # <<>>
    BY <1>7 DEF RevertTruncate, RevertWrite, MainType
  <2>2. UNCHANGED <<log, loop, ev, merged>> /\ Provides(rbuf, n) /\ ListsOnly(Tail(todo))
    BY <1>1, <1>7, <2>1, ListsOnlyKept DEF RevertTruncate, RevertWrite, loopVars,
       sharedVars, KeepsConfig
  <2>3. loop = "cniRename" => Provides(merged, ev)'
    BY <2>2 DEF KeepsConfig, Provides
  <2>4. loop = "cniUnlink" => Listed(ev) \in CniFile /\ Listed(ev)[1] = ev[1]
    BY ListedType DEF LoopType, Listed
  <2>5. CASE RevertTruncate /\ UNCHANGED file /\ main' = "remove" /\ todo' = Tail(todo)
    <3>1. main = "revertTruncate" /\ (rerr => rerr')
      BY <2>5 DEF RevertTruncate
    <3> QED BY <1>1, <2>2, <2>5, <3>1, NoFileChanged
  <2>6. CASE /\ RevertTruncate /\ file' = [file EXCEPT ![n] = Unparsable]
             /\ main' = "revertWrite" /\ UNCHANGED <<todo, rbuf, rerr>>
    <3>1. FilesProvide'
      BY <1>1, <2>6 DEF FilesProvide, Provides
    <3>2. UnlinksListed'
      <4> SUFFICES ASSUME loop = "cniUnlink" PROVE UnlinksListed'
        BY <2>2 DEF UnlinksListed
      <4>1. Provides(file[Listed(ev)], ev) \/ Truncated(Listed(ev))
        BY DEF KeepsConfig, UnlinksListed
      <4>2. CASE n = Listed(ev)
        BY <1>1, <2>1, <2>2, <2>4, <2>6, <4>2 DEF UnlinksListed, Truncated
      <4>3. CASE n # Listed(ev) /\ Provides(file[Listed(ev)], ev)
        BY <1>1, <2>2, <2>4, <2>6, <4>3 DEF UnlinksListed, Provides
      <4>4. CASE n # Listed(ev) /\ Truncated(Listed(ev))
        BY <1>1, <2>1, <2>2, <2>4, <2>6, <4>4 DEF UnlinksListed, Truncated
      <4> QED BY <4>1, <4>2, <4>3, <4>4
    <3>3. Provides(rbuf, Head(todo))'
      BY <2>1, <2>2, <2>6 DEF Provides
    <3> QED BY <1>1, <2>2, <2>3, <2>6, <3>1, <3>2, <3>3 DEF KeepsConfig
  <2>7. CASE RevertWrite
    <3>1. /\ main' = "remove" /\ todo' = Tail(todo) /\ (rerr => rerr')
          /\ \/ file[n] # Unparsable /\ UNCHANGED file
             \/ file[n] = Unparsable /\ file' = [file EXCEPT ![n] = rbuf]
             \/ rerr' /\ UNCHANGED file
      BY <2>1, <2>7 DEF RevertWrite
    <3>2. FilesProvide'
      BY <1>1, <2>2, <3>1 DEF FilesProvide, Provides
    <3>3. UnlinksListed'
      <4> SUFFICES ASSUME loop = "cniUnlink"
                   PROVE  Provides(file[Listed(ev)], ev)' \/ Truncated(Listed(ev))'
        BY <2>2 DEF UnlinksListed
      <4>1. Provides(file[Listed(ev)], ev) \/ Truncated(Listed(ev))
        BY DEF KeepsConfig, UnlinksListed
      <4>2. CASE n = Listed(ev) /\ file' = [file EXCEPT ![n] = rbuf]
        BY <1>1, <2>2, <2>4, <4>2 DEF Provides
      <4>3. CASE /\ file'[Listed(ev)] = file[Listed(ev)]
                 /\ Provides(file[Listed(ev)], ev) \/ (Truncated(Listed(ev)) /\ rerr')
        BY <2>2, <4>3 DEF Provides, Truncated
      <4>4. Truncated(Listed(ev)) => rerr \/ (n = Listed(ev) /\ file[n] = Unparsable)
        BY <2>1 DEF Truncated
      <4>5. n # Listed(ev) \/ UNCHANGED file => file'[Listed(ev)] = file[Listed(ev)]
        BY <1>1, <2>4, <3>1
      <4> QED BY <3>1, <4>1, <4>2, <4>3, <4>4, <4>5
    <3> QED BY <1>1, <2>2, <2>3, <3>1, <3>2, <3>3 DEF KeepsConfig
  <2> QED BY <1>7, <2>1, <2>5, <2>6, <2>7 DEF RevertTruncate
<1> QED BY <1>2, <1>3, <1>4, <1>5, <1>6, <1>7 DEF Run, RemoveAll

\* The steps of the event loop and of the kubelet.
LEMMA LoopKeepsConfig ==
  ASSUME TypeOK, KeepsConfig, half' = {}, UNCHANGED provided,
         watchFS \/ RotateToken \/ Signal \/ Restart \/ UNCHANGED vars
  PROVE  KeepsConfig'
<1> USE DEF TypeOK
<1>1. /\ log \in Seq(Entry) /\ ListsOnly(log) /\ ListsOnly(todo)
      /\ file \in [CniFile -> Content] /\ merged \in Content
      /\ \A n \in CniFile : file[n] \in {Absent, Unparsable} \/ Provides(file[n], n)
  BY DEF SharedType, LoopType, HostType, FileState, KeepsConfig, FilesProvide
<1>2. CASE ReceiveEvent \/ LoopCtxDone \/ SendErr \/ K8sReadToken \/ K8sReadCA
  <2>1. loop' \notin {"cniRename", "cniUnlink"}
    BY <1>2, DeliverLoop DEF ReceiveEvent, LoopCtxDone, SendErr, K8sReadToken, K8sReadCA
  <2>2. UNCHANGED <<file, log, todo, main, rbuf>>
    BY <1>2 DEF ReceiveEvent, LoopCtxDone, SendErr, K8sReadToken, K8sReadCA, hostVars,
       mainVars, sharedVars
  <2> QED BY <1>1, <2>1, <2>2, NoFileChanged
<1>3. CASE RotateToken \/ Signal \/ UNCHANGED vars
  <2>1. UNCHANGED <<file, log, todo, main, rbuf, rerr, loop, ev, merged>>
    BY <1>3 DEF RotateToken, Signal, vars, hostVars, mainVars, loopVars, sharedVars
  <2> QED BY <1>1, <2>1, NoFileChanged
<1>4. CASE Restart
  <2>1. /\ UNCHANGED <<file, log, todo, rerr, loop, ev, merged>>
        /\ main = "exited" /\ main' = "install"
    BY <1>4 DEF Restart, hostVars, loopVars, sharedVars
  <2> QED BY <1>1, <2>1, NoFileChanged
<1>5. CASE K8sWrite
  <2>1. UNCHANGED <<file, todo, main, rbuf>> /\ loop' \notin {"cniRename", "cniUnlink"}
        /\ log' \in {log, appendEntry(log, Kubeconfig)}
    BY <1>5 DEF K8sWrite, mainVars
  <2>2. ListsOnly(log')
    BY <1>1, <2>1, ListsOnlyKept, NamesType, NamesDiffer
  <2> QED BY <1>1, <2>1, <2>2, NoFileChanged
<1>6. CASE CniRead
  <2>1. UNCHANGED <<file, log, todo, main, rbuf, ev>>
    BY <1>6 DEF CniRead, hostVars, mainVars, sharedVars
  <2>2. loop' # "cniUnlink" /\ (loop' = "cniRename" => Provides(merged', ev'))
    <3>1. loop' # "cniUnlink"
      BY <1>6 DEF CniRead
    <3>2. ASSUME loop' = "cniRename" PROVE Provides(merged', ev')
      <4>1. /\ ev \in CniFile /\ ~Skips(ev) /\ ~InjectError(file[ev])
            /\ merged' = inject(file[ev])
        BY <1>6, <3>2 DEF CniRead, LoopType
      <4>2. file[ev] \notin {Absent, Unparsable} /\ file[ev] \in Content
        BY <1>1, <4>1 DEF Skips, InjectError, ListError, Unparsable
      <4> QED BY <1>1, <2>1, <4>1, <4>2, OthersAreKept DEF Provides
    <3> QED BY <3>1, <3>2
  <2> QED BY <1>1, <2>1, <2>2, NoFileChanged
<1>7. CASE CniRename
  <2>1. PICK n \in CniFile : /\ n = Listed(ev) /\ n[1] = ev[1] /\ n[2] = "conflist"
                             /\ n \in Entry
    BY <1>7, ListedType, NamesType DEF CniRename, LoopType, Listed
  <2>2. /\ UNCHANGED <<todo, main, rbuf, ev>> /\ loop' # "cniRename" /\ Provides(merged, ev)
    BY <1>7 DEF CniRename, mainVars, KeepsConfig
  <2>3. CASE UNCHANGED <<file, log>> /\ loop' = "err"
    BY <1>1, <2>2, <2>3, NoFileChanged
  <2>4. CASE file' = [file EXCEPT ![n] = merged] /\ log' = appendEntry(log, n)
    <3>1. ListsOnly(log')
      BY <1>1, <2>1, <2>4, ListsOnlyKept
    <3>2. FilesProvide'
      BY <1>1, <2>1, <2>2, <2>4 DEF FilesProvide, Provides
    <3>3. UnlinksListed'
      BY <1>1, <2>1, <2>2, <2>4 DEF UnlinksListed, Provides
    <3>4. main \in {"revertTruncate", "revertWrite"} => Provides(rbuf, Head(todo))'
      BY <2>2 DEF KeepsConfig, Provides
    <3> QED BY <1>1, <2>2, <3>1, <3>2, <3>3, <3>4 DEF KeepsConfig
  <2> QED BY <1>7, <2>1, <2>3, <2>4 DEF CniRename
<1>8. CASE CniUnlink
  <2>1. /\ UNCHANGED <<log, todo, main, rbuf>> /\ loop' \in {"select", "err"}
        /\ ev \in CniFile /\ (UNCHANGED file \/ file' = [file EXCEPT ![ev] = Absent])
    BY <1>8 DEF CniUnlink, mainVars, sharedVars, LoopType
  <2>2. FilesProvide'
    BY <1>1, <2>1 DEF FilesProvide, Provides
  <2>3. main \in {"revertTruncate", "revertWrite"} => Provides(rbuf, Head(todo))'
    BY <2>1 DEF KeepsConfig, Provides
  <2> QED BY <1>1, <2>1, <2>2, <2>3 DEF KeepsConfig, UnlinksListed
<1> QED BY <1>2, <1>3, <1>4, <1>5, <1>6, <1>7, <1>8 DEF watchFS

LEMMA NextKeepsConfig ==
  ASSUME NobodyWrites, TypeOK, KeepsConfig, [Next]_vars
  PROVE  KeepsConfig'
<1>1. half' = {} /\ UNCHANGED provided /\ ~Provider
  BY NobodyProvides DEF KeepsConfig, NobodyWrites
<1>2. Run \/ RemoveAll \/ Kill => KeepsConfig'
  BY <1>1, MainKeepsConfig
<1>3. watchFS \/ RotateToken \/ Signal \/ Restart \/ UNCHANGED vars => KeepsConfig'
  BY <1>1, LoopKeepsConfig
<1> QED BY <1>1, <1>2, <1>3 DEF Next, Kubelet

LEMMA InitKeepsConfig ==
  ASSUME NobodyWrites, Init
  PROVE  KeepsConfig
<1>1. file \in InitialFiles
  BY DEF Init
<1>2. ASSUME NEW n \in CniFile, file[n] \notin {Absent, Unparsable}
      PROVE  Provides(file[n], n)
  <2>1. PICK b \in Bases : n = <<b, "conf">> \/ n = <<b, "conflist">>
    BY DEF CniFile
  <2>2. provided[b] = Others(IF file[<<b, "conf">>] # Absent THEN file[<<b, "conf">>]
                             ELSE file[<<b, "conflist">>])
    BY DEF Init
  <2>3. \/ file[<<b, "conf">>] = Absent
        \/ file[<<b, "conflist">>] \in {Absent, Unparsable}
        \/ Others(file[<<b, "conflist">>]) = Others(file[<<b, "conf">>])
    BY <1>1 DEF NobodyWrites
  <2>4. n[1] = b
    BY <2>1
  <2> QED BY <1>2, <2>1, <2>2, <2>3, <2>4 DEF Provides
<1>3. ListsOnly(log) /\ ListsOnly(todo)
  BY EmptySeq DEF Init, ListsOnly
<1> QED BY <1>2, <1>3 DEF Init, KeepsConfig, FilesProvide, UnlinksListed

\* No step takes the provider's plugins away, but where Remove has truncated their list.
LEMMA StepKeeps ==
  ASSUME NobodyWrites, TypeOK, PhaseInv, KeepsConfig, [Next]_vars, NEW b \in Bases,
         Holds(b)
  PROVE  Holds(b)' \/ Truncated(<<b, "conflist">>)'
<1> USE DEF TypeOK
<1>1. half' = {} /\ UNCHANGED provided /\ ~Provider /\ file \in [CniFile -> Content]
  BY NobodyProvides DEF KeepsConfig, NobodyWrites, HostType, FileState
<1>2. /\ <<b, "conf">> \in CniFile /\ <<b, "conflist">> \in CniFile
      /\ \A n \in CniFile : n[1] = b => n = <<b, "conf">> \/ n = <<b, "conflist">>
  BY DEF CniFile
<1>3. CASE UNCHANGED file
  BY <1>1, <1>3 DEF Holds
<1>4. ASSUME NEW n \in CniFile, NEW c, file' = [file EXCEPT ![n] = c],
             Provides(c, n) \/ n[1] # b
      PROVE  Holds(b)'
  <2>1. CASE n[1] = b
    BY <1>1, <1>2, <1>4, <2>1 DEF Holds, Provides
  <2>2. CASE n[1] # b
    <3>1. n # <<b, "conf">> /\ n # <<b, "conflist">>
      BY <2>2
    <3> QED BY <1>1, <1>2, <1>4, <3>1 DEF Holds
  <2> QED BY <2>1, <2>2
<1>5. CASE RevertTruncate \/ RevertWrite
  <2> DEFINE n == Head(todo)
  <2>1. n \in CniFile /\ n[2] = "conflist" /\ Provides(rbuf, n)
    BY <1>5, HeadListed DEF RevertTruncate, RevertWrite, MainType, KeepsConfig
  <2>2. \/ UNCHANGED file \/ file' = [file EXCEPT ![n] = rbuf]
        \/ /\ file' = [file EXCEPT ![n] = Unparsable]
           /\ main' = "revertWrite" /\ UNCHANGED todo
    BY <1>5 DEF RevertTruncate, RevertWrite
  <2>3. CASE /\ file' = [file EXCEPT ![n] = Unparsable] /\ n[1] = b
             /\ main' = "revertWrite" /\ UNCHANGED todo
    <3>1. n = <<b, "conflist">>
      BY <1>2, <2>1, <2>3
    <3> QED BY <1>1, <2>1, <2>3, <3>1 DEF Truncated
  <2> QED BY <1>3, <1>4, <2>1, <2>2, <2>3
<1>6. CASE CniRename
  <2>1. /\ Listed(ev) \in CniFile /\ Provides(merged, Listed(ev))
        /\ UNCHANGED file \/ file' = [file EXCEPT ![Listed(ev)] = merged]
    BY <1>6, ListedType DEF CniRename, LoopType, KeepsConfig, Provides, Listed
  <2> QED BY <1>3, <1>4, <2>1
<1>7. CASE CniUnlink
  <2>1. /\ ev \in CniFile /\ ev[2] = "conf" /\ loop = "cniUnlink"
        /\ UNCHANGED <<main, todo, rerr>>
        /\ UNCHANGED file \/ file' = [file EXCEPT ![ev] = Absent]
    BY <1>7 DEF CniUnlink, LoopType, PhaseInv, mainVars
  <2>2. /\ Listed(ev) = <<ev[1], "conflist">>
        /\ Provides(file[Listed(ev)], ev) \/ Truncated(Listed(ev))
    BY <2>1 DEF KeepsConfig, UnlinksListed, Listed
  <2>3. CASE file' = [file EXCEPT ![ev] = Absent]
    <3>1. CASE ev[1] = b
      <4>1. ev # <<b, "conflist">> /\ file'[<<b, "conflist">>] = file[<<b, "conflist">>]
        BY <1>1, <1>2, <2>1, <2>3
      <4>2. CASE Provides(file[Listed(ev)], ev)
        BY <1>1, <2>2, <3>1, <4>1, <4>2 DEF Holds, Provides
      <4>3. CASE Truncated(Listed(ev))
        BY <2>1, <2>2, <3>1, <4>1, <4>3 DEF Truncated
      <4> QED BY <2>2, <4>2, <4>3
    <3>2. CASE ev[1] # b
      <4>1. ev # <<b, "conf">> /\ ev # <<b, "conflist">>
        BY <3>2
      <4> QED BY <1>1, <1>2, <2>3, <4>1 DEF Holds
    <3> QED BY <3>1, <3>2
  <2> QED BY <1>3, <2>1, <2>3
<1>8. CASE ~RevertTruncate /\ ~RevertWrite /\ ~CniRename /\ ~CniUnlink
  <2>1. UNCHANGED file
    BY <1>1, <1>8 DEF Next, Run, InstallRegularFiles, WatchServiceAccount, WatchCniConfig,
       FeedData, ReadDir, Feed, FeedPanics, RunFails, RunErr, RunReturns, RemoveAll,
       RevertEntry, RemoveReturns, watchFS, ReceiveEvent, LoopCtxDone, SendErr,
       K8sReadToken, K8sReadCA, K8sWrite, CniRead, Kubelet, RotateToken, Signal, Kill,
       Restart, hostVars, vars
  <2> QED BY <1>3, <2>1
<1> QED BY <1>5, <1>6, <1>7, <1>8

\* While providers do not write, every file is absent, truncated, or holds what its provider
\* put there, and so does whatever the handler or Remove is about to write.
THEOREM ConfigInvariant ==
  ASSUME NobodyWrites
  PROVE  Spec => []KeepsConfig
<1>1. Init => KeepsConfig
  BY InitKeepsConfig
<1>2. TypeOK /\ KeepsConfig /\ [Next]_vars => KeepsConfig'
  BY NextKeepsConfig
<1> QED BY <1>1, <1>2, TypeCorrect, PTL DEF Spec

\* An installer that crashes between two steps, be it between the list it writes and the
\* single-plugin file it removes (reconfigureCNI, internal/cni/conf.go), has lost no plugin
\* of a provider; only Remove can, which rewrites a list in place, until it is written or if
\* that fails.
THEOREM ConfigIsNeverLost ==
  ASSUME NobodyWrites
  PROVE  Spec => NeverLosesConfig
<1>1. TypeOK /\ PhaseInv /\ KeepsConfig /\ [Next]_vars
        => [\A b \in Bases :
              Holds(b) => Holds(b)' \/ Truncated(<<b, "conflist">>)']_vars
  <2> SUFFICES ASSUME TypeOK, PhaseInv, KeepsConfig, [Next]_vars, NEW b \in Bases, Holds(b)
               PROVE  Holds(b)' \/ Truncated(<<b, "conflist">>)'
    OBVIOUS
  <2> QED BY StepKeeps
<1> QED BY <1>1, TypeCorrect, ServiceInvariant, ConfigInvariant, PTL
        DEF Spec, ServiceInv, NeverLosesConfig
=============================================================================
