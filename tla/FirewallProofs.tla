---------------------------- MODULE FirewallProofs ----------------------------
(***************************************************************************)
(* Runs of proxy-init, whatever fails and whoever runs before: a table     *)
(* never holds anything but the first rules of one run, so it redirects    *)
(* only what a run has asked for, and a run or a cleanup that ends has     *)
(* made it what it asks for.                                               *)
(***************************************************************************)
EXTENDS IptablesProofs

-----------------------------------------------------------------------------
(* Commands, and sequences of them. *)

AppendCmd(c, r) == [op |-> "append", chain |-> c, rule |-> r]

CmdOp == {"new", "flush", "jump", "unjump", "delete"}

CmdType == [op : CmdOp, chain : Chain]
             \cup [op : {"append"}, chain : Chain, rule : RuleType]

LEMMA CmdsTyped ==
  /\ \A op \in CmdOp, c \in Chain : Cmd(op, c) \in CmdType
  /\ \A c \in Chain, r \in RuleType : AppendCmd(c, r) \in CmdType
<1>1. ASSUME NEW op \in CmdOp, NEW c \in Chain PROVE Cmd(op, c) \in CmdType
  BY DEF CmdType, Cmd
<1>2. ASSUME NEW c \in Chain, NEW r \in RuleType PROVE AppendCmd(c, r) \in CmdType
  BY DEF CmdType, AppendCmd
<1> QED BY <1>1, <1>2

LEMMA Uncons ==
  ASSUME NEW S, NEW x \in S, NEW s \in Seq(S)
  PROVE  /\ <<x>> \o s \in Seq(S) /\ <<x>> \o s # <<>>
         /\ Head(<<x>> \o s) = x /\ Tail(<<x>> \o s) = s
<1>1. /\ <<x>> \in Seq(S) /\ Len(<<x>>) = 1 /\ <<x>>[1] = x
      /\ Len(s) \in Nat
  BY LenProperties
<1>2. /\ <<x>> \o s \in Seq(S) /\ Len(<<x>> \o s) = 1 + Len(s)
      /\ \A i \in 1..(1 + Len(s)) : (<<x>> \o s)[i] = IF i <= 1 THEN <<x>>[i] ELSE s[i - 1]
  BY <1>1, ConcatProperties
<1> DEFINE z == <<x>> \o s
<1>3. z # <<>>
  BY <1>1, <1>2, EmptySeq
<1>4. Head(z) = x
  BY <1>1, <1>2, <1>3
<1>5. /\ Tail(z) \in Seq(S) /\ Len(Tail(z)) = Len(s)
      /\ \A i \in 1..Len(s) : Tail(z)[i] = z[i + 1]
  BY <1>1, <1>2, <1>3, HeadTailProperties
<1>6. \A i \in 1..Len(s) : Tail(z)[i] = s[i]
  BY <1>1, <1>2, <1>5
<1>7. Tail(z) = s
  BY <1>5, <1>6, SeqEqual
<1> QED BY <1>2, <1>3, <1>4, <1>7

\* What comes after the first elements of a sequence.
LEMMA Remaining ==
  ASSUME NEW S, NEW r \in Seq(S), NEW k \in Nat, k < Len(r)
  PROVE  LET s == SubSeq(r, k + 1, Len(r))
         IN s # <<>> /\ Head(s) = r[k + 1] /\ Tail(s) = SubSeq(r, k + 2, Len(r))
<1> DEFINE m == k + 1
           n == Len(r)
           s == SubSeq(r, m, n)
<1>1. n \in Nat /\ m \in 1..n /\ n \in m..n /\ m + 1 = k + 2
  BY LenProperties
<1>2. Head(s) = r[m] /\ Tail(s) = SubSeq(r, m + 1, n)
  BY <1>1, HeadTailOfSubSeq
<1>3. m \in Int /\ n \in Int /\ m <= n /\ \A i \in m..n : r[i] \in S
  BY <1>1, ElementOfSeq
<1> HIDE DEF m, n
<1>4. s \in Seq(S) /\ Len(s) = IF m <= n THEN n - m + 1 ELSE 0
  BY <1>3, SubSeqProperties
<1> HIDE DEF s
<1>5. s # <<>>
  BY <1>3, <1>4, EmptySeq
<1> QED BY <1>1, <1>2, <1>5 DEF s, m, n

LEMMA RulesTyped ==
  ASSUME NEW o \in Option, NEW c \in Chain
  PROVE  RulesOf(c, o) \in Seq(RuleType)
<1> DEFINE p == [chain |-> c, dport |-> 0, src |-> [family |-> 0, id |-> 0], tcp |-> TRUE,
                 uid |-> 0, gid |-> 0, lo |-> TRUE]
<1>1. p \in Packet
  BY DEF Packet, Subnet
<1> HIDE DEF p
<1>2. Ignoring(c, o) \in Seq(RuleType) /\ Redirecting(c, o) \in Seq(RuleType)
  BY <1>1, InboundIgnoring, OutboundIgnoring, RedirectingRules, Zenon
<1> QED BY <1>2, RuleParts, ConcatParts

\* What is left to fill a chain with: nothing, or a rule and what comes after it.
LEMMA LeftUnfolds ==
  ASSUME NEW o \in Option, NEW c \in Chain, NEW i \in 0..Len(RulesOf(c, o))
  PROVE  /\ Left(c, o, i) \in Seq(CmdType)
         /\ i = Len(RulesOf(c, o)) => Left(c, o, i) = <<>>
         /\ i < Len(RulesOf(c, o)) =>
              Left(c, o, i) = <<AppendCmd(c, RulesOf(c, o)[i + 1])>> \o Left(c, o, i + 1)
<1> DEFINE R == RulesOf(c, o)
           n == Len(R)
           tail(j) == SubSeq(R, j + 1, n)
<1>1. R \in Seq(RuleType) /\ n \in Nat /\ \A j \in 1..n : R[j] \in RuleType
  BY RulesTyped, LenProperties, ElementOfSeq
<1> HIDE DEF R, n
<1>2. ASSUME NEW j \in 0..n
      PROVE  /\ DOMAIN tail(j) = 1..(n - j)
             /\ \A l \in 1..(n - j) : tail(j)[l] = R[j + l]
  <2>1. j + 1 \in Int /\ n \in Int /\ \A l \in (j + 1)..n : R[l] \in RuleType
    BY <1>1
  <2>2. /\ tail(j) \in Seq(RuleType)
        /\ Len(tail(j)) = IF j + 1 <= n THEN n - (j + 1) + 1 ELSE 0
        /\ \A l \in 1..(n - (j + 1) + 1) : tail(j)[l] = R[j + 1 + l - 1]
    BY <2>1, SubSeqProperties
  <2> HIDE DEF tail
  <2>3. n - (j + 1) + 1 = n - j /\ \A l \in Int : j + 1 + l - 1 = j + l
    BY <1>1
  <2>4. Len(tail(j)) = n - j
    BY <1>1, <2>2, <2>3
  <2>5. DOMAIN tail(j) = 1..Len(tail(j))
    BY <2>2, LenProperties, Zenon
  <2>6. \A l \in 1..(n - j) : tail(j)[l] = R[j + l]
    BY <1>1, <2>2, <2>3
  <2> QED BY <2>4, <2>5, <2>6
<1>3. ASSUME NEW j \in 0..n
      PROVE  /\ Left(c, o, j) = [l \in 1..(n - j) |-> AppendCmd(c, R[j + l])]
             /\ Left(c, o, j) \in Seq(CmdType)
             /\ Len(Left(c, o, j)) = n - j
  <2>1. Left(c, o, j) = [l \in DOMAIN tail(j) |-> AppendCmd(c, tail(j)[l])]
    BY DEF Left, Add, AppendCmd, R, n
  <2>2. Left(c, o, j) = [l \in 1..(n - j) |-> AppendCmd(c, R[j + l])]
    BY <1>2, <2>1
  <2>3. \A l \in 1..(n - j) : AppendCmd(c, R[j + l]) \in CmdType
    <3> TAKE l \in 1..(n - j)
    <3>1. j + l \in 1..n
      BY <1>1
    <3> QED BY <1>1, <3>1, CmdsTyped
  <2>4. n - j \in Nat
    BY <1>1
  <2> QED BY <2>2, <2>3, <2>4
<1>4. i \in 0..n
  BY DEF R, n
<1>5. i = n => Left(c, o, i) = <<>>
  BY <1>1, <1>3, <1>4, EmptySeq
<1>6. ASSUME i < n
      PROVE  Left(c, o, i) = <<AppendCmd(c, R[i + 1])>> \o Left(c, o, i + 1)
  <2> DEFINE x == AppendCmd(c, R[i + 1])
             s == Left(c, o, i + 1)
  <2>1. i + 1 \in 0..n /\ i + 1 \in 1..n /\ n - (i + 1) = n - i - 1
    BY <1>1, <1>4, <1>6
  <2>2. x \in CmdType
    BY <1>1, <2>1, CmdsTyped
  <2>3. /\ s \in Seq(CmdType) /\ Len(s) = n - i - 1
        /\ \A l \in 1..(n - i - 1) : s[l] = AppendCmd(c, R[i + 1 + l])
    BY <1>3, <2>1
  <2>4. /\ <<x>> \in Seq(CmdType) /\ Len(<<x>>) = 1 /\ <<x>>[1] = x
    BY <2>2
  <2> HIDE DEF x, s
  <2>5. /\ <<x>> \o s \in Seq(CmdType) /\ Len(<<x>> \o s) = 1 + Len(s)
        /\ \A l \in 1..(1 + Len(s)) :
             (<<x>> \o s)[l] = IF l <= 1 THEN <<x>>[l] ELSE s[l - 1]
    BY <2>3, <2>4, ConcatProperties
  <2>6. \A l \in 1..(n - i) : (<<x>> \o s)[l] = AppendCmd(c, R[i + l])
    <3> TAKE l \in 1..(n - i)
    <3>1. CASE l = 1
      BY <1>1, <1>4, <2>3, <2>4, <2>5, <3>1 DEF x
    <3>2. CASE l # 1
      <4>1. l - 1 \in 1..(n - i - 1) /\ i + 1 + (l - 1) = i + l /\ ~(l <= 1)
        BY <1>1, <1>4, <3>2
      <4> QED BY <1>1, <1>4, <2>3, <2>5, <4>1
    <3> QED BY <3>1, <3>2
  <2>7. /\ Left(c, o, i) \in Seq(CmdType) /\ Len(Left(c, o, i)) = n - i
        /\ \A l \in 1..(n - i) : Left(c, o, i)[l] = AppendCmd(c, R[i + l])
    BY <1>3, <1>4
  <2>8. Len(<<x>> \o s) = n - i
    BY <1>1, <1>4, <2>3, <2>5
  <2>9. Left(c, o, i) = <<x>> \o s
    BY <2>5, <2>6, <2>7, <2>8, SeqEqual
  <2> QED BY <2>9 DEF x, s
<1> QED BY <1>3, <1>4, <1>5, <1>6 DEF R, n

-----------------------------------------------------------------------------
(* What a command does to a table. *)

TableOK(t) ==
  /\ t = [exists |-> [c \in Chain |-> t.exists[c]], rules |-> [c \in Chain |-> t.rules[c]],
          jumps |-> [c \in Chain |-> t.jumps[c]]]
  /\ \A c \in Chain : t.exists[c] \in BOOLEAN /\ t.jumps[c] \in {0, 1}

Same(u, t, c) == /\ u.exists[c] = t.exists[c] /\ u.rules[c] = t.rules[c]
                 /\ u.jumps[c] = t.jumps[c]

\* Table u is t, but for chain c.
Becomes(u, t, c, exists, rules, jumps) ==
  /\ TableOK(u) /\ \A d \in Chain : d # c => Same(u, t, d)
  /\ u.exists[c] = exists /\ u.rules[c] = rules /\ u.jumps[c] = jumps

LEMMA Applied ==
  ASSUME NEW t, TableOK(t), NEW c \in Chain, NEW r
  PROVE  /\ Becomes(Apply(t, Cmd("new", c)), t, c, TRUE, t.rules[c], t.jumps[c])
         /\ Becomes(Apply(t, Cmd("flush", c)), t, c, t.exists[c], <<>>, t.jumps[c])
         /\ Becomes(Apply(t, AppendCmd(c, r)), t, c, t.exists[c], Append(t.rules[c], r),
                    t.jumps[c])
         /\ t.jumps[c] = 0 =>
              Becomes(Apply(t, Cmd("jump", c)), t, c, t.exists[c], t.rules[c], 1)
         /\ t.jumps[c] = 1 =>
              Becomes(Apply(t, Cmd("unjump", c)), t, c, t.exists[c], t.rules[c], 0)
         /\ Becomes(Apply(t, Cmd("delete", c)), t, c, FALSE, t.rules[c], t.jumps[c])
<1>0. /\ DOMAIN t = {"exists", "rules", "jumps"}
      /\ DOMAIN t.exists = Chain /\ DOMAIN t.rules = Chain /\ DOMAIN t.jumps = Chain
      /\ c \in {"PROXY_INIT_REDIRECT", "PROXY_INIT_OUTPUT"}
  BY DEF TableOK, Chain
<1>1. Becomes(Apply(t, Cmd("new", c)), t, c, TRUE, t.rules[c], t.jumps[c])
  <2> DEFINE v == TRUE
  <2>1. Apply(t, Cmd("new", c)) = [t EXCEPT !.exists[c] = v]
    BY DEF Apply, Cmd, TableOK
  <2>2. v \in BOOLEAN
    OBVIOUS
  <2> HIDE DEF v
  <2>3. Becomes(Apply(t, Cmd("new", c)), t, c, v, t.rules[c], t.jumps[c])
    BY <1>0, <2>1, <2>2 DEF Becomes, Same, TableOK
  <2> QED BY <2>3, Zenon DEF v
<1>2. Becomes(Apply(t, Cmd("flush", c)), t, c, t.exists[c], <<>>, t.jumps[c])
  <2> DEFINE v == <<>>
  <2>1. Apply(t, Cmd("flush", c)) = [t EXCEPT !.rules[c] = v]
    BY DEF Apply, Cmd, TableOK
  <2> HIDE DEF v
  <2> QED BY <1>0, <2>1 DEF Becomes, Same, TableOK, v
<1>3. Becomes(Apply(t, AppendCmd(c, r)), t, c, t.exists[c], Append(t.rules[c], r),
              t.jumps[c])
  <2> DEFINE v == Append(t.rules[c], r)
  <2>1. Apply(t, AppendCmd(c, r)) = [t EXCEPT !.rules[c] = v]
    BY DEF Apply, AppendCmd, TableOK
  <2> HIDE DEF v
  <2>2. Becomes(Apply(t, AppendCmd(c, r)), t, c, t.exists[c], v, t.jumps[c])
    BY <1>0, <2>1 DEF Becomes, Same, TableOK
  <2> QED BY <2>2, Zenon DEF v
<1>4. ASSUME t.jumps[c] = 0
      PROVE  Becomes(Apply(t, Cmd("jump", c)), t, c, t.exists[c], t.rules[c], 1)
  <2> DEFINE v == 1
  <2>1. Apply(t, Cmd("jump", c)) = [t EXCEPT !.jumps[c] = v]
    BY <1>4 DEF Apply, Cmd, TableOK
  <2> HIDE DEF v
  <2> QED BY <1>0, <2>1 DEF Becomes, Same, TableOK, v
<1>5. ASSUME t.jumps[c] = 1
      PROVE  Becomes(Apply(t, Cmd("unjump", c)), t, c, t.exists[c], t.rules[c], 0)
  <2> DEFINE v == 0
  <2>1. Apply(t, Cmd("unjump", c)) = [t EXCEPT !.jumps[c] = v]
    BY <1>5 DEF Apply, Cmd, TableOK
  <2> HIDE DEF v
  <2> QED BY <1>0, <2>1 DEF Becomes, Same, TableOK, v
<1>6. Becomes(Apply(t, Cmd("delete", c)), t, c, FALSE, t.rules[c], t.jumps[c])
  <2> DEFINE v == FALSE
  <2>1. Apply(t, Cmd("delete", c)) = [t EXCEPT !.exists[c] = v]
    BY DEF Apply, Cmd, TableOK
  <2>2. v \in BOOLEAN
    OBVIOUS
  <2> HIDE DEF v
  <2>3. Becomes(Apply(t, Cmd("delete", c)), t, c, v, t.rules[c], t.jumps[c])
    BY <1>0, <2>1, <2>2 DEF Becomes, Same, TableOK
  <2> QED BY <2>3, Zenon DEF v
<1> QED BY <1>1, <1>2, <1>3, <1>4, <1>5, <1>6

-----------------------------------------------------------------------------
(* The commands of one chain, one by one. *)

LEMMA JumpTyped ==
  ASSUME NEW t, NEW c \in Chain
  PROVE  /\ jumpOnce(t, c) \in Seq(CmdType)
         /\ t.jumps[c] = 0 => jumpOnce(t, c) = <<Cmd("jump", c)>>
         /\ t.jumps[c] # 0 => jumpOnce(t, c) = <<>>
<1>1. Cmd("jump", c) \in CmdType
  BY CmdsTyped DEF CmdOp
<1> QED BY <1>1, EmptySeq DEF jumpOnce, When

\* What is left of a chain's commands and of those after it, once i rules are there.
Filling(t, c, o, i, rest) == Left(c, o, i) \o jumpOnce(t, c) \o rest

LEMMA FillStep ==
  ASSUME NEW o \in Option, NEW c \in Chain, NEW i \in 0..Len(RulesOf(c, o)), NEW t,
         NEW rest \in Seq(CmdType)
  PROVE  LET left == Filling(t, c, o, i, rest)
         IN /\ i < Len(RulesOf(c, o)) =>
                 /\ left # <<>> /\ Head(left) = AppendCmd(c, RulesOf(c, o)[i + 1])
                 /\ Tail(left) = Filling(t, c, o, i + 1, rest)
            /\ i = Len(RulesOf(c, o)) /\ t.jumps[c] = 0 =>
                 left # <<>> /\ Head(left) = Cmd("jump", c) /\ Tail(left) = rest
            /\ i = Len(RulesOf(c, o)) /\ t.jumps[c] # 0 => left = rest
<1> DEFINE n == Len(RulesOf(c, o))
           j == jumpOnce(t, c)
<1>1. n \in Nat /\ i \in 0..n /\ \A l \in 1..n : RulesOf(c, o)[l] \in RuleType
  BY RulesTyped, LenProperties, ElementOfSeq
<1>2. j \in Seq(CmdType)
  BY JumpTyped
<1>3. ASSUME i < n
      PROVE  LET left == Filling(t, c, o, i, rest)
             IN /\ left # <<>> /\ Head(left) = AppendCmd(c, RulesOf(c, o)[i + 1])
                /\ Tail(left) = Filling(t, c, o, i + 1, rest)
  <2> DEFINE x == AppendCmd(c, RulesOf(c, o)[i + 1])
             s == Left(c, o, i + 1)
  <2>1. i + 1 \in 0..n /\ i + 1 \in 1..n
    BY <1>1, <1>3
  <2>2. x \in CmdType
    BY <1>1, <2>1, CmdsTyped
  <2>3. s \in Seq(CmdType)
    BY <2>1, LeftUnfolds
  <2>4. Left(c, o, i) = <<x>> \o s
    BY <1>3, LeftUnfolds
  <2> HIDE DEF x, s, j
  <2>5. <<x>> \in Seq(CmdType) /\ s \o j \in Seq(CmdType)
    BY <1>2, <2>2, <2>3, ConcatProperties
  <2>6. (<<x>> \o s) \o j = <<x>> \o (s \o j)
    BY <1>2, <2>3, <2>5, ConcatAssociative
  <2>7. (<<x>> \o (s \o j)) \o rest = <<x>> \o (s \o j \o rest)
    BY <2>5, ConcatAssociative
  <2>8. s \o j \o rest \in Seq(CmdType)
    BY <2>5, ConcatProperties
  <2> DEFINE z == s \o j \o rest
  <2>9. Filling(t, c, o, i, rest) = <<x>> \o z
    BY <2>4, <2>6, <2>7 DEF Filling, j, z
  <2>10. z \in Seq(CmdType)
    BY <2>8
  <2> HIDE DEF z
  <2>11. <<x>> \o z # <<>> /\ Head(<<x>> \o z) = x /\ Tail(<<x>> \o z) = z
    BY <2>2, <2>10, Uncons
  <2>12. Filling(t, c, o, i + 1, rest) = z
    BY DEF Filling, z, s, j
  <2> QED BY <2>9, <2>11, <2>12 DEF x
<1>4. ASSUME i = n PROVE Filling(t, c, o, i, rest) = j \o rest
  <2>1. Left(c, o, i) = <<>>
    BY <1>4, LeftUnfolds
  <2> HIDE DEF j
  <2>2. <<>> \o j = j
    BY <1>2, ConcatEmptySeq
  <2> QED BY <2>1, <2>2 DEF Filling, j
<1>5. ASSUME t.jumps[c] = 0
      PROVE  j \o rest # <<>> /\ Head(j \o rest) = Cmd("jump", c) /\ Tail(j \o rest) = rest
  <2> DEFINE x == Cmd("jump", c)
  <2>1. x \in CmdType
    BY CmdsTyped DEF CmdOp
  <2>2. j = <<x>>
    BY <1>5, JumpTyped
  <2> HIDE DEF x, j
  <2>3. <<x>> \o rest # <<>> /\ Head(<<x>> \o rest) = x /\ Tail(<<x>> \o rest) = rest
    BY <2>1, Uncons
  <2> QED BY <2>2, <2>3 DEF x
<1>6. ASSUME t.jumps[c] # 0 PROVE j \o rest = rest
  <2>1. j = <<>>
    BY <1>6, JumpTyped
  <2> QED BY <2>1, ConcatEmptySeq
<1> QED BY <1>3, <1>4, <1>5, <1>6

\* All commands of a chain: its first one empties or creates it.
OfChain(t, c, o) == freshChain(t, c) \o Add(c, RulesOf(c, o)) \o jumpOnce(t, c)

LEMMA FreshStep ==
  ASSUME NEW o \in Option, NEW c \in Chain, NEW t, NEW rest \in Seq(CmdType)
  PROVE  /\ OfChain(t, c, o) \in Seq(CmdType)
         /\ OfChain(t, c, o) \o rest # <<>>
         /\ Head(OfChain(t, c, o) \o rest) = Cmd(IF t.exists[c] THEN "flush" ELSE "new", c)
         /\ Tail(OfChain(t, c, o) \o rest) = Filling(t, c, o, 0, rest)
<1> DEFINE x == Cmd(IF t.exists[c] THEN "flush" ELSE "new", c)
           s == Left(c, o, 0)
           j == jumpOnce(t, c)
<1>1. x \in CmdType
  BY CmdsTyped DEF CmdOp
<1>2. freshChain(t, c) = <<x>>
  BY DEF freshChain
<1>3. Add(c, RulesOf(c, o)) = s
  <2> DEFINE R == RulesOf(c, o)
  <2>1. R \in Seq(RuleType) /\ SubSeq(R, 1, Len(R)) = R
    BY RulesTyped, SubSeqFull
  <2>2. SubSeq(R, 0 + 1, Len(R)) = R
    BY <2>1
  <2> QED BY <2>2, Zenon DEF Left
<1>4. s \in Seq(CmdType) /\ j \in Seq(CmdType)
  <2>1. 0 \in 0..Len(RulesOf(c, o))
    BY RulesTyped, LenProperties
  <2> QED BY <2>1, LeftUnfolds, JumpTyped
<1>5. OfChain(t, c, o) = (<<x>> \o s) \o j
  BY <1>2, <1>3 DEF OfChain
<1> HIDE DEF x, s, j
<1>6. <<x>> \in Seq(CmdType) /\ s \o j \in Seq(CmdType) /\ s \o j \o rest \in Seq(CmdType)
  BY <1>1, <1>4, ConcatProperties
<1>7. (<<x>> \o s) \o j = <<x>> \o (s \o j)
  BY <1>4, <1>6, ConcatAssociative
<1>8. (<<x>> \o (s \o j)) \o rest = <<x>> \o (s \o j \o rest)
  BY <1>6, ConcatAssociative
<1> DEFINE z == s \o j \o rest
           y == s \o j
<1>9. OfChain(t, c, o) = <<x>> \o y /\ OfChain(t, c, o) \o rest = <<x>> \o z
  BY <1>5, <1>7, <1>8
<1>10. z \in Seq(CmdType) /\ y \in Seq(CmdType)
  BY <1>6
<1> HIDE DEF z, y
<1>11. <<x>> \o z # <<>> /\ Head(<<x>> \o z) = x /\ Tail(<<x>> \o z) = z
  BY <1>1, <1>10, Uncons
<1>12. <<x>> \o y \in Seq(CmdType)
  BY <1>1, <1>10, Uncons
<1>13. Filling(t, c, o, 0, rest) = z
  BY DEF Filling, z, s, j
<1> QED BY <1>9, <1>11, <1>12, <1>13 DEF x

-----------------------------------------------------------------------------
(* One step of a run. *)

\* TablesInv, of one chain of a table filled by runs with the options of U.
ChainInv(t, U, c) ==
  /\ \/ t.rules[c] = <<>>
     \/ \E o \in U : \E i \in 0..Len(RulesOf(c, o)) : Filled(t, c, o, i)
  /\ ~t.exists[c] => t.rules[c] = <<>> /\ t.jumps[c] = 0

LEMMA SameChain ==
  ASSUME NEW u, NEW t, NEW c, Same(u, t, c)
  PROVE  /\ jumpOnce(u, c) = jumpOnce(t, c)
         /\ \A o : OfChain(u, c, o) = OfChain(t, c, o)
         /\ \A o : Complete(t, c, o) => Complete(u, c, o)
         /\ \A U : ChainInv(t, U, c) => ChainInv(u, U, c)
<1>1. jumpOnce(u, c) = jumpOnce(t, c) /\ freshChain(u, c) = freshChain(t, c)
  BY DEF Same, jumpOnce, freshChain
<1>2. \A o : Complete(t, c, o) => Complete(u, c, o)
  BY DEF Same, Complete
<1>3. \A U : ChainInv(t, U, c) => ChainInv(u, U, c)
  BY Zenon DEF Same, ChainInv, Filled
<1> QED BY <1>1, <1>2, <1>3 DEF OfChain

LEMMA SubSeqGrows ==
  ASSUME NEW o \in Option, NEW c \in Chain
  PROVE  /\ Len(RulesOf(c, o)) \in Nat /\ SubSeq(RulesOf(c, o), 1, 0) = <<>>
         /\ SubSeq(RulesOf(c, o), 1, Len(RulesOf(c, o))) = RulesOf(c, o)
         /\ \A i \in 0..Len(RulesOf(c, o)) : i < Len(RulesOf(c, o)) =>
              Append(SubSeq(RulesOf(c, o), 1, i), RulesOf(c, o)[i + 1])
                = SubSeq(RulesOf(c, o), 1, i + 1)
<1> DEFINE R == RulesOf(c, o)
<1>1. R \in Seq(RuleType) /\ Len(R) \in Nat
  BY RulesTyped, LenProperties
<1> HIDE DEF R
<1>2. SubSeq(R, 1, 0) = <<>> /\ SubSeq(R, 1, Len(R)) = R
  BY <1>1, SubSeqEmpty, SubSeqFull
<1>3. ASSUME NEW i \in 0..Len(R), i < Len(R)
      PROVE  Append(SubSeq(R, 1, i), R[i + 1]) = SubSeq(R, 1, i + 1)
  <2>1. i + 1 \in 1..Len(R) /\ 1 \in 1..Len(R) /\ (i + 1) - 1 = i
    BY <1>1, <1>3
  <2>2. SubSeq(R, 1, i + 1) = SubSeq(R, 1, (i + 1) - 1) \o <<R[i + 1]>>
    BY <1>1, <2>1, SubSeqRecursiveSecond
  <2>3. R[i + 1] \in RuleType /\ \A l \in 1..i : R[l] \in RuleType
    BY <1>1, <2>1, ElementOfSeq
  <2>4. SubSeq(R, 1, i) \in Seq(RuleType)
    BY <2>1, <2>3, SubSeqProperties
  <2>5. Append(SubSeq(R, 1, i), R[i + 1]) = SubSeq(R, 1, i) \o <<R[i + 1]>>
    BY <2>3, <2>4, AppendIsConcat
  <2> QED BY <2>1, <2>2, <2>5
<1> QED BY <1>1, <1>2, <1>3 DEF R

LEMMA FillConfig ==
  ASSUME NEW o \in Option, NEW c \in Chain, NEW i \in 0..Len(RulesOf(c, o)), NEW t,
         TableOK(t), Filled(t, c, o, i), NEW rest \in Seq(CmdType),
         i < Len(RulesOf(c, o)) \/ t.jumps[c] = 0
  PROVE  LET left == Filling(t, c, o, i, rest)
             u    == Apply(t, Head(left))
         IN /\ left # <<>> /\ TableOK(u) /\ \A d \in Chain : d # c => Same(u, t, d)
            /\ \E k \in 0..Len(RulesOf(c, o)) :
                 /\ Filled(u, c, o, k)
                 /\ Tail(left) = Filling(u, c, o, k, rest)
<1> DEFINE left == Filling(t, c, o, i, rest)
           n == Len(RulesOf(c, o))
           r == RulesOf(c, o)[i + 1]
<1>0. /\ i < n =>
           /\ left # <<>> /\ Head(left) = AppendCmd(c, r)
           /\ Tail(left) = Filling(t, c, o, i + 1, rest)
      /\ i = n /\ t.jumps[c] = 0 =>
           left # <<>> /\ Head(left) = Cmd("jump", c) /\ Tail(left) = rest
  BY FillStep
<1>1. n \in Nat /\ i \in 0..n /\ t.exists[c] /\ t.rules[c] = SubSeq(RulesOf(c, o), 1, i)
  BY SubSeqGrows DEF Filled
<1>2. CASE i < n
  <2> DEFINE u == Apply(t, AppendCmd(c, r))
  <2>1. /\ left # <<>> /\ Head(left) = AppendCmd(c, r)
        /\ Tail(left) = Filling(t, c, o, i + 1, rest)
    BY <1>0, <1>2
  <2>2. Becomes(u, t, c, t.exists[c], Append(t.rules[c], r), t.jumps[c])
    BY Applied
  <2>3. Filled(u, c, o, i + 1)
    BY <1>1, <1>2, <2>2, SubSeqGrows DEF Becomes, Filled
  <2>4. jumpOnce(u, c) = jumpOnce(t, c)
    BY <2>2 DEF Becomes, jumpOnce
  <2>5. i + 1 \in 0..n
    BY <1>1, <1>2
  <2>6. TableOK(u) /\ \A d \in Chain : d # c => Same(u, t, d)
    BY <2>2 DEF Becomes
  <2> HIDE DEF left, r
  <2>7. Apply(t, Head(left)) = u
    BY <2>1
  <2>8. Tail(left) = Filling(u, c, o, i + 1, rest)
    BY <2>1, <2>4 DEF Filling
  <2> HIDE DEF u
  <2> QED BY <2>1, <2>3, <2>5, <2>6, <2>7, <2>8, Zenon DEF left
<1>3. CASE i = n /\ t.jumps[c] = 0
  <2> DEFINE u == Apply(t, Cmd("jump", c))
  <2>1. left # <<>> /\ Head(left) = Cmd("jump", c) /\ Tail(left) = rest
    BY <1>0, <1>3
  <2>2. Becomes(u, t, c, t.exists[c], t.rules[c], 1)
    BY <1>3, Applied
  <2> HIDE DEF u
  <2>3. Filled(u, c, o, i) /\ u.jumps[c] # 0
    BY <1>1, <2>2 DEF Becomes, Filled
  <2>4. Filling(u, c, o, i, rest) = rest
    BY <1>3, <2>3, FillStep
  <2>5. TableOK(u) /\ \A d \in Chain : d # c => Same(u, t, d)
    BY <2>2 DEF Becomes
  <2>6. Apply(t, Head(left)) = u
    BY <2>1 DEF u
  <2> HIDE DEF left
  <2>7. Tail(left) = Filling(u, c, o, i, rest)
    BY <2>1, <2>4
  <2>8. left # <<>>
    BY <2>1
  <2> HIDE DEF u, n
  <2>9. i \in 0..Len(RulesOf(c, o))
    OBVIOUS
  <2> QED BY <2>3, <2>5, <2>6, <2>7, <2>8, <2>9, Zenon DEF left
<1> QED BY <1>1, <1>2, <1>3

LEMMA FreshConfig ==
  ASSUME NEW o \in Option, NEW c \in Chain, NEW t, TableOK(t),
         ~t.exists[c] => t.rules[c] = <<>>, NEW rest \in Seq(CmdType)
  PROVE  LET left == OfChain(t, c, o) \o rest
             u    == Apply(t, Head(left))
         IN /\ TableOK(u) /\ \A d \in Chain : d # c => Same(u, t, d)
            /\ Filled(u, c, o, 0)
            /\ Tail(left) = Filling(u, c, o, 0, rest)
<1> DEFINE left == OfChain(t, c, o) \o rest
           u == Apply(t, Head(left))
<1>1. /\ Head(left) = Cmd(IF t.exists[c] THEN "flush" ELSE "new", c)
      /\ Tail(left) = Filling(t, c, o, 0, rest)
  BY FreshStep
<1> HIDE DEF left
<1>2. Becomes(u, t, c, TRUE, <<>>, t.jumps[c])
  <2>1. CASE t.exists[c]
    <3>1. Becomes(u, t, c, t.exists[c], <<>>, t.jumps[c])
      BY <1>1, <2>1, Applied
    <3> QED BY <2>1, <3>1 DEF Becomes, TableOK
  <2>2. CASE ~t.exists[c]
    BY <1>1, <2>2, Applied
  <2> QED BY <2>1, <2>2
<1> HIDE DEF u
<1>3. Filled(u, c, o, 0)
  BY <1>2, SubSeqGrows DEF Becomes, Filled
<1>4. jumpOnce(u, c) = jumpOnce(t, c)
  BY <1>2 DEF Becomes, jumpOnce
<1>5. TableOK(u) /\ \A d \in Chain : d # c => Same(u, t, d)
  BY <1>2 DEF Becomes
<1>6. Tail(left) = Filling(u, c, o, 0, rest)
  BY <1>1, <1>4 DEF Filling
<1> QED BY <1>3, <1>5, <1>6, Zenon DEF left, u

C1 == "PROXY_INIT_REDIRECT"
C2 == "PROXY_INIT_OUTPUT"

\* Configuring, its parts named: before the first command, in the first chain and in
\* the second.
LEMMA ConfiguringParts ==
  ASSUME NEW o \in Option, NEW t, NEW left
  PROVE  /\ OfChain(t, C2, o) \in Seq(CmdType)
         /\ Configuring(t, o, left) <=>
              \/ left = OfChain(t, C1, o) \o OfChain(t, C2, o)
              \/ \E i \in 0..Len(RulesOf(C1, o)) :
                   /\ Filled(t, C1, o, i)
                   /\ left = Filling(t, C1, o, i, OfChain(t, C2, o))
              \/ /\ Complete(t, C1, o)
                 /\ \E i \in 0..Len(RulesOf(C2, o)) :
                      Filled(t, C2, o, i) /\ left = Filling(t, C2, o, i, <<>>)
<1>1. RulesOf(C1, o) = incomingRules(o) /\ RulesOf(C2, o) = outgoingRules(o)
  BY DEF RulesOf, C1, C2
<1>2. /\ addIncomingTrafficRules(o, t) = OfChain(t, C1, o)
      /\ addOutgoingTrafficRules(o, t) = OfChain(t, C2, o)
  BY <1>1, Zenon DEF addIncomingTrafficRules, addOutgoingTrafficRules, OfChain, C1, C2
<1>3. C1 \in Chain /\ C2 \in Chain
  BY DEF C1, C2, Chain
<1>4. OfChain(t, C2, o) \in Seq(CmdType)
  <2>1. <<>> \in Seq(CmdType)
    BY EmptySeq
  <2> QED BY <1>3, <2>1, FreshStep, Zenon
<1>5. ASSUME NEW i \in 0..Len(RulesOf(C2, o))
      PROVE  Filling(t, C2, o, i, <<>>) = Left(C2, o, i) \o jumpOnce(t, C2)
  <2>1. Left(C2, o, i) \in Seq(CmdType) /\ jumpOnce(t, C2) \in Seq(CmdType)
    BY <1>3, LeftUnfolds, JumpTyped, Zenon
  <2>2. Left(C2, o, i) \o jumpOnce(t, C2) \in Seq(CmdType)
    BY <2>1, ConcatProperties
  <2>3. (Left(C2, o, i) \o jumpOnce(t, C2)) \o <<>> = Left(C2, o, i) \o jumpOnce(t, C2)
    BY <2>2, ConcatEmptySeq
  <2> QED BY <2>3, Zenon DEF Filling
<1>6. ASSUME NEW i
      PROVE  Filling(t, C1, o, i, OfChain(t, C2, o))
               = Left(C1, o, i) \o jumpOnce(t, C1) \o addOutgoingTrafficRules(o, t)
  BY <1>2, Zenon DEF Filling
<1>7. configureRules(o, t) = OfChain(t, C1, o) \o OfChain(t, C2, o)
  BY <1>2, Zenon DEF configureRules
<1>8. Configuring(t, o, left) <=>
        \/ left = configureRules(o, t)
        \/ \E i \in 0..Len(RulesOf(C1, o)) :
             /\ Filled(t, C1, o, i)
             /\ left = Left(C1, o, i) \o jumpOnce(t, C1) \o addOutgoingTrafficRules(o, t)
        \/ /\ Complete(t, C1, o)
           /\ \E i \in 0..Len(RulesOf(C2, o)) :
                Filled(t, C2, o, i) /\ left = Left(C2, o, i) \o jumpOnce(t, C2)
  BY <1>1, Zenon DEF Configuring, C1, C2
<1> QED BY <1>4, <1>5, <1>6, <1>7, <1>8, Zenon

LEMMA ConfigureStep ==
  ASSUME NEW o \in Option, NEW t, TableOK(t), NEW U, o \in U,
         \A c \in Chain : ChainInv(t, U, c),
         NEW left, left # <<>>, Configuring(t, o, left)
  PROVE  LET u == Apply(t, Head(left))
         IN /\ TableOK(u) /\ \A c \in Chain : ChainInv(u, U, c)
            /\ Configuring(u, o, Tail(left))
<1> DEFINE u == Apply(t, Head(left))
           rest == OfChain(t, C2, o)
<1>1. C1 \in Chain /\ C2 \in Chain /\ C1 # C2 /\ \A c \in Chain : c = C1 \/ c = C2
  BY DEF C1, C2, Chain
<1>2. rest \in Seq(CmdType) /\ <<>> \in Seq(CmdType)
  BY ConfiguringParts, EmptySeq
<1>3. \A c \in Chain : ~t.exists[c] => t.rules[c] = <<>>
  BY DEF ChainInv
<1>4. ASSUME NEW c \in Chain, \A d \in Chain : d # c => Same(u, t, d),
             NEW i \in 0..Len(RulesOf(c, o)), Filled(u, c, o, i)
      PROVE  \A d \in Chain : ChainInv(u, U, d)
  <2>1. ChainInv(u, U, c)
    BY <1>4, Zenon DEF ChainInv, Filled
  <2>2. ASSUME NEW d \in Chain, d # c PROVE ChainInv(u, U, d)
    BY <1>4, <2>2, SameChain
  <2> QED BY <2>1, <2>2
<1>5. ASSUME TableOK(u), Same(u, t, C2), NEW i \in 0..Len(RulesOf(C1, o)),
             Filled(u, C1, o, i), Tail(left) = Filling(u, C1, o, i, rest)
      PROVE  Configuring(u, o, Tail(left))
  <2>1. OfChain(u, C2, o) = rest
    BY <1>5, SameChain
  <2> HIDE DEF u, rest
  <2> QED BY <1>5, <2>1, ConfiguringParts, Zenon
<1>6. ASSUME TableOK(u), Same(u, t, C1), NEW i \in 0..Len(RulesOf(C2, o)),
             Filled(u, C2, o, i), Complete(t, C1, o),
             Tail(left) = Filling(u, C2, o, i, <<>>)
      PROVE  Configuring(u, o, Tail(left))
  <2>1. Complete(u, C1, o)
    BY <1>6, SameChain
  <2> HIDE DEF u
  <2> QED BY <1>6, <2>1, ConfiguringParts, Zenon
<1>7. CASE left = OfChain(t, C1, o) \o rest
  <2>1. /\ TableOK(u) /\ \A d \in Chain : d # C1 => Same(u, t, d)
        /\ Filled(u, C1, o, 0)
        /\ Tail(left) = Filling(u, C1, o, 0, rest)
    <3> HIDE DEF rest
    <3> QED BY <1>1, <1>2, <1>3, <1>7, FreshConfig
  <2>2. 0 \in 0..Len(RulesOf(C1, o))
    BY <1>1, SubSeqGrows
  <2> HIDE DEF u, rest
  <2> QED BY <1>1, <1>4, <1>5, <2>1, <2>2 DEF u
<1>8. CASE \E i \in 0..Len(RulesOf(C1, o)) :
             Filled(t, C1, o, i) /\ left = Filling(t, C1, o, i, rest)
  <2>1. PICK i \in 0..Len(RulesOf(C1, o)) :
          Filled(t, C1, o, i) /\ left = Filling(t, C1, o, i, rest)
    BY <1>8
  <2>2. CASE i < Len(RulesOf(C1, o)) \/ t.jumps[C1] = 0
    <3>1. /\ TableOK(u) /\ \A d \in Chain : d # C1 => Same(u, t, d)
          /\ \E k \in 0..Len(RulesOf(C1, o)) :
               Filled(u, C1, o, k) /\ Tail(left) = Filling(u, C1, o, k, rest)
      <4> HIDE DEF rest
      <4> QED BY <1>1, <1>2, <2>1, <2>2, FillConfig
    <3> HIDE DEF u, rest
    <3> QED BY <1>1, <1>4, <1>5, <3>1 DEF u
  <2>3. CASE ~(i < Len(RulesOf(C1, o)) \/ t.jumps[C1] = 0)
    <3>1. i = Len(RulesOf(C1, o)) /\ t.jumps[C1] # 0
      BY <1>1, <2>3, SubSeqGrows
    <3>2. left = rest
      <4> HIDE DEF rest
      <4> QED BY <1>1, <1>2, <2>1, <3>1, FillStep
    <3>3. Complete(t, C1, o)
      BY <1>1, <2>1, <3>1, SubSeqGrows DEF Complete, Filled, TableOK
    <3>4. left = rest \o <<>>
      <4> HIDE DEF rest
      <4> QED BY <1>2, <3>2, ConcatEmptySeq
    <3>5. /\ TableOK(u) /\ \A d \in Chain : d # C2 => Same(u, t, d)
          /\ Filled(u, C2, o, 0)
          /\ Tail(left) = Filling(u, C2, o, 0, <<>>)
      BY <1>1, <1>2, <1>3, <3>4, FreshConfig
    <3>6. 0 \in 0..Len(RulesOf(C2, o))
      BY <1>1, SubSeqGrows
    <3> HIDE DEF u, rest
    <3> QED BY <1>1, <1>4, <1>6, <3>3, <3>5, <3>6 DEF u
  <2> QED BY <2>2, <2>3
<1>9. CASE /\ Complete(t, C1, o)
           /\ \E i \in 0..Len(RulesOf(C2, o)) :
                Filled(t, C2, o, i) /\ left = Filling(t, C2, o, i, <<>>)
  <2>1. PICK i \in 0..Len(RulesOf(C2, o)) :
          Filled(t, C2, o, i) /\ left = Filling(t, C2, o, i, <<>>)
    BY <1>9
  <2>2. i < Len(RulesOf(C2, o)) \/ t.jumps[C2] = 0
    <3>1. SUFFICES ASSUME i = Len(RulesOf(C2, o)), t.jumps[C2] # 0 PROVE FALSE
      BY <1>1, SubSeqGrows
    <3> DEFINE none == <<>>
    <3>2. none \in Seq(CmdType) /\ left = Filling(t, C2, o, i, none) /\ left # none
      BY <1>2, <2>1
    <3> HIDE DEF none
    <3> QED BY <1>1, <3>1, <3>2, FillStep
  <2>3. /\ TableOK(u) /\ \A d \in Chain : d # C2 => Same(u, t, d)
        /\ \E k \in 0..Len(RulesOf(C2, o)) :
             Filled(u, C2, o, k) /\ Tail(left) = Filling(u, C2, o, k, <<>>)
    <3> DEFINE none == <<>>
    <3> DEFINE f == Filling(t, C2, o, i, none)
    <3>1. none \in Seq(CmdType) /\ left = f /\ u = Apply(t, Head(f))
      BY <1>2, <2>1
    <3>2. i < Len(RulesOf(C2, o)) \/ t.jumps[C2] = 0
      BY <2>2
    <3> HIDE DEF none
    <3>3. /\ TableOK(Apply(t, Head(f)))
          /\ \A d \in Chain : d # C2 => Same(Apply(t, Head(f)), t, d)
          /\ \E k \in 0..Len(RulesOf(C2, o)) :
               /\ Filled(Apply(t, Head(f)), C2, o, k)
               /\ Tail(f) = Filling(Apply(t, Head(f)), C2, o, k, none)
      BY <1>1, <2>1, <3>1, <3>2, FillConfig
    <3> HIDE DEF u, f
    <3>4. /\ TableOK(u) /\ \A d \in Chain : d # C2 => Same(u, t, d)
          /\ \E k \in 0..Len(RulesOf(C2, o)) :
               Filled(u, C2, o, k) /\ Tail(left) = Filling(u, C2, o, k, none)
      BY <3>1, <3>3
    <3> QED BY <3>4, Zenon DEF none
  <2> HIDE DEF u
  <2> QED BY <1>1, <1>4, <1>6, <1>9, <2>3 DEF u
<1> QED BY <1>7, <1>8, <1>9, ConfiguringParts

LEMMA ConfigureEnds ==
  ASSUME NEW o \in Option, NEW t, TableOK(t), Configuring(t, o, <<>>)
  PROVE  \A c \in Chain : Complete(t, c, o)
<1> DEFINE rest == OfChain(t, C2, o)
<1>1. C1 \in Chain /\ C2 \in Chain /\ C1 # C2 /\ \A c \in Chain : c = C1 \/ c = C2
  BY DEF C1, C2, Chain
<1>2. rest \in Seq(CmdType) /\ <<>> \in Seq(CmdType)
  BY ConfiguringParts, EmptySeq
<1>3. rest # <<>>
  <2>1. rest \o <<>> # <<>> /\ rest \o <<>> = rest
    BY <1>1, <1>2, FreshStep, ConcatEmptySeq
  <2> QED BY <2>1
<1>4. OfChain(t, C1, o) \o rest # <<>>
  BY <1>1, <1>2, FreshStep
<1>5. ASSUME NEW i \in 0..Len(RulesOf(C1, o)) PROVE Filling(t, C1, o, i, rest) # <<>>
  <2>1. i < Len(RulesOf(C1, o)) \/ i = Len(RulesOf(C1, o))
    BY <1>1, SubSeqGrows
  <2> HIDE DEF rest
  <2> QED BY <1>1, <1>2, <1>3, <2>1, FillStep
<1>6. PICK i \in 0..Len(RulesOf(C2, o)) :
        Filled(t, C2, o, i) /\ Filling(t, C2, o, i, <<>>) = <<>> /\ Complete(t, C1, o)
  BY <1>4, <1>5, ConfiguringParts
<1>7. i = Len(RulesOf(C2, o)) /\ t.jumps[C2] # 0
  <2>1. i < Len(RulesOf(C2, o)) \/ i = Len(RulesOf(C2, o))
    BY <1>1, SubSeqGrows
  <2> DEFINE none == <<>>
  <2>2. none \in Seq(CmdType) /\ Filling(t, C2, o, i, none) = none
    BY <1>2, <1>6
  <2>3. none = <<>>
    OBVIOUS
  <2> HIDE DEF none
  <2>4. i < Len(RulesOf(C2, o)) => Filling(t, C2, o, i, none) # <<>>
    BY <1>1, <2>2, FillStep
  <2>5. i = Len(RulesOf(C2, o)) /\ t.jumps[C2] = 0 => Filling(t, C2, o, i, none) # <<>>
    BY <1>1, <2>2, FillStep
  <2> QED BY <2>1, <2>2, <2>3, <2>4, <2>5
<1>8. Complete(t, C2, o)
  BY <1>1, <1>6, <1>7, SubSeqGrows DEF Complete, Filled, TableOK
<1> QED BY <1>1, <1>6, <1>8

-----------------------------------------------------------------------------
(* One step of a cleanup. *)

LEMMA CleanupCommands ==
  /\ cleanupRules \in Seq(CmdType) /\ Len(cleanupRules) = 6
  /\ cleanupRules[1] = Cmd("unjump", C1) /\ cleanupRules[2] = Cmd("unjump", C2)
  /\ cleanupRules[3] = Cmd("flush", C2)  /\ cleanupRules[4] = Cmd("flush", C1)
  /\ cleanupRules[5] = Cmd("delete", C2) /\ cleanupRules[6] = Cmd("delete", C1)
<1>1. C1 \in Chain /\ C2 \in Chain
  BY DEF C1, C2, Chain
<1>2. /\ Cmd("unjump", C1) \in CmdType /\ Cmd("unjump", C2) \in CmdType
      /\ Cmd("flush", C1) \in CmdType /\ Cmd("flush", C2) \in CmdType
      /\ Cmd("delete", C1) \in CmdType /\ Cmd("delete", C2) \in CmdType
  BY <1>1, CmdsTyped DEF CmdOp
<1>3. cleanupRules = <<Cmd("unjump", C1), Cmd("unjump", C2), Cmd("flush", C2),
                       Cmd("flush", C1), Cmd("delete", C2), Cmd("delete", C1)>>
  BY Zenon DEF cleanupRules, C1, C2
<1> QED BY <1>2, <1>3

\* Cleaning, with the number of commands that have been executed.
Cleaned(t, k) ==
  /\ k >= 1 => t.jumps[C1] = 0
  /\ k >= 2 => t.jumps[C2] = 0
  /\ k >= 3 => t.rules[C2] = <<>>
  /\ k >= 4 => t.rules[C1] = <<>>
  /\ k >= 5 => ~t.exists[C2]
  /\ k >= 6 => ~t.exists[C1]

LEMMA CleaningParts ==
  ASSUME NEW t, NEW left
  PROVE  /\ Cleaning(t, left) <=>
              \E k \in 0..6 : left = SubSeq(cleanupRules, k + 1, 6) /\ Cleaned(t, k)
         /\ Cleaning(t, cleanupRules)
         /\ SubSeq(cleanupRules, 6 + 1, 6) = <<>>
         /\ \A k \in 0..5 : LET s == SubSeq(cleanupRules, k + 1, 6)
                            IN /\ s # <<>> /\ Head(s) = cleanupRules[k + 1]
                               /\ Tail(s) = SubSeq(cleanupRules, k + 2, 6)
<1>1. Cleaning(t, left) <=>
        \E k \in 0..6 : left = SubSeq(cleanupRules, k + 1, 6) /\ Cleaned(t, k)
  <2>1. Len(cleanupRules) = 6
    BY CleanupCommands
  <2> QED BY <2>1, Zenon DEF Cleaning, Cleaned, C1, C2
<1>2. Cleaning(t, cleanupRules)
  <2>1. SubSeq(cleanupRules, 1, 6) = cleanupRules /\ Len(cleanupRules) = 6
    BY CleanupCommands, SubSeqFull
  <2>2. SubSeq(cleanupRules, 0 + 1, Len(cleanupRules)) = cleanupRules
    BY <2>1
  <2>3. 0 \in 0..Len(cleanupRules)
    BY <2>1
  <2>4. ~(0 >= 1) /\ ~(0 >= 2) /\ ~(0 >= 3) /\ ~(0 >= 4) /\ ~(0 >= 5) /\ ~(0 >= 6)
    OBVIOUS
  <2> QED BY <2>2, <2>3, <2>4, Zenon DEF Cleaning
<1>3. SubSeq(cleanupRules, 6 + 1, 6) = <<>>
  BY SubSeqEmpty
<1>4. ASSUME NEW k \in 0..5
      PROVE  LET s == SubSeq(cleanupRules, k + 1, 6)
             IN /\ s # <<>> /\ Head(s) = cleanupRules[k + 1]
                /\ Tail(s) = SubSeq(cleanupRules, k + 2, 6)
  <2>1. cleanupRules \in Seq(CmdType) /\ Len(cleanupRules) = 6 /\ k \in Nat /\ k < 6
    BY CleanupCommands
  <2> QED BY <2>1, Remaining
<1> QED BY <1>1, <1>2, <1>3, <1>4

LEMMA CleanStep ==
  ASSUME NEW t, TableOK(t), NEW U, \A c \in Chain : ChainInv(t, U, c), NEW f,
         NEW left, left # <<>>, Cleaning(t, left), ~CmdFails(f, t, Head(left))
  PROVE  LET u == Apply(t, Head(left))
         IN /\ TableOK(u) /\ \A c \in Chain : ChainInv(u, U, c)
            /\ Cleaning(u, Tail(left))
<1> DEFINE u == Apply(t, Head(left))
<1>1. C1 \in Chain /\ C2 \in Chain /\ C1 # C2 /\ \A c \in Chain : c = C1 \/ c = C2
  BY DEF C1, C2, Chain
<1>2. PICK k \in 0..6 : left = SubSeq(cleanupRules, k + 1, 6) /\ Cleaned(t, k)
  BY CleaningParts
<1>3. k \in 0..5
  BY <1>2, CleaningParts
<1>4. /\ Head(left) = cleanupRules[k + 1]
      /\ Tail(left) = SubSeq(cleanupRules, (k + 1) + 1, 6)
  BY <1>2, <1>3, CleaningParts
<1> SUFFICES /\ TableOK(u) /\ \A c \in Chain : ChainInv(u, U, c)
             /\ Cleaned(u, k + 1)
  <2>1. k + 1 \in 0..6
    BY <1>3
  <2> HIDE DEF u
  <2>2. Cleaned(u, k + 1) => Cleaning(u, Tail(left))
    BY <1>4, <2>1, CleaningParts, Zenon
  <2> QED BY <2>2 DEF u
<1>5. ASSUME NEW c \in Chain, \A d \in Chain : d # c => Same(u, t, d), ChainInv(u, U, c)
      PROVE  \A d \in Chain : ChainInv(u, U, d)
  <2>1. ASSUME NEW d \in Chain, d # c PROVE ChainInv(u, U, d)
    BY <1>5, <2>1, SameChain
  <2> QED BY <1>5, <2>1
<1>6. ASSUME NEW c \in Chain, Head(left) = Cmd("unjump", c)
      PROVE  Becomes(u, t, c, t.exists[c], t.rules[c], 0)
  <2>1. t.jumps[c] = 1
    BY <1>6 DEF CmdFails, Cmd, TableOK
  <2> QED BY <1>6, <2>1, Applied
<1>7. ASSUME NEW c \in Chain, Head(left) = Cmd("flush", c)
      PROVE  Becomes(u, t, c, t.exists[c], <<>>, t.jumps[c])
  BY <1>7, Applied
<1>8. ASSUME NEW c \in Chain, Head(left) = Cmd("delete", c)
      PROVE  /\ TableOK(u) /\ \A d \in Chain : d # c => Same(u, t, d)
             /\ ~u.exists[c] /\ u.rules[c] = <<>> /\ u.jumps[c] = 0
  <2>1. t.jumps[c] = 0 /\ t.rules[c] = <<>>
    BY <1>8 DEF CmdFails, Cmd
  <2>2. Becomes(Apply(t, Cmd("delete", c)), t, c, FALSE, t.rules[c], t.jumps[c])
    BY Applied, Zenon
  <2>3. u = Apply(t, Cmd("delete", c))
    BY <1>8
  <2> HIDE DEF u
  <2>4. Becomes(u, t, c, FALSE, t.rules[c], t.jumps[c])
    BY <2>2, <2>3, Zenon
  <2> QED BY <2>1, <2>4 DEF Becomes
<1> HIDE DEF u
<1>9. ASSUME NEW c \in Chain, NEW rules, NEW jumps, NEW exists,
             Becomes(u, t, c, exists, rules, jumps),
             \/ rules = <<>> /\ (~exists => jumps = 0)
             \/ exists = t.exists[c] /\ rules = t.rules[c] /\ jumps = 0
      PROVE  TableOK(u) /\ \A d \in Chain : ChainInv(u, U, d)
  <2>1. CASE rules = <<>> /\ (~exists => jumps = 0)
    <3>1. ChainInv(u, U, c)
      BY <1>9, <2>1 DEF Becomes, ChainInv
    <3> QED BY <1>5, <1>9, <3>1 DEF Becomes
  <2>2. CASE exists = t.exists[c] /\ rules = t.rules[c] /\ jumps = 0
    <3>1. u.exists[c] = t.exists[c] /\ u.rules[c] = t.rules[c] /\ u.jumps[c] = 0
      BY <1>9, <2>2 DEF Becomes
    <3>2. ChainInv(t, U, c)
      OBVIOUS
    <3>3. ChainInv(u, U, c)
      BY <3>1, <3>2, Zenon DEF ChainInv, Filled
    <3> QED BY <1>5, <1>9, <3>3 DEF Becomes
  <2> QED BY <1>9, <2>1, <2>2
<1>10. \A c \in Chain : ~t.exists[c] => t.jumps[c] = 0
  BY DEF ChainInv
<1>11. CASE k = 0
  <2>1. Becomes(u, t, C1, t.exists[C1], t.rules[C1], 0)
    BY <1>1, <1>4, <1>6, <1>11, CleanupCommands
  <2>2. Cleaned(u, 1)
    BY <2>1 DEF Becomes, Cleaned
  <2> QED BY <1>1, <1>9, <1>11, <2>1, <2>2
<1>12. CASE k = 1
  <2>1. Becomes(u, t, C2, t.exists[C2], t.rules[C2], 0)
    BY <1>1, <1>4, <1>6, <1>12, CleanupCommands
  <2>2. Cleaned(u, 2)
    BY <1>1, <1>2, <1>12, <2>1 DEF Becomes, Same, Cleaned
  <2> QED BY <1>1, <1>9, <1>12, <2>1, <2>2
<1>13. CASE k = 2
  <2>1. Becomes(u, t, C2, t.exists[C2], <<>>, t.jumps[C2])
    BY <1>1, <1>4, <1>7, <1>13, CleanupCommands
  <2>2. Cleaned(u, 3)
    BY <1>1, <1>2, <1>13, <2>1 DEF Becomes, Same, Cleaned
  <2> QED BY <1>1, <1>9, <1>10, <1>13, <2>1, <2>2
<1>14. CASE k = 3
  <2>1. Becomes(u, t, C1, t.exists[C1], <<>>, t.jumps[C1])
    BY <1>1, <1>4, <1>7, <1>14, CleanupCommands
  <2>2. Cleaned(u, 4)
    BY <1>1, <1>2, <1>14, <2>1 DEF Becomes, Same, Cleaned
  <2> QED BY <1>1, <1>9, <1>10, <1>14, <2>1, <2>2
<1>15. CASE k = 4
  <2>1. /\ TableOK(u) /\ \A d \in Chain : d # C2 => Same(u, t, d)
        /\ ~u.exists[C2] /\ u.rules[C2] = <<>> /\ u.jumps[C2] = 0
    BY <1>1, <1>4, <1>8, <1>15, CleanupCommands
  <2>2. Cleaned(u, 5) /\ ChainInv(u, U, C2)
    BY <1>1, <1>2, <1>15, <2>1 DEF Same, Cleaned, ChainInv
  <2> QED BY <1>1, <1>5, <1>15, <2>1, <2>2
<1>16. CASE k = 5
  <2>1. /\ TableOK(u) /\ \A d \in Chain : d # C1 => Same(u, t, d)
        /\ ~u.exists[C1] /\ u.rules[C1] = <<>> /\ u.jumps[C1] = 0
    BY <1>1, <1>4, <1>8, <1>16, CleanupCommands
  <2>2. Cleaned(u, 6) /\ ChainInv(u, U, C1)
    BY <1>1, <1>2, <1>16, <2>1 DEF Same, Cleaned, ChainInv
  <2> QED BY <1>1, <1>5, <1>16, <2>1, <2>2
<1> QED BY <1>3, <1>11, <1>12, <1>13, <1>14, <1>15, <1>16

LEMMA CleanEnds ==
  ASSUME NEW t, TableOK(t), Cleaning(t, <<>>)
  PROVE  t = EmptyTable
<1>1. C1 \in Chain /\ C2 \in Chain /\ \A c \in Chain : c = C1 \/ c = C2
  BY DEF C1, C2, Chain
<1>2. PICK k \in 0..6 : <<>> = SubSeq(cleanupRules, k + 1, 6) /\ Cleaned(t, k)
  BY CleaningParts
<1>3. k = 6
  BY <1>2, CleaningParts
<1>4. \A c \in Chain : ~t.exists[c] /\ t.rules[c] = <<>> /\ t.jumps[c] = 0
  BY <1>1, <1>2, <1>3 DEF Cleaned
<1>5. \A c \in Chain : t.exists[c] = FALSE
  BY <1>4 DEF TableOK
<1> QED BY <1>4, <1>5 DEF TableOK, EmptyTable

-----------------------------------------------------------------------------
(* The invariant. *)

LEMMA TablesTyped ==
  /\ TypeOK => \A f \in Families : TableOK(table[f])
  /\ TablesInv <=> \A f \in Families, c \in Chain : ChainInv(table[f], used[f], c)
<1>1. TypeOK => \A f \in Families : TableOK(table[f])
  BY DEF TypeOK, TableOK
<1>2. TablesInv <=> \A f \in Families, c \in Chain : ChainInv(table[f], used[f], c)
  BY Zenon DEF TablesInv, ChainInv
<1> QED BY <1>1, <1>2

LEMMA EmptyTableOK ==
  TableOK(EmptyTable) /\ \A c \in Chain : EmptyTable.rules[c] = <<>>
BY DEF TableOK, EmptyTable

LEMMA InitInv == Init => FirewallInv
<1> SUFFICES ASSUME Init PROVE FirewallInv
  OBVIOUS
<1>1. /\ options \in Option /\ goal = "configure" /\ family = 4 /\ family \in Families
      /\ pc = "build"
  BY FirewallAssumption DEF Init, Families
<1>2. table = [f \in Families |-> EmptyTable] /\ used = [f \in Families |-> {}]
      /\ failures \in Nat /\ runs \in Nat
  BY DEF Init
<1>3. TypeOK
  <2>1. \A f \in Families : TableOK(table[f])
    BY <1>2, EmptyTableOK
  <2>2. used \in [Families -> SUBSET {o \in Option : ~BuildError(o)}]
    BY <1>2
  <2> QED BY <1>1, <1>2, <2>1, <2>2 DEF TypeOK, TableOK
<1>4. TablesInv
  BY <1>2, EmptyTableOK DEF TablesInv, EmptyTable
<1>5. RunInv
  BY <1>1 DEF RunInv
<1> QED BY <1>3, <1>4, <1>5 DEF FirewallInv

\* The steps that leave the tables alone.
LEMMA TablesKept ==
  ASSUME FirewallInv, UNCHANGED table,
         options' \in Option, goal' \in {"configure", "cleanup"},
         family' \in Families, failures' \in Nat, runs' \in Nat,
         used' \in [Families -> SUBSET {o \in Option : ~BuildError(o)}],
         \A f \in Families : used[f] \subseteq used'[f]
  PROVE  TypeOK' /\ TablesInv'
<1>1. TypeOK'
  BY DEF FirewallInv, TypeOK
<1>2. TablesInv'
  BY Zenon DEF FirewallInv, TablesInv
<1> QED BY <1>1, <1>2

LEMMA BuildInv == FirewallInv /\ Build => FirewallInv'
<1> SUFFICES ASSUME FirewallInv, Build PROVE FirewallInv'
  OBVIOUS
<1>1. /\ options' = options /\ goal' = goal /\ family' = family /\ table' = table
      /\ cmds' = cmds /\ failures' = failures /\ runs' = runs /\ pc = "build"
      /\ options \in Option /\ goal \in {"configure", "cleanup"} /\ family \in Families
      /\ failures \in Nat /\ runs \in Nat
      /\ used \in [Families -> SUBSET {o \in Option : ~BuildError(o)}]
  BY DEF Build, FirewallInv, TypeOK
<1>2. CASE BuildError(options)
  <2>1. pc' = "refused" /\ used' = used
    BY <1>2 DEF Build
  <2>2. ~options.simulate => goal = "configure"
    BY <1>1 DEF FirewallInv, RunInv
  <2>3. RunInv'
    BY <1>1, <2>1, <2>2 DEF RunInv
  <2> QED BY <1>1, <2>1, <2>3, TablesKept DEF FirewallInv
<1>3. CASE ~BuildError(options)
  <2>1. /\ pc' = "show"
        /\ used' = IF options.simulate THEN used
                   ELSE [used EXCEPT ![family] = @ \cup {options}]
    BY <1>3 DEF Build
  <2>2. /\ used' \in [Families -> SUBSET {o \in Option : ~BuildError(o)}]
        /\ \A f \in Families : used[f] \subseteq used'[f]
    <3>1. CASE options.simulate
      BY <1>1, <2>1, <3>1
    <3>2. CASE ~options.simulate
      <4> DEFINE v == used[family] \cup {options}
      <4>1. used' = [used EXCEPT ![family] = v]
        BY <2>1, <3>2
      <4>2. v \in SUBSET {o \in Option : ~BuildError(o)} /\ used[family] \subseteq v
        BY <1>1, <1>3
      <4> HIDE DEF v
      <4> QED BY <1>1, <4>1, <4>2
    <3> QED BY <3>1, <3>2
  <2>3. RunInv'
    <3>1. ~options.simulate => options \in used'[family]
      BY <1>1, <2>1
    <3>2. ~options.simulate /\ goal = "configure" /\ family = 6 =>
            \A c \in Chain : Complete(table[4], c, options)
      BY <1>1 DEF FirewallInv, RunInv
    <3>3. ~options.simulate => goal = "configure"
      BY <1>1 DEF FirewallInv, RunInv
    <3> QED BY <1>1, <2>1, <3>1, <3>2, <3>3 DEF RunInv
  <2> QED BY <1>1, <2>2, <2>3, TablesKept DEF FirewallInv
<1> QED BY <1>2, <1>3

LEMMA ShowInv == FirewallInv /\ ShowAllRules => FirewallInv'
<1> SUFFICES ASSUME FirewallInv, ShowAllRules PROVE FirewallInv'
  OBVIOUS
<1>1. /\ options' = options /\ goal' = goal /\ family' = family /\ table' = table
      /\ failures' = failures /\ runs' = runs /\ pc = "show" /\ used' = used
      /\ pc' = "execute"
      /\ options \in Option /\ goal \in {"configure", "cleanup"} /\ family \in Families
      /\ failures \in Nat /\ runs \in Nat
      /\ used \in [Families -> SUBSET {o \in Option : ~BuildError(o)}]
  BY DEF ShowAllRules, FirewallInv, TypeOK
<1>2. cmds' = configureRules(options, IF options.simulate THEN EmptyTable
                                      ELSE table[family])
  BY DEF ShowAllRules
<1>3. RunInv'
  <2>1. SUFFICES ASSUME ~options.simulate PROVE RunInv'
    BY <1>1 DEF RunInv
  <2>2. cmds' = configureRules(options, table[family])
    BY <1>2, <2>1
  <2>3. Configuring(table[family], options, cmds')
    BY <2>2, Zenon DEF Configuring
  <2>4. goal = "configure" /\ options \in used[family]
    BY <1>1, <2>1 DEF FirewallInv, RunInv
  <2>5. family = 6 => \A c \in Chain : Complete(table[4], c, options)
    BY <1>1, <2>1, <2>4 DEF FirewallInv, RunInv
  <2> QED BY <1>1, <2>3, <2>4, <2>5 DEF RunInv
<1> QED BY <1>1, <1>3, TablesKept DEF FirewallInv

LEMMA ExecuteInv == FirewallInv /\ Execute => FirewallInv'
<1> SUFFICES ASSUME FirewallInv, Execute PROVE FirewallInv'
  OBVIOUS
<1> DEFINE t == table[family]
           u == Apply(t, Head(cmds))
<1>1. /\ options' = options /\ goal' = goal /\ family' = family /\ pc' = pc
      /\ failures' = failures /\ runs' = runs /\ pc = "execute" /\ used' = used
      /\ cmds # <<>> /\ cmds' = Tail(cmds)
      /\ options \in Option /\ goal \in {"configure", "cleanup"} /\ family \in Families
      /\ failures \in Nat /\ runs \in Nat
      /\ used \in [Families -> SUBSET {o \in Option : ~BuildError(o)}]
      /\ DOMAIN table = Families
  BY DEF Execute, FirewallInv, TypeOK
<1>2. CASE options.simulate
  <2>1. table' = table
    BY <1>2 DEF Execute
  <2>2. RunInv'
    BY <1>1, <1>2 DEF RunInv
  <2> QED BY <1>1, <2>1, <2>2, TablesKept DEF FirewallInv
<1>3. CASE ~options.simulate
  <2>1. table' = [table EXCEPT ![family] = u] /\ ~CmdFails(family, t, Head(cmds))
    BY <1>3 DEF Execute
  <2>2. TableOK(t) /\ \A c \in Chain : ChainInv(t, used[family], c)
    BY <1>1, TablesTyped DEF FirewallInv
  <2>3. ASSUME goal = "configure"
        PROVE  /\ TableOK(u) /\ \A c \in Chain : ChainInv(u, used[family], c)
               /\ Configuring(u, options, Tail(cmds)) /\ options \in used[family]
    <3>1. Configuring(t, options, cmds) /\ options \in used[family]
      BY <1>1, <1>3, <2>3 DEF FirewallInv, RunInv
    <3> HIDE DEF t
    <3> QED BY <1>1, <2>2, <3>1, ConfigureStep
  <2>4. ASSUME goal = "cleanup"
        PROVE  /\ TableOK(u) /\ \A c \in Chain : ChainInv(u, used[family], c)
               /\ Cleaning(u, Tail(cmds))
    <3>1. Cleaning(t, cmds)
      BY <1>1, <1>3, <2>4 DEF FirewallInv, RunInv
    <3> HIDE DEF t
    <3> QED BY <1>1, <2>1, <2>2, <3>1, CleanStep
  <2> HIDE DEF u, t
  <2>5. TableOK(u) /\ \A c \in Chain : ChainInv(u, used[family], c)
    BY <1>1, <2>3, <2>4
  <2>6. /\ DOMAIN table' = Families /\ table'[family] = u
        /\ \A f \in Families : f # family => table'[f] = table[f]
    BY <1>1, <2>1
  <2>7. \A f \in Families : TableOK(table'[f])
    BY <2>5, <2>6, TablesTyped DEF FirewallInv
  <2>8. TypeOK'
    BY <1>1, <2>6, <2>7 DEF TypeOK, TableOK
  <2>9. TablesInv'
    <3>1. \A f \in Families, c \in Chain : ChainInv(table'[f], used[f], c)
      BY <2>5, <2>6, TablesTyped DEF FirewallInv
    <3>2. \A f \in Families, c \in Chain : ChainInv(table'[f], used'[f], c)
      BY <1>1, <3>1
    <3> QED BY <3>2, Zenon DEF TablesInv, ChainInv
  <2>10. RunInv'
    <3>1. CASE goal = "configure"
      <4>1. family = 6 => \A c \in Chain : Complete(table'[4], c, options)
        BY <1>1, <1>3, <2>6, <3>1 DEF FirewallInv, RunInv, Families
      <4>2. Configuring(table'[family], options, cmds') /\ options \in used[family]
        BY <1>1, <2>3, <2>6, <3>1
      <4> QED BY <1>1, <3>1, <4>1, <4>2 DEF RunInv
    <3>2. CASE goal = "cleanup"
      <4>1. Cleaning(table'[family], cmds')
        BY <1>1, <2>4, <2>6, <3>2
      <4> QED BY <1>1, <3>2, <4>1 DEF RunInv
    <3> QED BY <1>1, <3>1, <3>2
  <2> QED BY <2>8, <2>9, <2>10 DEF FirewallInv
<1> QED BY <1>2, <1>3

LEMMA FailInv == FirewallInv /\ (CommandFails \/ Fail) => FirewallInv'
<1> SUFFICES ASSUME FirewallInv, CommandFails \/ Fail PROVE FirewallInv'
  OBVIOUS
<1>1. /\ options' = options /\ goal' = goal /\ family' = family /\ table' = table
      /\ failures' \in Nat /\ runs' = runs /\ used' = used /\ pc' = "failed"
      /\ options \in Option /\ goal \in {"configure", "cleanup"} /\ family \in Families
      /\ runs \in Nat
      /\ used \in [Families -> SUBSET {o \in Option : ~BuildError(o)}]
  BY DEF CommandFails, Fail, FirewallInv, TypeOK
<1>2. RunInv'
  BY <1>1 DEF RunInv
<1> QED BY <1>1, <1>2, TablesKept DEF FirewallInv

LEMMA FinishInv == FirewallInv /\ Finish => FirewallInv'
<1> SUFFICES ASSUME FirewallInv, Finish PROVE FirewallInv'
  OBVIOUS
<1>1. /\ options' = options /\ goal' = goal /\ table' = table /\ cmds = <<>> /\ cmds' = cmds
      /\ failures' = failures /\ runs' = runs /\ pc = "execute"
      /\ options \in Option /\ goal \in {"configure", "cleanup"} /\ family \in Families
      /\ failures \in Nat /\ runs \in Nat
      /\ used \in [Families -> SUBSET {o \in Option : ~BuildError(o)}]
  BY DEF Finish, FirewallInv, TypeOK
<1>2. TableOK(table[family])
  BY <1>1, TablesTyped DEF FirewallInv
<1>3. IF goal = "configure" /\ options.ipv6 /\ family = 4
      THEN pc' = "build" /\ family' = 6 ELSE pc' = "done" /\ family' = family
  BY DEF Finish
<1>4. family' \in Families
  BY <1>1, <1>3 DEF Families
<1>5. CASE options.simulate \/ goal = "configure"
  <2>1. used' = used
    BY <1>1, <1>5 DEF Finish
  <2>2. RunInv'
    <3>1. SUFFICES ASSUME ~options.simulate PROVE RunInv'
      BY <1>1 DEF RunInv
    <3>2. goal = "configure"
      BY <1>5, <3>1
    <3>3. Configuring(table[family], options, <<>>)
      BY <1>1, <3>1, <3>2 DEF FirewallInv, RunInv
    <3>4. \A c \in Chain : Complete(table[family], c, options)
      BY <1>1, <1>2, <3>3, ConfigureEnds
    <3>5. family' = 6 => \A c \in Chain : Complete(table[4], c, options)
      <4>1. family = 6 => \A c \in Chain : Complete(table[4], c, options)
        BY <1>1, <3>1, <3>2 DEF FirewallInv, RunInv
      <4> QED BY <1>1, <1>3, <3>4, <4>1 DEF Families
    <3>6. pc' = "done" => family' = family /\ (options.ipv6 => family = 6)
      BY <1>1, <1>3, <3>2 DEF Families
    <3>7. pc' \in {"build", "done"}
      BY <1>3
    <3>8. options \in used[family]
      BY <1>1, <3>1, <3>2 DEF FirewallInv, RunInv
    <3>9. pc' = "done" => options' \in used'[family']
      BY <1>1, <2>1, <3>6, <3>8
    <3> QED BY <1>1, <3>2, <3>4, <3>5, <3>6, <3>7, <3>9 DEF RunInv
  <2> QED BY <1>1, <1>4, <2>1, <2>2, TablesKept DEF FirewallInv
<1>6. CASE ~options.simulate /\ goal = "cleanup"
  <2>1. /\ pc' = "done" /\ family' = family
        /\ used' = [used EXCEPT ![family] = {}]
    BY <1>3, <1>6 DEF Finish
  <2>2. Cleaning(table[family], <<>>)
    BY <1>1, <1>6 DEF FirewallInv, RunInv
  <2>3. table[family] = EmptyTable
    BY <1>2, <2>2, CleanEnds
  <2>4. RunInv'
    BY <1>1, <1>6, <2>1, <2>3 DEF RunInv
  <2>5. used' \in [Families -> SUBSET {o \in Option : ~BuildError(o)}]
    BY <1>1, <2>1
  <2>6. TypeOK'
    BY <1>1, <1>4, <2>5 DEF FirewallInv, TypeOK
  <2>7. ASSUME NEW f \in Families, NEW c \in Chain PROVE ChainInv(table[f], used'[f], c)
    <3>1. CASE f = family
      BY <2>3, <3>1 DEF ChainInv, EmptyTable
    <3>2. CASE f # family
      <4>1. used'[f] = used[f]
        BY <1>1, <2>1, <3>2
      <4> QED BY <4>1, TablesTyped DEF FirewallInv
    <3> QED BY <3>1, <3>2
  <2>8. TablesInv'
    <3>1. \A f \in Families, c \in Chain : ChainInv(table'[f], used'[f], c)
      BY <1>1, <2>7
    <3> QED BY <3>1, Zenon DEF TablesInv, ChainInv
  <2> QED BY <2>4, <2>6, <2>8 DEF FirewallInv
<1> QED BY <1>1, <1>5, <1>6

LEMMA AgainInv == FirewallInv /\ (Retry \/ Start \/ StartCleanup) => FirewallInv'
<1> SUFFICES ASSUME FirewallInv, Retry \/ Start \/ StartCleanup PROVE FirewallInv'
  OBVIOUS
<1>1. /\ options \in Option /\ goal \in {"configure", "cleanup"} /\ family \in Families
      /\ failures \in Nat /\ runs \in Nat
      /\ used \in [Families -> SUBSET {o \in Option : ~BuildError(o)}]
  BY DEF FirewallInv, TypeOK
<1>2. \A o \in Option : FamiliesOf(o) \subseteq Families
  BY DEF FamiliesOf, Families
<1>3. /\ options' \in Option /\ goal' \in {"configure", "cleanup"} /\ family' \in Families
      /\ failures' \in Nat /\ runs' \in Nat /\ used' = used /\ table' = table
      /\ \/ goal' = "configure" /\ pc' = "build" /\ family' = 4
         \/ goal' = "cleanup" /\ pc' = "execute" /\ cmds' = cleanupRules
  <2>1. CASE Retry
    BY <1>1, <2>1 DEF Retry, Families
  <2>2. CASE Start
    BY <1>1, <2>2, FirewallAssumption DEF Start, Families
  <2>3. CASE StartCleanup
    BY <1>1, <1>2, <2>3 DEF StartCleanup
  <2> QED BY <2>1, <2>2, <2>3
<1>4. RunInv'
  <2>1. \A t : Cleaning(t, cleanupRules)
    BY CleaningParts
  <2> QED BY <1>3, <2>1 DEF RunInv
<1> QED BY <1>1, <1>3, <1>4, TablesKept DEF FirewallInv

\* The tables and the commands of runs are what FirewallInv says: a chain never holds
\* anything but the first rules of one run since the last cleanup.
THEOREM FirewallInvariant == Spec => []FirewallInv
<1>1. FirewallInv /\ [Next]_vars => FirewallInv'
  <2> SUFFICES ASSUME FirewallInv, [Next]_vars PROVE FirewallInv'
    OBVIOUS
  <2>1. CASE UNCHANGED vars
    <3>1. /\ table' = table /\ options' = options /\ goal' = goal /\ pc' = pc
          /\ family' = family /\ cmds' = cmds /\ failures' = failures /\ runs' = runs
          /\ used' = used
      BY <2>1 DEF vars
    <3>2. TypeOK' /\ TablesInv'
      BY <3>1, TablesKept DEF FirewallInv, TypeOK
    <3>3. RunInv'
      BY <3>1 DEF FirewallInv, RunInv
    <3> QED BY <3>2, <3>3 DEF FirewallInv
  <2>2. CASE Next
    BY <2>2, BuildInv, ShowInv, ExecuteInv, FailInv, FinishInv, AgainInv DEF Next
  <2> QED BY <2>1, <2>2
<1> QED BY <1>1, InitInv, PTL DEF Spec

-----------------------------------------------------------------------------
(* What follows from it. *)

\* However often runs fail and are repeated, a chain is entered from one place.
THEOREM EnteredOnce == Spec => []JumpsOnce
<1>1. FirewallInv => JumpsOnce
  BY DEF FirewallInv, TypeOK, JumpsOnce
<1> QED BY <1>1, FirewallInvariant, PTL

\* A cleanup that ends leaves the table of its family as it was before the first run.
THEOREM CleanupIsComplete == Spec => []CleanedIsEmpty
<1>1. FirewallInv => CleanedIsEmpty
  BY DEF FirewallInv, RunInv, CleanedIsEmpty
<1> QED BY <1>1, FirewallInvariant, PTL

\* Runs have the options they may be started with.
OptionsGiven == options \in Options /\ \A f \in Families : used[f] \subseteq Options

LEMMA OptionsInvariant == Spec => []OptionsGiven
<1>1. Init => OptionsGiven
  BY DEF Init, OptionsGiven
<1>2. TypeOK /\ OptionsGiven /\ [Next]_vars => OptionsGiven'
  <2> SUFFICES ASSUME TypeOK, OptionsGiven, [Next]_vars PROVE OptionsGiven'
    OBVIOUS
  <2>1. family \in Families /\ DOMAIN used = Families
    BY DEF TypeOK
  <2>2. CASE Build
    <3>1. options' = options
      BY <2>2 DEF Build
    <3>2. used' = used \/ used' = [used EXCEPT ![family] = @ \cup {options}]
      BY <2>2 DEF Build
    <3>3. CASE used' = used
      BY <3>1, <3>3 DEF OptionsGiven
    <3>4. CASE used' = [used EXCEPT ![family] = @ \cup {options}]
      BY <2>1, <3>1, <3>4 DEF OptionsGiven
    <3> QED BY <3>2, <3>3, <3>4
  <2>3. CASE Finish
    <3>1. options' = options
      BY <2>3 DEF Finish
    <3>2. \A f \in Families : used'[f] \subseteq used[f]
      BY <2>1, <2>3 DEF Finish
    <3> QED BY <3>1, <3>2 DEF OptionsGiven
  <2>4. CASE Start
    BY <2>4 DEF Start, OptionsGiven
  <2>5. CASE ShowAllRules \/ Execute \/ CommandFails \/ Fail \/ Retry \/ StartCleanup
    BY <2>5 DEF ShowAllRules, Execute, CommandFails, Fail, Retry, StartCleanup, OptionsGiven
  <2>6. CASE UNCHANGED vars
    BY <2>6 DEF vars, OptionsGiven
  <2> QED BY <2>2, <2>3, <2>4, <2>5, <2>6 DEF Next
<1>3. FirewallInv => TypeOK
  BY DEF FirewallInv
<1> QED BY <1>1, <1>2, <1>3, FirewallInvariant, PTL DEF Spec

\* At every step of every run, a packet is redirected only where the options of a run on
\* that family ask for: not while rules are half-written, after a run that failed, nor
\* while others replace them.  User and group 0, which the code takes for none, excepted.
THEOREM OnlyAskedIsRedirected ==
  ASSUME \A o \in Options, p \in Packets : IdsGiven(o, p)
  PROVE  Spec => []RedirectsOnlyAsked
<1>1. FirewallInv /\ OptionsGiven => RedirectsOnlyAsked
  <2> SUFFICES ASSUME FirewallInv, OptionsGiven, NEW f \in Families, NEW p \in Packets
               PROVE  RedirectedTo(table[f], p)
                        \subseteq UNION {Asked(o, p) : o \in used[f]}
    BY DEF RedirectsOnlyAsked
  <2> DEFINE t == table[f]
             U == used[f]
  <2>1. p \in Packet /\ p.chain \in Chain
    BY FirewallAssumption DEF Packet
  <2>2. ChainInv(t, U, p.chain)
    BY <2>1, TablesTyped DEF FirewallInv
  <2>3. U \subseteq {o \in Option : ~BuildError(o)} /\ U \subseteq Options
    BY DEF FirewallInv, TypeOK, OptionsGiven
  <2> HIDE DEF t, U
  <2>4. CASE t.rules[p.chain] = <<>>
    <3>1. Deciding(t.rules[p.chain], p) = {}
      BY <2>4 DEF Deciding
    <3> QED BY <3>1 DEF RedirectedTo, t
  <2>5. CASE \E o \in U : \E i \in 0..Len(RulesOf(p.chain, o)) : Filled(t, p.chain, o, i)
    <3>0. PICK o \in U : \E i \in 0..Len(RulesOf(p.chain, o)) : Filled(t, p.chain, o, i)
      BY <2>5
    <3>1. PICK i \in 0..Len(RulesOf(p.chain, o)) : Filled(t, p.chain, o, i)
      BY <3>0
    <3>2. o \in Option /\ ~BuildError(o) /\ IdsGiven(o, p)
      BY <2>3
    <3>3. RedirectedTo(t, p) \subseteq Asked(o, p)
      BY <2>1, <3>1, <3>2, ChainRedirects DEF Filled
    <3> QED BY <3>3 DEF t, U
  <2> QED BY <2>2, <2>4, <2>5 DEF ChainInv
<1> QED BY <1>1, FirewallInvariant, OptionsInvariant, PTL

\* A run that ends has made exactly what its options ask for redirected, on each of its
\* families, whatever earlier runs left.  User and group 0 excepted.
THEOREM DoneRunIsAsked ==
  ASSUME \A o \in Options, p \in Packets : IdsGiven(o, p)
  PROVE  Spec => []DoneIsAsked
<1>1. FirewallInv /\ OptionsGiven => DoneIsAsked
  <2> SUFFICES ASSUME FirewallInv, OptionsGiven, pc = "done", goal = "configure",
                      ~options.simulate, NEW f \in FamiliesOf(options), NEW p \in Packets
               PROVE  RedirectedTo(table[f], p) = Asked(options, p)
    BY DEF DoneIsAsked
  <2> DEFINE t == table[f]
             R == RulesOf(p.chain, options)
  <2>1. p \in Packet /\ p.chain \in Chain
    BY FirewallAssumption DEF Packet
  <2>2. options \in Option /\ options \in Options /\ family \in Families
    BY DEF FirewallInv, TypeOK, OptionsGiven
  <2>3. Complete(t, p.chain, options)
    <3>1. /\ options.ipv6 => family = 6
          /\ \A c \in Chain : Complete(table[family], c, options)
          /\ family = 6 => \A c \in Chain : Complete(table[4], c, options)
      BY DEF FirewallInv, RunInv
    <3>2. f = family \/ (f = 4 /\ family = 6)
      BY <2>2, <3>1 DEF FamiliesOf, Families
    <3> QED BY <2>1, <3>1, <3>2
  <2>4. ~BuildError(options)
    <3>1. \A g \in Families : used[g] \subseteq {x \in Option : ~BuildError(x)}
      BY DEF FirewallInv, TypeOK
    <3>2. options \in used[family]
      BY DEF FirewallInv, RunInv
    <3> QED BY <2>2, <3>1, <3>2
  <2>5. Len(R) \in Nat /\ SubSeq(R, 1, Len(R)) = R
    BY <2>1, <2>2, SubSeqGrows
  <2>6. Len(R) \in 0..Len(R) /\ t.rules[p.chain] = SubSeq(R, 1, Len(R))
        /\ t.jumps[p.chain] # 0
    BY <2>3, <2>5 DEF Complete
  <2> QED BY <2>1, <2>2, <2>4, <2>6, ChainRedirects
<1> QED BY <1>1, FirewallInvariant, OptionsInvariant, PTL
=============================================================================
