---------------------------- MODULE ImportRowsProofs ----------------------------
(***************************************************************************)
(* What an import of any files guarantees, whatever their rows and the     *)
(* changes of their mapping: no limit cuts rows off in silence, every      *)
(* column reaches the records or is reported, duplicates of strong keys    *)
(* are marked; every record is in one group, no group has two object GUIDs *)
(* or SIDs, two groups get the same identity only when both are in         *)
(* conflict; and no relationship rests on an ambiguous reference.          *)
(***************************************************************************)
EXTENDS ImportRows, FiniteSetTheorems, SequenceTheorems, WellFoundedInduction, Integers, TLAPS

------------------------------------------------------------------------------
(* Induction, sequences and finite sets                                    *)

\* A set of numbers has a least one: < is well-founded (WFMin, with a set for its predicate).
LEMMA LeastNatural ==
    ASSUME NEW S \in SUBSET Nat, S # {}
    PROVE  \E n \in S : \A m \in S : n <= m
<1>1. PICK n \in S : \A m \in S : ~(<<m, n>> \in OpToRel(<, Nat))
  BY NatLessThanWellFounded, WFMin
<1>2. \A m \in S : ~(m < n)
  BY <1>1 DEF OpToRel
<1> QED BY <1>2

\* Induction over the numbers, stated of a set.
LEMMA AllNaturals ==
    ASSUME NEW S \in SUBSET Nat, 0 \in S, \A n \in S : n + 1 \in S
    PROVE  S = Nat
<1> SUFFICES ASSUME Nat \ S # {} PROVE FALSE
  OBVIOUS
<1>1. PICK n \in Nat \ S : \A m \in Nat \ S : n <= m
  BY LeastNatural
<1>2. n # 0 /\ n - 1 \in Nat
  BY <1>1
<1>3. n - 1 \in S
  BY <1>1, <1>2
<1> QED BY <1>1, <1>2, <1>3

\* f joins the first sequences of ss, up to the k-th: the recursion that FlattenSeq is defined by.
Joins(f, ss, k) == \A i \in 1..k : f[i] = IF i = 1 THEN ss[i] ELSE f[i - 1] \o ss[i]

\* By induction over k.
LEMMA JoinsExist ==
    ASSUME NEW S, NEW ss \in Seq(Seq(S))
    PROVE  \A k \in 0..Len(ss) : \E f \in [1..k -> Seq(S)] : Joins(f, ss, k)
<1> DEFINE Good == {k \in Nat : k <= Len(ss) => \E f \in [1..k -> Seq(S)] : Joins(f, ss, k)}
<1>1. 0 \in Good
  <2>1. [i \in 1..0 |-> <<>>] \in [1..0 -> Seq(S)]
    OBVIOUS
  <2>2. Joins([i \in 1..0 |-> <<>>], ss, 0)
    BY DEF Joins
  <2> QED BY <2>1, <2>2
<1>2. ASSUME NEW k \in Good PROVE k + 1 \in Good
  <2> SUFFICES ASSUME k + 1 <= Len(ss) PROVE \E f \in [1..(k + 1) -> Seq(S)] : Joins(f, ss, k + 1)
    OBVIOUS
  <2>1. PICK f \in [1..k -> Seq(S)] : Joins(f, ss, k)
    BY k + 1 <= Len(ss)
  <2> DEFINE g == [i \in 1..(k + 1) |-> IF i <= k THEN f[i] ELSE IF k = 0 THEN ss[1] ELSE f[k] \o ss[k + 1]]
  <2>2. ss[k + 1] \in Seq(S) /\ ss[1] \in Seq(S)
    OBVIOUS
  <2>3. k # 0 => f[k] \in Seq(S)
    OBVIOUS
  <2>4. k # 0 => f[k] \o ss[k + 1] \in Seq(S)
    BY <2>2, <2>3
  <2>5. g \in [1..(k + 1) -> Seq(S)]
    BY <2>2, <2>4
  <2>6. Joins(g, ss, k + 1)
    <3> SUFFICES ASSUME NEW i \in 1..(k + 1) PROVE g[i] = IF i = 1 THEN ss[i] ELSE g[i - 1] \o ss[i]
      BY DEF Joins
    <3>1. CASE i <= k
      <4>1. i \in 1..k /\ (i # 1 => i - 1 \in 1..(k + 1) /\ i - 1 <= k)
        BY <3>1
      <4>2. f[i] = IF i = 1 THEN ss[i] ELSE f[i - 1] \o ss[i]
        BY <2>1, <4>1, Zenon DEF Joins
      <4>3. g[i] = f[i] /\ (i # 1 => g[i - 1] = f[i - 1])
        BY <4>1, <3>1
      <4> QED BY <4>2, <4>3
    <3>2. CASE i = k + 1
      BY <3>2
    <3> QED BY <3>1, <3>2
  <2> QED BY <2>5, <2>6
<1> HIDE DEF Good
<1>3. Good = Nat
  BY <1>1, <1>2, AllNaturals DEF Good
<1>4. \A k \in 0..Len(ss) : k \in Nat /\ k <= Len(ss)
  OBVIOUS
<1> QED BY <1>3, <1>4, Zenon DEF Good

\* By induction over i: two joins have the same i-th value.
LEMMA JoinsUnique ==
    ASSUME NEW ss, NEW n \in Nat, NEW f, NEW g, Joins(f, ss, n), Joins(g, ss, n)
    PROVE  \A k \in 1..n : f[k] = g[k]
<1> DEFINE Good == {k \in Nat : k \in 1..n => f[k] = g[k]}
<1>1. 0 \in Good
  OBVIOUS
<1>2. ASSUME NEW k \in Good PROVE k + 1 \in Good
  <2> SUFFICES ASSUME k + 1 \in 1..n PROVE f[k + 1] = g[k + 1]
    OBVIOUS
  <2>1. CASE k = 0
    BY <2>1 DEF Joins
  <2>2. CASE k # 0
    <3>1. f[k] = g[k]
      BY <2>2
    <3>2. k \in Nat /\ k + 1 # 1 /\ (k + 1) - 1 = k
      BY <2>2
    <3>3. f[k + 1] = f[k] \o ss[k + 1]
      BY <3>2, Zenon DEF Joins
    <3>4. g[k + 1] = g[k] \o ss[k + 1]
      BY <3>2, Zenon DEF Joins
    <3> QED BY <3>1, <3>3, <3>4
  <2> QED BY <2>1, <2>2
<1> HIDE DEF Good
<1>3. Good = Nat
  BY <1>1, <1>2, AllNaturals DEF Good
<1> QED BY <1>3 DEF Good

\* FlattenSeq is the last of the joins.
LEMMA FlattenIsJoin ==
    ASSUME NEW S, NEW ss \in Seq(Seq(S)), Len(ss) > 0, NEW f, Joins(f, ss, Len(ss))
    PROVE  FlattenSeq(ss) = f[Len(ss)]
<1> DEFINE Defines(g) == g = [i \in 1..Len(ss) |-> IF i = 1 THEN ss[i] ELSE g[i - 1] \o ss[i]]
<1>0. Len(ss) \in 0..Len(ss) /\ Len(ss) \in 1..Len(ss) /\ Len(ss) # 0
  OBVIOUS
<1>1. PICK h \in [1..Len(ss) -> Seq(S)] : Joins(h, ss, Len(ss))
  BY <1>0, JoinsExist
<1>2. Defines(h)
  <2>1. \A i \in 1..Len(ss) : h[i] = IF i = 1 THEN ss[i] ELSE h[i - 1] \o ss[i]
    BY <1>1 DEF Joins
  <2> QED BY <1>1, <2>1
<1> DEFINE flatten == CHOOSE g : Defines(g)
<1>3. Defines(flatten)
  <2> HIDE DEF Defines
  <2> QED BY <1>2
<1>4. Joins(flatten, ss, Len(ss))
  <2> HIDE DEF flatten
  <2> QED BY <1>3 DEF Joins
<1>5. FlattenSeq(ss) = flatten[Len(ss)]
  BY <1>0, Zenon DEF FlattenSeq
<1> HIDE DEF flatten
<1> QED BY <1>0, <1>4, <1>5, JoinsUnique

LEMMA FlattenEmpty == FlattenSeq(<<>>) = <<>>
  BY DEF FlattenSeq

\* The whole is a sequence of what the parts are sequences of.
LEMMA FlattenType ==
    ASSUME NEW S, NEW ss \in Seq(Seq(S))
    PROVE  FlattenSeq(ss) \in Seq(S)
<1>1. CASE Len(ss) = 0
  <2>1. ss = <<>> /\ <<>> \in Seq(S)
    BY <1>1
  <2> QED BY <2>1, FlattenEmpty
<1>2. CASE Len(ss) > 0
  <2>1. Len(ss) \in 0..Len(ss) /\ Len(ss) \in 1..Len(ss)
    BY <1>2
  <2>2. PICK f \in [1..Len(ss) -> Seq(S)] : Joins(f, ss, Len(ss))
    BY <2>1, JoinsExist
  <2>3. FlattenSeq(ss) = f[Len(ss)]
    BY <2>2, <1>2, FlattenIsJoin
  <2> QED BY <2>1, <2>3
<1> QED BY <1>1, <1>2

\* One more part comes at the end.
LEMMA FlattenAppend ==
    ASSUME NEW S, NEW ss \in Seq(Seq(S)), NEW s \in Seq(S)
    PROVE  FlattenSeq(Append(ss, s)) = FlattenSeq(ss) \o s
<1> DEFINE tt == Append(ss, s)
<1>1. tt \in Seq(Seq(S)) /\ Len(tt) = Len(ss) + 1 /\ tt[Len(ss) + 1] = s /\ \A i \in 1..Len(ss) : tt[i] = ss[i]
  OBVIOUS
<1> HIDE DEF tt
<1>0. Len(tt) \in 0..Len(tt) /\ Len(tt) > 0
  BY <1>1
<1>2. PICK f \in [1..Len(tt) -> Seq(S)] : Joins(f, tt, Len(tt))
  BY <1>0, <1>1, JoinsExist
<1>3. FlattenSeq(tt) = f[Len(tt)]
  BY <1>0, <1>1, <1>2, FlattenIsJoin
<1>4. CASE Len(ss) = 0
  <2>1. f[Len(tt)] = s
    BY <1>1, <1>2, <1>4 DEF Joins
  <2>2. ss = <<>>
    BY <1>4
  <2>3. <<>> \o s = s
    OBVIOUS
  <2> QED BY <2>1, <2>2, <2>3, <1>3, FlattenEmpty DEF tt
<1>5. CASE Len(ss) > 0
  <2>1. Joins(f, ss, Len(ss))
    <3> SUFFICES ASSUME NEW i \in 1..Len(ss) PROVE f[i] = IF i = 1 THEN ss[i] ELSE f[i - 1] \o ss[i]
      BY DEF Joins
    <3>1. i \in 1..Len(tt) /\ tt[i] = ss[i]
      BY <1>1
    <3> QED BY <3>1, <1>2 DEF Joins
  <2>2. FlattenSeq(ss) = f[Len(ss)]
    BY <2>1, <1>5, FlattenIsJoin
  <2>3. Len(ss) + 1 \in 1..Len(tt) /\ Len(ss) + 1 # 1 /\ (Len(ss) + 1) - 1 = Len(ss)
    BY <1>1, <1>5
  <2>4. f[Len(ss) + 1] = f[Len(ss)] \o s
    BY <1>1, <1>2, <2>3, Zenon DEF Joins
  <2> QED BY <2>2, <2>4, <1>3, <1>1 DEF tt
<1> QED BY <1>4, <1>5

LEMMA FirstOnes ==
    ASSUME NEW S, NEW s \in Seq(S), NEW k \in 0..Len(s)
    PROVE  /\ SubSeq(s, 1, k) \in Seq(S) /\ Len(SubSeq(s, 1, k)) = k
           /\ k < Len(s) => /\ s[k + 1] \in S
                            /\ SubSeq(s, 1, k + 1) = Append(SubSeq(s, 1, k), s[k + 1])
<1>1. \A i \in 1..k : s[i] \in S
  OBVIOUS
<1>2. SubSeq(s, 1, k) \in Seq(S) /\ Len(SubSeq(s, 1, k)) = k /\ \A i \in 1..k : SubSeq(s, 1, k)[i] = s[i]
  BY <1>1, SubSeqProperties
<1>3. ASSUME k < Len(s)
      PROVE  s[k + 1] \in S /\ SubSeq(s, 1, k + 1) = Append(SubSeq(s, 1, k), s[k + 1])
  <2>1. \A i \in 1..(k + 1) : s[i] \in S
    BY <1>3
  <2> DEFINE t == SubSeq(s, 1, k + 1)
             u == Append(SubSeq(s, 1, k), s[k + 1])
  <2>2. t \in Seq(S) /\ Len(t) = k + 1 /\ \A i \in 1..(k + 1) : t[i] = s[i]
    BY <2>1, SubSeqProperties
  <2>3. u \in Seq(S) /\ Len(u) = k + 1 /\ \A i \in 1..(k + 1) : u[i] = s[i]
    BY <2>1, <1>2
  <2> HIDE DEF t, u
  <2>4. t = u
    BY <2>2, <2>3, SeqEqual
  <2> QED BY <2>1, <2>4 DEF t, u
<1> QED BY <1>2, <1>3

LEMMA AppendOne ==
    ASSUME NEW S, NEW s \in Seq(S), NEW e \in S
    PROVE  s \o <<e>> = Append(s, e)
<1>1. <<e>> \in Seq(S) /\ Len(<<e>>) = 1 /\ <<e>>[1] = e
  OBVIOUS
<1>2. /\ s \o <<e>> \in Seq(S) /\ Len(s \o <<e>>) = Len(s) + 1
      /\ \A i \in 1..(Len(s) + 1) : (s \o <<e>>)[i] = IF i <= Len(s) THEN s[i] ELSE <<e>>[i - Len(s)]
  <2> HIDE <1>1
  <2>1. <<e>> \in Seq(S) /\ Len(<<e>>) = 1
    BY <1>1
  <2> QED BY <2>1, ConcatProperties
<1>3. ASSUME NEW i \in 1..(Len(s) + 1) PROVE (s \o <<e>>)[i] = Append(s, e)[i]
  <2>1. CASE i <= Len(s)
    BY <1>2, <2>1
  <2>2. CASE i = Len(s) + 1
    <3>1. i - Len(s) = 1 /\ ~(i <= Len(s))
      BY <2>2
    <3>2. (s \o <<e>>)[i] = <<e>>[1]
      BY <1>2, <3>1
    <3> QED BY <1>1, <3>2, <2>2
  <2> QED BY <2>1, <2>2
<1>4. Append(s, e) \in Seq(S) /\ Len(Append(s, e)) = Len(s) + 1
  OBVIOUS
<1> HIDE <1>1
<1> QED BY <1>2, <1>3, <1>4, SeqEqual

\* The two parts of a concatenation keep their order.
LEMMA ConcatPlaces ==
    ASSUME NEW S, NEW a \in Seq(S), NEW c \in Seq(S)
    PROVE  /\ \A p \in 1..Len(a) : p \in 1..Len(a \o c) /\ (a \o c)[p] = a[p]
           /\ \A p \in 1..Len(c) : Len(a) + p \in 1..Len(a \o c) /\ (a \o c)[Len(a) + p] = c[p]
<1>1. Len(a \o c) = Len(a) + Len(c) /\ \A i \in 1 .. Len(a) + Len(c) :
          (a \o c)[i] = IF i <= Len(a) THEN a[i] ELSE c[i - Len(a)]
  BY ConcatProperties
<1>2. ASSUME NEW p \in 1..Len(a) PROVE p \in 1..(Len(a) + Len(c)) /\ p <= Len(a)
  OBVIOUS
<1>3. ASSUME NEW p \in 1..Len(c)
      PROVE  Len(a) + p \in 1..(Len(a) + Len(c)) /\ ~(Len(a) + p <= Len(a)) /\ (Len(a) + p) - Len(a) = p
  OBVIOUS
<1> QED BY <1>1, <1>2, <1>3

LEMMA FlattenOnes ==
    ASSUME NEW S, NEW r \in Seq(S), NEW ss \in Seq(Seq(S)), Len(ss) = Len(r),
           \A i \in 1..Len(r) : ss[i] = <<r[i]>>
    PROVE  FlattenSeq(ss) = r
<1> DEFINE Good == {k \in Nat : k <= Len(r) => FlattenSeq(SubSeq(ss, 1, k)) = SubSeq(r, 1, k)}
<1>1. 0 \in Good
  <2>1. SubSeq(ss, 1, 0) = <<>> /\ SubSeq(r, 1, 0) = <<>>
    BY SubSeqEmpty
  <2> QED BY <2>1, FlattenEmpty
<1>2. ASSUME NEW k \in Good PROVE k + 1 \in Good
  <2> SUFFICES ASSUME k + 1 <= Len(r) PROVE FlattenSeq(SubSeq(ss, 1, k + 1)) = SubSeq(r, 1, k + 1)
    OBVIOUS
  <2>1. k \in 0..Len(r) /\ k \in 0..Len(ss) /\ k < Len(r) /\ k < Len(ss) /\ k + 1 \in 1..Len(r)
    OBVIOUS
  <2>2. FlattenSeq(SubSeq(ss, 1, k)) = SubSeq(r, 1, k)
    BY <2>1
  <2>3. /\ SubSeq(ss, 1, k) \in Seq(Seq(S)) /\ ss[k + 1] \in Seq(S)
        /\ SubSeq(ss, 1, k + 1) = Append(SubSeq(ss, 1, k), ss[k + 1])
    BY <2>1, FirstOnes
  <2>4. /\ SubSeq(r, 1, k) \in Seq(S) /\ r[k + 1] \in S
        /\ SubSeq(r, 1, k + 1) = Append(SubSeq(r, 1, k), r[k + 1])
    BY <2>1, FirstOnes
  <2>5. FlattenSeq(SubSeq(ss, 1, k + 1)) = SubSeq(r, 1, k) \o <<r[k + 1]>>
    BY <2>1, <2>2, <2>3, FlattenAppend
  <2>6. SubSeq(r, 1, k) \o <<r[k + 1]>> = Append(SubSeq(r, 1, k), r[k + 1])
    BY <2>4, AppendOne
  <2> QED BY <2>4, <2>5, <2>6
<1> HIDE DEF Good
<1>3. Good = Nat
  BY <1>1, <1>2, AllNaturals DEF Good
<1>4. Len(r) \in Nat /\ Len(r) <= Len(r) /\ SubSeq(ss, 1, Len(ss)) = ss /\ SubSeq(r, 1, Len(r)) = r
  BY SubSeqFull
<1> QED BY <1>3, <1>4 DEF Good

\* The sequences keep their places: after what comes before them.
LEMMA FlattenPlace ==
    ASSUME NEW S, NEW ss \in Seq(Seq(S)), NEW t \in 1..Len(ss), NEW i \in 1..Len(ss[t])
    PROVE  LET before == Len(FlattenSeq(SubSeq(ss, 1, t - 1)))
           IN  before + i \in DOMAIN FlattenSeq(ss) /\ FlattenSeq(ss)[before + i] = ss[t][i]
<1> DEFINE before == Len(FlattenSeq(SubSeq(ss, 1, t - 1)))
           Good == {k \in Nat : t <= k /\ k <= Len(ss) =>
                       /\ before + i \in 1..Len(FlattenSeq(SubSeq(ss, 1, k)))
                       /\ FlattenSeq(SubSeq(ss, 1, k))[before + i] = ss[t][i]}
<1>0. t - 1 \in 0..Len(ss) /\ SubSeq(ss, 1, t - 1) \in Seq(Seq(S)) /\ ss[t] \in Seq(S)
  <2>1. t - 1 \in 0..Len(ss)
    OBVIOUS
  <2> QED BY <2>1, FirstOnes
<1>1. FlattenSeq(SubSeq(ss, 1, t - 1)) \in Seq(S)
  BY <1>0, FlattenType
<1>2. 0 \in Good
  OBVIOUS
<1>3. ASSUME NEW k \in Good PROVE k + 1 \in Good
  <2> SUFFICES ASSUME t <= k + 1, k + 1 <= Len(ss)
               PROVE  /\ before + i \in 1..Len(FlattenSeq(SubSeq(ss, 1, k + 1)))
                      /\ FlattenSeq(SubSeq(ss, 1, k + 1))[before + i] = ss[t][i]
    OBVIOUS
  <2>1. k \in 0..Len(ss) /\ k < Len(ss)
    OBVIOUS
  <2> DEFINE a == FlattenSeq(SubSeq(ss, 1, k))
             b == FlattenSeq(SubSeq(ss, 1, k + 1))
             c == ss[k + 1]
  <2>2. SubSeq(ss, 1, k) \in Seq(Seq(S)) /\ c \in Seq(S) /\ SubSeq(ss, 1, k + 1) = Append(SubSeq(ss, 1, k), c)
    BY <2>1, FirstOnes
  <2>3. a \in Seq(S) /\ b = a \o c
    BY <2>2, FlattenType, FlattenAppend
  <2>4. k + 1 = t \/ t <= k
    OBVIOUS
  <2>5. t <= k => before + i \in 1..Len(a) /\ a[before + i] = ss[t][i]
    BY <2>1
  <2>7. CASE t <= k
    <3>1. before + i \in 1..Len(a \o c) /\ (a \o c)[before + i] = a[before + i]
      <4> HIDE DEF Good, before, a, b, c
      <4> QED BY <2>2, <2>3, <2>5, <2>7, ConcatPlaces
    <3> QED BY <2>3, <2>5, <2>7, <3>1
  <2>8. CASE k + 1 = t
    <3>1. t - 1 = k
      BY <2>8
    <3>2. before = Len(a) /\ c = ss[t] /\ i \in 1..Len(c)
      BY <3>1, <2>8
    <3>3. Len(a) + i \in 1..Len(a \o c) /\ (a \o c)[Len(a) + i] = c[i]
      <4>1. a \in Seq(S) /\ c \in Seq(S) /\ i \in 1..Len(c)
        BY <2>2, <2>3, <3>2
      <4> HIDE DEF Good, before, a, b, c
      <4>2. \A p \in 1..Len(c) : Len(a) + p \in 1..Len(a \o c) /\ (a \o c)[Len(a) + p] = c[p]
        BY <4>1, ConcatPlaces
      <4> QED BY <4>1, <4>2, Zenon
    <3> QED BY <2>3, <3>2, <3>3
  <2> QED BY <2>4, <2>7, <2>8
<1> HIDE DEF Good, before
<1>4. Good = Nat
  BY <1>2, <1>3, AllNaturals DEF Good
<1>5. Len(ss) \in Nat /\ t <= Len(ss) /\ Len(ss) <= Len(ss) /\ SubSeq(ss, 1, Len(ss)) = ss
  BY SubSeqFull
<1>6. before + i \in 1..Len(FlattenSeq(ss)) /\ FlattenSeq(ss)[before + i] = ss[t][i]
  BY <1>4, <1>5 DEF Good
<1>7. DOMAIN FlattenSeq(ss) = 1..Len(FlattenSeq(ss))
  BY FlattenType
<1> QED BY <1>6, <1>7 DEF before

\* How long the whole is depends on how long the parts are.
LEMMA FlattenLength ==
    ASSUME NEW S, NEW ss \in Seq(Seq(S)), NEW T, NEW tt \in Seq(Seq(T)), Len(ss) = Len(tt),
           \A i \in 1..Len(ss) : Len(ss[i]) = Len(tt[i])
    PROVE  Len(FlattenSeq(ss)) = Len(FlattenSeq(tt))
<1> DEFINE Good == {k \in Nat : k <= Len(ss) =>
                       Len(FlattenSeq(SubSeq(ss, 1, k))) = Len(FlattenSeq(SubSeq(tt, 1, k)))}
<1>1. 0 \in Good
  <2>1. SubSeq(ss, 1, 0) = <<>> /\ SubSeq(tt, 1, 0) = <<>>
    BY SubSeqEmpty
  <2> QED BY <2>1
<1>2. ASSUME NEW k \in Good PROVE k + 1 \in Good
  <2> SUFFICES ASSUME k + 1 <= Len(ss)
               PROVE  Len(FlattenSeq(SubSeq(ss, 1, k + 1))) = Len(FlattenSeq(SubSeq(tt, 1, k + 1)))
    OBVIOUS
  <2>1. k \in 0..Len(ss) /\ k \in 0..Len(tt) /\ k < Len(ss) /\ k < Len(tt) /\ k + 1 \in 1..Len(ss)
    OBVIOUS
  <2> DEFINE a == SubSeq(ss, 1, k)
             b == SubSeq(tt, 1, k)
  <2>2. Len(FlattenSeq(a)) = Len(FlattenSeq(b))
    BY <2>1
  <2>3. a \in Seq(Seq(S)) /\ ss[k + 1] \in Seq(S) /\ SubSeq(ss, 1, k + 1) = Append(a, ss[k + 1])
    BY <2>1, FirstOnes
  <2>4. b \in Seq(Seq(T)) /\ tt[k + 1] \in Seq(T) /\ SubSeq(tt, 1, k + 1) = Append(b, tt[k + 1])
    BY <2>1, FirstOnes
  <2>5. Len(ss[k + 1]) = Len(tt[k + 1])
    BY <2>1
  <2> HIDE DEF a, b, Good
  <2>6. /\ FlattenSeq(a) \in Seq(S) /\ FlattenSeq(b) \in Seq(T)
        /\ FlattenSeq(Append(a, ss[k + 1])) = FlattenSeq(a) \o ss[k + 1]
        /\ FlattenSeq(Append(b, tt[k + 1])) = FlattenSeq(b) \o tt[k + 1]
    BY <2>3, <2>4, FlattenType, FlattenAppend
  <2>7. Len(FlattenSeq(a) \o ss[k + 1]) = Len(FlattenSeq(a)) + Len(ss[k + 1])
    BY <2>3, <2>6, ConcatProperties
  <2>8. Len(FlattenSeq(b) \o tt[k + 1]) = Len(FlattenSeq(b)) + Len(tt[k + 1])
    BY <2>4, <2>6, ConcatProperties
  <2> QED BY <2>2, <2>3, <2>4, <2>5, <2>6, <2>7, <2>8
<1> HIDE DEF Good
<1>3. Good = Nat
  BY <1>1, <1>2, AllNaturals DEF Good
<1>4. Len(ss) \in Nat /\ Len(ss) <= Len(ss) /\ SubSeq(ss, 1, Len(ss)) = ss /\ SubSeq(tt, 1, Len(tt)) = tt
  BY SubSeqFull
<1> QED BY <1>3, <1>4 DEF Good

\* What stands in the parts stands in the whole.
LEMMA ConcatKeeps ==
    ASSUME NEW S, NEW a \in Seq(S), NEW c \in Seq(S), NEW x
    PROVE  /\ a \o c \in Seq(S)
           /\ (\E k \in 1..Len(a) : a[k] = x) => \E k \in 1..Len(a \o c) : (a \o c)[k] = x
           /\ (\E k \in 1..Len(c) : c[k] = x) => \E k \in 1..Len(a \o c) : (a \o c)[k] = x
<1>1. /\ \A p \in 1..Len(a) : p \in 1..Len(a \o c) /\ (a \o c)[p] = a[p]
      /\ \A p \in 1..Len(c) : Len(a) + p \in 1..Len(a \o c) /\ (a \o c)[Len(a) + p] = c[p]
  BY ConcatPlaces
<1>2. a \o c \in Seq(S)
  BY ConcatProperties
<1>3. ASSUME NEW k \in 1..Len(a), a[k] = x PROVE \E p \in 1..Len(a \o c) : (a \o c)[p] = x
  BY <1>1, <1>3
<1>4. ASSUME NEW k \in 1..Len(c), c[k] = x PROVE \E p \in 1..Len(a \o c) : (a \o c)[p] = x
  BY <1>1, <1>4
<1> QED BY <1>2, <1>3, <1>4

\* The values of finitely many arguments are finitely many.
LEMMA FiniteRange ==
    ASSUME NEW S, IsFiniteSet(S), NEW f
    PROVE  IsFiniteSet({f[x] : x \in S})
<1> DEFINE T == {f[x] : x \in S}
           g == [x \in S |-> f[x]]
<1>1. g \in Surjection(S, T)
  BY DEF Surjection
<1> QED BY <1>1, FS_Surjection

\* So is a union of finitely many finite sets.
LEMMA FiniteUnion ==
    ASSUME NEW S, IsFiniteSet(S), NEW f, \A x \in S : IsFiniteSet(f[x])
    PROVE  IsFiniteSet(UNION {f[x] : x \in S})
<1> DEFINE T == {f[x] : x \in S}
<1>1. IsFiniteSet(T)
  BY FiniteRange
<1>2. \A t \in T : IsFiniteSet(t)
  OBVIOUS
<1> HIDE DEF T
<1> QED BY <1>1, <1>2, FS_UNION DEF T

\* A set with two members has more than one.
LEMMA TwoMembers ==
    ASSUME NEW S, IsFiniteSet(S), NEW a \in S, NEW b \in S, a # b
    PROVE  Cardinality(S) > 1
<1>1. Cardinality(S) \in Nat
  BY FS_CardinalityType
<1>2. Cardinality(S) # 0
  BY FS_EmptySet
<1>3. Cardinality(S) # 1
  <2> SUFFICES ASSUME Cardinality(S) = 1 PROVE FALSE
    OBVIOUS
  <2>1. \E x : S = {x}
    BY FS_Singleton
  <2> QED BY <2>1
<1> QED BY <1>1, <1>2, <1>3

\* A finite set is listed in full.
LEMMA ListOfSet ==
    ASSUME NEW S, IsFiniteSet(S)
    PROVE  /\ SetToSeq(S) \in Seq(S) /\ Len(SetToSeq(S)) = Cardinality(S) /\ Cardinality(S) \in Nat
           /\ \A x \in S : \E k \in 1..Cardinality(S) : SetToSeq(S)[k] = x
<1> DEFINE n == Cardinality(S)
           f == SetToSeq(S)
<1>1. n \in Nat /\ Bijection(1..n, S) # {}
  BY FS_CardinalityType DEF ExistsBijection
<1>2. PICK g \in [1..n -> S] : IsInjective(g)
  BY <1>1 DEF Bijection, Injection, IsInjective
<1>3. f \in [1..n -> S] /\ IsInjective(f)
  BY <1>2 DEF SetToSeq
<1>4. IsFiniteSet(1..n) /\ Cardinality(1..n) = n
  BY <1>1, FS_Interval
<1> HIDE DEF f
<1>5. f \in Injection(1..n, S)
  BY <1>3 DEF Injection, IsInjective
<1>6. f \in Surjection(1..n, S)
  BY <1>4, <1>5, FS_Injection
<1> HIDE DEF n
<1>7. \A x \in S : \E k \in 1..n : f[k] = x
  BY <1>6 DEF Surjection
<1>8. f \in Seq(S) /\ Len(f) = n
  BY <1>1, <1>3
<1> QED BY <1>1, <1>7, <1>8 DEF f, n

LEMMA MinOfTwo ==
    ASSUME NEW a \in Nat, NEW b \in Nat
    PROVE  Min({a, b}) = IF a <= b THEN a ELSE b
<1> DEFINE m == IF a <= b THEN a ELSE b
<1>1. m \in {a, b} /\ \A y \in {a, b} : m <= y
  OBVIOUS
<1>2. \A x \in {a, b} : (\A y \in {a, b} : x <= y) => x = m
  OBVIOUS
<1> HIDE DEF m
<1>3. (CHOOSE x \in {a, b} : \A y \in {a, b} : x <= y) = m
  BY <1>1, <1>2
<1> QED BY <1>3 DEF Min, m

------------------------------------------------------------------------------
(* The correlation of records                                              *)

Places == 1..9

Key(r, i) == <<STRATEGIES[i], Normal(records[r], STRATEGIES[i])>>
HasKey(r, i) == Normal(records[r], STRATEGIES[i]) # Blank

Record == [fields : UNION {[F -> Texts] : F \in SUBSET STRING},
           source : Texts \cup {"CUSTOM"}, type : STRING, valid : BOOLEAN]
Methods == {"none", "username"} \cup {STRATEGIES[i] : i \in Places}
Confidences == {"EXACT", "HIGH", "MEDIUM", "LOW", "CONFLICT"}
Group == [members : SUBSET Nat, method : Methods, confidence : Confidences, conflicts : SUBSET StrongFields]

------------------------------------------------------------------------------
(* The inductive invariant                                                 *)

Typed ==
    /\ records \in Seq(Record)
    /\ done \in Nat /\ done <= Len(records)
    /\ groups \in Seq(Group)
    /\ \A k \in DOMAIN index : index[k] \in DOMAIN groups

\* Groups are made of the records taken; each is in one of them.
Filing ==
    /\ \A g \in DOMAIN groups : groups[g].members \subseteq 1..done
    /\ \A r \in 1..done : \E g \in DOMAIN groups : r \in groups[g].members
    /\ \A g, h \in DOMAIN groups : \A r \in groups[g].members \cap groups[h].members : g = h

\* The index has the keys of the records taken, and leads to one that has the key.
Indexed ==
    /\ \A r \in 1..done : Keys(records[r]) \subseteq DOMAIN index
    /\ \A k \in DOMAIN index : \E r \in groups[index[k]].members : k \in Keys(records[r])

\* The index leads from a record's strongest key to its group, or both are in conflict.
Placed ==
    \A g \in DOMAIN groups : \A r \in groups[g].members : \A i \in Places :
        HasKey(r, i) =>
            \/ index[Key(r, i)] = g
            \/ \E j \in Places : j < i /\ HasKey(r, j)
            \/ groups[g].conflicts # {} /\ groups[index[Key(r, i)]].conflicts # {}

\* There is a first record of a group, and one whose value of a field is taken over.
Having(members, f) == {r \in members : Field(records[r], f) # Blank}
FirstExists(g) == \E r \in groups[g].members : \A s \in groups[g].members : r <= s
BestExists(g, f) ==
    Having(groups[g].members, f) # {} =>
        \E r \in Having(groups[g].members, f) : \A s \in Having(groups[g].members, f) : Before(r, s)
Ordered == \A g \in DOMAIN groups : FirstExists(g) /\ \A p \in 1..5 : BestExists(g, SeedFields[p])

CorrelationInv == Typed /\ Filing /\ Indexed /\ Placed /\ Ordered /\ StrongIdsApart

------------------------------------------------------------------------------
(* Facts about keys                                                        *)

LEMMA NineStrategies == DOMAIN STRATEGIES = Places
  BY DEF STRATEGIES, Places

\* The keys of a record are those of its strategies that have a value.
LEMMA KeysOfRecord ==
    ASSUME NEW r
    PROVE  /\ \A i \in Places : Key(r, i) \in Keys(records[r]) <=> HasKey(r, i)
           /\ \A k \in Keys(records[r]) : \E i \in Places : HasKey(r, i) /\ k = Key(r, i)
  BY NineStrategies DEF Keys, Key, HasKey

LEMMA SmallestPlace ==
    ASSUME NEW S \in SUBSET Places, S # {}
    PROVE  \E i \in S : \A j \in S : i <= j
<1>1. \A n \in Places : n = 1 \/ n = 2 \/ n = 3 \/ n = 4 \/ n = 5 \/ n = 6 \/ n = 7 \/ n = 8 \/ n = 9
  BY DEF Places
<1>2. \A n \in S : n \in Places
  OBVIOUS
<1>3. CASE 1 \in S  BY <1>1, <1>2, <1>3
<1>4. CASE 1 \notin S /\ 2 \in S  BY <1>1, <1>2, <1>4
<1>5. CASE 1 \notin S /\ 2 \notin S /\ 3 \in S  BY <1>1, <1>2, <1>5
<1>6. CASE 1 \notin S /\ 2 \notin S /\ 3 \notin S /\ 4 \in S  BY <1>1, <1>2, <1>6
<1>7. CASE 1 \notin S /\ 2 \notin S /\ 3 \notin S /\ 4 \notin S  BY <1>1, <1>2, <1>7
<1> QED  BY <1>3, <1>4, <1>5, <1>6, <1>7
------------------------------------------------------------------------------
(* Every step files the next record into a group: what the three steps have *)
(* in common.                                                              *)

Next1 == done + 1
Before1(h) == IF h \in DOMAIN groups THEN groups[h].members ELSE {}

Filed(h) ==
    /\ done < Len(records) /\ done' = Next1 /\ records' = records
    /\ groups' \in Seq(Group) /\ h \in DOMAIN groups'
    /\ DOMAIN groups' = DOMAIN groups \cup {h}
    /\ \A g \in DOMAIN groups' \ {h} : groups'[g].members = groups[g].members
    /\ groups'[h].members = Before1(h) \cup {Next1}
    /\ \A g \in DOMAIN groups : groups[g].conflicts \subseteq groups'[g].conflicts
    /\ DOMAIN index' = DOMAIN index \cup Keys(Current)
    /\ \A k \in DOMAIN index' : index'[k] = IF k \in DOMAIN index THEN index[k] ELSE h

\* The group is that of the strongest key that was known, or in conflict with it.
WellPlaced(h) ==
    \A i \in Places :
        Key(Next1, i) \in DOMAIN index /\ (\A j \in Places : j < i => Key(Next1, j) \notin DOMAIN index)
            => \/ index[Key(Next1, i)] = h
               \/ groups'[h].conflicts # {} /\ groups'[index[Key(Next1, i)]].conflicts # {}

KeepsApart(h) == \A f \in StrongFields : \A v, w \in Values(groups'[h].members, f) : v = w

LEMMA NextRecord ==
    ASSUME Typed, Takes
    PROVE  /\ Next1 \in Nat /\ Next1 \in DOMAIN records /\ Next1 \notin 1..done
           /\ 1..Next1 = (1..done) \cup {Next1}
           /\ Current = records[Next1]
  BY DEF Typed, Takes, Next1, Current

LEMMA WordTypes ==
    /\ "none" \in Methods /\ {"LOW", "CONFLICT"} \subseteq Confidences
    /\ \A m : StrongConflicts(m) \in SUBSET StrongFields
    /\ \A i \in Places : Method(STRATEGIES[i]) \in Methods /\ Worth(STRATEGIES[i]) \in Confidences
<1>1. "none" \in Methods /\ {"LOW", "CONFLICT"} \subseteq Confidences
  BY DEF Methods, Confidences
<1>2. \A m : StrongConflicts(m) \in SUBSET StrongFields
  BY DEF StrongConflicts
<1>3. \A i \in Places : Method(STRATEGIES[i]) \in Methods
  BY DEF Method, Methods
<1>4. \A s : Worth(s) \in Confidences
  BY DEF Worth, Confidences
<1> QED  BY <1>1, <1>2, <1>3, <1>4

\* A record alone brings no conflict.
LEMMA OneValue ==
    ASSUME NEW r
    PROVE  \A f \in StrongFields : \A v, w \in Values({r}, f) : v = w
  BY DEF Values

LEMMA RegisteredKeys ==
    ASSUME NEW g, index' = Registered(Current, g)
    PROVE  /\ DOMAIN index' = DOMAIN index \cup Keys(Current)
           /\ \A k \in DOMAIN index' : index'[k] = IF k \in DOMAIN index THEN index[k] ELSE g
  BY DEF Registered

LEMMA OpenFiles ==
    ASSUME Typed, OpenGroup
    PROVE  Filed(Len(groups) + 1) /\ WellPlaced(Len(groups) + 1) /\ KeepsApart(Len(groups) + 1)
<1> DEFINE n == Len(groups) + 1
           new == NewGroup(Next1, "LOW", {})
<1>1. groups \in Seq(Group) /\ new \in Group /\ Takes
  BY NextRecord, WordTypes DEF Typed, OpenGroup, NewGroup, Group
<1>2. groups' = Append(groups, new) /\ new.members = {Next1}
  BY DEF OpenGroup, NewGroup, Next1
<1>3. /\ groups' \in Seq(Group) /\ n \in DOMAIN groups' /\ n \notin DOMAIN groups
      /\ DOMAIN groups' = DOMAIN groups \cup {n}
      /\ \A g \in DOMAIN groups : groups'[g] = groups[g]
      /\ groups'[n] = new
  <2> HIDE DEF new
  <2> QED  BY <1>1, <1>2
<1>4. /\ DOMAIN index' = DOMAIN index \cup Keys(Current)
      /\ \A k \in DOMAIN index' : index'[k] = IF k \in DOMAIN index THEN index[k] ELSE n
  BY RegisteredKeys DEF OpenGroup
<1>5. Filed(n)
  <2> HIDE DEF new
  <2>1. groups'[n].members = Before1(n) \cup {Next1}
    BY <1>2, <1>3 DEF Before1
  <2> QED  BY <1>1, <1>3, <1>4, <2>1 DEF Filed, Takes, Next1
<1>6. \A i \in Places : Key(Next1, i) \notin DOMAIN index
  <2> DEFINE found == {i \in DOMAIN STRATEGIES :
                         <<STRATEGIES[i], Normal(Current, STRATEGIES[i])>> \in DOMAIN index}
  <2>1. Matching(Current) = "none"
    BY DEF OpenGroup
  <2>2. SUFFICES ASSUME found # {} PROVE FALSE
    BY <1>1, NextRecord, NineStrategies DEF Key
  <2>3. PICK i \in found : \A j \in found : i <= j
    BY <2>2, SmallestPlace, NineStrategies
  <2>4. (CHOOSE k \in found : \A j \in found : k <= j) \in Places
    BY <2>3, NineStrategies
  <2>5. \A k \in Places : STRATEGIES[k] # "none"
    BY DEF Places, STRATEGIES
  <2> QED  BY <2>1, <2>2, <2>4, <2>5 DEF Matching
<1>7. WellPlaced(n)
  BY <1>6 DEF WellPlaced
<1>8. KeepsApart(n)
  BY <1>2, <1>3, OneValue, NextRecord, <1>1 DEF KeepsApart
<1> QED  BY <1>5, <1>7, <1>8
\* The group of the strongest known key, when there is one.
LEMMA FoundGroup ==
    ASSUME Typed, Takes, Matching(Current) # "none"
    PROVE  \E m \in Places :
               /\ Matching(Current) = STRATEGIES[m]
               /\ Key(Next1, m) \in DOMAIN index
               /\ \A j \in Places : j < m => Key(Next1, j) \notin DOMAIN index
               /\ Found(Matching(Current)) = index[Key(Next1, m)]
               /\ Found(Matching(Current)) \in DOMAIN groups
<1> DEFINE found == {i \in DOMAIN STRATEGIES :
                       <<STRATEGIES[i], Normal(Current, STRATEGIES[i])>> \in DOMAIN index}
           m == CHOOSE i \in found : \A j \in found : i <= j
<1>1. found # {} /\ Matching(Current) = STRATEGIES[m]
  BY DEF Matching
<1>2. m \in found /\ \A j \in found : m <= j
  BY <1>1, SmallestPlace, NineStrategies
<1>3. \A i \in Places : i \in found <=> Key(Next1, i) \in DOMAIN index
  BY NextRecord, NineStrategies DEF Key
<1>4. m \in Places /\ found \subseteq Places
  BY <1>2, NineStrategies
<1>5. Found(Matching(Current)) = index[Key(Next1, m)]
  BY <1>1, NextRecord DEF Found, Key
<1>6. \A j \in Places : j < m => Key(Next1, j) \notin DOMAIN index
  <2> HIDE DEF found, m
  <2> QED  BY <1>2, <1>3, <1>4 DEF Places
<1> HIDE DEF m, found
<1> QED  BY <1>1, <1>2, <1>3, <1>4, <1>5, <1>6 DEF Typed

LEMMA JoinFiles ==
    ASSUME Typed, JoinGroup
    PROVE  \E h : Filed(h) /\ WellPlaced(h) /\ KeepsApart(h)
<1>1. Takes /\ Matching(Current) # "none"
  BY DEF JoinGroup
<1>2. PICK m \in Places :
        /\ Matching(Current) = STRATEGIES[m]
        /\ Key(Next1, m) \in DOMAIN index
        /\ \A j \in Places : j < m => Key(Next1, j) \notin DOMAIN index
        /\ Found(Matching(Current)) = index[Key(Next1, m)]
        /\ Found(Matching(Current)) \in DOMAIN groups
  BY <1>1, FoundGroup
<1> DEFINE g == Found(Matching(Current))
           joined == [members |-> groups[g].members \cup {Next1},
                      method |-> IF groups[g].method = "none" THEN Method(STRATEGIES[m]) ELSE groups[g].method,
                      confidence |-> Worth(STRATEGIES[m]),
                      conflicts |-> groups[g].conflicts]
<1>3. /\ StrongConflicts(groups[g].members \cup {Next1}) = {}
      /\ groups' = [groups EXCEPT ![g] = joined]
      /\ index' = Registered(Current, g)
  BY <1>2 DEF JoinGroup, Next1
<1>4. groups \in Seq(Group) /\ g \in DOMAIN groups /\ groups[g] \in Group /\ Next1 \in Nat
  BY <1>1, <1>2, NextRecord DEF Typed
<1>5. joined \in Group
  BY <1>4, WordTypes DEF Group
<1>6. /\ joined.members = groups[g].members \cup {Next1}
      /\ joined.conflicts = groups[g].conflicts
  OBVIOUS
<1> HIDE DEF g, joined
<1>7. /\ groups' \in Seq(Group) /\ DOMAIN groups' = DOMAIN groups
      /\ \A x \in DOMAIN groups \ {g} : groups'[x] = groups[x]
      /\ groups'[g] = joined
  BY <1>3, <1>4, <1>5
<1>8. /\ DOMAIN index' = DOMAIN index \cup Keys(Current)
      /\ \A k \in DOMAIN index' : index'[k] = IF k \in DOMAIN index THEN index[k] ELSE g
  BY <1>3, RegisteredKeys
<1>9. Filed(g)
  <2>1. groups'[g].members = Before1(g) \cup {Next1}
    BY <1>4, <1>6, <1>7 DEF Before1
  <2>2. \A x \in DOMAIN groups : groups[x].conflicts \subseteq groups'[x].conflicts
    BY <1>6, <1>7
  <2> QED  BY <1>1, <1>4, <1>7, <1>8, <2>1, <2>2 DEF Filed, Takes, Next1
<1>10. WellPlaced(g)
  <2>1. index[Key(Next1, m)] = g
    BY <1>2 DEF g
  <2> QED  BY <1>2, <2>1 DEF WellPlaced, Places
<1>11. KeepsApart(g)
  BY <1>3, <1>6, <1>7 DEF KeepsApart, StrongConflicts
<1> QED  BY <1>9, <1>10, <1>11
LEMMA SplitFiles ==
    ASSUME Typed, SplitGroup
    PROVE  \E h : Filed(h) /\ WellPlaced(h) /\ KeepsApart(h)
<1>1. Takes /\ Matching(Current) # "none"
  BY DEF SplitGroup
<1>2. PICK m \in Places :
        /\ Matching(Current) = STRATEGIES[m]
        /\ Key(Next1, m) \in DOMAIN index
        /\ \A j \in Places : j < m => Key(Next1, j) \notin DOMAIN index
        /\ Found(Matching(Current)) = index[Key(Next1, m)]
        /\ Found(Matching(Current)) \in DOMAIN groups
  BY <1>1, FoundGroup
<1> DEFINE g == Found(Matching(Current))
           n == Len(groups) + 1
           found == StrongConflicts(groups[g].members \cup {Next1})
           marked == [groups[g] EXCEPT !.confidence = "CONFLICT", !.conflicts = @ \cup found]
           between == [groups EXCEPT ![g] = marked]
           new == NewGroup(Next1, "CONFLICT", found)
<1>3. /\ found # {}
      /\ groups' = Append(between, new)
      /\ index' = Registered(Current, n)
  BY DEF SplitGroup, Next1
<1>4. groups \in Seq(Group) /\ g \in DOMAIN groups /\ groups[g] \in Group /\ Next1 \in Nat
  BY <1>1, <1>2, NextRecord DEF Typed
<1>5. found \in SUBSET StrongFields
  BY WordTypes
<1> HIDE DEF g, found
<1>6. /\ marked \in Group /\ marked.members = groups[g].members
      /\ marked.conflicts = groups[g].conflicts \cup found
  BY <1>4, <1>5, WordTypes DEF Group
<1>7. new \in Group /\ new.members = {Next1} /\ new.conflicts = found
  BY <1>4, <1>5, WordTypes DEF Group, NewGroup
<1> HIDE DEF marked, new
<1>8. /\ between \in Seq(Group) /\ Len(between) = Len(groups)
      /\ \A x \in DOMAIN groups \ {g} : between[x] = groups[x]
      /\ between[g] = marked
  BY <1>4, <1>6
<1> HIDE DEF between
<1>9. /\ groups' \in Seq(Group) /\ n \in DOMAIN groups' /\ n \notin DOMAIN groups
      /\ DOMAIN groups' = DOMAIN groups \cup {n}
      /\ \A x \in DOMAIN groups \ {g} : groups'[x] = groups[x]
      /\ groups'[g] = marked /\ groups'[n] = new
  BY <1>3, <1>4, <1>7, <1>8
<1>10. /\ DOMAIN index' = DOMAIN index \cup Keys(Current)
       /\ \A k \in DOMAIN index' : index'[k] = IF k \in DOMAIN index THEN index[k] ELSE n
  BY <1>3, RegisteredKeys
<1>11. Filed(n)
  <2>1. groups'[n].members = Before1(n) \cup {Next1}
    BY <1>7, <1>9 DEF Before1
  <2>2. \A x \in DOMAIN groups : groups[x].conflicts \subseteq groups'[x].conflicts
    BY <1>6, <1>9
  <2>3. \A x \in DOMAIN groups' \ {n} : groups'[x].members = groups[x].members
    BY <1>6, <1>9
  <2>4. done < Len(records) /\ done' = Next1 /\ records' = records
    BY <1>1 DEF Takes, Next1
  <2> HIDE DEF n
  <2> QED  BY <1>9, <1>10, <2>1, <2>2, <2>3, <2>4 DEF Filed
<1>12. WellPlaced(n)
  <2>1. index[Key(Next1, m)] = g
    BY <1>2 DEF g
  <2>2. groups'[n].conflicts # {} /\ groups'[g].conflicts # {}
    BY <1>3, <1>6, <1>7, <1>9
  <2> HIDE DEF n
  <2> QED  BY <1>2, <2>1, <2>2 DEF WellPlaced, Places
<1>13. KeepsApart(n)
  BY <1>7, <1>9, OneValue, NextRecord, <1>1 DEF KeepsApart
<1> QED  BY <1>11, <1>12, <1>13

LEMMA EveryStepFiles ==
    ASSUME Typed, Correlate
    PROVE  \E h : Filed(h) /\ WellPlaced(h) /\ KeepsApart(h)
  BY OpenFiles, JoinFiles, SplitFiles DEF Correlate

------------------------------------------------------------------------------
(* Filing a record preserves the invariant, part by part.                  *)

LEMMA MembersAfter ==
    ASSUME Typed, NEW h, Filed(h)
    PROVE  /\ Next1 \in Nat /\ Next1 \in DOMAIN records
           /\ 1..done' = (1..done) \cup {Next1} /\ Next1 \notin 1..done
           /\ Current = records[Next1]
           /\ \A g \in DOMAIN groups' : \/ g \in DOMAIN groups /\ groups[g].members \subseteq groups'[g].members
                                       \/ g = h
           /\ \A g \in DOMAIN groups' : \A r \in groups'[g].members :
                  \/ g \in DOMAIN groups /\ r \in groups[g].members
                  \/ g = h /\ r = Next1
  BY DEF Typed, Filed, Next1, Before1, Current

LEMMA TypedKept ==
    ASSUME Typed, NEW h, Filed(h)
    PROVE  Typed'
<1>1. records' \in Seq(Record) /\ done' \in Nat /\ done' <= Len(records')
  BY DEF Typed, Filed, Next1
<1>2. \A k \in DOMAIN index' : index'[k] \in DOMAIN groups'
  BY DEF Typed, Filed
<1> QED  BY <1>1, <1>2 DEF Typed, Filed

LEMMA FilingKept ==
    ASSUME Typed, Filing, NEW h, Filed(h)
    PROVE  Filing'
<1>1. \A g \in DOMAIN groups' : groups'[g].members \subseteq 1..done'
  BY MembersAfter DEF Filing
<1>2. \A r \in 1..done' : \E g \in DOMAIN groups' : r \in groups'[g].members
  <2> TAKE r \in 1..done'
  <2>1. CASE r = Next1
    BY <2>1 DEF Filed
  <2>2. CASE r \in 1..done
    <3>1. PICK g \in DOMAIN groups : r \in groups[g].members
      BY <2>2 DEF Filing
    <3> QED  BY <3>1 DEF Filed, Before1
  <2> QED  BY <2>1, <2>2, MembersAfter
<1>3. ASSUME NEW g \in DOMAIN groups', NEW k \in DOMAIN groups',
             NEW r \in groups'[g].members \cap groups'[k].members
      PROVE  g = k
  <2>1. CASE r = Next1
    <3>1. \A x \in DOMAIN groups : Next1 \notin groups[x].members
      BY MembersAfter DEF Filing
    <3> QED  BY <2>1, <3>1, MembersAfter
  <2>2. CASE r # Next1
    BY <2>2, MembersAfter DEF Filing
  <2> QED  BY <2>1, <2>2
<1> QED  BY <1>1, <1>2, <1>3 DEF Filing
LEMMA IndexedKept ==
    ASSUME Typed, Indexed, NEW h, Filed(h)
    PROVE  Indexed'
<1>1. \A r \in 1..done' : Keys(records'[r]) \subseteq DOMAIN index'
  <2>1. records' = records /\ DOMAIN index' = DOMAIN index \cup Keys(Current)
    BY DEF Filed
  <2> QED  BY <2>1, MembersAfter DEF Indexed
<1>2. ASSUME NEW k \in DOMAIN index'
      PROVE  \E r \in groups'[index'[k]].members : k \in Keys(records'[r])
  <2>1. CASE k \in DOMAIN index
    <3>1. index'[k] = index[k] /\ index[k] \in DOMAIN groups /\ index[k] \in DOMAIN groups'
      BY <2>1 DEF Typed, Filed
    <3>2. PICK r \in groups[index[k]].members : k \in Keys(records[r])
      BY <2>1 DEF Indexed
    <3>3. groups[index[k]].members \subseteq groups'[index[k]].members
      BY <3>1 DEF Filed, Before1
    <3> QED  BY <3>1, <3>2, <3>3 DEF Filed
  <2>2. CASE k \notin DOMAIN index
    <3>1. index'[k] = h /\ k \in Keys(Current) /\ Next1 \in groups'[h].members
      BY <2>2 DEF Filed
    <3> QED  BY <3>1, MembersAfter DEF Filed
  <2> QED  BY <2>1, <2>2
<1> QED  BY <1>1, <1>2 DEF Indexed

LEMMA PlacedKept ==
    ASSUME Typed, Filing, Indexed, Placed, NEW h, Filed(h), WellPlaced(h)
    PROVE  Placed'
<1>1. SUFFICES ASSUME NEW g \in DOMAIN groups', NEW r \in groups'[g].members, NEW i \in Places,
                      HasKey(r, i)
               PROVE  \/ index'[Key(r, i)] = g
                      \/ \E j \in Places : j < i /\ HasKey(r, j)
                      \/ groups'[g].conflicts # {} /\ groups'[index'[Key(r, i)]].conflicts # {}
  <2>1. records' = records
    BY DEF Filed
  <2>2. \A x, y : HasKey(x, y)' <=> HasKey(x, y)
    BY <2>1 DEF HasKey
  <2>3. \A x, y : Key(x, y)' = Key(x, y)
    BY <2>1 DEF Key
  <2> QED  BY <2>2, <2>3 DEF Placed
<1>2. CASE g \in DOMAIN groups /\ r \in groups[g].members
  <2>1. r \in 1..done
    BY <1>2 DEF Filing
  <2>2. Key(r, i) \in DOMAIN index
    BY <1>1, <2>1, KeysOfRecord DEF Indexed
  <2>3. index'[Key(r, i)] = index[Key(r, i)] /\ index[Key(r, i)] \in DOMAIN groups
    BY <2>2 DEF Filed, Typed
  <2>4. \A x \in DOMAIN groups : groups[x].conflicts # {} => groups'[x].conflicts # {}
    BY DEF Filed
  <2> QED  BY <1>1, <1>2, <2>3, <2>4 DEF Placed
<1>3. CASE g = h /\ r = Next1
  <2>1. SUFFICES ASSUME \A j \in Places : j < i => ~HasKey(Next1, j)
                 PROVE  \/ index'[Key(r, i)] = g
                        \/ groups'[g].conflicts # {} /\ groups'[index'[Key(r, i)]].conflicts # {}
    BY <1>3
  <2>2. Key(r, i) \in DOMAIN index'
    BY <1>1, <1>3, KeysOfRecord, MembersAfter DEF Filed
  <2>3. CASE Key(r, i) \notin DOMAIN index
    BY <1>3, <2>2, <2>3 DEF Filed
  <2>4. CASE Key(r, i) \in DOMAIN index
    <3>1. index'[Key(r, i)] = index[Key(r, i)]
      BY <2>2, <2>4 DEF Filed
    <3>2. ASSUME NEW j \in Places, j < i
          PROVE  Key(Next1, j) \notin DOMAIN index
      <4>1. ~HasKey(Next1, j)
        BY <2>1, <3>2
      <4>2. \A x : Key(Next1, j) \notin Keys(records[x])
        BY <4>1 DEF Keys, Key, HasKey
      <4> QED  BY <4>2 DEF Indexed
    <3> QED  BY <1>3, <2>4, <3>1, <3>2 DEF WellPlaced
  <2> QED  BY <2>3, <2>4
<1> QED  BY <1>2, <1>3, MembersAfter

LEMMA ApartKept ==
    ASSUME Typed, StrongIdsApart, NEW h, Filed(h), KeepsApart(h)
    PROVE  StrongIdsApart'
<1>1. records' = records /\ DOMAIN groups' = DOMAIN groups \cup {h}
  BY DEF Filed
<1>2. \A m, f : Values(m, f)' = Values(m, f)
  BY <1>1 DEF Values
<1>3. ASSUME NEW g \in DOMAIN groups', NEW f \in StrongFields,
             NEW v \in Values(groups'[g].members, f), NEW w \in Values(groups'[g].members, f)
      PROVE  v = w
  <2>1. CASE g = h
    BY <2>1 DEF KeepsApart
  <2>2. CASE g # h
    BY <1>1, <2>2 DEF Filed, StrongIdsApart
  <2> QED  BY <2>1, <2>2
<1>4. \A g \in DOMAIN groups' : \A f : Values(groups[g].members, f)' = Values(groups'[g].members, f)
  BY <1>1 DEF Values
<1> QED  BY <1>3, <1>4 DEF StrongIdsApart
------------------------------------------------------------------------------
(* The order of the sources, and the first and the best of a group.        *)

LEMMA RankIsNumber ==
    ASSUME NEW record
    PROVE  Rank(record) \in Nat
<1>1. CASE \E i \in DOMAIN Priority : Priority[i] = record.source
  <2>1. Rank(record) \in DOMAIN Priority
    BY <1>1 DEF Rank
  <2>2. DOMAIN Priority = 1..7
    BY DEF Priority
  <2> QED  BY <2>1, <2>2
<1>2. CASE ~\E i \in DOMAIN Priority : Priority[i] = record.source
  BY <1>2 DEF Rank
<1> QED  BY <1>1, <1>2

LEMMA BeforeIsOrder ==
    ASSUME NEW r \in Nat, NEW s \in Nat
    PROVE  /\ Before(r, r)
           /\ Before(r, s) \/ Before(s, r)
           /\ \A t \in Nat : Before(r, s) /\ Before(s, t) => Before(r, t)
<1>1. \A x : Rank(records[x]) \in Nat
  BY RankIsNumber
<1> QED  BY <1>1 DEF Before

LEMMA OrderedKept ==
    ASSUME Typed, Filing, Ordered, NEW h, Filed(h)
    PROVE  Ordered'
<1>1. records' = records /\ Next1 \in Nat /\ \A r \in 1..done : r <= Next1
  BY DEF Filed, Typed, Next1
<1>2. \A x, f : Field(x, f)' = Field(x, f)
  BY DEF Field
<1>3. \A m, f : Having(m, f)' = Having(m, f)
  BY <1>1 DEF Having
<1>4. \A r, s : Before(r, s)' <=> Before(r, s)
  BY <1>1 DEF Before
<1>5. \A g \in DOMAIN groups : groups[g].members \subseteq Nat /\ groups[g].members \subseteq 1..done
  BY DEF Filing
<1>6. ASSUME NEW g \in DOMAIN groups', g # h
      PROVE  g \in DOMAIN groups /\ groups'[g].members = groups[g].members
  BY <1>6 DEF Filed
<1>7. groups'[h].members = Before1(h) \cup {Next1}
  BY DEF Filed
<1>8. ASSUME NEW g \in DOMAIN groups'
      PROVE  \E r \in groups'[g].members : \A s \in groups'[g].members : r <= s
  <2>1. CASE g # h
    BY <1>6, <2>1 DEF Ordered, FirstExists
  <2>2. CASE g = h /\ h \notin DOMAIN groups
    BY <1>1, <1>7, <2>2 DEF Before1
  <2>3. CASE g = h /\ h \in DOMAIN groups
    <3>1. PICK r \in groups[h].members : \A s \in groups[h].members : r <= s
      BY <2>3 DEF Ordered, FirstExists
    <3>2. r <= Next1
      BY <1>1, <1>5, <2>3, <3>1
    <3> QED  BY <1>7, <2>3, <3>1, <3>2 DEF Before1
  <2> QED  BY <2>1, <2>2, <2>3
<1>9. ASSUME NEW g \in DOMAIN groups', NEW p \in 1..5,
             Having(groups'[g].members, SeedFields[p]) # {}
      PROVE  \E r \in Having(groups'[g].members, SeedFields[p]) :
                 \A s \in Having(groups'[g].members, SeedFields[p]) : Before(r, s)
  <2> DEFINE f == SeedFields[p]
  <2>1. CASE g # h
    BY <1>6, <1>9, <2>1 DEF Ordered, BestExists
  <2>2. CASE g = h
    <3> DEFINE old == Having(Before1(h), f)
               new == Having(groups'[h].members, f)
    <3>1. new \subseteq old \cup {Next1} /\ old \subseteq new
      BY <1>7 DEF Having
    <3>2. CASE Next1 \notin new
      <4>1. new = old /\ h \in DOMAIN groups
        BY <1>9, <2>2, <3>1, <3>2 DEF Having, Before1
      <4> QED  BY <1>9, <2>2, <4>1 DEF Ordered, BestExists, Before1
    <3>3. CASE Next1 \in new /\ old = {}
      <4>1. new = {Next1}
        BY <3>1, <3>3
      <4> QED  BY <1>1, <2>2, <4>1, BeforeIsOrder
    <3>4. CASE Next1 \in new /\ old # {}
      <4>1. h \in DOMAIN groups /\ old = Having(groups[h].members, f) /\ old \subseteq Nat
        BY <1>5, <3>4 DEF Having, Before1
      <4>2. PICK r \in old : \A s \in old : Before(r, s)
        BY <3>4, <4>1 DEF Ordered, BestExists
      <4>3. new = old \cup {Next1} /\ r \in Nat
        BY <3>1, <3>4, <4>1
      <4>4. CASE Before(r, Next1)
        BY <2>2, <4>2, <4>3, <4>4
      <4>5. CASE ~Before(r, Next1)
        <5>1. Before(Next1, r) /\ Before(Next1, Next1)
          BY <1>1, <4>3, <4>5, BeforeIsOrder
        <5>2. \A s \in old : Before(Next1, s)
          BY <1>1, <4>1, <4>2, <4>3, <5>1, BeforeIsOrder
        <5> QED  BY <2>2, <4>3, <5>1, <5>2
      <4> QED  BY <4>4, <4>5
    <3> QED  BY <3>2, <3>3, <3>4
  <2> QED  BY <2>1, <2>2
<1>10. \A g \in DOMAIN groups' : FirstExists(g)'
  BY <1>8 DEF FirstExists
<1>11. \A g \in DOMAIN groups' : \A p \in 1..5 : BestExists(g, SeedFields[p])'
  <2> TAKE g \in DOMAIN groups'
  <2> TAKE p \in 1..5
  <2>1. Having(groups[g].members, SeedFields[p])' = Having(groups'[g].members, SeedFields[p])
    BY <1>1 DEF Having, SeedFields
  <2>2. SeedFields' = SeedFields
    BY DEF SeedFields
  <2> QED  BY <1>4, <1>9, <2>1, <2>2 DEF BestExists
<1> QED  BY <1>10, <1>11 DEF Ordered
------------------------------------------------------------------------------
(* Two groups of one name                                                  *)

LEMMA FieldTypes ==
    ASSUME Typed, NEW r \in DOMAIN records, NEW f
    PROVE  Field(records[r], f) \in Texts
<1>1. records[r].fields \in UNION {[F -> Texts] : F \in SUBSET STRING}
  <2>1. records[r] \in Record
    BY DEF Typed
  <2> QED  BY <2>1 DEF Record
<1>2. \A x \in DOMAIN records[r].fields : records[r].fields[x] \in Texts
  BY <1>1
<1> QED  BY <1>2, TextAssumption DEF Field

LEMMA PairsEqual ==
    ASSUME NEW a, NEW b, NEW c, NEW d, <<a, b>> = <<c, d>>
    PROVE  a = c /\ b = d
  OBVIOUS

\* The seeds are the five strongest strategies.
LEMMA SeedsAreStrategies ==
    /\ DOMAIN SeedFields = 1..5
    /\ \A p \in 1..5 : SeedFields[p] = STRATEGIES[p]
    /\ \A p \in 1..5 : SeedFields[p] \notin {"composite", "distinguishedName"}
    /\ \A p \in 1..4 : SeedFields[p] \notin Names
  BY DEF SeedFields, STRATEGIES, Names

\* What names a group is the key of one of its records, which has no stronger one.
LEMMA SeedIsKey ==
    ASSUME CorrelationInv, NEW g \in DOMAIN groups, Named(g) # {},
           SeedFields[SeedPlace(g)] \in Names => UserPart(Seed(g)) # Blank
    PROVE  /\ SeedPlace(g) \in 1..5 /\ Seed(g) \in Texts
           /\ \E r \in groups[g].members :
                  /\ HasKey(r, SeedPlace(g))
                  /\ ~\E j \in Places : j < SeedPlace(g) /\ HasKey(r, j)
                  /\ Key(r, SeedPlace(g)) =
                       <<SeedFields[SeedPlace(g)],
                         IF SeedFields[SeedPlace(g)] \in Names THEN UserPart(Seed(g)) ELSE Lower(Seed(g))>>
<1> DEFINE p == SeedPlace(g)
           f == SeedFields[p]
           members == groups[g].members
<1>0. Typed /\ Filing /\ Ordered /\ members \subseteq 1..done /\ members \subseteq DOMAIN records
  BY DEF CorrelationInv, Filing, Typed
<1>1. p \in Named(g) /\ p \in 1..5 /\ \A j \in Named(g) : p <= j
  <2>1. Named(g) \subseteq 1..5
    BY SeedsAreStrategies DEF Named
  <2>2. \E i \in Named(g) : \A j \in Named(g) : i <= j
    BY <2>1, SmallestPlace DEF Places
  <2> QED  BY <2>1, <2>2 DEF SeedPlace
\* The value that is taken over is one that a record has.
<1>2. ASSUME NEW q \in 1..5, Having(members, SeedFields[q]) # {}
      PROVE  \E r \in Having(members, SeedFields[q]) :
                 MergedField(members, SeedFields[q]) = Field(records[r], SeedFields[q])
  <2> DEFINE having == Having(members, SeedFields[q])
             best == CHOOSE r \in having : \A s \in having : Before(r, s)
  <2>1. \E r \in having : \A s \in having : Before(r, s)
    BY <1>0, <1>2 DEF Ordered, BestExists
  <2>2. best \in having
    BY <2>1
  <2>3. MergedField(members, SeedFields[q]) = Field(records[best], SeedFields[q])
    BY <1>2 DEF MergedField, Having
  <2> QED  BY <2>2, <2>3
<1>3. ASSUME NEW q \in 1..5, q \notin Named(g), NEW r \in members
      PROVE  Field(records[r], SeedFields[q]) = Blank
  <2>1. MergedField(members, SeedFields[q]) = Blank
    BY <1>3, SeedsAreStrategies DEF Named
  <2>2. Having(members, SeedFields[q]) = {}
    BY <1>2, <2>1 DEF Having
  <2> QED  BY <2>2 DEF Having
<1>4. MergedField(members, f) # Blank /\ Seed(g) = MergedField(members, f)
  BY <1>1 DEF Named, Seed
<1>5. Having(members, f) # {}
  BY <1>4 DEF MergedField, Having
<1>6. PICK r \in Having(members, f) : Seed(g) = Field(records[r], f)
  BY <1>1, <1>2, <1>4, <1>5
<1>7. r \in members /\ r \in DOMAIN records /\ Seed(g) \in Texts /\ Seed(g) # Blank
  BY <1>0, <1>4, <1>6, FieldTypes DEF Having
<1>8. Normal(records[r], STRATEGIES[p]) =
        IF f \in Names THEN UserPart(Seed(g)) ELSE Lower(Seed(g))
  BY <1>1, <1>6, SeedsAreStrategies DEF Normal
<1>9. HasKey(r, p) /\ Key(r, p) = <<f, IF f \in Names THEN UserPart(Seed(g)) ELSE Lower(Seed(g))>>
  BY <1>1, <1>7, <1>8, SeedsAreStrategies, TextAssumption DEF HasKey, Key
<1>10. ASSUME NEW j \in Places, j < p
       PROVE  ~HasKey(r, j)
  <2>1. j \in 1..4 /\ j \in 1..5 /\ j \notin Named(g)
    BY <1>1, <1>10 DEF Places
  <2>2. Field(records[r], STRATEGIES[j]) = Blank
    BY <1>3, <1>7, <2>1, SeedsAreStrategies
  <2>3. Normal(records[r], STRATEGIES[j]) = Lower(Blank)
    BY <2>1, <2>2, SeedsAreStrategies DEF Normal
  <2> QED  BY <2>3, TextAssumption DEF HasKey
<1> QED  BY <1>1, <1>7, <1>9, <1>10

LEMMA NamesKeepApart == CorrelationInv => IdentitiesApart
<1>1. SUFFICES ASSUME CorrelationInv, NEW g \in DOMAIN groups, NEW h \in DOMAIN groups,
                      g # h, SameSeed(g, h), Canonical(g) = Canonical(h)
               PROVE  Confidence(g) = "CONFLICT" /\ Confidence(h) = "CONFLICT"
  BY DEF IdentitiesApart
<1>2. CASE Named(g) = {} /\ Named(h) = {}
  <2> DEFINE first(x) == CHOOSE r \in groups[x].members : \A s \in groups[x].members : r <= s
  <2>1. first(g) \in groups[g].members /\ first(h) \in groups[h].members
    BY <1>1 DEF CorrelationInv, Ordered, FirstExists
  <2>2. Canonical(g) = <<"record", first(g)>> /\ Canonical(h) = <<"record", first(h)>>
    BY <1>2 DEF Canonical
  <2>3. first(g) = first(h)
    <3>1. <<"record", first(g)>> = <<"record", first(h)>>
      BY <1>1, <2>2
    <3> HIDE DEF first
    <3> QED  BY <3>1, PairsEqual
  <2> QED  BY <1>1, <2>1, <2>3 DEF CorrelationInv, Filing
<1>3. CASE ~(Named(g) = {} /\ Named(h) = {})
  <2> DEFINE p == SeedPlace(g)
             f == SeedFields[p]
  <2>1. /\ Named(g) # {} /\ Named(h) # {} /\ SeedPlace(h) = p
        /\ f \in Names => UserPart(Seed(g)) # Blank
    BY <1>1, <1>3 DEF SameSeed
  <2>2. Lower(Seed(g)) = Lower(Seed(h))
    <3>1. Canonical(g) = <<"identity", Lower(Seed(g))>> /\ Canonical(h) = <<"identity", Lower(Seed(h))>>
      BY <2>1 DEF Canonical
    <3>2. <<"identity", Lower(Seed(g))>> = <<"identity", Lower(Seed(h))>>
      BY <1>1, <3>1
    <3> QED  BY <3>2, PairsEqual
  <2>3. p \in 1..5 /\ Seed(g) \in Texts
    BY <1>1, <2>1, SeedIsKey
  <2>4. Seed(h) \in Texts
    <3>1. MergedField(groups[h].members, f) = Seed(h)
      BY <2>1 DEF Seed
    <3>2. Typed /\ groups[h].members \subseteq DOMAIN records
      BY <1>1 DEF CorrelationInv, Filing, Typed
    <3>3. Having(groups[h].members, f) # {} =>
            \E r \in Having(groups[h].members, f) : \A s \in Having(groups[h].members, f) : Before(r, s)
      BY <1>1, <2>3 DEF CorrelationInv, Ordered, BestExists
    <3>4. CASE Having(groups[h].members, f) = {}
      BY <3>1, <3>4, TextAssumption DEF MergedField, Having
    <3>5. CASE Having(groups[h].members, f) # {}
      <4> DEFINE best == CHOOSE r \in Having(groups[h].members, f) :
                             \A s \in Having(groups[h].members, f) : Before(r, s)
      <4>1. best \in Having(groups[h].members, f)
        BY <3>3, <3>5
      <4>2. Seed(h) = Field(records[best], f)
        BY <3>1, <3>5 DEF MergedField, Having
      <4>3. best \in DOMAIN records
        BY <3>2, <4>1 DEF Having
      <4> HIDE DEF best
      <4> QED  BY <3>2, <4>2, <4>3, FieldTypes
    <3> QED  BY <3>4, <3>5
  <2>5. UserPart(Seed(g)) = UserPart(Seed(h))
    BY <2>2, <2>3, <2>4, TextAssumption
  <2> DEFINE k == <<f, IF f \in Names THEN UserPart(Seed(g)) ELSE Lower(Seed(g))>>
  <2>6. PICK r \in groups[g].members :
          HasKey(r, p) /\ (~\E j \in Places : j < p /\ HasKey(r, j)) /\ Key(r, p) = k
    BY <1>1, <2>1, SeedIsKey
  <2>7. PICK s \in groups[h].members :
          HasKey(s, p) /\ (~\E j \in Places : j < p /\ HasKey(s, j)) /\ Key(s, p) = k
    BY <1>1, <2>1, <2>2, <2>5, SeedIsKey
  <2>8. index[k] = g \/ (groups[g].conflicts # {} /\ groups[index[k]].conflicts # {})
    BY <1>1, <2>3, <2>6 DEF CorrelationInv, Placed, Places
  <2>9. index[k] = h \/ (groups[h].conflicts # {} /\ groups[index[k]].conflicts # {})
    BY <1>1, <2>3, <2>7 DEF CorrelationInv, Placed, Places
  <2>10. groups[g].conflicts # {} /\ groups[h].conflicts # {}
    BY <1>1, <2>8, <2>9
  <2> QED  BY <2>10 DEF Confidence
<1> QED  BY <1>2, <1>3

------------------------------------------------------------------------------
(* The theorems                                                            *)

\* Before the first record is taken.
LEMMA CorrelationBegins ==
    ASSUME records \in Seq(Record), CorrelationInit
    PROVE  CorrelationInv
<1>1. groups = <<>> /\ done = 0 /\ DOMAIN index = {}
  BY DEF CorrelationInit
<1>2. DOMAIN groups = {} /\ groups \in Seq(Group) /\ 1..done = {}
  BY <1>1
<1>3. done \in Nat /\ done <= Len(records)
  BY <1>1
<1> QED  BY <1>1, <1>2, <1>3 DEF CorrelationInv, Typed, Filing, Indexed, Placed, Ordered, StrongIdsApart

LEMMA CorrelationSteps ==
    ASSUME CorrelationInv, Correlate
    PROVE  CorrelationInv'
<1>1. PICK h : Filed(h) /\ WellPlaced(h) /\ KeepsApart(h)
  BY EveryStepFiles DEF CorrelationInv
<1> QED  BY <1>1, TypedKept, FilingKept, IndexedKept, PlacedKept, OrderedKept, ApartKept
         DEF CorrelationInv

LEMMA CorrelationStutters ==
    ASSUME CorrelationInv, UNCHANGED correlationVars
    PROVE  CorrelationInv'
<1>1. records' = records /\ done' = done /\ groups' = groups /\ index' = index
  BY DEF correlationVars
<1>2. Typed' /\ Filing' /\ Indexed'
  BY <1>1 DEF CorrelationInv, Typed, Filing, Indexed
<1>3. Placed'
  BY <1>1 DEF CorrelationInv, Placed, Key, HasKey
<1>4. StrongIdsApart'
  BY <1>1 DEF CorrelationInv, StrongIdsApart, Values
<1>5. Ordered'
  BY <1>1 DEF CorrelationInv, Ordered, FirstExists, BestExists, Having, Before
<1> QED  BY <1>2, <1>3, <1>4, <1>5 DEF CorrelationInv

\* The records are those of the import before any of them is taken.
LEMMA CorrelationAfresh ==
    ASSUME records' \in Seq(Record), done' = 0, groups' = <<>>, index' = [k \in {} |-> 0]
    PROVE  CorrelationInv'
<1>1. DOMAIN groups' = {} /\ groups' \in Seq(Group) /\ 1..done' = {} /\ DOMAIN index' = {}
  OBVIOUS
<1>2. done' \in Nat /\ done' <= Len(records')
  OBVIOUS
<1> QED BY <1>1, <1>2 DEF CorrelationInv, Typed, Filing, Indexed, Placed, Ordered, StrongIdsApart

\* The invariant holds of the correlation of any records.
THEOREM CorrelationInvariant == CorrelationSpec => []CorrelationInv
<1>1. records \in Seq(Record) /\ CorrelationInit => CorrelationInv
  BY CorrelationBegins
<1>2. CorrelationInv /\ [Correlate]_correlationVars => CorrelationInv'
  BY CorrelationSteps, CorrelationStutters
<1> QED  BY <1>1, <1>2, PTL DEF CorrelationSpec, Record

\* Each record taken is in one group, and each key leads to a group that has it, whatever the
\* order of the rows (IdentityCorrelationService.correlate).
THEOREM RecordsAreGrouped == CorrelationSpec => []EveryRecordGrouped
<1>1. CorrelationInv => EveryRecordGrouped
  BY DEF CorrelationInv, Filing, Indexed, EveryRecordGrouped
<1> QED  BY <1>1, CorrelationInvariant, PTL

\* No group ever has two object GUIDs or two SIDs (detectStrongConflicts).
THEOREM GroupsHaveOneStrongId == CorrelationSpec => []StrongIdsApart
<1>1. CorrelationInv => StrongIdsApart
  BY DEF CorrelationInv
<1> QED  BY <1>1, CorrelationInvariant, PTL

\* Two groups get the same canonical id only when both are in conflict.
THEOREM IdentitiesAreApart == CorrelationSpec => []IdentitiesApart
<1> QED  BY NamesKeepApart, CorrelationInvariant, PTL

------------------------------------------------------------------------------
(* The conversion of records into a graph                                  *)

\* Nothing is converted before all is correlated, and nothing linked before all is converted.
Made ==
    /\ converted \in Nat /\ linked \in Nat
    /\ phase # "correlating" => converted = 0 /\ linked = 0
    /\ converted > 0 => phase = "correlating" /\ done = Len(records)
    /\ linked > 0 => converted = Len(records) /\ converted > 0
    /\ links # {} => linked > 0
    /\ nodes \in Seq({nodes[i] : i \in DOMAIN nodes})
    /\ \A r \in DOMAIN nodeOf : nodeOf[r] \in NodeIds

LinkInv == Made /\ LinksAreUnambiguous

\* What a reference may mean are nodes, finitely many.
LEMMA MatchesAreNodes ==
    ASSUME Made, NEW v
    PROVE  IsFiniteSet(Matches(v)) /\ Matches(v) \subseteq NodeIds
<1> DEFINE S == {n \in DOMAIN nodes : Lower(v) \in Referrers(nodes[n])}
           f == [i \in DOMAIN nodes |-> nodes[i].id]
<1>1. Len(nodes) \in Nat /\ DOMAIN nodes = 1..Len(nodes)
  BY DEF Made
<1>2. IsFiniteSet(1..Len(nodes))
  BY <1>1, FS_Interval
<1>3. IsFiniteSet(S)
  <2>1. S \in SUBSET (1..Len(nodes))
    BY <1>1
  <2> HIDE DEF S
  <2> QED BY <1>2, <2>1, FS_Subset
<1>4. IsFiniteSet({f[i] : i \in S})
  <2> HIDE DEF S, f
  <2> QED BY <1>3, FiniteRange
<1>5. Matches(v) = {f[i] : i \in S}
  BY DEF Matches
<1> HIDE DEF S
<1> QED BY <1>4, <1>5 DEF Matches, NodeIds

\* A reference is resolved to the only candidate.
LEMMA ResolvedAlone ==
    ASSUME Made, NEW v, NEW excluded, NEW t \in Resolve(v, excluded)
    PROVE  Matches(v) \ excluded = {t} /\ t \in Matches(v) /\ t \in NodeIds
<1> DEFINE C == Matches(v) \ excluded
<1>1. Cardinality(C) = 1 /\ t \in C
  BY DEF Resolve
<1>2. IsFiniteSet(C)
  <2>1. IsFiniteSet(Matches(v)) /\ C \in SUBSET Matches(v)
    BY MatchesAreNodes
  <2> HIDE DEF C
  <2> QED BY <2>1, FS_Subset
<1>3. C = {t}
  <2> HIDE DEF C
  <2>1. PICK x : C = {x}
    BY <1>1, <1>2, FS_Singleton
  <2> QED BY <1>1, <2>1
<1> QED BY <1>3, MatchesAreNodes

LEMMA FieldThere ==
    ASSUME NEW r, NEW f, NEW v \in Parts(Field(records[r], f))
    PROVE  f \in DOMAIN records[r].fields /\ v \in Parts(records[r].fields[f])
  BY TextAssumption DEF Field

\* A node is added, and those that are there stay.
LEMMA NodesGrow ==
    ASSUME Made, NEW node, nodes' = Append(nodes, node)
    PROVE  /\ nodes' \in Seq({nodes'[i] : i \in DOMAIN nodes'})
           /\ NodeIds \subseteq NodeIds' /\ node.id \in NodeIds'
<1> DEFINE S == {nodes[i] : i \in DOMAIN nodes} \cup {node}
           n == Len(nodes) + 1
<1>1. nodes \in Seq(S) /\ node \in S
  BY DEF Made
<1> HIDE DEF S
<1>2. /\ nodes' \in Seq(S) /\ Len(nodes') = n /\ nodes'[n] = node
      /\ \A i \in DOMAIN nodes : i \in DOMAIN nodes' /\ nodes'[i] = nodes[i]
      /\ n \in DOMAIN nodes' /\ DOMAIN nodes' = 1..n
  BY <1>1
<1>3. nodes' \in Seq({nodes'[i] : i \in DOMAIN nodes'})
  BY <1>2
<1> QED BY <1>2, <1>3 DEF NodeIds

LEMMA SourceIsNode ==
    ASSUME Made, NEW r, NEW source \in SourceNode(r)
    PROVE  source \in NodeIds
<1>1. CASE r \in DOMAIN nodeOf
  BY <1>1 DEF SourceNode, Made
<1>2. CASE r \notin DOMAIN nodeOf
  <2> DEFINE given == {i \in DOMAIN SourceFields : Field(records[r], SourceFields[i]) # Blank}
             v == Field(records[r], SourceFields[CHOOSE i \in given : \A j \in given : i <= j])
  <2>0. SourceNode(r) = IF given = {} THEN {} ELSE Resolve(v, {})
    BY <1>2 DEF SourceNode
  <2>1. source \in Resolve(v, {})
    <3> HIDE DEF given, v
    <3> QED BY <2>0
  <2> HIDE DEF v
  <2> QED BY <2>1, ResolvedAlone
<1> QED BY <1>1, <1>2

LEMMA NewLinks ==
    ASSUME Made, NEW r, NEW source \in SourceNode(r), NEW k \in MemberLinks(r, source) \cup RuleLinks(r, source)
    PROVE  /\ {k.source, k.target} \subseteq NodeIds /\ k.source # k.target
           /\ \E f \in DOMAIN records[r].fields : \E v \in Parts(records[r].fields[f]) :
                  \/ k.target \in Matches(v) /\ Matches(v) \subseteq {k.source, k.target}
                  \/ f = "members" /\ Matches(v) = {k.source}
<1>1. source \in NodeIds
  BY SourceIsNode
<1>2. CASE k \in MemberLinks(r, source)
  <2>0. PICK v \in Parts(Field(records[r], "members")) :
            \E m \in Resolve(v, {}) : m # source /\ k = Link(m, "MEMBER_OF", source)
    BY <1>2 DEF MemberLinks
  <2>1. PICK m \in Resolve(v, {}) : m # source /\ k = Link(m, "MEMBER_OF", source)
    BY <2>0
  <2>2. Matches(v) = {m} /\ m \in NodeIds
    BY <2>1, ResolvedAlone
  <2>3. k.source = m /\ k.target = source
    BY <2>1 DEF Link
  <2>4. "members" \in DOMAIN records[r].fields /\ v \in Parts(records[r].fields["members"])
    BY FieldThere
  <2> QED BY <1>1, <2>1, <2>2, <2>3, <2>4
<1>3. CASE k \in RuleLinks(r, source)
  <2>1. PICK rule \in RULES : \E v \in Parts(Field(records[r], rule[1])) : \E t \in Resolve(v, {source}) :
            k = Link(source, rule[2], t)
    BY <1>3 DEF RuleLinks
  <2>0. PICK v \in Parts(Field(records[r], rule[1])) :
            \E t \in Resolve(v, {source}) : k = Link(source, rule[2], t)
    BY <2>1
  <2>2. PICK t \in Resolve(v, {source}) : k = Link(source, rule[2], t)
    BY <2>0
  <2>3. Matches(v) \ {source} = {t} /\ t \in Matches(v) /\ t \in NodeIds
    BY ResolvedAlone
  <2>4. k.source = source /\ k.target = t
    BY <2>2 DEF Link
  <2>5. rule[1] \in DOMAIN records[r].fields /\ v \in Parts(records[r].fields[rule[1]])
    BY FieldThere
  <2>6. k.source # k.target
    BY <2>3, <2>4
  <2> QED BY <1>1, <2>3, <2>4, <2>5, <2>6
<1> QED BY <1>2, <1>3

------------------------------------------------------------------------------
(* Steps that convert nothing, and those that do                           *)

\* What keeps records, groups and nodes keeps the relationships as clear as they were.
LEMMA LinksKept ==
    ASSUME LinkInv, UNCHANGED conversionVars, records' = records, groups' = groups
    PROVE  LinksAreUnambiguous'
<1>1. links' = links /\ nodes' = nodes /\ linked' = linked
  BY DEF conversionVars
<1>2. \A n : Referrers(n)' = Referrers(n)
  BY DEF Referrers, MergedField, Field, Before, Rank
<1>3. \A v : Matches(v)' = Matches(v)
  BY <1>1, <1>2 DEF Matches
<1>4. NodeIds' = NodeIds
  BY <1>1 DEF NodeIds
<1> QED BY <1>1, <1>3, <1>4 DEF LinkInv, LinksAreUnambiguous

\* Without relationships there are none to be ambiguous.
LEMMA NoLinksYet ==
    ASSUME links' = {}
    PROVE  LinksAreUnambiguous'
  BY DEF LinksAreUnambiguous

LEMMA NodeStep ==
    ASSUME LinkInv, phase = "correlating", done = Len(records), ConvertNode,
           UNCHANGED <<sheetVars, correlationVars>>
    PROVE  LinkInv'
<1>1. /\ converted < Len(records) /\ converted' = converted + 1
      /\ phase' = phase /\ done' = done /\ records' = records
      /\ linked' = linked /\ links' = links /\ Len(records) \in Nat
  BY DEF ConvertNode, sheetVars, correlationVars, LinkInv, Made
<1>2. linked = 0 /\ links = {}
  BY <1>1 DEF LinkInv, Made
<1> DEFINE r == converted + 1
           new == NodeOf(r)
<1>3. \/ nodes' = nodes /\ nodeOf' = nodeOf
      \/ /\ nodeOf' = [x \in DOMAIN nodeOf \cup {r} |-> IF x = r THEN new.id ELSE nodeOf[x]]
         /\ nodes' = IF new.id \in NodeIds THEN nodes ELSE Append(nodes, new)
  BY Zenon DEF ConvertNode
<1> HIDE DEF new
<1>4. /\ nodes' \in Seq({nodes'[i] : i \in DOMAIN nodes'}) /\ NodeIds \subseteq NodeIds'
      /\ nodeOf' # nodeOf => new.id \in NodeIds'
  <2>1. CASE nodes' = nodes
    <3>1. NodeIds' = NodeIds
      BY <2>1 DEF NodeIds
    <3>2. nodeOf' # nodeOf => new.id \in NodeIds
      BY <1>3, <2>1
    <3> QED BY <2>1, <3>1, <3>2 DEF LinkInv, Made
  <2>2. CASE nodes' = Append(nodes, new)
    BY <2>2, NodesGrow DEF LinkInv
  <2> QED BY <1>3, <2>1, <2>2
<1>5. \A x \in DOMAIN nodeOf' : nodeOf'[x] \in NodeIds'
  <2>1. CASE nodeOf' = nodeOf
    BY <1>4, <2>1 DEF LinkInv, Made
  <2>2. CASE nodeOf' = [x \in DOMAIN nodeOf \cup {r} |-> IF x = r THEN new.id ELSE nodeOf[x]] /\ nodeOf' # nodeOf
    <3>1. \A x \in DOMAIN nodeOf' : nodeOf'[x] = new.id \/ (x \in DOMAIN nodeOf /\ nodeOf'[x] = nodeOf[x])
      BY <2>2
    <3> QED BY <1>4, <2>2, <3>1 DEF LinkInv, Made
  <2> QED BY <1>3, <2>1, <2>2
<1>6. Made'
  BY <1>1, <1>2, <1>4, <1>5 DEF LinkInv, Made
<1> QED BY <1>1, <1>2, <1>6, NoLinksYet DEF LinkInv

LEMMA LinkStep ==
    ASSUME LinkInv, phase = "correlating", done = Len(records), ConvertLinks,
           UNCHANGED <<sheetVars, correlationVars>>
    PROVE  LinkInv'
<1>1. /\ converted = Len(records) /\ linked < Len(records) /\ linked' = linked + 1
      /\ phase' = phase /\ done' = done /\ records' = records /\ groups' = groups
      /\ converted' = converted /\ nodes' = nodes /\ nodeOf' = nodeOf /\ linked \in Nat
  BY DEF ConvertLinks, sheetVars, correlationVars, LinkInv, Made
<1> DEFINE r == linked + 1
<1>2. links' = links \/ \E source \in SourceNode(r) :
                            links' = links \cup MemberLinks(r, source) \cup RuleLinks(r, source)
  BY DEF ConvertLinks
<1>3. NodeIds' = NodeIds
  BY <1>1 DEF NodeIds
<1>4. Made'
  BY <1>1, <1>3 DEF LinkInv, Made
<1>5. \A v : Matches(v)' = Matches(v)
  <2>1. \A n : Referrers(n)' = Referrers(n)
    BY <1>1 DEF Referrers, MergedField, Field, Before, Rank
  <2> QED BY <1>1, <2>1 DEF Matches
<1>6. ASSUME NEW k \in links'
      PROVE  /\ {k.source, k.target} \subseteq NodeIds /\ k.source # k.target
             /\ \E x \in 1..linked' : \E f \in DOMAIN records[x].fields : \E v \in Parts(records[x].fields[f]) :
                    \/ k.target \in Matches(v) /\ Matches(v) \subseteq {k.source, k.target}
                    \/ f = "members" /\ Matches(v) = {k.source}
  <2>1. CASE k \in links
    <3>1. 1..linked \subseteq 1..linked'
      BY <1>1
    <3> QED BY <2>1, <3>1 DEF LinkInv, LinksAreUnambiguous
  <2>2. CASE k \notin links
    <3>1. PICK source \in SourceNode(r) : k \in MemberLinks(r, source) \cup RuleLinks(r, source)
      BY <1>2, <2>2
    <3>2. r \in 1..linked'
      BY <1>1
    <3> HIDE DEF r
    <3> QED BY <3>1, <3>2, NewLinks DEF LinkInv
  <2> QED BY <2>1, <2>2
<1>7. LinksAreUnambiguous'
  BY <1>1, <1>3, <1>5, <1>6 DEF LinksAreUnambiguous
<1> QED BY <1>4, <1>7 DEF LinkInv

------------------------------------------------------------------------------
(* The parsers: what they read are rows                                    *)

Rows == [Columns -> Texts]
Lines == Seq([kind : {"row", "blank", "malformed"}, cells : Rows])

\* The rows that have a value.
NonEmpty == Rows \ {Empty}

LEMMA EmptyIsRow == Empty \in Rows
  BY TextAssumption DEF Empty, Rows

LEMMA UpToType ==
    ASSUME NEW S, NEW seq \in Seq(S), NEW n \in Nat
    PROVE  /\ UpTo(n, seq) \in Seq(S)
           /\ Len(UpTo(n, seq)) = IF n <= Len(seq) THEN n ELSE Len(seq)
           /\ \A i \in 1..Len(UpTo(n, seq)) : UpTo(n, seq)[i] = seq[i]
           /\ Len(seq) <= n => UpTo(n, seq) = seq
<1> DEFINE k == IF n <= Len(seq) THEN n ELSE Len(seq)
<1>1. k \in 0..Len(seq) /\ (Len(seq) <= n => k = Len(seq)) /\ Len(seq) \in Nat
  OBVIOUS
<1>6. Min({n, Len(seq)}) = k
  BY <1>1, MinOfTwo
<1>2. UpTo(n, seq) = SubSeq(seq, 1, k)
  BY <1>6 DEF UpTo
<1>3. Len(seq) <= n => UpTo(n, seq) = seq
  BY <1>1, <1>2, SubSeqFull
<1>4. \A i \in 1..k : seq[i] \in S
  BY <1>1
<1>5. SubSeq(seq, 1, k) \in Seq(S) /\ Len(SubSeq(seq, 1, k)) = k /\ \A i \in 1..k : SubSeq(seq, 1, k)[i] = seq[i]
  <2> HIDE DEF k
  <2> QED BY <1>1, <1>4, SubSeqProperties
<1> QED BY <1>2, <1>3, <1>5

LEMMA LinesType ==
    ASSUME NEW lines \in Lines
    PROVE  /\ DOMAIN lines = 1..Len(lines) /\ Len(lines) \in Nat
           /\ \A i \in DOMAIN lines : lines[i].cells \in Rows
<1> DEFINE S == [kind : {"row", "blank", "malformed"}, cells : Rows]
<1>1. lines \in Seq(S)
  BY DEF Lines
<1>2. \A l \in S : l.cells \in Rows
  OBVIOUS
<1> HIDE DEF S
<1> QED BY <1>1, <1>2

LEMMA RowsInType ==
    ASSUME NEW lines \in Lines
    PROVE  RowsIn(lines) \in Seq(Rows)
<1> DEFINE ss == [i \in DOMAIN lines |-> IF lines[i].kind = "row" THEN <<lines[i].cells>> ELSE <<>>]
<1>1. DOMAIN lines = 1..Len(lines) /\ Len(lines) \in Nat /\ \A i \in DOMAIN lines : lines[i].cells \in Rows
  BY LinesType
<1>2. \A i \in DOMAIN lines : ss[i] \in Seq(Rows)
  BY <1>1
<1>3. ss \in Seq(Seq(Rows))
  BY <1>1, <1>2
<1> HIDE DEF ss
<1> QED BY <1>3, FlattenType DEF RowsIn, ss

LEMMA FilledType ==
    ASSUME NEW rows \in Seq(Rows)
    PROVE  Filled(rows) \in Seq(NonEmpty)
<1> DEFINE ss == [i \in DOMAIN rows |-> IF rows[i] = Empty THEN <<>> ELSE <<rows[i]>>]
<1>1. DOMAIN rows = 1..Len(rows) /\ Len(rows) \in Nat /\ \A i \in DOMAIN rows : rows[i] \in Rows
  OBVIOUS
<1>2. \A i \in DOMAIN rows : ss[i] \in Seq(NonEmpty)
  <2> TAKE i \in DOMAIN rows
  <2>1. rows[i] # Empty => rows[i] \in NonEmpty
    BY <1>1 DEF NonEmpty
  <2> QED BY <2>1
<1>3. ss \in Seq(Seq(NonEmpty))
  BY <1>1, <1>2
<1> HIDE DEF ss
<1> QED BY <1>3, FlattenType DEF Filled, ss

LEMMA FilledAlready ==
    ASSUME NEW rows \in Seq(NonEmpty)
    PROVE  Filled(rows) = rows
<1> DEFINE ss == [i \in DOMAIN rows |-> IF rows[i] = Empty THEN <<>> ELSE <<rows[i]>>]
<1>1. DOMAIN rows = 1..Len(rows) /\ Len(rows) \in Nat /\ \A i \in DOMAIN rows : rows[i] \in NonEmpty /\ rows[i] # Empty
  BY DEF NonEmpty
<1>2. \A i \in DOMAIN rows : ss[i] = <<rows[i]>> /\ ss[i] \in Seq(NonEmpty)
  BY <1>1
<1>3. ss \in Seq(Seq(NonEmpty)) /\ Len(ss) = Len(rows)
  BY <1>1, <1>2
<1> HIDE DEF ss
<1>4. FlattenSeq(ss) = rows
  BY <1>1, <1>2, <1>3, FlattenOnes
<1> QED BY <1>4 DEF Filled, ss

LEMMA FilledIsRows ==
    ASSUME NEW rows \in Seq(Rows)
    PROVE  Filled(rows) \in Seq(Rows) /\ Filled(Filled(rows)) = Filled(rows)
<1>1. Filled(rows) \in Seq(NonEmpty)
  BY FilledType
<1>2. \A s \in Seq(NonEmpty) : s \in Seq(Rows)
  BY DEF NonEmpty
<1> QED BY <1>1, <1>2, FilledAlready

\* Rows whose cells are cut off or left out are as many rows.
LEMMA CutRows ==
    ASSUME NEW rows \in Seq(Rows)
    PROVE  /\ Shorter(rows) \in Seq(Rows) /\ Len(Shorter(rows)) = Len(rows)
           /\ Bounded(rows) \in Seq(Rows) /\ Len(Bounded(rows)) = Len(rows)
<1>1. DOMAIN rows = 1..Len(rows) /\ Len(rows) \in Nat /\ \A i \in DOMAIN rows : rows[i] \in Rows
  OBVIOUS
<1>2. \A i \in DOMAIN rows : \A c \in Columns : Shortened(rows[i][c]) \in Texts /\ Blank \in Texts
  BY <1>1, TextAssumption DEF Rows
<1>3. \A i \in DOMAIN rows : [c \in Columns |-> Shortened(rows[i][c])] \in Rows
  BY <1>2 DEF Rows
<1>4. \A i \in DOMAIN rows :
          [c \in Columns |-> IF c \in Beyond THEN Blank ELSE Shortened(rows[i][c])] \in Rows
  BY <1>2 DEF Rows
<1> QED BY <1>1, <1>3, <1>4 DEF Shorter, Bounded

\* Lines that are all rows are read one by one.
LEMMA AllRows ==
    ASSUME NEW lines \in Lines, \A i \in DOMAIN lines : lines[i].kind = "row"
    PROVE  RowsIn(lines) = [i \in DOMAIN lines |-> lines[i].cells] /\ Len(RowsIn(lines)) = Len(lines)
<1> DEFINE ss == [i \in DOMAIN lines |-> IF lines[i].kind = "row" THEN <<lines[i].cells>> ELSE <<>>]
           r == [i \in DOMAIN lines |-> lines[i].cells]
<1>1. DOMAIN lines = 1..Len(lines) /\ Len(lines) \in Nat /\ \A i \in DOMAIN lines : lines[i].cells \in Rows
  BY LinesType
<1>2. r \in Seq(Rows) /\ Len(r) = Len(lines)
  BY <1>1
<1>3. \A i \in 1..Len(lines) : ss[i] = <<r[i]>> /\ ss[i] \in Seq(Rows)
  BY <1>1
<1>4. ss \in Seq(Seq(Rows)) /\ Len(ss) = Len(r)
  BY <1>1, <1>2, <1>3
<1>5. RowsIn(lines) = FlattenSeq(ss)
  BY DEF RowsIn
<1> HIDE DEF ss, r
<1>6. FlattenSeq(ss) = r
  BY <1>2, <1>3, <1>4, FlattenOnes
<1> QED BY <1>2, <1>5, <1>6 DEF r

LEMMA ChunkType ==
    ASSUME NEW lines \in Lines, NEW start \in Nat, NEW end \in Nat, end <= Len(lines)
    PROVE  ChunkOfRange(lines, start, end) \in Seq(Rows)
<1>1. SubSeq(lines, start + 1, end) \in Lines
  <2> DEFINE S == [kind : {"row", "blank", "malformed"}, cells : Rows]
  <2>1. lines \in Seq(S) /\ Len(lines) \in Nat
    BY DEF Lines
  <2>2. \A i \in (start + 1)..end : lines[i] \in S
    <3> HIDE DEF S
    <3> QED BY <2>1
  <2>3. SubSeq(lines, start + 1, end) \in Seq(S)
    <3> HIDE DEF S
    <3> QED BY <2>2, SubSeqProperties
  <2> QED BY <2>3 DEF Lines
<1>2. Filled(RowsIn(SubSeq(lines, start + 1, end))) \in Seq(Rows)
  BY <1>1, RowsInType, FilledIsRows
<1>3. Len(Filled(RowsIn(SubSeq(lines, start + 1, end)))) \in Nat
  BY <1>2
<1> QED BY <1>3, EmptyIsRow DEF ChunkOfRange

\* What is parsed are rows.
LEMMA ParsedRows ==
    ASSUME NEW file \in FileTypes
    PROVE  Parsed(file).rows \in Seq(Rows)
<1> DEFINE lines == file.lines
<1>1. lines \in Lines /\ file.format \in Formats /\ MaxRows \in Nat
  BY ParserAssumption DEF FileTypes, Lines, Rows
<1>2. RowsIn(lines) \in Seq(Rows) /\ Len(RowsIn(lines)) \in Nat
  BY <1>1, RowsInType
<1>3. Filled(RowsIn(lines)) \in Seq(Rows) /\ Len(Filled(RowsIn(lines))) \in Nat
  BY <1>2, FilledIsRows
<1>4. UpTo(MaxRows, RowsIn(lines)) \in Seq(Rows) /\ UpTo(MaxRows, Filled(RowsIn(lines))) \in Seq(Rows)
  BY <1>1, <1>2, <1>3, UpToType
<1>5. UpTo(MaxRows, lines) \in Lines
  BY <1>1, UpToType DEF Lines
<1>6. /\ RowsIn(UpTo(MaxRows, lines)) \in Seq(Rows)
      /\ Filled(Shorter(UpTo(MaxRows, RowsIn(lines)))) \in Seq(Rows)
      /\ Bounded(UpTo(MaxRows, RowsIn(lines))) \in Seq(Rows)
  BY <1>4, <1>5, RowsInType, FilledIsRows, CutRows
<1>7. ParseExcelChunked(lines).rows \in Seq(Rows)
  <2> DEFINE last == Len(lines)
             ranges == (last + ChunkRows - 1) \div ChunkRows
             end(k) == Min({last, k * ChunkRows})
             chunks == [k \in 1..ranges |-> ChunkOfRange(lines, (k - 1) * ChunkRows + 1, end(k))]
             read(k) == FlattenSeq(SubSeq(chunks, 1, k))
             full == {k \in 1..ranges : Len(read(k)) >= MaxRows}
             final == IF full # {} THEN Min(full) ELSE ranges
  <2>1. last \in Nat /\ ChunkRows \in Nat \ {0}
    BY <1>1, ParserAssumption DEF Lines
  <2>2. last + ChunkRows - 1 \in Nat
    BY <2>1
  <2>3. ranges \in Nat
    <3> HIDE DEF last
    <3> QED BY <2>1, <2>2
  <2>4. ASSUME NEW k \in 1..ranges PROVE chunks[k] \in Seq(Rows)
    <3>1. k * ChunkRows \in Nat /\ (k - 1) * ChunkRows + 1 \in Nat
      <4>1. k \in Nat /\ k - 1 \in Nat
        BY <2>3
      <4>2. \A x, y \in Nat : x * y \in Nat
        OBVIOUS
      <4> HIDE DEF ranges
      <4> QED BY <2>1, <4>1, <4>2
    <3>2. end(k) \in Nat /\ end(k) <= last
      <4> DEFINE e == k * ChunkRows
      <4>1. e \in Nat
        BY <3>1
      <4> HIDE DEF e, last
      <4> QED BY <2>1, <4>1, MinOfTwo DEF e
    <3> HIDE DEF end, ranges
    <3> QED BY <1>1, <3>1, <3>2, ChunkType
  <2>5. chunks \in Seq(Seq(Rows)) /\ Len(chunks) = ranges
    <3> HIDE DEF ranges, end
    <3> QED BY <2>3, <2>4
  <2>6. final \in 0..ranges
    <3>0. ranges \in 0..ranges
      <4> HIDE DEF ranges
      <4> QED BY <2>3
    <3>1. CASE full = {}
      <4> HIDE DEF ranges, full
      <4> QED BY <3>0, <3>1
    <3>2. CASE full # {}
      <4>1. full \in SUBSET Nat /\ full \in SUBSET (1..ranges)
        BY <2>3
      <4> HIDE DEF full
      <4>2. \E n \in full : \A m \in full : n <= m
        BY <3>2, <4>1, LeastNatural
      <4>3. Min(full) \in full
        BY <4>2 DEF Min
      <4> HIDE DEF ranges
      <4>4. Min(full) \in 1..ranges
        BY <4>1, <4>3
      <4>5. Min(full) \in 0..ranges
        <5> DEFINE m == Min(full)
        <5>1. m \in 1..ranges
          BY <4>4
        <5> HIDE DEF m
        <5>2. m \in 0..ranges
          BY <2>3, <5>1
        <5> QED BY <5>2 DEF m
      <4> QED BY <3>2, <4>5
    <3> QED BY <3>1, <3>2
  <2> HIDE DEF chunks
  <2>7. SubSeq(chunks, 1, final) \in Seq(Seq(Rows))
    <3> HIDE DEF final, ranges
    <3> QED BY <2>5, <2>6, FirstOnes
  <2>8. read(final) \in Seq(Rows)
    <3> HIDE DEF final
    <3> QED BY <2>7, FlattenType
  <2>9. ParseExcelChunked(lines) = Sheet(read(final), full # {} /\ final < ranges)
    BY DEF ParseExcelChunked, chunks
  <2> HIDE DEF read, final, full
  <2>10. \A rows, truncated : Sheet(rows, truncated).rows = rows
    BY DEF Sheet
  <2> QED BY <2>8, <2>9, <2>10
<1>8. \/ Parsed(file) = ParseCsv(lines)
      \/ Parsed(file) = ParseCsvChunked(lines)
      \/ Parsed(file) = ParseExcel(lines)
      \/ Parsed(file) = ParseExcelChunked(lines)
      \/ Parsed(file) = ParseJson(lines)
      \/ Parsed(file) = Sheet(<<>>, FALSE)
  BY <1>1 DEF Parsed, Formats, OutOfPlace
<1> HIDE DEF lines
<1>9. \A rows, truncated : Sheet(rows, truncated).rows = rows
  BY DEF Sheet
<1>10. ParseCsv(lines).rows \in Seq(Rows)
  BY <1>2, <1>6, <1>9 DEF ParseCsv
<1>11. ParseCsvChunked(lines).rows \in Seq(Rows)
  BY <1>2, <1>6, <1>9 DEF ParseCsvChunked
<1>12. ParseExcel(lines).rows \in Seq(Rows)
  BY <1>3, <1>4, <1>9 DEF ParseExcel
<1>13. ParseJson(lines).rows \in Seq(Rows)
  BY <1>6, <1>9 DEF ParseJson
<1>14. Sheet(<<>>, FALSE).rows \in Seq(Rows)
  <2>1. Sheet(<<>>, FALSE).rows = <<>>
    BY <1>9, Zenon
  <2>2. <<>> \in Seq(Rows)
    OBVIOUS
  <2> QED BY <2>1, <2>2
<1> QED BY <1>7, <1>8, <1>10, <1>11, <1>12, <1>13, <1>14

------------------------------------------------------------------------------
(* The wizard: mappings and records have their types                       *)

Mappings == [Columns -> Targets]
Fields == UNION {[F -> Texts] : F \in SUBSET STRING}

\* A column is marked when another that is in use has its field.
Marked(mapping) ==
    \A c \in Columns : mapping[c].duplicate <=>
        \E d \in Columns \ {c} : /\ ~mapping[c].ignored /\ ~mapping[d].ignored
                                 /\ mapping[d].field = mapping[c].field

\* What each step of the wizard has made of the step before.
SheetsInv ==
    /\ files \in Imports
    /\ phase \in {"parsing", "mapping", "correlating"}
    /\ phase = "parsing" => sheets = <<>> /\ validated = {}
    /\ phase # "parsing" =>
           /\ sheets = [s \in DOMAIN files |-> Parsed(files[s])]
           /\ DOMAIN mappings = DOMAIN files
           /\ \A s \in DOMAIN files : mappings[s] \in Mappings /\ Marked(mappings[s])
    /\ phase # "parsing" => DOMAIN issues = DOMAIN files /\ validated \subseteq DOMAIN files
    /\ phase # "parsing" => \A s \in DOMAIN files :
           issues[s] = IF s \in validated THEN Validated(sheets[s].rows, mappings[s]) ELSE <<>>
    /\ phase # "correlating" => records = <<>> /\ CorrelationInit
    /\ phase = "correlating" =>
           records = FlattenSeq([s \in DOMAIN sheets |->
                                    RecordsOf(sheets[s].rows, files[s].type, mappings[s], issues[s])])

LEMMA MarksAreRight ==
    ASSUME NEW m \in Mappings
    PROVE  MarkDuplicates(m) \in Mappings /\ Marked(MarkDuplicates(m))
<1> DEFINE dup(c) == \E d \in DOMAIN m \ {c} : /\ ~m[c].ignored /\ ~m[d].ignored /\ m[d].field = m[c].field
           mm == MarkDuplicates(m)
<1>1. DOMAIN m = Columns /\ \A c \in Columns : m[c] \in Targets
  BY DEF Mappings
<1>2. DOMAIN mm = Columns /\ \A c \in Columns : mm[c] = [m[c] EXCEPT !.duplicate = dup(c)]
  BY <1>1 DEF MarkDuplicates
<1>3. \A c \in Columns : /\ mm[c].field = m[c].field /\ mm[c].ignored = m[c].ignored
                         /\ mm[c] \in Targets /\ (mm[c].duplicate <=> dup(c))
  <2> TAKE c \in Columns
  <2>1. dup(c) \in BOOLEAN /\ m[c] \in Targets
    BY <1>1
  <2> HIDE DEF dup, mm
  <2> QED BY <1>2, <2>1 DEF Targets
<1>4. mm \in Mappings
  <2>1. mm = [c \in Columns |-> mm[c]]
    BY <1>1 DEF MarkDuplicates
  <2> HIDE DEF mm
  <2> QED BY <1>3, <2>1 DEF Mappings
<1> HIDE DEF mm
<1>5. Marked(mm)
  BY <1>1, <1>3 DEF Marked
<1> QED BY <1>4, <1>5 DEF mm

LEMMA SuggestedType == Suggested \in Mappings /\ Marked(Suggested)
<1> DEFINE m == [c \in Columns |-> IF Alias(c) = Blank THEN Target(c, TRUE) ELSE Target(Alias(c), FALSE)]
<1>1. \A c \in Columns : m[c] \in Targets
  BY ImportAssumption DEF Target, Targets
<1>2. m \in Mappings
  BY <1>1 DEF Mappings
<1> HIDE DEF m
<1> QED BY <1>2, MarksAreRight DEF Suggested, m

LEMMA OverriddenType ==
    ASSUME NEW m \in Mappings, NEW overrides \in Overrides
    PROVE  WithOverrides(m, overrides) \in Mappings /\ Marked(WithOverrides(m, overrides))
<1> DEFINE n == [c \in DOMAIN m |-> IF c \in DOMAIN overrides THEN overrides[c] ELSE m[c]]
<1>1. overrides \in [DOMAIN overrides -> Targets] /\ DOMAIN m = Columns /\ \A c \in Columns : m[c] \in Targets
  BY ImportAssumption DEF Mappings
<1>2. n \in Mappings
  BY <1>1 DEF Mappings
<1> HIDE DEF n
<1> QED BY <1>2, MarksAreRight DEF WithOverrides, n

\* The columns that bring a field into the records.
Bringing(mapping) == {c \in Used(mapping) : mapping[c].field \notin {"id", "externalId", "ignored"}}

LEMMA NormalTexts ==
    ASSUME NEW f, NEW v \in Texts
    PROVE  NormalText(f, v) \in Texts
<1>1. Lower(v) \in Texts /\ Upper(v) \in Texts /\ Underscored(Upper(v)) \in Texts
  BY TextAssumption
<1> QED BY <1>1 DEF NormalText

LEMMA NormalisedType ==
    ASSUME NEW row \in Rows, NEW m \in Mappings
    PROVE  Normalised(row, m) \in Fields
<1> DEFINE used == Bringing(m)
           F == {m[c].field : c \in used}
           from(f) == CHOOSE c \in used : m[c].field = f
           fields == [f \in F |-> NormalText(f, row[from(f)])]
<1>1. used \in SUBSET Columns /\ \A c \in Columns : m[c].field \in STRING /\ row[c] \in Texts
  BY DEF Bringing, Used, Mappings, Targets, Rows
<1>2. F \in SUBSET STRING
  BY <1>1
<1>3. ASSUME NEW f \in F PROVE NormalText(f, row[from(f)]) \in Texts
  <2>1. from(f) \in used
    OBVIOUS
  <2>2. row[from(f)] \in Texts
    BY <1>1, <2>1
  <2> HIDE DEF from, F
  <2> QED BY <2>2, NormalTexts
<1>4. fields \in [F -> Texts]
  <2> HIDE DEF from, F
  <2> QED BY <1>3
<1>5. Normalised(row, m) = fields
  BY DEF Normalised, Bringing
<1>6. fields \in Fields
  <2> HIDE DEF fields, F
  <2> QED BY <1>2, <1>4 DEF Fields
<1> QED BY <1>5, <1>6

LEMMA RecordsType ==
    ASSUME NEW rows \in Seq(Rows), NEW type \in STRING, NEW m \in Mappings, NEW is
    PROVE  RecordsOf(rows, type, m, is) \in Seq(Record) /\ Len(RecordsOf(rows, type, m, is)) = Len(rows)
<1>1. DOMAIN rows = 1..Len(rows) /\ Len(rows) \in Nat /\ \A i \in DOMAIN rows : rows[i] \in Rows
  OBVIOUS
<1>2. ASSUME NEW i \in DOMAIN rows
      PROVE  RecordsOf(rows, type, m, is)[i] \in Record
  <2> DEFINE fields == Normalised(rows[i], m)
  <2>1. fields \in Fields
    BY <1>1, NormalisedType
  <2>2. SourceOf(fields) \in Texts \cup {"CUSTOM"}
    <3>1. \A x \in DOMAIN fields : fields[x] \in Texts
      <4> HIDE DEF fields
      <4> QED BY <2>1 DEF Fields
    <3> QED BY <3>1 DEF SourceOf
  <2>3. (i \notin InvalidRows(is)) \in BOOLEAN
    OBVIOUS
  <2>4. RecordsOf(rows, type, m, is)[i] =
            [fields |-> fields, source |-> SourceOf(fields), type |-> type, valid |-> i \notin InvalidRows(is)]
    BY DEF RecordsOf
  <2> HIDE DEF fields
  <2> QED BY <2>1, <2>2, <2>3, <2>4 DEF Record, Fields
<1>3. DOMAIN RecordsOf(rows, type, m, is) = DOMAIN rows
  BY DEF RecordsOf
<1>4. RecordsOf(rows, type, m, is) = [i \in 1..Len(rows) |-> RecordsOf(rows, type, m, is)[i]]
  BY <1>1 DEF RecordsOf
<1> QED BY <1>1, <1>2, <1>3, <1>4

\* The sheets that are parsed, and the records they give.
LEMMA SheetTypes ==
    ASSUME SheetsInv, phase # "parsing"
    PROVE  /\ Len(files) \in Nat /\ DOMAIN files = 1..Len(files) /\ DOMAIN sheets = 1..Len(files)
           /\ Len(sheets) = Len(files)
           /\ \A s \in DOMAIN sheets : /\ files[s] \in FileTypes /\ files[s].type \in STRING
                                       /\ sheets[s].rows \in Seq(Rows) /\ sheets[s] = Parsed(files[s])
                                       /\ mappings[s] \in Mappings /\ Marked(mappings[s])
<1>1. files \in Seq(FileTypes)
  BY ImportAssumption DEF SheetsInv
<1>2. \A f \in FileTypes : f.type \in STRING
  BY DEF FileTypes
<1>3. Len(files) \in Nat /\ DOMAIN files = 1..Len(files) /\ \A s \in DOMAIN files : files[s] \in FileTypes
  <2> HIDE DEF FileTypes
  <2> QED BY <1>1
<1>4. sheets = [s \in DOMAIN files |-> Parsed(files[s])]
  BY DEF SheetsInv
<1>5. \A s \in DOMAIN files : Parsed(files[s]).rows \in Seq(Rows)
  BY <1>3, ParsedRows
<1> QED BY <1>2, <1>3, <1>4, <1>5 DEF SheetsInv

SheetRecords(s) == RecordsOf(sheets[s].rows, files[s].type, mappings[s], issues[s])

LEMMA AllRecords ==
    ASSUME SheetsInv, phase # "parsing"
    PROVE  /\ [s \in DOMAIN sheets |-> SheetRecords(s)] \in Seq(Seq(Record))
           /\ FlattenSeq([s \in DOMAIN sheets |-> SheetRecords(s)]) \in Seq(Record)
<1> DEFINE ss == [s \in DOMAIN sheets |-> SheetRecords(s)]
<1>1. DOMAIN sheets = 1..Len(files) /\ Len(files) \in Nat /\ \A s \in DOMAIN sheets : SheetRecords(s) \in Seq(Record)
  BY SheetTypes, RecordsType DEF SheetRecords
<1>2. ss \in Seq(Seq(Record))
  BY <1>1
<1> HIDE DEF ss
<1> QED BY <1>2, FlattenType DEF ss

------------------------------------------------------------------------------
(* The invariant of an import                                              *)

ImportInv == SheetsInv /\ CorrelationInv /\ LinkInv

\* An import that has parsed nothing.
LEMMA ImportBegins == Init => ImportInv
<1> SUFFICES ASSUME Init PROVE ImportInv
  OBVIOUS
<1>1. SheetsInv
  BY DEF Init, SheetsInv
<1>2. records \in Seq(Record) /\ CorrelationInit
  BY DEF Init
<1>3. CorrelationInv
  BY <1>2, CorrelationBegins
<1>4. nodes = <<>> /\ nodes \in Seq({nodes[i] : i \in DOMAIN nodes}) /\ DOMAIN nodeOf = {} /\ links = {}
      /\ converted = 0 /\ linked = 0
  BY DEF Init, ConversionInit
<1>5. LinkInv
  BY <1>4 DEF LinkInv, Made, LinksAreUnambiguous
<1> QED BY <1>1, <1>3, <1>5 DEF ImportInv

\* A step of the wizard before the records are built.
LEMMA WizardStep ==
    ASSUME ImportInv, phase # "correlating", phase' # "correlating", SheetsInv',
           UNCHANGED <<correlationVars, conversionVars>>
    PROVE  ImportInv'
<1>1. CorrelationInv'
  BY CorrelationStutters DEF ImportInv
<1>2. links' = {} /\ records' = records /\ groups' = groups
  BY DEF ImportInv, LinkInv, Made, conversionVars, correlationVars
<1>3. NodeIds' = NodeIds
  BY DEF NodeIds, conversionVars
<1>4. Made'
  BY <1>2, <1>3 DEF ImportInv, LinkInv, Made, conversionVars
<1> QED BY <1>1, <1>2, <1>4, NoLinksYet DEF ImportInv, LinkInv

\* Each step of the import preserves the invariant, and so does none.
LEMMA ParseStep ==
    ASSUME ImportInv, Parse
    PROVE  ImportInv'
<1>1. /\ phase = "parsing" /\ phase' = "mapping" /\ files' = files
      /\ sheets' = [s \in DOMAIN files |-> Parsed(files[s])]
      /\ mappings' = [s \in DOMAIN files |-> Suggested]
      /\ validated' = validated /\ issues' = [s \in DOMAIN files |-> <<>>]
      /\ UNCHANGED <<correlationVars, conversionVars>>
  BY DEF Parse
<1>2. records' = <<>> /\ CorrelationInit'
  BY <1>1 DEF ImportInv, SheetsInv, correlationVars, CorrelationInit
<1>3. SheetsInv'
  BY <1>1, <1>2, SuggestedType DEF ImportInv, SheetsInv
<1> QED BY <1>1, <1>3, WizardStep

LEMMA OverrideStep ==
    ASSUME ImportInv, ApplyMappings
    PROVE  ImportInv'
<1>1. /\ phase = "mapping" /\ phase' = "mapping" /\ files' = files /\ sheets' = sheets
      /\ validated' = validated \ {1} /\ issues' = [issues EXCEPT ![1] = <<>>]
      /\ UNCHANGED <<correlationVars, conversionVars>>
  BY DEF ApplyMappings
<1>2. PICK overrides \in Overrides :
          mappings' = [mappings EXCEPT ![1] = WithOverrides(mappings[1], overrides)]
  BY DEF ApplyMappings
<1>3. records' = <<>> /\ CorrelationInit'
  BY <1>1 DEF ImportInv, SheetsInv, correlationVars, CorrelationInit
<1>4. /\ DOMAIN mappings = DOMAIN files
      /\ \A s \in DOMAIN files : mappings[s] \in Mappings /\ Marked(mappings[s])
  BY <1>1 DEF ImportInv, SheetsInv
<1>5. DOMAIN mappings' = DOMAIN files'
  BY <1>1, <1>2, <1>4
<1>6. ASSUME NEW s \in DOMAIN files'
      PROVE  mappings'[s] \in Mappings /\ Marked(mappings'[s])
  <2>1. CASE s = 1
    <3>1. mappings'[s] = WithOverrides(mappings[1], overrides)
      BY <1>1, <1>2, <1>4, <2>1
    <3> QED BY <3>1, <1>1, <1>4, <2>1, OverriddenType
  <2>2. CASE s # 1
    <3>1. mappings'[s] = mappings[s]
      BY <1>1, <1>2, <1>4, <2>2
    <3> QED BY <3>1, <1>1, <1>4
  <2> QED BY <2>1, <2>2
<1>7. /\ DOMAIN issues' = DOMAIN files' /\ validated' \subseteq DOMAIN files'
      /\ \A s \in DOMAIN files' :
             issues'[s] = IF s \in validated' THEN Validated(sheets'[s].rows, mappings'[s]) ELSE <<>>
  <2>1. DOMAIN issues = DOMAIN files /\ validated \subseteq DOMAIN files
    BY <1>1 DEF ImportInv, SheetsInv
  <2>2. ASSUME NEW s \in DOMAIN files', s # 1
        PROVE  issues'[s] = IF s \in validated' THEN Validated(sheets'[s].rows, mappings'[s]) ELSE <<>>
    <3>1. /\ issues'[s] = issues[s] /\ mappings'[s] = mappings[s]
          /\ s \in validated' <=> s \in validated
      BY <1>1, <1>2, <1>4, <2>1, <2>2
    <3> QED BY <1>1, <2>2, <3>1 DEF ImportInv, SheetsInv
  <2>3. ASSUME NEW s \in DOMAIN files', s = 1 PROVE issues'[s] = <<>> /\ s \notin validated'
    BY <1>1, <2>1, <2>3
  <2> QED BY <1>1, <2>1, <2>2, <2>3
<1>8. SheetsInv'
  BY <1>1, <1>3, <1>5, <1>6, <1>7 DEF ImportInv, SheetsInv
<1> QED BY <1>1, <1>8, WizardStep

LEMMA ValidateStep ==
    ASSUME ImportInv, NEW t \in DOMAIN sheets, Validate(t)
    PROVE  ImportInv'
<1>1. /\ phase = "mapping" /\ phase' = "mapping" /\ files' = files /\ sheets' = sheets /\ mappings' = mappings
      /\ validated' = validated \cup {t}
      /\ issues' = [issues EXCEPT ![t] = Validated(sheets[t].rows, mappings[t])]
      /\ UNCHANGED <<correlationVars, conversionVars>>
  BY DEF Validate
<1>2. records' = <<>> /\ CorrelationInit'
  BY <1>1 DEF ImportInv, SheetsInv, correlationVars, CorrelationInit
<1>3. DOMAIN issues = DOMAIN files /\ validated \subseteq DOMAIN files /\ DOMAIN sheets = DOMAIN files
  BY <1>1 DEF ImportInv, SheetsInv
<1>4. /\ DOMAIN issues' = DOMAIN files' /\ validated' \subseteq DOMAIN files'
      /\ \A s \in DOMAIN files' :
             issues'[s] = IF s \in validated' THEN Validated(sheets'[s].rows, mappings'[s]) ELSE <<>>
  <2>1. ASSUME NEW s \in DOMAIN files', s # t
        PROVE  issues'[s] = IF s \in validated' THEN Validated(sheets'[s].rows, mappings'[s]) ELSE <<>>
    <3>1. issues'[s] = issues[s] /\ (s \in validated' <=> s \in validated)
      BY <1>1, <1>3, <2>1
    <3> QED BY <1>1, <2>1, <3>1 DEF ImportInv, SheetsInv
  <2>2. issues'[t] = Validated(sheets'[t].rows, mappings'[t]) /\ t \in validated'
    BY <1>1, <1>3
  <2> QED BY <1>1, <1>3, <2>1, <2>2
<1>5. SheetsInv'
  BY <1>1, <1>2, <1>4 DEF ImportInv, SheetsInv
<1> QED BY <1>1, <1>5, WizardStep

LEMMA BuildStep ==
    ASSUME ImportInv, BuildRecords
    PROVE  ImportInv'
<1>1. /\ phase = "mapping" /\ phase' = "correlating" /\ validated' = validated
      /\ files' = files /\ sheets' = sheets /\ mappings' = mappings /\ issues' = issues
      /\ records' = FlattenSeq([s \in DOMAIN sheets |-> SheetRecords(s)])
      /\ done' = done /\ groups' = groups /\ index' = index
      /\ converted' = converted /\ nodes' = nodes /\ nodeOf' = nodeOf /\ linked' = linked /\ links' = links
  BY DEF BuildRecords, SheetRecords, conversionVars
<1>2. SheetsInv'
  BY <1>1 DEF ImportInv, SheetsInv, SheetRecords
<1>3. CorrelationInv'
  <2>1. records' \in Seq(Record)
    BY <1>1, AllRecords DEF ImportInv
  <2>2. done = 0 /\ groups = <<>> /\ index = [k \in {} |-> 0]
    BY <1>1 DEF ImportInv, SheetsInv, CorrelationInit
  <2> QED BY <1>1, <2>1, <2>2, CorrelationAfresh
<1>4. Made'
  <2>1. NodeIds' = NodeIds
    BY <1>1 DEF NodeIds
  <2> QED BY <1>1, <2>1 DEF ImportInv, LinkInv, Made
<1>5. links' = {}
  BY <1>1 DEF ImportInv, LinkInv, Made
<1> QED BY <1>2, <1>3, <1>4, <1>5, NoLinksYet DEF ImportInv, LinkInv

LEMMA SheetsStay ==
    ASSUME SheetsInv, phase = "correlating", UNCHANGED sheetVars, records' = records
    PROVE  SheetsInv'
  BY DEF SheetsInv, sheetVars

LEMMA CorrelateStep ==
    ASSUME ImportInv, CorrelateNext
    PROVE  ImportInv'
<1>1. phase = "correlating" /\ Correlate /\ UNCHANGED <<sheetVars, conversionVars>>
  BY DEF CorrelateNext
<1>2. done < Len(records) /\ records' = records
  BY <1>1 DEF Correlate, OpenGroup, JoinGroup, SplitGroup, Takes
<1>3. SheetsInv' /\ CorrelationInv'
  BY <1>1, <1>2, SheetsStay, CorrelationSteps DEF ImportInv
<1>4. converted = 0 /\ linked = 0 /\ links = {}
  BY <1>1, <1>2 DEF ImportInv, LinkInv, Made, CorrelationInv, Typed
<1>5. NodeIds' = NodeIds
  BY <1>1 DEF NodeIds, conversionVars
<1>6. Made' /\ links' = {}
  BY <1>1, <1>2, <1>4, <1>5 DEF ImportInv, LinkInv, Made, conversionVars, sheetVars
<1> QED BY <1>3, <1>6, NoLinksYet DEF ImportInv, LinkInv

LEMMA ConvertStep ==
    ASSUME ImportInv, ConvertNext
    PROVE  ImportInv'
<1>1. phase = "correlating" /\ done = Len(records) /\ Convert /\ UNCHANGED <<sheetVars, correlationVars>>
  BY DEF ConvertNext
<1>2. SheetsInv'
  BY <1>1, SheetsStay DEF ImportInv, correlationVars
<1>3. CorrelationInv'
  BY <1>1, CorrelationStutters DEF ImportInv
<1>4. LinkInv'
  BY <1>1, NodeStep, LinkStep DEF ImportInv, Convert
<1> QED BY <1>2, <1>3, <1>4 DEF ImportInv

LEMMA ImportStutters ==
    ASSUME ImportInv, UNCHANGED vars
    PROVE  ImportInv'
<1>1. UNCHANGED sheetVars /\ UNCHANGED correlationVars /\ UNCHANGED conversionVars
  BY DEF vars
<1>2. SheetsInv'
  BY <1>1 DEF ImportInv, SheetsInv, sheetVars, correlationVars, CorrelationInit
<1>3. CorrelationInv'
  BY <1>1, CorrelationStutters DEF ImportInv
<1>4. NodeIds' = NodeIds
  BY <1>1 DEF NodeIds, conversionVars
<1>5. Made'
  BY <1>1, <1>4 DEF ImportInv, LinkInv, Made, conversionVars, correlationVars, sheetVars
<1>6. LinksAreUnambiguous'
  BY <1>1, LinksKept DEF ImportInv, correlationVars
<1> QED BY <1>2, <1>3, <1>5, <1>6 DEF ImportInv, LinkInv

\* The inductive invariant of an import: the sheets, mappings and issues are those of the phase
\* the wizard is in (ImportsService), the groups those of the records taken so far
\* (IdentityCorrelationService.correlate), the links those of the nodes made so far
\* (GraphConversionService.convert).
THEOREM ImportInvariant == Spec => []ImportInv
<1>1. ImportInv /\ [Next]_vars => ImportInv'
  <2> SUFFICES ASSUME ImportInv, [Next]_vars PROVE ImportInv'
    OBVIOUS
  <2> QED BY ParseStep, OverrideStep, ValidateStep, BuildStep, CorrelateStep, ConvertStep, ImportStutters DEF Next
<1> QED BY <1>1, ImportBegins, PTL DEF Spec

\* Whatever the records of an import: a relationship is between nodes of the graph, each of them
\* the only one that its record's reference may mean (ReferenceResolver.resolve gives up when
\* there are more candidates).
THEOREM ReferencesAreUnambiguous == Spec => []LinksAreUnambiguous
<1>1. ImportInv => LinksAreUnambiguous
  BY DEF ImportInv, LinkInv
<1> QED BY <1>1, ImportInvariant, PTL

\* In an import whose records come from its files, too, no group ever has two object GUIDs or two
\* SIDs (detectStrongConflicts, on the records of buildCorrelationRecords).
THEOREM ImportedIdsAreApart == Spec => []StrongIdsApart
<1>1. ImportInv => StrongIdsApart
  BY DEF ImportInv, CorrelationInv
<1> QED BY <1>1, ImportInvariant, PTL

\* In an import whose records come from its files, too, two groups get the same canonical id only
\* when both are in conflict (canonicalIdentityId of IdentityCorrelationService.correlate).
THEOREM ImportedIdentitiesAreApart == Spec => []IdentitiesApart
<1>1. ImportInv => IdentitiesApart
  BY NamesKeepApart DEF ImportInv
<1> QED BY <1>1, ImportInvariant, PTL

------------------------------------------------------------------------------
(* Every row is read                                                       *)

\* No workbook is large enough to be read in chunks (which loses its rows).
NoChunkedWorkbook == \A import \in Imports : \A s \in DOMAIN import : import[s].format # "excel in chunks"

ReadInFull(file) ==
    \/ Parsed(file).truncated \/ OutOfPlace(file)
    \/ Filled(Parsed(file).rows) = Filled(Kept(file))
    \/ file.format = "json" /\ Malformed(file)

\* An array whose elements are all objects is read element by element.
LEMMA EveryRowOfJson ==
    ASSUME NEW lines \in Lines, \A i \in DOMAIN lines : lines[i].kind = "row",
           Len(RowsIn(UpTo(MaxRows, lines))) < MaxRows
    PROVE  RowsIn(UpTo(MaxRows, lines)) = RowsIn(lines)
<1> DEFINE first == UpTo(MaxRows, lines)
<1>1. MaxRows \in Nat
  BY ParserAssumption
<1>2. /\ first \in Lines /\ Len(first) = IF MaxRows <= Len(lines) THEN MaxRows ELSE Len(lines)
      /\ \A i \in 1..Len(first) : first[i] = lines[i]
      /\ Len(lines) <= MaxRows => first = lines
  BY <1>1, UpToType DEF Lines
<1>3. Len(lines) \in Nat /\ DOMAIN lines = 1..Len(lines) /\ DOMAIN first = 1..Len(first)
  BY <1>2, LinesType
<1> HIDE DEF first
<1>4. \A i \in DOMAIN first : first[i].kind = "row"
  <2>1. \A i \in 1..Len(first) : i \in 1..Len(lines)
    BY <1>1, <1>2, <1>3
  <2> QED BY <1>2, <1>3, <2>1
<1>5. Len(RowsIn(first)) = Len(first)
  BY <1>2, <1>4, AllRows
<1>6. Len(lines) <= MaxRows
  BY <1>1, <1>2, <1>3, <1>5 DEF first
<1> QED BY <1>2, <1>6 DEF first

LEMMA SheetParts ==
    ASSUME NEW rows, NEW truncated \in BOOLEAN
    PROVE  Sheet(rows, truncated).rows = rows /\ Sheet(rows, truncated).truncated = truncated
  BY DEF Sheet

\* Below the limit every parser reads what is there.
LEMMA BelowTheLimit ==
    ASSUME NEW lines \in Lines
    PROVE  /\ Len(RowsIn(lines)) \in Nat /\ Len(Filled(RowsIn(lines))) \in Nat
           /\ Len(RowsIn(UpTo(MaxRows, lines))) \in Nat
           /\ Filled(Filled(RowsIn(lines))) = Filled(RowsIn(lines))
           /\ ~(Len(RowsIn(lines)) > MaxRows) => UpTo(MaxRows, RowsIn(lines)) = RowsIn(lines)
           /\ ~(Len(Filled(RowsIn(lines))) > MaxRows) =>
                  UpTo(MaxRows, Filled(RowsIn(lines))) = Filled(RowsIn(lines))
           /\ \A i \in DOMAIN lines : lines[i].kind \in {"row", "blank", "malformed"}
<1>1. MaxRows \in Nat
  BY ParserAssumption
<1>2. RowsIn(lines) \in Seq(Rows) /\ Len(RowsIn(lines)) \in Nat
  BY RowsInType
<1>3. /\ Filled(RowsIn(lines)) \in Seq(Rows) /\ Len(Filled(RowsIn(lines))) \in Nat
      /\ Filled(Filled(RowsIn(lines))) = Filled(RowsIn(lines))
  BY <1>2, FilledIsRows
<1>4. Len(RowsIn(lines)) <= MaxRows => UpTo(MaxRows, RowsIn(lines)) = RowsIn(lines)
  BY <1>1, <1>2, UpToType
<1>5. Len(Filled(RowsIn(lines))) <= MaxRows => UpTo(MaxRows, Filled(RowsIn(lines))) = Filled(RowsIn(lines))
  BY <1>1, <1>3, UpToType
<1>6. Len(RowsIn(UpTo(MaxRows, lines))) \in Nat
  <2>1. UpTo(MaxRows, lines) \in Lines
    BY <1>1, UpToType DEF Lines
  <2>2. RowsIn(UpTo(MaxRows, lines)) \in Seq(Rows)
    BY <2>1, RowsInType
  <2> QED BY <2>2
<1>7. \A i \in DOMAIN lines : lines[i].kind \in {"row", "blank", "malformed"}
  <2> DEFINE S == [kind : {"row", "blank", "malformed"}, cells : Rows]
  <2>1. \A l \in S : l.kind \in {"row", "blank", "malformed"}
    OBVIOUS
  <2>2. lines \in Seq(S)
    BY DEF Lines
  <2> HIDE DEF S
  <2> QED BY <2>1, <2>2
<1> QED BY <1>1, <1>2, <1>3, <1>4, <1>5, <1>6, <1>7

\* Format by format, a sheet that is not marked has every row with a value.
LEMMA CsvIsRead ==
    ASSUME NEW lines \in Lines, ~ParseCsv(lines).truncated
    PROVE  Filled(ParseCsv(lines).rows) = Filled(Shorter(RowsIn(lines)))
<1> DEFINE cut == Len(RowsIn(lines)) > MaxRows
           rows == Filled(Shorter(UpTo(MaxRows, RowsIn(lines))))
<1>1. ParseCsv(lines) = Sheet(rows, cut) /\ cut \in BOOLEAN
  BY DEF ParseCsv
<1>2. ~cut => rows = Filled(Shorter(RowsIn(lines)))
  BY BelowTheLimit
<1>3. ~cut
  <2> HIDE DEF cut, rows
  <2> QED BY <1>1, SheetParts
<1>4. ParseCsv(lines).rows = rows
  <2> HIDE DEF cut, rows
  <2> QED BY <1>1, SheetParts
<1>5. Filled(Filled(Shorter(RowsIn(lines)))) = Filled(Shorter(RowsIn(lines)))
  BY RowsInType, CutRows, FilledIsRows
<1> QED BY <1>2, <1>3, <1>4, <1>5

LEMMA CsvInChunksIsRead ==
    ASSUME NEW lines \in Lines, ~ParseCsvChunked(lines).truncated
    PROVE  Filled(ParseCsvChunked(lines).rows) = Filled(Bounded(RowsIn(lines)))
<1> DEFINE cut == Len(RowsIn(lines)) >= MaxRows
           rows == Bounded(UpTo(MaxRows, RowsIn(lines)))
<1>1. ParseCsvChunked(lines) = Sheet(rows, cut) /\ cut \in BOOLEAN
  BY DEF ParseCsvChunked
<1>2. ~cut => rows = Bounded(RowsIn(lines))
  <2>1. ASSUME NEW n \in Nat, ~(n >= MaxRows) PROVE ~(n > MaxRows)
    BY <2>1, ParserAssumption
  <2>2. Len(RowsIn(lines)) \in Nat
    BY BelowTheLimit
  <2> QED BY <2>1, <2>2, BelowTheLimit
<1>3. ~cut
  <2> HIDE DEF cut, rows
  <2> QED BY <1>1, SheetParts
<1>4. ParseCsvChunked(lines).rows = rows
  <2> HIDE DEF cut, rows
  <2> QED BY <1>1, SheetParts
<1> QED BY <1>2, <1>3, <1>4, BelowTheLimit

LEMMA ExcelIsRead ==
    ASSUME NEW lines \in Lines, ~ParseExcel(lines).truncated
    PROVE  Filled(ParseExcel(lines).rows) = Filled(RowsIn(lines))
<1> DEFINE cut == Len(Filled(RowsIn(lines))) > MaxRows
           rows == UpTo(MaxRows, Filled(RowsIn(lines)))
<1>1. ParseExcel(lines) = Sheet(rows, cut) /\ cut \in BOOLEAN
  BY DEF ParseExcel
<1>2. ~cut => rows = Filled(RowsIn(lines))
  BY BelowTheLimit
<1>3. ~cut
  <2> HIDE DEF cut, rows
  <2> QED BY <1>1, SheetParts
<1>4. ParseExcel(lines).rows = rows
  <2> HIDE DEF cut, rows
  <2> QED BY <1>1, SheetParts
<1> QED BY <1>2, <1>3, <1>4, BelowTheLimit

LEMMA JsonIsRead ==
    ASSUME NEW lines \in Lines, (\A i \in DOMAIN lines : lines[i].kind = "row"), ~ParseJson(lines).truncated
    PROVE  Filled(ParseJson(lines).rows) = Filled(RowsIn(lines))
<1> DEFINE cut == Len(RowsIn(UpTo(MaxRows, lines))) >= MaxRows
           rows == RowsIn(UpTo(MaxRows, lines))
<1>1. ParseJson(lines) = Sheet(rows, cut) /\ cut \in BOOLEAN
  BY DEF ParseJson
<1>2. ~cut => rows = RowsIn(lines)
  <2>1. ASSUME NEW n \in Nat, ~(n >= MaxRows) PROVE n < MaxRows
    BY <2>1, ParserAssumption
  <2>2. Len(RowsIn(UpTo(MaxRows, lines))) \in Nat
    BY BelowTheLimit
  <2> QED BY <2>1, <2>2, EveryRowOfJson
<1>3. ~cut
  <2> HIDE DEF cut, rows
  <2> QED BY <1>1, SheetParts
<1>4. ParseJson(lines).rows = rows
  <2> HIDE DEF cut, rows
  <2> QED BY <1>1, SheetParts
<1> QED BY <1>2, <1>3, <1>4, BelowTheLimit

LEMMA EveryRowIsRead ==
    ASSUME NEW file \in FileTypes
    PROVE  file.format # "excel in chunks"
               /\ (file.format = "json" => \A i \in DOMAIN file.lines : file.lines[i].kind # "blank")
           => ReadInFull(file)
<1> DEFINE lines == file.lines
<1>1. lines \in Lines /\ file.format \in Formats
  BY DEF FileTypes, Lines, Rows
<1>2. \A i \in DOMAIN lines : lines[i].kind \in {"row", "blank", "malformed"}
  <2> HIDE DEF lines
  <2> QED BY <1>1, BelowTheLimit
<1>3. CASE file.format = "csv"
  <2>1. Parsed(file) = ParseCsv(lines)
    BY <1>3 DEF Parsed, OutOfPlace
  <2> HIDE DEF lines
  <2>2. ~ParseCsv(lines).truncated => Filled(ParseCsv(lines).rows) = Filled(Shorter(RowsIn(lines)))
    BY <1>1, CsvIsRead
  <2>3. Kept(file) = Shorter(RowsIn(lines))
    BY <1>3 DEF Kept, lines
  <2> QED BY <2>1, <2>2, <2>3, Zenon DEF ReadInFull
<1>4. CASE file.format = "csv in chunks"
  <2>1. Parsed(file) = ParseCsvChunked(lines)
    BY <1>4 DEF Parsed, OutOfPlace
  <2> HIDE DEF lines
  <2>2. ~ParseCsvChunked(lines).truncated =>
            Filled(ParseCsvChunked(lines).rows) = Filled(Bounded(RowsIn(lines)))
    BY <1>1, CsvInChunksIsRead
  <2>3. Kept(file) = Bounded(RowsIn(lines))
    BY <1>4 DEF Kept, lines
  <2> QED BY <2>1, <2>2, <2>3, Zenon DEF ReadInFull
<1>5. CASE file.format = "excel" /\ ~OutOfPlace(file)
  <2>1. Parsed(file) = ParseExcel(lines)
    BY <1>5 DEF Parsed
  <2> HIDE DEF lines
  <2>2. ~ParseExcel(lines).truncated => Filled(ParseExcel(lines).rows) = Filled(RowsIn(lines))
    BY <1>1, ExcelIsRead
  <2>3. Kept(file) = RowsIn(lines)
    BY <1>5 DEF Kept, lines
  <2> QED BY <2>1, <2>2, <2>3, Zenon DEF ReadInFull
<1>6. CASE file.format = "json" /\ \A i \in DOMAIN lines : lines[i].kind # "blank" /\ lines[i].kind # "malformed"
  <2>1. Parsed(file) = ParseJson(lines)
    BY <1>6 DEF Parsed, OutOfPlace
  <2> HIDE DEF lines
  <2>2. \A i \in DOMAIN lines : lines[i].kind = "row"
    BY <1>2, <1>6
  <2>3. ~ParseJson(lines).truncated => Filled(ParseJson(lines).rows) = Filled(RowsIn(lines))
    BY <1>1, <2>2, JsonIsRead
  <2>4. Kept(file) = RowsIn(lines)
    BY <1>6 DEF Kept, lines
  <2> QED BY <2>1, <2>3, <2>4, Zenon DEF ReadInFull
<1>7. CASE file.format = "json" /\ \E i \in DOMAIN lines : lines[i].kind = "malformed"
  BY <1>7 DEF ReadInFull, Malformed
<1>8. \/ file.format = "csv" \/ file.format = "csv in chunks" \/ file.format = "excel"
      \/ file.format = "excel in chunks" \/ file.format = "json"
  BY <1>1 DEF Formats
<1>9. OutOfPlace(file) => ReadInFull(file)
  BY DEF ReadInFull
<1> QED BY <1>3, <1>4, <1>5, <1>6, <1>7, <1>8, <1>9

\* Whatever the lines of the files: the limit of rows takes none without the mark upon which
\* the import is refused.  What is lost without it, and not claimed here: the end of long cells,
\* the columns after the first ones of a file in chunks (boundedRow), the sheets after the first
\* ones of a workbook, and rows of JSON that has malformed elements (parseCsv, parseCsvChunked,
\* parseExcel, parseJson).  parseExcelChunked is left out: it loses rows, as the run of
\* ImportWorkbook.cfg shows.
THEOREM RowsAreReadInFull ==
    ASSUME NoChunkedWorkbook
    PROVE  Spec => []RowsAreRead
<1>1. ImportInv => RowsAreRead
  <2> SUFFICES ASSUME ImportInv PROVE RowsAreRead
    OBVIOUS
  <2>1. CASE phase = "parsing"
    <3>1. DOMAIN sheets = {}
      BY <2>1 DEF ImportInv, SheetsInv
    <3> QED BY <3>1 DEF RowsAreRead
  <2>2. CASE phase # "parsing"
    <3>1. ASSUME NEW s \in DOMAIN sheets
          PROVE  ReadInFull(files[s]) /\ sheets[s] = Parsed(files[s])
      <4>1. files[s] \in FileTypes /\ sheets[s] = Parsed(files[s])
        BY <2>2, SheetTypes DEF ImportInv
      <4>2. s \in DOMAIN files /\ files \in Imports
        BY <2>2 DEF ImportInv, SheetsInv
      <4>3. files[s].format # "excel in chunks"
        BY <4>2 DEF NoChunkedWorkbook
      <4>4. files[s].format = "json" => \A i \in DOMAIN files[s].lines : files[s].lines[i].kind # "blank"
        BY <4>2, ImportAssumption
      <4> QED BY <4>1, <4>3, <4>4, EveryRowIsRead
    <3> QED BY <3>1 DEF RowsAreRead, ReadInFull
  <2> QED BY <2>1, <2>2
<1> QED BY <1>1, ImportInvariant, PTL

------------------------------------------------------------------------------
(* Issues: finitely many, listed in order                                  *)

\* The list of issues says when it is cut.
LEMMA LimitedList ==
    ASSUME NEW S, NEW all \in Seq(S)
    PROVE  /\ \A k \in DOMAIN Limited(all) : Limited(all)[k] \in S \/ Limited(all)[k].code = "TRUNCATED"
           /\ \A k \in 1..Len(all) : k <= MaxIssues => k \in DOMAIN Limited(all) /\ Limited(all)[k] = all[k]
           /\ Len(all) > MaxIssues => \E k \in DOMAIN Limited(all) : Limited(all)[k].code = "TRUNCATED"
           /\ Len(all) <= MaxIssues => Limited(all) = all
<1> DEFINE cut == Issue("TRUNCATED", "WARNING", 0, Blank, Blank)
           T == S \cup {cut}
           first == SubSeq(all, 1, MaxIssues)
<1>1. MaxIssues \in Nat /\ Len(all) \in Nat /\ cut.code = "TRUNCATED" /\ cut \in T
  BY SheetAssumption DEF Issue
<1>2. CASE Len(all) <= MaxIssues
  <2>1. Limited(all) = all
    BY <1>2 DEF Limited
  <2>2. ~(Len(all) > MaxIssues)
    BY <1>1, <1>2
  <2> QED BY <2>1, <2>2
<1>3. CASE ~(Len(all) <= MaxIssues)
  <2>1. Limited(all) = Append(first, cut) /\ MaxIssues \in 0..Len(all)
    BY <1>1, <1>3 DEF Limited
  <2>2. \A i \in 1..MaxIssues : i \in 1..Len(all) /\ all[i] \in S
    BY <2>1, <1>1
  <2>3. first \in Seq(S) /\ Len(first) = MaxIssues
    BY <2>1, FirstOnes
  <2>4. \A i \in 1..MaxIssues : first[i] = all[i]
    BY <1>1, <2>2, SubSeqProperties
  <2> HIDE DEF first, cut
  <2>5. first \in Seq(T)
    BY <2>3
  <2>6. /\ DOMAIN Limited(all) = 1..(MaxIssues + 1)
        /\ \A i \in 1..MaxIssues : Limited(all)[i] = all[i]
        /\ Limited(all)[MaxIssues + 1] = cut
    <3> HIDE DEF T
    <3> QED BY <1>1, <2>1, <2>3, <2>4, <2>5
  <2>7. \A k \in 1..(MaxIssues + 1) : k \in 1..MaxIssues \/ k = MaxIssues + 1
    BY <1>1
  <2>8. MaxIssues + 1 \in 1..(MaxIssues + 1) /\ \A k \in 1..Len(all) : k <= MaxIssues => k \in 1..MaxIssues
    BY <1>1
  <2>9. \A k \in 1..MaxIssues : k \in 1..(MaxIssues + 1)
    BY <1>1
  <2> QED BY <1>1, <1>3, <2>2, <2>6, <2>7, <2>8, <2>9
<1> QED BY <1>2, <1>3

------------------------------------------------------------------------------
\* What is checked is finite, or its issues could not be listed.
LEMMA CellsAreFinite ==
    ASSUME NEW rows \in Seq(Rows), NEW c
    PROVE  IsFiniteSet(Cells(rows, c)) /\ IsFiniteSet(DOMAIN rows)
<1> DEFINE f == [i \in DOMAIN rows |-> <<i, rows[i][c]>>]
           S == {f[i] : i \in DOMAIN rows}
<1>1. IsFiniteSet(DOMAIN rows)
  <2>1. DOMAIN rows = 1..Len(rows) /\ Len(rows) \in Nat
    OBVIOUS
  <2> QED BY <2>1, FS_Interval
<1>2. IsFiniteSet(S)
  <2> HIDE DEF f
  <2> QED BY <1>1, FiniteRange
<1>3. Cells(rows, c) \in SUBSET S
  BY DEF Cells
<1> HIDE DEF S
<1>4. IsFiniteSet(Cells(rows, c))
  BY <1>2, <1>3, FS_Subset
<1> QED BY <1>1, <1>4

LEMMA ColumnsAreFinite ==
    ASSUME NEW m \in Mappings, NEW S \in SUBSET Columns
    PROVE  DOMAIN m = Columns /\ IsFiniteSet(Columns) /\ IsFiniteSet(S) /\ IsFiniteSet(Used(m)) /\ Used(m) \subseteq Columns
<1>1. DOMAIN m = Columns
  BY DEF Mappings
<1>2. Used(m) \in SUBSET Columns
  BY <1>1 DEF Used
<1> QED BY <1>1, <1>2, ParserAssumption, FS_Subset

LEMMA DuplicateMappingsFinite ==
    ASSUME NEW m \in Mappings
    PROVE  IsFiniteSet(DuplicateMappings(m))
<1> DEFINE of(field) == {c \in DOMAIN m : ~m[c].ignored /\ m[c].field = field}
           f == [c \in Columns |-> m[c].field]
           A == {f[c] : c \in Columns}
           B == {x \in {m[c].field : c \in DOMAIN m} \ {"id", "ignored"} : Cardinality(of(x)) > 1}
           g == [x \in B |-> Issue("DUPLICATE_MAPPING", "WARNING", 0, x, Blank)]
           C == {g[x] : x \in B}
<1>1. DOMAIN m = Columns /\ IsFiniteSet(Columns)
  BY ColumnsAreFinite
<1>2. IsFiniteSet(A)
  <2> HIDE DEF f
  <2> QED BY <1>1, FiniteRange
<1>3. B \in SUBSET A
  BY <1>1
<1>4. IsFiniteSet(B)
  <2> HIDE DEF A, B
  <2> QED BY <1>2, <1>3, FS_Subset
<1>5. IsFiniteSet(C)
  <2> HIDE DEF B, g
  <2> QED BY <1>4, FiniteRange
<1>6. DuplicateMappings(m) = C
  BY DEF DuplicateMappings
<1> HIDE DEF C
<1> QED BY <1>5, <1>6

LEMMA PatternIssuesFinite ==
    ASSUME NEW rows \in Seq(Rows), NEW m \in Mappings
    PROVE  IsFiniteSet(PatternIssues(rows, m))
<1> DEFINE S == {d \in Used(m) : m[d].field \in Patterned}
           X(c) == {x \in Cells(rows, c) : ~Conforms(m[c].field, x[2])}
           g(c) == {Issue("INVALID", "WARNING", cell[1], m[c].field, cell[2]) : cell \in X(c)}
           f == [c \in S |-> g(c)]
<1>1. IsFiniteSet(S)
  <2>1. S \in SUBSET Used(m) /\ IsFiniteSet(Used(m))
    BY ColumnsAreFinite
  <2> HIDE DEF S
  <2> QED BY <2>1, FS_Subset
<1>2. ASSUME NEW c \in S PROVE IsFiniteSet(g(c))
  <2> DEFINE h == [cell \in X(c) |-> Issue("INVALID", "WARNING", cell[1], m[c].field, cell[2])]
  <2>1. IsFiniteSet(X(c))
    <3>1. X(c) \in SUBSET Cells(rows, c)
      OBVIOUS
    <3> HIDE DEF X
    <3> QED BY <3>1, CellsAreFinite, FS_Subset
  <2>2. IsFiniteSet({h[cell] : cell \in X(c)})
    <3> HIDE DEF X, h
    <3> QED BY <2>1, FiniteRange
  <2>3. g(c) = {h[cell] : cell \in X(c)}
    OBVIOUS
  <2> HIDE DEF g, h
  <2> QED BY <2>2, <2>3
<1>3. \A c \in S : IsFiniteSet(f[c])
  <2> HIDE DEF g, S
  <2> QED BY <1>2
<1>4. IsFiniteSet(UNION {f[c] : c \in S})
  <2> HIDE DEF f, S
  <2> QED BY <1>1, <1>3, FiniteUnion
<1>5. PatternIssues(rows, m) = UNION {f[c] : c \in S}
  <2>1. PatternIssues(rows, m) = UNION {g(c) : c \in S}
    BY DEF PatternIssues
  <2>2. {g(c) : c \in S} = {f[c] : c \in S}
    <3> HIDE DEF g, S
    <3> QED OBVIOUS
  <2> HIDE DEF f, g, S
  <2> QED BY <2>1, <2>2
<1> HIDE DEF f, S
<1> QED BY <1>4, <1>5

LEMMA RepeatedFinite ==
    ASSUME NEW rows \in Seq(Rows), NEW c
    PROVE  IsFiniteSet(Repeated(rows, c))
<1> DEFINE f == [x \in Cells(rows, c) |-> x[2]]
           T == {f[x] : x \in Cells(rows, c)}
<1>1. IsFiniteSet(T)
  <2> HIDE DEF f
  <2> QED BY CellsAreFinite, FiniteRange
<1>2. Repeated(rows, c) \in SUBSET T
  BY DEF Repeated
<1> HIDE DEF T
<1> QED BY <1>1, <1>2, FS_Subset

LEMMA DuplicateValuesFinite ==
    ASSUME NEW rows \in Seq(Rows), NEW m \in Mappings
    PROVE  IsFiniteSet(DuplicateValues(rows, m))
<1> DEFINE S == {d \in Used(m) : m[d].field \in Unique}
           g(c) == {Issue("DUP", "ERROR", Min(RowsWith(rows, c, v)), m[c].field, v) : v \in Repeated(rows, c)}
           f == [c \in S |-> g(c)]
<1>1. IsFiniteSet(S)
  <2>1. S \in SUBSET Used(m) /\ IsFiniteSet(Used(m))
    BY ColumnsAreFinite
  <2> HIDE DEF S
  <2> QED BY <2>1, FS_Subset
<1>2. ASSUME NEW c \in S PROVE IsFiniteSet(g(c))
  <2> DEFINE h == [v \in Repeated(rows, c) |-> Issue("DUP", "ERROR", Min(RowsWith(rows, c, v)), m[c].field, v)]
  <2>1. IsFiniteSet({h[v] : v \in Repeated(rows, c)})
    <3> HIDE DEF h
    <3> QED BY RepeatedFinite, FiniteRange
  <2>2. g(c) = {h[v] : v \in Repeated(rows, c)}
    OBVIOUS
  <2> HIDE DEF g, h
  <2> QED BY <2>1, <2>2
<1>3. \A c \in S : IsFiniteSet(f[c])
  <2> HIDE DEF g, S
  <2> QED BY <1>2
<1>4. IsFiniteSet(UNION {f[c] : c \in S})
  <2> HIDE DEF f, S
  <2> QED BY <1>1, <1>3, FiniteUnion
<1>5. DuplicateValues(rows, m) = UNION {f[c] : c \in S}
  BY DEF DuplicateValues
<1> HIDE DEF f, S
<1> QED BY <1>4, <1>5

LEMMA DuplicateRowsFinite ==
    ASSUME NEW rows \in Seq(Rows)
    PROVE  IsFiniteSet(DuplicateRows(rows))
<1> DEFINE S == {k \in DOMAIN rows : \E j \in DOMAIN rows \ {k} : rows[j] = rows[k]}
           f == [i \in S |-> Issue("DUP_ROW", "WARNING", Min({j \in DOMAIN rows : rows[j] = rows[i]}), Blank, Blank)]
<1>1. IsFiniteSet(S)
  <2>1. S \in SUBSET DOMAIN rows
    OBVIOUS
  <2> HIDE DEF S
  <2> QED BY <2>1, CellsAreFinite, FS_Subset
<1>2. IsFiniteSet({f[i] : i \in S})
  <2> HIDE DEF S, f
  <2> QED BY <1>1, FiniteRange
<1>3. DuplicateRows(rows) = {f[i] : i \in S}
  BY DEF DuplicateRows
<1> HIDE DEF S, f
<1> QED BY <1>2, <1>3

LEMMA UnresolvedFinite ==
    ASSUME NEW rows \in Seq(Rows), NEW m \in Mappings
    PROVE  IsFiniteSet(Unresolved(rows, m))
<1> DEFINE S == {d \in Used(m) : m[d].field \in References}
           V(c, cell) == Parts(cell[2]) \ Known(rows, m, m[c].field)
           e(c, cell) == {Issue("UNRESOLVED", "WARNING", cell[1], m[c].field, v) : v \in V(c, cell)}
           g(c) == UNION {e(c, cell) : cell \in Cells(rows, c)}
           f == [c \in S |-> g(c)]
<1>1. IsFiniteSet(S) /\ S \subseteq Columns
  <2>1. S \in SUBSET Used(m) /\ IsFiniteSet(Used(m)) /\ Used(m) \subseteq Columns
    BY ColumnsAreFinite
  <2> HIDE DEF S
  <2> QED BY <2>1, FS_Subset
<1>2. ASSUME NEW c \in S, NEW cell \in Cells(rows, c) PROVE IsFiniteSet(e(c, cell))
  <2> DEFINE h == [v \in V(c, cell) |-> Issue("UNRESOLVED", "WARNING", cell[1], m[c].field, v)]
  <2>1. cell[2] \in Texts
    <3>1. PICK i \in DOMAIN rows : cell = <<i, rows[i][c]>>
      BY DEF Cells
    <3>2. rows[i] \in Rows /\ c \in Columns
      BY <1>1
    <3> QED BY <3>1, <3>2 DEF Rows
  <2>2. IsFiniteSet(V(c, cell))
    <3>1. V(c, cell) \in SUBSET Parts(cell[2]) /\ IsFiniteSet(Parts(cell[2]))
      BY <2>1, TextAssumption
    <3> HIDE DEF V
    <3> QED BY <3>1, FS_Subset
  <2>3. IsFiniteSet({h[v] : v \in V(c, cell)})
    <3> HIDE DEF h, V
    <3> QED BY <2>2, FiniteRange
  <2>4. e(c, cell) = {h[v] : v \in V(c, cell)}
    OBVIOUS
  <2> HIDE DEF e, h, V
  <2> QED BY <2>3, <2>4
<1>3. ASSUME NEW c \in S PROVE IsFiniteSet(g(c))
  <2> DEFINE h == [cell \in Cells(rows, c) |-> e(c, cell)]
  <2>1. \A cell \in Cells(rows, c) : IsFiniteSet(h[cell])
    <3> HIDE DEF e
    <3> QED BY <1>2
  <2>2. IsFiniteSet(UNION {h[cell] : cell \in Cells(rows, c)})
    <3> HIDE DEF h
    <3> QED BY <2>1, CellsAreFinite, FiniteUnion
  <2>3. g(c) = UNION {h[cell] : cell \in Cells(rows, c)}
    <3> HIDE DEF e
    <3> QED OBVIOUS
  <2> HIDE DEF g, h
  <2> QED BY <2>2, <2>3
<1>4. \A c \in S : IsFiniteSet(f[c])
  <2> HIDE DEF g, S
  <2> QED BY <1>3
<1>5. IsFiniteSet(UNION {f[c] : c \in S})
  <2> HIDE DEF f, S
  <2> QED BY <1>1, <1>4, FiniteUnion
<1>6. Unresolved(rows, m) = UNION {f[c] : c \in S}
  <2>1. Unresolved(rows, m) = UNION {g(c) : c \in S}
    BY DEF Unresolved
  <2>2. {g(c) : c \in S} = {f[c] : c \in S}
    <3> HIDE DEF g, S
    <3> QED OBVIOUS
  <2> HIDE DEF f, g, S
  <2> QED BY <2>1, <2>2
<1> HIDE DEF f, S
<1> QED BY <1>5, <1>6

------------------------------------------------------------------------------
(* Columns and rows in the records                                         *)

\* The record of row i of sheet s.
LEMMA RecordOfRow ==
    ASSUME SheetsInv, phase = "correlating", NEW s \in DOMAIN sheets, NEW i \in DOMAIN sheets[s].rows
    PROVE  records[Offset(s) + i] = SheetRecords(s)[i] /\ Offset(s) + i \in DOMAIN records
<1> DEFINE ss == [t \in DOMAIN sheets |-> SheetRecords(t)]
           rr == [t \in 1..(s - 1) |-> sheets[t].rows]
           before == SubSeq(ss, 1, s - 1)
<1>1. /\ Len(files) \in Nat /\ DOMAIN sheets = 1..Len(files) /\ Len(sheets) = Len(files)
      /\ \A t \in DOMAIN sheets : sheets[t].rows \in Seq(Rows) /\ files[t].type \in STRING /\ mappings[t] \in Mappings
  BY SheetTypes
<1>2. ASSUME NEW t \in DOMAIN sheets
      PROVE  SheetRecords(t) \in Seq(Record) /\ Len(SheetRecords(t)) = Len(sheets[t].rows)
  <2>1. sheets[t].rows \in Seq(Rows) /\ files[t].type \in STRING /\ mappings[t] \in Mappings
    BY <1>1
  <2> QED BY <2>1, RecordsType DEF SheetRecords
<1>3. ss \in Seq(Seq(Record)) /\ Len(ss) = Len(files) /\ s \in 1..Len(ss) /\ ss[s] = SheetRecords(s)
  <2>1. ss \in Seq(Seq(Record)) /\ Len(ss) = Len(files)
    BY <1>1, <1>2
  <2> QED BY <1>1, <2>1
<1>4. i \in 1..Len(ss[s])
  BY <1>1, <1>2, <1>3
<1>5. s \in Nat /\ s - 1 \in 0..Len(files) /\ \A t \in 1..(s - 1) : t \in DOMAIN sheets
  BY <1>1
<1>6. rr \in Seq(Seq(Rows)) /\ Len(rr) = s - 1
  BY <1>1, <1>5
<1>7. before \in Seq(Seq(Record)) /\ Len(before) = s - 1
  <2> HIDE DEF ss
  <2> QED BY <1>3, <1>5, FirstOnes
<1>8. \A t \in 1..(s - 1) : Len(before[t]) = Len(rr[t])
  <2>1. \A t \in 1..(s - 1) : ss[t] \in Seq(Record) /\ ss[t] = SheetRecords(t)
    BY <1>2, <1>5
  <2>2. \A t \in 1..(s - 1) : before[t] = ss[t]
    <3> HIDE DEF ss
    <3> QED BY <1>3, <1>5, <2>1, SubSeqProperties
  <2>3. \A t \in 1..(s - 1) : Len(SheetRecords(t)) = Len(rr[t])
    BY <1>2, <1>5
  <2> QED BY <2>1, <2>2, <2>3
<1>9. Len(FlattenSeq(before)) = Offset(s)
  <2> HIDE DEF before, rr
  <2>1. Len(FlattenSeq(before)) = Len(FlattenSeq(rr))
    BY <1>6, <1>7, <1>8, FlattenLength
  <2> QED BY <2>1 DEF Offset, rr
<1>10. records = FlattenSeq(ss)
  BY DEF SheetsInv, SheetRecords
<1>11. LET b == Len(FlattenSeq(before))
       IN  b + i \in DOMAIN FlattenSeq(ss) /\ FlattenSeq(ss)[b + i] = ss[s][i]
  <2> HIDE DEF ss
  <2> QED BY <1>3, <1>4, FlattenPlace
<1> HIDE DEF ss, before
<1> QED BY <1>3, <1>9, <1>10, <1>11

------------------------------------------------------------------------------
\* A field of a normalised row comes from the only column that brings it.
LEMMA OneColumnBrings ==
    ASSUME NEW m \in Mappings, Marked(m), NEW c \in Bringing(m), NEW d \in Columns,
           ~m[d].ignored, m[d].field = m[c].field
    PROVE  d = c
  BY DEF Bringing, Used, Marked, Mappings

LEMMA NormalisedFields ==
    ASSUME NEW m \in Mappings, Marked(m), NEW row
    PROVE  /\ DOMAIN Normalised(row, m) = {m[c].field : c \in Bringing(m)}
           /\ \A c \in Bringing(m) : Normalised(row, m)[m[c].field] = NormalText(m[c].field, row[c])
<1> DEFINE used == Bringing(m)
           from(f) == CHOOSE c \in used : m[c].field = f
           fields == [f \in {m[c].field : c \in used} |-> NormalText(f, row[from(f)])]
<1>1. Normalised(row, m) = fields
  BY DEF Normalised, Bringing
<1>2. ASSUME NEW c \in used PROVE from(m[c].field) = c
  <2>1. from(m[c].field) \in used /\ m[from(m[c].field)].field = m[c].field
    OBVIOUS
  <2>2. \A d \in used : d \in Columns /\ ~m[d].ignored
    BY DEF Bringing, Used, Mappings
  <2> HIDE DEF from
  <2> QED BY <2>1, <2>2, OneColumnBrings
<1> HIDE DEF from
<1> QED BY <1>1, <1>2

LEMMA RecordParts ==
    ASSUME NEW fields, NEW source, NEW type, NEW valid \in BOOLEAN
    PROVE  LET record == [fields |-> fields, source |-> source, type |-> type, valid |-> valid]
           IN  record.fields = fields /\ record.valid = valid
  OBVIOUS

\* The fields of the record of a row.
LEMMA RecordFields ==
    ASSUME SheetsInv, phase = "correlating", NEW s \in DOMAIN sheets, NEW i \in DOMAIN sheets[s].rows
    PROVE  LET m == mappings[s]
               record == records[Offset(s) + i]
           IN  /\ DOMAIN record.fields = {m[c].field : c \in Bringing(m)}
               /\ \A c \in Bringing(m) :
                      Field(record, m[c].field) = NormalText(m[c].field, sheets[s].rows[i][c])
               /\ record.valid <=> i \notin InvalidRows(issues[s])
<1> DEFINE m == mappings[s]
           record == records[Offset(s) + i]
           row == sheets[s].rows[i]
<1>1. record = SheetRecords(s)[i]
  BY RecordOfRow
<1>2. m \in Mappings /\ Marked(m)
  BY SheetTypes
<1>3. SheetRecords(s)[i] = [fields |-> Normalised(row, m), source |-> SourceOf(Normalised(row, m)),
                            type |-> files[s].type, valid |-> i \notin InvalidRows(issues[s])]
  BY DEF SheetRecords, RecordsOf
<1>4. (i \notin InvalidRows(issues[s])) \in BOOLEAN
  OBVIOUS
<1> HIDE DEF m, record, row
<1>5. record.fields = Normalised(row, m) /\ record.valid = (i \notin InvalidRows(issues[s]))
  BY <1>1, <1>3, <1>4, RecordParts
<1>7. record.fields = Normalised(row, m)
  BY <1>5
<1>6. /\ DOMAIN record.fields = {m[c].field : c \in Bringing(m)}
      /\ \A c \in Bringing(m) : record.fields[m[c].field] = NormalText(m[c].field, row[c])
  BY <1>2, <1>7, NormalisedFields
<1> QED BY <1>5, <1>6 DEF Field, m, record, row

------------------------------------------------------------------------------
\* The issues of a sheet: which are there, and which are not cut off.
LEMMA ListedIssues ==
    ASSUME NEW rows \in Seq(Rows), NEW m \in Mappings
    PROVE  LET list == Validated(rows, m)
           IN /\ \A k \in DOMAIN list : list[k].code = "DUPLICATE_MAPPING" => list[k] \in DuplicateMappings(m)
              /\ Cardinality(DuplicateMappings(m)) <= MaxIssues =>
                     \A x \in DuplicateMappings(m) : \E k \in DOMAIN list : list[k] = x
              /\ \A x \in DuplicateValues(rows, m) :
                     \/ \E k \in DOMAIN list : list[k] = x
                     \/ \E k \in DOMAIN list : list[k].code = "TRUNCATED"
<1> DEFINE A == DuplicateMappings(m)
           B == PatternIssues(rows, m)
           C == DuplicateValues(rows, m)
           D == DuplicateRows(rows)
           E == Unresolved(rows, m)
           S == A \cup B \cup C \cup D \cup E
           ab == SetToSeq(A) \o SetToSeq(B)
           abc == ab \o SetToSeq(C)
           abcd == abc \o SetToSeq(D)
           all == abcd \o SetToSeq(E)
           list == Validated(rows, m)
<1>1. \A x \in S : x.code = "DUPLICATE_MAPPING" => x \in A
  <2>1. \A x \in B : x.code = "INVALID"
    BY DEF PatternIssues, Issue
  <2>2. \A x \in C : x.code = "DUP"
    BY DEF DuplicateValues, Issue
  <2>3. ASSUME NEW x \in D PROVE x.code = "DUP_ROW"
    <3>1. PICK n : x = Issue("DUP_ROW", "WARNING", n, Blank, Blank)
      BY DEF DuplicateRows
    <3> QED BY <3>1 DEF Issue
  <2>4. \A x \in E : x.code = "UNRESOLVED"
    BY DEF Unresolved, Issue
  <2> HIDE DEF A, B, C, D, E
  <2> QED BY <2>1, <2>2, <2>3, <2>4
<1>2. IsFiniteSet(A) /\ IsFiniteSet(B) /\ IsFiniteSet(C) /\ IsFiniteSet(D) /\ IsFiniteSet(E)
  BY DuplicateMappingsFinite, PatternIssuesFinite, DuplicateValuesFinite, DuplicateRowsFinite, UnresolvedFinite
<1>3. list = Limited(all)
  BY DEF Validated
<1> HIDE DEF A, B, C, D, E, list
<1>4. /\ SetToSeq(A) \in Seq(S) /\ SetToSeq(B) \in Seq(S) /\ SetToSeq(C) \in Seq(S)
      /\ SetToSeq(D) \in Seq(S) /\ SetToSeq(E) \in Seq(S)
  <2>1. /\ SetToSeq(A) \in Seq(A) /\ SetToSeq(B) \in Seq(B) /\ SetToSeq(C) \in Seq(C)
        /\ SetToSeq(D) \in Seq(D) /\ SetToSeq(E) \in Seq(E)
    BY <1>2, ListOfSet
  <2>2. A \subseteq S /\ B \subseteq S /\ C \subseteq S /\ D \subseteq S /\ E \subseteq S
    OBVIOUS
  <2> HIDE DEF S
  <2> QED BY <2>1, <2>2
<1> HIDE DEF S
<1>5. ab \in Seq(S) /\ abc \in Seq(S) /\ abcd \in Seq(S) /\ all \in Seq(S)
  BY <1>4, ConcatProperties
<1>6. ASSUME NEW k \in DOMAIN list, list[k].code = "DUPLICATE_MAPPING" PROVE list[k] \in A
  <2>1. list[k] \in S
    <3> HIDE DEF all
    <3> QED BY <1>3, <1>5, <1>6, LimitedList
  <2> QED BY <1>1, <1>6, <2>1
<1>7. ASSUME Cardinality(A) <= MaxIssues, NEW x \in A PROVE \E k \in DOMAIN list : list[k] = x
  <2> DEFINE a == SetToSeq(A)
  <2>1. PICK k \in 1..Len(a) : a[k] = x /\ Len(a) = Cardinality(A) /\ Len(a) \in Nat
    BY <1>2, ListOfSet
  <2>2. a \in Seq(S) /\ SetToSeq(B) \in Seq(S) /\ SetToSeq(C) \in Seq(S) /\ SetToSeq(D) \in Seq(S) /\ SetToSeq(E) \in Seq(S)
    BY <1>4
  <2>3. k \in 1..Len(ab) /\ ab[k] = x
    <3> HIDE DEF a
    <3> QED BY <2>1, <2>2, ConcatPlaces DEF a
  <2>4. k \in 1..Len(abc) /\ abc[k] = x
    <3> HIDE DEF ab
    <3> QED BY <1>5, <2>2, <2>3, ConcatPlaces
  <2>5. k \in 1..Len(abcd) /\ abcd[k] = x
    <3> HIDE DEF abc
    <3> QED BY <1>5, <2>2, <2>4, ConcatPlaces
  <2>6. k \in 1..Len(all) /\ all[k] = x
    <3> HIDE DEF abcd
    <3> QED BY <1>5, <2>2, <2>5, ConcatPlaces
  <2>7. k <= MaxIssues
    <3> HIDE DEF a
    <3> QED BY <1>7, <2>1, SheetAssumption
  <2> HIDE DEF all
  <2> QED BY <1>3, <1>5, <2>6, <2>7, LimitedList
<1>8. ASSUME NEW x \in C
      PROVE  (\E k \in DOMAIN list : list[k] = x) \/ \E k \in DOMAIN list : list[k].code = "TRUNCATED"
  <2> DEFINE c == SetToSeq(C)
  <2>1. c \in Seq(S) /\ SetToSeq(D) \in Seq(S) /\ SetToSeq(E) \in Seq(S)
    BY <1>4
  <2>2. \E k \in 1..Len(c) : c[k] = x
    BY <1>2, ListOfSet
  <2>3. \E k \in 1..Len(abc) : abc[k] = x
    <3> HIDE DEF ab, c
    <3>1. ab \in Seq(S) /\ c \in Seq(S)
      BY <1>5, <2>1
    <3>2. \E k \in 1..Len(ab \o c) : (ab \o c)[k] = x
      <4>1. PICK k \in 1..Len(c) : c[k] = x
        BY <2>2
      <4>2. \A p \in 1..Len(c) : Len(ab) + p \in 1..Len(ab \o c) /\ (ab \o c)[Len(ab) + p] = c[p]
        BY <3>1, ConcatPlaces
      <4>3. Len(ab) + k \in 1..Len(ab \o c) /\ (ab \o c)[Len(ab) + k] = x
        BY <4>1, <4>2, Zenon
      <4> QED BY <4>3
    <3> QED BY <3>2 DEF c
  <2>4. \E k \in 1..Len(abcd) : abcd[k] = x
    <3> HIDE DEF abc
    <3> QED BY <1>5, <2>1, <2>3, ConcatKeeps
  <2>5. \E k \in 1..Len(all) : all[k] = x
    <3> HIDE DEF abcd
    <3> QED BY <1>5, <2>1, <2>4, ConcatKeeps
  <2>6. DOMAIN all = 1..Len(all) /\ Len(all) \in Nat
    <3> HIDE DEF all
    <3> QED BY <1>5
  <2>7. Len(all) > MaxIssues \/ Len(all) <= MaxIssues
    BY <2>6, SheetAssumption
  <2> HIDE DEF all
  <2>8. CASE Len(all) > MaxIssues
    BY <1>3, <1>5, <2>8, LimitedList
  <2>9. CASE Len(all) <= MaxIssues
    <3>1. list = all
      BY <1>3, <1>5, <2>9, LimitedList
    <3> QED BY <2>5, <2>6, <3>1
  <2> QED BY <2>7, <2>8, <2>9
<1> QED BY <1>6, <1>7, <1>8 DEF list, A, C

Claimants(m, field) == {c \in DOMAIN m : ~m[c].ignored /\ m[c].field = field}
MappingIssue(field) == Issue("DUPLICATE_MAPPING", "WARNING", 0, field, Blank)

LEMMA ReportedFields ==
    ASSUME NEW m \in Mappings
    PROVE  /\ \A x \in DuplicateMappings(m) : Cardinality(Claimants(m, x.field)) > 1
           /\ \A c \in Columns : m[c].field \notin {"id", "ignored"} /\ Cardinality(Claimants(m, m[c].field)) > 1
                  => MappingIssue(m[c].field) \in DuplicateMappings(m)
<1>1. DOMAIN m = Columns
  BY DEF Mappings
<1>2. DuplicateMappings(m) = {MappingIssue(field) :
          field \in {f \in {m[c].field : c \in DOMAIN m} \ {"id", "ignored"} : Cardinality(Claimants(m, f)) > 1}}
  BY DEF DuplicateMappings, MappingIssue, Claimants
<1>3. \A f : MappingIssue(f).field = f
  BY DEF MappingIssue, Issue
<1> QED BY <1>1, <1>2, <1>3

\* The issues that list the columns of one field are not cut off.
EveryDuplicateListed == \A s \in DOMAIN mappings : Cardinality(DuplicateMappings(mappings[s])) <= MaxIssues

LEMMA ColumnOfImport ==
    ASSUME ImportInv, EveryDuplicateListed, phase = "correlating", NEW s \in DOMAIN sheets, NEW c \in Columns,
           ~mappings[s][c].ignored, mappings[s][c].field \notin {"id", "externalId", "ignored"}
    PROVE  LET m == mappings[s][c]
               reported == \E k \in DOMAIN issues[s] :
                               issues[s][k].code = "DUPLICATE_MAPPING" /\ issues[s][k].field = m.field
           IN \/ /\ ~reported
                 /\ \A i \in DOMAIN sheets[s].rows :
                        Field(records[Offset(s) + i], m.field) = NormalText(m.field, sheets[s].rows[i][c])
              \/ /\ reported \/ s \notin validated
                 /\ \A i \in DOMAIN sheets[s].rows : m.field \notin DOMAIN records[Offset(s) + i].fields
<1> DEFINE mm == mappings[s]
           rows == sheets[s].rows
           f == mm[c].field
           list == issues[s]
           reported == \E k \in DOMAIN list : list[k].code = "DUPLICATE_MAPPING" /\ list[k].field = f
<1>1. mm \in Mappings /\ Marked(mm) /\ rows \in Seq(Rows) /\ DOMAIN mm = Columns /\ s \in DOMAIN mappings
  BY SheetTypes DEF ImportInv, SheetsInv, Mappings
<1>2. list = IF s \in validated THEN Validated(rows, mm) ELSE <<>>
  BY DEF ImportInv, SheetsInv
<1>3. /\ \A k \in DOMAIN list : list[k].code = "DUPLICATE_MAPPING" => list[k] \in DuplicateMappings(mm)
      /\ s \in validated => \A x \in DuplicateMappings(mm) : \E k \in DOMAIN list : list[k] = x
  <2>1. Cardinality(DuplicateMappings(mm)) <= MaxIssues
    BY <1>1 DEF EveryDuplicateListed
  <2> HIDE DEF mm, rows, list
  <2>2. CASE s \in validated
    BY <1>1, <1>2, <2>1, <2>2, ListedIssues
  <2>3. CASE s \notin validated
    BY <1>2, <2>3
  <2> QED BY <2>2, <2>3
<1>4. ASSUME NEW i \in DOMAIN rows
      PROVE  /\ DOMAIN records[Offset(s) + i].fields = {mm[d].field : d \in Bringing(mm)}
             /\ \A d \in Bringing(mm) : Field(records[Offset(s) + i], mm[d].field) = NormalText(mm[d].field, rows[i][d])
  BY RecordFields DEF ImportInv
<1>5. ~mm[c].ignored /\ f \notin {"id", "externalId", "ignored"}
  OBVIOUS
<1>6. \A x : MappingIssue(x).code = "DUPLICATE_MAPPING" /\ MappingIssue(x).field = x
  BY DEF MappingIssue, Issue
<1>7. IsFiniteSet(Claimants(mm, f))
  <2>1. Claimants(mm, f) \in SUBSET Columns
    BY <1>1 DEF Claimants
  <2> HIDE DEF mm, f
  <2> QED BY <1>1, <2>1, ColumnsAreFinite
<1> HIDE DEF mm, rows, list
<1>8. CASE mm[c].duplicate
  <2>1. PICK d \in Columns \ {c} : ~mm[d].ignored /\ mm[d].field = f
    BY <1>1, <1>8 DEF Marked
  <2>2. c \in Claimants(mm, f) /\ d \in Claimants(mm, f) /\ c # d
    BY <1>1, <1>5, <2>1 DEF Claimants
  <2>3. Cardinality(Claimants(mm, f)) > 1
    BY <1>7, <2>2, TwoMembers
  <2>4. MappingIssue(f) \in DuplicateMappings(mm)
    BY <1>1, <1>5, <2>3, ReportedFields
  <2>5. ASSUME s \in validated PROVE reported
    <3> HIDE DEF f
    <3>1. PICK k \in DOMAIN list : list[k] = MappingIssue(f)
      BY <1>3, <2>4, <2>5
    <3> QED BY <1>6, <3>1
  <2>6. ASSUME NEW i \in DOMAIN rows, f \in DOMAIN records[Offset(s) + i].fields PROVE FALSE
    <3>1. PICK b \in Bringing(mm) : mm[b].field = f
      BY <1>4, <2>6
    <3>2. c = b
      BY <1>1, <1>5, <3>1, OneColumnBrings
    <3> QED BY <1>8, <3>2 DEF Bringing, Used
  <2> QED BY <2>5, <2>6 DEF mm, list, rows
<1>9. CASE ~mm[c].duplicate
  <2>1. c \in Bringing(mm)
    BY <1>1, <1>5, <1>9 DEF Bringing, Used
  <2>2. ASSUME reported PROVE FALSE
    <3>1. PICK k \in DOMAIN list : list[k] \in DuplicateMappings(mm) /\ list[k].field = f
      BY <1>3, <2>2
    <3>2. Cardinality(Claimants(mm, f)) > 1
      BY <1>1, <3>1, ReportedFields
    <3>3. Claimants(mm, f) = {c}
      <4>1. c \in Claimants(mm, f)
        BY <1>1, <1>5 DEF Claimants
      <4>2. ASSUME NEW d \in Claimants(mm, f) PROVE d = c
        <5>1. d \in Columns /\ ~mm[d].ignored /\ mm[d].field = mm[c].field
          BY <1>1 DEF Claimants
        <5> QED BY <1>1, <2>1, <5>1, OneColumnBrings
      <4> HIDE DEF f
      <4> QED BY <4>1, <4>2
    <3>4. Cardinality({c}) = 1
      BY FS_Singleton
    <3> HIDE DEF f
    <3> QED BY <3>2, <3>3, <3>4
  <2>3. \A i \in DOMAIN rows : Field(records[Offset(s) + i], f) = NormalText(f, rows[i][c])
    BY <1>4, <2>1
  <2> QED BY <2>2, <2>3 DEF mm, list, rows
<1> QED BY <1>8, <1>9

\* Whatever the columns, the rows, the changes of their mapping and the sheets that are validated:
\* a column brings its cells into the records, as the only one of its field, or no column does,
\* which is reported if the sheet is validated with its last mapping (MappingService.applyMappings,
\* validateDuplicateMappings, generateNormalizedPreview) and the reports of duplicates are not more
\* than the list of issues takes.  Of a sheet that is not validated nothing is reported.
THEOREM ColumnsReachTheRecords == Spec => [](EveryDuplicateListed => ColumnsReachRecords)
<1>1. ImportInv => (EveryDuplicateListed => ColumnsReachRecords)
  <2> SUFFICES ASSUME ImportInv, EveryDuplicateListed, phase = "correlating",
                      NEW s \in DOMAIN sheets, NEW c \in Columns,
                      ~mappings[s][c].ignored, mappings[s][c].field \notin {"id", "externalId", "ignored"}
               PROVE  LET m == mappings[s][c]
                          reported == \E k \in DOMAIN issues[s] :
                                          issues[s][k].code = "DUPLICATE_MAPPING" /\ issues[s][k].field = m.field
                      IN \/ /\ ~reported
                            /\ \A i \in DOMAIN sheets[s].rows :
                                   Field(records[Offset(s) + i], m.field) = NormalText(m.field, sheets[s].rows[i][c])
                         \/ /\ reported \/ s \notin validated
                            /\ \A i \in DOMAIN sheets[s].rows : m.field \notin DOMAIN records[Offset(s) + i].fields
    BY DEF ColumnsReachRecords
  <2> QED BY ColumnOfImport
<1> QED BY <1>1, ImportInvariant, PTL

\* There are no more such issues than columns.
LEMMA FewDuplicates ==
    ASSUME NEW m \in Mappings
    PROVE  Cardinality(DuplicateMappings(m)) <= Cardinality(Columns) /\ Cardinality(DuplicateMappings(m)) \in Nat
<1> DEFINE f == [c \in Columns |-> MappingIssue(m[c].field)]
           T == {f[c] : c \in Columns}
<1>1. DOMAIN m = Columns /\ IsFiniteSet(Columns)
  BY ColumnsAreFinite
<1>2. DuplicateMappings(m) \in SUBSET T
  BY <1>1 DEF DuplicateMappings, MappingIssue
<1>3. f \in Surjection(Columns, T)
  BY DEF Surjection
<1> HIDE DEF f, T
<1>4. IsFiniteSet(T) /\ Cardinality(T) <= Cardinality(Columns)
  BY <1>1, <1>3, FS_Surjection
<1>5. IsFiniteSet(DuplicateMappings(m)) /\ Cardinality(DuplicateMappings(m)) <= Cardinality(T)
  BY <1>2, <1>4, FS_Subset
<1>6. Cardinality(T) \in Nat /\ Cardinality(Columns) \in Nat /\ Cardinality(DuplicateMappings(m)) \in Nat
  BY <1>1, <1>4, <1>5, FS_CardinalityType
<1> QED BY <1>4, <1>5, <1>6

\* The condition of ColumnsReachTheRecords always holds when a sheet has no more columns than
\* issues are listed of it (maxValidationIssues, 10000 by default): no report is cut off.
THEOREM ColumnsReachWhenFew ==
    ASSUME Cardinality(Columns) <= MaxIssues
    PROVE  Spec => []ColumnsReachRecords
<1>1. ImportInv => ColumnsReachRecords
  <2> SUFFICES ASSUME ImportInv, phase = "correlating" PROVE ColumnsReachRecords
    BY DEF ColumnsReachRecords
  <2>1. \A s \in DOMAIN mappings : mappings[s] \in Mappings
    BY DEF ImportInv, SheetsInv
  <2>2. Cardinality(Columns) \in Nat /\ MaxIssues \in Nat
    BY ParserAssumption, SheetAssumption, FS_CardinalityType
  <2>3. EveryDuplicateListed
    <3> SUFFICES ASSUME NEW s \in DOMAIN mappings PROVE Cardinality(DuplicateMappings(mappings[s])) <= MaxIssues
      BY DEF EveryDuplicateListed
    <3>1. /\ Cardinality(DuplicateMappings(mappings[s])) <= Cardinality(Columns)
          /\ Cardinality(DuplicateMappings(mappings[s])) \in Nat
      BY <2>1, FewDuplicates
    <3> QED BY <2>2, <3>1
  <2> QED BY <2>3, ColumnOfImport DEF ColumnsReachRecords
<1> QED BY <1>1, ImportInvariant, PTL

------------------------------------------------------------------------------
LEMMA RowsOfValue ==
    ASSUME NEW rows \in Seq(Rows), NEW c, NEW v
    PROVE  /\ IsFiniteSet(RowsWith(rows, c, v))
           /\ RowsWith(rows, c, v) # {} => Min(RowsWith(rows, c, v)) \in RowsWith(rows, c, v)
<1> DEFINE S == RowsWith(rows, c, v)
<1>1. S \in SUBSET DOMAIN rows /\ S \in SUBSET Nat
  BY DEF RowsWith
<1>2. IsFiniteSet(S)
  <2> HIDE DEF S
  <2> QED BY <1>1, CellsAreFinite, FS_Subset
<1> HIDE DEF S
<1>3. ASSUME S # {} PROVE Min(S) \in S
  <2>1. \E n \in S : \A m \in S : n <= m
    BY <1>1, <1>3, LeastNatural
  <2> QED BY <2>1 DEF Min
<1> QED BY <1>2, <1>3 DEF S

\* A value that two rows have in a column of a unique field is an issue at one of them.
LEMMA RepeatedIsIssue ==
    ASSUME NEW rows \in Seq(Rows), NEW m, NEW c \in Used(m), m[c].field \in Unique,
           NEW i \in DOMAIN rows, NEW j \in DOMAIN rows, i # j,
           rows[i][c] # Blank, rows[j][c] = rows[i][c]
    PROVE  \E n \in DOMAIN rows :
               /\ rows[n][c] = rows[i][c]
               /\ Issue("DUP", "ERROR", n, m[c].field, rows[i][c]) \in DuplicateValues(rows, m)
<1> DEFINE v == rows[i][c]
           S == RowsWith(rows, c, v)
<1>1. i \in S /\ j \in S
  BY DEF RowsWith
<1>2. IsFiniteSet(S) /\ Min(S) \in S
  <2> HIDE DEF v
  <2> QED BY <1>1, RowsOfValue
<1>3. Cardinality(S) > 1
  <2> HIDE DEF S
  <2> QED BY <1>1, <1>2, TwoMembers
<1>4. <<i, v>> \in Cells(rows, c)
  <2>1. \A k : <<i, v>> # <<k, Blank>>
    OBVIOUS
  <2> QED BY <2>1 DEF Cells
<1>5. v \in Repeated(rows, c)
  <2>1. v \in {x[2] : x \in Cells(rows, c)}
    <3>1. <<i, v>>[2] = v
      OBVIOUS
    <3> HIDE DEF v
    <3> QED BY <1>4, <3>1
  <2> QED BY <1>3, <2>1 DEF Repeated
<1>6. Issue("DUP", "ERROR", Min(S), m[c].field, v) \in DuplicateValues(rows, m)
  BY <1>5 DEF DuplicateValues
<1>7. Min(S) \in DOMAIN rows /\ rows[Min(S)][c] = v
  BY <1>2 DEF RowsWith
<1> HIDE DEF S, v
<1> QED BY <1>6, <1>7 DEF v

LEMMA DuplicateOfImport ==
    ASSUME ImportInv, phase = "correlating", NEW s \in validated, NEW f \in Unique,
           NEW i \in DOMAIN sheets[s].rows, NEW j \in DOMAIN sheets[s].rows, i # j,
           Field(records[Offset(s) + i], f) # Blank,
           Field(records[Offset(s) + i], f) = Field(records[Offset(s) + j], f)
    PROVE  \/ \E n \in DOMAIN sheets[s].rows :
                  /\ ~records[Offset(s) + n].valid
                  /\ Field(records[Offset(s) + n], f) = Field(records[Offset(s) + i], f)
           \/ \E k \in DOMAIN issues[s] : issues[s][k].code = "TRUNCATED"
<1> DEFINE m == mappings[s]
           rows == sheets[s].rows
           list == issues[s]
           of(n) == records[Offset(s) + n]
<1>0. s \in DOMAIN sheets
  BY DEF ImportInv, SheetsInv
<1>1. m \in Mappings /\ Marked(m) /\ rows \in Seq(Rows)
  BY <1>0, SheetTypes DEF ImportInv
<1>2. list = Validated(rows, m)
  BY <1>0 DEF ImportInv, SheetsInv
<1>3. \A n \in DOMAIN rows :
          /\ DOMAIN of(n).fields = {m[c].field : c \in Bringing(m)}
          /\ \A c \in Bringing(m) : Field(of(n), m[c].field) = NormalText(m[c].field, rows[n][c])
          /\ of(n).valid <=> n \notin InvalidRows(list)
  BY <1>0, RecordFields DEF ImportInv
<1>4. Field(of(i), f) # Blank /\ Field(of(i), f) = Field(of(j), f)
  OBVIOUS
<1> HIDE DEF m, rows, list, of
<1>5. i \in DOMAIN rows /\ j \in DOMAIN rows
  BY DEF rows
<1>6. PICK c \in Bringing(m) : m[c].field = f
  <2>1. f \in DOMAIN of(i).fields
    BY <1>4 DEF Field
  <2> QED BY <1>3, <1>5, <2>1
<1>7. \A n \in DOMAIN rows : Field(of(n), f) = rows[n][c]
  <2>1. \A v : NormalText(f, v) = v
    BY DEF NormalText, Unique
  <2> QED BY <1>3, <1>6, <2>1
<1>8. PICK n \in DOMAIN rows :
          /\ rows[n][c] = rows[i][c]
          /\ Issue("DUP", "ERROR", n, f, rows[i][c]) \in DuplicateValues(rows, m)
  <2>1. c \in Used(m) /\ m[c].field \in Unique
    BY <1>6 DEF Bringing
  <2>2. rows[i][c] # Blank /\ rows[j][c] = rows[i][c]
    BY <1>4, <1>5, <1>7
  <2> QED BY <1>1, <1>5, <1>6, <2>1, <2>2, RepeatedIsIssue
<1> DEFINE x == Issue("DUP", "ERROR", n, f, rows[i][c])
<1>9. (\E k \in DOMAIN list : list[k] = x) \/ \E k \in DOMAIN list : list[k].code = "TRUNCATED"
  <2> HIDE DEF x
  <2>1. x \in DuplicateValues(rows, m)
    BY <1>8 DEF x
  <2> QED BY <1>1, <1>2, <2>1, ListedIssues
<1>10. x.severity = "ERROR" /\ x.row = n
  BY DEF Issue
<1> HIDE DEF x
<1>11. CASE \E k \in DOMAIN list : list[k] = x
  <2>1. n \in InvalidRows(list)
    BY <1>10, <1>11 DEF InvalidRows
  <2>2. ~of(n).valid
    BY <1>3, <2>1
  <2>3. Field(of(n), f) = Field(of(i), f)
    BY <1>5, <1>7, <1>8
  <2> QED BY <2>2, <2>3 DEF rows, of
<1>12. CASE \E k \in DOMAIN list : list[k].code = "TRUNCATED"
  BY <1>12 DEF list
<1> QED BY <1>9, <1>11, <1>12

\* Whatever the rows and the limit of issues: rows of a sheet that is validated with its last
\* mapping and that share a GUID, a SID or an employee number have a record that is not valid (detectDuplicateValues, and the INVALID of
\* buildCorrelationRecords), unless the list of issues says that it is cut off.
THEOREM DuplicatesAreInvalid == Spec => []DuplicatesAreMarked
<1>1. ImportInv => DuplicatesAreMarked
  BY DuplicateOfImport DEF DuplicatesAreMarked
<1> QED BY <1>1, ImportInvariant, PTL
==============================================================================
