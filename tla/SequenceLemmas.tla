--------------------------- MODULE SequenceLemmas ---------------------------
(***************************************************************************)
(* Facts about numbers and sequences that the proofs about several modules *)
(* rest on; among them induction, for one set of numbers at a time, and    *)
(* what the recursive FlattenSeq of SequencesExt gives.                    *)
(***************************************************************************)
EXTENDS Integers, Sequences, SequencesExt, SequenceTheorems, WellFoundedInduction, TLAPS

(* A set of numbers that is not empty has a least element. *)
LEMMA LeastNumber ==
    ASSUME NEW T, T \subseteq Nat, T # {}
    PROVE  \E x \in T : \A y \in T : x <= y
<1> DEFINE R == {ss \in Nat \X Nat : ss[1] < ss[2]}
<1>1. IsWellFoundedOn(R, Nat)
    BY NatLessThanWellFounded DEF OpToRel
<1>2. ASSUME NEW x \in Nat, NEW y \in Nat, y < x PROVE <<y, x>> \in R
    BY <1>2
<1> HIDE DEF R
<1>3. PICK x \in T : \A y \in T : ~ (<<y, x>> \in R)
    BY <1>1, WFMin
<1>4. ASSUME NEW y \in T PROVE x <= y
  <2>1. x \in Nat /\ y \in Nat /\ (y < x => <<y, x>> \in R)
      BY <1>2
  <2>2. ~ (<<y, x>> \in R)
      BY <1>3
  <2> QED
      BY <2>1, <2>2
<1> QED
    BY <1>4

(* Induction: what is in T whenever all before it are, all is. *)
LEMMA Upwards ==
    ASSUME NEW n \in Nat, NEW T,
           \A m \in 1..n : (\A k \in 1..m-1 : k \in T) => m \in T
    PROVE  \A m \in 1..n : m \in T
<1> DEFINE others == {m \in 1..n : m \notin T}
<1> SUFFICES ASSUME others # {} PROVE FALSE
    OBVIOUS
<1>0. others \subseteq Nat /\ \A m \in 1..n : m \notin T <=> m \in others
    OBVIOUS
<1>1. PICK x \in others : \A y \in others : x <= y
  <2> HIDE DEF others
  <2> QED
      BY <1>0, LeastNumber
<1>2. \A k \in 1..x-1 : k \in T
    BY <1>1
<1> QED
    BY <1>1, <1>2

(* FlattenSeq is the last value of any function that puts the sequences *)
(* together one by one.                                                 *)
LEMMA Flattened ==
    ASSUME NEW seqs, NEW n \in Nat \ {0}, Len(seqs) = n, NEW g,
           \A i \in 1..n : g[i] = IF i = 1 THEN seqs[i] ELSE g[i-1] \o seqs[i]
    PROVE  FlattenSeq(seqs) = g[n]
<1> DEFINE E(f) == [i \in 1..Len(seqs) |-> IF i = 1 THEN seqs[i] ELSE f[i-1] \o seqs[i]]
           h == CHOOSE f : f = E(f)
           e == [i \in 1..n |-> g[i]]
           T == {i \in 1..n : h[i] = g[i]}
<1>1. FlattenSeq(seqs) = h[n]
    BY DEF FlattenSeq
<1>2. h = E(h)
  <2>1. e = E(e)
    <3>1. \A i \in 1..n : i # 1 => i - 1 \in 1..n
        OBVIOUS
    <3> QED
        BY <3>1
  <2> QED
      BY <2>1
<1> HIDE DEF h, e
<1>3. \A i \in 1..n : h[i] = IF i = 1 THEN seqs[i] ELSE h[i-1] \o seqs[i]
    BY <1>2
<1>4. ASSUME NEW m \in 1..n, \A k \in 1..m-1 : k \in T PROVE m \in T
  <2>1. CASE m = 1
      BY <2>1, <1>3
  <2>2. CASE m # 1
    <3>1. m - 1 \in 1..m-1 /\ m - 1 \in 1..n
        BY <2>2
    <3>2. h[m-1] = g[m-1]
        BY <3>1, <1>4
    <3> QED
        BY <3>2, <2>2, <1>3
  <2> QED
      BY <2>1, <2>2
<1> HIDE DEF T
<1>5. \A m \in 1..n : m \in T
    BY <1>4, Upwards
<1> QED
    BY <1>1, <1>5 DEF T

(* A sequence ends with what was put behind it last. *)
LEMMA EndsWithLast ==
    ASSUME NEW S, NEW s \in Seq(S), NEW t \in Seq(S)
    PROVE  IsSuffix(t, s \o t)
<1> DEFINE u == s \o t
           m == Len(s)
           n == Len(t)
<1>1. /\ m \in Nat /\ n \in Nat /\ u \in Seq(S) /\ Len(u) = m + n
      /\ \A i \in 1..m+n : u[i] = IF i <= m THEN s[i] ELSE t[i - m]
    BY LenProperties, ConcatProperties
<1> HIDE DEF u
<1>2. Reverse(t) = [i \in 1..n |-> t[(n - i) + 1]]
    BY DEF Reverse
<1>3. Reverse(u) = [i \in 1..m+n |-> u[((m + n) - i) + 1]]
    BY <1>1 DEF Reverse
<1> HIDE DEF m, n
<1>4. \A i \in 1..n : t[i] \in S
    BY ElementOfSeq DEF n
<1>5. \A i \in 1..m+n : u[i] \in S
    BY <1>1, ElementOfSeq
<1>6. Reverse(t) \in Seq(S) /\ Len(Reverse(t)) = n
  <2>1. Reverse(t) \in [1..n -> S]
      BY <1>1, <1>2, <1>4
  <2> QED
      BY <1>1, <2>1, SeqDef
<1>7. Reverse(u) \in Seq(S) /\ Len(Reverse(u)) = m + n
  <2>1. Reverse(u) \in [1..m+n -> S] /\ m + n \in Nat
      BY <1>1, <1>3, <1>5
  <2> QED
      BY <2>1, SeqDef
<1>8. ASSUME NEW i \in 1..n PROVE Reverse(u)[i] = Reverse(t)[i]
  <2>1. /\ i \in 1..m+n /\ ((m + n) - i) + 1 \in 1..m+n /\ ~ (((m + n) - i) + 1 <= m)
        /\ (((m + n) - i) + 1) - m = (n - i) + 1
      BY <1>1
  <2> QED
      BY <1>1, <1>2, <1>3, <2>1
<1> DEFINE rt == Reverse(t)
           ru == Reverse(u)
<1> HIDE DEF rt, ru
<1>9. SubSeq(rt, 1, n) = SubSeq(ru, 1, n)
  <2>1. rt \in Seq(S) /\ ru \in Seq(S) /\ Len(rt) = n /\ Len(ru) = m + n /\ \A i \in 1..n : ru[i] = rt[i]
      BY <1>6, <1>7, <1>8 DEF rt, ru
  <2>2. \A i \in 1..n : rt[i] \in S /\ ru[i] \in S
      BY <1>1, <2>1, ElementOfSeq
  <2>3. /\ SubSeq(rt, 1, n) \in Seq(S) /\ SubSeq(ru, 1, n) \in Seq(S)
        /\ Len(SubSeq(rt, 1, n)) = Len(SubSeq(ru, 1, n))
        /\ \A i \in 1..n : SubSeq(rt, 1, n)[i] = rt[i] /\ SubSeq(ru, 1, n)[i] = ru[i]
      BY <1>1, <2>2, SubSeqProperties
  <2>4. Len(SubSeq(rt, 1, n)) = n
      BY <1>1, <2>2, SubSeqProperties
  <2> QED
      BY <2>1, <2>3, <2>4, SeqEqual
<1>10. IsPrefix(rt, ru)
    BY <1>1, <1>6, <1>7, <1>9 DEF IsPrefix, rt, ru
<1> QED
    BY <1>10 DEF IsSuffix, rt, ru, u

(* The first n items. *)
LEMMA FirstPart ==
    ASSUME NEW S, NEW s \in Seq(S), NEW n \in 0..Len(s)
    PROVE  /\ SubSeq(s, 1, n) \in Seq(S) /\ Len(SubSeq(s, 1, n)) = n
           /\ \A i \in 1..n : SubSeq(s, 1, n)[i] = s[i]
<1>1. \A i \in 1..n : s[i] \in S
    BY LenProperties, ElementOfSeq
<1>2. n \in Nat /\ n \in Int
    BY LenProperties
<1>3. /\ SubSeq(s, 1, n) \in Seq(S)
      /\ Len(SubSeq(s, 1, n)) = IF 1 <= n THEN n - 1 + 1 ELSE 0
      /\ \A i \in 1 .. n - 1 + 1 : SubSeq(s, 1, n)[i] = s[1 + i - 1]
    BY <1>1, <1>2, SubSeqProperties
<1>4. n - 1 + 1 = n /\ (~ (1 <= n) => n = 0) /\ \A i \in 1..n : 1 + i - 1 = i
    BY <1>2
<1> QED
    BY <1>3, <1>4

(* All but the first n items. *)
LEMMA LastPart ==
    ASSUME NEW S, NEW s \in Seq(S), NEW n \in Nat
    PROVE  /\ SubSeq(s, n + 1, Len(s)) \in Seq(S)
           /\ Len(SubSeq(s, n + 1, Len(s))) = IF n <= Len(s) THEN Len(s) - n ELSE 0
           /\ \A i \in 1..Len(s) - n : SubSeq(s, n + 1, Len(s))[i] = s[n + i]
<1> DEFINE l == Len(s)
           part == SubSeq(s, n + 1, l)
<1>1. l \in Nat /\ \A i \in 1..l : s[i] \in S
    BY LenProperties, ElementOfSeq
<1> HIDE DEF l
<1>2. n + 1 \in Int /\ l \in Int /\ \A i \in n+1..l : s[i] \in S
    BY <1>1
<1>3. /\ part \in Seq(S)
      /\ Len(part) = IF n + 1 <= l THEN l - (n + 1) + 1 ELSE 0
      /\ \A i \in 1 .. l - (n + 1) + 1 : part[i] = s[(n + 1) + i - 1]
    BY <1>2, SubSeqProperties
<1> HIDE DEF part
<1>4. Len(part) = IF n <= l THEN l - n ELSE 0
    BY <1>1, <1>3
<1>5. ASSUME NEW i \in 1..l-n PROVE part[i] = s[n + i]
  <2>1. i \in 1 .. l - (n + 1) + 1 /\ (n + 1) + i - 1 = n + i
      BY <1>1
  <2> QED
      BY <1>3, <2>1
<1> QED
    BY <1>3, <1>4, <1>5 DEF part, l

(* A prefix, item by item. *)
LEMMA PrefixByItems ==
    ASSUME NEW s \in Seq(Int), NEW t \in Seq(Int), Len(s) <= Len(t),
           \A i \in 1..Len(s) : s[i] = t[i]
    PROVE  IsPrefix(s, t)
<1> DEFINE n == Len(s)
<1>1. n \in Nat /\ n \in 0..Len(s) /\ n \in 0..Len(t)
    BY LenProperties
<1>2. SubSeq(s, 1, Len(s)) = s
    BY SubSeqFull
<1>3. /\ SubSeq(t, 1, n) \in Seq(Int) /\ Len(SubSeq(t, 1, n)) = n
      /\ \A i \in 1..n : SubSeq(t, 1, n)[i] = t[i]
    BY <1>1, FirstPart
<1>4. SubSeq(t, 1, n) = s
    BY <1>3, SeqEqual
<1> QED
    BY <1>2, <1>4 DEF IsPrefix

(* FlattenSeq of one sequence, and of sequences of one item each. *)
LEMMA OneJoined ==
    ASSUME NEW seq
    PROVE  FlattenSeq(<<seq>>) = seq
<1> DEFINE seqs == <<seq>>
<1>1. Len(seqs) = 1 /\ seqs[1] = seq
    OBVIOUS
<1> HIDE DEF seqs
<1>2. \A i \in 1..1 : seqs[i] = IF i = 1 THEN seqs[i] ELSE seqs[i-1] \o seqs[i]
    OBVIOUS
<1>3. FlattenSeq(seqs) = seqs[1]
  <2>1. 1 \in Nat \ {0}
      OBVIOUS
  <2> QED
      BY <1>1, <1>2, <2>1, Flattened
<1> QED
    BY <1>1, <1>3 DEF seqs

LEMMA SinglesJoined ==
    ASSUME NEW V, NEW seqs \in Seq(Seq(V)), seqs # << >>,
           \A i \in 1..Len(seqs) : Len(seqs[i]) = 1
    PROVE  FlattenSeq(seqs) = [i \in 1..Len(seqs) |-> seqs[i][1]]
<1> DEFINE n == Len(seqs)
           g == [k \in 1..n |-> [i \in 1..k |-> seqs[i][1]]]
<1>1. n \in Nat /\ n # 0
    BY LenProperties, EmptySeq
<1>2. ASSUME NEW k \in 1..n PROVE seqs[k] \in Seq(V) /\ Len(seqs[k]) = 1 /\ seqs[k][1] \in V
  <2>1. seqs[k] \in Seq(V)
      BY ElementOfSeq
  <2>2. Len(seqs[k]) = 1 /\ 1 \in 1..Len(seqs[k])
    <3>1. Len(seqs[k]) = 1
        OBVIOUS
    <3> QED
        BY <3>1
  <2> QED
      BY <2>1, <2>2, ElementOfSeq
<1>3. ASSUME NEW k \in 1..n PROVE g[k] \in Seq(V) /\ Len(g[k]) = k
  <2>1. g[k] \in [1..k -> V] /\ k \in Nat
      BY <1>1, <1>2
  <2> QED
      BY <2>1, SeqDef
<1>4. ASSUME NEW k \in 1..n PROVE g[k] = IF k = 1 THEN seqs[k] ELSE g[k-1] \o seqs[k]
  <2>1. CASE k = 1
    <3>1. \A i \in 1..Len(g[k]) : g[k][i] = seqs[k][i]
        BY <1>3, <2>1
    <3>2. Len(g[k]) = Len(seqs[k])
        BY <1>2, <1>3, <2>1
    <3> HIDE DEF g
    <3>3. g[k] = seqs[k]
        BY <1>2, <1>3, <3>1, <3>2, SeqEqual
    <3> QED
        BY <2>1, <3>3
  <2>2. CASE k # 1
    <3>1. k - 1 \in 1..n /\ (k - 1) + 1 = k /\ (k - 1) \in Nat
        BY <1>1, <2>2
    <3>2. g[k-1] \in Seq(V) /\ Len(g[k-1]) = k - 1
        BY <1>3, <3>1
    <3>3. /\ g[k-1] \o seqs[k] \in Seq(V) /\ Len(g[k-1] \o seqs[k]) = k
          /\ \A i \in 1..k : (g[k-1] \o seqs[k])[i] = IF i <= k - 1 THEN g[k-1][i]
                                                     ELSE seqs[k][i - (k - 1)]
      <4> DEFINE a == g[k-1]
                 b == seqs[k]
      <4>1. a \in Seq(V) /\ b \in Seq(V) /\ Len(a) = k - 1 /\ Len(b) = 1
          BY <1>2, <3>2
      <4> HIDE DEF a, b, g
      <4>2. /\ a \o b \in Seq(V) /\ Len(a \o b) = (k - 1) + 1
            /\ \A i \in 1..(k-1)+1 : (a \o b)[i] = IF i <= k - 1 THEN a[i] ELSE b[i - (k - 1)]
        <5>1. /\ a \o b \in Seq(V) /\ Len(a \o b) = Len(a) + Len(b)
              /\ \A i \in 1..Len(a) + Len(b) :
                    (a \o b)[i] = IF i <= Len(a) THEN a[i] ELSE b[i - Len(a)]
            BY <4>1, ConcatProperties
        <5> QED
            BY <4>1, <5>1
      <4> QED
          BY <3>1, <4>2 DEF a, b
    <3>4. ASSUME NEW i \in 1..k PROVE g[k][i] = (g[k-1] \o seqs[k])[i]
      <4>1. g[k][i] = seqs[i][1]
          BY <1>1
      <4>2. CASE i <= k - 1
          BY <1>1, <3>1, <3>3, <4>1, <4>2
      <4>3. CASE ~ (i <= k - 1)
        <5>1. i = k /\ i - (k - 1) = 1
            BY <1>1, <4>3
        <5> QED
            BY <3>3, <4>1, <4>3, <5>1
      <4> QED
          BY <4>2, <4>3
    <3> HIDE DEF g
    <3>5. g[k] = g[k-1] \o seqs[k]
        BY <1>3, <3>3, <3>4, SeqEqual
    <3> QED
        BY <2>2, <3>5
  <2> QED
      BY <2>1, <2>2
<1>5. g[n] = [i \in 1..n |-> seqs[i][1]]
    BY <1>1
<1> HIDE DEF g
<1>6. FlattenSeq(seqs) = g[n]
  <2> HIDE DEF n
  <2>1. n \in Nat \ {0} /\ Len(seqs) = n
      BY <1>1 DEF n
  <2> QED
      BY <1>4, <2>1, Flattened
<1> QED
    BY <1>5, <1>6
(* What is made step by step from a value is a function of the step. *)
IsStep(step, n, V) == step \in [(1..n) \X V -> V]

MadeInSteps(f, n, V, zero, step) ==
    /\ f \in [0..n -> V] /\ f[0] = zero
    /\ \A k \in 1..n : f[k] = step[<<k, f[k-1]>>]

LEMMA StepByStep ==
    ASSUME NEW n \in Nat, NEW V, NEW zero \in V, NEW step, IsStep(step, n, V)
    PROVE  \E f : MadeInSteps(f, n, V, zero, step)
<1> USE DEF IsStep, MadeInSteps
<1> DEFINE Steps(f, m) == MadeInSteps(f, m, V, zero, step)
           T == {m \in 1..n+1 : \E f : Steps(f, m - 1)}
<1>1. ASSUME NEW m \in 1..n+1, \A k \in 1..m-1 : k \in T PROVE m \in T
  <2>1. CASE m = 1
    <3> DEFINE f == [k \in 0..0 |-> zero]
    <3>1. f \in [0..0 -> V] /\ f[0] = zero /\ \A k \in 1..0 : FALSE
        OBVIOUS
    <3> HIDE DEF f
    <3>2. Steps(f, 0) /\ m - 1 = 0
        BY <2>1, <3>1
    <3> QED
        BY <3>2
  <2>2. CASE m # 1
    <3>1. m - 1 \in 1..m-1 /\ m - 1 \in 1..n /\ (m - 1) - 1 = m - 2 /\ m - 2 \in Nat
        BY <2>2
    <3>2. PICK f : Steps(f, m - 2)
        BY <1>1, <3>1
    <3> DEFINE last == step[<<m - 1, f[m-2]>>]
               g == [k \in 0..m-1 |-> IF k = m - 1 THEN last ELSE f[k]]
    <3>3. f[m-2] \in V /\ last \in V
        BY <3>1, <3>2
    <3>4. \A k \in 0..m-1 : k # m - 1 => k \in 0..m-2
        BY <3>1
    <3> HIDE DEF last
    <3>5. g \in [0..m-1 -> V]
        BY <3>2, <3>3, <3>4
    <3>6. g[0] = zero
        BY <3>1, <3>2
    <3>7. ASSUME NEW k \in 1..m-1 PROVE g[k] = step[<<k, g[k-1]>>]
      <4>1. k - 1 \in 0..m-2 /\ g[k-1] = f[k-1]
          BY <3>1
      <4>2. CASE k = m - 1
        <5>1. g[k] = last /\ k - 1 = m - 2
            BY <3>1, <4>2
        <5> QED
            BY <4>1, <4>2, <5>1 DEF last
      <4>3. CASE k # m - 1
        <5>1. k \in 1..m-2 /\ g[k] = f[k]
            BY <3>1, <4>3
        <5> QED
            BY <3>2, <4>1, <5>1
      <4> QED
          BY <4>2, <4>3
    <3> HIDE DEF g
    <3> QED
        BY <3>5, <3>6, <3>7
  <2> QED
      BY <2>1, <2>2
<1>2. n + 1 \in Nat /\ n + 1 \in 1..n+1 /\ (n + 1) - 1 = n
    OBVIOUS
<1> HIDE DEF T, IsStep, MadeInSteps
<1>3. n + 1 \in T
    BY <1>1, <1>2, Upwards
<1> QED
    BY <1>2, <1>3 DEF T

(***************************************************************************)
(* Joined sequences follow one another: each has a place in the whole,     *)
(* behind those before it.                                                 *)
(***************************************************************************)
EndsOfBlocks(seqs, ends) ==
    /\ ends \in [0..Len(seqs) -> Nat]
    /\ ends[0] = 0 /\ ends[Len(seqs)] = Len(FlattenSeq(seqs))
    /\ \A k \in 1..Len(seqs) :
          /\ ends[k] = ends[k-1] + Len(seqs[k])
          /\ \A j \in 1..Len(seqs[k]) : FlattenSeq(seqs)[ends[k-1] + j] = seqs[k][j]

LEMMA JoinedInBlocks ==
    ASSUME NEW S, NEW seqs \in Seq(Seq(S))
    PROVE  FlattenSeq(seqs) \in Seq(S) /\ \E ends : EndsOfBlocks(seqs, ends)
<1> DEFINE n == Len(seqs)
           V == Seq(S)
           step == [p \in (1..n) \X V |-> p[2] \o seqs[p[1]]]
<1>1. n \in Nat /\ \A k \in 1..n : seqs[k] \in V
    BY LenProperties, ElementOfSeq
<1>2. IsStep(step, n, V)
  <2>1. ASSUME NEW p \in (1..n) \X V PROVE p[2] \o seqs[p[1]] \in V
    <3>1. p[1] \in 1..n /\ p[2] \in V /\ seqs[p[1]] \in V
        BY <1>1
    <3> QED
        BY <3>1, ConcatProperties
  <2> QED
      BY <2>1 DEF IsStep
<1>3. << >> \in V
    BY EmptySeq
<1>a. PICK h : MadeInSteps(h, n, V, << >>, step)
  <2> HIDE DEF n, V, step
  <2> QED
      BY <1>1, <1>2, <1>3, StepByStep
<1>4. /\ h \in [0..n -> V] /\ h[0] = << >>
      /\ \A k \in 1..n : h[k] = h[k-1] \o seqs[k]
  <2>1. /\ h \in [0..n -> V] /\ h[0] = << >>
        /\ \A k \in 1..n : h[k] = step[<<k, h[k-1]>>]
    <3> HIDE DEF n, V, step
    <3> QED
        BY <1>a DEF MadeInSteps
  <2>2. ASSUME NEW k \in 1..n PROVE step[<<k, h[k-1]>>] = h[k-1] \o seqs[k]
    <3>1. k - 1 \in 0..n
        BY <1>1
    <3>2. h[k-1] \in V
      <4> HIDE DEF V, n
      <4> QED
          BY <2>1, <3>1
    <3> HIDE DEF V
    <3> QED
        BY <3>2
  <2> HIDE DEF n, V, step
  <2> QED
      BY <2>1, <2>2
<1>5. ASSUME NEW k \in 1..n
      PROVE  /\ k - 1 \in 0..n /\ h[k-1] \in V /\ h[k] \in V
             /\ h[k] = h[k-1] \o seqs[k]
             /\ Len(h[k]) = Len(h[k-1]) + Len(seqs[k])
             /\ \A i \in 1..Len(h[k-1]) : h[k][i] = h[k-1][i]
             /\ \A j \in 1..Len(seqs[k]) : h[k][Len(h[k-1]) + j] = seqs[k][j]
  <2>1. k - 1 \in 0..n /\ h[k-1] \in V /\ seqs[k] \in V /\ h[k] \in V
    <3>1. k - 1 \in 0..n /\ k \in 0..n
        BY <1>1
    <3> HIDE DEF V, n
    <3> QED
        BY <1>1, <1>4, <3>1
  <2>2. h[k] = h[k-1] \o seqs[k]
      BY <1>4, <2>1
  <2> DEFINE a == h[k-1]
             b == seqs[k]
  <2>3. /\ Len(a) \in Nat /\ Len(b) \in Nat
        /\ Len(a \o b) = Len(a) + Len(b)
        /\ \A i \in 1..Len(a) + Len(b) :
              (a \o b)[i] = IF i <= Len(a) THEN a[i] ELSE b[i - Len(a)]
    <3>1. a \in Seq(S) /\ b \in Seq(S)
        BY <2>1
    <3> HIDE DEF a, b
    <3> QED
        BY <3>1, LenProperties, ConcatProperties
  <2> HIDE DEF a, b
  <2>4. /\ \A i \in 1..Len(a) : (a \o b)[i] = a[i]
        /\ \A j \in 1..Len(b) : (a \o b)[Len(a) + j] = b[j]
    <3>1. ASSUME NEW i \in 1..Len(a) PROVE (a \o b)[i] = a[i]
        BY <2>3
    <3>2. ASSUME NEW j \in 1..Len(b) PROVE (a \o b)[Len(a) + j] = b[j]
      <4>1. Len(a) + j \in 1..Len(a) + Len(b) /\ ~(Len(a) + j <= Len(a)) /\ (Len(a) + j) - Len(a) = j
          BY <2>3
      <4> QED
          BY <2>3, <4>1
    <3> QED
        BY <3>1, <3>2
  <2> QED
      BY <2>1, <2>2, <2>3, <2>4 DEF a, b
<1>6. FlattenSeq(seqs) = h[n]
  <2>1. CASE n = 0
    <3>1. seqs = << >>
        BY <2>1, EmptySeq
    <3> QED
        BY <1>4, <2>1, <3>1 DEF FlattenSeq
  <2>2. CASE n # 0
    <3>1. ASSUME NEW k \in 1..n PROVE h[k] = IF k = 1 THEN seqs[k] ELSE h[k-1] \o seqs[k]
      <4>1. CASE k = 1
        <5>1. k - 1 = 0 /\ seqs[k] \in Seq(S)
            BY <1>1, <4>1
        <5>2. h[k] = << >> \o seqs[k]
            BY <1>4, <5>1
        <5> QED
            BY <4>1, <5>1, <5>2, ConcatEmptySeq
      <4> QED
          BY <1>5, <4>1
    <3>2. n \in Nat \ {0} /\ Len(seqs) = n
        BY <1>1, <2>2
    <3> HIDE DEF n
    <3> QED
        BY <3>1, <3>2, Flattened
  <2> QED
      BY <2>1, <2>2
<1> HIDE DEF step
<1>7. ASSUME NEW k \in 0..n PROVE h[k] \in V /\ Len(h[k]) \in Nat
  <2>1. h[k] \in V
    <3> HIDE DEF V
    <3> QED
        BY <1>4
  <2> QED
      BY <2>1, LenProperties
<1> DEFINE T(m) == {k \in 1..n : k < m \/ (/\ Len(h[m]) <= Len(h[k])
                                           /\ \A i \in 1..Len(h[m]) : h[k][i] = h[m][i])}
<1>8. ASSUME NEW m \in 1..n PROVE n \in T(m)
  <2>1. ASSUME NEW k \in 1..n, \A l \in 1..k-1 : l \in T(m) PROVE k \in T(m)
    <3>1. CASE k <= m
        BY <1>7, <3>1
    <3>2. CASE k > m
      <4>1. k - 1 \in 1..k-1 /\ k - 1 >= m /\ k - 1 \in 0..n /\ m \in 0..n
          BY <3>2
      <4>2. Len(h[m]) <= Len(h[k-1]) /\ \A i \in 1..Len(h[m]) : h[k-1][i] = h[m][i]
          BY <2>1, <4>1
      <4>3. /\ Len(h[m]) \in Nat /\ Len(h[k-1]) \in Nat /\ Len(seqs[k]) \in Nat
            /\ Len(h[k]) = Len(h[k-1]) + Len(seqs[k])
            /\ \A i \in 1..Len(h[k-1]) : h[k][i] = h[k-1][i]
          BY <1>1, <1>5, <1>7, <4>1, LenProperties
      <4>4. Len(h[m]) <= Len(h[k])
        <5> DEFINE a == Len(h[m])
                   b == Len(h[k-1])
                   c == Len(seqs[k])
        <5>1. a \in Nat /\ b \in Nat /\ c \in Nat /\ a <= b /\ Len(h[k]) = b + c
            BY <4>2, <4>3
        <5> HIDE DEF a, b, c
        <5>2. a <= b + c
            BY <5>1
        <5> QED
            BY <5>1, <5>2 DEF a
      <4>5. \A i \in 1..Len(h[m]) : i \in 1..Len(h[k-1])
          BY <4>2, <4>3
      <4> QED
          BY <4>2, <4>3, <4>4, <4>5
    <3> QED
        BY <3>1, <3>2
  <2> HIDE DEF T
  <2>2. \A k \in 1..n : k \in T(m)
    <3>1. n \in Nat
        BY <1>1
    <3> HIDE DEF n
    <3> QED
        BY <2>1, <3>1, Upwards
  <2> QED
      BY <1>1, <2>2
<1> DEFINE ends == [k \in 0..n |-> Len(h[k])]
<1>9. ends \in [0..n -> Nat] /\ ends[0] = 0 /\ ends[n] = Len(FlattenSeq(seqs))
    BY <1>1, <1>4, <1>6, <1>7, EmptySeq
<1>10. ASSUME NEW k \in 1..n
       PROVE  /\ ends[k] = ends[k-1] + Len(seqs[k])
              /\ \A j \in 1..Len(seqs[k]) : h[n][ends[k-1] + j] = seqs[k][j]
  <2>0. ends[k] = Len(h[k]) /\ ends[k-1] = Len(h[k-1])
    <3>1. k \in 0..n /\ k - 1 \in 0..n
        BY <1>1
    <3> HIDE DEF n
    <3> QED
        BY <3>1
  <2>1. /\ Len(h[k]) = Len(h[k-1]) + Len(seqs[k])
        /\ \A j \in 1..Len(seqs[k]) : h[k][Len(h[k-1]) + j] = seqs[k][j]
      BY <1>5
  <2>2. \A i \in 1..Len(h[k]) : h[n][i] = h[k][i]
    <3>1. n \in T(k) /\ ~(n < k)
        BY <1>1, <1>8
    <3> HIDE DEF n, ends
    <3> QED
        BY <3>1
  <2>3. Len(h[k-1]) \in Nat /\ Len(seqs[k]) \in Nat
      BY <1>1, <1>5, LenProperties
  <2>4. \A j \in 1..Len(seqs[k]) : Len(h[k-1]) + j \in 1..Len(h[k])
    <3> DEFINE a == Len(h[k-1])
               b == Len(seqs[k])
    <3>1. a \in Nat /\ b \in Nat /\ Len(h[k]) = a + b
        BY <2>1, <2>3
    <3> HIDE DEF a, b
    <3>2. \A j \in 1..b : a + j \in 1..a + b
        BY <3>1
    <3> QED
        BY <3>1, <3>2 DEF a, b
  <2> HIDE DEF ends
  <2> QED
      BY <2>0, <2>1, <2>2, <2>4
<1>11. EndsOfBlocks(seqs, ends)
  <2> HIDE DEF ends
  <2> QED
      BY <1>6, <1>9, <1>10 DEF EndsOfBlocks
<1> QED
    BY <1>1, <1>6, <1>7, <1>11
(* No block ends behind the whole. *)
LEMMA EndsInside ==
    ASSUME NEW S, NEW seqs \in Seq(Seq(S)), NEW ends, EndsOfBlocks(seqs, ends)
    PROVE  \A k \in 0..Len(seqs) : ends[k] \in Nat /\ ends[k] <= Len(FlattenSeq(seqs))
<1> DEFINE n == Len(seqs)
           U == {k \in 1..n+1 : ends[n+1-k] <= Len(FlattenSeq(seqs))}
<1>1. n \in Nat
    BY LenProperties
<1>2. /\ ends \in [0..n -> Nat] /\ ends[n] = Len(FlattenSeq(seqs))
      /\ \A k \in 1..n : ends[k] = ends[k-1] + Len(seqs[k])
    BY DEF EndsOfBlocks
<1>3. \A k \in 0..n : ends[k] \in Nat
  <2> HIDE DEF n
  <2> QED
      BY <1>2
<1> DEFINE l == Len(FlattenSeq(seqs))
<1>4. l \in Nat /\ ends[n] = l
  <2>1. n \in 0..n
      BY <1>1
  <2> QED
      BY <1>2, <1>3, <2>1
<1> HIDE DEF l
<1>5. ASSUME NEW k \in 1..n+1, \A m \in 1..k-1 : m \in U PROVE k \in U
  <2>1. CASE k = 1
    <3>1. n + 1 - k = n
        BY <1>1, <2>1
    <3>2. ends[n + 1 - k] = ends[n]
        BY <3>1
    <3>3. l <= l
        BY <1>4
    <3> QED
        BY <1>4, <3>2, <3>3 DEF l
  <2>2. CASE k # 1
    <3> DEFINE i == n + 1 - (k - 1)
    <3>1. k - 1 \in 1..k-1 /\ i \in 1..n /\ i - 1 = n + 1 - k /\ i \in 0..n /\ i - 1 \in 0..n
        BY <1>1, <2>2
    <3>2. ends[i] <= l
        BY <1>5, <3>1 DEF l
    <3>3. seqs[i] \in Seq(S)
        BY <3>1, ElementOfSeq
    <3> HIDE DEF i, n
    <3>4. Len(seqs[i]) \in Nat /\ ends[i] = ends[i-1] + Len(seqs[i])
        BY <1>2, <3>1, <3>3, LenProperties
    <3>5. ends[i-1] \in Nat /\ ends[i] \in Nat
        BY <1>3, <3>1
    <3>6. ends[i-1] <= l
        BY <1>4, <3>2, <3>4, <3>5
    <3> QED
        BY <3>1, <3>6 DEF l
  <2> QED
      BY <2>1, <2>2
<1> HIDE DEF U
<1>6. \A k \in 1..n+1 : k \in U
  <2>1. n + 1 \in Nat
      BY <1>1
  <2> QED
      BY <1>5, <2>1, Upwards
<1>7. ASSUME NEW k \in 0..n PROVE ends[k] \in Nat /\ ends[k] <= l
  <2>1. n + 1 - k \in 1..n+1 /\ n + 1 - (n + 1 - k) = k
      BY <1>1
  <2>2. ends[n + 1 - (n + 1 - k)] <= l
      BY <1>6, <2>1 DEF U, l
  <2> QED
      BY <1>3, <2>1, <2>2
<1> QED
    BY <1>7 DEF l
=============================================================================
