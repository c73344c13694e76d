----------------------------- MODULE LogScanProofs -----------------------------
(* What the reader of LogScan makes of a text, for texts of every length: the *)
(* lines of LinesOf, and the tail behind the last line end.                   *)
EXTENDS LogScan, FiniteSetTheorems, SequenceTheorems, TLAPS

USE ScanAssumption

-------------------------------------------------------------------------------
(* Induction.  The predicate is a set, so that the provers can instantiate it.*)

(* Were n not in S, m |-> m + 1 would map the finite set of those below n     *)
(* that are in S into itself without 0, one to one.                           *)
LEMMA Induction ==
  ASSUME NEW S, 0 \in S, \A n \in Nat : n \in S => n + 1 \in S
  PROVE  Nat \subseteq S
  <1> SUFFICES ASSUME NEW n \in Nat, n \notin S PROVE FALSE
    OBVIOUS
  <1> DEFINE A == {m \in 0 .. n : m \in S}
             f == [m \in A |-> m + 1]
  <1>1. IsFiniteSet(A)
    <2>1. IsFiniteSet(0 .. n)
      BY FS_Interval
    <2> QED BY <2>1, FS_Subset
  <1>2. 0 \in A
    OBVIOUS
  <1>3. \A m \in A : m + 1 \in A \ {0}
    OBVIOUS
  <1>4. f \in Injection(A, A \ {0})
    BY <1>3 DEF Injection, IsInjective
  <1> HIDE DEF A, f
  <1>5. IsFiniteSet(A \ {0}) /\ Cardinality(A \ {0}) = Cardinality(A) - 1
    BY <1>1, <1>2, FS_RemoveElement
  <1>6. Cardinality(A) <= Cardinality(A \ {0})
    BY <1>4, <1>5, FS_Injection
  <1>7. Cardinality(A) \in Nat
    BY <1>1, FS_CardinalityType
  <1> QED BY <1>5, <1>6, <1>7

LEMMA IntervalInduction ==
  ASSUME NEW m \in Nat, NEW n \in Nat, NEW S,
         m \in S, \A k \in m .. n - 1 : k \in S => k + 1 \in S
  PROVE  m .. n \subseteq S
  <1> DEFINE T == {k \in Nat : m + k <= n => m + k \in S}
  <1>1. 0 \in T
    OBVIOUS
  <1>2. ASSUME NEW k \in Nat, k \in T PROVE k + 1 \in T
    <2> SUFFICES ASSUME m + (k + 1) <= n PROVE m + (k + 1) \in S
      OBVIOUS
    <2>1. m + k \in m .. n - 1 /\ m + k \in S
      BY <1>2
    <2>2. (m + k) + 1 \in S
      BY <2>1
    <2>3. (m + k) + 1 = m + (k + 1)
      OBVIOUS
    <2> QED BY <2>2, <2>3
  <1> HIDE DEF T
  <1>3. Nat \subseteq T
    BY <1>1, <1>2, Induction
  <1> SUFFICES ASSUME NEW j \in m .. n PROVE j \in S
    OBVIOUS
  <1>4. j - m \in T
    BY <1>3
  <1>5. m + (j - m) = j
    OBVIOUS
  <1> QED BY <1>4, <1>5 DEF T

(* The reader before a chunk and after each of its first n bytes.             *)
IsRun(after, r, chunk, n) ==
  after = [k \in 0 .. n |-> IF k = 0 THEN r ELSE WriteByte(after[k - 1], chunk[k])]

LEMMA RunExists ==
  ASSUME NEW r, NEW chunk
  PROVE  \A n \in Nat : \E after : IsRun(after, r, chunk, n)
  <1> DEFINE S == {n \in Nat : \E after : IsRun(after, r, chunk, n)}
  <1>1. 0 \in S
    <2>1. IsRun([k \in 0 .. 0 |-> r], r, chunk, 0)
      BY DEF IsRun
    <2> QED BY <2>1
  <1>2. ASSUME NEW n \in Nat, n \in S PROVE n + 1 \in S
    <2>1. PICK g : IsRun(g, r, chunk, n)
      BY <1>2
    <2> DEFINE h == [k \in 0 .. n + 1 |->
                       IF k = n + 1 THEN WriteByte(g[n], chunk[n + 1]) ELSE g[k]]
    <2>2. \A k \in 0 .. n + 1 : h[k] = IF k = 0 THEN r ELSE WriteByte(h[k - 1], chunk[k])
      BY <2>1 DEF IsRun
    <2>3. h = [k \in 0 .. n + 1 |-> IF k = 0 THEN r ELSE WriteByte(h[k - 1], chunk[k])]
      <3>1. h = [k \in 0 .. n + 1 |-> h[k]]
        OBVIOUS
      <3> HIDE DEF h
      <3> QED BY <2>2, <3>1
    <2>4. IsRun(h, r, chunk, n + 1)
      BY <2>3 DEF IsRun
    <2> QED BY <2>4
  <1> HIDE DEF S
  <1>3. Nat \subseteq S
    BY <1>1, <1>2, Induction
  <1> QED BY <1>3 DEF S

LEMMA WriteUnfold ==
  ASSUME NEW r, NEW chunk, Len(chunk) \in Nat
  PROVE  \E after : /\ Write(r, chunk) = after[Len(chunk)]
                    /\ after[0] = r
                    /\ \A k \in 1 .. Len(chunk) : after[k] = WriteByte(after[k - 1], chunk[k])
  <1> DEFINE w == CHOOSE g : IsRun(g, r, chunk, Len(chunk))
  <1>1. IsRun(w, r, chunk, Len(chunk))
    BY RunExists
  <1>2. w[Len(chunk)] = Write(r, chunk)
    BY DEF Write, IsRun
  <1> HIDE DEF w
  <1>3. w[0] = r /\ \A k \in 1 .. Len(chunk) : w[k] = WriteByte(w[k - 1], chunk[k])
    BY <1>1 DEF IsRun
  <1> QED BY <1>2, <1>3

-------------------------------------------------------------------------------
(* Counting through a finite set of numbers.                                  *)

Below(A, i) == {j \in A : j <= i}

LEMMA BelowCounts ==
  ASSUME NEW A \in SUBSET Nat, IsFiniteSet(A)
  PROVE  /\ Cardinality(A) \in Nat
         /\ \A i \in A : Cardinality(Below(A, i)) \in 1 .. Cardinality(A)
         /\ \A i, j \in A : i < j => Cardinality(Below(A, i)) < Cardinality(Below(A, j))
  <1>1. Cardinality(A) \in Nat
    BY FS_CardinalityType
  <1>2. \A i : IsFiniteSet(Below(A, i)) /\ Cardinality(Below(A, i)) \in Nat
               /\ Cardinality(Below(A, i)) <= Cardinality(A)
    <2> SUFFICES ASSUME NEW i
                 PROVE  /\ IsFiniteSet(Below(A, i)) /\ Cardinality(Below(A, i)) \in Nat
                        /\ Cardinality(Below(A, i)) <= Cardinality(A)
      OBVIOUS
    <2>1. Below(A, i) \in SUBSET A
      BY DEF Below
    <2> QED BY <2>1, FS_Subset, FS_CardinalityType
  <1>3. \A i \in A : Cardinality(Below(A, i)) # 0
    <2> SUFFICES ASSUME NEW i \in A PROVE Cardinality(Below(A, i)) # 0
      OBVIOUS
    <2>1. i \in Below(A, i)
      BY DEF Below
    <2> QED BY <1>2, <2>1, FS_EmptySet
  <1>4. ASSUME NEW i \in A, NEW j \in A, i < j
        PROVE  Cardinality(Below(A, i)) < Cardinality(Below(A, j))
    <2>1. Below(A, i) \in SUBSET Below(A, j) /\ j \in Below(A, j) /\ j \notin Below(A, i)
      <3>1. i \in Nat /\ j \in Nat /\ \A k \in A : k \in Nat
        OBVIOUS
      <3>2. \A k \in A : k <= i => k <= j
        BY <1>4, <3>1
      <3>3. \A k : k \in Below(A, i) => k \in Below(A, j)
        BY <3>2 DEF Below
      <3>4. j \in Below(A, j) /\ j \notin Below(A, i)
        BY <1>4, <3>1 DEF Below
      <3> QED BY <3>3, <3>4
    <2>2. /\ Cardinality(Below(A, i)) <= Cardinality(Below(A, j))
          /\ Cardinality(Below(A, i)) = Cardinality(Below(A, j)) => Below(A, i) = Below(A, j)
      BY <1>2, <2>1, FS_Subset
    <2> QED BY <1>2, <2>1, <2>2
  <1> QED BY <1>1, <1>2, <1>3, <1>4

(* Every count occurs: the counts are as many as the elements.                *)
LEMMA EveryCount ==
  ASSUME NEW A \in SUBSET Nat, IsFiniteSet(A), NEW k \in 1 .. Cardinality(A)
  PROVE  \E i \in A : Cardinality(Below(A, i)) = k
  <1> DEFINE f == [i \in A |-> Cardinality(Below(A, i))]
             K == 1 .. Cardinality(A)
  <1>1. Cardinality(A) \in Nat
    BY BelowCounts
  <1>2. f \in [A -> K]
    BY BelowCounts
  <1>3. \A i, j \in A : f[i] = f[j] => i = j
    <2> SUFFICES ASSUME NEW i \in A, NEW j \in A, i # j PROVE f[i] # f[j]
      OBVIOUS
    <2>1. i \in Nat /\ j \in Nat /\ f[i] \in Nat /\ f[j] \in Nat
      BY BelowCounts
    <2>2. CASE i < j
      BY <2>1, <2>2, BelowCounts
    <2>3. CASE j < i
      BY <2>1, <2>3, BelowCounts
    <2> QED BY <2>1, <2>2, <2>3
  <1>4. IsFiniteSet(K) /\ Cardinality(K) = Cardinality(A)
    BY <1>1, FS_Interval
  <1> HIDE DEF f, K
  <1>5. f \in Injection(A, K)
    BY <1>2, <1>3 DEF Injection, IsInjective
  <1>6. f \in Surjection(A, K)
    BY <1>4, <1>5, FS_Injection
  <1>7. k \in K
    BY DEF K
  <1>8. \E i \in A : f[i] = k
    BY <1>6, <1>7 DEF Surjection
  <1> QED BY <1>8 DEF f

LEMMA MaxIs ==
  ASSUME NEW A \in SUBSET Int, NEW m \in A, \A i \in A : i <= m
  PROVE  Max(A) = m
  <1>1. \A i \in A : m >= i
    OBVIOUS
  <1>2. Max(A) \in A /\ \A i \in A : Max(A) >= i
    BY <1>1 DEF Max
  <1>3. Max(A) \in Int /\ m \in Int /\ Max(A) <= m /\ Max(A) >= m
    BY <1>2
  <1> HIDE DEF Max
  <1> QED BY <1>3

LEMMA MaxOfFinite ==
  ASSUME NEW A \in SUBSET Nat, IsFiniteSet(A), A # {}
  PROVE  Max(A) \in A /\ \A i \in A : i <= Max(A)
  <1>1. Cardinality(A) \in Nat \ {0}
    BY FS_CardinalityType, FS_EmptySet
  <1>2. PICK m \in A : Cardinality(Below(A, m)) = Cardinality(A)
    BY <1>1, EveryCount
  <1>3. Below(A, m) \in SUBSET A
    BY DEF Below
  <1>4. Below(A, m) = A
    BY <1>2, <1>3, FS_Subset
  <1>5. \A i \in A : i <= m
    BY <1>4 DEF Below
  <1> QED BY <1>5, MaxIs

-------------------------------------------------------------------------------
(* The lines of a text.                                                       *)

LEMMA LineEndsType ==
  ASSUME NEW B, NEW s \in Seq(B)
  PROVE  /\ LineEnds(s) \in SUBSET Nat /\ LineEnds(s) \subseteq 1 .. Len(s)
         /\ Len(s) \in Nat /\ DOMAIN s = 1 .. Len(s)
         /\ IsFiniteSet(LineEnds(s)) /\ Cardinality(LineEnds(s)) \in Nat
         /\ \A i \in LineEnds(s) : i \in 1 .. Len(s) /\ s[i].ch = LF
  <1>1. LineEnds(s) \in SUBSET (1 .. Len(s)) /\ Len(s) \in Nat /\ DOMAIN s = 1 .. Len(s)
    BY DEF LineEnds
  <1>2. IsFiniteSet(1 .. Len(s))
    BY <1>1, FS_Interval
  <1>3. IsFiniteSet(LineEnds(s))
    BY <1>1, <1>2, FS_Subset
  <1> QED BY <1>1, <1>3, FS_CardinalityType DEF LineEnds

LEMMA NthLineEndIs ==
  ASSUME NEW B, NEW s \in Seq(B), NEW n \in 1 .. Cardinality(LineEnds(s))
  PROVE  /\ NthLineEnd(s, n) \in LineEnds(s)
         /\ Cardinality(Below(LineEnds(s), NthLineEnd(s, n))) = n
         /\ \A i \in LineEnds(s) :
              Cardinality(Below(LineEnds(s), i)) = n => i = NthLineEnd(s, n)
  <1> DEFINE A == LineEnds(s)
  <1>1. A \in SUBSET Nat /\ IsFiniteSet(A)
    BY LineEndsType
  <1>2. \A i \in A : \A j \in A :
           Cardinality(Below(A, i)) = n /\ Cardinality(Below(A, j)) = n => i = j
    <2> HIDE DEF A
    <2> SUFFICES ASSUME NEW i \in A, NEW j \in A, Cardinality(Below(A, i)) = n,
                        Cardinality(Below(A, j)) = n
                 PROVE  i = j
      OBVIOUS
    <2>1. i \in Nat /\ j \in Nat /\ n \in Nat
      BY <1>1
    <2> QED BY <1>1, <2>1, BelowCounts
  <1>3. \E i \in A : Cardinality({j \in A : j <= i}) = n
    <2>1. \E i \in A : Cardinality(Below(A, i)) = n
      BY <1>1, EveryCount
    <2> QED BY <2>1 DEF Below
  <1>4. NthLineEnd(s, n) \in A /\ Cardinality({j \in A : j <= NthLineEnd(s, n)}) = n
    BY <1>3 DEF NthLineEnd
  <1> QED BY <1>2, <1>4 DEF Below

LEMMA LineBegin ==
  ASSUME NEW B, NEW s \in Seq(B), NEW i
  PROVE  LET m == Max({0} \union {j \in LineEnds(s) : j < i})
         IN  /\ m \in Nat /\ (m = 0 \/ (m \in LineEnds(s) /\ m < i))
             /\ \A j \in LineEnds(s) : j < i => j <= m
  <1> DEFINE A == {0} \union {j \in LineEnds(s) : j < i}
  <1>1. {j \in LineEnds(s) : j < i} \in SUBSET LineEnds(s) /\ LineEnds(s) \in SUBSET Nat
        /\ IsFiniteSet(LineEnds(s))
    BY LineEndsType
  <1>2. IsFiniteSet({j \in LineEnds(s) : j < i})
    BY <1>1, FS_Subset
  <1>3. IsFiniteSet({0})
    BY FS_Singleton
  <1>4. A \in SUBSET Nat /\ IsFiniteSet(A) /\ A # {}
    <2>1. IsFiniteSet(A)
      BY <1>2, <1>3, FS_Union
    <2> QED BY <1>1, <2>1
  <1>5. Max(A) \in A /\ \A j \in A : j <= Max(A)
    <2> HIDE DEF A
    <2> QED BY <1>4, MaxOfFinite
  <1> QED BY <1>1, <1>5

LEMMA LineEndingType ==
  ASSUME NEW B, NEW s \in Seq(B), NEW i \in LineEnds(s)
  PROVE  /\ LineEndingAt(s, i) \in Seq(B) /\ Len(LineEndingAt(s, i)) >= 1
         /\ LineEndingAt(s, i)[Len(LineEndingAt(s, i))] = s[i]
  <1> DEFINE m == Max({0} \union {j \in LineEnds(s) : j < i})
             e == IF i > 1 + m /\ s[i - 1].ch = CR THEN i - 2 ELSE i - 1
  <1>1. m \in Nat /\ i \in 1 .. Len(s) /\ Len(s) \in Nat
    BY LineBegin, LineEndsType
  <1> HIDE DEF m
  <1>2. 1 + m \in Int /\ e \in Int /\ \A k \in 1 + m .. e : s[k] \in B
    BY <1>1
  <1>3. LineEndingAt(s, i) = Append(SubSeq(s, 1 + m, e), s[i])
    BY DEF LineEndingAt, m
  <1> HIDE DEF e
  <1>4. SubSeq(s, 1 + m, e) \in Seq(B)
    BY <1>2, SubSeqProperties
  <1>5. s[i] \in B
    BY <1>1
  <1> QED BY <1>3, <1>4, <1>5, AppendProperties, LenProperties

LEMMA LinesOfType ==
  ASSUME NEW B, NEW s \in Seq(B)
  PROVE  /\ LinesOf(s) \in Seq(Seq(B)) /\ Len(LinesOf(s)) = Cardinality(LineEnds(s))
         /\ \A n \in 1 .. Cardinality(LineEnds(s)) :
              LinesOf(s)[n] = LineEndingAt(s, NthLineEnd(s, n))
  <1>1. \A n \in 1 .. Cardinality(LineEnds(s)) : LineEndingAt(s, NthLineEnd(s, n)) \in Seq(B)
    BY NthLineEndIs, LineEndingType
  <1>2. Cardinality(LineEnds(s)) \in Nat
    BY LineEndsType
  <1> QED BY <1>1, <1>2 DEF LinesOf

(* One byte more: a line end, or nothing new.                                 *)
LEMMA EndsOfAppend ==
  ASSUME NEW B, NEW s \in Seq(B), NEW b \in B
  PROVE  /\ b.ch = LF => LineEnds(Append(s, b)) = LineEnds(s) \union {Len(s) + 1}
         /\ b.ch # LF => LineEnds(Append(s, b)) = LineEnds(s)
  <1>1. /\ Len(s) \in Nat /\ DOMAIN s = 1 .. Len(s)
        /\ DOMAIN Append(s, b) = (1 .. Len(s)) \union {Len(s) + 1}
        /\ Append(s, b)[Len(s) + 1] = b /\ \A i \in 1 .. Len(s) : Append(s, b)[i] = s[i]
    OBVIOUS
  <1> QED BY <1>1 DEF LineEnds

LEMMA LineEndingKept ==
  ASSUME NEW B, NEW s \in Seq(B), NEW b \in B, NEW i \in LineEnds(s)
  PROVE  LineEndingAt(Append(s, b), i) = LineEndingAt(s, i)
  <1> DEFINE t == Append(s, b)
             m == Max({0} \union {j \in LineEnds(s) : j < i})
             e == IF i > 1 + m /\ s[i - 1].ch = CR THEN i - 2 ELSE i - 1
  <1>1. m \in Nat /\ i \in 1 .. Len(s) /\ Len(s) \in Nat
    BY LineBegin, LineEndsType
  <1>2. {j \in LineEnds(t) : j < i} = {j \in LineEnds(s) : j < i}
    <2>1. \A j \in LineEnds(t) : j \in LineEnds(s) \/ j = Len(s) + 1
      BY EndsOfAppend
    <2>2. LineEnds(s) \subseteq LineEnds(t)
      BY EndsOfAppend
    <2>3. ~(Len(s) + 1 < i)
      BY <1>1
    <2> QED BY <2>1, <2>2, <2>3
  <1>3. Max({0} \union {j \in LineEnds(t) : j < i}) = m
    BY <1>2
  <1> HIDE DEF m
  <1>4. t[i] = s[i] /\ (i > 1 + m => t[i - 1] = s[i - 1])
    BY <1>1
  <1>5. LineEndingAt(t, i) = Append(SubSeq(t, 1 + m, e), t[i])
    BY <1>3, <1>4 DEF LineEndingAt
  <1>6. LineEndingAt(s, i) = Append(SubSeq(s, 1 + m, e), s[i])
    BY DEF LineEndingAt, m
  <1>7. 1 + m \in Int /\ e \in Int /\ \A k \in 1 + m .. e : s[k] \in B /\ t[k] = s[k]
    BY <1>1
  <1> HIDE DEF t, e
  <1>8. SubSeq(t, 1 + m, e) = SubSeq(s, 1 + m, e)
    BY <1>7
  <1> QED BY <1>4, <1>5, <1>6, <1>8 DEF t

LEMMA NthKept ==
  ASSUME NEW B, NEW s \in Seq(B), NEW b \in B, NEW n \in 1 .. Cardinality(LineEnds(s))
  PROVE  NthLineEnd(Append(s, b), n) = NthLineEnd(s, n)
  <1> DEFINE t == Append(s, b)
             i == NthLineEnd(s, n)
  <1>1. /\ i \in LineEnds(s) /\ Cardinality(Below(LineEnds(s), i)) = n
        /\ i \in 1 .. Len(s) /\ Len(s) \in Nat
    BY NthLineEndIs, LineEndsType
  <1>2. /\ t \in Seq(B) /\ IsFiniteSet(LineEnds(t)) /\ LineEnds(s) \in SUBSET LineEnds(t)
        /\ Cardinality(LineEnds(t)) \in Nat /\ Cardinality(LineEnds(s)) \in Nat
    <2>1. t \in Seq(B)
      BY AppendProperties
    <2>2. LineEnds(s) \in SUBSET LineEnds(t)
      BY EndsOfAppend
    <2> HIDE DEF t
    <2> QED BY <2>1, <2>2, LineEndsType
  <1>3. Cardinality(LineEnds(s)) <= Cardinality(LineEnds(t))
    BY <1>2, FS_Subset
  <1>4. n \in 1 .. Cardinality(LineEnds(t))
    BY <1>2, <1>3
  <1>5. Below(LineEnds(t), i) = Below(LineEnds(s), i)
    <2>1. \A j \in LineEnds(t) : j \in LineEnds(s) \/ j = Len(s) + 1
      BY EndsOfAppend
    <2>2. ~(Len(s) + 1 <= i)
      BY <1>1
    <2> QED BY <1>2, <2>1, <2>2 DEF Below
  <1> QED BY <1>1, <1>2, <1>4, <1>5, NthLineEndIs

LEMMA LinesOfAppend ==
  ASSUME NEW B, NEW s \in Seq(B), NEW b \in B
  PROVE  /\ b.ch # LF => LinesOf(Append(s, b)) = LinesOf(s)
         /\ b.ch = LF => LinesOf(Append(s, b)) =
                           Append(LinesOf(s), LineEndingAt(Append(s, b), Len(s) + 1))
  <1> DEFINE t == Append(s, b)
             N == Cardinality(LineEnds(s))
  <1>1. t \in Seq(B) /\ N \in Nat /\ Len(s) \in Nat /\ LineEnds(s) \subseteq 1 .. Len(s)
        /\ IsFiniteSet(LineEnds(s)) /\ IsFiniteSet(LineEnds(t))
    <2>1. t \in Seq(B)
      BY AppendProperties
    <2> HIDE DEF t
    <2> QED BY <2>1, LineEndsType
  <1>2. \A n \in 1 .. N : LineEndingAt(t, NthLineEnd(t, n)) = LineEndingAt(s, NthLineEnd(s, n))
    BY NthKept, NthLineEndIs, LineEndingKept
  <1>3. CASE b.ch # LF
    <2>1. LineEnds(t) = LineEnds(s)
      BY <1>3, EndsOfAppend
    <2> QED BY <1>2, <1>3, <2>1 DEF LinesOf
  <1>4. CASE b.ch = LF
    <2>1. LineEnds(t) = LineEnds(s) \union {Len(s) + 1} /\ Len(s) + 1 \notin LineEnds(s)
      BY <1>1, <1>4, EndsOfAppend
    <2>2. Cardinality(LineEnds(t)) = N + 1
      BY <1>1, <2>1, FS_AddElement
    <2>3. NthLineEnd(t, N + 1) = Len(s) + 1
      <3>1. \A j \in LineEnds(t) : j <= Len(s) + 1
        BY <1>1, <2>1
      <3>2. Below(LineEnds(t), Len(s) + 1) = LineEnds(t)
        BY <3>1 DEF Below
      <3>3. N + 1 \in 1 .. Cardinality(LineEnds(t))
        BY <1>1, <2>2
      <3>4. Len(s) + 1 \in LineEnds(t) /\ Cardinality(Below(LineEnds(t), Len(s) + 1)) = N + 1
        BY <2>1, <2>2, <3>2
      <3> HIDE DEF t, N
      <3> QED BY <1>1, <3>3, <3>4, NthLineEndIs
    <2>4. LinesOf(s) \in Seq(Seq(B)) /\ Len(LinesOf(s)) = N
          /\ \A n \in 1 .. N : LinesOf(s)[n] = LineEndingAt(s, NthLineEnd(s, n))
      BY LinesOfType
    <2>5. LinesOf(t) \in Seq(Seq(B)) /\ Len(LinesOf(t)) = N + 1
          /\ \A n \in 1 .. N + 1 : LinesOf(t)[n] = LineEndingAt(t, NthLineEnd(t, n))
      BY <1>1, <2>2, LinesOfType
    <2> DEFINE x == LineEndingAt(t, Len(s) + 1)
               L == LinesOf(s)
               M == LinesOf(t)
    <2>6. x \in Seq(B)
      BY <1>1, <2>1, LineEndingType
    <2>7. M[N + 1] = x /\ \A n \in 1 .. N : M[n] = L[n]
      BY <1>1, <1>2, <2>3, <2>4, <2>5
    <2>8. L \in Seq(Seq(B)) /\ Len(L) = N /\ M \in Seq(Seq(B)) /\ Len(M) = N + 1
      BY <2>4, <2>5
    <2> HIDE DEF N, x, L, M
    <2>9. /\ Append(L, x) \in Seq(Seq(B)) /\ Len(Append(L, x)) = N + 1
          /\ Append(L, x)[N + 1] = x /\ \A n \in 1 .. N : Append(L, x)[n] = L[n]
      BY <1>1, <2>6, <2>8, AppendProperties
    <2>10. \A n \in 1 .. N + 1 : M[n] = Append(L, x)[n]
      BY <1>1, <2>7, <2>9
    <2>11. M = Append(L, x)
      BY <2>8, <2>9, <2>10, SeqEqual
    <2> QED BY <1>4, <2>11 DEF M, L, x
  <1> QED BY <1>3, <1>4

-------------------------------------------------------------------------------
(* Prefixes of a text, and what the reader is after them.                     *)

Prefix(t, n) == SubSeq(t, 1, n)

LEMMA PrefixIs ==
  ASSUME NEW B, NEW t \in Seq(B), NEW n \in 0 .. Len(t)
  PROVE  /\ Prefix(t, n) \in Seq(B) /\ Len(Prefix(t, n)) = n
         /\ \A i \in 1 .. n : Prefix(t, n)[i] = t[i]
  <1>1. 1 \in Int /\ n \in Int /\ \A i \in 1 .. n : t[i] \in B
    OBVIOUS
  <1>2. /\ SubSeq(t, 1, n) \in Seq(B)
        /\ Len(SubSeq(t, 1, n)) = (IF 1 <= n THEN n - 1 + 1 ELSE 0)
        /\ \A i \in 1 .. n - 1 + 1 : SubSeq(t, 1, n)[i] = t[1 + i - 1]
    BY <1>1, SubSeqProperties
  <1>3. \A i \in 1 .. n : i \in 1 .. n - 1 + 1 /\ 1 + i - 1 = i
    OBVIOUS
  <1> QED BY <1>2, <1>3 DEF Prefix

LEMMA PrefixNext ==
  ASSUME NEW B, NEW t \in Seq(B), NEW n \in 0 .. Len(t) - 1
  PROVE  Prefix(t, n + 1) = Append(Prefix(t, n), t[n + 1])
  <1>1. n \in 0 .. Len(t) /\ n + 1 \in 0 .. Len(t) /\ t[n + 1] \in B
    OBVIOUS
  <1>2. /\ Prefix(t, n) \in Seq(B) /\ Len(Prefix(t, n)) = n
        /\ \A i \in 1 .. n : Prefix(t, n)[i] = t[i]
    BY <1>1, PrefixIs
  <1>3. /\ Prefix(t, n + 1) \in Seq(B) /\ Len(Prefix(t, n + 1)) = n + 1
        /\ \A i \in 1 .. n + 1 : Prefix(t, n + 1)[i] = t[i]
    BY <1>1, PrefixIs
  <1>4. /\ Append(Prefix(t, n), t[n + 1]) \in Seq(B)
        /\ Len(Append(Prefix(t, n), t[n + 1])) = n + 1
        /\ \A i \in 1 .. n : Append(Prefix(t, n), t[n + 1])[i] = Prefix(t, n)[i]
        /\ Append(Prefix(t, n), t[n + 1])[n + 1] = t[n + 1]
    BY <1>1, <1>2, AppendProperties
  <1>5. \A i \in 1 .. n + 1 : Prefix(t, n + 1)[i] = Append(Prefix(t, n), t[n + 1])[i]
    BY <1>2, <1>3, <1>4
  <1> QED BY <1>3, <1>4, <1>5, SeqEqual

(* A place behind a line end, or the beginning.                               *)
AtEnd(t, o) == o = 0 \/ (o \in 1 .. Len(t) /\ t[o].ch = LF)

Readers(B) == [buf : Seq(B), lines : Seq(Seq(B)), failed : BOOLEAN]

(* The reader that was given the bytes o + 1 .. n of t, and did not fail: it  *)
(* has the lines that end there, and keeps what is behind the last of them.   *)
Reading(r, t, o, n) ==
  ~r.failed =>
    \E e \in o .. n :
      /\ AtEnd(t, e) /\ \A i \in e + 1 .. n : t[i].ch # LF
      /\ r.buf = SubSeq(t, e + 1, n)
      /\ LinesOf(Prefix(t, n)) = LinesOf(Prefix(t, o)) \o r.lines
      /\ LinesOf(Prefix(t, e)) = LinesOf(Prefix(t, n))

(* A reader only fails on a long stretch of what it was given.                *)
Refusing(r, t) == r.failed => LongStretch(t)

(* The line that ends with the next byte, seen from the text.                 *)
LEMMA NextLine ==
  ASSUME NEW B, NEW t \in Seq(B), NEW n \in 0 .. Len(t) - 1, t[n + 1].ch = LF,
         NEW e \in 0 .. n, AtEnd(t, e), \A i \in e + 1 .. n : t[i].ch # LF
  PROVE  LineEndingAt(Prefix(t, n + 1), n + 1) = Append(Content(SubSeq(t, e + 1, n)), t[n + 1])
  <1> DEFINE s   == Prefix(t, n + 1)
             A   == {0} \union {j \in LineEnds(s) : j < n + 1}
             buf == SubSeq(t, e + 1, n)
  <1>1. Len(t) \in Nat /\ n + 1 \in 0 .. Len(t) /\ n \in Nat /\ e \in Nat
    OBVIOUS
  <1>2. s \in Seq(B) /\ Len(s) = n + 1 /\ \A i \in 1 .. n + 1 : s[i] = t[i]
    BY <1>1, PrefixIs
  <1> HIDE DEF s
  <1>3. Max(A) = e
    <2>1. \A j : j \in LineEnds(s) <=> j \in 1 .. n + 1 /\ t[j].ch = LF
      BY <1>2 DEF LineEnds
    <2>2. A \in SUBSET Int
      BY <2>1
    <2>3. e \in A
      BY <1>1, <2>1 DEF AtEnd
    <2>4. \A j \in A : j <= e
      <3>1. \A j \in 1 .. n : j \notin e + 1 .. n => j <= e
        BY <1>1
      <3>2. \A j \in LineEnds(s) : j < n + 1 => j \in 1 .. n /\ t[j].ch = LF
        BY <1>1, <2>1
      <3>3. \A j \in LineEnds(s) : j < n + 1 => j <= e
        BY <3>1, <3>2
      <3> QED BY <1>1, <3>3
    <2> HIDE DEF A
    <2> QED BY <2>2, <2>3, <2>4, MaxIs
  <1>4. LineEndingAt(s, n + 1) =
          Append(SubSeq(s, 1 + e, IF n + 1 > 1 + e /\ s[n].ch = CR THEN n - 1 ELSE n), s[n + 1])
    <2> PICK i : i = n + 1
      OBVIOUS
    <2>1. i - 1 = n /\ i - 2 = n - 1
      BY <1>1
    <2>2. Max({0} \union {j \in LineEnds(s) : j < i}) = e
      BY <1>3
    <2>3. LineEndingAt(s, i) =
            Append(SubSeq(s, 1 + e, IF i > 1 + e /\ s[i - 1].ch = CR THEN i - 2 ELSE i - 1), s[i])
      BY <2>2 DEF LineEndingAt
    <2> QED BY <2>1, <2>3
  <1>5. \A k \in Int : k <= n => SubSeq(s, 1 + e, k) = SubSeq(t, e + 1, k)
    BY <1>1, <1>2
  <1>6. /\ buf \in Seq(B) /\ Len(buf) = n - e
        /\ n > e => buf[n - e] = t[n] /\ Front(buf) = SubSeq(t, e + 1, n - 1)
        /\ n = e => buf = << >>
    <2>1. e + 1 \in Int /\ n \in Int /\ \A i \in e + 1 .. n : t[i] \in B
      BY <1>1
    <2>2. /\ buf \in Seq(B) /\ Len(buf) = (IF e + 1 <= n THEN n - (e + 1) + 1 ELSE 0)
          /\ \A i \in 1 .. n - (e + 1) + 1 : buf[i] = t[e + 1 + i - 1]
      BY <2>1, SubSeqProperties
    <2> HIDE DEF buf
    <2>3. n - (e + 1) + 1 = n - e /\ Len(buf) = n - e
      BY <1>1, <2>2
    <2>4. ASSUME n > e PROVE buf[n - e] = t[n] /\ Front(buf) = SubSeq(t, e + 1, n - 1)
      <3>1. n - e \in 1 .. n - (e + 1) + 1 /\ e + 1 + (n - e) - 1 = n
        BY <1>1, <2>4
      <3>2. buf[n - e] = t[n]
        BY <2>2, <3>1
      <3>3. Front(buf) = SubSeq(buf, 1, n - e - 1)
        BY <2>3 DEF Front
      <3>4. SubSeq(buf, 1, n - e - 1) = SubSeq(t, e + 1, n - 1)
        BY <1>1, <2>2, <2>4
      <3> QED BY <3>2, <3>3, <3>4
    <2>5. n = e => buf = << >>
      BY <2>2, <2>3, EmptySeq
    <2> QED BY <2>2, <2>3, <2>4, <2>5
  <1> HIDE DEF buf
  <1>7. n > e => Content(buf) = (IF t[n].ch = CR THEN SubSeq(t, e + 1, n - 1) ELSE buf)
    <2> SUFFICES ASSUME n > e
                 PROVE  Content(buf) = (IF t[n].ch = CR THEN SubSeq(t, e + 1, n - 1) ELSE buf)
      OBVIOUS
    <2>1. Len(buf) = n - e /\ n - e # 0 /\ buf # << >>
      BY <1>1, <1>6, EmptySeq
    <2>2. Last(buf) = t[n] /\ Front(buf) = SubSeq(t, e + 1, n - 1)
      BY <1>6, <2>1 DEF Last
    <2> QED BY <2>1, <2>2 DEF Content
  <1>8. n = e => Content(buf) = buf
    BY <1>6 DEF Content
  <1>9. n \in Int /\ n - 1 \in Int /\ n - 1 <= n /\ n <= n
    BY <1>1
  <1>10. CASE n > e
    <2>1. n \in 1 .. n + 1 /\ n + 1 \in 1 .. n + 1 /\ n + 1 > 1 + e
      BY <1>1, <1>10
    <2>2. s[n] = t[n] /\ s[n + 1] = t[n + 1]
      BY <1>2, <2>1
    <2> QED BY <1>4, <1>5, <1>7, <1>9, <1>10, <2>1, <2>2 DEF buf, s
  <1>11. CASE n = e
    <2>1. n + 1 \in 1 .. n + 1 /\ ~(n + 1 > 1 + e)
      BY <1>1, <1>11
    <2>2. s[n + 1] = t[n + 1]
      BY <1>2, <2>1
    <2> QED BY <1>4, <1>5, <1>8, <1>9, <1>11, <2>1, <2>2 DEF buf, s
  <1> QED BY <1>1, <1>10, <1>11

LEMMA ContentType ==
  ASSUME NEW B, NEW buf \in Seq(B)
  PROVE  Content(buf) \in Seq(B)
  <1>1. Len(buf) \in Nat
    OBVIOUS
  <1>2. 1 \in Int /\ Len(buf) - 1 \in Int /\ \A i \in 1 .. Len(buf) - 1 : buf[i] \in B
    BY <1>1
  <1>3. Front(buf) \in Seq(B)
    BY <1>2, SubSeqProperties DEF Front
  <1> QED BY <1>3 DEF Content

LEMMA WriteByteIs ==
  ASSUME NEW B, NEW r \in Readers(B), NEW b
  PROVE  /\ r.failed => WriteByte(r, b) = r
         /\ ~r.failed /\ b.ch = LF => WriteByte(r, b) =
              [buf |-> << >>, lines |-> Append(r.lines, Append(Content(r.buf), b)),
               failed |-> FALSE]
         /\ ~r.failed /\ b.ch # LF => WriteByte(r, b) =
              [buf |-> Append(r.buf, b), lines |-> r.lines,
               failed |-> Len(Content(Append(r.buf, b))) > MaxContent]
  <1>1. r = [buf |-> r.buf, lines |-> r.lines, failed |-> r.failed] /\ r.failed \in BOOLEAN
    BY DEF Readers
  <1>2. PICK u, v, w : r = [buf |-> u, lines |-> v, failed |-> w]
    BY <1>1
  <1>3. r.buf = u /\ r.lines = v /\ r.failed = w
    BY <1>2
  <1>4. CASE ~r.failed /\ b.ch = LF
    <2>1. WriteByte(r, b) =
            [r EXCEPT !.lines = Append(@, Append(Content(r.buf), b)), !.buf = << >>]
      BY <1>4 DEF WriteByte
    <2>2. WriteByte(r, b) = [buf |-> << >>, lines |-> Append(v, Append(Content(u), b)), failed |-> w]
      BY <1>2, <1>3, <2>1
    <2>3. w = FALSE
      BY <1>1, <1>3, <1>4
    <2> QED BY <1>3, <1>4, <2>2, <2>3
  <1>5. CASE ~r.failed /\ b.ch # LF
    <2>1. WriteByte(r, b) =
            [r EXCEPT !.buf = Append(@, b), !.failed = Len(Content(Append(r.buf, b))) > MaxContent]
      BY <1>5 DEF WriteByte
    <2>2. WriteByte(r, b) =
            [buf |-> Append(u, b), lines |-> v, failed |-> Len(Content(Append(u, b))) > MaxContent]
      BY <1>2, <1>3, <2>1
    <2> QED BY <1>3, <1>5, <2>2
  <1>6. r.failed => WriteByte(r, b) = r
    BY DEF WriteByte
  <1> QED BY <1>4, <1>5, <1>6

LEMMA WriteByteType ==
  ASSUME NEW B, NEW r \in Readers(B), NEW b \in B
  PROVE  /\ WriteByte(r, b) \in Readers(B)
         /\ Len(WriteByte(r, b).buf) <= Len(r.buf) + 1
         /\ Len(r.buf) \in Nat /\ Len(WriteByte(r, b).buf) \in Nat
  <1>1. r.buf \in Seq(B) /\ r.lines \in Seq(Seq(B)) /\ r.failed \in BOOLEAN
    BY DEF Readers
  <1>2. Append(Content(r.buf), b) \in Seq(B) /\ Append(r.buf, b) \in Seq(B)
        /\ Len(Append(r.buf, b)) = Len(r.buf) + 1 /\ Len(r.buf) \in Nat
    BY <1>1, ContentType, AppendProperties
  <1>3. Append(r.lines, Append(Content(r.buf), b)) \in Seq(Seq(B))
    BY <1>1, <1>2
  <1>4. << >> \in Seq(B) /\ Len(<< >>) = 0
    OBVIOUS
  <1>5. CASE r.failed
    BY <1>1, <1>2, <1>5, WriteByteIs
  <1>6. CASE ~r.failed /\ b.ch = LF
    <2>1. WriteByte(r, b) =
            [buf |-> << >>, lines |-> Append(r.lines, Append(Content(r.buf), b)), failed |-> FALSE]
      BY <1>6, WriteByteIs
    <2> QED BY <1>2, <1>3, <1>4, <2>1 DEF Readers
  <1>7. CASE ~r.failed /\ b.ch # LF
    <2>1. WriteByte(r, b) =
            [buf |-> Append(r.buf, b), lines |-> r.lines,
             failed |-> Len(Content(Append(r.buf, b))) > MaxContent]
      BY <1>7, WriteByteIs
    <2> QED BY <1>1, <1>2, <2>1 DEF Readers
  <1> QED BY <1>5, <1>6, <1>7

(* A chunk, from one byte to the next.                                        *)
LEMMA WriteType ==
  ASSUME NEW B, NEW r \in Readers(B), NEW chunk \in Seq(B)
  PROVE  /\ Write(r, chunk) \in Readers(B)
         /\ Len(Write(r, chunk).buf) <= Len(r.buf) + Len(chunk)
  <1>1. Len(chunk) \in Nat /\ Len(r.buf) \in Nat /\ \A k \in 1 .. Len(chunk) : chunk[k] \in B
    BY DEF Readers
  <1>2. PICK after : /\ Write(r, chunk) = after[Len(chunk)] /\ after[0] = r
                     /\ \A k \in 1 .. Len(chunk) : after[k] = WriteByte(after[k - 1], chunk[k])
    BY <1>1, WriteUnfold
  <1> DEFINE S == {k \in Nat : after[k] \in Readers(B) /\ Len(after[k].buf) <= Len(r.buf) + k}
  <1>3. 0 \in S
    BY <1>1, <1>2
  <1>4. ASSUME NEW k \in 0 .. Len(chunk) - 1, k \in S PROVE k + 1 \in S
    <2>1. after[k + 1] = WriteByte(after[k], chunk[k + 1]) /\ chunk[k + 1] \in B
      <3>1. k + 1 \in 1 .. Len(chunk) /\ (k + 1) - 1 = k
        BY <1>1
      <3> QED BY <1>1, <1>2, <3>1
    <2>2. after[k] \in Readers(B) /\ Len(after[k].buf) <= Len(r.buf) + k
      BY <1>4
    <2>3. /\ after[k + 1] \in Readers(B) /\ Len(after[k + 1].buf) <= Len(after[k].buf) + 1
          /\ Len(after[k].buf) \in Nat /\ Len(after[k + 1].buf) \in Nat
      BY <2>1, <2>2, WriteByteType
    <2>4. Len(after[k + 1].buf) <= Len(r.buf) + (k + 1)
      <3>1. \A x, y, z, i \in Nat : x <= y + 1 /\ y <= z + i => x <= z + (i + 1)
        OBVIOUS
      <3>2. k \in Nat
        OBVIOUS
      <3> QED BY ONLY <1>1, <2>2, <2>3, <3>1, <3>2
    <2>5. k + 1 \in Nat
      OBVIOUS
    <2> QED BY <2>3, <2>4, <2>5
  <1> HIDE DEF S
  <1>5. 0 .. Len(chunk) \subseteq S
    BY <1>1, <1>3, <1>4, IntervalInduction
  <1>6. Len(chunk) \in S
    BY <1>1, <1>5
  <1> QED BY <1>2, <1>6 DEF S

LEMMA ReadingStart ==
  ASSUME NEW B, NEW t \in Seq(B), NEW o \in 0 .. Len(t), AtEnd(t, o)
  PROVE  /\ NewLineReader \in Readers(B) /\ Reading(NewLineReader, t, o, o)
         /\ Refusing(NewLineReader, t)
  <1>1. << >> \in Seq(B) /\ << >> \in Seq(Seq(B)) /\ Len(t) \in Nat
    OBVIOUS
  <1>2. SubSeq(t, o + 1, o) = << >>
    BY <1>1, SubSeqEmpty
  <1>3. LinesOf(Prefix(t, o)) \o << >> = LinesOf(Prefix(t, o))
    <2>1. LinesOf(Prefix(t, o)) \in Seq(Seq(B))
      BY PrefixIs, LinesOfType
    <2> QED BY <2>1, ConcatEmptySeq
  <1>4. /\ NewLineReader.buf = << >> /\ NewLineReader.lines = << >>
        /\ NewLineReader \in Readers(B) /\ ~NewLineReader.failed
    BY <1>1 DEF NewLineReader, Readers
  <1>5. o \in o .. o /\ \A i \in o + 1 .. o : t[i].ch # LF
    BY <1>1
  <1> HIDE DEF NewLineReader
  <1>6. LinesOf(Prefix(t, o)) = LinesOf(Prefix(t, o)) \o NewLineReader.lines
    BY <1>3, <1>4
  <1> QED BY <1>2, <1>4, <1>5, <1>6 DEF Reading, Refusing

LEMMA ReadingByte ==
  ASSUME NEW B, NEW t \in Seq(B), NEW o \in 0 .. Len(t), NEW n \in o .. Len(t) - 1,
         NEW r \in Readers(B), Reading(r, t, o, n)
  PROVE  Reading(WriteByte(r, t[n + 1]), t, o, n + 1)
  <1> DEFINE b == t[n + 1]
             q == WriteByte(r, b)
  <1> SUFFICES ASSUME ~q.failed PROVE Reading(q, t, o, n + 1)
    BY DEF Reading
  <1>1. /\ Len(t) \in Nat /\ n \in Nat /\ o \in Nat /\ b \in B /\ n + 1 \in o .. Len(t)
        /\ n \in 0 .. Len(t) - 1 /\ n \in 0 .. Len(t) /\ n + 1 \in 1 .. Len(t)
    OBVIOUS
  <1>2. r.buf \in Seq(B) /\ r.lines \in Seq(Seq(B)) /\ r.failed \in BOOLEAN
    BY DEF Readers
  <1>3. ~r.failed
    BY DEF WriteByte
  <1>4. PICK e \in o .. n :
          /\ AtEnd(t, e) /\ \A i \in e + 1 .. n : t[i].ch # LF
          /\ r.buf = SubSeq(t, e + 1, n)
          /\ LinesOf(Prefix(t, n)) = LinesOf(Prefix(t, o)) \o r.lines
          /\ LinesOf(Prefix(t, e)) = LinesOf(Prefix(t, n))
        BY <1>3 DEF Reading
  <1>5. Prefix(t, n) \in Seq(B) /\ Len(Prefix(t, n)) = n
        /\ Prefix(t, n + 1) = Append(Prefix(t, n), b)
        /\ LinesOf(Prefix(t, o)) \in Seq(Seq(B))
    BY <1>1, PrefixIs, PrefixNext, LinesOfType
  <1>6. CASE b.ch = LF
    <2> DEFINE x == Append(Content(r.buf), b)
    <2>1. q.lines = Append(r.lines, x) /\ q.buf = << >>
      <3>1. WriteByte(r, b) = [buf |-> << >>, lines |-> Append(r.lines, x), failed |-> FALSE]
        BY <1>3, <1>6, WriteByteIs
      <3> QED BY <3>1
    <2>2. x \in Seq(B)
      BY <1>1, <1>2, ContentType
    <2>3. LineEndingAt(Prefix(t, n + 1), n + 1) = x
      <3>1. e \in 0 .. n
        BY <1>1
      <3> QED BY <1>1, <1>4, <1>6, <3>1, NextLine
    <2>4. LinesOf(Prefix(t, n + 1)) = Append(LinesOf(Prefix(t, n)), x)
      <3>1. LinesOf(Append(Prefix(t, n), b)) =
              Append(LinesOf(Prefix(t, n)),
                     LineEndingAt(Append(Prefix(t, n), b), Len(Prefix(t, n)) + 1))
        BY <1>1, <1>5, <1>6, LinesOfAppend
      <3> HIDE DEF x, b
      <3> QED BY <1>5, <2>3, <3>1
    <2> HIDE DEF x
    <2>5. Append(LinesOf(Prefix(t, o)) \o r.lines, x) = LinesOf(Prefix(t, o)) \o Append(r.lines, x)
      <3>1. PICK T : T = Seq(B)
        OBVIOUS
      <3>2. PICK u \in Seq(T) : u = LinesOf(Prefix(t, o))
        BY <1>5, <3>1
      <3>3. PICK v \in Seq(T) : v = r.lines
        BY <1>2, <3>1
      <3>4. PICK c \in T : c = x
        BY <2>2, <3>1
      <3>5. PICK w \in Seq(T) : w = << c >>
        <4>1. << c >> \in Seq(T)
          OBVIOUS
        <4> QED BY <4>1, Zenon
      <3>6. Append(u \o v, c) = (u \o v) \o w /\ Append(v, c) = v \o w
        <4>1. u \o v \in Seq(T)
          BY ConcatProperties
        <4> QED BY <3>5, <4>1, AppendIsConcat
      <3>7. (u \o v) \o w = u \o (v \o w)
        <4> HIDE DEF b, q, x
        <4> QED BY ConcatAssociative, SMTT(30)
      <3>8. Append(u \o v, c) = u \o Append(v, c)
        BY <3>6, <3>7, Zenon
      <3> QED BY <3>2, <3>3, <3>4, <3>8, Zenon
    <2>6. LinesOf(Prefix(t, n + 1)) = LinesOf(Prefix(t, o)) \o q.lines
      BY <1>4, <2>1, <2>4, <2>5
    <2>7. SubSeq(t, (n + 1) + 1, n + 1) = << >>
      BY <1>1, SubSeqEmpty
    <2>8. AtEnd(t, n + 1) /\ \A i \in (n + 1) + 1 .. n + 1 : t[i].ch # LF
      BY <1>1, <1>6 DEF AtEnd
    <2>9. n + 1 \in o .. n + 1
      BY <1>1
    <2> HIDE DEF q
    <2> QED BY <2>1, <2>6, <2>7, <2>8, <2>9 DEF Reading
  <1>7. CASE b.ch # LF
    <2>1. q.lines = r.lines /\ q.buf = Append(r.buf, b)
      <3>1. WriteByte(r, b) = [buf |-> Append(r.buf, b), lines |-> r.lines,
                               failed |-> Len(Content(Append(r.buf, b))) > MaxContent]
        BY <1>3, <1>7, WriteByteIs
      <3> QED BY <3>1
    <2>2. LinesOf(Prefix(t, n + 1)) = LinesOf(Prefix(t, n))
      <3>1. PICK p \in Seq(B) : p = Prefix(t, n)
        BY <1>5
      <3>2. PICK c \in B : c = b
        BY <1>1
      <3>3. c.ch # LF
        BY <1>7, <3>2
      <3>4. LinesOf(Append(p, c)) = LinesOf(p)
        BY <3>3, LinesOfAppend
      <3> HIDE DEF b, q
      <3> QED BY <1>5, <3>1, <3>2, <3>4
    <2>3. \A i \in e + 1 .. n + 1 : t[i].ch # LF
      <3>1. \A i \in e + 1 .. n + 1 : i \in e + 1 .. n \/ i = n + 1
        BY <1>1
      <3> QED BY <1>4, <1>7, <3>1
    <2>4. SubSeq(t, e + 1, n + 1) = Append(SubSeq(t, e + 1, n), b)
      <3>1. \A i \in e + 1 .. n + 1 : t[i] \in B
        BY <1>1
      <3>2. e \in Nat /\ e <= n
        BY <1>1
      <3>3. SubSeq(t, e + 1, n + 1) = SubSeq(t, e + 1, (n + 1) - 1) \o << t[n + 1] >>
        <4>1. e + 1 \in 1 .. Len(t) /\ n + 1 \in e + 1 .. Len(t)
          BY <1>1, <3>2
        <4> QED BY <4>1, SubSeqRecursiveSecond
      <3>4. SubSeq(t, e + 1, n) \o << b >> = Append(SubSeq(t, e + 1, n), b)
        BY <1>1, <1>2, <1>4, AppendIsConcat
      <3>5. (n + 1) - 1 = n
        BY <1>1
      <3> QED BY <3>3, <3>4, <3>5
    <2>5. e \in o .. n + 1
      BY <1>1
    <2> QED BY <1>4, <2>1, <2>2, <2>3, <2>4, <2>5 DEF Reading
  <1> QED BY <1>6, <1>7

(* What is behind the last line end grows by the byte; if it is too long now, *)
(* then even without a CR at its end.                                         *)
LEMMA RefusingByte ==
  ASSUME NEW B, NEW t \in Seq(B), NEW o \in 0 .. Len(t), NEW n \in o .. Len(t) - 1,
         NEW r \in Readers(B), Reading(r, t, o, n), Refusing(r, t)
  PROVE  Refusing(WriteByte(r, t[n + 1]), t)
  <1> DEFINE b == t[n + 1]
             q == WriteByte(r, b)
  <1> SUFFICES ASSUME q.failed, ~r.failed PROVE LongStretch(t)
    <2>1. r.failed => WriteByte(r, t[n + 1]) = r
      BY DEF WriteByte
    <2> QED BY <2>1 DEF Refusing
  <1>1. /\ Len(t) \in Nat /\ n \in Nat /\ o \in Nat /\ b \in B /\ n + 1 \in 1 .. Len(t)
        /\ r.buf \in Seq(B)
    BY DEF Readers
  <1>2. PICK e \in o .. n :
          (\A i \in e + 1 .. n : t[i].ch # LF) /\ r.buf = SubSeq(t, e + 1, n)
    BY DEF Reading
  <1>3. b.ch # LF /\ Len(Content(Append(r.buf, b))) > MaxContent
    <2>1. CASE b.ch = LF
      <3>1. q = [buf |-> << >>, lines |-> Append(r.lines, Append(Content(r.buf), b)),
                 failed |-> FALSE]
        BY <2>1, WriteByteIs
      <3> HIDE DEF q
      <3> QED BY <3>1
    <2>2. CASE b.ch # LF
      <3>1. q = [buf |-> Append(r.buf, b), lines |-> r.lines,
                 failed |-> Len(Content(Append(r.buf, b))) > MaxContent]
        BY <2>2, WriteByteIs
      <3> HIDE DEF q
      <3> QED BY <2>2, <3>1
    <2> QED BY <2>1, <2>2
  <1> HIDE DEF q, b
  <1>4. Len(r.buf) = n - e
    <2>1. e + 1 \in Int /\ n \in Int /\ \A i \in e + 1 .. n : t[i] \in B
      BY <1>1
    <2>2. Len(SubSeq(t, e + 1, n)) = (IF e + 1 <= n THEN n - (e + 1) + 1 ELSE 0)
      BY <2>1, SubSeqProperties
    <2> QED BY <1>1, <1>2, <2>2
  <1>5. Len(Content(Append(r.buf, b))) <= n + 1 - e
    <2>1. PICK u \in Seq(B) : u = Append(r.buf, b) /\ Len(u) = Len(r.buf) + 1
      <3>1. Append(r.buf, b) \in Seq(B) /\ Len(Append(r.buf, b)) = Len(r.buf) + 1
        BY <1>1, AppendProperties
      <3> QED BY <3>1
    <2>2. Len(u) \in Nat /\ Len(u) = n + 1 - e
      BY <1>1, <1>4, <2>1
    <2>3. Len(Front(u)) <= Len(u)
      <3>1. 1 \in Int /\ Len(u) - 1 \in Int /\ \A i \in 1 .. Len(u) - 1 : u[i] \in B
        BY <2>2
      <3>2. Len(SubSeq(u, 1, Len(u) - 1)) =
              (IF 1 <= Len(u) - 1 THEN (Len(u) - 1) - 1 + 1 ELSE 0)
        BY <3>1, SubSeqProperties
      <3> QED BY <2>2, <3>2 DEF Front
    <2>4. Content(u) = u \/ Content(u) = Front(u)
      BY DEF Content
    <2> QED BY <2>1, <2>2, <2>3, <2>4
  <1>6. (n + 1) - e > MaxContent
    <2>1. PICK k : k = Len(Content(Append(r.buf, b)))
      OBVIOUS
    <2>2. k \in Nat
      <3>1. Append(r.buf, b) \in Seq(B)
        BY <1>1, AppendProperties
      <3>2. Content(Append(r.buf, b)) \in Seq(B)
        BY <3>1, ContentType
      <3> QED BY <2>1, <3>2, LenProperties
    <2> QED BY <1>1, <1>3, <1>5, <2>1, <2>2
  <1>7. \A i \in e + 1 .. n + 1 : t[i].ch # LF
    <2>1. \A i \in e + 1 .. n + 1 : i \in e + 1 .. n \/ i = n + 1
      BY <1>1
    <2> QED BY <1>2, <1>3, <2>1 DEF b
  <1>8. e \in 0 .. Len(t) /\ n + 1 \in e .. Len(t)
    BY <1>1
  <1> QED BY <1>6, <1>7, <1>8 DEF LongStretch

LEMMA ReadingChunk ==
  ASSUME NEW B, NEW t \in Seq(B), NEW o \in 0 .. Len(t), NEW n \in o .. Len(t),
         NEW m \in n .. Len(t), NEW r \in Readers(B), Reading(r, t, o, n), Refusing(r, t)
  PROVE  /\ Write(r, SubSeq(t, n + 1, m)) \in Readers(B)
         /\ Reading(Write(r, SubSeq(t, n + 1, m)), t, o, m)
         /\ Refusing(Write(r, SubSeq(t, n + 1, m)), t)
  <1> DEFINE chunk == SubSeq(t, n + 1, m)
  <1>1. Len(t) \in Nat /\ o \in Nat /\ n \in Nat /\ m \in Nat /\ n <= m /\ o <= n /\ m <= Len(t)
    OBVIOUS
  <1>2. chunk \in Seq(B) /\ Len(chunk) = m - n /\ \A k \in 1 .. m - n : chunk[k] = t[n + k]
    <2>1. n + 1 \in Int /\ m \in Int /\ \A i \in n + 1 .. m : t[i] \in B
      BY <1>1
    <2>2. /\ chunk \in Seq(B) /\ Len(chunk) = (IF n + 1 <= m THEN m - (n + 1) + 1 ELSE 0)
          /\ \A i \in 1 .. m - (n + 1) + 1 : chunk[i] = t[n + 1 + i - 1]
      BY <2>1, SubSeqProperties
    <2> HIDE DEF chunk
    <2>3. m - (n + 1) + 1 = m - n /\ \A i \in 1 .. m - n : n + 1 + i - 1 = n + i
      BY <1>1
    <2>4. Len(chunk) = m - n
      BY <1>1, <2>2, <2>3
    <2> QED BY <2>2, <2>3, <2>4
  <1> HIDE DEF chunk
  <1>3. PICK after : /\ Write(r, chunk) = after[Len(chunk)] /\ after[0] = r
                     /\ \A k \in 1 .. Len(chunk) : after[k] = WriteByte(after[k - 1], chunk[k])
    <2>1. Len(chunk) \in Nat
      BY <1>1, <1>2
    <2> QED BY <2>1, WriteUnfold
  <1> DEFINE S == {k \in Nat : k <= m - n => /\ after[k] \in Readers(B)
                                             /\ Reading(after[k], t, o, n + k)
                                             /\ Refusing(after[k], t)}
  <1>4. 0 \in S
    <2>1. n + 0 = n
      BY <1>1
    <2> QED BY <1>3, <2>1
  <1>5. ASSUME NEW k \in Nat, k \in S PROVE k + 1 \in S
    <2> SUFFICES ASSUME k + 1 <= m - n
                 PROVE  /\ after[k + 1] \in Readers(B)
                        /\ Reading(after[k + 1], t, o, n + (k + 1))
                        /\ Refusing(after[k + 1], t)
      OBVIOUS
    <2>1. after[k] \in Readers(B) /\ Reading(after[k], t, o, n + k) /\ Refusing(after[k], t)
      BY <1>1, <1>5
    <2>2. /\ k + 1 \in 1 .. m - n /\ (k + 1) - 1 = k /\ n + (k + 1) = (n + k) + 1
          /\ n + k \in o .. Len(t) - 1 /\ (n + k) + 1 \in 1 .. Len(t)
      BY <1>1
    <2>3. after[k + 1] = WriteByte(after[k], t[(n + k) + 1])
      BY <1>2, <1>3, <2>2
    <2>4. t[(n + k) + 1] \in B
      BY <2>2
    <2>5. after[k + 1] \in Readers(B)
      BY <2>1, <2>3, <2>4, WriteByteType
    <2>6. Reading(after[k + 1], t, o, (n + k) + 1)
      BY <2>1, <2>2, <2>3, ReadingByte
    <2>7. Refusing(after[k + 1], t)
      BY <2>1, <2>2, <2>3, RefusingByte
    <2> QED BY <2>2, <2>5, <2>6, <2>7
  <1> HIDE DEF S
  <1>6. m - n \in S
    <2>1. m - n \in Nat
      BY <1>1
    <2> QED BY <1>4, <1>5, <2>1, Induction
  <1>7. /\ after[m - n] \in Readers(B) /\ Reading(after[m - n], t, o, n + (m - n))
        /\ Refusing(after[m - n], t)
    BY <1>1, <1>6 DEF S
  <1>8. n + (m - n) = m
    BY <1>1
  <1>9. /\ Write(r, chunk) \in Readers(B) /\ Reading(Write(r, chunk), t, o, m)
        /\ Refusing(Write(r, chunk), t)
    BY <1>2, <1>3, <1>7, <1>8
  <1> QED BY <1>9 DEF chunk

-------------------------------------------------------------------------------
(* Scans.                                                                     *)

(* Finalize only adds a reason to fail.                                       *)
LEMMA FinalizeIs ==
  ASSUME NEW B, NEW r \in Readers(B)
  PROVE  /\ Finalize(r) \in Readers(B)
         /\ Finalize(r).buf = r.buf /\ Finalize(r).lines = r.lines
         /\ Finalize(r).failed <=> r.failed \/ Len(r.buf) > MaxContent
  <1>1. PICK u \in Seq(B), v \in Seq(Seq(B)), w \in BOOLEAN :
          r = [buf |-> u, lines |-> v, failed |-> w]
    <2>1. /\ r = [buf |-> r.buf, lines |-> r.lines, failed |-> r.failed]
          /\ r.buf \in Seq(B) /\ r.lines \in Seq(Seq(B)) /\ r.failed \in BOOLEAN
      BY DEF Readers
    <2> QED BY <2>1
  <1>2. Finalize(r) = [buf |-> u, lines |-> v, failed |-> w \/ Len(u) > MaxContent]
    BY <1>1 DEF Finalize
  <1>3. (w \/ Len(u) > MaxContent) \in BOOLEAN
    OBVIOUS
  <1>4. Finalize(r) \in Readers(B)
    BY <1>2, <1>3 DEF Readers
  <1>5. Finalize(r).failed <=> r.failed \/ Len(r.buf) > MaxContent
    <2>1. Finalize(r).failed = (w \/ Len(u) > MaxContent)
      BY <1>2
    <2>2. r.failed = w /\ r.buf = u
      BY <1>1
    <2> QED BY <2>1, <2>2
  <1> QED BY <1>1, <1>2, <1>4, <1>5

LEMMA ScanType ==
  ASSUME NEW B, NEW pending \in Seq(B), NEW bytes \in Seq(B)
  PROVE  /\ Scan(pending, bytes) \in Readers(B)
         /\ Len(Scan(pending, bytes).buf) \in 0 .. Len(pending) + Len(bytes)
  <1> DEFINE p == Write(NewLineReader, pending)
             q == Write(p, bytes)
  <1>1. NewLineReader \in Readers(B) /\ Len(NewLineReader.buf) = 0
    <2>1. << >> \in Seq(B) /\ << >> \in Seq(Seq(B)) /\ Len(<< >>) = 0
      OBVIOUS
    <2> QED BY <2>1 DEF NewLineReader, Readers
  <1>2. p \in Readers(B) /\ Len(p.buf) <= Len(NewLineReader.buf) + Len(pending)
    BY <1>1, WriteType
  <1> HIDE DEF p
  <1>3. q \in Readers(B) /\ Len(q.buf) <= Len(p.buf) + Len(bytes)
    BY <1>2, WriteType
  <1> HIDE DEF q
  <1>4. Finalize(q) \in Readers(B) /\ Finalize(q).buf = q.buf
    BY <1>3, FinalizeIs
  <1>5. Scan(pending, bytes) = Finalize(q)
    BY DEF Scan, p, q
  <1>6. p.buf \in Seq(B) /\ q.buf \in Seq(B)
    BY <1>2, <1>3 DEF Readers
  <1>7. Len(p.buf) \in Nat /\ Len(q.buf) \in Nat /\ Len(pending) \in Nat /\ Len(bytes) \in Nat
    BY <1>6
  <1>8. Len(q.buf) \in 0 .. Len(pending) + Len(bytes)
    BY <1>1, <1>2, <1>3, <1>7
  <1> QED BY <1>4, <1>5, <1>8

(* The reader of a scan that takes the text up from a line end, before        *)
(* Finalize looks at it.                                                      *)
LEMMA ScanReading ==
  ASSUME NEW B, NEW t \in Seq(B), NEW o \in 0 .. Len(t), NEW m \in o .. Len(t), AtEnd(t, o)
  PROVE  \E q \in Readers(B) :
           /\ Reading(q, t, o, Len(t)) /\ Refusing(q, t)
           /\ Scan(SubSeq(t, o + 1, m), SubSeq(t, m + 1, Len(t))) = Finalize(q)
  <1> DEFINE p == Write(NewLineReader, SubSeq(t, o + 1, m))
             q == Write(p, SubSeq(t, m + 1, Len(t)))
  <1>1. /\ Len(t) \in Nat /\ o \in Nat /\ m \in Nat /\ o <= m /\ m <= Len(t)
        /\ o \in o .. Len(t) /\ Len(t) \in m .. Len(t)
    OBVIOUS
  <1>2. /\ NewLineReader \in Readers(B) /\ Reading(NewLineReader, t, o, o)
        /\ Refusing(NewLineReader, t)
    BY ReadingStart
  <1>3. p \in Readers(B) /\ Reading(p, t, o, m) /\ Refusing(p, t)
    BY <1>1, <1>2, ReadingChunk
  <1> HIDE DEF p
  <1>4. q \in Readers(B) /\ Reading(q, t, o, Len(t)) /\ Refusing(q, t)
    BY <1>1, <1>3, ReadingChunk
  <1> HIDE DEF q
  <1>5. Scan(SubSeq(t, o + 1, m), SubSeq(t, m + 1, Len(t))) = Finalize(q)
    BY DEF Scan, p, q
  <1> QED BY <1>4, <1>5

(* A scan that takes the text up from a line end, with the tail the last one  *)
(* left (LineReader, ScanReaderFrom and Finalize): unless a line is too long  *)
(* it returns exactly the lines that end in what it read, and as tail exactly *)
(* what the text has behind the last of them, wherever the tail was cut and   *)
(* whatever CRs are in it.                                                    *)
THEOREM ScanReadsLines ==
  ASSUME NEW B, NEW t \in Seq(B), NEW o \in 0 .. Len(t), NEW m \in o .. Len(t), AtEnd(t, o),
         ~Scan(SubSeq(t, o + 1, m), SubSeq(t, m + 1, Len(t))).failed
  PROVE  LET scan == Scan(SubSeq(t, o + 1, m), SubSeq(t, m + 1, Len(t)))
             e    == Len(t) - Len(scan.buf)
         IN  /\ e \in o .. Len(t) /\ AtEnd(t, e)
             /\ scan.buf = SubSeq(t, e + 1, Len(t))
             /\ LinesOf(Prefix(t, e)) = LinesOf(Prefix(t, o)) \o scan.lines
  <1> DEFINE scan == Scan(SubSeq(t, o + 1, m), SubSeq(t, m + 1, Len(t)))
  <1>1. Len(t) \in Nat /\ o \in Nat
    OBVIOUS
  <1>2. PICK q \in Readers(B) : Reading(q, t, o, Len(t)) /\ scan = Finalize(q)
    BY ScanReading
  <1>3. ~q.failed /\ scan.buf = q.buf /\ scan.lines = q.lines
    BY <1>2, FinalizeIs
  <1> HIDE DEF scan
  <1>4. PICK e \in o .. Len(t) :
          /\ AtEnd(t, e)
          /\ q.buf = SubSeq(t, e + 1, Len(t))
          /\ LinesOf(Prefix(t, Len(t))) = LinesOf(Prefix(t, o)) \o q.lines
          /\ LinesOf(Prefix(t, e)) = LinesOf(Prefix(t, Len(t)))
    BY <1>2, <1>3 DEF Reading
  <1>5. Len(SubSeq(t, e + 1, Len(t))) = Len(t) - e
    <2>1. e + 1 \in Int /\ Len(t) \in Int /\ \A i \in e + 1 .. Len(t) : t[i] \in B
      BY <1>1
    <2>2. Len(SubSeq(t, e + 1, Len(t))) = (IF e + 1 <= Len(t) THEN Len(t) - (e + 1) + 1 ELSE 0)
      BY <2>1, SubSeqProperties
    <2> QED BY <1>1, <2>2
  <1>6. e = Len(t) - Len(scan.buf)
    BY <1>1, <1>3, <1>4, <1>5
  <1>7. /\ e \in o .. Len(t) /\ AtEnd(t, e)
         /\ scan.buf = SubSeq(t, e + 1, Len(t))
         /\ LinesOf(Prefix(t, e)) = LinesOf(Prefix(t, o)) \o scan.lines
    BY <1>3, <1>4
  <1> QED BY <1>6, <1>7 DEF scan

(* Such a scan only fails (ErrLineTooLong of LineReader.Write and Finalize)   *)
(* where the text has more than MaxContent bytes without a line end, wherever *)
(* the tail was cut.                                                          *)
THEOREM ScanRefusesLongOnly ==
  ASSUME NEW B, NEW t \in Seq(B), NEW o \in 0 .. Len(t), NEW m \in o .. Len(t), AtEnd(t, o),
         Scan(SubSeq(t, o + 1, m), SubSeq(t, m + 1, Len(t))).failed
  PROVE  LongStretch(t)
  <1>1. PICK q \in Readers(B) :
          /\ Reading(q, t, o, Len(t)) /\ Refusing(q, t)
          /\ Scan(SubSeq(t, o + 1, m), SubSeq(t, m + 1, Len(t))) = Finalize(q)
    BY ScanReading
  <1>2. q.failed \/ Len(q.buf) > MaxContent
    BY <1>1, FinalizeIs
  <1> SUFFICES ASSUME ~q.failed, Len(q.buf) > MaxContent PROVE LongStretch(t)
    BY <1>1, <1>2 DEF Refusing
  <1>3. PICK e \in o .. Len(t) :
          (\A i \in e + 1 .. Len(t) : t[i].ch # LF) /\ q.buf = SubSeq(t, e + 1, Len(t))
    BY <1>1 DEF Reading
  <1>4. Len(t) \in Nat /\ e \in 0 .. Len(t) /\ Len(t) \in e .. Len(t)
    OBVIOUS
  <1>5. Len(SubSeq(t, e + 1, Len(t))) = Len(t) - e
    <2>1. e + 1 \in Int /\ Len(t) \in Int /\ \A i \in e + 1 .. Len(t) : t[i] \in B
      BY <1>4
    <2>2. Len(SubSeq(t, e + 1, Len(t))) = (IF e + 1 <= Len(t) THEN Len(t) - (e + 1) + 1 ELSE 0)
      BY <2>1, SubSeqProperties
    <2> QED BY <1>4, <2>2
  <1>6. Len(t) - e > MaxContent
    BY <1>3, <1>5
  <1> QED BY <1>3, <1>4, <1>6 DEF LongStretch

(* A beginning of the text has the first of its lines.                        *)
LEMMA LinesPrefix ==
  ASSUME NEW B, NEW t \in Seq(B), NEW n \in 0 .. Len(t), NEW m \in n .. Len(t)
  PROVE  /\ Len(LinesOf(Prefix(t, n))) <= Len(LinesOf(Prefix(t, m)))
         /\ LinesOf(Prefix(t, n)) = SubSeq(LinesOf(Prefix(t, m)), 1, Len(LinesOf(Prefix(t, n))))
  <1> DEFINE L(k) == LinesOf(Prefix(t, k))
             N    == Len(L(n))
             S    == {k \in Nat : k <= Len(t) => N <= Len(L(k)) /\ L(n) = SubSeq(L(k), 1, N)}
  <1>1. Len(t) \in Nat /\ n \in Nat /\ m \in Nat /\ n <= m /\ m <= Len(t)
    OBVIOUS
  <1>2. \A k \in 0 .. Len(t) : L(k) \in Seq(Seq(B)) /\ Len(L(k)) \in Nat
    BY PrefixIs, LinesOfType, LenProperties
  <1>3. n \in S
    <2>1. L(n) \in Seq(Seq(B)) /\ N \in Nat
      BY <1>1, <1>2
    <2> HIDE DEF L
    <2>2. L(n) = SubSeq(L(n), 1, N)
      BY <2>1, SubSeqFull
    <2> QED BY <1>1, <2>1, <2>2
  <1>4. ASSUME NEW k \in n .. m - 1, k \in S PROVE k + 1 \in S
    <2>1. /\ k \in 0 .. Len(t) - 1 /\ k \in 0 .. Len(t) /\ k + 1 \in 0 .. Len(t)
          /\ k + 1 \in Nat /\ t[k + 1] \in B
      BY <1>1
    <2>2. N <= Len(L(k)) /\ L(n) = SubSeq(L(k), 1, N)
      BY <1>4, <2>1
    <2>3. Prefix(t, k) \in Seq(B) /\ Prefix(t, k + 1) = Append(Prefix(t, k), t[k + 1])
      BY <2>1, PrefixIs, PrefixNext
    <2>4. L(k + 1) = L(k) \/ \E x : L(k + 1) = Append(L(k), x)
      <3>1. PICK u \in Seq(B), b \in B : u = Prefix(t, k) /\ b = t[k + 1]
        BY <2>1, <2>3
      <3>2. LinesOf(Append(u, b)) = LinesOf(u) \/ \E x : LinesOf(Append(u, b)) = Append(LinesOf(u), x)
        BY LinesOfAppend
      <3> QED BY <2>3, <3>1, <3>2
    <2>5. L(k) \in Seq(Seq(B)) /\ L(k + 1) \in Seq(Seq(B)) /\ N \in Nat
      BY <1>1, <1>2, <2>1
    <2> SUFFICES N <= Len(L(k + 1)) /\ L(n) = SubSeq(L(k + 1), 1, N)
      BY <2>1
    <2> HIDE DEF L, N, S
    <2>6. CASE L(k + 1) = L(k)
      BY <2>2, <2>6
    <2>7. CASE \E x : L(k + 1) = Append(L(k), x)
      <3>1. PICK x : L(k + 1) = Append(L(k), x)
        BY <2>7
      <3>2. PICK u \in Seq(Seq(B)) : u = L(k)
        BY <2>5
      <3>3. Len(Append(u, x)) = Len(u) + 1 /\ Len(u) \in Nat
            /\ \A i \in 1 .. Len(u) : Append(u, x)[i] = u[i]
        BY <3>2
      <3>4. SubSeq(Append(u, x), 1, N) = SubSeq(u, 1, N)
        BY <2>2, <2>5, <3>2, <3>3
      <3>5. N <= Len(u) /\ L(n) = SubSeq(u, 1, N)
        BY <2>2, <3>2
      <3>6. N <= Len(Append(u, x)) /\ L(n) = SubSeq(Append(u, x), 1, N)
        BY <2>5, <3>3, <3>4, <3>5
      <3> QED BY <3>1, <3>2, <3>6
    <2> QED BY <2>4, <2>6, <2>7
  <1> HIDE DEF S
  <1>5. m \in S
    <2>1. n .. m \subseteq S
      BY <1>1, <1>3, <1>4, IntervalInduction
    <2> QED BY <1>1, <2>1
  <1> QED BY <1>1, <1>5 DEF S
=============================================================================
