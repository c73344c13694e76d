--------------------------- MODULE DeathCausesProofs ---------------------------
(* Theorems about DeathEvidence: the causes a death is given are those its    *)
(* last hits name, and with them the types of all variables.                  *)
EXTENDS DeathEvidenceProofs, SequenceTheorems, WellFoundedInduction

-------------------------------------------------------------------------------
(* Induction.  The predicate is a set, so that the provers can instantiate it.*)

LEMMA Induction ==
  ASSUME NEW S, 0 \in S, \A n \in Nat : n \in S => n + 1 \in S
  PROVE  Nat \subseteq S
  <1> SUFFICES ASSUME Nat \ S # {} PROVE FALSE
    OBVIOUS
  <1>1. PICK m \in Nat \ S : \A k \in Nat \ S : <<k, m>> \notin OpToRel(<, Nat)
    BY NatLessThanWellFounded, WFMin
  <1>2. m # 0 /\ m - 1 \in Nat /\ m - 1 < m
    OBVIOUS
  <1>3. m - 1 \in S
    BY <1>1, <1>2 DEF OpToRel
  <1>4. (m - 1) + 1 = m
    OBVIOUS
  <1> QED BY <1>2, <1>3, <1>4

LEMMA InductionUpTo ==
  ASSUME NEW n \in Nat, NEW S, 0 \in S, \A k \in 0 .. n - 1 : k \in S => k + 1 \in S
  PROVE  0 .. n \subseteq S
  <1> DEFINE T == {k \in Nat : k <= n => k \in S}
  <1>1. 0 \in T /\ \A k \in Nat : k \in T => k + 1 \in T
    OBVIOUS
  <1> HIDE DEF T
  <1>2. Nat \subseteq T
    BY <1>1, Induction
  <1> QED BY <1>2 DEF T

-------------------------------------------------------------------------------
(* The loops of snapshotBefore and rankCauses, step by step.                  *)

TakeHit(b, line, i, rest) ==
  IF b[i].line >= line THEN rest
  ELSE IF line - b[i].line > Lookback THEN << >> ELSE << b[i] >> \o rest

IsSnapshotLoop(from, b, line, n) ==
  from = [i \in 0 .. n |-> IF i = 0 THEN << >> ELSE TakeHit(b, line, i, from[i - 1])]

LEMMA SnapshotLoopExists ==
  ASSUME NEW b, NEW line
  PROVE  \A n \in Nat : \E from : IsSnapshotLoop(from, b, line, n)
  <1> DEFINE S == {n \in Nat : \E from : IsSnapshotLoop(from, b, line, n)}
  <1>1. 0 \in S
    <2>1. IsSnapshotLoop([i \in 0 .. 0 |-> << >>], b, line, 0)
      BY DEF IsSnapshotLoop
    <2> QED BY <2>1
  <1>2. ASSUME NEW n \in Nat, n \in S PROVE n + 1 \in S
    <2>1. PICK g : IsSnapshotLoop(g, b, line, n)
      BY <1>2
    <2> DEFINE h == [i \in 0 .. n + 1 |->
                       IF i = n + 1 THEN TakeHit(b, line, n + 1, g[n]) ELSE g[i]]
    <2>2. \A i \in 0 .. n + 1 : h[i] = IF i = 0 THEN << >> ELSE TakeHit(b, line, i, h[i - 1])
      BY <2>1 DEF IsSnapshotLoop
    <2>3. h = [i \in 0 .. n + 1 |-> h[i]]
      OBVIOUS
    <2> HIDE DEF h
    <2>4. IsSnapshotLoop(h, b, line, n + 1)
      BY <2>2, <2>3 DEF IsSnapshotLoop
    <2> QED BY <2>4
  <1> HIDE DEF S
  <1>3. Nat \subseteq S
    BY <1>1, <1>2, Induction
  <1> QED BY <1>3 DEF S

LEMMA SnapshotLoop ==
  ASSUME NEW b, NEW line, Len(b) \in Nat
  PROVE  \E from : /\ SnapshotBefore(b, line) = from[Len(b)] /\ from[0] = << >>
                   /\ \A i \in 1 .. Len(b) : from[i] = TakeHit(b, line, i, from[i - 1])
  <1> DEFINE w == CHOOSE g : IsSnapshotLoop(g, b, line, Len(b))
  <1>1. IsSnapshotLoop(w, b, line, Len(b))
    BY SnapshotLoopExists
  <1>2. w[Len(b)] = SnapshotBefore(b, line)
    BY DEF SnapshotBefore, IsSnapshotLoop, TakeHit
  <1> HIDE DEF w
  <1>3. w[0] = << >> /\ \A i \in 1 .. Len(b) : w[i] = TakeHit(b, line, i, w[i - 1])
    BY <1>1 DEF IsSnapshotLoop
  <1> QED BY <1>2, <1>3

IsRankLoop(after, hits, n) ==
  after = [k \in 0 .. n |-> IF k = 0 THEN << >> ELSE AddCause(after[k - 1], hits[k])]

LEMMA RankLoopExists ==
  ASSUME NEW hits
  PROVE  \A n \in Nat : \E after : IsRankLoop(after, hits, n)
  <1> DEFINE S == {n \in Nat : \E after : IsRankLoop(after, hits, n)}
  <1>1. 0 \in S
    <2>1. IsRankLoop([k \in 0 .. 0 |-> << >>], hits, 0)
      BY DEF IsRankLoop
    <2> QED BY <2>1
  <1>2. ASSUME NEW n \in Nat, n \in S PROVE n + 1 \in S
    <2>1. PICK g : IsRankLoop(g, hits, n)
      BY <1>2
    <2> DEFINE h == [k \in 0 .. n + 1 |->
                       IF k = n + 1 THEN AddCause(g[n], hits[n + 1]) ELSE g[k]]
    <2>2. \A k \in 0 .. n + 1 : h[k] = IF k = 0 THEN << >> ELSE AddCause(h[k - 1], hits[k])
      BY <2>1 DEF IsRankLoop
    <2>3. h = [k \in 0 .. n + 1 |-> h[k]]
      OBVIOUS
    <2> HIDE DEF h
    <2>4. IsRankLoop(h, hits, n + 1)
      BY <2>2, <2>3 DEF IsRankLoop
    <2> QED BY <2>4
  <1> HIDE DEF S
  <1>3. Nat \subseteq S
    BY <1>1, <1>2, Induction
  <1> QED BY <1>3 DEF S

LEMMA RankLoop ==
  ASSUME NEW hits, Len(hits) \in Nat
  PROVE  \E after : /\ RankCauses(hits) = after[Len(hits)] /\ after[0] = << >>
                    /\ \A k \in 1 .. Len(hits) : after[k] = AddCause(after[k - 1], hits[k])
  <1> DEFINE w == CHOOSE g : IsRankLoop(g, hits, Len(hits))
  <1>1. IsRankLoop(w, hits, Len(hits))
    BY RankLoopExists
  <1>2. w[Len(hits)] = RankCauses(hits)
    BY DEF RankCauses, IsRankLoop
  <1> HIDE DEF w
  <1>3. w[0] = << >> /\ \A k \in 1 .. Len(hits) : w[k] = AddCause(w[k - 1], hits[k])
    BY <1>1 DEF IsRankLoop
  <1> QED BY <1>2, <1>3

-------------------------------------------------------------------------------
(* What snapshotBefore takes of a buffer whose hits are in the order of their *)
(* lines, all before the line: the newest ones, up to the lookback.           *)

LEMMA Prepend ==
  ASSUME NEW T, NEW x \in T, NEW t \in Seq(T)
  PROVE  /\ << x >> \o t \in Seq(T) /\ Len(<< x >> \o t) = Len(t) + 1
         /\ (<< x >> \o t)[1] = x
         /\ \A m \in 1 .. Len(t) : (<< x >> \o t)[m + 1] = t[m]
  <1>1. << x >> \in Seq(T) /\ Len(<< x >>) = 1 /\ << x >>[1] = x
    OBVIOUS
  <1>2. /\ << x >> \o t \in Seq(T) /\ Len(<< x >> \o t) = 1 + Len(t)
        /\ \A i \in 1 .. 1 + Len(t) :
             (<< x >> \o t)[i] = IF i <= 1 THEN << x >>[i] ELSE t[i - 1]
    BY <1>1
  <1>3. Len(t) \in Nat
    OBVIOUS
  <1> QED BY <1>1, <1>2, <1>3

LEMMA TakeHitType ==
  ASSUME NEW b \in Seq(Hit), NEW line, NEW i \in 1 .. Len(b), NEW rest \in Seq(Hit)
  PROVE  TakeHit(b, line, i, rest) \in Seq(Hit)
  <1>1. << b[i] >> \o rest \in Seq(Hit)
    BY Prepend
  <1> QED BY <1>1 DEF TakeHit

LEMMA SnapshotType ==
  ASSUME NEW b \in Seq(Hit), NEW line
  PROVE  SnapshotBefore(b, line) \in Seq(Hit)
  <1>1. Len(b) \in Nat
    OBVIOUS
  <1>2. PICK from : /\ SnapshotBefore(b, line) = from[Len(b)] /\ from[0] = << >>
                    /\ \A i \in 1 .. Len(b) : from[i] = TakeHit(b, line, i, from[i - 1])
    BY <1>1, SnapshotLoop
  <1> DEFINE S == {i \in Nat : from[i] \in Seq(Hit)}
  <1>3. 0 \in S
    <2>1. << >> \in Seq(Hit)
      OBVIOUS
    <2> QED BY <1>2, <2>1
  <1>4. ASSUME NEW i \in 0 .. Len(b) - 1, i \in S PROVE i + 1 \in S
    <2>1. i + 1 \in 1 .. Len(b) /\ (i + 1) - 1 = i
      BY <1>1
    <2>2. from[i + 1] = TakeHit(b, line, i + 1, from[i])
      BY <1>2, <2>1
    <2> QED BY <1>4, <2>1, <2>2, TakeHitType
  <1> HIDE DEF S
  <1>5. 0 .. Len(b) \subseteq S
    BY <1>1, <1>3, <1>4, InductionUpTo
  <1>6. Len(b) \in S
    BY <1>1, <1>5
  <1> QED BY <1>2, <1>6 DEF S

Ascending(b) == \A i, j \in 1 .. Len(b) : i < j => b[i].line < b[j].line

(* s is the hits of b[1 .. n] within the lookback, newest first.              *)
NewestHits(s, b, n, line) ==
  \E e \in 0 .. n :
    /\ s \in Seq(Hit) /\ Len(s) = e
    /\ \A m \in 1 .. e : s[m] = b[n - m + 1]
    /\ \A k \in 1 .. n : line - b[k].line <= Lookback <=> k > n - e

LEMMA NewestNext ==
  ASSUME NEW b \in Seq(Hit), NEW line \in Nat, Ascending(b),
         \A k \in 1 .. Len(b) : b[k].line < line,
         NEW n \in 0 .. Len(b) - 1, NEW rest, NewestHits(rest, b, n, line)
  PROVE  NewestHits(TakeHit(b, line, n + 1, rest), b, n + 1, line)
  <1>1. PICK e \in 0 .. n :
          /\ rest \in Seq(Hit) /\ Len(rest) = e
          /\ \A m \in 1 .. e : rest[m] = b[n - m + 1]
          /\ \A k \in 1 .. n : line - b[k].line <= Lookback <=> k > n - e
    BY DEF NewestHits
  <1>2. n + 1 \in 1 .. Len(b) /\ n \in Nat /\ e \in Nat /\ Len(b) \in Nat
    OBVIOUS
  <1>3. \A k \in 1 .. Len(b) : b[k] \in Hit /\ b[k].line \in Nat
    <2>1. \A k \in 1 .. Len(b) : b[k] \in Hit
      OBVIOUS
    <2> QED BY <2>1 DEF Hit
  <1>4. PICK x \in Hit : x = b[n + 1] /\ x.line \in Nat /\ ~(x.line >= line)
    BY <1>2, <1>3
  <1>5. CASE line - x.line > Lookback
    <2>1. TakeHit(b, line, n + 1, rest) = << >>
      BY <1>4, <1>5 DEF TakeHit
    <2>2. \A k \in 1 .. n + 1 : b[k].line \in Nat /\ b[k].line <= x.line
      <3> SUFFICES ASSUME NEW k \in 1 .. n + 1 PROVE b[k].line \in Nat /\ b[k].line <= x.line
        OBVIOUS
      <3>1. k \in 1 .. Len(b) /\ (k = n + 1 \/ k < n + 1)
        BY <1>2
      <3>2. b[k].line \in Nat
        BY <1>3, <3>1
      <3>3. CASE k = n + 1
        BY <1>4, <3>2, <3>3
      <3>4. CASE k < n + 1
        BY <1>2, <1>4, <3>1, <3>2, <3>4 DEF Ascending
      <3> QED BY <3>1, <3>2, <3>3, <3>4
    <2>3. \A k \in 1 .. n + 1 :
            line - b[k].line <= Lookback <=> k > (n + 1) - 0
      BY <1>2, <1>4, <1>5, <2>2, DamageAssumption
    <2>4. << >> \in Seq(Hit) /\ Len(<< >>) = 0 /\ 0 \in 0 .. n + 1
      BY <1>2
    <2> QED BY <2>1, <2>3, <2>4 DEF NewestHits
  <1>6. CASE ~(line - x.line > Lookback)
    <2> DEFINE s == << x >> \o rest
    <2>1. TakeHit(b, line, n + 1, rest) = s
      BY <1>4, <1>6 DEF TakeHit
    <2>2. /\ s \in Seq(Hit) /\ Len(s) = e + 1 /\ s[1] = x
          /\ \A m \in 1 .. e : s[m + 1] = rest[m]
      BY <1>1, Prepend
    <2> HIDE DEF s
    <2>3. \A m \in 1 .. e + 1 : s[m] = b[(n + 1) - m + 1]
      <3> SUFFICES ASSUME NEW m \in 1 .. e + 1 PROVE s[m] = b[(n + 1) - m + 1]
        OBVIOUS
      <3>1. CASE m = 1
        <4>1. (n + 1) - m + 1 = n + 1
          BY <1>2, <3>1
        <4> QED BY <1>4, <2>2, <3>1, <4>1
      <3>2. CASE m # 1
        <4>1. PICK l \in 1 .. e : l = m - 1
          BY <1>2, <3>2
        <4>2. m = l + 1 /\ (n + 1) - m + 1 = n - l + 1
          BY <1>2, <4>1
        <4> QED BY <1>1, <2>2, <4>2
      <3> QED BY <3>1, <3>2
    <2>4. \A k \in 1 .. n + 1 : line - b[k].line <= Lookback <=> k > (n + 1) - (e + 1)
      <3> SUFFICES ASSUME NEW k \in 1 .. n + 1
                   PROVE  line - b[k].line <= Lookback <=> k > (n + 1) - (e + 1)
        OBVIOUS
      <3>1. (n + 1) - (e + 1) = n - e /\ n - e \in 0 .. n
        BY <1>2
      <3>2. CASE k = n + 1
        BY <1>2, <1>4, <1>6, <3>1, <3>2, DamageAssumption
      <3>3. CASE k # n + 1
        BY <1>1, <1>2, <3>1, <3>3
      <3> QED BY <3>2, <3>3
    <2>5. e + 1 \in 0 .. n + 1
      BY <1>2
    <2> QED BY <2>1, <2>2, <2>3, <2>4, <2>5 DEF NewestHits
  <1> QED BY <1>5, <1>6

LEMMA SnapshotIsNewest ==
  ASSUME NEW b \in Seq(Hit), NEW line \in Nat, Ascending(b),
         \A k \in 1 .. Len(b) : b[k].line < line
  PROVE  NewestHits(SnapshotBefore(b, line), b, Len(b), line)
  <1>1. Len(b) \in Nat
    OBVIOUS
  <1>2. PICK from : /\ SnapshotBefore(b, line) = from[Len(b)] /\ from[0] = << >>
                    /\ \A i \in 1 .. Len(b) : from[i] = TakeHit(b, line, i, from[i - 1])
    BY <1>1, SnapshotLoop
  <1> DEFINE S == {i \in Nat : NewestHits(from[i], b, i, line)}
  <1>3. 0 \in S
    <2>1. 0 \in 0 .. 0 /\ << >> \in Seq(Hit) /\ Len(<< >>) = 0
      OBVIOUS
    <2>2. NewestHits(<< >>, b, 0, line)
      BY <2>1 DEF NewestHits
    <2> QED BY <1>2, <2>2
  <1>4. ASSUME NEW i \in 0 .. Len(b) - 1, i \in S PROVE i + 1 \in S
    <2>1. i + 1 \in 1 .. Len(b) /\ (i + 1) - 1 = i
      BY <1>1
    <2>2. from[i + 1] = TakeHit(b, line, i + 1, from[i])
      BY <1>2, <2>1
    <2>3. NewestHits(from[i + 1], b, i + 1, line)
      BY <1>4, <2>2, NewestNext
    <2> QED BY <2>1, <2>3
  <1> HIDE DEF S
  <1>5. 0 .. Len(b) \subseteq S
    BY <1>1, <1>3, <1>4, InductionUpTo
  <1>6. Len(b) \in S
    BY <1>1, <1>5
  <1> QED BY <1>2, <1>6 DEF S

-------------------------------------------------------------------------------
(* What rankCauses makes of hits: one cause for the first hit of each key.    *)

Firsts(s, n)   == {m \in 1 .. n : \A l \in 1 .. m - 1 : s[l].key # s[m].key}
KeysUpTo(s, n) == Cardinality(Firsts(s, n))
CauseOf(hit, rank) == [key |-> hit.key, confidence |-> CauseConfidence(hit, rank = 1)]

Ranked(out, s, n) ==
  /\ out \in Seq(Cause)
  /\ Len(out) = IF KeysUpTo(s, n) < MaxCauses THEN KeysUpTo(s, n) ELSE MaxCauses
  /\ \A m \in Firsts(s, n) :
       KeysUpTo(s, m) <= MaxCauses => out[KeysUpTo(s, m)] = CauseOf(s[m], KeysUpTo(s, m))
  /\ \A i \in 1 .. Len(out) : \E m \in Firsts(s, n) : out[i].key = s[m].key
  /\ KeysUpTo(s, n) < MaxCauses =>
       \A m \in 1 .. n : \E i \in 1 .. Len(out) : out[i].key = s[m].key

LEMMA FirstsFinite ==
  ASSUME NEW s, NEW n \in Nat
  PROVE  IsFiniteSet(Firsts(s, n)) /\ KeysUpTo(s, n) \in Nat
  <1>1. IsFiniteSet(1 .. n)
    BY FS_Interval
  <1>2. Firsts(s, n) \subseteq 1 .. n
    BY DEF Firsts
  <1> QED BY <1>1, <1>2, FS_Subset, FS_CardinalityType DEF KeysUpTo

LEMMA FirstsNext ==
  ASSUME NEW s, NEW n \in Nat
  PROVE  /\ n + 1 \in Firsts(s, n + 1) =>
              Firsts(s, n + 1) = Firsts(s, n) \union {n + 1} /\ KeysUpTo(s, n + 1) = KeysUpTo(s, n) + 1
         /\ n + 1 \notin Firsts(s, n + 1) =>
              Firsts(s, n + 1) = Firsts(s, n) /\ KeysUpTo(s, n + 1) = KeysUpTo(s, n)
  <1>1. \A m : m \in 1 .. n + 1 <=> m \in 1 .. n \/ m = n + 1
    OBVIOUS
  <1>2. n + 1 \notin Firsts(s, n)
    BY DEF Firsts
  <1>3. CASE n + 1 \in Firsts(s, n + 1)
    <2>1. Firsts(s, n + 1) = Firsts(s, n) \union {n + 1}
      BY <1>1, <1>3 DEF Firsts
    <2>2. Cardinality(Firsts(s, n) \union {n + 1}) = Cardinality(Firsts(s, n)) + 1
      BY <1>2, FirstsFinite, FS_AddElement
    <2> QED BY <1>3, <2>1, <2>2 DEF KeysUpTo
  <1>4. CASE n + 1 \notin Firsts(s, n + 1)
    <2>1. Firsts(s, n + 1) = Firsts(s, n)
      BY <1>1, <1>4 DEF Firsts
    <2> QED BY <1>4, <2>1 DEF KeysUpTo
  <1> QED BY <1>3, <1>4

LEMMA FirstsCount ==
  ASSUME NEW s, NEW n \in Nat, NEW m \in Firsts(s, n)
  PROVE  m \in 1 .. n /\ KeysUpTo(s, m) \in Nat /\ KeysUpTo(s, m) >= 1
         /\ KeysUpTo(s, m) <= KeysUpTo(s, n)
  <1>1. m \in 1 .. n /\ m \in Nat /\ m \in Firsts(s, m)
    BY DEF Firsts
  <1>2. Firsts(s, m) \subseteq Firsts(s, n)
    BY <1>1 DEF Firsts
  <1>3. KeysUpTo(s, m) <= KeysUpTo(s, n)
    BY <1>2, FirstsFinite, FS_Subset DEF KeysUpTo
  <1>4. KeysUpTo(s, m) # 0 /\ KeysUpTo(s, m) \in Nat
    BY <1>1, FirstsFinite, FS_EmptySet DEF KeysUpTo
  <1> QED BY <1>1, <1>3, <1>4

LEMMA RankedNothing ==
  ASSUME NEW s
  PROVE  Ranked(<< >>, s, 0)
  <1>1. Firsts(s, 0) = {}
    BY DEF Firsts
  <1>2. KeysUpTo(s, 0) = 0
    BY <1>1, FS_EmptySet DEF KeysUpTo
  <1>3. << >> \in Seq(Cause) /\ Len(<< >>) = 0
    OBVIOUS
  <1> QED BY <1>1, <1>2, <1>3, DamageAssumption DEF Ranked

LEMMA CauseType ==
  ASSUME NEW hit \in Hit, NEW p
  PROVE  [key |-> hit.key, confidence |-> CauseConfidence(hit, p)] \in Cause
  <1>1. hit.key \in CauseKeys /\ hit.damage \in {"overkill", "amount", "nothing"}
    BY DEF Hit, Damages
  <1>2. CauseConfidence(hit, p) \in {"high", "medium", "low"}
    BY <1>1 DEF CauseConfidence
  <1> QED BY <1>1, <1>2 DEF Cause

LEMMA RankedNext ==
  ASSUME NEW s \in Seq(Hit), NEW n \in 0 .. Len(s) - 1, NEW out, Ranked(out, s, n)
  PROVE  Ranked(AddCause(out, s[n + 1]), s, n + 1)
  <1> DEFINE c == KeysUpTo(s, n)
  <1>1. /\ out \in Seq(Cause) /\ Len(out) \in Nat
        /\ Len(out) = IF c < MaxCauses THEN c ELSE MaxCauses
        /\ DOMAIN out = 1 .. Len(out)
    BY DEF Ranked
  <1>2. n \in Nat /\ n + 1 \in 1 .. Len(s) /\ s[n + 1] \in Hit
    OBVIOUS
  <1>3. c \in Nat /\ MaxCauses \in Nat \ {0}
    BY <1>2, FirstsFinite, DamageAssumption
  <1>4. \A m \in Firsts(s, n) :
          /\ m \in 1 .. n /\ KeysUpTo(s, m) \in Nat /\ KeysUpTo(s, m) >= 1 /\ KeysUpTo(s, m) <= c
          /\ KeysUpTo(s, m) <= MaxCauses => out[KeysUpTo(s, m)] = CauseOf(s[m], KeysUpTo(s, m))
    BY <1>2, FirstsCount DEF Ranked
  <1>5. /\ \A i \in 1 .. Len(out) : \E m \in Firsts(s, n) : out[i].key = s[m].key
        /\ c < MaxCauses => \A m \in 1 .. n : \E i \in 1 .. Len(out) : out[i].key = s[m].key
    BY DEF Ranked
  <1>6. \A m \in 1 .. n + 1 : m \in 1 .. n \/ m = n + 1
    BY <1>2
  <1>7. CASE n + 1 \in Firsts(s, n + 1) /\ c < MaxCauses
    <2> DEFINE x == [key |-> s[n + 1].key, confidence |-> CauseConfidence(s[n + 1], out = << >>)]
               q == Append(out, x)
    <2>1. Firsts(s, n + 1) = Firsts(s, n) \union {n + 1} /\ KeysUpTo(s, n + 1) = c + 1
      BY <1>2, <1>7, FirstsNext
    <2>2. \A i \in 1 .. Len(out) : out[i].key # s[n + 1].key
      <3> SUFFICES ASSUME NEW i \in 1 .. Len(out), out[i].key = s[n + 1].key PROVE FALSE
        OBVIOUS
      <3>1. PICK m \in Firsts(s, n) : out[i].key = s[m].key
        BY <1>5
      <3>2. m \in 1 .. (n + 1) - 1
        BY <1>2, <1>4
      <3> QED BY <1>7, <3>1, <3>2 DEF Firsts
    <2>3. Len(out) = c /\ Len(out) # MaxCauses
      BY <1>1, <1>3, <1>7
    <2>4. AddCause(out, s[n + 1]) = q
      BY <1>1, <2>2, <2>3 DEF AddCause
    <2>5. x \in Cause
      BY <1>2, CauseType
    <2>6. x = CauseOf(s[n + 1], c + 1)
      <3>1. out = << >> <=> c + 1 = 1
        BY <1>1, <1>3, <2>3
      <3> QED BY <3>1 DEF CauseOf
    <2>7. x.key = s[n + 1].key
      OBVIOUS
    <2> HIDE DEF x
    <2>8. /\ q \in Seq(Cause) /\ Len(q) = c + 1 /\ q[c + 1] = x
          /\ \A i \in 1 .. c : q[i] = out[i]
      BY <1>1, <2>3, <2>5, AppendProperties
    <2> HIDE DEF q
    <2>9. \A m \in Firsts(s, n + 1) : KeysUpTo(s, m) <= MaxCauses =>
            q[KeysUpTo(s, m)] = CauseOf(s[m], KeysUpTo(s, m))
      <3> SUFFICES ASSUME NEW m \in Firsts(s, n + 1), KeysUpTo(s, m) <= MaxCauses
                   PROVE  q[KeysUpTo(s, m)] = CauseOf(s[m], KeysUpTo(s, m))
        OBVIOUS
      <3>1. CASE m = n + 1
        BY <2>1, <2>6, <2>8, <3>1
      <3>2. CASE m \in Firsts(s, n)
        <4>1. PICK i \in 1 .. c : i = KeysUpTo(s, m)
          BY <1>3, <1>4, <3>2
        <4>2. q[i] = out[i]
          BY <2>8
        <4> QED BY <1>4, <3>2, <4>1, <4>2
      <3> QED BY <2>1, <3>1, <3>2
    <2>10. \A i \in 1 .. c + 1 : \E m \in Firsts(s, n + 1) : q[i].key = s[m].key
      <3> SUFFICES ASSUME NEW i \in 1 .. c + 1
                   PROVE  \E m \in Firsts(s, n + 1) : q[i].key = s[m].key
        OBVIOUS
      <3>1. CASE i = c + 1
        BY <1>7, <2>7, <2>8, <3>1
      <3>2. CASE i # c + 1
        <4>1. i \in 1 .. c
          BY <1>3, <3>2
        <4> QED BY <1>5, <2>1, <2>3, <2>8, <4>1
      <3> QED BY <3>1, <3>2
    <2>11. \A m \in 1 .. n + 1 : \E i \in 1 .. c + 1 : q[i].key = s[m].key
      <3> SUFFICES ASSUME NEW m \in 1 .. n + 1 PROVE \E i \in 1 .. c + 1 : q[i].key = s[m].key
        OBVIOUS
      <3>1. c + 1 \in 1 .. c + 1 /\ \A i \in 1 .. c : i \in 1 .. c + 1
        BY <1>3
      <3>2. CASE m = n + 1
        BY <2>7, <2>8, <3>1, <3>2
      <3>3. CASE m \in 1 .. n
        <4>1. PICK i \in 1 .. c : out[i].key = s[m].key
          BY <1>5, <1>7, <2>3, <3>3
        <4> QED BY <2>8, <3>1, <4>1
      <3> QED BY <1>6, <3>2, <3>3
    <2>12. c + 1 = IF c + 1 < MaxCauses THEN c + 1 ELSE MaxCauses
      BY <1>3, <1>7
    <2> HIDE DEF c
    <2> QED BY <2>1, <2>4, <2>8, <2>9, <2>10, <2>11, <2>12 DEF Ranked
  <1>8. CASE n + 1 \in Firsts(s, n + 1) /\ ~(c < MaxCauses)
    <2>1. Firsts(s, n + 1) = Firsts(s, n) \union {n + 1} /\ KeysUpTo(s, n + 1) = c + 1
      BY <1>2, <1>8, FirstsNext
    <2>2. Len(out) = MaxCauses /\ ~(c + 1 < MaxCauses) /\ ~(c + 1 <= MaxCauses)
      BY <1>1, <1>3, <1>8
    <2>3. AddCause(out, s[n + 1]) = out
      BY <2>2 DEF AddCause
    <2>4. \A m \in Firsts(s, n + 1) : KeysUpTo(s, m) <= MaxCauses => m \in Firsts(s, n)
      BY <2>1, <2>2
    <2> HIDE DEF c
    <2> QED BY <1>1, <1>4, <1>5, <2>1, <2>2, <2>3, <2>4 DEF Ranked
  <1>9. CASE n + 1 \notin Firsts(s, n + 1)
    <2>1. Firsts(s, n + 1) = Firsts(s, n) /\ KeysUpTo(s, n + 1) = c
      BY <1>2, <1>9, FirstsNext
    <2>2. PICK l \in 1 .. n : s[l].key = s[n + 1].key
      BY <1>2, <1>9 DEF Firsts
    <2>3. c < MaxCauses => \E i \in 1 .. Len(out) : out[i].key = s[n + 1].key
      BY <1>5, <2>2
    <2>4. AddCause(out, s[n + 1]) = out
      BY <1>1, <2>3 DEF AddCause
    <2>5. c < MaxCauses =>
            \A m \in 1 .. n + 1 : \E i \in 1 .. Len(out) : out[i].key = s[m].key
      BY <1>5, <1>6, <2>3
    <2> HIDE DEF c
    <2> QED BY <1>1, <1>4, <1>5, <2>1, <2>4, <2>5 DEF Ranked
  <1> QED BY <1>7, <1>8, <1>9

LEMMA CausesAreRanked ==
  ASSUME NEW s \in Seq(Hit)
  PROVE  Ranked(RankCauses(s), s, Len(s))
  <1>1. Len(s) \in Nat
    OBVIOUS
  <1>2. PICK after : /\ RankCauses(s) = after[Len(s)] /\ after[0] = << >>
                     /\ \A k \in 1 .. Len(s) : after[k] = AddCause(after[k - 1], s[k])
    BY <1>1, RankLoop
  <1> DEFINE S == {k \in Nat : Ranked(after[k], s, k)}
  <1>3. 0 \in S
    BY <1>2, RankedNothing
  <1>4. ASSUME NEW k \in 0 .. Len(s) - 1, k \in S PROVE k + 1 \in S
    <2>1. k + 1 \in 1 .. Len(s) /\ (k + 1) - 1 = k
      BY <1>1
    <2>2. after[k + 1] = AddCause(after[k], s[k + 1])
      BY <1>2, <2>1
    <2>3. Ranked(after[k + 1], s, k + 1)
      BY <1>4, <2>2, RankedNext
    <2> QED BY <2>1, <2>3
  <1> HIDE DEF S
  <1>5. 0 .. Len(s) \subseteq S
    BY <1>1, <1>3, <1>4, InductionUpTo
  <1>6. Len(s) \in S
    BY <1>1, <1>5
  <1> QED BY <1>2, <1>6 DEF S

-------------------------------------------------------------------------------
(* The evidence of a death.  b is the damage buffer of a player before the    *)
(* n-th line heard: the last hits on that player, in the order of their lines.*)

SameHit(h, l) == h.key = l.key /\ h.damage = l.damage

LastHitsOn(b, who, n) ==
  /\ b \in Seq(Hit) /\ Len(b) <= Capacity
  /\ Ascending(b)
  /\ \A k \in 1 .. Len(b) :
       b[k].line \in HitsBefore(who, n) /\ SameHit(b[k], HeardLine(b[k].line))
  /\ \A i \in HitsBefore(who, n) :
       (\E k \in 1 .. Len(b) : b[k].line = i) \/ (Len(b) = Capacity /\ i < b[1].line)

LinesOn(s, F) == {s[l].line : l \in F}

(* The lines of distinct positions are distinct, so there are as many.        *)
LEMMA LinesCount ==
  ASSUME NEW s, NEW N \in Nat, NEW F \in SUBSET (1 .. N),
         \A l, m \in 1 .. N : s[l].line = s[m].line => l = m
  PROVE  /\ IsFiniteSet(LinesOn(s, F))
         /\ Cardinality(LinesOn(s, F)) = Cardinality(F)
  <1> DEFINE T == LinesOn(s, F)
             f == [l \in F |-> s[l].line]
  <1>1. IsFiniteSet(F)
    <2>1. IsFiniteSet(1 .. N)
      BY FS_Interval
    <2> QED BY <2>1, FS_Subset
  <1>2. f \in Bijection(F, T)
    BY DEF Bijection, Injection, Surjection, IsInjective, LinesOn
  <1> HIDE DEF f, T
  <1>3. IsFiniteSet(T) /\ Cardinality(T) = Cardinality(F)
    BY <1>1, <1>2, FS_Bijection DEF ExistsBijection
  <1> QED BY <1>3 DEF T

LEMMA HitsFinite ==
  ASSUME NEW who, NEW n \in Nat
  PROVE  /\ HitsBefore(who, n) \subseteq 1 .. n - 1 /\ IsFiniteSet(HitsBefore(who, n))
         /\ \A i : /\ IsFiniteSet({j \in HitsBefore(who, n) : j >= i})
                   /\ Cardinality({j \in HitsBefore(who, n) : j >= i}) \in Nat
  <1>1. HitsBefore(who, n) \subseteq 1 .. n - 1
    BY DEF HitsBefore
  <1>2. IsFiniteSet(1 .. n - 1)
    BY FS_Interval
  <1>3. IsFiniteSet(HitsBefore(who, n))
    BY <1>1, <1>2, FS_Subset
  <1>4. ASSUME NEW i
        PROVE  /\ IsFiniteSet({j \in HitsBefore(who, n) : j >= i})
               /\ Cardinality({j \in HitsBefore(who, n) : j >= i}) \in Nat
    <2>1. {j \in HitsBefore(who, n) : j >= i} \in SUBSET HitsBefore(who, n)
      OBVIOUS
    <2> QED BY <1>3, <2>1, FS_Subset, FS_CardinalityType
  <1> QED BY <1>1, <1>3, <1>4

LEMMA BufferLines ==
  ASSUME NEW b, NEW who, NEW n \in Nat, LastHitsOn(b, who, n)
  PROVE  /\ b \in Seq(Hit) /\ Len(b) \in Nat /\ Len(b) <= Capacity /\ Ascending(b)
         /\ \A k \in 1 .. Len(b) : b[k] \in Hit /\ b[k].line \in 1 .. n - 1
         /\ \A k, m \in 1 .. Len(b) : b[k].line = b[m].line => k = m
         /\ \A k \in 1 .. Len(b) : b[1].line <= b[k].line
  <1>1. b \in Seq(Hit) /\ Len(b) \in Nat /\ Len(b) <= Capacity /\ Ascending(b)
    BY DEF LastHitsOn
  <1>2. \A k \in 1 .. Len(b) : b[k] \in Hit /\ b[k].line \in 1 .. n - 1
    BY <1>1, HitsFinite DEF LastHitsOn
  <1>3. \A k, m \in 1 .. Len(b) : b[k].line = b[m].line => k = m
    <2> SUFFICES ASSUME NEW k \in 1 .. Len(b), NEW m \in 1 .. Len(b), b[k].line = b[m].line, k # m
                 PROVE  FALSE
      OBVIOUS
    <2>1. k < m \/ m < k
      OBVIOUS
    <2>2. b[k].line < b[m].line \/ b[m].line < b[k].line
      BY <1>1, <2>1 DEF Ascending
    <2>3. b[k].line \in Int
      BY <1>2
    <2> QED BY <2>2, <2>3
  <1>4. \A k \in 1 .. Len(b) : b[1].line <= b[k].line
    <2> SUFFICES ASSUME NEW k \in 1 .. Len(b) PROVE b[1].line <= b[k].line
      OBVIOUS
    <2>1. 1 \in 1 .. Len(b) /\ (k = 1 \/ 1 < k)
      BY <1>1
    <2>2. k = 1 \/ b[1].line < b[k].line
      BY <1>1, <2>1 DEF Ascending
    <2>3. b[1].line \in Int /\ b[k].line \in Int
      BY <1>2, <2>1
    <2> QED BY <2>2, <2>3
  <1> QED BY <1>1, <1>2, <1>3, <1>4

(* A hit is among the last Capacity hits exactly if the buffer holds it.      *)
LEMMA BufferHolds ==
  ASSUME NEW b, NEW who, NEW n \in Nat, LastHitsOn(b, who, n), NEW i \in HitsBefore(who, n)
  PROVE  Cardinality({j \in HitsBefore(who, n) : j >= i}) <= Capacity
           <=> \E k \in 1 .. Len(b) : b[k].line = i
  <1> DEFINE H == HitsBefore(who, n)
             A == {j \in H : j >= i}
             B == {b[k].line : k \in 1 .. Len(b)}
  <1>1. /\ Len(b) \in Nat /\ Len(b) <= Capacity /\ Capacity \in Nat
        /\ \A k \in 1 .. Len(b) : b[k].line \in Nat /\ b[1].line <= b[k].line
    BY BufferLines, DamageAssumption
  <1>2. i \in Nat /\ IsFiniteSet(A) /\ Cardinality(A) \in Nat
    BY HitsFinite
  <1>3. IsFiniteSet(B) /\ Cardinality(B) = Len(b)
    <2>1. \A k, m \in 1 .. Len(b) : b[k].line = b[m].line => k = m
      BY BufferLines
    <2>2. PICK N \in Nat : N = Len(b)
      BY <1>1
    <2>3. Cardinality(1 .. N) = N
      <3>1. 1 \in Int /\ N \in Int
        OBVIOUS
      <3>2. Cardinality(1 .. N) = IF 1 > N THEN 0 ELSE N - 1 + 1
        BY <3>1, FS_Interval
      <3> QED BY <3>2
    <2>4. PICK F \in SUBSET (1 .. N) : F = 1 .. N
      OBVIOUS
    <2>5. \A k, m \in 1 .. N : b[k].line = b[m].line => k = m
      BY <2>1, <2>2
    <2>6. IsFiniteSet(LinesOn(b, F)) /\ Cardinality(LinesOn(b, F)) = Cardinality(F)
      BY <2>5, LinesCount
    <2> QED BY <2>2, <2>3, <2>4, <2>6 DEF LinesOn
  <1>4. CASE \E k \in 1 .. Len(b) : b[k].line = i
    <2>1. A \subseteq B
      <3> SUFFICES ASSUME NEW j \in H, j >= i PROVE \E k \in 1 .. Len(b) : b[k].line = j
        OBVIOUS
      <3>1. j \in Nat
        BY HitsFinite
      <3>2. 1 \in 1 .. Len(b) /\ b[1].line <= i /\ b[1].line \in Nat
        BY <1>1, <1>4
      <3>3. ~(j < b[1].line)
        BY <1>2, <3>1, <3>2
      <3> QED BY <3>3 DEF LastHitsOn
    <2> HIDE DEF A, B
    <2>2. Cardinality(A) <= Cardinality(B)
      BY <1>3, <2>1, FS_Subset
    <2>3. Cardinality(A) <= Capacity
      BY <1>1, <1>2, <1>3, <2>2
    <2> QED BY <1>4, <2>3 DEF A
  <1>5. CASE ~\E k \in 1 .. Len(b) : b[k].line = i
    <2>1. Len(b) = Capacity /\ i < b[1].line
      BY <1>5 DEF LastHitsOn
    <2>2. B \union {i} \subseteq A /\ i \notin B
      <3>1. \A k \in 1 .. Len(b) : b[k].line >= i /\ b[k].line \in H
        <4>1. \A k \in 1 .. Len(b) : b[k].line \in H
          BY DEF LastHitsOn
        <4>2. \A k \in 1 .. Len(b) : b[k].line >= i
          <5> SUFFICES ASSUME NEW k \in 1 .. Len(b) PROVE b[k].line >= i
            OBVIOUS
          <5>1. 1 \in 1 .. Len(b)
            BY <1>1
          <5>2. b[1].line \in Nat /\ b[k].line \in Nat /\ b[1].line <= b[k].line
            BY <1>1, <5>1
          <5> QED BY <1>2, <2>1, <5>2
        <4> QED BY <4>1, <4>2
      <3>2. i >= i
        BY <1>2
      <3> QED BY <1>5, <3>1, <3>2
    <2> HIDE DEF A, B
    <2>3. IsFiniteSet(B \union {i}) /\ Cardinality(B \union {i}) = Len(b) + 1
      BY <1>3, <2>2, FS_AddElement
    <2>4. Cardinality(B \union {i}) <= Cardinality(A)
      BY <1>2, <2>2, FS_Subset
    <2>5. ~(Cardinality(A) <= Capacity)
      BY <1>1, <1>2, <2>1, <2>3, <2>4
    <2> QED BY <1>5, <2>5 DEF A
  <1> QED BY <1>4, <1>5

(* s is the evidence of a death of who at the n-th line, newest first.        *)
IsEvidence(s, who, n) ==
  /\ s \in Seq(Hit)
  /\ \A l, m \in 1 .. Len(s) : l < m => s[m].line < s[l].line
  /\ \A m \in 1 .. Len(s) :
       s[m].line \in Evidence(who, n) /\ SameHit(s[m], HeardLine(s[m].line))
  /\ \A i \in Evidence(who, n) : \E m \in 1 .. Len(s) : s[m].line = i

LEMMA SnapshotIsEvidence ==
  ASSUME NEW b, NEW who, NEW n \in Nat, LastHitsOn(b, who, n)
  PROVE  IsEvidence(SnapshotBefore(b, n), who, n)
  <1>1. /\ b \in Seq(Hit) /\ Len(b) \in Nat /\ Ascending(b)
        /\ \A k \in 1 .. Len(b) : b[k] \in Hit /\ b[k].line \in 1 .. n - 1
    BY BufferLines
  <1>2. \A k \in 1 .. Len(b) : b[k].line < n
    BY <1>1
  <1>3. PICK s : s = SnapshotBefore(b, n)
    OBVIOUS
  <1>4. NewestHits(s, b, Len(b), n)
    BY <1>1, <1>2, <1>3, SnapshotIsNewest
  <1>5. PICK N \in Nat : N = Len(b)
    BY <1>1
  <1>6. PICK e \in 0 .. N :
          /\ s \in Seq(Hit) /\ Len(s) = e
          /\ \A m \in 1 .. e : s[m] = b[N - m + 1]
          /\ \A k \in 1 .. N : n - b[k].line <= Lookback <=> k > N - e
    BY <1>4, <1>5 DEF NewestHits
  <1>7. \A m \in 1 .. e : /\ N - m + 1 \in 1 .. N /\ N - m + 1 > N - e
                          /\ s[m] = b[N - m + 1]
    BY <1>6
  <1>8. \A l, m \in 1 .. e : l < m => s[m].line < s[l].line
    <2> SUFFICES ASSUME NEW l \in 1 .. e, NEW m \in 1 .. e, l < m PROVE s[m].line < s[l].line
      OBVIOUS
    <2>1. PICK i \in 1 .. N : i = N - m + 1 /\ s[m] = b[i]
      BY <1>7
    <2>2. PICK j \in 1 .. N : j = N - l + 1 /\ s[l] = b[j]
      BY <1>7
    <2>3. i < j
      BY <2>1, <2>2
    <2> QED BY <1>1, <1>5, <2>1, <2>2, <2>3 DEF Ascending
  <1>9. \A m \in 1 .. e : s[m].line \in Evidence(who, n) /\ SameHit(s[m], HeardLine(s[m].line))
    <2> SUFFICES ASSUME NEW m \in 1 .. e
                 PROVE  s[m].line \in Evidence(who, n) /\ SameHit(s[m], HeardLine(s[m].line))
      OBVIOUS
    <2>1. PICK i \in 1 .. N : i > N - e /\ s[m] = b[i]
      BY <1>7
    <2>2. n - b[i].line <= Lookback
      BY <1>6, <2>1
    <2>3. b[i].line \in HitsBefore(who, n) /\ SameHit(b[i], HeardLine(b[i].line))
      BY <1>5 DEF LastHitsOn
    <2>4. Cardinality({j \in HitsBefore(who, n) : j >= b[i].line}) <= Capacity
      <3>1. PICK x \in HitsBefore(who, n) : x = b[i].line
        BY <2>3
      <3>2. \E k \in 1 .. Len(b) : b[k].line = x
        BY <1>5, <3>1
      <3>3. Cardinality({j \in HitsBefore(who, n) : j >= x}) <= Capacity
        BY <3>2, BufferHolds
      <3> QED BY <3>1, <3>3
    <2> QED BY <2>1, <2>2, <2>3, <2>4 DEF Evidence
  <1>10. \A i \in Evidence(who, n) : \E m \in 1 .. e : s[m].line = i
    <2> SUFFICES ASSUME NEW i \in Evidence(who, n) PROVE \E m \in 1 .. e : s[m].line = i
      OBVIOUS
    <2>1. /\ i \in HitsBefore(who, n) /\ n - i <= Lookback
          /\ Cardinality({j \in HitsBefore(who, n) : j >= i}) <= Capacity
      BY DEF Evidence
    <2>2. PICK k \in 1 .. N : b[k].line = i
      BY <1>5, <2>1, BufferHolds
    <2>3. k > N - e
      BY <1>6, <2>1, <2>2
    <2>4. PICK m \in 1 .. e : m = N - k + 1
      BY <2>3
    <2>5. N - m + 1 = k
      BY <2>4
    <2> QED BY <1>6, <2>2, <2>5
  <1> QED BY <1>3, <1>6, <1>8, <1>9, <1>10 DEF IsEvidence

(* What CausesFromLog asks of the causes of a death of who at the n-th line.  *)
CausesAre(causes, who, n) ==
  /\ Len(causes) = (IF Cardinality(LastHits(who, n)) < MaxCauses
                    THEN Cardinality(LastHits(who, n)) ELSE MaxCauses)
  /\ \A i \in LastHits(who, n) : Rank(i, LastHits(who, n)) <= MaxCauses =>
       causes[Rank(i, LastHits(who, n))] =
         [key        |-> HeardLine(i).key,
          confidence |-> CauseConfidence(HeardLine(i), Rank(i, LastHits(who, n)) = 1)]

LEMMA EvidenceLines ==
  ASSUME NEW s, NEW who, NEW n \in Nat, IsEvidence(s, who, n)
  PROVE  /\ Len(s) \in Nat
         /\ \A m \in 1 .. Len(s) : s[m].line \in Evidence(who, n) /\ s[m].line \in Nat
         /\ \A m \in 1 .. Len(s) : SameHit(s[m], HeardLine(s[m].line))
         /\ \A l, m \in 1 .. Len(s) : l < m => s[m].line < s[l].line
         /\ \A i \in Evidence(who, n) : \E m \in 1 .. Len(s) : s[m].line = i
  <1>1. Evidence(who, n) \subseteq HitsBefore(who, n)
    BY DEF Evidence
  <1>2. HitsBefore(who, n) \subseteq Nat
    BY HitsFinite
  <1>3. Len(s) \in Nat
    BY DEF IsEvidence
  <1>4. \A m \in 1 .. Len(s) : s[m].line \in Evidence(who, n)
    BY DEF IsEvidence
  <1> QED BY <1>1, <1>2, <1>3, <1>4 DEF IsEvidence

LEMMA LastHitsAreFirsts ==
  ASSUME NEW s, NEW who, NEW n \in Nat, IsEvidence(s, who, n)
  PROVE  LastHits(who, n) = LinesOn(s, Firsts(s, Len(s)))
  <1>1. PICK N \in Nat : N = Len(s)
    BY EvidenceLines
  <1>2. /\ \A m \in 1 .. N : s[m].line \in Evidence(who, n) /\ s[m].line \in Nat
        /\ \A m \in 1 .. N : s[m].key = HeardLine(s[m].line).key
        /\ \A l, m \in 1 .. N : l < m => s[m].line < s[l].line
        /\ \A i \in Evidence(who, n) : \E m \in 1 .. N : s[m].line = i
    BY <1>1, EvidenceLines DEF SameHit
  <1>3. \A m \in 1 .. N : s[m].line \in LastHits(who, n) <=> m \in Firsts(s, N)
    <2> SUFFICES ASSUME NEW m \in 1 .. N
                 PROVE  s[m].line \in LastHits(who, n) <=> m \in Firsts(s, N)
      OBVIOUS
    <2>1. ASSUME m \in Firsts(s, N), NEW j \in Evidence(who, n),
                 HeardLine(j).key = HeardLine(s[m].line).key
          PROVE  j <= s[m].line
      <3>1. PICK l \in 1 .. N : s[l].line = j
        BY <1>2
      <3>2. s[l].key = s[m].key
        BY <1>2, <2>1, <3>1
      <3>3. ~(l \in 1 .. m - 1)
        BY <2>1, <3>2 DEF Firsts
      <3>4. l = m \/ m < l
        BY <3>3
      <3>5. s[l].line \in Nat /\ s[m].line \in Nat
        BY <1>2
      <3> QED BY <1>2, <3>1, <3>4, <3>5
    <2>2. ASSUME s[m].line \in LastHits(who, n), NEW l \in 1 .. m - 1, s[l].key = s[m].key
          PROVE  FALSE
      <3>1. l \in 1 .. N /\ l < m
        OBVIOUS
      <3>2. s[m].line < s[l].line /\ s[l].line \in Evidence(who, n)
        BY <1>2, <3>1
      <3>3. HeardLine(s[l].line).key = HeardLine(s[m].line).key
        BY <1>2, <2>2, <3>1
      <3>4. s[l].line <= s[m].line
        BY <2>2, <3>2, <3>3 DEF LastHits
      <3>5. s[l].line \in Nat /\ s[m].line \in Nat
        BY <1>2, <3>1
      <3> QED BY <3>2, <3>4, <3>5
    <2>3. m \in Firsts(s, N) => s[m].line \in LastHits(who, n)
      BY <1>2, <2>1 DEF LastHits
    <2>4. s[m].line \in LastHits(who, n) => m \in Firsts(s, N)
      BY <2>2 DEF Firsts
    <2> QED BY <2>3, <2>4
  <1>4. \A i \in LastHits(who, n) : \E m \in 1 .. N : s[m].line = i
    BY <1>2 DEF LastHits
  <1>5. Firsts(s, N) \subseteq 1 .. N
    BY DEF Firsts
  <1> QED BY <1>1, <1>3, <1>4, <1>5 DEF LinesOn

LEMMA RankedAreCauses ==
  ASSUME NEW s, NEW who, NEW n \in Nat, IsEvidence(s, who, n),
         NEW causes, Ranked(causes, s, Len(s))
  PROVE  CausesAre(causes, who, n)
  <1>1. PICK N \in Nat : N = Len(s)
    BY EvidenceLines
  <1>2. /\ \A m \in 1 .. N : s[m].line \in Nat /\ SameHit(s[m], HeardLine(s[m].line))
        /\ \A l, m \in 1 .. N : l < m => s[m].line < s[l].line
    BY <1>1, EvidenceLines
  <1>3. \A l, m \in 1 .. N : s[l].line = s[m].line => l = m
    <2> SUFFICES ASSUME NEW l \in 1 .. N, NEW m \in 1 .. N, s[l].line = s[m].line, l # m
                 PROVE  FALSE
      OBVIOUS
    <2>1. l < m \/ m < l
      OBVIOUS
    <2>2. s[l].line \in Nat /\ s[m].line \in Nat
      BY <1>2
    <2> QED BY <1>2, <2>1, <2>2
  <1>4. PICK L : L = LastHits(who, n) /\ L = LinesOn(s, Firsts(s, N))
    BY <1>1, LastHitsAreFirsts
  <1>5. \A k \in 0 .. N : Cardinality(LinesOn(s, Firsts(s, k))) = KeysUpTo(s, k)
    <2> SUFFICES ASSUME NEW k \in 0 .. N
                 PROVE  Cardinality(LinesOn(s, Firsts(s, k))) = KeysUpTo(s, k)
      OBVIOUS
    <2>1. PICK F \in SUBSET (1 .. N) : F = Firsts(s, k)
      <3>1. Firsts(s, k) \subseteq 1 .. N
        BY DEF Firsts
      <3> QED BY <3>1
    <2>2. Cardinality(LinesOn(s, F)) = Cardinality(F)
      BY <1>3, LinesCount
    <2> QED BY <2>1, <2>2 DEF KeysUpTo
  <1>6. Cardinality(L) = KeysUpTo(s, N)
    BY <1>4, <1>5
  <1>7. \A m \in Firsts(s, N) : Rank(s[m].line, L) = KeysUpTo(s, m)
    <2> SUFFICES ASSUME NEW m \in Firsts(s, N) PROVE Rank(s[m].line, L) = KeysUpTo(s, m)
      OBVIOUS
    <2>1. m \in 1 .. N /\ m \in 0 .. N
      BY DEF Firsts
    <2>2. \A l \in Firsts(s, N) : l \in Firsts(s, m) <=> s[l].line >= s[m].line
      <3> SUFFICES ASSUME NEW l \in Firsts(s, N)
                   PROVE  l \in Firsts(s, m) <=> s[l].line >= s[m].line
        OBVIOUS
      <3>1. l \in 1 .. N /\ s[l].line \in Nat /\ s[m].line \in Nat
        BY <1>2, <2>1 DEF Firsts
      <3>2. l < m \/ l = m \/ m < l
        BY <2>1, <3>1
      <3>3. s[l].line >= s[m].line <=> l <= m
        <4>1. CASE l = m
          BY <2>1, <3>1, <4>1
        <4>2. CASE l < m
          <5>1. s[m].line < s[l].line
            BY <1>2, <2>1, <3>1, <4>2
          <5> QED BY <2>1, <3>1, <4>2, <5>1
        <4>3. CASE m < l
          <5>1. s[l].line < s[m].line
            BY <1>2, <2>1, <3>1, <4>3
          <5> QED BY <2>1, <3>1, <4>3, <5>1
        <4> QED BY <3>2, <4>1, <4>2, <4>3
      <3>4. l \in Firsts(s, m) <=> l <= m
        BY <2>1, <3>1 DEF Firsts
      <3> QED BY <3>3, <3>4
    <2>3. Firsts(s, m) \subseteq Firsts(s, N)
      BY <2>1 DEF Firsts
    <2>4. {j \in L : j >= s[m].line} = LinesOn(s, Firsts(s, m))
      BY <1>4, <2>2, <2>3 DEF LinesOn
    <2> QED BY <1>5, <2>1, <2>4 DEF Rank
  <1>8. /\ Len(causes) = (IF Cardinality(L) < MaxCauses THEN Cardinality(L) ELSE MaxCauses)
        /\ \A m \in Firsts(s, N) : KeysUpTo(s, m) <= MaxCauses =>
             causes[KeysUpTo(s, m)] = CauseOf(s[m], KeysUpTo(s, m))
    BY <1>1, <1>6 DEF Ranked
  <1>9. \A i \in L : Rank(i, L) <= MaxCauses =>
          causes[Rank(i, L)] = [key        |-> HeardLine(i).key,
                                confidence |-> CauseConfidence(HeardLine(i), Rank(i, L) = 1)]
    <2> SUFFICES ASSUME NEW i \in L, Rank(i, L) <= MaxCauses
                 PROVE  causes[Rank(i, L)] =
                          [key        |-> HeardLine(i).key,
                           confidence |-> CauseConfidence(HeardLine(i), Rank(i, L) = 1)]
      OBVIOUS
    <2>1. PICK m \in Firsts(s, N) : i = s[m].line
      BY <1>4 DEF LinesOn
    <2>2. PICK r : r = Rank(i, L) /\ r = KeysUpTo(s, m) /\ r <= MaxCauses
      BY <1>7, <2>1
    <2>3. causes[r] = CauseOf(s[m], r)
      BY <1>8, <2>2
    <2>4. SameHit(s[m], HeardLine(i))
      BY <1>2, <2>1 DEF Firsts
    <2>5. CauseConfidence(s[m], r = 1) = CauseConfidence(HeardLine(i), r = 1)
      BY <2>4 DEF SameHit, CauseConfidence
    <2> QED BY <2>2, <2>3, <2>4, <2>5 DEF CauseOf, SameHit
  <1> QED BY <1>4, <1>8, <1>9 DEF CausesAre

LEMMA BufferGivesCauses ==
  ASSUME NEW b, NEW who, NEW n \in Nat, LastHitsOn(b, who, n)
  PROVE  CausesAre(RankCauses(SnapshotBefore(b, n)), who, n)
  <1>1. PICK s : s = SnapshotBefore(b, n)
    OBVIOUS
  <1>2. IsEvidence(s, who, n)
    BY <1>1, SnapshotIsEvidence
  <1>3. Ranked(RankCauses(s), s, Len(s))
    BY <1>2, CausesAreRanked DEF IsEvidence
  <1> QED BY <1>1, <1>2, <1>3, RankedAreCauses

-------------------------------------------------------------------------------
(* Types.                                                                     *)

(* What TypeInv leaves out.                                                   *)
VarTypes ==
  /\ events \subseteq Place
  /\ pc \in {"down", "idle", "scan"}
  /\ lineNumber \in 0 .. pos /\ (pc = "down" => lineNumber = 0)
  /\ buffers \in [Players -> Seq(Hit)] /\ \A p \in Players : Len(buffers[p]) <= Capacity
  /\ deaths \in Seq(Candidate)
  /\ starts \in 0 .. MaxStarts

(* As long as all lines heard are of the file that is followed, their number  *)
(* is the line number of the last; and while they are of one file, a buffer   *)
(* is the last hits among them.                                               *)
HeardHere == \A i \in DOMAIN heard : heard[i].file = file

BuffersAreLastHits ==
  HeardOneFile =>
    \A p \in Players : \A b, n :
      b = buffers[p] /\ n = Len(heard) + 1 => LastHitsOn(b, p, n)

DeathsKnowCauses ==
  HeardOneFile =>
    \A k \in DOMAIN deaths : \A causes, who, n :
      causes = deaths[k].causes /\ n = deaths[k].heardAt /\ who = HeardLine(n).who =>
        CausesAre(causes, who, n)

CauseInv ==
  /\ \A i \in DOMAIN heard : heard[i].file <= file
  /\ HeardHere => lineNumber = Len(heard)
  /\ \A k \in DOMAIN deaths : deaths[k].place = heard[deaths[k].heardAt]
  /\ BuffersAreLastHits
  /\ DeathsKnowCauses


-------------------------------------------------------------------------------
(* What Tracker.Observe does to a buffer: a hit more, and the oldest one less *)
(* if it was full.                                                            *)
Added(c, b, h) ==
  /\ c \in Seq(Hit) /\ Len(c) <= Capacity
  /\ \E d \in {0, 1} :
       /\ d = 1 <=> Len(b) = Capacity
       /\ d <= Len(b) /\ Len(c) = Len(b) - d + 1
       /\ \A k \in 1 .. Len(b) - d : c[k] = b[k + d]
       /\ c[Len(b) - d + 1] = h

LEMMA AddIs ==
  ASSUME NEW b \in Seq(Hit), Len(b) <= Capacity, NEW h \in Hit
  PROVE  Added(Add(b, h), b, h)
  <1>1. Len(b) \in Nat /\ Capacity \in Nat \ {0}
    BY DamageAssumption
  <1>2. CASE Len(b) = Capacity
    <2>1. Add(b, h) = Append(Tail(b), h)
      BY <1>2 DEF Add
    <2>2. /\ Tail(b) \in Seq(Hit) /\ Len(Tail(b)) = Len(b) - 1
          /\ \A k \in 1 .. Len(b) - 1 : Tail(b)[k] = b[k + 1]
      <3>1. b # << >>
        BY <1>1, <1>2
      <3> QED BY <1>1, <3>1
    <2>3. PICK t : t = Tail(b)
      OBVIOUS
    <2>4. /\ Append(t, h) \in Seq(Hit) /\ Len(Append(t, h)) = Len(b)
          /\ \A k \in 1 .. Len(b) - 1 : Append(t, h)[k] = b[k + 1]
          /\ Append(t, h)[Len(b)] = h
      BY <1>1, <2>2, <2>3
    <2>5. /\ Add(b, h) \in Seq(Hit) /\ Len(Add(b, h)) = Len(b)
          /\ \A k \in 1 .. Len(b) - 1 : Add(b, h)[k] = b[k + 1]
          /\ Add(b, h)[Len(b)] = h
      BY <2>1, <2>3, <2>4
    <2> QED BY <1>1, <1>2, <2>5 DEF Added
  <1>3. CASE Len(b) # Capacity
    <2>1. Add(b, h) = Append(b, h)
      BY <1>3 DEF Add
    <2>2. /\ Append(b, h) \in Seq(Hit) /\ Len(Append(b, h)) = Len(b) + 1
          /\ \A k \in 1 .. Len(b) : Append(b, h)[k] = b[k]
          /\ Append(b, h)[Len(b) + 1] = h
      OBVIOUS
    <2> QED BY <1>1, <1>3, <2>1, <2>2 DEF Added
  <1> QED BY <1>2, <1>3

(* A line heard counts as a hit on a player, or it does not.                  *)
IsHit(i, who) ==
  HeardLine(i).kind = "damage" /\ HeardLine(i).who = who /\ MayInterpret(heard[i])

LEMMA HitsNext ==
  ASSUME NEW who, NEW n \in Nat \ {0}
  PROVE  \A i : i \in HitsBefore(who, n + 1)
                  <=> i \in HitsBefore(who, n) \/ (i = n /\ IsHit(n, who))
  <1>1. 1 .. (n + 1) - 1 = (1 .. n - 1) \union {n}
    OBVIOUS
  <1> QED BY <1>1 DEF HitsBefore, IsHit

LEMMA LastHitsSkip ==
  ASSUME NEW b, NEW who, NEW n \in Nat \ {0}, LastHitsOn(b, who, n), ~IsHit(n, who)
  PROVE  LastHitsOn(b, who, n + 1)
  <1>1. \A i : i \in HitsBefore(who, n + 1) <=> i \in HitsBefore(who, n)
    BY HitsNext
  <1> QED BY <1>1 DEF LastHitsOn

LEMMA LastHitsAdd ==
  ASSUME NEW b, NEW who, NEW n \in Nat \ {0}, LastHitsOn(b, who, n), IsHit(n, who),
         NEW h \in Hit, h.line = n, SameHit(h, HeardLine(n))
  PROVE  LastHitsOn(Add(b, h), who, n + 1)
  <1>1. /\ b \in Seq(Hit) /\ Len(b) \in Nat /\ Len(b) <= Capacity /\ Ascending(b)
        /\ \A k \in 1 .. Len(b) : b[k] \in Hit /\ b[k].line \in 1 .. n - 1
    BY BufferLines
  <1>2. PICK c : c = Add(b, h)
    OBVIOUS
  <1>3. PICK N \in Nat, M \in Nat, d \in {0, 1} :
          /\ N = Len(b) /\ M = Len(c) /\ M = N - d + 1 /\ d <= N
          /\ d = 1 <=> N = Capacity
          /\ c \in Seq(Hit) /\ M <= Capacity
          /\ \A k \in 1 .. N - d : c[k] = b[k + d]
          /\ c[M] = h
    <2>1. Added(c, b, h)
      BY <1>1, <1>2, AddIs
    <2>2. Len(c) \in Nat
      BY <2>1 DEF Added
    <2> QED BY <1>1, <2>1, <2>2 DEF Added
  <1>4. \A k \in 1 .. M : k = M \/ (k \in 1 .. N - d /\ k + d \in 1 .. N /\ c[k] = b[k + d])
    BY <1>3
  <1>5. Ascending(c)
    <2> SUFFICES ASSUME NEW k \in 1 .. M, NEW m \in 1 .. M, k < m
                 PROVE  c[k].line < c[m].line
      BY <1>3 DEF Ascending
    <2>1. PICK i \in 1 .. N : i = k + d /\ c[k] = b[i]
      BY <1>4
    <2>2. CASE m = M
      BY <1>1, <1>3, <2>1, <2>2
    <2>3. CASE m # M
      <3>1. PICK j \in 1 .. N : j = m + d /\ c[m] = b[j]
        BY <1>4, <2>3
      <3>2. i < j
        BY <2>1, <3>1
      <3> QED BY <1>1, <1>3, <2>1, <3>1, <3>2 DEF Ascending
    <2> QED BY <2>2, <2>3
  <1>6. \A k \in 1 .. M :
           c[k].line \in HitsBefore(who, n + 1) /\ SameHit(c[k], HeardLine(c[k].line))
    <2> SUFFICES ASSUME NEW k \in 1 .. M
                 PROVE  /\ c[k].line \in HitsBefore(who, n + 1)
                        /\ SameHit(c[k], HeardLine(c[k].line))
      OBVIOUS
    <2>1. CASE k = M
      BY <1>3, <2>1, HitsNext
    <2>2. ASSUME NEW i \in 1 .. N, c[k] = b[i]
          PROVE  /\ c[k].line \in HitsBefore(who, n + 1)
                 /\ SameHit(c[k], HeardLine(c[k].line))
      <3>1. b[i].line \in HitsBefore(who, n) /\ SameHit(b[i], HeardLine(b[i].line))
        BY <1>3 DEF LastHitsOn
      <3> QED BY <2>2, <3>1, HitsNext
    <2> QED BY <1>4, <2>1, <2>2
  <1>7. \A i \in HitsBefore(who, n + 1) :
           (\E k \in 1 .. M : c[k].line = i) \/ (M = Capacity /\ i < c[1].line)
    <2> SUFFICES ASSUME NEW i \in HitsBefore(who, n + 1), ~\E k \in 1 .. M : c[k].line = i
                 PROVE  M = Capacity /\ i < c[1].line
      OBVIOUS
    <2>1. M \in 1 .. M /\ 1 \in 1 .. M
      BY <1>3
    <2>2. i # n /\ i \in HitsBefore(who, n)
      BY <1>3, <2>1, HitsNext
    <2>3. i \in 1 .. n - 1
      BY <2>2, HitsFinite
    <2>4. CASE \E k \in 1 .. N : b[k].line = i
      <3>1. PICK k \in 1 .. N : b[k].line = i
        BY <2>4
      <3>2. ~(k - d \in 1 .. N - d)
        <4>1. ASSUME NEW m \in 1 .. N - d, m = k - d PROVE FALSE
          <5>1. m \in 1 .. M /\ m + d = k
            BY <1>3, <4>1
          <5>2. c[m] = b[k]
            BY <1>3, <4>1, <5>1
          <5> QED BY <3>1, <5>1, <5>2
        <4> QED BY <4>1
      <3>3. d = 1 /\ k = 1
        BY <1>3, <3>2
      <3>4. CASE N = 1
        BY <1>3, <2>3, <3>3, <3>4
      <3>5. CASE N # 1
        <4>1. 1 \in 1 .. N - d /\ 2 \in 1 .. N /\ c[1] = b[2]
          BY <1>3, <3>3, <3>5
        <4>2. b[1].line < b[2].line
          BY <1>1, <1>3, <3>3, <4>1 DEF Ascending
        <4> QED BY <1>3, <3>1, <3>3, <4>1, <4>2
      <3> QED BY <3>4, <3>5
    <2>5. CASE ~\E k \in 1 .. N : b[k].line = i
      <3>1. N = Capacity /\ i < b[1].line
        BY <1>3, <2>2, <2>5 DEF LastHitsOn
      <3>2. d = 1 /\ M = N
        BY <1>3, <3>1
      <3>3. CASE N = 1
        BY <1>3, <2>3, <3>1, <3>2, <3>3
      <3>4. CASE N # 1
        <4>1. 1 \in 1 .. N - d /\ 1 \in 1 .. N /\ 2 \in 1 .. N /\ c[1] = b[2]
          BY <1>3, <3>2, <3>4
        <4>2. b[1].line < b[2].line /\ b[1].line \in Nat /\ b[2].line \in Nat
          BY <1>1, <1>3, <4>1 DEF Ascending
        <4> QED BY <2>3, <3>1, <3>2, <4>1, <4>2
      <3> QED BY <3>3, <3>4
    <2> QED BY <2>4, <2>5
  <1> QED BY <1>2, <1>3, <1>5, <1>6, <1>7 DEF LastHitsOn

HitsFollow ==
  \A who, b : \A n \in Nat \ {0} : LastHitsOn(b, who, n) =>
    /\ ~IsHit(n, who) => LastHitsOn(b, who, n + 1)
    /\ \A h \in Hit : IsHit(n, who) /\ h.line = n /\ SameHit(h, HeardLine(n)) =>
         LastHitsOn(Add(b, h), who, n + 1)

LEMMA HitsFollowAlways == HitsFollow
  BY LastHitsSkip, LastHitsAdd DEF HitsFollow

LEMMA HitsFollowPrime == HitsFollow'
  <1>1. HitsFollow
    BY HitsFollowAlways
  <1> QED BY <1>1, PTL


(* Lines that are heard again as they were leave the evidence where it was.   *)
LEMMA CausesSame ==
  ASSUME NEW n \in Nat, NEW who,
         \A i \in 1 .. n - 1 : /\ HeardLine(i)' = HeardLine(i)
                               /\ MayInterpret(heard[i])' <=> MayInterpret(heard[i])
  PROVE  /\ \A b : LastHitsOn(b, who, n) => LastHitsOn(b, who, n)'
         /\ \A causes : CausesAre(causes, who, n) => CausesAre(causes, who, n)'
  <1>1. HitsBefore(who, n)' = HitsBefore(who, n) /\ HitsBefore(who, n) \subseteq 1 .. n - 1
    BY DEF HitsBefore
  <1>2. ASSUME NEW b, LastHitsOn(b, who, n)
        PROVE  LastHitsOn(b, who, n)'
    <2>1. \A k \in 1 .. Len(b) : HeardLine(b[k].line)' = HeardLine(b[k].line)
      <3>1. \A k \in 1 .. Len(b) : b[k].line \in 1 .. n - 1
        BY <1>1, <1>2 DEF LastHitsOn
      <3> QED BY <3>1
    <2> QED BY <1>1, <1>2, <2>1 DEF LastHitsOn, SameHit
  <1>3. Evidence(who, n)' = Evidence(who, n) /\ Evidence(who, n) \subseteq 1 .. n - 1
    BY <1>1 DEF Evidence
  <1>4. LastHits(who, n)' = LastHits(who, n) /\ LastHits(who, n) \subseteq 1 .. n - 1
    BY <1>3 DEF LastHits
  <1>5. ASSUME NEW causes, CausesAre(causes, who, n)
        PROVE  CausesAre(causes, who, n)'
    <2>1. \A i \in LastHits(who, n) : HeardLine(i)' = HeardLine(i)
      BY <1>4
    <2> QED BY <1>4, <1>5, <2>1 DEF CausesAre, Rank, CauseConfidence
  <1> QED BY <1>2, <1>5

LEMMA HeardCauses ==
  ASSUME TypeInv, HeardInv, [Next]_vars,
         Len(heard) \in Nat, \A i \in 1 .. Len(heard) : heard'[i] = heard[i],
         NEW n \in 1 .. Len(heard) + 1, NEW who
  PROVE  /\ \A b : LastHitsOn(b, who, n) => LastHitsOn(b, who, n)'
         /\ \A causes : CausesAre(causes, who, n) => CausesAre(causes, who, n)'
  <1>1. \A i \in 1 .. n - 1 : i \in 1 .. Len(heard)
    OBVIOUS
  <1>2. \A i \in 1 .. n - 1 : /\ HeardLine(i)' = HeardLine(i)
                              /\ MayInterpret(heard[i])' <=> MayInterpret(heard[i])
    BY <1>1, HeardKept
  <1>3. n \in Nat
    OBVIOUS
  <1> QED BY <1>2, <1>3, CausesSame

USE EvidenceAssumption

(* What a line read does to the buffers and the deaths of the tracker.        *)
LEMMA ReadLineHits ==
  ASSUME TypeInv, FollowInv, VarTypes, ReadLine,
         NEW p, p = [file |-> file, at |-> pos + 1],
         NEW l, l = LineAt(p), NEW n, n = lineNumber + 1
  PROVE  /\ l \in Line /\ n \in Nat /\ p \in Place
         /\ MayInterpret(p) /\ l.kind = "damage" =>
              /\ deaths' = deaths
              /\ \E h \in Hit : /\ h.line = n /\ SameHit(h, l)
                                /\ buffers' = [buffers EXCEPT ![l.who] = Add(@, h)]
         /\ ~(MayInterpret(p) /\ l.kind = "damage") => buffers' = buffers
         /\ \/ deaths' = deaths
            \/ /\ l.kind = "died" /\ l.who \in Players
               /\ \E d : /\ deaths' = Append(deaths, d) /\ d.place = p
                         /\ d.causes = RankCauses(SnapshotBefore(buffers[l.who], n))
                         /\ d.encounter = encounter /\ d.heardAt = Len(heard) + 1
                         /\ d = [place |-> d.place, causes |-> d.causes,
                                 encounter |-> d.encounter, heardAt |-> d.heardAt]
  <1>1. files[file][pos + 1] = l
    BY DEF LineAt
  <1>2. /\ pos \in Nat /\ pos < limit /\ limit \in 0 .. Len(files[file])
        /\ files[file] \in Seq(Line) /\ Len(files[file]) \in Nat
        /\ Len(files[file]) <= MaxLines /\ file \in Files
    BY FileFacts DEF ReadLine, TypeInv
  <1>3. l \in Line
    <2>1. pos + 1 \in 1 .. Len(files[file])
      BY <1>2
    <2> QED BY <1>1, <1>2, <2>1
  <1>4. p \in Place /\ n \in Nat
    <2>1. pos + 1 \in 1 .. MaxLines
      BY <1>2
    <2>2. lineNumber \in 0 .. pos
      BY DEF VarTypes
    <2> QED BY <1>2, <2>1, <2>2 DEF Place
  <1>5. Interpreted(format) <=> MayInterpret(p)
    <2>1. format = FormatAt(p.file, p.at - 1)
      BY <1>2 DEF FollowInv, ReadLine
    <2> QED BY <2>1, FormatInterpreted
  <1>6. /\ l.kind = "damage" => l.who \in Players /\ l.key \in CauseKeys /\ l.damage \in Damages
        /\ l.kind = "died" => l.who \in Players
    BY <1>3 DEF Line, Header, Damage, Died, EncounterStart, EncounterEnd
  <1>7. l.kind = "header" \/ ~Interpreted(format) => buffers' = buffers /\ deaths' = deaths
    BY <1>1 DEF ReadLine, trackerVars
  <1>8. l.kind # "header" /\ Interpreted(format) => Observe(l)
    BY <1>1 DEF ReadLine
  <1>9. ASSUME Observe(l), l.kind = "damage"
        PROVE  /\ deaths' = deaths
               /\ \E h \in Hit : /\ h.line = n /\ SameHit(h, l)
                                 /\ buffers' = [buffers EXCEPT ![l.who] = Add(@, h)]
    <2>1. ObserveDamage(l)
      BY <1>9 DEF Observe
    <2>2. PICK h : h = [line |-> n, key |-> l.key, damage |-> l.damage]
      OBVIOUS
    <2>3. h \in Hit /\ h.line = n /\ SameHit(h, l)
      BY <1>4, <1>6, <1>9, <2>2 DEF Hit, SameHit
    <2>4. buffers' = [buffers EXCEPT ![l.who] = Add(@, h)]
      BY <2>1, <2>2 DEF ObserveDamage
    <2> QED BY <2>1, <2>3, <2>4 DEF ObserveDamage
  <1>10. ASSUME Observe(l), l.kind # "damage"
         PROVE  buffers' = buffers
    BY <1>10 DEF Observe, ObserveDeath, ObserveEncounter
  <1>11. ASSUME Observe(l), deaths' # deaths
         PROVE  /\ l.kind = "died"
                /\ \E d : /\ deaths' = Append(deaths, d) /\ d.place = p
                          /\ d.causes = RankCauses(SnapshotBefore(buffers[l.who], n))
                          /\ d.encounter = encounter /\ d.heardAt = Len(heard) + 1
                          /\ d = [place |-> d.place, causes |-> d.causes,
                                  encounter |-> d.encounter, heardAt |-> d.heardAt]
    <2>1. l.kind = "died" /\ ObserveDeath(l)
      BY <1>11 DEF Observe, ObserveDamage, ObserveEncounter
    <2>2. PICK c : c = RankCauses(SnapshotBefore(buffers[l.who], n))
      OBVIOUS
    <2>3. deaths' = Append(deaths, [place |-> p, causes |-> c, encounter |-> encounter,
                                    heardAt |-> Len(heard) + 1])
      BY <1>11, <2>1, <2>2 DEF ObserveDeath
    <2> QED BY <2>1, <2>2, <2>3
  <1> QED BY <1>3, <1>4, <1>5, <1>6, <1>7, <1>8, <1>9, <1>10, <1>11


LEMMA InitVars == Init => VarTypes
  <1> SUFFICES ASSUME Init PROVE VarTypes
    OBVIOUS
  <1>1. \A p \in Players : buffers[p] = << >>
    BY DEF Init, NoBuffers
  <1>2. buffers \in [Players -> Seq(Hit)] /\ \A p \in Players : Len(buffers[p]) <= Capacity
    BY <1>1, DamageAssumption DEF Init, NoBuffers
  <1>3. deaths \in Seq(Candidate)
    BY DEF Init
  <1>4. 0 \in 0 .. MaxStarts
    OBVIOUS
  <1> QED BY <1>2, <1>3, <1>4 DEF Init, VarTypes

LEMMA KillVars ==
  ASSUME VarTypes, Kill
  PROVE  VarTypes'
  <1>1. buffers' = NoBuffers /\ \A p \in Players : NoBuffers[p] = << >>
    BY DEF Kill, NoBuffers
  <1>2. /\ buffers' \in [Players -> Seq(Hit)]
        /\ \A p \in Players : Len(buffers'[p]) <= Capacity
    BY <1>1, DamageAssumption DEF NoBuffers
  <1>3. deaths' \in Seq(Candidate)
    BY DEF Kill
  <1> QED BY <1>2, <1>3 DEF Kill, diskVars, VarTypes

(* What persistPoll writes are places of deaths that were held.               *)
LEMMA PersistVars ==
  ASSUME TypeInv, VarTypes, Persist
  PROVE  VarTypes'
  <1>1. events' \subseteq Place
    <2>1. CASE UNCHANGED <<rows, events>>
      BY <2>1 DEF VarTypes
    <2>2. CASE events' = events \union
                 {deaths[i].place : i \in persistedDeaths + 1 .. Len(deaths)}
      <3>1. \A i \in persistedDeaths + 1 .. Len(deaths) : deaths[i].place \in Place
        <4>1. /\ persistedDeaths \in 0 .. Len(deaths) /\ DOMAIN deaths = 1 .. Len(deaths)
              /\ Len(deaths) \in Nat
          BY DEF TypeInv
        <4>2. \A i \in persistedDeaths + 1 .. Len(deaths) : i \in DOMAIN deaths
          BY <4>1
        <4> QED BY <4>2 DEF TypeInv
      <3> QED BY <2>2, <3>1 DEF VarTypes
    <2> QED BY <2>1, <2>2, PersistCases
  <1>2. UNCHANGED <<lineNumber, pos, buffers, deaths, starts>> /\ pc' = "idle"
    BY DEF Persist, readVars, trackerVars
  <1> QED BY <1>1, <1>2 DEF VarTypes

LEMMA ReadLineVars ==
  ASSUME TypeInv, FollowInv, VarTypes, ReadLine
  PROVE  VarTypes'
  <1>1. PICK p, l, n : p = [file |-> file, at |-> pos + 1] /\ l = LineAt(p) /\ n = lineNumber + 1
    OBVIOUS
  <1>2. lineNumber' \in 0 .. pos' /\ pc' = "scan" /\ starts' = starts /\ events' = events
    <2>1. /\ pos' = pos + 1 /\ lineNumber' = lineNumber + 1 /\ pc' = "scan"
          /\ starts' = starts /\ events' = events
      BY DEF ReadLine, diskVars
    <2>2. pos \in Nat /\ lineNumber \in 0 .. pos
      BY FileFacts DEF VarTypes
    <2> QED BY <2>1, <2>2
  <1>3. /\ buffers \in [Players -> Seq(Hit)] /\ deaths \in Seq(Candidate)
        /\ \A q \in Players : Len(buffers[q]) <= Capacity
    BY DEF VarTypes
  <1>4. /\ buffers' \in [Players -> Seq(Hit)]
        /\ \A q \in Players : Len(buffers'[q]) <= Capacity
    <2>1. CASE buffers' = buffers
      BY <1>3, <2>1
    <2>2. ASSUME l.kind = "damage", NEW h \in Hit,
                 buffers' = [buffers EXCEPT ![l.who] = Add(@, h)]
          PROVE  /\ buffers' \in [Players -> Seq(Hit)]
                 /\ \A q \in Players : Len(buffers'[q]) <= Capacity
      <3>1. l.who \in Players
        <4>1. l \in Line
          BY <1>1, ReadLineHits
        <4> QED BY <2>2, <4>1 DEF Line, Header, Damage, Died, EncounterStart, EncounterEnd
      <3>2. PICK b, c : b \in Seq(Hit) /\ b = buffers[l.who] /\ Len(b) <= Capacity /\ c = Add(b, h)
        BY <1>3, <3>1
      <3>3. c \in Seq(Hit) /\ Len(c) <= Capacity
        BY <3>2, AddIs DEF Added
      <3>4. buffers' = [buffers EXCEPT ![l.who] = c]
        BY <2>2, <3>2
      <3> QED BY <1>3, <3>1, <3>3, <3>4
    <2> QED BY <1>1, <2>1, <2>2, ReadLineHits
  <1>5. deaths' \in Seq(Candidate)
    <2>1. CASE deaths' = deaths
      BY <1>3, <2>1
    <2>2. ASSUME l.who \in Players, NEW d, deaths' = Append(deaths, d), d.place = p,
                 d.causes = RankCauses(SnapshotBefore(buffers[l.who], n)),
                 d.encounter = encounter, d.heardAt = Len(heard) + 1,
                 d = [place |-> d.place, causes |-> d.causes,
                      encounter |-> d.encounter, heardAt |-> d.heardAt]
          PROVE  deaths' \in Seq(Candidate)
      <3>1. p \in Place /\ n \in Nat
        BY <1>1, ReadLineHits
      <3>2. PICK b \in Seq(Hit) : b = buffers[l.who]
        BY <1>3, <2>2
      <3>3. PICK s \in Seq(Hit) : s = SnapshotBefore(b, n)
        BY <3>1, <3>2, SnapshotType
      <3>4. RankCauses(s) \in Seq(Cause)
        BY CausesAreRanked DEF Ranked
      <3>5. encounter \in Bosses \union {NoBoss} /\ Len(heard) + 1 \in Nat
        BY DEF TypeInv
      <3>6. d.causes \in Seq(Cause)
        BY <2>2, <3>2, <3>3, <3>4
      <3>7. d \in Candidate
        <4>1. PICK x, c, e, m : /\ x = d.place /\ c = d.causes /\ e = d.encounter /\ m = d.heardAt
                                /\ d = [place |-> x, causes |-> c, encounter |-> e, heardAt |-> m]
          BY <2>2
        <4>2. x \in Place /\ c \in Seq(Cause) /\ e \in Bosses \union {NoBoss} /\ m \in Nat
          BY <2>2, <3>1, <3>5, <3>6, <4>1
        <4> QED BY <4>1, <4>2 DEF Candidate
      <3> QED BY <1>3, <2>2, <3>7
    <2> QED BY <1>1, <2>1, <2>2, ReadLineHits
  <1> QED BY <1>2, <1>3, <1>4, <1>5 DEF VarTypes

LEMMA VarsStep ==
  TypeInv /\ DownIsBlank /\ RecordInv /\ VarTypes /\ [Next]_vars => VarTypes'
  <1> SUFFICES ASSUME TypeInv, DownIsBlank, RecordInv, VarTypes, [Next]_vars PROVE VarTypes'
    OBVIOUS
  <1>1. CASE WriteLine \/ NewFile \/ UNCHANGED vars
    <2>1. UNCHANGED <<events, pc, lineNumber, pos, buffers, deaths, starts>>
      BY <1>1 DEF WriteLine, NewFile, vars, diskVars, readVars, trackerVars
    <2> QED BY <2>1 DEF VarTypes
  <1>2. CASE Start
    <2>1. /\ UNCHANGED <<events, lineNumber, buffers, deaths>> /\ lineNumber = 0
          /\ pc' = "idle" /\ starts' = starts + 1 /\ starts < MaxStarts
          /\ pos' = rows[Current].offset
      BY <1>2 DEF Start, diskVars, trackerVars, VarTypes
    <2>2. rows[Current].offset \in Nat
      BY FileFacts, RowTypes
    <2>3. lineNumber' \in 0 .. pos' /\ starts' \in 0 .. MaxStarts
      BY <2>1, <2>2 DEF VarTypes
    <2> QED BY <2>1, <2>3 DEF VarTypes
  <1>3. CASE BeginPoll
    <2>1. /\ UNCHANGED <<events, buffers, deaths, starts>> /\ pc' = "scan"
          /\ (lineNumber' = 0 /\ pos' = 0) \/ (lineNumber' = lineNumber /\ pos' = pos)
      BY <1>3 DEF BeginPoll, diskVars, trackerVars
    <2>2. lineNumber' \in 0 .. pos'
      BY <2>1 DEF VarTypes
    <2> QED BY <2>1, <2>2 DEF VarTypes
  <1>4. CASE Kill
    BY <1>4, KillVars
  <1>5. CASE Persist
    BY <1>5, PersistVars
  <1>6. CASE ReadLine
    BY <1>6, ReadLineVars DEF RecordInv
  <1> QED BY <1>1, <1>2, <1>3, <1>4, <1>5, <1>6 DEF Next

(* Every variable keeps its type: what loadCommittedOffset resumes is within  *)
(* the file, a buffer never exceeds its capacity, and what a candidate holds  *)
(* is a place, a ranking and an encounter.                                    *)
THEOREM TypeCorrect == Spec => []TypeOK
  <1>1. Init => TypeInv /\ DownIsBlank /\ RecordInv /\ VarTypes
    BY InitType, InitRecords, InitVars
  <1>2. TypeInv /\ DownIsBlank /\ RecordInv /\ VarTypes /\ [Next]_vars
          => (TypeInv /\ DownIsBlank /\ RecordInv /\ VarTypes)'
    BY TypeStep, RecordStep, VarsStep
  <1>3. TypeInv /\ VarTypes => TypeOK
    <2> SUFFICES ASSUME TypeInv, VarTypes PROVE TypeOK
      OBVIOUS
    <2>1. \A p \in Players : buffers[p] \in Seq(Hit) /\ Len(buffers[p]) <= Capacity
      BY DEF VarTypes
    <2> QED BY <2>1 DEF TypeInv, VarTypes, TypeOK
  <1> QED BY <1>1, <1>2, <1>3, PTL DEF Spec


-------------------------------------------------------------------------------
(* Causes: every step but a line read and a kill leaves memory alone.         *)
LEMMA MemoryCauses ==
  ASSUME TypeInv, HeardInv, CauseInv, [Next]_vars, UNCHANGED <<heard, buffers, deaths>>,
         \A i \in DOMAIN heard : heard[i].file <= file',
         HeardHere' => lineNumber' = Len(heard)
  PROVE  CauseInv'
  <1>1. Len(heard) \in Nat /\ DOMAIN heard = 1 .. Len(heard)
    BY DEF TypeInv
  <1>2. HeardOneFile' <=> HeardOneFile
    BY DEF HeardOneFile
  <1>3. BuffersAreLastHits'
    <2> SUFFICES ASSUME HeardOneFile, NEW p \in Players, NEW b, NEW n,
                        b = buffers[p], n = Len(heard) + 1
                 PROVE  LastHitsOn(b, p, n)'
      BY <1>2 DEF BuffersAreLastHits
    <2>1. LastHitsOn(b, p, n)
      BY DEF CauseInv, BuffersAreLastHits
    <2>2. n \in 1 .. Len(heard) + 1
      BY <1>1
    <2> QED BY <1>1, <2>1, <2>2, HeardCauses
  <1>4. DeathsKnowCauses'
    <2> SUFFICES ASSUME HeardOneFile, NEW k \in DOMAIN deaths, NEW causes, NEW who, NEW n,
                        causes = deaths[k].causes, n = deaths[k].heardAt,
                        who = HeardLine(n)'.who
                 PROVE  CausesAre(causes, who, n)'
      BY <1>2 DEF DeathsKnowCauses
    <2>1. n \in 1 .. Len(heard) /\ n \in 1 .. Len(heard) + 1
      BY <1>1 DEF HeardInv
    <2>2. HeardLine(n)' = HeardLine(n)
      BY <2>1, HeardKept
    <2>3. CausesAre(causes, who, n)
      BY <2>2 DEF CauseInv, DeathsKnowCauses
    <2> QED BY <1>1, <2>1, <2>3, HeardCauses
  <1>5. \A k \in DOMAIN deaths' : deaths'[k].place = heard'[deaths'[k].heardAt]
    BY DEF CauseInv
  <1> QED BY <1>3, <1>4, <1>5 DEF CauseInv

(* Nothing heard: an empty buffer is the last hits of no line.                *)
LEMMA NoHits ==
  ASSUME NEW who
  PROVE  LastHitsOn(<< >>, who, 1)
  <1>1. HitsBefore(who, 1) = {}
    BY DEF HitsBefore
  <1>2. << >> \in Seq(Hit) /\ Len(<< >>) = 0 /\ Ascending(<< >>)
    BY DEF Ascending
  <1> QED BY <1>1, <1>2, DamageAssumption DEF LastHitsOn

LEMMA NoHitsAlways == \A who : LastHitsOn(<< >>, who, 1)
  BY NoHits

LEMMA NoHitsPrime == (\A who : LastHitsOn(<< >>, who, 1))'
  <1>1. \A who : LastHitsOn(<< >>, who, 1)
    BY NoHitsAlways
  <1> QED BY <1>1, PTL

LEMMA InitCauses == Init => CauseInv
  <1> SUFFICES ASSUME Init PROVE CauseInv
    OBVIOUS
  <1>1. /\ heard = << >> /\ deaths = << >> /\ lineNumber = 0 /\ buffers = NoBuffers
        /\ DOMAIN heard = {} /\ DOMAIN deaths = {} /\ Len(heard) = 0
    BY DEF Init
  <1>2. BuffersAreLastHits
    BY <1>1, NoHits DEF BuffersAreLastHits, NoBuffers
  <1> QED BY <1>1, <1>2 DEF CauseInv, DeathsKnowCauses

LEMMA KillCauses ==
  ASSUME Kill
  PROVE  CauseInv'
  <1>1. /\ heard' = << >> /\ deaths' = << >> /\ lineNumber' = 0 /\ buffers' = NoBuffers
        /\ DOMAIN heard' = {} /\ DOMAIN deaths' = {} /\ Len(heard') = 0
    BY DEF Kill
  <1>2. BuffersAreLastHits'
    <2> SUFFICES ASSUME NEW p \in Players, NEW b, NEW n, b = NoBuffers[p], n = 1
                 PROVE  LastHitsOn(b, p, n)'
      BY <1>1 DEF BuffersAreLastHits
    <2>1. b = << >>
      BY DEF NoBuffers
    <2> QED BY <2>1, NoHitsPrime
  <1> QED BY <1>1, <1>2 DEF CauseInv, DeathsKnowCauses

LEMMA BeginPollCauses ==
  ASSUME TypeInv, HeardInv, CauseInv, BeginPoll
  PROVE  CauseInv'
  <1>1. /\ UNCHANGED <<heard, buffers, deaths>> /\ file' = Current
        /\ (file = Current /\ lineNumber' = lineNumber) \/ (file # Current /\ lineNumber' = 0)
    BY DEF BeginPoll, trackerVars
  <1>2. /\ Current \in Nat /\ file \in Nat /\ file <= Current
        /\ Len(heard) \in Nat /\ DOMAIN heard = 1 .. Len(heard)
        /\ \A i \in DOMAIN heard : heard[i].file \in Nat
    <2>1. heard \in Seq(Place)
      BY DEF TypeInv
    <2>2. \A i \in DOMAIN heard : heard[i] \in Place
      BY <2>1
    <2>3. \A i \in DOMAIN heard : heard[i].file \in Nat
      BY <2>2 DEF Place, Files
    <2> QED BY <2>1, <2>3, FileFacts
  <1>3. \A i \in DOMAIN heard : heard[i].file <= file'
    BY <1>1, <1>2 DEF CauseInv
  <1>4. ASSUME HeardHere' PROVE lineNumber' = Len(heard)
    <2>1. \A i \in DOMAIN heard : heard[i].file = Current
      BY <1>1, <1>4 DEF HeardHere
    <2>2. CASE file = Current
      BY <1>1, <2>1, <2>2 DEF CauseInv, HeardHere
    <2>3. CASE file # Current
      <3>1. \A i \in DOMAIN heard : FALSE
        BY <1>2, <2>1, <2>3 DEF CauseInv
      <3>2. Len(heard) = 0
        BY <1>2, <3>1
      <3> QED BY <1>1, <2>3, <3>2
    <2> QED BY <2>2, <2>3
  <1>5. [Next]_vars
    BY DEF Next
  <1> QED BY <1>1, <1>3, <1>4, <1>5, MemoryCauses


LEMMA ReadLineCauses ==
  ASSUME TypeInv, RecordInv, HeardInv, VarTypes, CauseInv, ReadLine
  PROVE  CauseInv'
  <1>1. PICK p, l, n, m :
          /\ p = [file |-> file, at |-> pos + 1] /\ l = LineAt(p)
          /\ n = Len(heard) + 1 /\ m = lineNumber + 1
    OBVIOUS
  <1>2. /\ files' = files /\ file' = file /\ heard' = Append(heard, p)
        /\ lineNumber' = lineNumber + 1
    BY <1>1 DEF ReadLine, diskVars
  <1>3. /\ heard \in Seq(Place) /\ Len(heard) \in Nat /\ DOMAIN heard = 1 .. Len(heard)
        /\ n \in Nat \ {0} /\ Len(heard') = n /\ DOMAIN heard' = 1 .. n
        /\ heard'[n] = p /\ \A i \in 1 .. Len(heard) : heard'[i] = heard[i]
        /\ \A i \in 1 .. n : i = n \/ i \in 1 .. Len(heard)
    <2>1. heard \in Seq(Place)
      BY DEF TypeInv
    <2> QED BY <1>1, <1>2, <2>1, AppendAnything
  <1>4. FollowInv /\ [Next]_vars
    BY DEF RecordInv, Next
  <1>5. \A i \in DOMAIN heard' : heard'[i].file <= file'
    <2>1. file \in Nat /\ p.file = file
      BY <1>1, FileFacts
    <2>2. \A i \in 1 .. Len(heard) : heard[i].file <= file
      BY <1>3 DEF CauseInv
    <2> QED BY <1>2, <1>3, <2>1, <2>2
  <1>6. HeardHere' => HeardHere /\ lineNumber = Len(heard)
    <2>1. HeardHere' => HeardHere
      BY <1>2, <1>3 DEF HeardHere
    <2> QED BY <2>1 DEF CauseInv
  <1>7. HeardHere' => lineNumber' = Len(heard')
    BY <1>1, <1>2, <1>3, <1>6
  <1>8. HeardOneFile' => HeardOneFile /\ HeardHere' /\ m = n
    <2>1. HeardOneFile' => HeardOneFile
      <3>1. \A i \in DOMAIN heard : i \in DOMAIN heard' /\ heard'[i] = heard[i]
        BY <1>1, <1>3
      <3> QED BY <3>1 DEF HeardOneFile
    <2>2. HeardOneFile' => HeardHere'
      <3>1. n \in DOMAIN heard' /\ heard'[n].file = file'
        BY <1>1, <1>2, <1>3
      <3> QED BY <3>1 DEF HeardOneFile, HeardHere
    <2> QED BY <1>1, <1>6, <2>1, <2>2
  <1>9. HeardLine(n)' = l /\ (MayInterpret(heard[n])' <=> MayInterpret(p))
    <2>1. (heard[n] = p => HeardLine(n) = LineAt(p)
                           /\ (MayInterpret(heard[n]) <=> MayInterpret(p)))'
      BY DEF HeardLine, LineAt, MayInterpret, HeaderBefore
    <2>2. LineAt(p)' = LineAt(p) /\ (MayInterpret(p)' <=> MayInterpret(p))
      BY <1>2 DEF LineAt, MayInterpret, HeaderBefore
    <2> QED BY <1>1, <1>3, <2>1, <2>2
  <1>10. /\ l \in Line /\ m \in Nat /\ p \in Place
         /\ MayInterpret(p) /\ l.kind = "damage" =>
              \E h \in Hit : /\ h.line = m /\ SameHit(h, l)
                             /\ buffers' = [buffers EXCEPT ![l.who] = Add(@, h)]
         /\ ~(MayInterpret(p) /\ l.kind = "damage") => buffers' = buffers
    BY <1>1, <1>4, ReadLineHits
  <1>11. \/ deaths' = deaths
         \/ /\ l.who \in Players
            /\ \E d : /\ deaths' = Append(deaths, d) /\ d.place = p /\ d.heardAt = n
                      /\ d.causes = RankCauses(SnapshotBefore(buffers[l.who], m))
    BY <1>1, <1>4, ReadLineHits
  <1>12. ASSUME HeardOneFile, NEW who, NEW i \in 1 .. n
         PROVE  /\ \A b : LastHitsOn(b, who, i) => LastHitsOn(b, who, i)'
                /\ \A causes : CausesAre(causes, who, i) => CausesAre(causes, who, i)'
    <2>1. i \in 1 .. Len(heard) + 1
      BY <1>1
    <2> QED BY <1>3, <1>4, <2>1, HeardCauses
  <1>13. BuffersAreLastHits'
    <2> SUFFICES ASSUME HeardOneFile', NEW q \in Players, NEW c, NEW o,
                        c = buffers'[q], o = n + 1
                 PROVE  LastHitsOn(c, q, o)'
      BY <1>3 DEF BuffersAreLastHits
    <2>1. PICK b : b = buffers[q]
      OBVIOUS
    <2>2. HeardOneFile /\ m = n /\ LastHitsOn(b, q, n)
      BY <1>1, <1>8, <2>1 DEF CauseInv, BuffersAreLastHits
    <2>3. LastHitsOn(b, q, n)'
      BY <1>3, <1>12, <2>2
    <2>4. /\ IsHit(n, q)' <=> l.kind = "damage" /\ l.who = q /\ MayInterpret(p)
      BY <1>9 DEF IsHit
    <2>5. buffers \in [Players -> Seq(Hit)]
      BY DEF VarTypes
    <2>6. CASE IsHit(n, q)'
      <3>1. PICK h \in Hit : /\ h.line = m /\ SameHit(h, l)
                             /\ buffers' = [buffers EXCEPT ![l.who] = Add(@, h)]
        BY <1>10, <2>4, <2>6
      <3>2. c = Add(b, h)
        BY <2>1, <2>4, <2>5, <2>6, <3>1
      <3>3. SameHit(h, HeardLine(n))'
        BY <1>9, <3>1 DEF SameHit
      <3>4. LastHitsOn(Add(b, h), q, n + 1)'
        BY <1>3, <2>2, <2>3, <2>6, <3>1, <3>3, HitsFollowPrime DEF HitsFollow
      <3> QED BY <3>2, <3>4
    <2>7. CASE ~IsHit(n, q)'
      <3>1. c = b
        <4>1. CASE MayInterpret(p) /\ l.kind = "damage"
          <5>1. PICK h \in Hit : buffers' = [buffers EXCEPT ![l.who] = Add(@, h)]
            BY <1>10, <4>1
          <5>2. l.who # q
            BY <2>4, <2>7, <4>1
          <5> QED BY <2>1, <2>5, <5>1, <5>2
        <4>2. CASE ~(MayInterpret(p) /\ l.kind = "damage")
          BY <1>10, <2>1, <4>2
        <4> QED BY <4>1, <4>2
      <3>2. LastHitsOn(b, q, n + 1)'
        BY <1>3, <2>3, <2>7, HitsFollowPrime DEF HitsFollow
      <3> QED BY <3>1, <3>2
    <2> QED BY <2>6, <2>7
  <1>14. ASSUME HeardOneFile, NEW k \in DOMAIN deaths, NEW causes, NEW who, NEW i,
                causes = deaths[k].causes, i = deaths[k].heardAt, who = HeardLine(i)'.who
         PROVE  CausesAre(causes, who, i)'
    <2>1. i \in 1 .. Len(heard) /\ i \in 1 .. n
      BY <1>1, <1>3, <1>14 DEF HeardInv
    <2>2. HeardLine(i)' = HeardLine(i)
      BY <1>3, <1>4, <2>1, HeardKept
    <2>3. CausesAre(causes, who, i)
      BY <1>14, <2>2 DEF CauseInv, DeathsKnowCauses
    <2> QED BY <1>12, <1>14, <2>1, <2>3
  <1>15. \A k \in DOMAIN deaths : /\ deaths[k].heardAt \in 1 .. Len(heard)
                                  /\ deaths[k].place = heard'[deaths[k].heardAt]
    BY <1>3 DEF HeardInv, CauseInv
  <1>16. /\ DeathsKnowCauses'
         /\ \A k \in DOMAIN deaths' : deaths'[k].place = heard'[deaths'[k].heardAt]
    <2>1. CASE deaths' = deaths
      <3>1. DeathsKnowCauses'
        BY <1>8, <1>14, <2>1 DEF DeathsKnowCauses
      <3> QED BY <1>15, <2>1, <3>1
    <2>2. ASSUME l.who \in Players, NEW d, deaths' = Append(deaths, d), d.place = p,
                 d.heardAt = n, d.causes = RankCauses(SnapshotBefore(buffers[l.who], m))
          PROVE  /\ DeathsKnowCauses'
                 /\ \A k \in DOMAIN deaths' : deaths'[k].place = heard'[deaths'[k].heardAt]
      <3>1. PICK D : deaths \in Seq(D)
        BY DEF TypeInv
      <3>2. \A k \in DOMAIN deaths' : (k \in DOMAIN deaths /\ deaths'[k] = deaths[k]) \/ deaths'[k] = d
        BY <2>2, <3>1, AppendAnything
      <3>3. \A k \in DOMAIN deaths' : deaths'[k].place = heard'[deaths'[k].heardAt]
        BY <1>3, <1>15, <2>2, <3>2
      <3>4. ASSUME HeardOneFile', NEW causes, causes = d.causes
            PROVE  CausesAre(causes, l.who, n)'
        <4>1. PICK b, w : b = buffers[l.who] /\ w = l.who /\ w \in Players
          BY <2>2
        <4>2. HeardOneFile /\ m = n /\ LastHitsOn(b, w, n)
          BY <1>1, <1>8, <3>4, <4>1 DEF CauseInv, BuffersAreLastHits
        <4>3. CausesAre(RankCauses(SnapshotBefore(b, n)), w, n)
          BY <1>3, <4>2, BufferGivesCauses
        <4>4. causes = RankCauses(SnapshotBefore(b, n))
          BY <2>2, <3>4, <4>1, <4>2
        <4>5. n \in 1 .. n /\ CausesAre(causes, w, n)
          BY <1>3, <4>3, <4>4
        <4> QED BY <1>12, <4>1, <4>2, <4>5
      <3>5. DeathsKnowCauses'
        <4> SUFFICES ASSUME HeardOneFile', NEW k \in DOMAIN deaths', NEW causes, NEW who, NEW i,
                            causes = deaths'[k].causes, i = deaths'[k].heardAt,
                            who = HeardLine(i)'.who
                     PROVE  CausesAre(causes, who, i)'
          BY DEF DeathsKnowCauses
        <4>1. CASE k \in DOMAIN deaths /\ deaths'[k] = deaths[k]
          BY <1>8, <1>14, <4>1
        <4>2. CASE deaths'[k] = d
          <5>1. causes = d.causes /\ i = n
            BY <2>2, <4>2
          <5>2. HeardLine(i)' = l
            BY <1>9, <5>1
          <5> QED BY <3>4, <5>1, <5>2
        <4> QED BY <3>2, <4>1, <4>2
      <3> QED BY <3>3, <3>5
    <2> QED BY <1>11, <2>1, <2>2
  <1> QED BY <1>5, <1>7, <1>13, <1>16 DEF CauseInv

LEMMA CauseStep ==
  TypeInv /\ DownIsBlank /\ RecordInv /\ HeardInv /\ VarTypes /\ CauseInv /\ [Next]_vars
    => CauseInv'
  <1> SUFFICES ASSUME TypeInv, DownIsBlank, RecordInv, HeardInv, VarTypes, CauseInv, [Next]_vars
               PROVE  CauseInv'
    OBVIOUS
  <1>1. CASE WriteLine \/ NewFile \/ Persist \/ UNCHANGED vars
    <2>1. UNCHANGED <<file, lineNumber, heard, buffers, deaths>>
      BY <1>1 DEF WriteLine, NewFile, Persist, vars, readVars, trackerVars
    <2>2. \A i \in DOMAIN heard : heard[i].file <= file'
      BY <2>1 DEF CauseInv
    <2>3. HeardHere' => lineNumber' = Len(heard)
      BY <2>1 DEF CauseInv, HeardHere
    <2> QED BY <2>1, <2>2, <2>3, MemoryCauses
  <1>2. CASE Start
    <2>1. UNCHANGED <<lineNumber, heard, buffers, deaths>> /\ heard = << >> /\ lineNumber = 0
      BY <1>2 DEF Start, trackerVars, DownIsBlank, VarTypes
    <2>2. DOMAIN heard = {} /\ Len(heard) = 0
      BY <2>1
    <2> QED BY <2>1, <2>2, MemoryCauses
  <1>3. CASE BeginPoll
    BY <1>3, BeginPollCauses
  <1>4. CASE Kill
    BY <1>4, KillCauses
  <1>5. CASE ReadLine
    BY <1>5, ReadLineCauses
  <1> QED BY <1>1, <1>2, <1>3, <1>4, <1>5 DEF Next

(* A death gets the causes its last hits name: as long as the process follows *)
(* one file, what damageBuffer.add keeps, snapshotBefore selects and          *)
(* rankCauses ranks are the last hits on the victim within capacity and       *)
(* lookback, one for each cause, most recent first, the first as sure as that *)
(* hit makes it.                                                              *)
THEOREM CausesOfDeath == Spec => []CausesFromLog
  <1> DEFINE IInv == TypeInv /\ DownIsBlank /\ RecordInv /\ HeardInv /\ VarTypes /\ CauseInv
  <1>1. Init => IInv
    BY InitType, InitRecords, InitHeard, InitVars, InitCauses
  <1>2. IInv /\ [Next]_vars => IInv'
    BY TypeStep, RecordStep, HeardStep, VarsStep, CauseStep
  <1>3. IInv => CausesFromLog
    <2> SUFFICES ASSUME CauseInv, HeardOneFile, NEW k \in DOMAIN deaths,
                        NEW n, NEW who, n = deaths[k].heardAt,
                        who = LineAt(deaths[k].place).who
                 PROVE  CausesAre(deaths[k].causes, who, n)
      BY DEF CausesFromLog, CausesAre
    <2>1. who = HeardLine(n).who
      BY DEF CauseInv, HeardLine
    <2>2. PICK causes : causes = deaths[k].causes
      OBVIOUS
    <2> QED BY <2>1, <2>2 DEF CauseInv, DeathsKnowCauses
  <1> QED BY <1>1, <1>2, <1>3, PTL DEF Spec
=============================================================================
