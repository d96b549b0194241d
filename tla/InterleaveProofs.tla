-------------------------- MODULE InterleaveProofs --------------------------
(***************************************************************************)
(* Theorems about Interleave, for any two files demuxed from one stream:   *)
(* the spans are that stream again; and what ScanProofs proves of the scan *)
(* of one file holds of the scan of the spans: the re-fed sets, the count, *)
(* and where the seek points are, by the same steps (ScanStep).            *)
(***************************************************************************)
EXTENDS Interleave, ScanProofs

-----------------------------------------------------------------------------
(* Access units *)

\* The access units counted grow by one where a unit begins.
LEMMA AuSteps ==
  ASSUME NEW nals, NEW view, NEW n \in Nat, DOMAIN nals = 1..n
  PROVE  LET au == Au(nals, view)
         IN  /\ DOMAIN au = 1..n /\ \A i \in 1..n : au[i] \in Nat
             /\ n > 0 => au[1] = 0
             /\ \A i \in 2..n : au[i] = IF BeginsUnit(nals, view, i) THEN au[i - 1] + 1 ELSE au[i - 1]
<1> DEFINE Starts(i) == {j \in 1..i : BeginsUnit(nals, view, j)}
           au == Au(nals, view)
<1>1. DOMAIN au = 1..n /\ \A i \in 1..n : au[i] = Cardinality(Starts(i))
  BY DEF Au
<1>2. \A i \in 1..n : IsFiniteSet(Starts(i)) /\ Cardinality(Starts(i)) \in Nat
  <2> SUFFICES ASSUME NEW i \in 1..n PROVE IsFiniteSet(Starts(i)) /\ Cardinality(Starts(i)) \in Nat
    OBVIOUS
  <2>1. IsFiniteSet(1..i)
    BY FS_Interval
  <2>2. Starts(i) \in SUBSET (1..i)
    OBVIOUS
  <2> HIDE DEF Starts
  <2>3. IsFiniteSet(Starts(i))
    BY <2>1, <2>2, FS_Subset
  <2> QED BY <2>3, FS_CardinalityType
<1>3. n > 0 => au[1] = 0
  <2>1. Starts(1) = {}
    BY DEF BeginsUnit
  <2> QED BY <1>1, <2>1, FS_EmptySet
<1>4. ASSUME NEW i \in 2..n
      PROVE  au[i] = IF BeginsUnit(nals, view, i) THEN au[i - 1] + 1 ELSE au[i - 1]
  <2>1. i - 1 \in 1..n /\ i \in 1..n /\ i \notin Starts(i - 1)
    OBVIOUS
  <2>2. Starts(i) = IF BeginsUnit(nals, view, i) THEN Starts(i - 1) \cup {i} ELSE Starts(i - 1)
    OBVIOUS
  <2> HIDE DEF Starts, au
  <2>3. IsFiniteSet(Starts(i - 1))
    BY <1>2, <2>1
  <2>4. Cardinality(Starts(i - 1) \cup {i}) = Cardinality(Starts(i - 1)) + 1
    BY <2>1, <2>3, FS_AddElement
  <2> QED BY <1>1, <2>1, <2>2, <2>4
<1> HIDE DEF Starts
<1> QED BY <1>1, <1>2, <1>3, <1>4

\* What holds of the first and of each next one holds of all.
LEMMA AuIsAccess ==
  ASSUME NEW nals, NEW view, NEW n \in Nat, DOMAIN nals = 1..n, Len(nals) = n, n > 0,
         InParts(nals, view), nals[1].access \in Int
  PROVE  \A i \in 1..n :
            /\ nals[i].access \in Int
            /\ Au(nals, view)[i] \in Nat
            /\ Au(nals, view)[i] = nals[i].access - nals[1].access
<1> DEFINE au == Au(nals, view)
           Agree(i) == nals[i].access \in Int /\ au[i] = nals[i].access - nals[1].access
           Wrong == {i \in 1..n : ~Agree(i)}
<1>1. /\ \A i \in 1..n : au[i] \in Nat
      /\ au[1] = 0
      /\ \A i \in 2..n : au[i] = IF BeginsUnit(nals, view, i) THEN au[i - 1] + 1 ELSE au[i - 1]
  BY AuSteps
<1>2. ASSUME NEW i \in 2..n, Agree(i - 1) PROVE Agree(i)
  <2>1. \/ nals[i].access = nals[i - 1].access /\ ~BeginsUnit(nals, view, i)
        \/ nals[i].access = nals[i - 1].access + 1 /\ BeginsUnit(nals, view, i)
    <3>1. i - 1 \in 1..n /\ i > 1
      OBVIOUS
    <3>2. \/ /\ nals[i].access = nals[i - 1].access
             /\ IsViewVcl(nals[i - 1], view) =>
                    IsViewVcl(nals[i], view) /\ ~IsPicStart(nals[i], view)
          \/ /\ nals[i].access = nals[i - 1].access + 1
             /\ IsViewVcl(nals[i - 1], view)
             /\ IsViewVcl(nals[i], view) => IsPicStart(nals[i], view)
      BY DEF InParts
    <3> QED BY <3>1, <3>2 DEF BeginsUnit
  <2> HIDE DEF au
  <2> QED BY <1>1, <1>2, <2>1
<1>3. Wrong = {}
  <2> SUFFICES ASSUME Wrong # {} PROVE FALSE
    OBVIOUS
  <2> DEFINE m == Min(Wrong)
  <2>1. Wrong \in SUBSET Nat
    OBVIOUS
  <2>2. m \in Wrong /\ \A y \in Wrong : m <= y
    <3> HIDE DEF Wrong
    <3> QED BY <2>1, MinExists
  <2> HIDE DEF m
  <2>3. m \in 1..n /\ ~Agree(m)
    BY <2>2
  <2>4. m # 1
    BY <1>1, <2>3
  <2>5. m - 1 \in 1..n /\ m \in 2..n /\ m - 1 \notin Wrong
    <3> HIDE DEF Wrong
    <3> QED BY <2>2, <2>3, <2>4
  <2>6. Agree(m - 1)
    BY <2>5
  <2> QED BY <1>2, <2>3, <2>5, <2>6
<1>4. \A i \in 1..n : Agree(i)
  BY <1>3
<1> HIDE DEF au
<1> QED BY <1>1, <1>4 DEF au

-----------------------------------------------------------------------------
(* The dependent units ahead of the first base picture *)

LEMMA ShiftFound ==
  ASSUME NEW b, NEW d, Demuxed(b, d)
  PROVE  DepShift(b, d, Au(d, "dependent")) = 0 - d[1].access
<1> DEFINE n == Len(d)
           au == Au(d, "dependent")
           told == {i \in FirstSlices(d, au) : d[i].anchor # 0}
<1>1. n \in Nat /\ n > 0 /\ DOMAIN d = 1..n /\ d[1].access \in -8..0 /\ InParts(d, "dependent")
  BY LenProperties, EmptySeq DEF Demuxed, WellFormed
<1>2. /\ d[1].access \in Int
      /\ \A i \in 1..n : /\ d[i].access \in Int /\ au[i] \in Nat
                        /\ au[i] = d[i].access - d[1].access
  BY <1>1, AuIsAccess
<1>3. CASE ~StartsAtIdr(b)
  BY <1>3 DEF DepShift, Demuxed
<1>4. CASE StartsAtIdr(b)
  <2>1. PICK m \in 1..n : AnchorAt(d, m)
    BY <1>1, <1>4 DEF Demuxed, WellFormed
  <2> HIDE DEF n, au
  <2>2. au[m] = 0 - d[1].access /\ au[m] <= 8 /\ d[m].access = 0 /\ d[m].type = 20 /\ d[m].anchor # 0
    <3>1. d[m].type = 20 /\ d[m].access = 0 /\ (d[m].anchor = 1 \/ d[m].anchor # 0)
      <4>1. AnchorAt(d, m) => /\ d[m].type = 20 /\ d[m].access = 0
                              /\ d[m].anchor = 1 \/ d[m].anchor # 0
        BY DEF AnchorAt
      <4> QED BY <2>1, <4>1
    <3>2. d[m].anchor # 0
      BY <3>1
    <3>3. d[1].access \in -8..0 /\ au[m] = d[m].access - d[1].access
      BY <1>1, <1>2
    <3> DEFINE x == d[1].access
               y == au[m]
    <3>4. x \in -8..0 /\ y = 0 - x
      BY <3>1, <3>3
    <3> HIDE DEF x, y
    <3>5. y = 0 - x /\ y <= 8
      BY <3>4
    <3> QED BY <3>1, <3>2, <3>5 DEF x, y
  <2>3. ASSUME NEW i \in 1..n, NEW j \in 1..n PROVE au[i] = au[j] <=> d[i].access = d[j].access
    BY <1>2
  <2>4. m \in told
    <3>1. \A j \in 1..m - 1 : d[j].type = 20 => au[j] # au[m]
      <4> SUFFICES ASSUME NEW j \in 1..m - 1, d[j].type = 20 PROVE au[j] # au[m]
        OBVIOUS
      <4>1. j \in 1..n /\ d[j].access < 0
        BY <2>1, <1>1 DEF AnchorAt
      <4> QED BY <2>2, <2>3, <4>1
    <3> QED BY <1>1, <2>2, <3>1 DEF FirstSlices
  <2>5. ASSUME NEW i \in told PROVE m <= i
    <3> SUFFICES ASSUME i < m PROVE FALSE
      BY <1>1, <2>5 DEF FirstSlices
    <3>1. /\ i \in 1..n /\ d[i].type = 20 /\ d[i].anchor # 0
          /\ \A j \in 1..i - 1 : d[j].type = 20 => au[j] # au[i]
      BY <1>1, <2>5 DEF FirstSlices
    <3>2. \A j \in 1..i - 1 : d[j].type = 20 => d[j].access # d[i].access
      <4> SUFFICES ASSUME NEW j \in 1..i - 1, d[j].type = 20 PROVE d[j].access # d[i].access
        OBVIOUS
      <4>1. j \in 1..n
        BY <1>1, <3>1
      <4> QED BY <2>3, <3>1, <4>1
    <3> QED BY <2>1, <3>1, <3>2 DEF AnchorAt
  <2>6. told \in SUBSET Nat /\ told # {}
    BY <1>1, <2>4 DEF FirstSlices
  <2> HIDE DEF told
  <2>7. Min(told) \in told /\ \A y \in told : Min(told) <= y
    BY <2>6, MinExists
  <2>8. Min(told) = m
    <3>1. Min(told) <= m /\ m <= Min(told) /\ Min(told) \in Nat
      BY <2>4, <2>5, <2>6, <2>7
    <3> QED BY <3>1
  <2>9. DepShift(b, d, au) = IF d[m].anchor = 1 THEN au[m] ELSE 0
    BY <1>4, <2>6, <2>8 DEF DepShift, told
  <2>10. d[m].anchor = 1 \/ d[1].access = 0
    BY <2>1 DEF AnchorAt
  <2> QED BY <1>2, <2>2, <2>9, <2>10 DEF au
<1> QED BY <1>3, <1>4

\* So the turn of a dependent NAL is that of its own access unit.
LEMMA TurnsTrue ==
  ASSUME NEW b, NEW d, Demuxed(b, d)
  PROVE  /\ \A i \in DOMAIN b : b[i].access \in Int /\ b[i].access >= 0 /\ Au(b, "base")[i] = b[i].access
         /\ \A j \in DOMAIN d : /\ d[j].access \in Int
                              /\ DepTurns(b, d)[j] = IF d[j].access < 0 THEN -1 ELSE d[j].access
<1>1. \A i \in DOMAIN b : b[i].access \in Int /\ b[i].access >= 0 /\ Au(b, "base")[i] = b[i].access
  <2>1. /\ Len(b) \in Nat /\ Len(b) > 0 /\ DOMAIN b = 1..Len(b) /\ b[1].access = 0
        /\ InParts(b, "base")
    BY LenProperties, EmptySeq DEF Demuxed, WellFormed
  <2>2. \A i \in 1..Len(b) : /\ b[i].access \in Int /\ Au(b, "base")[i] \in Nat
                            /\ Au(b, "base")[i] = b[i].access - b[1].access
    BY <2>1, AuIsAccess
  <2> QED BY <2>1, <2>2
<1>2. ASSUME NEW j \in DOMAIN d
      PROVE  d[j].access \in Int /\ DepTurns(b, d)[j] = IF d[j].access < 0 THEN -1 ELSE d[j].access
  <2> DEFINE au == Au(d, "dependent")
             shift == DepShift(b, d, au)
  <2>1. /\ Len(d) \in Nat /\ Len(d) > 0 /\ DOMAIN d = 1..Len(d) /\ d[1].access \in -8..0
        /\ InParts(d, "dependent")
    BY LenProperties, EmptySeq DEF Demuxed, WellFormed
  <2>2. d[j].access \in Int /\ au[j] = d[j].access - d[1].access
    BY <1>2, <2>1, AuIsAccess
  <2>3. shift = 0 - d[1].access
    BY ShiftFound
  <2>4. DepTurns(b, d)[j] = IF au[j] < shift THEN -1 ELSE au[j] - shift
    BY <1>2 DEF DepTurns
  <2> DEFINE first == d[1].access
             this == d[j].access
  <2>5. first \in Int /\ this \in Int /\ au[j] = this - first /\ shift = 0 - first
    BY <2>1, <2>2, <2>3
  <2> HIDE DEF au, shift, first, this
  <2>6. DepTurns(b, d)[j] = IF this < 0 THEN -1 ELSE this
    <3>1. CASE this < 0
      BY <2>4, <2>5, <3>1
    <3>2. CASE ~(this < 0)
      <4>1. ~(au[j] < shift) /\ au[j] - shift = this
        BY <2>5, <3>2
      <4> QED BY <2>4, <3>2, <4>1
    <3> QED BY <3>1, <3>2
  <2> QED BY <2>5, <2>6 DEF this
<1> QED BY <1>1, <1>2

-----------------------------------------------------------------------------
(* Two files merged *)

LEMMA ImageSize ==
  ASSUME NEW S, IsFiniteSet(S), NEW h, \A x, y \in S : h[x] = h[y] => x = y
  PROVE  /\ IsFiniteSet({h[x] : x \in S})
         /\ Cardinality({h[x] : x \in S}) = Cardinality(S)
<1> DEFINE T == {h[x] : x \in S}
           f == [x \in S |-> h[x]]
<1>1. f \in Bijection(S, T)
  <2>1. f \in [S -> T]
    OBVIOUS
  <2>2. \A x, y \in S : f[x] = f[y] => x = y
    OBVIOUS
  <2>3. \A t \in T : \E x \in S : f[x] = t
    OBVIOUS
  <2> QED BY <2>1, <2>2, <2>3 DEF Bijection, Injection, Surjection, IsInjective
<1>2. ExistsBijection(S, T)
  BY <1>1 DEF ExistsBijection
<1> QED BY <1>2, FS_Bijection

\* f and g number the NALs of two files through a stream of N in all.
Merge(m, n, N, f, g) ==
    /\ {f[i] : i \in 1..m} \cup {g[j] : j \in 1..n} = 1..N
    /\ \A i, j \in 1..m : i < j => f[i] < f[j]
    /\ \A i, j \in 1..n : i < j => g[i] < g[j]
    /\ \A i \in 1..m, j \in 1..n : f[i] # g[j]

\* Ahead of a NAL are the earlier ones of its file, and those of the other file
\* that have lower numbers.
LEMMA Ranks ==
  ASSUME NEW m \in Nat, NEW n \in Nat, NEW N \in Nat, NEW f, NEW g,
         Merge(m, n, N, f, g), NEW i \in 1..m
  PROVE  f[i] = i + Cardinality({j \in 1..n : g[j] < f[i]})
<1> DEFINE J == {j \in 1..n : g[j] < f[i]}
           A == {f[k] : k \in 1..i - 1}
           B == {g[j] : j \in J}
<1>0. /\ {f[k] : k \in 1..m} \cup {g[j] : j \in 1..n} = 1..N
      /\ \A k, l \in 1..m : k < l => f[k] < f[l]
      /\ \A k, l \in 1..n : k < l => g[k] < g[l]
      /\ \A k \in 1..m, l \in 1..n : f[k] # g[l]
  BY DEF Merge
<1>1. (\A k \in 1..m : f[k] \in 1..N) /\ (\A j \in 1..n : g[j] \in 1..N)
  <2>1. \A k \in 1..m : f[k] \in {f[k1] : k1 \in 1..m} \cup {g[j] : j \in 1..n}
    OBVIOUS
  <2>2. \A j \in 1..n : g[j] \in {f[k1] : k1 \in 1..m} \cup {g[j1] : j1 \in 1..n}
    OBVIOUS
  <2> QED BY <1>0, <2>1, <2>2
<1>2. \A k, l \in 1..m : f[k] = f[l] => k = l
  <2> SUFFICES ASSUME NEW k \in 1..m, NEW l \in 1..m, f[k] = f[l], k # l PROVE FALSE
    OBVIOUS
  <2>1. k < l \/ l < k
    OBVIOUS
  <2> QED BY <1>0, <1>1, <2>1
<1>3. \A k, l \in 1..n : g[k] = g[l] => k = l
  <2> SUFFICES ASSUME NEW k \in 1..n, NEW l \in 1..n, g[k] = g[l], k # l PROVE FALSE
    OBVIOUS
  <2>1. k < l \/ l < k
    OBVIOUS
  <2> QED BY <1>0, <1>1, <2>1
<1>4. IsFiniteSet(A) /\ Cardinality(A) = i - 1
  <2>1. IsFiniteSet(1..i - 1) /\ Cardinality(1..i - 1) = i - 1
    BY FS_Interval
  <2>2. \A k, l \in 1..i - 1 : f[k] = f[l] => k = l
    BY <1>2
  <2> QED BY <2>1, <2>2, ImageSize
<1>5. IsFiniteSet(B) /\ Cardinality(B) = Cardinality(J) /\ Cardinality(J) \in Nat
  <2>1. IsFiniteSet(1..n) /\ J \in SUBSET (1..n)
    BY FS_Interval
  <2>2. IsFiniteSet(J)
    <3> HIDE DEF J
    <3> QED BY <2>1, FS_Subset
  <2>3. \A k, l \in J : g[k] = g[l] => k = l
    BY <1>3
  <2> HIDE DEF J
  <2> QED BY <2>2, <2>3, ImageSize, FS_CardinalityType
<1>6. A \cap B = {}
  BY <1>0, <1>1
<1>7. A \cup B = 1..f[i] - 1
  <2>1. ASSUME NEW p \in A \cup B PROVE p \in 1..f[i] - 1
    <3>1. CASE p \in A
      <4>1. PICK k \in 1..i - 1 : p = f[k]
        BY <3>1
      <4> QED BY <1>0, <1>1, <4>1
    <3>2. CASE p \in B
      BY <1>1, <3>2
    <3> QED BY <2>1, <3>1, <3>2
  <2>2. ASSUME NEW p \in 1..f[i] - 1 PROVE p \in A \cup B
    <3>1. p \in 1..N /\ p < f[i]
      BY <1>1
    <3>2. p \in {f[k] : k \in 1..m} \cup {g[j] : j \in 1..n}
      BY <1>0, <3>1
    <3>3. ASSUME NEW k \in 1..m, p = f[k] PROVE k \in 1..i - 1
      <4> SUFFICES ASSUME k >= i PROVE FALSE
        OBVIOUS
      <4>1. k = i \/ i < k
        OBVIOUS
      <4> QED BY <1>0, <1>1, <3>1, <3>3, <4>1
    <3> QED BY <3>1, <3>2, <3>3
  <2> HIDE DEF A, B
  <2> QED BY <2>1, <2>2
<1>8. Cardinality(1..f[i] - 1) = f[i] - 1
  BY <1>1, FS_Interval
<1> HIDE DEF A, B, J
<1>9. Cardinality(A \cup B) = Cardinality(A) + Cardinality(B)
  <2>1. Cardinality(A \cup B) = Cardinality(A) + Cardinality(B) - Cardinality({})
    BY <1>4, <1>5, <1>6, FS_Union
  <2> QED BY <1>4, <1>5, <2>1, FS_EmptySet
<1>10. f[i] = i + Cardinality(J)
  <2>1. f[i] \in Int /\ f[i] - 1 = (i - 1) + Cardinality(J)
    <3>1. f[i] \in Int
      BY <1>1
    <3>2. Cardinality(A \cup B) = (i - 1) + Cardinality(J)
      BY <1>4, <1>5, <1>9
    <3>3. Cardinality(A \cup B) = f[i] - 1
      BY <1>7, <1>8
    <3> QED BY <3>1, <3>2, <3>3
  <2> QED BY <1>5, <2>1
<1> QED BY <1>10 DEF J

\* Each NAL's place among the spans is its place in the stream.
LEMMA PlacesTrue ==
  ASSUME NEW b, NEW d, Demuxed(b, d), NEW turn_b, NEW turn_d,
         turn_b = Au(b, "base"), turn_d = DepTurns(b, d)
  PROVE  /\ \A i \in DOMAIN b : i + Cardinality({j \in DOMAIN d : turn_d[j] < turn_b[i]}) = b[i].at
         /\ \A j \in DOMAIN d : j + Cardinality({i \in DOMAIN b : turn_b[i] <= turn_d[j]}) = d[j].at
<1> DEFINE m == Len(b)
           n == Len(d)
           f == [i \in 1..m |-> b[i].at]
           g == [j \in 1..n |-> d[j].at]
<1>1. m \in Nat /\ n \in Nat /\ m + n \in Nat /\ n + m = m + n /\ DOMAIN b = 1..m /\ DOMAIN d = 1..n
  BY LenProperties DEF Demuxed, WellFormed
<1>2. /\ {b[i].at : i \in 1..m} \cup {d[j].at : j \in 1..n} = 1..m + n
      /\ \A i, j \in 1..m : i < j => b[i].at < b[j].at
      /\ \A i, j \in 1..n : i < j => d[i].at < d[j].at
      /\ \A i \in 1..m, j \in 1..n :
             b[i].at # d[j].at /\ (b[i].at < d[j].at <=> b[i].access <= d[j].access)
  BY <1>1 DEF Demuxed, OfOneStream
<1>3. (\A i \in 1..m : b[i].at \in Int) /\ (\A j \in 1..n : d[j].at \in Int)
  <2>1. \A i \in 1..m : b[i].at \in {b[k].at : k \in 1..m} \cup {d[j].at : j \in 1..n}
    OBVIOUS
  <2>2. \A j \in 1..n : d[j].at \in {b[k].at : k \in 1..m} \cup {d[l].at : l \in 1..n}
    OBVIOUS
  <2> HIDE DEF m, n
  <2> QED BY <1>1, <1>2, <2>1, <2>2
<1>4. /\ {f[i] : i \in 1..m} = {b[i].at : i \in 1..m}
      /\ {g[j] : j \in 1..n} = {d[j].at : j \in 1..n}
  OBVIOUS
<1>5. (\A i \in 1..m : f[i] = b[i].at) /\ (\A j \in 1..n : g[j] = d[j].at)
  OBVIOUS
<1>6. /\ \A i \in 1..m : b[i].access \in Int /\ b[i].access >= 0 /\ turn_b[i] = b[i].access
      /\ \A j \in 1..n : d[j].access \in Int /\ turn_d[j] = IF d[j].access < 0 THEN -1 ELSE d[j].access
  BY <1>1, TurnsTrue
<1> HIDE DEF m, n, f, g
<1>7. \A i \in 1..m, j \in 1..n :
          /\ turn_d[j] < turn_b[i] <=> g[j] < f[i]
          /\ turn_b[i] <= turn_d[j] <=> f[i] < g[j]
  <2> SUFFICES ASSUME NEW i \in 1..m, NEW j \in 1..n
               PROVE  /\ turn_d[j] < turn_b[i] <=> g[j] < f[i]
                      /\ turn_b[i] <= turn_d[j] <=> f[i] < g[j]
    OBVIOUS
  <2>1. /\ f[i] \in Int /\ g[j] \in Int /\ f[i] # g[j]
        /\ f[i] < g[j] <=> b[i].access <= d[j].access
    BY <1>2, <1>3, <1>5
  <2>2. /\ b[i].access \in Int /\ b[i].access >= 0 /\ turn_b[i] = b[i].access
        /\ d[j].access \in Int /\ turn_d[j] = IF d[j].access < 0 THEN -1 ELSE d[j].access
    BY <1>6
  <2> QED BY <2>1, <2>2
<1>8. Merge(m, n, m + n, f, g)
  BY <1>1, <1>2, <1>4, <1>5 DEF Merge
<1>9. Merge(n, m, m + n, g, f)
  BY <1>8 DEF Merge
<1>10. ASSUME NEW i \in 1..m
       PROVE  i + Cardinality({j \in DOMAIN d : turn_d[j] < turn_b[i]}) = b[i].at
  <2>1. {j \in DOMAIN d : turn_d[j] < turn_b[i]} = {j \in 1..n : g[j] < f[i]}
    BY <1>1, <1>7
  <2>2. f[i] = i + Cardinality({j \in 1..n : g[j] < f[i]})
    BY <1>1, <1>8, Ranks
  <2> QED BY <1>5, <2>1, <2>2
<1>11. ASSUME NEW j \in 1..n
       PROVE  j + Cardinality({i \in DOMAIN b : turn_b[i] <= turn_d[j]}) = d[j].at
  <2>1. {i \in DOMAIN b : turn_b[i] <= turn_d[j]} = {i \in 1..m : f[i] < g[j]}
    BY <1>1, <1>7
  <2>2. g[j] = j + Cardinality({i \in 1..m : f[i] < g[j]})
    BY <1>1, <1>9, Ranks
  <2> QED BY <1>5, <2>1, <2>2
<1> QED BY <1>1, <1>10, <1>11

\* A span is a NAL of its view, with the unit that is its access unit's.
IsSpan(span, nal, view) ==
    /\ span.view = view
    /\ span.unit = IF nal.access < 0 THEN -1 ELSE nal.access
    /\ span.at = nal.at /\ span.type = nal.type
    /\ nal.type \in ParamTypes => span.id = nal.id
    /\ nal.type = 8 => span.sps = nal.sps
    /\ nal.type \in {7, 8} => span.usable = nal.usable
    /\ nal.type \in {1, 5} => span.first = nal.first
    /\ IsFirstSlice(nal) => span.pps = nal.pps /\ span.poc = nal.poc

\* f holds the NALs of b and d, each at its place in the stream.
SpansOf(f, b, d) ==
    /\ DOMAIN f = 1..Len(b) + Len(d)
    /\ \A p \in DOMAIN f :
           \/ \E i \in DOMAIN b : b[i].at = p /\ IsSpan(f[p], b[i], "base")
           \/ \E j \in DOMAIN d : d[j].at = p /\ IsSpan(f[p], d[j], "dependent")

LEMMA SpanIs ==
  ASSUME NEW nal, HasFields(nal), NEW view, NEW unit, unit = IF nal.access < 0 THEN -1 ELSE nal.access
  PROVE  IsSpan(SpanOf(nal, unit, view), nal, view)
<1> DEFINE span == SpanOf(nal, unit, view)
<1>1. \A k \in DOMAIN nal : k \notin {"unit", "view"} => span[k] = nal[k]
  BY DEF SpanOf
<1>2. span.unit = unit /\ span.view = view
  BY DEF SpanOf
<1> HIDE DEF span
<1>3. span.at = nal.at /\ span.type = nal.type
  BY <1>1 DEF HasFields
<1>4. nal.type \in ParamTypes => span.id = nal.id
  BY <1>1 DEF HasFields
<1>5. nal.type = 8 => span.sps = nal.sps
  BY <1>1 DEF HasFields
<1>6. nal.type \in {1, 5} => span.first = nal.first
  BY <1>1 DEF HasFields
<1>7. IsFirstSlice(nal) => span.pps = nal.pps /\ span.poc = nal.poc
  BY <1>1 DEF HasFields
<1>8. nal.type \in {7, 8} => span.usable = nal.usable
  BY <1>1 DEF HasFields
<1> QED BY <1>2, <1>3, <1>4, <1>5, <1>6, <1>7, <1>8 DEF IsSpan, span

\* A span names the NAL of its place.
LEMMA SpansTrue ==
  ASSUME NEW b, NEW d, Demuxed(b, d), NEW turn_b, NEW turn_d,
         turn_b = Au(b, "base"), turn_d = DepTurns(b, d)
  PROVE  SpansOf(Spans(b, d, turn_b, turn_d), b, d)
<1> DEFINE place_b(i) == i + Cardinality({j \in DOMAIN d : turn_d[j] < turn_b[i]})
           place_d(j) == j + Cardinality({i \in DOMAIN b : turn_b[i] <= turn_d[j]})
           spans == Spans(b, d, turn_b, turn_d)
           n == Len(b) + Len(d)
<1>1. (\A i \in DOMAIN b : place_b(i) = b[i].at) /\ (\A j \in DOMAIN d : place_d(j) = d[j].at)
  BY PlacesTrue
<1>2. DOMAIN spans = 1..n
  BY DEF Spans
<1>3. /\ \A i \in DOMAIN b : IsSpan(SpanOf(b[i], turn_b[i], "base"), b[i], "base")
      /\ \A j \in DOMAIN d : IsSpan(SpanOf(d[j], turn_d[j], "dependent"), d[j], "dependent")
  <2>1. (\A i \in DOMAIN b : HasFields(b[i])) /\ (\A j \in DOMAIN d : HasFields(d[j]))
    BY DEF Demuxed, Range
  <2>2. ASSUME NEW i \in DOMAIN b PROVE turn_b[i] = IF b[i].access < 0 THEN -1 ELSE b[i].access
    <3>1. b[i].access \in Int /\ b[i].access >= 0 /\ turn_b[i] = b[i].access
      BY <2>2, TurnsTrue
    <3> QED BY <3>1
  <2>3. \A j \in DOMAIN d : turn_d[j] = IF d[j].access < 0 THEN -1 ELSE d[j].access
    BY TurnsTrue
  <2> QED BY <2>1, <2>2, <2>3, SpanIs
<1>4. ASSUME NEW p \in 1..n
      PROVE  \/ \E i \in DOMAIN b : b[i].at = p /\ IsSpan(spans[p], b[i], "base")
             \/ \E j \in DOMAIN d : d[j].at = p /\ IsSpan(spans[p], d[j], "dependent")
  <2>1. p \in {b[i].at : i \in DOMAIN b} \cup {d[j].at : j \in DOMAIN d}
    BY <1>4 DEF Demuxed, OfOneStream
  <2> DEFINE first == CHOOSE i \in DOMAIN b : place_b(i) = p
             other == CHOOSE j \in DOMAIN d : place_d(j) = p
  <2>2. spans[p] = IF \E i \in DOMAIN b : place_b(i) = p
                   THEN SpanOf(b[first], turn_b[first], "base")
                   ELSE SpanOf(d[other], turn_d[other], "dependent")
    <3>1. p \in 1..Len(b) + Len(d)
      BY <1>4
    <3> QED BY <3>1, Zenon DEF Spans
  <2> HIDE DEF place_b, place_d, spans, n, first, other
  <2>3. CASE \E i \in DOMAIN b : place_b(i) = p
    <3>1. first \in DOMAIN b /\ place_b(first) = p
      BY <2>3 DEF first
    <3>2. spans[p] = SpanOf(b[first], turn_b[first], "base")
      BY <2>2, <2>3
    <3> QED BY <1>1, <1>3, <3>1, <3>2
  <2>4. CASE ~\E i \in DOMAIN b : place_b(i) = p
    <3>1. \E k \in DOMAIN d : place_d(k) = p
      BY <1>1, <2>1, <2>4
    <3>2. other \in DOMAIN d /\ place_d(other) = p
      BY <3>1 DEF other
    <3>3. spans[p] = SpanOf(d[other], turn_d[other], "dependent")
      BY <2>2, <2>4
    <3> QED BY <1>1, <1>3, <3>2, <3>3
  <2> QED BY <2>3, <2>4
<1> HIDE DEF spans
<1> QED BY <1>2, <1>4 DEF SpansOf, spans

\* The spans are a file of NALs in the sense of the scan.
LEMMA SpansWellFormed ==
  ASSUME NEW b, NEW d, Demuxed(b, d), NEW f, SpansOf(f, b, d), f = [p \in DOMAIN f |-> f[p]]
  PROVE  WellFormed(f) /\ Len(f) = Len(b) + Len(d) /\ \A p \in DOMAIN f : f[p].at = p
<1> DEFINE n == Len(b) + Len(d)
<1>1. WellFormed(b) /\ WellFormed(d) /\ n \in Nat /\ DOMAIN f = 1..n
  <2>1. WellFormed(b) /\ WellFormed(d)
    BY DEF Demuxed
  <2>2. Len(b) \in Nat /\ Len(d) \in Nat
    BY <2>1, LenProperties DEF WellFormed
  <2> QED BY <2>1, <2>2 DEF SpansOf
<1>2. f \in Seq(Range(f)) /\ Len(f) = n
  <2> HIDE DEF n
  <2>1. f = [p \in 1..n |-> f[p]] /\ \A p \in 1..n : f[p] \in Range(f)
    BY <1>1 DEF Range
  <2>2. [p \in 1..n |-> f[p]] \in Seq(Range(f)) /\ Len([p \in 1..n |-> f[p]]) = n
    BY <1>1, <2>1, IsASeq
  <2> QED BY <2>1, <2>2
<1>3. ASSUME NEW p \in DOMAIN f
      PROVE  /\ f[p].at = p
             /\ f[p].type \in {7, 8, 13, 15} => f[p].id \in -1..255
             /\ f[p].type \in {7, 8} => f[p].usable \in BOOLEAN
             /\ f[p].type = 8 => f[p].sps \in Nat
             /\ f[p].type \in {1, 5} => f[p].first \in BOOLEAN
             /\ f[p].type \in {1, 5} /\ f[p].first => f[p].pps \in Nat /\ f[p].poc \in Int
  <2>1. \E nal, view : /\ nal.at = p /\ IsSpan(f[p], nal, view)
                       /\ nal.type \in {7, 8, 13, 15} => nal.id \in -1..255
                       /\ nal.type \in {7, 8} => nal.usable \in BOOLEAN
                       /\ nal.type = 8 => nal.sps \in Nat
                       /\ nal.type \in {1, 5} => nal.first \in BOOLEAN
                       /\ nal.type \in {1, 5} /\ nal.first => nal.pps \in Nat /\ nal.poc \in Int
    BY <1>1 DEF SpansOf, WellFormed
  <2> QED BY <2>1 DEF IsSpan, ParamTypes, IsFirstSlice
<1> QED BY <1>2, <1>3 DEF WellFormed

-----------------------------------------------------------------------------
(* The access units of the spans *)

\* What InParts says of neighbours, said of any two NALs of a file.
Parts(nals, view) ==
    /\ \A i, j \in DOMAIN nals : i <= j => nals[i].access <= nals[j].access
    /\ \A i, j \in DOMAIN nals :
           j = i + 1 /\ nals[i].access # nals[j].access => IsViewVcl(nals[i], view)
    /\ \A i, j \in DOMAIN nals :
           i < j /\ nals[i].access = nals[j].access /\ IsPicStart(nals[j], view) =>
               ~IsViewVcl(nals[i], view)
    /\ \A i, j \in DOMAIN nals :
           i < j /\ nals[i].access # nals[j].access => \E k \in i..j - 1 : IsViewVcl(nals[k], view)

LEMMA PartsFound ==
  ASSUME NEW nals, NEW view, NEW n \in Nat, DOMAIN nals = 1..n, Len(nals) = n,
         InParts(nals, view), \A i \in 1..n : nals[i].access \in Int
  PROVE  Parts(nals, view)
<1> DEFINE x(i) == nals[i].access
<1>1. ASSUME NEW i \in 1..n, NEW j \in 1..n, j = i + 1
      PROVE  \/ /\ x(j) = x(i)
                /\ IsViewVcl(nals[i], view) => IsViewVcl(nals[j], view) /\ ~IsPicStart(nals[j], view)
             \/ x(j) = x(i) + 1 /\ IsViewVcl(nals[i], view)
  <2>1. j \in 2..Len(nals) /\ j - 1 = i
    BY <1>1
  <2> QED BY <2>1 DEF InParts
<1>2. \A i \in 1..n : x(i) \in Int
  OBVIOUS
<1> HIDE DEF x
\* The least of the later ones that has a property follows one that has not.
<1>3. ASSUME NEW i \in 1..n, NEW j \in 1..n, i < j, NEW A, i \notin A, j \in A
      PROVE  \E k \in i..j - 1 : k \in 1..n /\ k + 1 \in 1..n /\ k \notin A /\ k + 1 \in A
  <2> DEFINE S == {l \in i..j : l \in A}
  <2>1. S \in SUBSET Nat /\ S # {}
    BY <1>3
  <2>2. PICK m \in i..j : m \in A /\ \A l \in i..j : l \in A => m <= l
    <3>1. Min(S) \in S /\ \A y \in S : Min(S) <= y
      <4> HIDE DEF S
      <4> QED BY <2>1, MinExists
    <3> QED BY <3>1
  <2>3. m # i /\ m - 1 \in i..j - 1 /\ m - 1 \in 1..n /\ (m - 1) + 1 = m /\ m \in 1..n
    BY <1>3, <2>2
  <2>4. m - 1 \notin A
    BY <2>2, <2>3
  <2> QED BY <2>2, <2>3, <2>4
<1>4. ASSUME NEW i \in 1..n, NEW j \in 1..n, i <= j PROVE x(i) <= x(j)
  <2> SUFFICES ASSUME i < j, x(j) < x(i) PROVE FALSE
    BY <1>2, <1>4
  <2>1. PICK k \in 1..n : k + 1 \in 1..n /\ x(k) >= x(i) /\ x(k + 1) < x(i)
    <3> DEFINE A == {l \in 1..n : x(l) < x(i)}
    <3>1. i \notin A /\ j \in A
      BY <1>2
    <3> HIDE DEF A
    <3>2. PICK k \in 1..n : k + 1 \in 1..n /\ k \notin A /\ k + 1 \in A
      BY <1>3, <3>1
    <3>3. x(k) >= x(i) /\ x(k + 1) < x(i)
      BY <1>2, <3>2 DEF A
    <3> QED BY <3>2, <3>3
  <2>2. x(k + 1) = x(k) \/ x(k + 1) = x(k) + 1
    BY <1>1, <2>1
  <2> QED BY <1>2, <2>1, <2>2
<1>5. ASSUME NEW i \in 1..n, NEW j \in 1..n, j = i + 1, x(i) # x(j) PROVE IsViewVcl(nals[i], view)
  BY <1>1, <1>5
<1>6. ASSUME NEW i \in 1..n, NEW j \in 1..n, i < j, x(i) = x(j), IsPicStart(nals[j], view),
             IsViewVcl(nals[i], view)
      PROVE  FALSE
  <2> DEFINE A == {l \in 1..n : ~IsViewVcl(nals[l], view) \/ IsPicStart(nals[l], view)}
  <2>1. j \in A
    BY <1>6
  <2>2. PICK k \in i..j - 1 : /\ k \in 1..n /\ k + 1 \in 1..n /\ k + 1 \in A
                              /\ IsViewVcl(nals[k], view)
    <3>1. CASE i \notin A
      <4> HIDE DEF A
      <4>1. PICK k \in i..j - 1 : k \in 1..n /\ k + 1 \in 1..n /\ k \notin A /\ k + 1 \in A
        BY <1>3, <1>6, <2>1, <3>1
      <4> QED BY <4>1 DEF A
    <3>2. CASE i \in A
      <4> DEFINE B == A \ {i}
      <4>1. i \notin B /\ j \in B
        BY <1>6, <2>1
      <4> HIDE DEF A, B
      <4>2. PICK k \in i..j - 1 : k \in 1..n /\ k + 1 \in 1..n /\ k \notin B /\ k + 1 \in B
        BY <1>3, <1>6, <4>1
      <4>3. k + 1 \in A /\ (k = i \/ k \notin A)
        BY <4>2 DEF B
      <4>4. IsViewVcl(nals[k], view)
        BY <1>6, <4>2, <4>3 DEF A
      <4> QED BY <4>2, <4>3, <4>4
    <3> QED BY <3>1, <3>2
  <2>3. x(k) = x(k + 1)
    <3>1. x(i) <= x(k) /\ x(k) <= x(k + 1) /\ x(k + 1) <= x(j)
      BY <1>4, <2>2
    <3> QED BY <1>2, <1>6, <2>2, <3>1
  <2>4. IsViewVcl(nals[k + 1], view) /\ ~IsPicStart(nals[k + 1], view)
    <3>1. x(k + 1) \in Int /\ x(k) \in Int
      BY <1>2, <2>2
    <3>2. ~(x(k + 1) = x(k) + 1)
      BY <2>3, <3>1
    <3> QED BY <1>1, <2>2, <2>3, <3>2
  <2> QED BY <2>2, <2>4
<1>7. ASSUME NEW i \in 1..n, NEW j \in 1..n, i < j, x(i) # x(j)
      PROVE  \E k \in i..j - 1 : IsViewVcl(nals[k], view)
  <2> DEFINE A == {l \in 1..n : x(l) # x(i)}
  <2>1. i \notin A /\ j \in A
    BY <1>7
  <2> HIDE DEF A
  <2>2. PICK k \in i..j - 1 : k \in 1..n /\ k + 1 \in 1..n /\ k \notin A /\ k + 1 \in A
    BY <1>3, <1>7, <2>1
  <2>3. x(k) # x(k + 1)
    BY <2>2 DEF A
  <2> QED BY <1>5, <2>2, <2>3
<1> QED BY <1>4, <1>5, <1>6, <1>7 DEF Parts, x

\* The units of the spans grow.  One of the base view follows a slice, or all of
\* the dependent file; its picture follows its leading NALs; and where one base
\* NAL is of a later unit than another, a base slice lies between.
UnitsInOrder(f) ==
    /\ \A p \in DOMAIN f : f[p].view \in {"base", "dependent"} /\ f[p].unit \in Int
    /\ \A p, q \in DOMAIN f : p < q => f[p].unit <= f[q].unit
    /\ \A p, q \in DOMAIN f : q = p + 1 /\ f[q].view = "base" /\ f[p].unit # f[q].unit =>
           \/ IsViewVcl(f[p], f[p].view)
           \/ f[p].view = "dependent" /\ \A r \in DOMAIN f : r > p => f[r].view = "base"
    /\ \A p, q \in DOMAIN f :
           p < q /\ f[p].unit = f[q].unit /\ f[q].view = "base" /\ IsPicStart(f[q], "base") =>
               f[p].view = "base" /\ ~IsViewVcl(f[p], "base")
    /\ \A p, q \in DOMAIN f :
           p < q /\ f[p].view = "base" /\ f[q].view = "base" /\ f[p].unit # f[q].unit =>
               \E r \in p..q - 1 : r \in DOMAIN f /\ f[r].view = "base" /\ IsViewVcl(f[r], "base")

LEMMA UnitsTrue ==
  ASSUME NEW b, NEW d, Demuxed(b, d), NEW f, SpansOf(f, b, d)
  PROVE  UnitsInOrder(f)
<1> DEFINE m == Len(b)
           n == Len(d)
           B(p, i) == i \in 1..m /\ b[i].at = p /\ IsSpan(f[p], b[i], "base")
           D(p, j) == j \in 1..n /\ d[j].at = p /\ IsSpan(f[p], d[j], "dependent")
<1>1. /\ m \in Nat /\ n \in Nat /\ m > 0 /\ n > 0 /\ DOMAIN b = 1..m /\ DOMAIN d = 1..n
      /\ InParts(b, "base") /\ InParts(d, "dependent")
      /\ DOMAIN f = 1..m + n
  BY LenProperties, EmptySeq DEF Demuxed, WellFormed, SpansOf
<1>2. /\ \A i \in 1..m : b[i].access \in Int /\ b[i].access >= 0
      /\ \A j \in 1..n : d[j].access \in Int
  BY <1>1, TurnsTrue
<1>3. /\ \A i, k \in 1..m : i <= k => b[i].access <= b[k].access
      /\ \A j, k \in 1..n : j <= k => d[j].access <= d[k].access
  <2>1. Parts(b, "base") /\ Parts(d, "dependent")
    BY <1>1, <1>2, PartsFound
  <2> QED BY <1>1, <2>1 DEF Parts
<1>4. /\ \A i, k \in 1..m : k = i + 1 /\ b[i].access # b[k].access => IsViewVcl(b[i], "base")
      /\ \A j, k \in 1..n : k = j + 1 /\ d[j].access # d[k].access => IsViewVcl(d[j], "dependent")
  <2>1. Parts(b, "base") /\ Parts(d, "dependent")
    BY <1>1, <1>2, PartsFound
  <2> QED BY <1>1, <2>1 DEF Parts
<1>5. /\ \A i, k \in 1..m :
             i < k /\ b[i].access = b[k].access /\ IsPicStart(b[k], "base") =>
                 ~IsViewVcl(b[i], "base")
      /\ \A i, k \in 1..m :
             i < k /\ b[i].access # b[k].access => \E l \in i..k - 1 : IsViewVcl(b[l], "base")
  <2>1. Parts(b, "base")
    BY <1>1, <1>2, PartsFound
  <2> QED BY <1>1, <2>1 DEF Parts
<1>6. /\ \A i, k \in 1..m : i < k => b[i].at < b[k].at
      /\ \A j, k \in 1..n : j < k => d[j].at < d[k].at
      /\ \A i \in 1..m, j \in 1..n :
             b[i].at # d[j].at /\ (b[i].at < d[j].at <=> b[i].access <= d[j].access)
      /\ \A i \in 1..m : b[i].at \in 1..m + n
      /\ \A j \in 1..n : d[j].at \in 1..m + n
  BY <1>1 DEF Demuxed, OfOneStream
<1>7. \A p \in 1..m + n : (\E i : B(p, i)) \/ (\E j : D(p, j))
  BY <1>1 DEF SpansOf
<1>8. ASSUME NEW p, NEW i, B(p, i)
      PROVE  /\ i \in 1..m /\ b[i].at = p /\ f[p].view = "base" /\ f[p].unit = b[i].access
             /\ (IsViewVcl(f[p], "base") <=> IsViewVcl(b[i], "base"))
             /\ (IsPicStart(f[p], "base") <=> IsPicStart(b[i], "base"))
  <2>1. b[i].access \in Int /\ b[i].access >= 0
    BY <1>2, <1>8
  <2>2. f[p].unit = b[i].access
    BY <1>8, <2>1 DEF IsSpan
  <2> QED BY <1>8, <2>2 DEF IsSpan, IsViewVcl, IsPicStart
<1>9. ASSUME NEW p, NEW j, D(p, j)
      PROVE  /\ j \in 1..n /\ d[j].at = p /\ f[p].view = "dependent"
             /\ f[p].unit = IF d[j].access < 0 THEN -1 ELSE d[j].access
             /\ (IsViewVcl(f[p], "dependent") <=> IsViewVcl(d[j], "dependent"))
  BY <1>9 DEF IsSpan, IsViewVcl
<1> HIDE DEF m, n, B, D
<1>10. ASSUME NEW p, NEW i, B(p, i), NEW q, NEW k, B(q, k), p < q
      PROVE  /\ i < k /\ f[p].unit <= f[q].unit
             /\ q = p + 1 => k = i + 1
  <2>1. /\ i \in 1..m /\ k \in 1..m /\ b[i].at = p /\ b[k].at = q /\ p \in Int /\ q \in Int
        /\ f[p].unit = b[i].access /\ f[q].unit = b[k].access
    BY <1>1, <1>6, <1>8, <1>10
  <2>2. i < k
    <3>1. k < i => q < p
      BY <1>6, <2>1
    <3> QED BY <1>10, <2>1, <3>1
  <2>3. b[i].access <= b[k].access
    BY <1>3, <2>1, <2>2
  <2>4. ASSUME q = p + 1, k # i + 1 PROVE FALSE
    <3>1. i + 1 \in 1..m /\ i < i + 1 /\ i + 1 < k
      BY <1>1, <2>1, <2>2, <2>4
    <3>2. b[i].at < b[i + 1].at /\ b[i + 1].at < b[k].at /\ b[i + 1].at \in 1..m + n
      BY <1>6, <2>1, <3>1
    <3> QED BY <1>1, <2>1, <2>4, <3>2
  <2> QED BY <2>1, <2>2, <2>3, <2>4
<1>11. ASSUME NEW p, NEW i, B(p, i), NEW q, NEW j, D(q, j), p < q PROVE f[p].unit <= f[q].unit
  <2>1. /\ i \in 1..m /\ j \in 1..n /\ b[i].at = p /\ d[j].at = q
        /\ f[p].unit = b[i].access /\ f[q].unit = IF d[j].access < 0 THEN -1 ELSE d[j].access
    BY <1>8, <1>9, <1>11
  <2>2. b[i].access <= d[j].access /\ b[i].access \in Int /\ d[j].access \in Int /\ b[i].access >= 0
    BY <1>2, <1>6, <1>11, <2>1
  <2>3. ~(d[j].access < 0)
    BY <2>2
  <2> QED BY <2>1, <2>2, <2>3
<1>12. ASSUME NEW p, NEW j, D(p, j), NEW q, NEW i, B(q, i), p < q
       PROVE  f[p].unit < f[q].unit /\ d[j].access < b[i].access
  <2>1. /\ i \in 1..m /\ j \in 1..n /\ b[i].at = q /\ d[j].at = p
        /\ f[q].unit = b[i].access /\ f[p].unit = IF d[j].access < 0 THEN -1 ELSE d[j].access
    BY <1>8, <1>9, <1>12
  <2>2. b[i].access \in Int /\ d[j].access \in Int /\ b[i].access >= 0
    BY <1>2, <2>1
  <2>3. ~(q < p)
    BY <1>1, <1>6, <1>12, <2>1
  <2>4. ~(b[i].access <= d[j].access)
    BY <1>6, <2>1, <2>3
  <2>5. d[j].access < b[i].access
    BY <2>2, <2>4
  <2>6. f[p].unit < f[q].unit
    BY <2>1, <2>2, <2>5
  <2> QED BY <2>5, <2>6
<1>13. ASSUME NEW p, NEW j, D(p, j), NEW q, NEW k, D(q, k), p < q PROVE f[p].unit <= f[q].unit /\ j < k
  <2>1. /\ j \in 1..n /\ k \in 1..n /\ d[j].at = p /\ d[k].at = q /\ p \in Int /\ q \in Int
        /\ f[p].unit = IF d[j].access < 0 THEN -1 ELSE d[j].access
        /\ f[q].unit = IF d[k].access < 0 THEN -1 ELSE d[k].access
    BY <1>1, <1>6, <1>9, <1>13
  <2>2. j < k
    <3>1. k < j => q < p
      BY <1>6, <2>1
    <3> QED BY <1>13, <2>1, <3>1
  <2>3. d[j].access <= d[k].access /\ d[j].access \in Int /\ d[k].access \in Int
    BY <1>2, <1>3, <2>1, <2>2
  <2> QED BY <2>1, <2>2, <2>3
<1>14. ASSUME NEW p \in 1..m + n PROVE f[p].view \in {"base", "dependent"} /\ f[p].unit \in Int
  <2>1. CASE \E i : B(p, i)
    BY <1>2, <1>8, <2>1
  <2>2. CASE \E j : D(p, j)
    <3>1. PICK j : D(p, j)
      BY <2>2
    <3>2. d[j].access \in Int /\ f[p].unit = IF d[j].access < 0 THEN -1 ELSE d[j].access
      BY <1>2, <1>9, <3>1
    <3> QED BY <1>9, <3>1, <3>2
  <2> QED BY <1>7, <2>1, <2>2
<1>15. ASSUME NEW p \in 1..m + n, NEW q \in 1..m + n, p < q PROVE f[p].unit <= f[q].unit
  <2>1. CASE (\E i : B(p, i)) /\ (\E k : B(q, k))
    BY <1>10, <1>15, <2>1
  <2>2. CASE (\E i : B(p, i)) /\ (\E j : D(q, j))
    BY <1>11, <1>15, <2>2
  <2>3. CASE (\E j : D(p, j)) /\ (\E i : B(q, i))
    <3>1. f[p].unit < f[q].unit
      BY <1>12, <1>15, <2>3
    <3> QED BY <1>14, <3>1
  <2>4. CASE (\E j : D(p, j)) /\ (\E k : D(q, k))
    BY <1>13, <1>15, <2>4
  <2> QED BY <1>7, <2>1, <2>2, <2>3, <2>4
<1>16. ASSUME NEW p \in 1..m + n, f[p].view = "base" PROVE \E i : B(p, i)
  BY <1>7, <1>9, <1>16
<1>17. ASSUME NEW p \in 1..m + n, NEW q \in 1..m + n, q = p + 1, f[q].view = "base",
              f[p].unit # f[q].unit
       PROVE  \/ IsViewVcl(f[p], f[p].view)
              \/ f[p].view = "dependent" /\ \A r \in 1..m + n : r > p => f[r].view = "base"
  <2>1. PICK i : B(q, i)
    BY <1>16, <1>17
  <2>2. p < q
    BY <1>1, <1>17
  <2>3. CASE \E k : B(p, k)
    <3>1. PICK k : B(p, k)
      BY <2>3
    <3>2. i = k + 1 /\ k \in 1..m /\ i \in 1..m /\ b[k].access # b[i].access
      BY <1>8, <1>10, <1>17, <2>1, <2>2, <3>1
    <3>3. IsViewVcl(b[k], "base")
      BY <1>4, <3>2
    <3> QED BY <1>8, <3>1, <3>3
  <2>4. CASE \E j : D(p, j)
    <3>1. PICK j : D(p, j)
      BY <2>4
    <3>2. j \in 1..n /\ d[j].at = p /\ f[p].view = "dependent" /\ d[j].access < b[i].access
          /\ i \in 1..m /\ b[i].at = q
      BY <1>8, <1>9, <1>12, <2>1, <2>2, <3>1
    <3>3. CASE j = n
      <4>1. ASSUME NEW r \in 1..m + n, r > p PROVE f[r].view = "base"
        <5>1. CASE \E k : D(r, k)
          <6>1. PICK k : D(r, k)
            BY <5>1
          <6>2. j < k /\ k \in 1..n
            <7>1. p < r
              BY <4>1, <1>1
            <7> QED BY <1>9, <1>13, <3>1, <6>1, <7>1
          <6> QED BY <1>1, <3>3, <6>2
        <5> QED BY <1>7, <1>8, <5>1
      <4> QED BY <3>2, <4>1
    <3>4. CASE j # n
      <4>1. j + 1 \in 1..n /\ j < j + 1
        BY <1>1, <3>2, <3>4
      <4>2. d[j].at < d[j + 1].at /\ d[j + 1].at \in 1..m + n /\ d[j + 1].at # b[i].at
        BY <1>6, <3>2, <4>1
      <4>3. b[i].at < d[j + 1].at
        BY <1>1, <1>17, <3>2, <4>2
      <4>4. b[i].access <= d[j + 1].access
        BY <1>6, <3>2, <4>1, <4>3
      <4>5. d[j].access # d[j + 1].access
        <5>1. d[j].access \in Int /\ d[j + 1].access \in Int /\ b[i].access \in Int
          BY <1>2, <3>2, <4>1
        <5> QED BY <3>2, <4>4, <5>1
      <4>6. IsViewVcl(d[j], "dependent")
        BY <1>4, <3>2, <4>1, <4>5
      <4> QED BY <1>9, <3>1, <4>6
    <3> QED BY <3>3, <3>4
  <2> QED BY <1>7, <2>3, <2>4
<1>18. ASSUME NEW p \in 1..m + n, NEW q \in 1..m + n, p < q, f[p].unit = f[q].unit,
              f[q].view = "base", IsPicStart(f[q], "base")
       PROVE  f[p].view = "base" /\ ~IsViewVcl(f[p], "base")
  <2>1. PICK k : B(q, k)
    BY <1>16, <1>18
  <2>2. ~\E j : D(p, j)
    <3> SUFFICES ASSUME NEW j, D(p, j) PROVE FALSE
      OBVIOUS
    <3>1. f[p].unit < f[q].unit
      BY <1>12, <1>18, <2>1
    <3> QED BY <1>14, <1>18, <3>1
  <2>3. PICK i : B(p, i)
    BY <1>7, <2>2
  <2>4. i < k /\ i \in 1..m /\ k \in 1..m /\ b[i].access = b[k].access
    BY <1>8, <1>10, <1>18, <2>1, <2>3
  <2>5. ~IsViewVcl(b[i], "base")
    BY <1>8, <1>18, <1>5, <2>1, <2>4
  <2> QED BY <1>8, <2>3, <2>5
<1>19. ASSUME NEW p \in 1..m + n, NEW q \in 1..m + n, p < q, f[p].view = "base", f[q].view = "base",
              f[p].unit # f[q].unit
       PROVE  \E r \in p..q - 1 : r \in 1..m + n /\ f[r].view = "base" /\ IsViewVcl(f[r], "base")
  <2>1. PICK i : B(p, i)
    BY <1>16, <1>19
  <2>2. PICK k : B(q, k)
    BY <1>16, <1>19
  <2>3. i < k /\ i \in 1..m /\ k \in 1..m /\ b[i].access # b[k].access /\ b[i].at = p /\ b[k].at = q
    BY <1>8, <1>10, <1>19, <2>1, <2>2
  <2>4. PICK l \in i..k - 1 : IsViewVcl(b[l], "base")
    BY <1>5, <2>3
  <2>5. l \in 1..m /\ (l = i \/ i < l) /\ l < k
    BY <1>1, <2>3
  <2> DEFINE r == b[l].at
  <2>6. r \in 1..m + n /\ p <= r /\ r < q
    <3>1. r \in 1..m + n /\ r < q /\ (l = i \/ p < r)
      BY <1>6, <2>3, <2>5
    <3> QED BY <1>1, <2>3, <3>1
  <2>7. B(r, l)
    <3>1. ~\E j : D(r, j)
      BY <1>6, <1>9, <2>5
    <3>2. PICK o : B(r, o)
      BY <1>7, <2>6, <3>1
    <3>3. o = l
      <4>1. o \in 1..m /\ b[o].at = r
        BY <1>8, <3>2
      <4>2. ~(o < l) /\ ~(l < o)
        BY <1>1, <1>6, <2>5, <2>6, <4>1
      <4> QED BY <1>1, <2>5, <4>1, <4>2
    <3> QED BY <3>2, <3>3
  <2> HIDE DEF r
  <2>8. f[r].view = "base" /\ IsViewVcl(f[r], "base")
    BY <1>8, <2>4, <2>7
  <2>9. r \in p..q - 1
    BY <2>6
  <2> QED BY <2>6, <2>8, <2>9
<1> QED BY <1>1, <1>14, <1>15, <1>17, <1>18, <1>19 DEF UnitsInOrder

-----------------------------------------------------------------------------
(* The pairing *)

\* The files and the spans stay as they are.
LEMMA PairStays == NextPair => UNCHANGED <<pair, file>>
  BY DEF NextPair, ScanBasePicture, ScanBaseNal, ScanDependentNal, Unbuilt, Built, Rebuild,
         OverPair, CountOn, OnlyHere, Finish, Fallback, vars2, vars, locals

\* Where the spans come from.
LEMMA InitSpans ==
  ASSUME InitPair
  PROVE  /\ Demuxed(pair.base, pair.dep) /\ SpansOf(file, pair.base, pair.dep)
         /\ WellFormed(file) /\ Len(file) = Len(pair.base) + Len(pair.dep)
         /\ \A p \in DOMAIN file : file[p].at = p
<1> DEFINE b == pair.base
           d == pair.dep
           turn_b == Au(b, "base")
           turn_d == DepTurns(b, d)
<1>1. Demuxed(b, d)
  BY PairsAssumption DEF InitPair
<1>2. file = Spans(b, d, turn_b, turn_d)
  BY DEF InitPair
<1>3. file = [p \in DOMAIN file |-> file[p]]
  BY <1>2 DEF Spans
<1> HIDE DEF b, d, turn_b, turn_d
<1>4. SpansOf(file, b, d)
  BY <1>1, <1>2, SpansTrue DEF turn_b, turn_d
<1>5. WellFormed(file) /\ Len(file) = Len(b) + Len(d) /\ \A p \in DOMAIN file : file[p].at = p
  BY <1>1, <1>3, <1>4, SpansWellFormed
<1> QED BY <1>1, <1>4, <1>5 DEF b, d

\* What the files give, which no step changes.
FileInv == PairsTrue /\ WellFormed(file) /\ UnitsInOrder(file)

LEMMA FileKept == SpecPair => []FileInv
<1>1. InitPair => FileInv
  BY InitSpans, UnitsTrue DEF FileInv, PairsTrue
<1>2. FileInv /\ [NextPair]_vars2 => FileInv'
  <2> SUFFICES ASSUME FileInv, UNCHANGED <<pair, file>> PROVE FileInv'
    BY PairStays DEF vars2, vars
  <2> QED BY DEF FileInv, PairsTrue
<1> QED BY <1>1, <1>2, PTL DEF SpecPair

\* NAL for NAL, the spans are the stream that the two files were demuxed from, with
\* up to eight orphans ahead of it: "the exact per-AU order" (mvcsource.c:1187).
THEOREM PairsAlwaysTrue == SpecPair => []PairsTrue
  BY FileKept, PTL DEF FileInv

-----------------------------------------------------------------------------
(* Types, and the parameter set list *)

LEMMA PairInitTypes == InitPair => TypeInv /\ ListedInv /\ EndInv
<1> SUFFICES ASSUME InitPair PROVE TypeInv /\ ListedInv /\ EndInv
  OBVIOUS
<1>1. WellFormed(file) /\ Len(file) \in Nat
  BY InitSpans, FileType
<1>2. /\ idx \in Lists(SeekPointType(Len(file), frames)) /\ ps \in Lists(ParamSetType(Len(file)))
      /\ pb \in Lists(Range(pb.v)) /\ Len(idx.v) = 0 /\ Len(pb.v) = 0
  BY EmptyLists, EmptySeq DEF InitPair, EmptyList
<1>3. cvs.base = 0 /\ cvs.first_sp = 0 /\ frames = 0
  BY DEF InitPair
<1>4. ListsInv
  BY <1>1, <1>2, <1>3 DEF ListsInv
<1>5. ScalarsInv
  BY <1>1, <1>3 DEF InitPair, ScalarsInv
<1>6. FlagsInv
  BY DEF InitPair, FlagsInv
<1>7. ListedInv /\ EndInv
  BY DEF InitPair, EmptyList, ListedInv, EndInv, Done
<1> QED BY <1>4, <1>5, <1>6, <1>7 DEF TypeInv

LEMMA UnitStartWithin ==
  ASSUME TypeInv, Scanning
  PROVE  LET S == {p \in 1..pos : file[p].unit = Nal.unit}
         IN  UnitStart \in S /\ \A p \in S : UnitStart <= p
<1> DEFINE S == {p \in 1..pos : file[p].unit = Nal.unit}
<1>1. pos \in 1..pos
  BY FileType DEF TypeInv, ListsInv, ScalarsInv
<1>2. S \in SUBSET Nat /\ S # {}
  BY <1>1 DEF Nal
<1> HIDE DEF S
<1>3. Min(S) \in S /\ \A p \in S : Min(S) <= p
  BY <1>2, MinExists
<1> QED BY <1>3 DEF UnitStart, S

\* Every step of the merge keeps the scan's types, and its set list.
LEMMA PairTypeStep ==
  ASSUME TypeInv, ListedInv, EndInv, [NextPair]_vars2
  PROVE  TypeInv' /\ ListedInv' /\ EndInv'
<1>0. /\ Len(file) \in Nat /\ pos \in 1..Len(file) + 1 /\ frames \in 0..pos - 1
      /\ au_start \in 1..pos /\ seen \subseteq {7, 8}
  BY FileType DEF TypeInv, ListsInv, ScalarsInv
<1>1. Scanning => pos \in 1..Len(file)
  BY FileType DEF TypeInv, ListsInv, Scanning
<1>2. ASSUME Scanning, PushSet, pos' = pos + 1, OnlyHere,
             UNCHANGED <<file, pass, frames, cvs, pb, idx, num_pics>>,
             is_mvc' \in BOOLEAN, recovery_seen' \in BOOLEAN, seen' \subseteq {7, 8}
      PROVE  TypeInv' /\ ListedInv' /\ EndInv'
  <2>1. ListsNal
    BY <1>2 DEF ListsNal, PushSet, SetAt, Scanning, Nal
  <2>2. ListedInv' /\ EndInv' /\ ps' \in Lists(ParamSetType(Len(file)))
    BY <2>1, NalListed
  <2>3. ListsInv'
    BY <1>2, <2>2 DEF TypeInv, ListsInv
  <2>4. ScalarsInv'
    BY <1>0, <1>1, <1>2 DEF TypeInv, ScalarsInv, OnlyHere
  <2>5. FlagsInv'
    BY <1>2 DEF TypeInv, FlagsInv, OnlyHere
  <2> QED BY <2>2, <2>3, <2>4, <2>5 DEF TypeInv
<1>3. CASE ScanBasePicture
  <2>1. /\ TakePicture(UnitStart) \/ TakeIdr(UnitStart) \/ TakeIdrOnly(UnitStart)
        /\ CountOn /\ OnlyHere /\ Scanning /\ Counted
    BY <1>3 DEF ScanBasePicture, TakePicture, TakeIdr, TakeIdrOnly
  <2>2. UnitStart \in 1..pos
    BY <2>1, UnitStartWithin
  <2>3. ListsInv' /\ pos' \in 1..Len(file)' + 1 /\ frames' \in 0..pos' - 1 /\ pos' = pos + 1
    BY <2>1, <2>2, PictureTypes
  <2>4. /\ recovery_seen' = FALSE /\ UNCHANGED <<file, pass, ps, is_mvc, seen, num_pics>>
        /\ UNCHANGED <<au_start, in_vcl>>
    BY <2>1 DEF CountOn, OnlyHere
  <2>5. ScalarsInv'
    BY <1>0, <2>3, <2>4 DEF TypeInv, ScalarsInv
  <2>6. FlagsInv'
    BY <2>4 DEF TypeInv, FlagsInv
  <2>7. ~SetAt(pos)
    BY <2>1 DEF Counted, IsFirstSlice, SetAt, Nal, ParamTypes
  <2>8. ListsNal
    BY <2>1, <2>3, <2>4, <2>7 DEF ListsNal
  <2>9. ListedInv' /\ EndInv'
    BY <2>8, NalListed
  <2> QED BY <2>3, <2>5, <2>6, <2>9 DEF TypeInv
<1>4. CASE ScanBaseNal
  <2>1. is_mvc' \in BOOLEAN /\ recovery_seen' \in BOOLEAN /\ seen' \subseteq {7, 8}
    BY <1>0, <1>4 DEF ScanBaseNal
  <2> QED BY <1>2, <1>4, <2>1 DEF ScanBaseNal
<1>5. CASE ScanDependentNal
  <2>1. is_mvc' \in BOOLEAN /\ recovery_seen' \in BOOLEAN /\ seen' \subseteq {7, 8}
    BY <1>0, <1>5 DEF ScanDependentNal, TypeInv, FlagsInv
  <2> QED BY <1>2, <1>5, <2>1 DEF ScanDependentNal
<1>6. CASE Unbuilt
  BY <1>6 DEF Unbuilt, locals, TypeInv, ListsInv, ScalarsInv, FlagsInv, ListedInv, SetAt,
              EndInv, Done
<1>7. CASE Built
  BY <1>7, FinishTypes, NoneListed DEF Built
<1>8. CASE Rebuild
  BY <1>8, DroppedTypes, NoneListed DEF Rebuild
<1>9. CASE OverPair \/ UNCHANGED vars2
  <2>1. UNCHANGED <<file, pass, pos, au_start, in_vcl, frames, is_mvc, seen, recovery_seen, cvs, pb,
                    idx, ps, num_pics>>
    BY <1>9 DEF OverPair, vars2, vars, locals
  <2>2. TypeInv'
    BY <2>1 DEF TypeInv, ListsInv, ScalarsInv, FlagsInv
  <2>3. ListedInv' /\ EndInv'
    BY <2>1 DEF ListedInv, SetAt, EndInv, Done, AtEnd
  <2> QED BY <2>2, <2>3
<1> QED BY <1>3, <1>4, <1>5, <1>6, <1>7, <1>8, <1>9 DEF NextPair

LEMMA PairTypesKept == SpecPair => [](TypeInv /\ ListedInv /\ EndInv)
  BY PairInitTypes, PairTypeStep, PTL DEF SpecPair

\* "Feeding just the last of each leaves the decoder in the identical state"
\* (mvcsource.c:890), of the two files' sets in the order of their spans: a decode
\* from any seek point starts with the last set of each type and id before it.
THEOREM PairRefeedCorrect == SpecPair => []RefeedTrue
  BY PairTypesKept, RefeedIsLast, PTL

-----------------------------------------------------------------------------
(* What the parser knows *)

IsBaseSlice(p) == p \in DOMAIN file /\ file[p].view = "base" /\ IsFirstSlice(file[p])

\* The PPSs that base pictures name.
BaseIds == {file[p].pps : p \in {q \in DOMAIN file : IsBaseSlice(q)}}

\* Each file holds the slices of its view alone, and no set that the other view's
\* slices use; the dependent file ends with a slice.
ViewsApart ==
    /\ \A p \in DOMAIN file : file[p].view = "base" /\ IsVcl(file[p].type) => file[p].type \in {1, 5}
    /\ \A p \in DOMAIN file : file[p].view = "dependent" =>
           /\ file[p].type # 7 /\ (IsVcl(file[p].type) => file[p].type = 20)
           /\ file[p].type = 8 => file[p].id \notin BaseIds
           /\ (\A r \in DOMAIN file : r > p => file[r].view = "base") => file[p].type = 20

\* Learnt, of the ids in S.
LearntAmong(S, type, sets, n) ==
    \A id \in S : /\ id \in DOMAIN sets <=> SetBefore(type, id, n) # {}
                  /\ id \in DOMAIN sets => sets[id] = file[ActiveAt(type, id, n)].sps

LEMMA AmongStep ==
  ASSUME NEW n \in Nat \ {0}, NEW S, NEW type, NEW sets, LearntAmong(S, type, sets, n)
  PROVE  /\ file[n].type # type \/ file[n].id \notin S \/ ~file[n].usable =>
                LearntAmong(S, type, sets, n + 1)
         /\ file[n].type = type /\ file[n].usable =>
                LearntAmong(S, type, With(sets, file[n].id, file[n].sps), n + 1)
<1>1. ASSUME file[n].type # type \/ file[n].id \notin S \/ ~file[n].usable
      PROVE  LearntAmong(S, type, sets, n + 1)
  <2>1. \A id \in S : /\ SetBefore(type, id, n + 1) = SetBefore(type, id, n)
                      /\ ActiveAt(type, id, n + 1) = ActiveAt(type, id, n)
    BY <1>1, ActiveStep
  <2> QED BY <2>1 DEF LearntAmong
<1>2. ASSUME file[n].type = type, file[n].usable
      PROVE  LearntAmong(S, type, With(sets, file[n].id, file[n].sps), n + 1)
  <2> DEFINE x == file[n].id
             w == With(sets, x, file[n].sps)
  <2>1. DOMAIN w = DOMAIN sets \cup {x} /\ w[x] = file[n].sps
        /\ \A id \in DOMAIN sets : id # x => w[id] = sets[id]
    BY DEF With
  <2>2. ActiveAt(type, x, n + 1) = n /\ n \in SetBefore(type, x, n + 1)
    <3>1. ActiveAt(type, x, n + 1) = n
      BY <1>2, ActiveStep
    <3>2. n \in 1..(n + 1) - 1
      OBVIOUS
    <3> QED BY <1>2, <3>1, <3>2 DEF SetBefore, SentBefore
  <2>3. \A id \in S : id # x => /\ SetBefore(type, id, n + 1) = SetBefore(type, id, n)
                                /\ ActiveAt(type, id, n + 1) = ActiveAt(type, id, n)
    BY ActiveStep
  <2> HIDE DEF w
  <2>4. ASSUME NEW id \in S
        PROVE  /\ id \in DOMAIN w <=> SetBefore(type, id, n + 1) # {}
               /\ id \in DOMAIN w => w[id] = file[ActiveAt(type, id, n + 1)].sps
    <3>1. CASE id = x
      BY <2>1, <2>2, <3>1
    <3>2. CASE id # x
      BY <2>1, <2>3, <3>2 DEF LearntAmong
    <3> QED BY <3>1, <3>2
  <2> QED BY <2>4 DEF LearntAmong, w
<1> QED BY <1>1, <1>2

\* The sets of the base view that have come; the first pass knows all SPSs, and the
\* PPSs that it may need.
PairParserInv ==
    /\ \A type \in {7, 8} :
           type \in seen <=> \E q \in 1..pos - 1 : file[q].view = "base" /\ file[q].type = type
    /\ pass = "poc" =>
          /\ parser = [sps |-> parser.sps, pps |-> parser.pps, ctx |-> parser.ctx]
          /\ LearntAmong(Nat, 7, parser.sps, pos) /\ LearntAmong(BaseIds, 8, parser.pps, pos)

LEMMA PairParserStep ==
  ASSUME TypeInv, FileInv, ViewsApart, PairParserInv, [NextPair]_vars2
  PROVE  PairParserInv'
<1>0. /\ Len(file) \in Nat /\ DOMAIN file = 1..Len(file) /\ pos \in 1..Len(file) + 1
      /\ WellFormed(file) /\ pos \in Nat \ {0}
  BY FileType DEF TypeInv, ListsInv, ScalarsInv
<1>1. /\ BaseIds' = BaseIds
      /\ \A S, type, sets, n : LearntAmong(S, type, sets, n)' <=> LearntAmong(S, type, sets, n)
  <2>1. file' = file
    BY PairStays DEF vars2, vars
  <2> QED BY <2>1, FileFixed, SMTT(30) DEF LearntAmong, BaseIds, IsBaseSlice
<1>2. ASSUME Scanning, pos' = pos + 1, UNCHANGED <<file, pass>>,
             seen' = seen \cup (IF Nal.view = "base" THEN {Nal.type} \cap {7, 8} ELSE {}),
             pass = "poc" =>
                 /\ parser' = [sps |-> parser'.sps, pps |-> parser'.pps, ctx |-> parser'.ctx]
                 /\ LearntAmong(Nat, 7, parser'.sps, pos + 1)
                 /\ LearntAmong(BaseIds, 8, parser'.pps, pos + 1)
      PROVE  PairParserInv'
  <2>1. ASSUME NEW type \in {7, 8}
        PROVE  type \in seen' <=>
                   \E q \in 1..pos' - 1 : file'[q].view = "base" /\ file'[q].type = type
    <3>1. 1..pos' - 1 = (1..pos - 1) \cup {pos}
      BY <1>0, <1>2
    <3>2. type \in seen' <=> type \in seen \/ (file[pos].view = "base" /\ file[pos].type = type)
      BY <1>2 DEF Nal
    <3>3. type \in seen <=> \E q \in 1..pos - 1 : file[q].view = "base" /\ file[q].type = type
      BY DEF PairParserInv
    <3> QED BY <1>2, <3>1, <3>2, <3>3
  <2> QED BY <1>1, <1>2, <2>1 DEF PairParserInv
\* A NAL that the parser learns nothing from, or whose id it never needs.
<1>3. ASSUME file[pos].type # 7, file[pos].type # 8 \/ file[pos].id \notin BaseIds, pass = "poc"
      PROVE  /\ LearntAmong(Nat, 7, parser.sps, pos + 1)
             /\ LearntAmong(BaseIds, 8, parser.pps, pos + 1)
             /\ parser = [sps |-> parser.sps, pps |-> parser.pps, ctx |-> parser.ctx]
  BY <1>0, <1>3, AmongStep DEF PairParserInv
<1>4. CASE ScanBasePicture
  <2>1. /\ Scanning /\ Counted /\ CountOn /\ Nal.view = "base"
        /\ pass = "poc" => parser' = [parser EXCEPT !.ctx = parser'.ctx]
    BY <1>4 DEF ScanBasePicture, TakePicture, TakeIdr, TakeIdrOnly, PairParserInv
  <2>2. file[pos].type \notin {7, 8} /\ {Nal.type} \cap {7, 8} = {}
    BY <2>1 DEF Counted, IsFirstSlice, Nal
  <2>3. seen' = seen /\ pos' = pos + 1 /\ UNCHANGED <<file, pass>>
    BY <2>1 DEF CountOn
  <2>4. ASSUME pass = "poc"
        PROVE  /\ parser' = [sps |-> parser'.sps, pps |-> parser'.pps, ctx |-> parser'.ctx]
               /\ parser'.sps = parser.sps /\ parser'.pps = parser.pps
    BY <2>1, <2>4 DEF PairParserInv
  <2> QED BY <1>2, <1>3, <2>1, <2>2, <2>3, <2>4
<1>5. CASE ScanBaseNal
  <2>1. /\ Scanning /\ pos' = pos + 1 /\ UNCHANGED <<file, pass>> /\ Nal.view = "base"
        /\ seen' = seen \cup ({Nal.type} \cap {7, 8})
        /\ parser' = IF pass = "poc" /\ Nal.type \in {7, 8} THEN Learned(Nal) ELSE parser
    BY <1>5 DEF ScanBaseNal
  <2>2. pos \in DOMAIN file /\ BaseIds \subseteq Nat
    BY <2>1 DEF Scanning, BaseIds, IsBaseSlice, IsFirstSlice, FileInv, WellFormed
  <2>3. Nal.type \in {7, 8} => Nal.id \in -1..255
    BY <1>0, <2>2 DEF Nal, WellFormed
  <2>4. ASSUME pass = "poc"
        PROVE  /\ parser' = [sps |-> parser'.sps, pps |-> parser'.pps, ctx |-> parser'.ctx]
               /\ LearntAmong(Nat, 7, parser'.sps, pos + 1)
               /\ LearntAmong(BaseIds, 8, parser'.pps, pos + 1)
    <3>0. /\ parser = [sps |-> parser.sps, pps |-> parser.pps, ctx |-> parser.ctx]
          /\ LearntAmong(Nat, 7, parser.sps, pos) /\ LearntAmong(BaseIds, 8, parser.pps, pos)
      BY <2>4 DEF PairParserInv
    <3>1. CASE Nal.type = 7 /\ Nal.id # -1 /\ Nal.usable
      <4>1. parser' = [sps |-> With(parser.sps, Nal.id, Nal.sps), pps |-> parser.pps,
                       ctx |-> parser.ctx]
        BY <2>1, <2>4, <3>0, <3>1 DEF Learned
      <4> QED BY <1>0, <3>0, <3>1, <4>1, AmongStep DEF Nal
    <3>2. CASE Nal.type = 8 /\ Nal.id # -1 /\ Nal.usable
      <4>1. parser' = [sps |-> parser.sps, pps |-> With(parser.pps, Nal.id, Nal.sps),
                       ctx |-> parser.ctx]
        BY <2>1, <2>4, <3>0, <3>2 DEF Learned
      <4> QED BY <1>0, <3>0, <3>2, <4>1, AmongStep DEF Nal
    <3>3. CASE Nal.type \notin {7, 8} \/ Nal.id = -1 \/ ~Nal.usable
      <4>1. parser' = parser
        BY <2>1, <3>3 DEF Learned
      <4>2. /\ file[pos].type # 7 \/ file[pos].id \notin Nat \/ ~file[pos].usable
            /\ file[pos].type # 8 \/ file[pos].id \notin BaseIds \/ ~file[pos].usable
        BY <2>2, <3>3 DEF Nal
      <4> QED BY <1>0, <3>0, <4>1, <4>2, AmongStep
    <3> QED BY <3>1, <3>2, <3>3
  <2> QED BY <1>2, <2>1, <2>4
<1>6. CASE ScanDependentNal
  <2>1. /\ Scanning /\ pos' = pos + 1 /\ UNCHANGED <<file, pass, seen, parser>>
        /\ Nal.view = "dependent" /\ pos \in DOMAIN file
    BY <1>6 DEF ScanDependentNal, Scanning
  <2>2. file[pos].type # 7 /\ (file[pos].type = 8 => file[pos].id \notin BaseIds)
    BY <2>1 DEF ViewsApart, Nal
  <2> QED BY <1>2, <1>3, <2>1, <2>2
<1>7. CASE Rebuild
  <2>1. seen' = {} /\ pos' = 1 /\ pass' = "idr"
    BY <1>7 DEF Rebuild, Fallback, FreshLocals
  <2> QED BY <2>1 DEF PairParserInv
<1>8. CASE Unbuilt \/ Built \/ OverPair \/ UNCHANGED vars2
  <2>1. UNCHANGED <<file, seen, parser, pos>> /\ (pass' = "poc" => pass = "poc")
    BY <1>8 DEF Unbuilt, Built, Finish, OverPair, vars2, vars, locals
  <2> QED BY <1>1, <2>1 DEF PairParserInv
<1> QED BY <1>4, <1>5, <1>6, <1>7, <1>8 DEF NextPair

\* The pictures counted are those a decoder puts out, and the parser has their sets.
LEMMA PairKnows == TypeInv /\ FileInv /\ ViewsApart /\ PairParserInv => Knows
<1> SUFFICES ASSUME TypeInv, FileInv, ViewsApart, PairParserInv, Scanning
             PROVE  /\ ~Counted => pos \notin Decoded
                    /\ Counted /\ SetsKnown => pos \in Decoded
                    /\ Counted /\ pass = "poc" /\ Parsable(Nal) =>
                           /\ pos \in Decoded
                           /\ Derived = DerivePoc(parser.ctx, SpsAt(pos), file[pos])
                           /\ \A ctx : [parser EXCEPT !.ctx = ctx].ctx = ctx
  BY DEF Knows
<1>0. pos \in DOMAIN file /\ pos \in Nat \ {0} /\ seen \subseteq {7, 8} /\ WellFormed(file)
      /\ DOMAIN file = 1..Len(file) /\ Len(file) \in Nat
  BY FileType DEF Scanning, TypeInv, ListsInv, ScalarsInv
<1>1. file[pos].view \in {"base", "dependent"}
  BY <1>0 DEF FileInv, UnitsInOrder
<1>2. ASSUME IsFirstSlice(Nal) PROVE IsBaseSlice(pos) /\ file[pos].pps \in BaseIds /\ file[pos].pps \in Nat
  <2>1. file[pos].type \in {1, 5} /\ file[pos].first
    BY <1>2 DEF IsFirstSlice, Nal
  <2>2. file[pos].view # "dependent"
    BY <1>0, <2>1 DEF ViewsApart, IsVcl
  <2>3. IsBaseSlice(pos)
    BY <1>0, <1>1, <1>2, <2>2 DEF IsBaseSlice, Nal
  <2>4. file[pos].pps \in BaseIds
    BY <1>0, <2>3 DEF BaseIds
  <2> QED BY <1>0, <2>1, <2>3, <2>4 DEF WellFormed
\* A set that a base picture needs is one of the base view.
<1>3. ASSUME NEW q \in 1..pos - 1, file[q].type = 7 \/ (file[q].type = 8 /\ file[q].id \in BaseIds)
      PROVE  file[q].type \in seen
  <2>1. q \in DOMAIN file
    BY <1>0
  <2>2. file[q].view = "base"
    BY <1>3, <2>1 DEF ViewsApart, FileInv, UnitsInOrder
  <2> QED BY <1>3, <2>2 DEF PairParserInv
<1>4. ASSUME pos \in Decoded PROVE Counted
  <2>1. IsFirstSlice(Nal) /\ CanDecode(pos)
    BY <1>4 DEF Decoded, Nal
  <2>2. PICK a : a \in SetBefore(8, file[pos].pps, pos) /\ a = ActiveAt(8, file[pos].pps, pos)
    BY <1>0, <2>1, ActiveIs DEF CanDecode
  <2>3. PICK c : c \in SetBefore(7, file[a].sps, pos)
    BY <2>1, <2>2 DEF CanDecode
  <2>4. 8 \in seen /\ 7 \in seen
    BY <1>2, <1>3, <2>1, <2>2, <2>3 DEF SetBefore, SentBefore
  <2> QED BY <1>0, <2>1, <2>4 DEF Counted, GateOpen
<1>5. ASSUME Counted, SetsKnown PROVE pos \in Decoded
  <2>1. IsFirstSlice(file[pos]) /\ 7 \in seen /\ 8 \in seen
    BY <1>5 DEF Counted, GateOpen, Nal
  <2>2. Before(7, pos) /\ Before(8, pos)
    BY <2>1 DEF PairParserInv, Before
  <2> QED BY <1>0, <1>5, <2>1, <2>2 DEF SetsKnown, Decoded
<1>6. ASSUME Counted, pass = "poc", Parsable(Nal)
      PROVE  /\ pos \in Decoded
             /\ Derived = DerivePoc(parser.ctx, SpsAt(pos), file[pos])
             /\ \A ctx : [parser EXCEPT !.ctx = ctx].ctx = ctx
  <2> DEFINE pps == file[pos].pps
             a == ActiveAt(8, pps, pos)
             id == file[a].sps
  <2>1. /\ LearntAmong(Nat, 7, parser.sps, pos) /\ LearntAmong(BaseIds, 8, parser.pps, pos)
        /\ parser = [sps |-> parser.sps, pps |-> parser.pps, ctx |-> parser.ctx]
    BY <1>6 DEF PairParserInv
  <2>2. /\ IsFirstSlice(file[pos]) /\ pps \in BaseIds /\ pps \in DOMAIN parser.pps
        /\ parser.pps[pps] \in DOMAIN parser.sps
    BY <1>2, <1>6 DEF Counted, Parsable, Nal
  <2>3. SetBefore(8, pps, pos) # {} /\ parser.pps[pps] = id
    BY <2>1, <2>2 DEF LearntAmong
  <2>4. id \in Nat
    <3>1. a \in SetBefore(8, pps, pos)
      BY <1>0, <2>3, ActiveIs
    <3>2. a \in DOMAIN file /\ file[a].type = 8
      BY <1>0, <3>1 DEF SetBefore, SentBefore
    <3> QED BY <1>0, <3>2 DEF WellFormed
  <2>5. SetBefore(7, id, pos) # {} /\ parser.sps[id] = SpsAt(pos)
    BY <2>1, <2>2, <2>3, <2>4 DEF LearntAmong, SpsAt
  <2>6. pos \in Decoded
    BY <1>0, <2>2, <2>3, <2>5 DEF Decoded, CanDecode
  <2>7. Derived = DerivePoc(parser.ctx, SpsAt(pos), file[pos])
    BY <2>3, <2>5 DEF Derived, Nal
  <2> QED BY <2>1, <2>6, <2>7
<1> QED BY <1>4, <1>5, <1>6

LEMMA PairParserKept == SpecPair /\ ViewsApart => [](PairParserInv /\ ViewsApart)
<1>1. InitPair => PairParserInv
  <2> SUFFICES ASSUME InitPair PROVE PairParserInv
    OBVIOUS
  <2>1. pos = 1 /\ seen = {} /\ parser = FreshParser
    BY DEF InitPair
  <2>2. \A S, type : LearntAmong(S, type, [id \in {} |-> 0], 1)
    BY DEF LearntAmong, SetBefore, SentBefore
  <2> QED BY <2>1, <2>2 DEF PairParserInv, FreshParser
<1>2. ViewsApart /\ [NextPair]_vars2 => ViewsApart'
  <2> SUFFICES ASSUME ViewsApart, file' = file PROVE ViewsApart'
    BY PairStays DEF vars2, vars
  <2>1. BaseIds' = BaseIds
    BY DEF BaseIds, IsBaseSlice
  <2> QED BY <2>1 DEF ViewsApart
<1> QED BY <1>1, <1>2, PairParserStep, PairTypesKept, FileKept, PTL DEF SpecPair

-----------------------------------------------------------------------------
(* The scan *)

\* A counted picture's access unit begins where its turn of the merge begins.
LEMMA UnitFound ==
  ASSUME TypeInv, FileInv, ViewsApart, Scanning, Nal.view = "base", IsFirstSlice(Nal)
  PROVE  /\ UnitBegins(UnitStart, pos)
         /\ \A q \in 1..pos - 1 : file[q].unit = Nal.unit => UnitStart <= q
<1> DEFINE u == UnitStart
<1>1. pos \in DOMAIN file /\ DOMAIN file = 1..Len(file) /\ Len(file) \in Nat
  BY FileType DEF Scanning, TypeInv, ListsInv
<1>2. u \in 1..pos /\ file[u].unit = file[pos].unit
      /\ \A p \in 1..pos : file[p].unit = file[pos].unit => u <= p
  BY UnitStartWithin DEF Nal
<1> HIDE DEF u
<1>3. /\ \A p \in DOMAIN file : file[p].view \in {"base", "dependent"} /\ file[p].unit \in Int
      /\ \A p, q \in DOMAIN file : p < q => file[p].unit <= file[q].unit
  BY DEF FileInv, UnitsInOrder
<1>4. file[pos].view = "base" /\ IsPicStart(file[pos], "base")
  BY DEF Nal, IsFirstSlice, IsPicStart
<1>5. ASSUME NEW q \in u..pos - 1 PROVE file[q].view = "base" /\ ~IsVcl(file[q].type)
  <2>1. q \in DOMAIN file /\ u \in DOMAIN file /\ q < pos /\ (q = u \/ u < q)
    BY <1>1, <1>2
  <2>2. file[q].unit = file[pos].unit
    <3>1. file[u].unit <= file[q].unit /\ file[q].unit <= file[pos].unit
      BY <1>1, <1>3, <2>1
    <3> QED BY <1>1, <1>2, <1>3, <2>1, <3>1
  <2>3. file[q].view = "base" /\ ~IsViewVcl(file[q], "base")
    BY <1>1, <1>4, <2>1, <2>2 DEF FileInv, UnitsInOrder
  <2> QED BY <2>1, <2>3 DEF ViewsApart, IsViewVcl
<1>6. ASSUME u # 1 PROVE IsVcl(file[u - 1].type)
  <2>1. u - 1 \in DOMAIN file /\ u \in DOMAIN file /\ u = (u - 1) + 1 /\ u - 1 \in 1..pos /\ ~(u <= u - 1)
    BY <1>1, <1>2, <1>6
  <2>2. file[u].view = "base"
    BY <1>1, <1>2, <1>4, <1>5
  <2>3. file[u - 1].unit # file[u].unit
    BY <1>2, <2>1
  <2>4. \/ IsViewVcl(file[u - 1], file[u - 1].view)
        \/ /\ file[u - 1].view = "dependent"
           /\ \A r \in DOMAIN file : r > u - 1 => file[r].view = "base"
    BY <2>1, <2>2, <2>3 DEF FileInv, UnitsInOrder
  <2>5. file[u - 1].type \in {1, 5, 20}
    BY <2>1, <2>4 DEF ViewsApart, IsViewVcl
  <2> QED BY <2>5 DEF IsVcl
<1>7. UnitBegins(u, pos)
  BY <1>2, <1>5, <1>6 DEF UnitBegins
<1>8. \A q \in 1..pos - 1 : file[q].unit = Nal.unit => u <= q
  BY <1>1, <1>2 DEF Nal
<1> QED BY <1>7, <1>8 DEF u

\* Every step of the merge is one of those that ScanProofs reasons about.
LEMMA PairStepIs ==
  ASSUME TypeInv, FileInv, ViewsApart, PairParserInv, [NextPair]_vars2
  PROVE  ScanStep(UnitStart)
<1>1. CASE ScanBasePicture
  <2>1. /\ TakePicture(UnitStart) \/ TakeIdr(UnitStart) \/ TakeIdrOnly(UnitStart)
        /\ CountOn /\ Scanning /\ Nal.view = "base" /\ IsFirstSlice(Nal)
    BY <1>1 DEF ScanBasePicture, TakePicture, TakeIdr, TakeIdrOnly, Counted
  <2> QED BY <2>1, UnitFound DEF ScanStep, Takes
<1>2. CASE ScanBaseNal
  <2>1. pass = "poc" => parser'.ctx = parser.ctx
    BY <1>2 DEF ScanBaseNal, Learned, PairParserInv
  <2> QED BY <1>2, <2>1 DEF ScanBaseNal, ScanStep, Passes
<1>3. CASE ScanDependentNal
  <2>1. Scanning /\ Nal.view = "dependent" /\ pos \in DOMAIN file
    BY <1>3 DEF ScanDependentNal, Scanning
  <2>2. ~Counted
    BY <2>1 DEF ViewsApart, Counted, IsFirstSlice, IsVcl, Nal
  <2> QED BY <1>3, <2>2 DEF ScanDependentNal, ScanStep, Passes
<1>4. CASE Built
  BY <1>4 DEF Built, ScanStep
<1>5. CASE Rebuild
  BY <1>5 DEF Rebuild, ScanStep
<1>6. CASE Unbuilt
  BY <1>6 DEF Unbuilt, locals, ScanStep, Rests
<1>7. CASE OverPair \/ UNCHANGED vars2
  BY <1>7 DEF OverPair, vars2, vars, locals, ScanStep, Rests
<1> QED BY <1>1, <1>2, <1>3, <1>4, <1>5, <1>6, <1>7 DEF NextPair

LEMMA PairCountKept == SpecPair /\ ViewsApart => [](CountInv /\ PointsInv)
<1>1. InitPair => CountInv /\ PointsInv
  <2> SUFFICES ASSUME InitPair PROVE CountInv /\ PointsInv
    OBVIOUS
  <2>1. pos = 1 /\ frames = 0 /\ idx = EmptyList /\ pass = "poc" /\ WellFormed(file)
    BY InitSpans DEF InitPair
  <2>2. DecodeIndex(1) = 0
    BY <2>1, IndexEnds
  <2> QED BY <2>1, <2>2 DEF CountInv, PointsInv, Done, EmptyList
<1>2. TypeInv /\ FileInv /\ ViewsApart /\ PairParserInv /\ CountInv /\ PointsInv
          /\ [NextPair]_vars2 => CountInv' /\ PointsInv'
  BY PairStepIs, PairKnows, CountStep
<1> QED BY <1>1, <1>2, PairTypesKept, FileKept, PairParserKept, PTL DEF SpecPair

LEMMA PairSetsKnown == SpecPair /\ SetsKnown => []SetsKnown
<1>1. SetsKnown /\ [NextPair]_vars2 => SetsKnown'
  BY PairStays, SetsStayKnown DEF vars2, vars
<1> QED BY <1>1, PTL DEF SpecPair

\* "Blind output count == scan count" (mvcsource.c:761), of a pair: the base
\* pictures counted are those a decoder puts out.
THEOREM PairCountCorrect == SpecPair /\ ViewsApart /\ SetsKnown => []CountTrue
  BY PairTypesKept, PairCountKept, PairSetsKnown, CountIs, PTL

\* Every seek point names the first span of its picture's access unit, wherever
\* its files and the orphans ahead of it put that.
THEOREM PairBoundaryCorrect == SpecPair /\ ViewsApart /\ SetsKnown => []SeekAtBoundary
  BY PairCountKept, PairSetsKnown, PointsAtBoundary, PTL

-----------------------------------------------------------------------------
(* The seek points *)

\* p is the first slice of the base view from q on.
NextBaseVcl(q, p) ==
    /\ q < p /\ file[p].view = "base" /\ IsVcl(file[p].type)
    /\ \A r \in q..p - 1 : file[r].view = "base" => ~IsVcl(file[r].type)

\* RecoveriesPaired, of the base view: an exact recovery point SEI precedes a
\* picture that a decoder has the sets for.
BaseRecoveriesPaired ==
    \A q, p \in DOMAIN file :
        file[q].view = "base" /\ ExactSei(q) /\ NextBaseVcl(q, p) => p \in Decoded

\* A pending recovery point is that of the base picture to come.
PairRecoveryInv ==
    pass = "poc" /\ recovery_seen =>
        \E q \in 1..pos - 1 : /\ file[q].view = "base" /\ ExactSei(q)
                              /\ \A r \in q..pos - 1 : file[r].view = "base" => ~IsVcl(file[r].type)

LEMMA PairRecoveryStep ==
  ASSUME TypeInv, FileInv, ViewsApart, Knows, BaseRecoveriesPaired, PairRecoveryInv,
         [NextPair]_vars2
  PROVE  PairRecoveryInv'
<1>0. /\ Len(file) \in Nat /\ DOMAIN file = 1..Len(file) /\ pos \in 1..Len(file) + 1
      /\ pos \in Nat \ {0} /\ file' = file
  BY FileType, PairStays DEF TypeInv, ListsInv, ScalarsInv, vars2, vars
<1>1. \A q : ExactSei(q)' <=> ExactSei(q)
  BY <1>0 DEF ExactSei
<1>2. ASSUME pos' = pos + 1, pass' = pass, recovery_seen' = recovery_seen,
             file[pos].view # "base" \/ ~IsVcl(file[pos].type)
      PROVE  PairRecoveryInv'
  <2> SUFFICES ASSUME pass = "poc", recovery_seen
               PROVE  \E q \in 1..pos' - 1 :
                          /\ file[q].view = "base" /\ ExactSei(q)
                          /\ \A r \in q..pos' - 1 : file[r].view = "base" => ~IsVcl(file[r].type)
    BY <1>0, <1>1, <1>2 DEF PairRecoveryInv
  <2>1. PICK q \in 1..pos - 1 : /\ file[q].view = "base" /\ ExactSei(q)
                                /\ \A r \in q..pos - 1 : file[r].view = "base" => ~IsVcl(file[r].type)
    BY DEF PairRecoveryInv
  <2>2. q \in 1..pos' - 1 /\ q..pos' - 1 = (q..pos - 1) \cup {pos}
    BY <1>0, <1>2, <2>1
  <2> QED BY <1>2, <2>1, <2>2
<1>3. CASE ScanBasePicture \/ Rebuild
  <2>1. recovery_seen' = FALSE
    BY <1>3 DEF ScanBasePicture, CountOn, Rebuild, Fallback, FreshLocals
  <2> QED BY <2>1 DEF PairRecoveryInv
<1>4. CASE ScanBaseNal
  <2>1. /\ Scanning /\ Nal.view = "base" /\ ~Counted /\ pos' = pos + 1 /\ pass' = pass
        /\ recovery_seen' = (recovery_seen \/ (pass = "poc" /\ Nal.type = 6 /\ Nal.exact))
        /\ pos \in DOMAIN file
    BY <1>4 DEF ScanBaseNal, Scanning
  <2>2. CASE IsVcl(file[pos].type)
    <3>1. ~(pass = "poc" /\ recovery_seen)
      <4> SUFFICES ASSUME pass = "poc", recovery_seen PROVE FALSE
        OBVIOUS
      <4>1. PICK q \in 1..pos - 1 :
                    /\ file[q].view = "base" /\ ExactSei(q)
                    /\ \A r \in q..pos - 1 : file[r].view = "base" => ~IsVcl(file[r].type)
        BY DEF PairRecoveryInv
      <4>2. q \in DOMAIN file /\ q < pos
        BY <1>0, <4>1
      <4>3. NextBaseVcl(q, pos)
        BY <2>1, <2>2, <4>1, <4>2 DEF NextBaseVcl, Nal
      <4>4. pos \in Decoded
        BY <2>1, <4>1, <4>2, <4>3 DEF BaseRecoveriesPaired
      <4> QED BY <2>1, <4>4 DEF Knows
    <3>2. Nal.type # 6
      BY <2>2 DEF IsVcl, Nal
    <3> QED BY <2>1, <3>1, <3>2 DEF PairRecoveryInv
  <2>3. CASE ~IsVcl(file[pos].type) /\ ~(pass = "poc" /\ ExactSei(pos))
    <3>1. recovery_seen' = recovery_seen
      BY <2>1, <2>3 DEF ExactSei, Nal, TypeInv, FlagsInv
    <3> QED BY <1>2, <2>1, <2>3, <3>1
  <2>4. CASE ~IsVcl(file[pos].type) /\ ExactSei(pos)
    <3>1. pos \in 1..pos' - 1 /\ pos..pos' - 1 = {pos} /\ file[pos].view = "base"
      BY <1>0, <2>1 DEF Nal
    <3> QED BY <1>0, <1>1, <2>4, <3>1 DEF PairRecoveryInv
  <2> QED BY <2>2, <2>3, <2>4
<1>5. CASE ScanDependentNal
  <2>1. Nal.view = "dependent" /\ pos' = pos + 1 /\ UNCHANGED <<pass, recovery_seen>>
    BY <1>5 DEF ScanDependentNal
  <2> QED BY <1>2, <2>1 DEF Nal
<1>6. CASE Unbuilt \/ Built
  <2>1. pass' # "poc"
    BY <1>6 DEF Unbuilt, Built, Finish
  <2> QED BY <2>1 DEF PairRecoveryInv
<1>7. CASE OverPair \/ UNCHANGED vars2
  <2>1. UNCHANGED <<pass, pos, recovery_seen>>
    BY <1>7 DEF OverPair, vars2, vars, locals
  <2> QED BY <1>0, <1>1, <2>1 DEF PairRecoveryInv
<1> QED BY <1>3, <1>4, <1>5, <1>6, <1>7 DEF NextPair

\* So the SEI is in the picture's access unit.
LEMMA RecoveryInUnit ==
  ASSUME TypeInv, FileInv, ViewsApart, PairRecoveryInv, Scanning, Nal.view = "base",
         IsFirstSlice(Nal), pass = "poc", recovery_seen
  PROVE  \E q \in UnitStart..pos - 1 : ExactSei(q)
<1>1. pos \in DOMAIN file /\ DOMAIN file = 1..Len(file) /\ Len(file) \in Nat
  BY FileType DEF Scanning, TypeInv, ListsInv
<1>2. PICK q \in 1..pos - 1 : /\ file[q].view = "base" /\ ExactSei(q)
                              /\ \A r \in q..pos - 1 : file[r].view = "base" => ~IsVcl(file[r].type)
  BY DEF PairRecoveryInv
<1>3. file[q].unit = Nal.unit
  <2> SUFFICES ASSUME file[q].unit # file[pos].unit PROVE FALSE
    BY DEF Nal
  <2>1. q \in DOMAIN file /\ q < pos /\ file[pos].view = "base"
    BY <1>1 DEF Nal
  <2>2. PICK r \in q..pos - 1 : file[r].view = "base" /\ IsViewVcl(file[r], "base")
    BY <1>1, <1>2, <2>1 DEF FileInv, UnitsInOrder
  <2> QED BY <1>2, <2>2 DEF IsViewVcl, IsVcl
<1>4. UnitStart <= q /\ UnitStart \in 1..pos
  BY <1>3, UnitFound DEF UnitBegins
<1>5. q \in UnitStart..pos - 1
  BY <1>1, <1>4
<1> QED BY <1>2, <1>5

LEMMA PairStartsStep ==
  ASSUME TypeInv, FileInv, ViewsApart, PairParserInv, Knows, CountInv, PairRecoveryInv,
         StartsInv, [NextPair]_vars2
  PROVE  StartsInv'
<1>1. CASE ScanBasePicture
  <2>1. Scanning /\ Nal.view = "base" /\ IsFirstSlice(Nal)
    BY <1>1 DEF ScanBasePicture, TakePicture, TakeIdr, TakeIdrOnly, Counted
  <2>2. pass = "poc" /\ recovery_seen => \E q \in UnitStart..pos - 1 : ExactSei(q)
    BY <2>1, RecoveryInUnit
  <2> QED BY <2>2, PairStepIs, StartsStep
<1>2. CASE ~ScanBasePicture
  <2>1. ~Takes(UnitStart)
    <3> SUFFICES ASSUME Takes(UnitStart) PROVE FALSE
      OBVIOUS
    <3>1. pos' = pos + 1 /\ frames' = frames + 1
      BY DEF Takes, CountOn
    <3>2. pos \in Nat /\ frames \in Nat
      BY DEF TypeInv, ListsInv, ScalarsInv
    <3> QED BY <1>2, <3>1, <3>2 DEF NextPair, ScanBaseNal, ScanDependentNal, Unbuilt, Built,
                                    Finish, Rebuild, Fallback, FreshLocals, OverPair, vars2, vars,
                                    locals
  <2> QED BY <2>1, PairStepIs, StartsStep
<1> QED BY <1>1, <1>2

LEMMA BaseRecoveriesStay == file' = file => (BaseRecoveriesPaired' <=> BaseRecoveriesPaired)
<1> SUFFICES ASSUME file' = file PROVE BaseRecoveriesPaired' <=> BaseRecoveriesPaired
  OBVIOUS
<1>1. Decoded' = Decoded
  BY FileFixed
<1>2. /\ \A q : ExactSei(q)' <=> ExactSei(q)
      /\ \A q, p : NextBaseVcl(q, p)' <=> NextBaseVcl(q, p)
  BY DEF ExactSei, NextBaseVcl
<1> QED BY <1>1, <1>2 DEF BaseRecoveriesPaired

LEMMA PairAccessKept ==
  SpecPair /\ ViewsApart /\ BaseRecoveriesPaired => [](PairRecoveryInv /\ StartsInv)
<1>1. InitPair => PairRecoveryInv /\ StartsInv
  BY DEF InitPair, EmptyList, PairRecoveryInv, StartsInv
<1>2. BaseRecoveriesPaired /\ [NextPair]_vars2 => BaseRecoveriesPaired'
  BY PairStays, BaseRecoveriesStay DEF vars2, vars
<1>3. TypeInv /\ FileInv /\ ViewsApart /\ PairParserInv /\ CountInv /\ BaseRecoveriesPaired
          /\ PairRecoveryInv /\ StartsInv /\ [NextPair]_vars2 => PairRecoveryInv' /\ StartsInv'
  BY PairKnows, PairRecoveryStep, PairStartsStep
<1> QED BY <1>1, <1>2, <1>3, PairTypesKept, FileKept, PairParserKept, PairCountKept, PTL
        DEF SpecPair

\* What the scan of a pair hands over is a stream that the frame server's
\* guarantees rest on, as that of one file does.
THEOREM PairStreamHandedOver ==
  SpecPair /\ ViewsApart /\ SetsKnown /\ BaseRecoveriesPaired /\ RecoveriesExact /\ CountsDiffer =>
      []HandsOverStream
<1>1. SpecPair /\ RecoveriesExact /\ CountsDiffer => [](RecoveriesExact /\ CountsDiffer)
  <2>1. RecoveriesExact /\ CountsDiffer /\ [NextPair]_vars2 => (RecoveriesExact /\ CountsDiffer)'
    BY PairStays, ExactStays DEF vars2, vars
  <2> QED BY <2>1, PTL DEF SpecPair
<1> QED BY <1>1, StreamConforms, PairTypesKept, PairCountKept, PairSetsKnown, PairAccessKept, PTL

LEMMA PairFallbackKept == SpecPair /\ ViewsApart => []FallbackInv
<1>1. InitPair => FallbackInv
  BY DEF InitPair, FallbackInv
<1>2. TypeInv /\ FileInv /\ ViewsApart /\ PairParserInv /\ CountInv /\ FallbackInv
          /\ [NextPair]_vars2 => FallbackInv'
  BY PairStepIs, PairKnows, FallbackStep
<1> QED BY <1>1, <1>2, PairTypesKept, FileKept, PairParserKept, PairCountKept, PTL DEF SpecPair

LEMMA PairDeriveKept ==
  ASSUME NEW origin \in Int
  PROVE  SpecPair /\ ViewsApart /\ Coded(origin) => [](DeriveInv(origin) /\ Coded(origin))
<1>1. ASSUME InitPair PROVE DeriveInv(origin)
  <2>1. WellFormed(file)
    BY <1>1, InitSpans
  <2>2. pos = 1 /\ cvs.base = 0 /\ idx.v = <<>> /\ parser.ctx = h264_poc_reset
    BY <1>1 DEF InitPair, EmptyList, FreshParser
  <2> QED BY <2>1, <2>2, DeriveStarts
<1>2. Coded(origin) /\ [NextPair]_vars2 => Coded(origin)'
  BY PairStays, CodedStays DEF vars2, vars
<1>3. TypeInv /\ FileInv /\ ViewsApart /\ PairParserInv /\ CountInv /\ Coded(origin)
          /\ DeriveInv(origin) /\ [NextPair]_vars2 => DeriveInv(origin)'
  BY PairStepIs, PairKnows, DeriveStep
<1> QED BY <1>1, <1>2, <1>3, PairTypesKept, FileKept, PairParserKept, PairCountKept, PTL
        DEF SpecPair

\* Each seek point of a pair has the decode index and the display index ("what a
\* seek binary-searches on", mvcsource.c:44) of a base picture that a decoder can
\* start from, whichever pass recorded it, for streams of POC type 0 or 2.
THEOREM PairSeekPointsCorrect ==
  ASSUME NEW origin \in Int
  PROVE  SpecPair /\ ViewsApart /\ SetsKnown /\ BaseRecoveriesPaired /\ IdrsFirst /\ Coded(origin) =>
             []SeekPointsTrue
<1>1. InitPair => SeekPointsTrue
  BY DEF InitPair, SeekPointsTrue, Done
<1>2. SpecPair /\ IdrsFirst => []IdrsFirst
  <2>1. IdrsFirst /\ [NextPair]_vars2 => IdrsFirst'
    BY PairStays, IdrsStayFirst DEF vars2, vars
  <2> QED BY <2>1, PTL DEF SpecPair
<1>3. TypeInv /\ FileInv /\ ViewsApart /\ PairParserInv /\ CountInv /\ PointsInv /\ StartsInv
          /\ FallbackInv /\ SetsKnown /\ IdrsFirst /\ Coded(origin) /\ DeriveInv(origin)
          /\ SeekPointsTrue /\ [NextPair]_vars2 => SeekPointsTrue'
  BY PairStepIs, PointsStep
<1> QED BY <1>1, <1>2, <1>3, PairTypesKept, FileKept, PairParserKept, PairCountKept,
        PairAccessKept, PairFallbackKept, PairDeriveKept, PairSetsKnown, PTL DEF SpecPair
=============================================================================
