---------------------------- MODULE HeaderProofs ---------------------------
(***************************************************************************)
(* Proofs about Headers: what is read of a NAL that has lost its end.      *)
(***************************************************************************)
EXTENDS Headers, Minima

-----------------------------------------------------------------------------
(* Recursion over 0..n *)

\* Whatever holds of 0 and passes from each number to the next holds up to n.
LEMMA Reached ==
  ASSUME NEW n \in Nat, NEW S, 0 \in S, \A k \in 1..n : k - 1 \in S => k \in S
  PROVE  \A k \in 0..n : k \in S
<1> SUFFICES ASSUME NEW k \in 0..n, k \notin S PROVE FALSE
  OBVIOUS
<1> DEFINE Left == {j \in 0..n : j \notin S}
<1>1. Left \in SUBSET Nat /\ Left # {}
  OBVIOUS
<1>2. Min(Left) \in Left /\ \A y \in Left : Min(Left) <= y
  <2> HIDE DEF Left
  <2> QED BY <1>1, MinExists
<1>3. PICK m \in Left : \A y \in Left : m <= y
  BY <1>2
<1>4. m \in 1..n /\ m - 1 \in 0..n /\ m - 1 \notin Left
  BY <1>3
<1> QED BY <1>3, <1>4

-----------------------------------------------------------------------------
(* Readers *)

\* A reader stands within its bytes.
Reads(r) ==
    /\ r = [d |-> r.d, pos |-> r.pos, err |-> r.err, got |-> r.got]
    /\ r.d \in Seq(Nat) /\ r.pos \in 0 .. 8 * Len(r.d) /\ r.err \in BOOLEAN

\* The bytes a are the first of b.
Begins(a, b) == Len(a) <= Len(b) /\ \A i \in 1..Len(a) : a[i] = b[i]

\* r has read what s has, though it may have fewer bytes, or it has failed.
Behind(r, s) ==
    /\ Reads(r) /\ Reads(s)
    /\ r.err \/ (~s.err /\ r.pos = s.pos /\ r.got = s.got /\ Begins(r.d, s.d))

\* A bit that a reader has is the same one for a reader with more bytes.
LEMMA SameBit ==
  ASSUME NEW r, NEW s, Behind(r, s), ~r.err, NEW i \in Nat, i < BitsLeft(r)
  PROVE  Ahead(r, i) = Ahead(s, i)
<1> DEFINE at == r.pos + i
           byte == at \div 8 + 1
<1>1. /\ r.pos \in Nat /\ s.pos = r.pos /\ Len(r.d) \in Nat /\ Len(s.d) \in Nat
      /\ Len(r.d) <= Len(s.d) /\ \A j \in 1..Len(r.d) : r.d[j] = s.d[j]
  BY DEF Behind, Reads, Begins
<1>2. at \in Nat /\ at < 8 * Len(r.d)
  BY <1>1 DEF BitsLeft
<1>3. byte \in 1..Len(r.d)
  BY <1>1, <1>2
<1>4. r.d[byte] = s.d[byte]
  BY <1>1, <1>3
<1>5. ~(i >= BitsLeft(r)) /\ ~(i >= BitsLeft(s))
  BY <1>1 DEF BitsLeft
<1> QED BY <1>1, <1>4, <1>5 DEF Ahead

LEMMA RecordOf ==
  ASSUME NEW r, NEW d, NEW p, NEW e, NEW g, r = [d |-> d, pos |-> p, err |-> e, got |-> g],
         NEW x, NEW y
  PROVE  /\ [r EXCEPT !.pos = x, !.err = y] = [d |-> d, pos |-> x, err |-> y, got |-> g]
         /\ [r EXCEPT !.err = x] = [d |-> d, pos |-> p, err |-> x, got |-> g]
         /\ [r EXCEPT !.got = x] = [d |-> d, pos |-> p, err |-> e, got |-> x]
<1>1. [r EXCEPT !.pos = x, !.err = y] = [d |-> d, pos |-> x, err |-> y, got |-> g]
  <2>1. [r EXCEPT !.pos = x] = [d |-> d, pos |-> x, err |-> e, got |-> g]
    OBVIOUS
  <2>2. ASSUME NEW q, q = [d |-> d, pos |-> x, err |-> e, got |-> g]
        PROVE  [q EXCEPT !.err = y] = [d |-> d, pos |-> x, err |-> y, got |-> g]
    BY <2>2
  <2> QED BY <2>1, <2>2
<1>2. [r EXCEPT !.err = x] = [d |-> d, pos |-> p, err |-> x, got |-> g]
  OBVIOUS
<1>3. [r EXCEPT !.got = x] = [d |-> d, pos |-> p, err |-> e, got |-> x]
  OBVIOUS
<1> QED BY <1>1, <1>2, <1>3

LEMMA SkipReads ==
  ASSUME NEW r, Reads(r), NEW n \in Nat
  PROVE  /\ Reads(Skip(r, n)) /\ Skip(r, n).d = r.d /\ Skip(r, n).got = r.got
         /\ r.err => Skip(r, n).err
         /\ Skip(r, n).err <=> (r.err \/ n > BitsLeft(r))
         /\ n <= BitsLeft(r) => Skip(r, n).pos = r.pos + n
<1>1. BitsLeft(r) \in Nat /\ r.pos \in Nat /\ Len(r.d) \in Nat /\ r.pos + BitsLeft(r) = 8 * Len(r.d)
  BY DEF Reads, BitsLeft
<1>2. Min({n, BitsLeft(r)}) = IF n <= BitsLeft(r) THEN n ELSE BitsLeft(r)
  <2> DEFINE b == BitsLeft(r)
             m == IF n <= b THEN n ELSE b
  <2> HIDE DEF b
  <2>1. b \in Nat
    BY <1>1 DEF b
  <2>2. {n, b} \in SUBSET Nat /\ {n, b} # {}
    BY <2>1
  <2>3. Min({n, b}) \in {n, b} /\ \A y \in {n, b} : Min({n, b}) <= y
    BY <2>2, MinExists
  <2>4. Min({n, b}) = m
    BY <2>1, <2>3
  <2> QED BY <2>4 DEF b
<1> DEFINE k == IF n <= BitsLeft(r) THEN n ELSE BitsLeft(r)
           q == Skip(r, n)
<1>3. q = [d |-> r.d, pos |-> r.pos + k, err |-> r.err \/ n > BitsLeft(r), got |-> r.got]
  <2> DEFINE x == r.pos + Min({n, BitsLeft(r)})
             y == r.err \/ n > BitsLeft(r)
  <2>1. r = [d |-> r.d, pos |-> r.pos, err |-> r.err, got |-> r.got]
    BY DEF Reads
  <2>2. q = [r EXCEPT !.pos = x, !.err = y]
    BY DEF Skip
  <2> HIDE DEF x, y, q
  <2>3. q = [d |-> r.d, pos |-> x, err |-> y, got |-> r.got]
    BY <2>1, <2>2, RecordOf
  <2>4. x = r.pos + k
    BY <1>2 DEF x
  <2> QED BY <2>3, <2>4 DEF y
<1>4. q.d = r.d /\ q.pos = r.pos + k /\ q.err = (r.err \/ n > BitsLeft(r)) /\ q.got = r.got
  BY <1>3
<1>5. k \in Nat /\ r.pos + k <= 8 * Len(r.d) /\ (n <= BitsLeft(r) => k = n)
  BY <1>1
<1>6. q.err \in BOOLEAN
  BY <1>4
<1>7. Reads(q)
  BY <1>1, <1>3, <1>4, <1>5, <1>6 DEF Reads
<1> QED BY <1>4, <1>5, <1>7

\* What has been read so far is replaced.
LEMMA GotReads ==
  ASSUME NEW r, Reads(r), NEW x
  PROVE  LET q == [r EXCEPT !.got = x]
         IN  Reads(q) /\ q.d = r.d /\ q.pos = r.pos /\ q.err = r.err /\ q.got = x
<1> DEFINE q == [r EXCEPT !.got = x]
<1>1. r = [d |-> r.d, pos |-> r.pos, err |-> r.err, got |-> r.got]
  BY DEF Reads
<1>2. q = [r EXCEPT !.got = x]
  OBVIOUS
<1> HIDE DEF q
<1>3. q = [d |-> r.d, pos |-> r.pos, err |-> r.err, got |-> x]
  BY <1>1, <1>2, RecordOf
<1>4. q.d = r.d /\ q.pos = r.pos /\ q.err = r.err /\ q.got = x
  BY <1>3
<1>5. Reads(q)
  BY <1>3, <1>4 DEF Reads
<1> QED BY <1>4, <1>5 DEF q

LEMMA GotBehind ==
  ASSUME NEW r, NEW s, Behind(r, s), NEW x, NEW y, ~r.err => x = y
  PROVE  Behind([r EXCEPT !.got = x], [s EXCEPT !.got = y])
<1> DEFINE q == [r EXCEPT !.got = x]
           t == [s EXCEPT !.got = y]
<1>1. Reads(r) /\ Reads(s)
  BY DEF Behind
<1>2. Reads(q) /\ q.d = r.d /\ q.pos = r.pos /\ q.err = r.err /\ q.got = x
  BY <1>1, GotReads
<1>3. Reads(t) /\ t.d = s.d /\ t.pos = s.pos /\ t.err = s.err /\ t.got = y
  BY <1>1, GotReads
<1> HIDE DEF q, t
<1>4. ASSUME r.err PROVE Behind(q, t)
  BY <1>2, <1>3, <1>4 DEF Behind
<1>5. ASSUME ~r.err PROVE Behind(q, t)
  <2>1. x = y /\ r.pos = s.pos /\ ~s.err /\ Begins(r.d, s.d)
    BY <1>5 DEF Behind
  <2> QED BY <1>2, <1>3, <1>5, <2>1 DEF Behind
<1>6. Behind(q, t)
  BY <1>4, <1>5
<1> QED BY <1>6 DEF q, t

LEMMA PutBehind ==
  ASSUME NEW r, NEW s, Behind(r, s), NEW name, NEW v, NEW w, ~r.err => v = w
  PROVE  Behind(Put(r, name, v), Put(s, name, w)) /\ Put(r, name, v).err = r.err
<1>1. ~r.err => With(r.got, name, v) = With(s.got, name, w)
  BY DEF Behind
<1>2. Reads(r)
  BY DEF Behind
<1> QED BY <1>1, <1>2, GotBehind, GotReads DEF Put

LEMMA SkipBehind ==
  ASSUME NEW r, NEW s, Behind(r, s), NEW n \in Nat
  PROVE  Behind(Skip(r, n), Skip(s, n))
<1>1. Reads(r) /\ Reads(s)
  BY DEF Behind
<1>2. /\ Reads(Skip(r, n)) /\ Skip(r, n).d = r.d /\ Skip(r, n).got = r.got
      /\ r.err => Skip(r, n).err
      /\ Skip(r, n).err <=> (r.err \/ n > BitsLeft(r))
      /\ n <= BitsLeft(r) => Skip(r, n).pos = r.pos + n
  BY <1>1, SkipReads
<1>3. /\ Reads(Skip(s, n)) /\ Skip(s, n).d = s.d /\ Skip(s, n).got = s.got
      /\ Skip(s, n).err <=> (s.err \/ n > BitsLeft(s))
      /\ n <= BitsLeft(s) => Skip(s, n).pos = s.pos + n
  BY <1>1, SkipReads
<1>4. CASE Skip(r, n).err
  BY <1>2, <1>3, <1>4 DEF Behind
<1>5. CASE ~Skip(r, n).err
  <2>1. ~r.err /\ ~(n > BitsLeft(r))
    BY <1>2, <1>5
  <2>2. r.got = s.got /\ r.pos = s.pos /\ ~s.err /\ Begins(r.d, s.d)
    BY <2>1 DEF Behind
  <2>3. BitsLeft(r) <= BitsLeft(s) /\ BitsLeft(r) \in Int /\ BitsLeft(s) \in Int
    BY <1>1, <2>2 DEF Begins, BitsLeft, Reads
  <2>4. n <= BitsLeft(r) /\ n <= BitsLeft(s) /\ ~(n > BitsLeft(s))
    BY <2>1, <2>3
  <2>5. Skip(r, n).pos = Skip(s, n).pos /\ ~Skip(s, n).err
    BY <1>2, <1>3, <2>2, <2>4
  <2> QED BY <1>2, <1>3, <1>5, <2>2, <2>5 DEF Behind
<1> QED BY <1>4, <1>5

-----------------------------------------------------------------------------
(* Numbers *)

\* The recursion of Unsigned, unfolded.
LEMMA UnsignedSteps ==
  ASSUME NEW r, NEW n \in Nat
  PROVE  \E v : /\ v = [k \in 0 .. n |-> IF k = 0 THEN 0
                                        ELSE (2 * v[k - 1] + Ahead(r, k - 1)) % 2 ^ Width]
                /\ Unsigned(r, n) = v[n]
<1> DEFINE Def(m, f) == f = [k \in 0..m |-> IF k = 0 THEN 0
                                            ELSE (2 * f[k - 1] + Ahead(r, k - 1)) % 2 ^ Width]
           v[k \in 0..n] == IF k = 0 THEN 0 ELSE (2 * v[k - 1] + Ahead(r, k - 1)) % 2 ^ Width
           S == {m \in 0..n : \E f : Def(m, f)}
<1>1. 0 \in S
  <2>1. Def(0, [k \in 0..0 |-> 0])
    OBVIOUS
  <2>2. \E f : Def(0, f)
    BY <2>1, Zenon
  <2> HIDE DEF Def
  <2> QED BY <2>2
<1>2. ASSUME NEW k \in 1..n, k - 1 \in S PROVE k \in S
  <2>1. PICK f : Def(k - 1, f)
    BY <1>2
  <2> DEFINE g == [j \in 0..k |-> IF j = k THEN (2 * f[k - 1] + Ahead(r, k - 1)) % 2 ^ Width ELSE f[j]]
  <2>2. \A j \in 0..k : g[j] = IF j = 0 THEN 0 ELSE (2 * g[j - 1] + Ahead(r, j - 1)) % 2 ^ Width
    <3> SUFFICES ASSUME NEW j \in 0..k
                 PROVE  g[j] = IF j = 0 THEN 0 ELSE (2 * g[j - 1] + Ahead(r, j - 1)) % 2 ^ Width
      OBVIOUS
    <3>1. CASE j = k
      BY <3>1
    <3>2. CASE j # k
      <4>1. j \in 0..k - 1 /\ g[j] = f[j]
        BY <3>2
      <4>2. j # 0 => g[j - 1] = f[j - 1]
        BY <3>2
      <4>3. f[j] = IF j = 0 THEN 0 ELSE (2 * f[j - 1] + Ahead(r, j - 1)) % 2 ^ Width
        BY <2>1, <4>1
      <4> QED BY <4>1, <4>2, <4>3
    <3> QED BY <3>1, <3>2
  <2>3. Def(k, g)
    BY <2>2
  <2> HIDE DEF g
  <2>4. \E h : Def(k, h)
    BY <2>3, Zenon
  <2> HIDE DEF Def
  <2> QED BY <2>4
<1>3. n \in S
  <2> HIDE DEF S
  <2> QED BY <1>1, <1>2, Reached
<1>4. PICK f : Def(n, f)
  BY <1>3
<1>5. Def(n, v)
  BY <1>4 DEF v
<1>6. Unsigned(r, n) = v[n]
  BY DEF Unsigned
<1> QED BY <1>5, <1>6

LEMMA SameNumber ==
  ASSUME NEW r, NEW s, Behind(r, s), ~r.err, NEW n \in Nat, n <= BitsLeft(r)
  PROVE  Unsigned(r, n) = Unsigned(s, n)
<1>1. PICK v : /\ v = [k \in 0 .. n |-> IF k = 0 THEN 0
                                        ELSE (2 * v[k - 1] + Ahead(r, k - 1)) % 2 ^ Width]
               /\ Unsigned(r, n) = v[n]
  BY UnsignedSteps
<1>2. PICK w : /\ w = [k \in 0 .. n |-> IF k = 0 THEN 0
                                        ELSE (2 * w[k - 1] + Ahead(s, k - 1)) % 2 ^ Width]
               /\ Unsigned(s, n) = w[n]
  BY UnsignedSteps
<1> DEFINE S == {k \in 0..n : v[k] = w[k]}
<1>3. 0 \in S
  BY <1>1, <1>2
<1>4. ASSUME NEW k \in 1..n, k - 1 \in S PROVE k \in S
  <2>1. BitsLeft(r) \in Int
    BY DEF BitsLeft, Behind, Reads
  <2>2. k - 1 \in Nat /\ k - 1 < BitsLeft(r)
    BY <2>1
  <2>3. Ahead(r, k - 1) = Ahead(s, k - 1)
    BY <2>2, SameBit
  <2>4. v[k] = (2 * v[k - 1] + Ahead(r, k - 1)) % 2 ^ Width
    BY <1>1
  <2>5. w[k] = (2 * w[k - 1] + Ahead(s, k - 1)) % 2 ^ Width
    BY <1>2
  <2>6. v[k - 1] = w[k - 1]
    BY <1>4
  <2> QED BY <2>3, <2>4, <2>5, <2>6
<1>5. n \in S
  <2> HIDE DEF S
  <2> QED BY <1>3, <1>4, Reached
<1> QED BY <1>1, <1>2, <1>5

\* The reader has failed, or may have: both are as good as behind.
LEMMA FailedBehind ==
  ASSUME NEW r, NEW s, Reads(r), Reads(s), r.err
  PROVE  Behind(r, s)
BY DEF Behind

LEMMA UnBehind ==
  ASSUME NEW r, NEW s, Behind(r, s), NEW bits \in Int, NEW name
  PROVE  /\ Behind(h264_un(r, bits, name), h264_un(s, bits, name))
         /\ r.err => h264_un(r, bits, name).err
<1> DEFINE n == IF bits > 0 THEN bits ELSE 0
           q == Skip(r, n)
           t == Skip(s, n)
<1>1. n \in Nat
  OBVIOUS
<1> HIDE DEF n
<1>2. Behind(q, t)
  BY <1>1, SkipBehind
<1>3. ASSUME ~q.err PROVE Unsigned(r, n) = Unsigned(s, n)
  <2>1. Reads(r) /\ BitsLeft(r) \in Int
    BY DEF Behind, Reads, BitsLeft
  <2>2. ~r.err /\ ~(n > BitsLeft(r))
    BY <1>1, <1>3, <2>1, SkipReads
  <2> QED BY <1>1, <2>1, <2>2, SameNumber
<1> HIDE DEF q, t
<1>4. /\ Behind(Put(q, name, Unsigned(r, n)), Put(t, name, Unsigned(s, n)))
      /\ Put(q, name, Unsigned(r, n)).err = q.err
  BY <1>2, <1>3, PutBehind
<1>5. r.err => q.err
  BY <1>1, SkipReads DEF Behind, q
<1> QED BY <1>4, <1>5 DEF h264_un, q, t, n

\* The first bit set, if a reader has one, is the first for one with more bytes.
LEMMA SameCode ==
  ASSUME NEW r, NEW s, Behind(r, s), ~r.err, NEW lz \in 0 .. Width - 1, Ahead(r, lz) = 1,
         \A i \in 0 .. Width - 1 : Ahead(r, i) = 1 => lz <= i
  PROVE  /\ lz < BitsLeft(r)
         /\ Ahead(s, lz) = 1 /\ \A i \in 0 .. Width - 1 : Ahead(s, i) = 1 => lz <= i
<1>1. Width \in Nat /\ BitsLeft(r) \in Int
  BY HeadersAssumption DEF Behind, Reads, BitsLeft
<1>2. lz < BitsLeft(r)
  BY <1>1 DEF Ahead
<1>3. \A i \in 0..lz : Ahead(r, i) = Ahead(s, i)
  BY <1>1, <1>2, SameBit
<1>4. Ahead(s, lz) = 1
  BY <1>1, <1>3
<1>5. ASSUME NEW i \in 0 .. Width - 1, Ahead(s, i) = 1, ~(lz <= i) PROVE FALSE
  <2>1. i \in 0..lz
    BY <1>1, <1>5
  <2>2. Ahead(r, i) = 1
    BY <1>3, <1>5, <2>1
  <2> QED BY <1>5, <2>2
<1> QED BY <1>2, <1>4, <1>5

LEMMA UeBehind ==
  ASSUME NEW r, NEW s, Behind(r, s), NEW name
  PROVE  Behind(h264_ue(r, name), h264_ue(s, name)) /\ (r.err => h264_ue(r, name).err)
<1> DEFINE Ones(x) == {i \in 0 .. Width - 1 : Ahead(x, i) = 1}
           Lz(x) == Min(Ones(x))
           Lost(x) == Put([Skip(x, Min({Width, BitsLeft(x)})) EXCEPT !.err = TRUE], name, 0)
           Num(x) == (2 ^ Lz(x) - 1 + Unsigned(Skip(x, Lz(x) + 1), Lz(x))) % 2 ^ Width
           Code(x) == Put(Skip(x, 2 * Lz(x) + 1), name, Num(x))
<1>1. \A x : h264_ue(x, name) = IF Ones(x) = {} THEN Lost(x) ELSE Code(x)
  BY DEF h264_ue
<1>2. Width \in Nat /\ Reads(r) /\ Reads(s)
  BY HeadersAssumption DEF Behind
<1>3. ASSUME NEW x, Ones(x) # {}
      PROVE  Lz(x) \in 0 .. Width - 1 /\ Ahead(x, Lz(x)) = 1 /\ \A i \in 0 .. Width - 1 : Ahead(x, i) = 1 => Lz(x) <= i
  <2>1. Ones(x) \in SUBSET Nat
    BY <1>2
  <2>2. Lz(x) \in Ones(x) /\ \A i \in Ones(x) : Lz(x) <= i
    <3> HIDE DEF Ones
    <3> QED BY <1>3, <2>1, MinExists
  <2> HIDE DEF Lz
  <2> QED BY <2>2
<1>4. ASSUME NEW x, Reads(x) PROVE Reads(Lost(x)) /\ Lost(x).err
  <2> DEFINE n == Min({Width, BitsLeft(x)})
             q == Skip(x, n)
             t == [q EXCEPT !.err = TRUE]
  <2>1. BitsLeft(x) \in Nat
    BY <1>4 DEF Reads, BitsLeft
  <2>2. {Width, BitsLeft(x)} \in SUBSET Nat /\ {Width, BitsLeft(x)} # {}
    BY <1>2, <2>1
  <2>3. n \in Nat
    BY <2>2, MinExists
  <2> HIDE DEF n
  <2>4. Reads(q)
    BY <1>4, <2>3, SkipReads
  <2> HIDE DEF q
  <2>5. t = [d |-> q.d, pos |-> q.pos, err |-> TRUE, got |-> q.got]
    <3>1. q = [d |-> q.d, pos |-> q.pos, err |-> q.err, got |-> q.got]
      BY <2>4 DEF Reads
    <3>2. ASSUME NEW y
          PROVE  [q EXCEPT !.err = y] = [d |-> q.d, pos |-> q.pos, err |-> y, got |-> q.got]
      BY <3>1
    <3> QED BY <3>2, Zenon
  <2> HIDE DEF t
  <2>6. t.d = q.d /\ t.pos = q.pos /\ t.err = TRUE /\ t.got = q.got
    BY <2>5
  <2>7. Reads(t)
    BY <2>4, <2>5, <2>6 DEF Reads
  <2>8. Lost(x) = [t EXCEPT !.got = With(t.got, name, 0)]
    BY DEF Put, t, q, n
  <2>9. Reads([t EXCEPT !.got = With(t.got, name, 0)])
        /\ [t EXCEPT !.got = With(t.got, name, 0)].err = t.err
    BY <2>7, GotReads
  <2> HIDE DEF Lost
  <2> QED BY <2>6, <2>8, <2>9
<1>5. ASSUME NEW x, Reads(x), Ones(x) # {}
      PROVE  Reads(Code(x)) /\ Code(x).err = Skip(x, 2 * Lz(x) + 1).err
             /\ (x.err => Skip(x, 2 * Lz(x) + 1).err) /\ Reads(Skip(x, 2 * Lz(x) + 1))
  <2> DEFINE q == Skip(x, 2 * Lz(x) + 1)
  <2>1. 2 * Lz(x) + 1 \in Nat
    <3>1. Lz(x) \in Nat
      <4> HIDE DEF Lz, Ones
      <4> QED BY <1>2, <1>3, <1>5
    <3> HIDE DEF Lz
    <3> QED BY <3>1
  <2> HIDE DEF Lz
  <2>2. Reads(q) /\ (x.err => q.err)
    BY <1>5, <2>1, SkipReads
  <2> HIDE DEF q, Num
  <2>3. Code(x) = [q EXCEPT !.got = With(q.got, name, Num(x))]
    BY DEF Put, q
  <2>4. Reads([q EXCEPT !.got = With(q.got, name, Num(x))])
        /\ [q EXCEPT !.got = With(q.got, name, Num(x))].err = q.err
    BY <2>2, GotReads
  <2> HIDE DEF Code
  <2> QED BY <2>2, <2>3, <2>4 DEF q
<1> HIDE DEF Lost, Code
<1>6. Reads(h264_ue(s, name))
  <2>1. CASE Ones(s) = {}
    <3>1. h264_ue(s, name) = Lost(s)
      BY <1>1, <2>1
    <3> QED BY <1>2, <1>4, <3>1
  <2>2. CASE Ones(s) # {}
    <3>1. h264_ue(s, name) = Code(s)
      BY <1>1, <2>2
    <3> HIDE DEF Ones, Lz
    <3> QED BY <1>2, <1>5, <2>2, <3>1
  <2> QED BY <2>1, <2>2
<1>7. CASE Ones(r) = {}
  <2>1. h264_ue(r, name) = Lost(r)
    BY <1>1, <1>7
  <2>2. Reads(h264_ue(s, name))
    BY <1>6
  <2> QED BY <1>2, <1>4, <2>1, <2>2, FailedBehind
<1>8. CASE Ones(r) # {} /\ Skip(r, 2 * Lz(r) + 1).err
  <2>1. h264_ue(r, name) = Code(r)
    BY <1>1, <1>8
  <2>2. Reads(h264_ue(s, name))
    BY <1>6
  <2>3. Reads(Code(r)) /\ Code(r).err
    BY <1>2, <1>5, <1>8
  <2> QED BY <2>1, <2>2, <2>3, FailedBehind
<1>9. CASE Ones(r) # {} /\ ~Skip(r, 2 * Lz(r) + 1).err
  <2> DEFINE n == 2 * Lz(r) + 1
  <2>1. ~r.err
    BY <1>2, <1>5, <1>9
  <2>2. /\ Lz(r) \in 0 .. Width - 1 /\ Ahead(r, Lz(r)) = 1
        /\ \A i \in 0 .. Width - 1 : Ahead(r, i) = 1 => Lz(r) <= i
    BY <1>3, <1>9
  <2>3. /\ Lz(r) < BitsLeft(r) /\ Ahead(s, Lz(r)) = 1
        /\ \A i \in 0 .. Width - 1 : Ahead(s, i) = 1 => Lz(r) <= i
    <3> HIDE DEF Lz
    <3> QED BY <2>1, <2>2, SameCode
  <2>4. Lz(r) \in Ones(s)
    <3> HIDE DEF Lz
    <3> QED BY <2>2, <2>3
  <2>5. Lz(s) = Lz(r)
    <3>1. Lz(s) \in 0 .. Width - 1 /\ Ahead(s, Lz(s)) = 1
          /\ \A i \in 0 .. Width - 1 : Ahead(s, i) = 1 => Lz(s) <= i
      <4>1. Ones(s) # {}
        BY <2>4
      <4> HIDE DEF Lz, Ones
      <4> QED BY <1>3, <4>1
    <3> HIDE DEF Lz
    <3>2. Lz(s) <= Lz(r) /\ Lz(r) <= Lz(s)
      BY <2>2, <2>3, <3>1
    <3> QED BY <1>2, <2>2, <3>1, <3>2
  <2> DEFINE lz == Lz(r)
  <2>6. lz \in Nat
    BY <1>2, <2>2
  <2>7. ~(2 * lz + 1 > BitsLeft(r)) /\ BitsLeft(r) \in Int
    <3>1. 2 * lz + 1 \in Nat
      <4> HIDE DEF lz
      <4> QED BY <2>6
    <3>2. BitsLeft(r) \in Int
      BY <1>2 DEF Reads, BitsLeft
    <3> HIDE DEF Lz
    <3> QED BY <1>2, <1>9, <3>1, <3>2, SkipReads
  <2>8. Behind(Skip(r, lz + 1), Skip(s, lz + 1))
    <3>1. lz + 1 \in Nat
      <4> HIDE DEF lz
      <4> QED BY <2>6
    <3> HIDE DEF lz
    <3> QED BY <3>1, SkipBehind
  <2>9. Unsigned(Skip(r, lz + 1), lz) = Unsigned(Skip(s, lz + 1), lz)
    <3> HIDE DEF lz
    <3>1. lz + 1 \in Nat /\ lz + 1 <= BitsLeft(r)
      BY <2>6, <2>7
    <3> DEFINE q == Skip(r, lz + 1)
    <3>2. ~q.err /\ q.pos = r.pos + lz + 1 /\ q.d = r.d
      <4> DEFINE m == lz + 1
      <4>1. m \in Nat /\ m <= BitsLeft(r) /\ ~(m > BitsLeft(r)) /\ r.pos + lz + 1 = r.pos + m
        <5>1. r.pos \in Nat
          BY <1>2 DEF Reads
        <5> QED BY <2>6, <2>7, <3>1, <5>1
      <4> HIDE DEF m
      <4>2. ~Skip(r, m).err /\ Skip(r, m).pos = r.pos + m /\ Skip(r, m).d = r.d
        BY <1>2, <2>1, <4>1, SkipReads
      <4> QED BY <4>1, <4>2 DEF m
    <3>3. lz <= BitsLeft(q)
      <4> HIDE DEF q
      <4>1. r.pos \in Nat /\ Len(r.d) \in Nat
        BY <1>2 DEF Reads
      <4> QED BY <2>6, <2>7, <3>2, <4>1 DEF BitsLeft
    <3> QED BY <2>6, <2>8, <3>2, <3>3, SameNumber
  <2>10. Num(r) = Num(s)
    <3> HIDE DEF Lz
    <3> QED BY <2>5, <2>9
  <2>11. Behind(Skip(r, 2 * lz + 1), Skip(s, 2 * lz + 1))
    <3> HIDE DEF lz
    <3> QED BY <2>6, SkipBehind
  <2>12. Behind(Code(r), Code(s))
    <3> HIDE DEF Lz, Num
    <3> QED BY <2>5, <2>10, <2>11, PutBehind DEF Code
  <2> HIDE DEF Lz
  <2>13. h264_ue(r, name) = Code(r) /\ h264_ue(s, name) = Code(s)
    BY <1>1, <1>9, <2>4
  <2> QED BY <2>1, <2>12, <2>13
<1> QED BY <1>7, <1>8, <1>9

LEMMA SeBehind ==
  ASSUME NEW r, NEW s, Behind(r, s), NEW name
  PROVE  Behind(h264_se(r, name), h264_se(s, name)) /\ (r.err => h264_se(r, name).err)
<1> DEFINE q == h264_ue(r, name)
           t == h264_ue(s, name)
<1>1. Behind(q, t) /\ (r.err => q.err)
  BY UeBehind
<1> HIDE DEF q, t
<1>2. ~q.err => Signed(q.got[name]) = Signed(t.got[name])
  BY <1>1 DEF Behind
<1>3. /\ Behind(Put(q, name, Signed(q.got[name])), Put(t, name, Signed(t.got[name])))
      /\ Put(q, name, Signed(q.got[name])).err = q.err
  BY <1>1, <1>2, PutBehind
<1> QED BY <1>1, <1>3 DEF h264_se, q, t

-----------------------------------------------------------------------------
(* Syntax elements in a row *)

Names == {"unused", "profile_idc", "id", "chroma_format_idc", "matrix", "log2_max_frame_num_minus4",
          "poc_type", "delta_poc_always_zero", "offset_for_non_ref_pic", "cycle", "frame_mbs_only",
          "sps_id", "bottom", "first_mb", "slice_type", "pps", "frame_num", "field", "poc_lsb",
          "delta_poc0"}

Kinds ==
    [kind : {"u"}, name : Names, n : Int] \cup [kind : {"ue", "se"}, name : Names]

LEMMA InKinds ==
  ASSUME NEW name \in Names
  PROVE  UE(name) \in Kinds /\ SE(name) \in Kinds /\ \A n \in Int : U(name, n) \in Kinds
BY DEF Kinds, U, UE, SE

LEMMA ElementBehind ==
  ASSUME NEW r, NEW s, Behind(r, s), NEW e \in Kinds
  PROVE  Behind(Element(r, e), Element(s, e)) /\ (r.err => Element(r, e).err)
<1>1. CASE e \in [kind : {"u"}, name : Names, n : Int]
  <2>1. e.kind = "u" /\ e.n \in Int
    BY <1>1
  <2>2. Element(r, e) = h264_un(r, e.n, e.name) /\ Element(s, e) = h264_un(s, e.n, e.name)
    BY <2>1 DEF Element
  <2> QED BY <2>1, <2>2, UnBehind
<1>2. CASE e.kind = "ue"
  <2>1. Element(r, e) = h264_ue(r, e.name) /\ Element(s, e) = h264_ue(s, e.name)
    BY <1>2 DEF Element
  <2> QED BY <2>1, UeBehind
<1>3. CASE e.kind = "se"
  <2>1. Element(r, e) = h264_se(r, e.name) /\ Element(s, e) = h264_se(s, e.name)
    BY <1>3 DEF Element
  <2> QED BY <2>1, SeBehind
<1> QED BY <1>1, <1>2, <1>3 DEF Kinds

\* The recursion of Elements, unfolded.
LEMMA ElementsSteps ==
  ASSUME NEW r, NEW es, Len(es) \in Nat
  PROVE  \E x : /\ x = [k \in 0 .. Len(es) |-> IF k = 0 THEN r ELSE Element(x[k - 1], es[k])]
                /\ Elements(r, es) = x[Len(es)]
<1> DEFINE n == Len(es)
           Def(m, f) == f = [k \in 0..m |-> IF k = 0 THEN r ELSE Element(f[k - 1], es[k])]
           x[k \in 0 .. Len(es)] == IF k = 0 THEN r ELSE Element(x[k - 1], es[k])
           S == {m \in 0..n : \E f : Def(m, f)}
<1>1. 0 \in S
  <2>1. Def(0, [k \in 0..0 |-> r])
    OBVIOUS
  <2>2. \E f : Def(0, f)
    BY <2>1, Zenon
  <2> HIDE DEF Def
  <2> QED BY <2>2
<1>2. ASSUME NEW k \in 1..n, k - 1 \in S PROVE k \in S
  <2>1. PICK f : Def(k - 1, f)
    BY <1>2
  <2> DEFINE g == [j \in 0..k |-> IF j = k THEN Element(f[k - 1], es[k]) ELSE f[j]]
  <2>2. \A j \in 0..k : g[j] = IF j = 0 THEN r ELSE Element(g[j - 1], es[j])
    <3> SUFFICES ASSUME NEW j \in 0..k
                 PROVE  g[j] = IF j = 0 THEN r ELSE Element(g[j - 1], es[j])
      OBVIOUS
    <3>1. CASE j = k
      BY <3>1
    <3>2. CASE j # k
      <4>1. j \in 0..k - 1 /\ g[j] = f[j]
        BY <3>2
      <4>2. j # 0 => g[j - 1] = f[j - 1]
        BY <3>2
      <4>3. f[j] = IF j = 0 THEN r ELSE Element(f[j - 1], es[j])
        BY <2>1, <4>1
      <4> QED BY <4>1, <4>2, <4>3
    <3> QED BY <3>1, <3>2
  <2>3. Def(k, g)
    BY <2>2
  <2> HIDE DEF g
  <2>4. \E h : Def(k, h)
    BY <2>3, Zenon
  <2> HIDE DEF Def
  <2> QED BY <2>4
<1>3. n \in S
  <2> HIDE DEF S, n
  <2>1. n \in Nat
    BY DEF n
  <2>2. \A k \in 0..n : k \in S
    BY <1>1, <1>2, <2>1, Reached
  <2> QED BY <2>1, <2>2
<1>4. PICK f : Def(n, f)
  BY <1>3
<1>5. Def(n, x)
  BY <1>4 DEF x
<1>6. Elements(r, es) = x[n]
  BY DEF Elements
<1> QED BY <1>5, <1>6

LEMMA ElementsBehind ==
  ASSUME NEW r, NEW s, Behind(r, s), NEW es \in Seq(Kinds)
  PROVE  Behind(Elements(r, es), Elements(s, es)) /\ (r.err => Elements(r, es).err)
<1>1. Len(es) \in Nat /\ \A k \in 1..Len(es) : es[k] \in Kinds
  OBVIOUS
<1>2. PICK x : /\ x = [k \in 0 .. Len(es) |-> IF k = 0 THEN r ELSE Element(x[k - 1], es[k])]
               /\ Elements(r, es) = x[Len(es)]
  BY <1>1, ElementsSteps
<1>3. PICK y : /\ y = [k \in 0 .. Len(es) |-> IF k = 0 THEN s ELSE Element(y[k - 1], es[k])]
               /\ Elements(s, es) = y[Len(es)]
  BY <1>1, ElementsSteps
<1> DEFINE n == Len(es)
           S == {k \in 0 .. n : Behind(x[k], y[k]) /\ (r.err => x[k].err)}
<1>4. 0 \in S
  <2>1. x[0] = r /\ y[0] = s /\ 0 \in 0 .. Len(es)
    BY <1>1, <1>2, <1>3
  <2> QED BY <2>1
<1>5. ASSUME NEW k \in 1 .. n, k - 1 \in S PROVE k \in S
  <2>1. x[k] = Element(x[k - 1], es[k]) /\ k \in 0 .. Len(es) /\ es[k] \in Kinds
    BY <1>1, <1>2
  <2>2. y[k] = Element(y[k - 1], es[k])
    BY <1>1, <1>3
  <2>3. Behind(x[k - 1], y[k - 1]) /\ (r.err => x[k - 1].err)
    BY <1>5
  <2>4. Behind(x[k], y[k]) /\ (x[k - 1].err => x[k].err)
    BY <2>1, <2>2, <2>3, ElementBehind
  <2> QED BY <2>1, <2>3, <2>4
<1>6. n \in S
  <2> HIDE DEF S, n
  <2>1. n \in Nat
    BY <1>1 DEF n
  <2>2. \A k \in 0..n : k \in S
    BY <1>4, <1>5, <2>1, Reached
  <2> QED BY <2>1, <2>2
<1> QED BY <1>2, <1>3, <1>6

-----------------------------------------------------------------------------
(* Scaling lists and offsets *)

LEMMA SelfBehind ==
  ASSUME NEW r, Reads(r)
  PROVE  Behind(r, r)
<1>1. r.err \in BOOLEAN /\ Len(r.d) \in Nat
  BY DEF Reads
<1>2. Begins(r.d, r.d)
  BY <1>1 DEF Begins
<1> QED BY <1>1, <1>2 DEF Behind

StepScale(x) == IF x.next = 0 THEN x ELSE NextScale(x)

\* The recursion of h264_skip_scaling_list, unfolded.
LEMMA ScalesSteps ==
  ASSUME NEW r, NEW size \in Nat
  PROVE  \E x : /\ x = [k \in 0 .. size |-> IF k = 0 THEN [last |-> 8, next |-> 8, r |-> r] ELSE StepScale(x[k - 1])]
                /\ h264_skip_scaling_list(r, size) = x[size].r
<1> DEFINE Def(m, f) == f = [k \in 0..m |-> IF k = 0 THEN [last |-> 8, next |-> 8, r |-> r] ELSE StepScale(f[k - 1])]
           x[k \in 0 .. size] == IF k = 0 THEN [last |-> 8, next |-> 8, r |-> r] ELSE StepScale(x[k - 1])
           S == {m \in 0..size : \E f : Def(m, f)}
<1>1. 0 \in S
  <2>1. Def(0, [k \in 0..0 |-> [last |-> 8, next |-> 8, r |-> r]])
    OBVIOUS
  <2>2. \E f : Def(0, f)
    BY <2>1, Zenon
  <2> HIDE DEF Def
  <2> QED BY <2>2
<1>2. ASSUME NEW k \in 1..size, k - 1 \in S PROVE k \in S
  <2>1. PICK f : Def(k - 1, f)
    BY <1>2
  <2> DEFINE g == [j \in 0..k |-> IF j = k THEN StepScale(f[k - 1]) ELSE f[j]]
  <2>2. \A j \in 0..k : g[j] = IF j = 0 THEN [last |-> 8, next |-> 8, r |-> r] ELSE StepScale(g[j - 1])
    <3> SUFFICES ASSUME NEW j \in 0..k PROVE g[j] = IF j = 0 THEN [last |-> 8, next |-> 8, r |-> r] ELSE StepScale(g[j - 1])
      OBVIOUS
    <3>1. CASE j = k
      BY <3>1
    <3>2. CASE j # k
      <4>1. j \in 0..k - 1 /\ g[j] = f[j]
        BY <3>2
      <4>2. j # 0 => g[j - 1] = f[j - 1]
        BY <3>2
      <4>3. f[j] = IF j = 0 THEN [last |-> 8, next |-> 8, r |-> r] ELSE StepScale(f[j - 1])
        BY <2>1, <4>1
      <4> QED BY <4>1, <4>2, <4>3
    <3> QED BY <3>1, <3>2
  <2>3. Def(k, g)
    BY <2>2
  <2> HIDE DEF g
  <2>4. \E h : Def(k, h)
    BY <2>3, Zenon
  <2> HIDE DEF Def
  <2> QED BY <2>4
<1>3. size \in S
  <2> HIDE DEF S
  <2>1. \A k \in 0..size : k \in S
    BY <1>1, <1>2, Reached
  <2> QED BY <2>1
<1>4. PICK f : Def(size, f)
  BY <1>3
<1>5. Def(size, x)
  BY <1>4 DEF x
<1>6. h264_skip_scaling_list(r, size) = x[size].r
  BY DEF h264_skip_scaling_list, StepScale
<1> QED BY <1>5, <1>6

\* Both lists at the same element, or the first reader failed.
ScaleBehind(x, y) == Behind(x.r, y.r) /\ (x.r.err \/ (x.last = y.last /\ x.next = y.next))

LEMMA NextScaleBehind ==
  ASSUME NEW x, NEW y, ScaleBehind(x, y)
  PROVE  ScaleBehind(NextScale(x), NextScale(y)) /\ (x.r.err => NextScale(x).r.err)
<1> DEFINE q == h264_se(x.r, "delta_scale")
           t == h264_se(y.r, "delta_scale")
<1>1. Behind(q, t) /\ (x.r.err => q.err)
  BY SeBehind DEF ScaleBehind
<1>2. NextScale(x).r = q /\ NextScale(y).r = t
  BY DEF NextScale
<1>3. CASE q.err
  BY <1>1, <1>2, <1>3 DEF ScaleBehind
<1>4. CASE ~q.err
  <2>1. q.got = t.got
    BY <1>1, <1>4 DEF Behind
  <2>2. x.last = y.last
    BY <1>1, <1>4 DEF ScaleBehind
  <2>3. NextScale(x).last = NextScale(y).last /\ NextScale(x).next = NextScale(y).next
    BY <2>1, <2>2 DEF NextScale
  <2> QED BY <1>1, <1>2, <1>4, <2>3 DEF ScaleBehind
<1> QED BY <1>3, <1>4

LEMMA StepScaleBehind ==
  ASSUME NEW x, NEW y, ScaleBehind(x, y)
  PROVE  ScaleBehind(StepScale(x), StepScale(y)) /\ (x.r.err => StepScale(x).r.err)
<1>1. ScaleBehind(NextScale(x), NextScale(y)) /\ (x.r.err => NextScale(x).r.err)
  BY NextScaleBehind
<1>2. StepScale(x) \in {x, NextScale(x)} /\ StepScale(y) \in {y, NextScale(y)}
  BY DEF StepScale
<1>3. CASE x.r.err
  <2>1. StepScale(x).r.err
    BY <1>1, <1>2, <1>3
  <2>2. Reads(StepScale(x).r) /\ Reads(StepScale(y).r)
    BY <1>1, <1>2 DEF ScaleBehind, Behind
  <2> QED BY <2>1, <2>2, FailedBehind DEF ScaleBehind
<1>4. CASE ~x.r.err
  BY <1>1, <1>4 DEF StepScale, ScaleBehind
<1> QED BY <1>3, <1>4

LEMMA ListBehind ==
  ASSUME NEW r, NEW s, Behind(r, s), NEW size \in Nat
  PROVE  /\ Behind(h264_skip_scaling_list(r, size), h264_skip_scaling_list(s, size))
         /\ r.err => h264_skip_scaling_list(r, size).err
<1>1. PICK x : /\ x = [k \in 0 .. size |-> IF k = 0 THEN [last |-> 8, next |-> 8, r |-> r]
                                           ELSE StepScale(x[k - 1])]
               /\ h264_skip_scaling_list(r, size) = x[size].r
  BY ScalesSteps
<1>2. PICK y : /\ y = [k \in 0 .. size |-> IF k = 0 THEN [last |-> 8, next |-> 8, r |-> s]
                                           ELSE StepScale(y[k - 1])]
               /\ h264_skip_scaling_list(s, size) = y[size].r
  BY ScalesSteps
<1> DEFINE S == {k \in 0 .. size : ScaleBehind(x[k], y[k]) /\ (r.err => x[k].r.err)}
<1>3. 0 \in S
  <2>1. x[0] = [last |-> 8, next |-> 8, r |-> r] /\ y[0] = [last |-> 8, next |-> 8, r |-> s]
    BY <1>1, <1>2
  <2>2. /\ x[0].r = r /\ y[0].r = s
        /\ x[0].last = 8 /\ y[0].last = 8 /\ x[0].next = 8 /\ y[0].next = 8
    BY <2>1
  <2>3. ScaleBehind(x[0], y[0])
    BY <2>2 DEF ScaleBehind
  <2> QED BY <2>2, <2>3
<1>4. ASSUME NEW k \in 1 .. size, k - 1 \in S PROVE k \in S
  <2>1. x[k] = StepScale(x[k - 1]) /\ y[k] = StepScale(y[k - 1]) /\ k \in 0 .. size
    BY <1>1, <1>2
  <2>2. ScaleBehind(x[k - 1], y[k - 1]) /\ (r.err => x[k - 1].r.err)
    BY <1>4
  <2>3. ScaleBehind(x[k], y[k]) /\ (x[k - 1].r.err => x[k].r.err)
    BY <2>1, <2>2, StepScaleBehind
  <2> QED BY <2>1, <2>2, <2>3
<1>5. size \in S
  <2> HIDE DEF S
  <2>1. \A k \in 0..size : k \in S
    BY <1>3, <1>4, Reached
  <2> QED BY <2>1
<1> QED BY <1>1, <1>2, <1>5 DEF ScaleBehind

\* The i-th list of a matrix.
ListAt(x, i) ==
    LET y == h264_un(x, 1, "list")
    IN  IF y.got.list = 0 THEN y ELSE h264_skip_scaling_list(y, IF i <= 6 THEN 16 ELSE 64)

ListsTo(r, n) ==
    LET x[k \in 0 .. n] == IF k = 0 THEN r ELSE ListAt(x[k - 1], k) IN x[n]

\* One more offset of the cycle.
OffsetAt(x) ==
    LET y == h264_se(x, "offset")
    IN  Put(y, "offset_for_ref_frame", Append(y.got.offset_for_ref_frame, y.got.offset))

OffsetsTo(r, n) ==
    LET x[k \in 0 .. n] == IF k = 0 THEN r ELSE OffsetAt(x[k - 1]) IN x[n]

LEMMA ListAtBehind ==
  ASSUME NEW r, NEW s, Behind(r, s), NEW i \in Nat
  PROVE  Behind(ListAt(r, i), ListAt(s, i)) /\ (r.err => ListAt(r, i).err)
<1> DEFINE y == h264_un(r, 1, "list")
           z == h264_un(s, 1, "list")
           size == IF i <= 6 THEN 16 ELSE 64
<1>1. Behind(y, z) /\ (r.err => y.err) /\ Reads(y) /\ Reads(z)
  BY UnBehind DEF Behind
<1>2. ListAt(r, i) = (IF y.got.list = 0 THEN y ELSE h264_skip_scaling_list(y, size))
      /\ ListAt(s, i) = (IF z.got.list = 0 THEN z ELSE h264_skip_scaling_list(z, size))
  BY DEF ListAt
<1>3. size \in Nat
  OBVIOUS
<1> HIDE DEF y, z, size
<1>4. Behind(h264_skip_scaling_list(y, size), h264_skip_scaling_list(z, size))
      /\ (y.err => h264_skip_scaling_list(y, size).err)
  BY <1>1, <1>3, ListBehind
<1>5. Reads(ListAt(r, i)) /\ Reads(ListAt(s, i))
  BY <1>1, <1>2, <1>4 DEF Behind
<1>6. CASE y.err
  <2>1. ListAt(r, i).err
    BY <1>2, <1>4, <1>6
  <2> QED BY <1>5, <2>1, FailedBehind
<1>7. CASE ~y.err
  <2>1. y.got.list = z.got.list
    BY <1>1, <1>7 DEF Behind
  <2> QED BY <1>1, <1>2, <1>4, <1>7, <2>1
<1> QED BY <1>6, <1>7

LEMMA OffsetAtBehind ==
  ASSUME NEW r, NEW s, Behind(r, s)
  PROVE  Behind(OffsetAt(r), OffsetAt(s)) /\ (r.err => OffsetAt(r).err)
<1> DEFINE y == h264_se(r, "offset")
           z == h264_se(s, "offset")
           v(x) == Append(x.got.offset_for_ref_frame, x.got.offset)
<1>1. Behind(y, z) /\ (r.err => y.err)
  BY SeBehind
<1>2. OffsetAt(r) = Put(y, "offset_for_ref_frame", v(y)) /\ OffsetAt(s) = Put(z, "offset_for_ref_frame", v(z))
  BY DEF OffsetAt
<1> HIDE DEF y, z
<1>3. ~y.err => v(y) = v(z)
  BY <1>1 DEF Behind
<1> HIDE DEF v
<1>4. Behind(Put(y, "offset_for_ref_frame", v(y)), Put(z, "offset_for_ref_frame", v(z)))
      /\ Put(y, "offset_for_ref_frame", v(y)).err = y.err
  BY <1>1, <1>3, PutBehind
<1> QED BY <1>1, <1>2, <1>4

\* The recursion of ScalingMatrix, unfolded.
LEMMA ListsSteps ==
  ASSUME NEW r, NEW n \in Nat
  PROVE  \E x : /\ x = [k \in 0 .. n |-> IF k = 0 THEN r ELSE ListAt(x[k - 1], k)]
                /\ ListsTo(r, n) = x[n]
<1> DEFINE Def(m, f) == f = [k \in 0..m |-> IF k = 0 THEN r ELSE ListAt(f[k - 1], k)]
           x[k \in 0 .. n] == IF k = 0 THEN r ELSE ListAt(x[k - 1], k)
           S == {m \in 0..n : \E f : Def(m, f)}
<1>1. 0 \in S
  <2>1. Def(0, [k \in 0..0 |-> r])
    OBVIOUS
  <2>2. \E f : Def(0, f)
    BY <2>1, Zenon
  <2> HIDE DEF Def
  <2> QED BY <2>2
<1>2. ASSUME NEW k \in 1..n, k - 1 \in S PROVE k \in S
  <2>1. PICK f : Def(k - 1, f)
    BY <1>2
  <2> DEFINE g == [j \in 0..k |-> IF j = k THEN ListAt(f[k - 1], k) ELSE f[j]]
  <2>2. \A j \in 0..k : g[j] = IF j = 0 THEN r ELSE ListAt(g[j - 1], j)
    <3> SUFFICES ASSUME NEW j \in 0..k PROVE g[j] = IF j = 0 THEN r ELSE ListAt(g[j - 1], j)
      OBVIOUS
    <3>1. CASE j = k
      BY <3>1
    <3>2. CASE j # k
      <4>1. j \in 0..k - 1 /\ g[j] = f[j]
        BY <3>2
      <4>2. j # 0 => g[j - 1] = f[j - 1]
        BY <3>2
      <4>3. f[j] = IF j = 0 THEN r ELSE ListAt(f[j - 1], j)
        BY <2>1, <4>1
      <4> QED BY <4>1, <4>2, <4>3
    <3> QED BY <3>1, <3>2
  <2>3. Def(k, g)
    BY <2>2
  <2> HIDE DEF g
  <2>4. \E h : Def(k, h)
    BY <2>3, Zenon
  <2> HIDE DEF Def
  <2> QED BY <2>4
<1>3. n \in S
  <2> HIDE DEF S
  <2>1. \A k \in 0..n : k \in S
    BY <1>1, <1>2, Reached
  <2> QED BY <2>1
<1>4. PICK f : Def(n, f)
  BY <1>3
<1>5. Def(n, x)
  BY <1>4 DEF x
<1>6. ListsTo(r, n) = x[n]
  BY DEF ListsTo
<1> QED BY <1>5, <1>6

\* The recursion of Offsets, unfolded.
LEMMA OffsetsSteps ==
  ASSUME NEW r, NEW n \in Nat
  PROVE  \E x : /\ x = [k \in 0 .. n |-> IF k = 0 THEN r ELSE OffsetAt(x[k - 1])]
                /\ OffsetsTo(r, n) = x[n]
<1> DEFINE Def(m, f) == f = [k \in 0..m |-> IF k = 0 THEN r ELSE OffsetAt(f[k - 1])]
           x[k \in 0 .. n] == IF k = 0 THEN r ELSE OffsetAt(x[k - 1])
           S == {m \in 0..n : \E f : Def(m, f)}
<1>1. 0 \in S
  <2>1. Def(0, [k \in 0..0 |-> r])
    OBVIOUS
  <2>2. \E f : Def(0, f)
    BY <2>1, Zenon
  <2> HIDE DEF Def
  <2> QED BY <2>2
<1>2. ASSUME NEW k \in 1..n, k - 1 \in S PROVE k \in S
  <2>1. PICK f : Def(k - 1, f)
    BY <1>2
  <2> DEFINE g == [j \in 0..k |-> IF j = k THEN OffsetAt(f[k - 1]) ELSE f[j]]
  <2>2. \A j \in 0..k : g[j] = IF j = 0 THEN r ELSE OffsetAt(g[j - 1])
    <3> SUFFICES ASSUME NEW j \in 0..k PROVE g[j] = IF j = 0 THEN r ELSE OffsetAt(g[j - 1])
      OBVIOUS
    <3>1. CASE j = k
      BY <3>1
    <3>2. CASE j # k
      <4>1. j \in 0..k - 1 /\ g[j] = f[j]
        BY <3>2
      <4>2. j # 0 => g[j - 1] = f[j - 1]
        BY <3>2
      <4>3. f[j] = IF j = 0 THEN r ELSE OffsetAt(f[j - 1])
        BY <2>1, <4>1
      <4> QED BY <4>1, <4>2, <4>3
    <3> QED BY <3>1, <3>2
  <2>3. Def(k, g)
    BY <2>2
  <2> HIDE DEF g
  <2>4. \E h : Def(k, h)
    BY <2>3, Zenon
  <2> HIDE DEF Def
  <2> QED BY <2>4
<1>3. n \in S
  <2> HIDE DEF S
  <2>1. \A k \in 0..n : k \in S
    BY <1>1, <1>2, Reached
  <2> QED BY <2>1
<1>4. PICK f : Def(n, f)
  BY <1>3
<1>5. Def(n, x)
  BY <1>4 DEF x
<1>6. OffsetsTo(r, n) = x[n]
  BY DEF OffsetsTo
<1> QED BY <1>5, <1>6

LEMMA ListsBehind ==
  ASSUME NEW r, NEW s, Behind(r, s), NEW n \in Nat
  PROVE  Behind(ListsTo(r, n), ListsTo(s, n)) /\ (r.err => ListsTo(r, n).err)
<1>1. PICK x : /\ x = [k \in 0 .. n |-> IF k = 0 THEN r ELSE ListAt(x[k - 1], k)]
               /\ ListsTo(r, n) = x[n]
  BY ListsSteps
<1>2. PICK y : /\ y = [k \in 0 .. n |-> IF k = 0 THEN s ELSE ListAt(y[k - 1], k)]
               /\ ListsTo(s, n) = y[n]
  BY ListsSteps
<1> DEFINE S == {k \in 0 .. n : Behind(x[k], y[k]) /\ (r.err => x[k].err)}
<1>3. 0 \in S
  <2>1. x[0] = r /\ y[0] = s /\ 0 \in 0 .. n
    BY <1>1, <1>2
  <2> QED BY <2>1
<1>4. ASSUME NEW k \in 1 .. n, k - 1 \in S PROVE k \in S
  <2>1. x[k] = ListAt(x[k - 1], k) /\ y[k] = ListAt(y[k - 1], k) /\ k \in 0 .. n /\ k \in Nat
    BY <1>1, <1>2
  <2>2. Behind(x[k - 1], y[k - 1]) /\ (r.err => x[k - 1].err)
    BY <1>4
  <2>3. Behind(x[k], y[k]) /\ (x[k - 1].err => x[k].err)
    BY <2>1, <2>2, ListAtBehind
  <2> QED BY <2>1, <2>2, <2>3
<1>5. n \in S
  <2> HIDE DEF S
  <2>1. \A k \in 0..n : k \in S
    BY <1>3, <1>4, Reached
  <2> QED BY <2>1
<1> QED BY <1>1, <1>2, <1>5

LEMMA OffsetsBehind ==
  ASSUME NEW r, NEW s, Behind(r, s), NEW n \in Nat
  PROVE  Behind(OffsetsTo(r, n), OffsetsTo(s, n)) /\ (r.err => OffsetsTo(r, n).err)
<1>1. PICK x : /\ x = [k \in 0 .. n |-> IF k = 0 THEN r ELSE OffsetAt(x[k - 1])]
               /\ OffsetsTo(r, n) = x[n]
  BY OffsetsSteps
<1>2. PICK y : /\ y = [k \in 0 .. n |-> IF k = 0 THEN s ELSE OffsetAt(y[k - 1])]
               /\ OffsetsTo(s, n) = y[n]
  BY OffsetsSteps
<1> DEFINE S == {k \in 0 .. n : Behind(x[k], y[k]) /\ (r.err => x[k].err)}
<1>3. 0 \in S
  <2>1. x[0] = r /\ y[0] = s /\ 0 \in 0 .. n
    BY <1>1, <1>2
  <2> QED BY <2>1
<1>4. ASSUME NEW k \in 1 .. n, k - 1 \in S PROVE k \in S
  <2>1. x[k] = OffsetAt(x[k - 1]) /\ y[k] = OffsetAt(y[k - 1]) /\ k \in 0 .. n /\ k \in Nat
    BY <1>1, <1>2
  <2>2. Behind(x[k - 1], y[k - 1]) /\ (r.err => x[k - 1].err)
    BY <1>4
  <2>3. Behind(x[k], y[k]) /\ (x[k - 1].err => x[k].err)
    BY <2>1, <2>2, OffsetAtBehind
  <2> QED BY <2>1, <2>2, <2>3
<1>5. n \in S
  <2> HIDE DEF S
  <2>1. \A k \in 0..n : k \in S
    BY <1>3, <1>4, Reached
  <2> QED BY <2>1
<1> QED BY <1>1, <1>2, <1>5

-----------------------------------------------------------------------------
(* Headers *)

\* Both go on in the same way, or the first has failed.
LEMMA ChoiceBehind ==
  ASSUME NEW r, NEW s, Behind(r, s), NEW a, NEW b, Behind(a, b), r.err => a.err,
         NEW q, NEW t, q = r \/ q = a, t = s \/ t = b,
         ~r.err => (q = r /\ t = s) \/ (q = a /\ t = b)
  PROVE  Behind(q, t) /\ (r.err => q.err)
<1>1. Reads(q) /\ Reads(t)
  BY DEF Behind
<1>2. CASE r.err
  BY <1>1, <1>2, FailedBehind
<1>3. CASE ~r.err
  BY <1>3
<1> QED BY <1>2, <1>3

LEMMA MatrixBehind ==
  ASSUME NEW r, NEW s, Behind(r, s)
  PROVE  Behind(ScalingMatrix(r), ScalingMatrix(s)) /\ (r.err => ScalingMatrix(r).err)
<1> DEFINE n(x) == IF x.got.matrix = 0 THEN 0 ELSE IF x.got.chroma_format_idc # 3 THEN 8 ELSE 12
<1>1. \A x : ScalingMatrix(x) = ListsTo(x, n(x))
  BY DEF ScalingMatrix, ListsTo, ListAt
<1>2. n(r) \in Nat /\ n(s) \in Nat
  OBVIOUS
<1>3. ~r.err => n(r) = n(s)
  BY DEF Behind
<1> HIDE DEF n
<1>4. Behind(s, s)
  BY SelfBehind DEF Behind
<1>5. Behind(ListsTo(r, n(r)), ListsTo(s, n(r))) /\ (r.err => ListsTo(r, n(r)).err)
  BY <1>2, ListsBehind
<1>6. Reads(ListsTo(s, n(s)))
  BY <1>2, <1>4, ListsBehind DEF Behind
<1>7. CASE r.err
  <2>1. Reads(ListsTo(r, n(r))) /\ ListsTo(r, n(r)).err
    BY <1>5, <1>7 DEF Behind
  <2>2. Behind(ListsTo(r, n(r)), ListsTo(s, n(s)))
    BY <1>6, <2>1, FailedBehind
  <2> QED BY <1>1, <2>1, <2>2
<1>8. CASE ~r.err
  BY <1>1, <1>3, <1>5, <1>8
<1> QED BY <1>7, <1>8

LEMMA CycleBehind ==
  ASSUME NEW r, NEW s, Behind(r, s)
  PROVE  Behind(Offsets(r), Offsets(s)) /\ (r.err => Offsets(r).err)
<1> DEFINE n(x) == IF AsInt(x.got.cycle) \in 1 .. 256 THEN AsInt(x.got.cycle) ELSE 0
<1>1. \A x : Offsets(x) = OffsetsTo(x, n(x))
  BY DEF Offsets, OffsetsTo, OffsetAt
<1>2. n(r) \in Nat /\ n(s) \in Nat
  OBVIOUS
<1>3. ~r.err => n(r) = n(s)
  BY DEF Behind
<1> HIDE DEF n
<1>4. Behind(s, s)
  BY SelfBehind DEF Behind
<1>5. Behind(OffsetsTo(r, n(r)), OffsetsTo(s, n(r))) /\ (r.err => OffsetsTo(r, n(r)).err)
  BY <1>2, OffsetsBehind
<1>6. Reads(OffsetsTo(s, n(s)))
  BY <1>2, <1>4, OffsetsBehind DEF Behind
<1>7. CASE r.err
  <2>1. Reads(OffsetsTo(r, n(r))) /\ OffsetsTo(r, n(r)).err
    BY <1>5, <1>7 DEF Behind
  <2>2. Behind(OffsetsTo(r, n(r)), OffsetsTo(s, n(s)))
    BY <1>6, <2>1, FailedBehind
  <2> QED BY <1>1, <2>1, <2>2
<1>8. CASE ~r.err
  BY <1>1, <1>3, <1>5, <1>8
<1> QED BY <1>7, <1>8

LEMMA HighBehind ==
  ASSUME NEW r, NEW s, Behind(r, s)
  PROVE  Behind(HighBlock(r), HighBlock(s)) /\ (r.err => HighBlock(r).err)
<1> DEFINE es == <<UE("unused"), UE("unused"), U("unused", 1), U("matrix", 1)>>
           y(x) == h264_ue(x, "chroma_format_idc")
           one(x) == h264_un(x, 1, "separate_colour_plane")
           a(x) == ScalingMatrix(Elements(ColourPlane(y(x)), es))
<1>1. es \in Seq(Kinds)
  <2>1. UE("unused") \in Kinds /\ U("unused", 1) \in Kinds /\ U("matrix", 1) \in Kinds
    BY InKinds DEF Names
  <2> QED BY <2>1
<1>2. \A x : HighBlock(x) = IF x.got.profile_idc \notin HighProfiles THEN x ELSE a(x)
  BY DEF HighBlock
<1> HIDE DEF es
<1>3. Behind(y(r), y(s)) /\ (r.err => y(r).err)
  BY UeBehind
<1> HIDE DEF y
<1>4. Behind(one(y(r)), one(y(s))) /\ (y(r).err => one(y(r)).err)
  BY <1>3, UnBehind
<1>5. \A x : ColourPlane(x) = IF x.got.chroma_format_idc = 3 THEN one(x) ELSE x
  BY DEF ColourPlane
<1>6. ~y(r).err => y(r).got = y(s).got
  BY <1>3 DEF Behind
<1>7. Behind(ColourPlane(y(r)), ColourPlane(y(s))) /\ (y(r).err => ColourPlane(y(r)).err)
  <2> DEFINE q == ColourPlane(y(r))
             t == ColourPlane(y(s))
  <2> HIDE DEF one
  <2>1. /\ q = y(r) \/ q = one(y(r))
        /\ t = y(s) \/ t = one(y(s))
    BY <1>5
  <2>2. ~y(r).err => (q = y(r) /\ t = y(s)) \/ (q = one(y(r)) /\ t = one(y(s)))
    BY <1>5, <1>6
  <2> HIDE DEF q, t
  <2>3. Behind(q, t) /\ (y(r).err => q.err)
    BY <1>3, <1>4, <2>1, <2>2, ChoiceBehind
  <2> QED BY <2>3 DEF q, t
<1>8. /\ Behind(Elements(ColourPlane(y(r)), es), Elements(ColourPlane(y(s)), es))
      /\ ColourPlane(y(r)).err => Elements(ColourPlane(y(r)), es).err
  BY <1>1, <1>7, ElementsBehind
<1>9. Behind(a(r), a(s)) /\ (r.err => a(r).err)
  BY <1>3, <1>7, <1>8, MatrixBehind
<1>10. ~r.err => r.got = s.got
  BY DEF Behind
<1> HIDE DEF a
<1> DEFINE q == HighBlock(r)
           t == HighBlock(s)
<1>11. (q = r \/ q = a(r)) /\ (t = s \/ t = a(s))
  BY <1>2
<1>12. ~r.err => (q = r /\ t = s) \/ (q = a(r) /\ t = a(s))
  BY <1>2, <1>10
<1> HIDE DEF q, t
<1>13. Behind(q, t) /\ (r.err => q.err)
  BY <1>9, <1>11, <1>12, ChoiceBehind
<1> QED BY <1>13 DEF q, t

LEMMA PocBehind ==
  ASSUME NEW r, NEW s, Behind(r, s)
  PROVE  Behind(PocBlock(r), PocBlock(s)) /\ (r.err => PocBlock(r).err)
<1> DEFINE es == <<U("delta_poc_always_zero", 1), SE("offset_for_non_ref_pic"), SE("unused"), UE("cycle")>>
           a(x) == h264_ue(x, "log2_max_poc_lsb_minus4")
           b(x) == Offsets(Elements(x, es))
<1>1. es \in Seq(Kinds)
  <2>1. /\ U("delta_poc_always_zero", 1) \in Kinds /\ UE("cycle") \in Kinds
        /\ SE("offset_for_non_ref_pic") \in Kinds /\ SE("unused") \in Kinds
    BY InKinds DEF Names
  <2> QED BY <2>1
<1>2. \A x : PocBlock(x) = IF x.got.poc_type = 0 THEN a(x) ELSE IF x.got.poc_type = 1 THEN b(x) ELSE x
  BY DEF PocBlock
<1> HIDE DEF es
<1>3. Behind(a(r), a(s)) /\ (r.err => a(r).err)
  BY UeBehind
<1>4. Behind(Elements(r, es), Elements(s, es)) /\ (r.err => Elements(r, es).err)
  BY <1>1, ElementsBehind
<1>5. Behind(b(r), b(s)) /\ (r.err => b(r).err)
  BY <1>4, CycleBehind
<1> HIDE DEF a, b
<1>6. Reads(PocBlock(r)) /\ Reads(PocBlock(s))
  BY <1>2, <1>3, <1>5 DEF Behind
<1>7. CASE r.err
  <2>1. PocBlock(r).err
    BY <1>2, <1>3, <1>5, <1>7
  <2> QED BY <1>6, <2>1, FailedBehind
<1>8. CASE ~r.err
  <2>1. r.got.poc_type = s.got.poc_type
    BY <1>8 DEF Behind
  <2> QED BY <1>2, <1>3, <1>5, <1>8, <2>1
<1> QED BY <1>7, <1>8

LEMMA SpsBehind ==
  ASSUME NEW r, NEW s, Behind(r, s)
  PROVE  LET q == SpsFrom(SpsTail(PocBlock(SpsTypes(HighBlock(SpsHead(r))))))
             t == SpsFrom(SpsTail(PocBlock(SpsTypes(HighBlock(SpsHead(s))))))
         IN  q = Refused \/ q = t
<1> DEFINE h1 == <<U("profile_idc", 8), U("unused", 8), U("unused", 8), UE("id")>>
           h2 == <<UE("log2_max_frame_num_minus4"), UE("poc_type")>>
           h3 == <<UE("unused"), U("unused", 1), UE("unused"), UE("unused"), U("frame_mbs_only", 1)>>
<1>1. h1 \in Seq(Kinds) /\ h2 \in Seq(Kinds) /\ h3 \in Seq(Kinds)
  <2>1. /\ U("profile_idc", 8) \in Kinds /\ U("unused", 8) \in Kinds /\ UE("id") \in Kinds
        /\ UE("log2_max_frame_num_minus4") \in Kinds /\ UE("poc_type") \in Kinds
        /\ UE("unused") \in Kinds /\ U("unused", 1) \in Kinds /\ U("frame_mbs_only", 1) \in Kinds
    BY InKinds DEF Names
  <2> QED BY <2>1
<1>2. \A x : SpsHead(x) = Elements([x EXCEPT !.got = Blank], h1)
  BY DEF SpsHead
<1>3. \A x : SpsTypes(x) = Elements(x, h2)
  BY DEF SpsTypes
<1>4. \A x : SpsTail(x) = Elements(x, h3)
  BY DEF SpsTail
<1> HIDE DEF h1, h2, h3
<1>5. Behind([r EXCEPT !.got = Blank], [s EXCEPT !.got = Blank])
  BY GotBehind
<1>6. Behind(SpsHead(r), SpsHead(s))
  BY <1>1, <1>2, <1>5, ElementsBehind
<1>7. Behind(HighBlock(SpsHead(r)), HighBlock(SpsHead(s)))
  BY <1>6, HighBehind
<1>8. Behind(SpsTypes(HighBlock(SpsHead(r))), SpsTypes(HighBlock(SpsHead(s))))
  BY <1>1, <1>3, <1>7, ElementsBehind
<1>9. Behind(PocBlock(SpsTypes(HighBlock(SpsHead(r)))), PocBlock(SpsTypes(HighBlock(SpsHead(s)))))
  BY <1>8, PocBehind
<1>10. Behind(SpsTail(PocBlock(SpsTypes(HighBlock(SpsHead(r))))),
              SpsTail(PocBlock(SpsTypes(HighBlock(SpsHead(s))))))
  BY <1>1, <1>4, <1>9, ElementsBehind
<1> DEFINE q == SpsTail(PocBlock(SpsTypes(HighBlock(SpsHead(r)))))
           t == SpsTail(PocBlock(SpsTypes(HighBlock(SpsHead(s)))))
<1> HIDE DEF q, t
<1>11. Behind(q, t)
  BY <1>10 DEF q, t
<1>12. SpsFrom(q) = Refused \/ SpsFrom(q) = SpsFrom(t)
  <2>1. CASE q.err
    BY <2>1 DEF SpsFrom
  <2>2. CASE ~q.err
    <3>1. q.got = t.got /\ ~t.err
      BY <1>11, <2>2 DEF Behind
    <3> QED BY <2>2, <3>1 DEF SpsFrom
  <2> QED BY <2>1, <2>2
<1> QED BY <1>12 DEF q, t

-----------------------------------------------------------------------------
(* Payloads *)

Unescape(x, b, cap) ==
    IF Len(x.out) = cap THEN x
    ELSE IF x.zeros >= 2 /\ b = 3 THEN [x EXCEPT !.zeros = 0]
    ELSE [out |-> Append(x.out, b), zeros |-> IF b = 0 THEN x.zeros + 1 ELSE 0]

Fresh == [out |-> <<>>, zeros |-> 0]

\* What h264_rbsp has after n bytes.
RbspTo(nal, cap, n) ==
    LET x[k \in 0 .. n] == IF k = 0 THEN Fresh
                           ELSE Unescape(x[k - 1], nal[k + 1], cap)
    IN  x[n]

\* The recursion of h264_rbsp, unfolded.
LEMMA RbspSteps ==
  ASSUME NEW nal, NEW cap, NEW n \in Nat
  PROVE  \E x : /\ x = [k \in 0 .. n |-> IF k = 0 THEN Fresh ELSE Unescape(x[k - 1], nal[k + 1], cap)]
                /\ RbspTo(nal, cap, n) = x[n]
<1> DEFINE Def(m, f) == f = [k \in 0..m |-> IF k = 0 THEN Fresh ELSE Unescape(f[k - 1], nal[k + 1], cap)]
           x[k \in 0 .. n] == IF k = 0 THEN Fresh ELSE Unescape(x[k - 1], nal[k + 1], cap)
           S == {m \in 0..n : \E f : Def(m, f)}
<1>1. 0 \in S
  <2>1. Def(0, [k \in 0..0 |-> Fresh])
    OBVIOUS
  <2>2. \E f : Def(0, f)
    BY <2>1, Zenon
  <2> HIDE DEF Def
  <2> QED BY <2>2
<1>2. ASSUME NEW k \in 1..n, k - 1 \in S PROVE k \in S
  <2>1. PICK f : Def(k - 1, f)
    BY <1>2
  <2> DEFINE g == [j \in 0..k |-> IF j = k THEN Unescape(f[k - 1], nal[k + 1], cap) ELSE f[j]]
  <2>2. \A j \in 0..k : g[j] = IF j = 0 THEN Fresh ELSE Unescape(g[j - 1], nal[j + 1], cap)
    <3> SUFFICES ASSUME NEW j \in 0..k PROVE g[j] = IF j = 0 THEN Fresh ELSE Unescape(g[j - 1], nal[j + 1], cap)
      OBVIOUS
    <3>1. CASE j = k
      BY <3>1
    <3>2. CASE j # k
      <4>1. j \in 0..k - 1 /\ g[j] = f[j]
        BY <3>2
      <4>2. j # 0 => g[j - 1] = f[j - 1]
        BY <3>2
      <4>3. f[j] = IF j = 0 THEN Fresh ELSE Unescape(f[j - 1], nal[j + 1], cap)
        BY <2>1, <4>1
      <4> QED BY <4>1, <4>2, <4>3
    <3> QED BY <3>1, <3>2
  <2>3. Def(k, g)
    BY <2>2
  <2> HIDE DEF g
  <2>4. \E h : Def(k, h)
    BY <2>3, Zenon
  <2> HIDE DEF Def
  <2> QED BY <2>4
<1>3. n \in S
  <2> HIDE DEF S
  <2>1. \A k \in 0..n : k \in S
    BY <1>1, <1>2, Reached
  <2> QED BY <2>1
<1>4. PICK f : Def(n, f)
  BY <1>3
<1>5. Def(n, x)
  BY <1>4 DEF x
<1>6. RbspTo(nal, cap, n) = x[n]
  BY DEF RbspTo
<1> QED BY <1>5, <1>6

LEMMA UnescapeType ==
  ASSUME NEW x \in [out : Seq(Nat), zeros : Nat], NEW b \in Nat, NEW cap
  PROVE  /\ Unescape(x, b, cap) \in [out : Seq(Nat), zeros : Nat]
         /\ Begins(x.out, Unescape(x, b, cap).out)
<1>1. x.out \in Seq(Nat) /\ x.zeros \in Nat /\ Len(x.out) \in Nat
  OBVIOUS
<1>2. Begins(x.out, x.out)
  BY <1>1 DEF Begins
<1>3. CASE Len(x.out) = cap
  BY <1>2, <1>3 DEF Unescape
<1>4. CASE ~(Len(x.out) = cap) /\ x.zeros >= 2 /\ b = 3
  <2>1. Unescape(x, b, cap) = [x EXCEPT !.zeros = 0]
    BY <1>4 DEF Unescape
  <2>2. [x EXCEPT !.zeros = 0] \in [out : Seq(Nat), zeros : Nat] /\ [x EXCEPT !.zeros = 0].out = x.out
    OBVIOUS
  <2> QED BY <1>2, <2>1, <2>2
<1>5. CASE ~(Len(x.out) = cap) /\ ~(x.zeros >= 2 /\ b = 3)
  <2> DEFINE y == Append(x.out, b)
  <2>1. y \in Seq(Nat) /\ Len(y) = Len(x.out) + 1 /\ \A i \in 1..Len(x.out) : y[i] = x.out[i]
    BY <1>1
  <2>2. Begins(x.out, y)
    BY <1>1, <2>1 DEF Begins
  <2>3. Unescape(x, b, cap) = [out |-> y, zeros |-> IF b = 0 THEN x.zeros + 1 ELSE 0]
    BY <1>5 DEF Unescape
  <2> HIDE DEF y
  <2>4. Unescape(x, b, cap) \in [out : Seq(Nat), zeros : Nat] /\ Unescape(x, b, cap).out = y
    BY <1>1, <2>1, <2>3
  <2> QED BY <2>2, <2>4
<1> QED BY <1>3, <1>4, <1>5

State == [out : Seq(Nat), zeros : Nat]

LEMMA BeginsChain ==
  ASSUME NEW a \in Seq(Nat), NEW b \in Seq(Nat), NEW c \in Seq(Nat), Begins(a, b), Begins(b, c)
  PROVE  Begins(a, c)
<1>1. Len(a) \in Nat /\ Len(b) \in Nat /\ Len(c) \in Nat
  OBVIOUS
<1>2. Len(a) <= Len(b) /\ Len(b) <= Len(c)
  BY DEF Begins
<1>3. ASSUME NEW i \in 1..Len(a) PROVE a[i] = c[i]
  <2>1. i \in 1..Len(b)
    BY <1>1, <1>2
  <2> QED BY <2>1 DEF Begins
<1> QED BY <1>1, <1>2, <1>3 DEF Begins

\* What a NAL holds without its escapes starts with what any start of it holds.
LEMMA RbspBegins ==
  ASSUME NEW a \in Seq(Nat), NEW b \in Seq(Nat), Len(a) >= 1, Begins(a, b), NEW cap
  PROVE  /\ h264_rbsp(a, cap) \in Seq(Nat) /\ h264_rbsp(b, cap) \in Seq(Nat)
         /\ Begins(h264_rbsp(a, cap), h264_rbsp(b, cap))
<1> DEFINE n == Len(a) - 1
           m == Len(b) - 1
<1>0. n \in Nat /\ m \in Nat
  BY DEF Begins
<1>1. /\ n \in Nat /\ m \in Nat /\ n <= m
      /\ \A k \in 1..n : k + 1 \in 1..Len(a) /\ a[k + 1] = b[k + 1] /\ a[k + 1] \in Nat
      /\ \A k \in 1..m : k + 1 \in 1..Len(b) /\ b[k + 1] \in Nat
  BY DEF Begins
<1>2. h264_rbsp(a, cap) = RbspTo(a, cap, n).out /\ h264_rbsp(b, cap) = RbspTo(b, cap, m).out
  BY DEF h264_rbsp, RbspTo, Unescape, Fresh
<1> HIDE DEF n, m
<1>3. PICK x : /\ x = [k \in 0 .. n |-> IF k = 0 THEN Fresh ELSE Unescape(x[k - 1], a[k + 1], cap)]
               /\ RbspTo(a, cap, n) = x[n]
  BY <1>0, RbspSteps
<1>4. PICK y : /\ y = [k \in 0 .. m |-> IF k = 0 THEN Fresh ELSE Unescape(y[k - 1], b[k + 1], cap)]
               /\ RbspTo(b, cap, m) = y[m]
  BY <1>0, RbspSteps
<1>5. Fresh \in State
  BY DEF State, Fresh
<1>6. x[0] = Fresh /\ y[0] = Fresh
  BY <1>1, <1>3, <1>4
<1>7. \A k \in 1..n : x[k] = Unescape(x[k - 1], a[k + 1], cap)
  BY <1>0, <1>3
<1>8. \A k \in 1..m : y[k] = Unescape(y[k - 1], b[k + 1], cap)
  BY <1>0, <1>4
<1> DEFINE S == {k \in 0..n : x[k] = y[k]}
<1>9. \A k \in 0..n : k \in S
  <2>1. 0 \in S
    BY <1>1, <1>6
  <2>2. ASSUME NEW k \in 1..n, k - 1 \in S PROVE k \in S
    <3>1. k \in 1..m /\ x[k - 1] = y[k - 1] /\ a[k + 1] = b[k + 1]
      BY <1>1, <2>2
    <3>2. x[k] = y[k]
      BY <1>7, <1>8, <3>1
    <3> QED BY <3>2
  <2> HIDE DEF S
  <2> QED BY <1>1, <2>1, <2>2, Reached
<1> DEFINE R == {k \in 0..m : y[k] \in State}
<1>10. \A k \in 0..m : y[k] \in State
  <2>1. 0 \in R
    BY <1>1, <1>5, <1>6
  <2>2. ASSUME NEW k \in 1..m, k - 1 \in R PROVE k \in R
    <3>1. y[k - 1] \in State
      BY <2>2
    <3>2. y[k] = Unescape(y[k - 1], b[k + 1], cap) /\ b[k + 1] \in Nat
      BY <1>1, <1>8
    <3>3. y[k] \in State
      BY <3>1, <3>2, UnescapeType DEF State
    <3> QED BY <3>3
  <2>3. \A k \in 0..m : k \in R
    <3> HIDE DEF R
    <3> QED BY <1>1, <2>1, <2>2, Reached
  <2> QED BY <2>3
<1> DEFINE Q == {k \in 0..m : k >= n => Begins(y[n].out, y[k].out)}
<1>11. \A k \in 0..m : k \in Q
  <2>1. 0 \in Q
    <3>1. y[0].out = <<>>
      BY <1>6 DEF Fresh
    <3>2. ASSUME 0 >= n PROVE Begins(y[n].out, y[0].out)
      <4>1. n = 0
        BY <1>1, <3>2
      <4> QED BY <3>1, <4>1 DEF Begins
    <3> QED BY <1>1, <3>2
  <2>2. ASSUME NEW k \in 1..m, k - 1 \in Q PROVE k \in Q
    <3>1. y[k - 1] \in State /\ y[k] \in State /\ y[n] \in State
      BY <1>1, <1>10
    <3>2. y[n].out \in Seq(Nat) /\ y[k].out \in Seq(Nat) /\ y[k - 1].out \in Seq(Nat)
      BY <3>1 DEF State
    <3>3. CASE k - 1 >= n
      <4>1. Begins(y[n].out, y[k - 1].out)
        BY <2>2, <3>3
      <4>2. y[k] = Unescape(y[k - 1], b[k + 1], cap) /\ b[k + 1] \in Nat
        BY <1>1, <1>8
      <4>3. Begins(y[k - 1].out, y[k].out)
        BY <3>1, <4>2, UnescapeType DEF State
      <4>4. Begins(y[n].out, y[k].out)
        BY <3>2, <4>1, <4>3, BeginsChain
      <4> QED BY <4>4
    <3>4. CASE k = n
      <4>1. Begins(y[n].out, y[k].out)
        BY <3>2, <3>4 DEF Begins
      <4> QED BY <4>1
    <3>5. CASE ~(k >= n)
      BY <3>5
    <3> QED BY <1>1, <3>3, <3>4, <3>5
  <2> HIDE DEF Q
  <2> QED BY <1>1, <2>1, <2>2, Reached
<1>12. y[m] \in State /\ y[n] \in State /\ x[n] = y[n] /\ Begins(y[n].out, y[m].out)
  BY <1>1, <1>9, <1>10, <1>11
<1> QED BY <1>2, <1>3, <1>4, <1>12 DEF State

\* A reader of the first bytes is behind one of them all.
LEMMA InitBehind ==
  ASSUME NEW x \in Seq(Nat), NEW y \in Seq(Nat), Begins(x, y)
  PROVE  Behind(h264_bits_init(x), h264_bits_init(y))
<1>1. ASSUME NEW z \in Seq(Nat)
      PROVE  LET q == h264_bits_init(z)
             IN  Reads(q) /\ q.d = z /\ q.pos = 0 /\ ~q.err /\ q.got = <<>>
  <2> DEFINE q == h264_bits_init(z)
  <2>1. q.d = z /\ q.pos = 0 /\ q.err = FALSE /\ q.got = <<>>
    BY DEF h264_bits_init
  <2>2. q = [d |-> q.d, pos |-> q.pos, err |-> q.err, got |-> q.got]
    BY DEF h264_bits_init
  <2>3. 0 \in 0 .. 8 * Len(z)
    OBVIOUS
  <2> HIDE DEF q
  <2>4. Reads(q)
    BY <2>1, <2>2, <2>3 DEF Reads
  <2> QED BY <2>1, <2>4 DEF q
<1> QED BY <1>1 DEF Behind

LEMMA PayloadBehind ==
  ASSUME NEW a \in Seq(Nat), NEW b \in Seq(Nat), Len(a) >= 1, Begins(a, b), NEW buffer
  PROVE  Behind(Payload(a, buffer), Payload(b, buffer))
BY RbspBegins, InitBehind DEF Payload

\* So is one of what follows.
LEMMA RestBehind ==
  ASSUME NEW d \in Seq(Nat), NEW e \in Seq(Nat), Begins(d, e), NEW m \in 1 .. Len(d) + 1
  PROVE  Behind(h264_bits_init(SubSeq(d, m, Len(d))), h264_bits_init(SubSeq(e, m, Len(e))))
<1> DEFINE x == SubSeq(d, m, Len(d))
           y == SubSeq(e, m, Len(e))
<1>1. /\ Len(d) \in Nat /\ Len(e) \in Nat /\ Len(d) <= Len(e)
      /\ \A i \in 1 .. Len(d) : d[i] = e[i] /\ d[i] \in Nat
      /\ \A i \in 1 .. Len(e) : e[i] \in Nat
  BY DEF Begins
<1>2. /\ x = [i \in 1 .. Len(d) - m + 1 |-> d[i + m - 1]] /\ Len(x) = Len(d) - m + 1
      /\ \A i \in 1 .. Len(x) : i + m - 1 \in 1 .. Len(d)
  BY <1>1
<1>3. /\ y = [i \in 1 .. Len(e) - m + 1 |-> e[i + m - 1]] /\ Len(y) = Len(e) - m + 1
      /\ \A i \in 1 .. Len(y) : i + m - 1 \in 1 .. Len(e)
  BY <1>1
<1> HIDE DEF x, y
<1>4. x \in Seq(Nat) /\ y \in Seq(Nat)
  BY <1>1, <1>2, <1>3
<1>5. ASSUME NEW i \in 1 .. Len(x) PROVE x[i] = y[i]
  <2>1. x[i] = d[i + m - 1] /\ y[i] = e[i + m - 1] /\ i + m - 1 \in 1 .. Len(d)
    BY <1>1, <1>2, <1>3
  <2> QED BY <1>1, <2>1
<1>6. Len(x) <= Len(y)
  BY <1>1, <1>2, <1>3
<1>7. Begins(x, y)
  BY <1>5, <1>6 DEF Begins
<1> QED BY <1>4, <1>7, InitBehind DEF x, y

-----------------------------------------------------------------------------
(* Cut headers *)

\* a is what is left of the bytes b.
CutFrom(a, b) == a \in Seq(Nat) /\ b \in Seq(Nat) /\ Len(a) >= 1 /\ Begins(a, b)

LEMMA SpsCut ==
  ASSUME NEW a, NEW b, CutFrom(a, b)
  PROVE  SpsIn(a) = Refused \/ SpsIn(a) = SpsIn(b)
<1>1. Behind(Payload(a, "sps"), Payload(b, "sps"))
  BY PayloadBehind DEF CutFrom
<1> QED BY <1>1, SpsBehind DEF SpsIn

LEMMA PpsCut ==
  ASSUME NEW a, NEW b, CutFrom(a, b)
  PROVE  PpsIn(a) = Refused \/ PpsIn(a) = PpsIn(b)
<1> DEFINE es == <<UE("id"), UE("sps_id"), U("unused", 1), U("bottom", 1)>>
           q == Elements(Payload(a, "pps"), es)
           t == Elements(Payload(b, "pps"), es)
<1>1. es \in Seq(Kinds)
  <2>1. UE("id") \in Kinds /\ UE("sps_id") \in Kinds /\ U("unused", 1) \in Kinds /\ U("bottom", 1) \in Kinds
    BY InKinds DEF Names
  <2> QED BY <2>1
<1>2. Behind(Payload(a, "pps"), Payload(b, "pps"))
  BY PayloadBehind DEF CutFrom
<1>3. PpsIn(a) = PpsFrom(q) /\ PpsIn(b) = PpsFrom(t)
  BY DEF PpsIn
<1> HIDE DEF es
<1>4. Behind(q, t)
  BY <1>1, <1>2, ElementsBehind
<1> HIDE DEF q, t
<1>5. CASE q.err
  BY <1>3, <1>5 DEF PpsFrom
<1>6. CASE ~q.err
  <2>1. q.got = t.got /\ ~t.err
    BY <1>4, <1>6 DEF Behind
  <2> QED BY <1>3, <1>6, <2>1 DEF PpsFrom
<1> QED BY <1>5, <1>6

LEMMA IdCut ==
  ASSUME NEW a, NEW b, CutFrom(a, b), NEW type
  PROVE  h264_param_set_id(a, type) = -1 \/ h264_param_set_id(a, type) = h264_param_set_id(b, type)
<1> DEFINE n == IF type \in {7, 15} THEN 24 ELSE 0
           es == <<U("unused", n), UE("id")>>
           q == Elements(Payload(a, "id"), es)
           t == Elements(Payload(b, "id"), es)
<1>1. es \in Seq(Kinds)
  <2>1. n \in Int
    OBVIOUS
  <2> HIDE DEF n
  <2>2. U("unused", n) \in Kinds /\ UE("id") \in Kinds
    BY <2>1, InKinds DEF Names
  <2> QED BY <2>2
<1>2. Behind(Payload(a, "id"), Payload(b, "id"))
  BY PayloadBehind DEF CutFrom
<1>3. /\ h264_param_set_id(a, type) = IF q.err \/ q.got.id > 255 THEN -1 ELSE q.got.id
      /\ h264_param_set_id(b, type) = IF t.err \/ t.got.id > 255 THEN -1 ELSE t.got.id
  BY DEF h264_param_set_id
<1> HIDE DEF n, es
<1>4. Behind(q, t)
  BY <1>1, <1>2, ElementsBehind
<1> HIDE DEF q, t
<1>5. CASE q.err
  BY <1>3, <1>5
<1>6. CASE ~q.err
  <2>1. q.got = t.got /\ ~t.err
    BY <1>4, <1>6 DEF Behind
  <2> QED BY <1>3, <1>6, <2>1
<1> QED BY <1>5, <1>6

LEMMA PicStartCut ==
  ASSUME NEW a, NEW b, CutFrom(a, b), NEW type, nal_is_pic_start(a, type)
  PROVE  nal_is_pic_start(b, type)
<1>0. a \in Seq(Nat) /\ b \in Seq(Nat) /\ Begins(a, b)
  BY DEF CutFrom
<1>1. /\ Len(a) \in Nat /\ Len(b) \in Nat /\ Len(a) <= Len(b)
      /\ \A i \in 1 .. Len(a) : a[i] = b[i]
  BY <1>0 DEF Begins
<1>2. Len(a) > 1 => Len(b) > 1 /\ a[2] = b[2]
  BY <1>1
<1>3. Len(a) > 4 => Len(b) > 4 /\ a[5] = b[5]
  BY <1>1
<1> QED BY <1>2, <1>3 DEF nal_is_pic_start

LEMMA AnchorCut ==
  ASSUME NEW a, NEW b, CutFrom(a, b)
  PROVE  nal20_anchor_flag(a) = -1 \/ nal20_anchor_flag(a) = nal20_anchor_flag(b)
<1> DEFINE d == h264_rbsp(a, 3)
           e == h264_rbsp(b, 3)
<1>1. d \in Seq(Nat) /\ e \in Seq(Nat) /\ Begins(d, e)
  BY RbspBegins DEF CutFrom
<1>2. /\ nal20_anchor_flag(a) = IF Len(d) < 3 THEN -1 ELSE (d[3] \div 4) % 2
      /\ nal20_anchor_flag(b) = IF Len(e) < 3 THEN -1 ELSE (e[3] \div 4) % 2
  BY DEF nal20_anchor_flag
<1> HIDE DEF d, e
<1>3. Len(d) \in Nat /\ Len(e) \in Nat /\ Len(d) <= Len(e) /\ \A i \in 1..Len(d) : d[i] = e[i]
  BY <1>1 DEF Begins
<1>4. ~(Len(d) < 3) => ~(Len(e) < 3) /\ d[3] = e[3]
  BY <1>3
<1> QED BY <1>2, <1>4

\* The first of these sets are among the second, with numbers of bits that are numbers.
SetsWithin(c, w) ==
    /\ \A x \in DOMAIN c.pps : x \in DOMAIN w.pps /\ c.pps[x] = w.pps[x]
    /\ \A x \in DOMAIN c.sps : /\ x \in DOMAIN w.sps /\ c.sps[x] = w.sps[x]
                               /\ c.sps[x].log2_max_frame_num \in Int
                               /\ c.sps[x].log2_max_poc_lsb \in Int

LEMMA PocElementsKinds ==
  ASSUME NEW sps, NEW pps, NEW idr, sps.log2_max_frame_num \in Int, sps.log2_max_poc_lsb \in Int
  PROVE  PocElements(sps, pps, idr) \in Seq(Kinds)
<1> DEFINE n1 == sps.log2_max_frame_num
           n2 == sps.log2_max_poc_lsb
           k1 == U("frame_num", n1)
           k2 == U("field", 1)
           k3 == UE("unused")
           k4 == U("poc_lsb", n2)
           k5 == SE("delta_poc0")
           k6 == SE("unused")
           e1 == <<k1>>
           e2 == IF sps.frame_mbs_only = 0 THEN <<k2>> ELSE <<>>
           e3 == IF idr THEN <<k3>> ELSE <<>>
           e4 == IF sps.poc_type = 0 THEN <<k4>>
                 ELSE IF sps.poc_type = 2 \/ sps.delta_poc_always_zero = 1 THEN <<>>
                 ELSE IF pps.bottom_field_poc_present = 1 THEN <<k5, k6>>
                 ELSE <<k5>>
<1>1. k1 \in Kinds /\ k2 \in Kinds /\ k3 \in Kinds /\ k4 \in Kinds /\ k5 \in Kinds /\ k6 \in Kinds
  <2>1. n1 \in Int /\ n2 \in Int
    OBVIOUS
  <2> HIDE DEF n1, n2
  <2> QED BY <2>1, InKinds DEF Names
<1>2. PocElements(sps, pps, idr) = e1 \o e2 \o e3 \o e4
  BY DEF PocElements
<1> HIDE DEF k1, k2, k3, k4, k5, k6
<1>3. e1 \in Seq(Kinds) /\ e2 \in Seq(Kinds) /\ e3 \in Seq(Kinds)
  BY <1>1
<1>4. e4 \in Seq(Kinds)
  <2>1. <<k4>> \in Seq(Kinds) /\ <<>> \in Seq(Kinds) /\ <<k5, k6>> \in Seq(Kinds) /\ <<k5>> \in Seq(Kinds)
    BY <1>1
  <2> QED BY <2>1, Zenon
<1> HIDE DEF e1, e2, e3, e4
<1> QED BY <1>2, <1>3, <1>4

LEMMA PictureCut ==
  ASSUME NEW a, NEW b, CutFrom(a, b), NEW c, NEW w, SetsWithin(c, w)
  PROVE  PictureIn(c, a) = Refused \/ PictureIn(c, a) = PictureIn(w, b)
<1> DEFINE es == <<UE("first_mb"), UE("slice_type"), UE("pps")>>
           got == [field |-> 0, poc_lsb |-> 0, delta_poc0 |-> 0]
           q == Elements([Payload(a, "picture") EXCEPT !.got = got], es)
           t == Elements([Payload(b, "picture") EXCEPT !.got = got], es)
<1>1. es \in Seq(Kinds)
  <2>1. UE("first_mb") \in Kinds /\ UE("slice_type") \in Kinds /\ UE("pps") \in Kinds
    BY InKinds DEF Names
  <2> QED BY <2>1
<1>2. Behind(Payload(a, "picture"), Payload(b, "picture"))
  BY PayloadBehind DEF CutFrom
<1>3. PictureIn(c, a) = PictureAfter(c, a, q) /\ PictureIn(w, b) = PictureAfter(w, b, t)
  BY DEF PictureIn
<1> HIDE DEF es, got
<1>4. Behind(q, t)
  BY <1>1, <1>2, ElementsBehind, GotBehind
<1>5. a[1] = b[1]
  BY DEF CutFrom, Begins
<1>6. NalType(a) = NalType(b)
  BY <1>5 DEF NalType
<1> HIDE DEF q, t
<1> SUFFICES ASSUME PictureAfter(c, a, q) # Refused
             PROVE  PictureAfter(c, a, q) = PictureAfter(w, b, t)
  BY <1>3
<1> DEFINE pps == c.pps[q.got.pps]
           sps == c.sps[pps.sps_id]
           pe == PocElements(sps, pps, NalType(a) = 5)
           qe == Elements(q, pe)
           te == Elements(t, pe)
<1>7. /\ ~q.err /\ ~(q.got.first_mb # 0) /\ q.got.pps \in DOMAIN c.pps
      /\ pps.sps_id \in DOMAIN c.sps /\ ~(sps.separate_colour_plane = 1)
      /\ PictureAfter(c, a, q) = PictureFrom(a, qe)
  BY DEF PictureAfter
<1>8. q.got = t.got /\ ~t.err
  BY <1>4, <1>7 DEF Behind
<1>9. /\ q.got.pps \in DOMAIN w.pps /\ w.pps[t.got.pps] = pps
      /\ pps.sps_id \in DOMAIN w.sps /\ w.sps[pps.sps_id] = sps
      /\ sps.log2_max_frame_num \in Int /\ sps.log2_max_poc_lsb \in Int
  BY <1>7, <1>8 DEF SetsWithin
<1>10. PictureAfter(w, b, t) = PictureFrom(b, te)
  <2> HIDE DEF sps, pps
  <2> QED BY <1>6, <1>7, <1>8, <1>9 DEF PictureAfter
<1>11. pe \in Seq(Kinds)
  BY <1>9, PocElementsKinds
<1> HIDE DEF sps, pps, pe
<1>12. Behind(qe, te)
  BY <1>4, <1>11, ElementsBehind
<1> HIDE DEF qe, te
<1>13. ~qe.err
  BY <1>7 DEF PictureFrom
<1>14. qe.got = te.got /\ ~te.err
  BY <1>12, <1>13 DEF Behind
<1>15. PictureFrom(a, qe) = PictureFrom(b, te)
  BY <1>5, <1>6, <1>13, <1>14 DEF PictureFrom
<1> QED BY <1>7, <1>10, <1>15

-----------------------------------------------------------------------------
(* Messages *)

LEMMA SeiNumberType ==
  ASSUME NEW d \in Seq(Nat), NEW i \in Nat \ {0}, SeiNumber(d, i) # Refused
  PROVE  /\ SeiNumber(d, i).v \in Nat /\ SeiNumber(d, i).next \in Nat
         /\ SeiNumber(d, i).next > i /\ SeiNumber(d, i).next <= Len(d) + 1
<1> DEFINE last == {j \in i .. Len(d) : d[j] # 255}
<1>1. last # {}
  BY DEF SeiNumber
<1>2. last \in SUBSET Nat /\ Len(d) \in Nat /\ \A j \in last : j >= i /\ j <= Len(d)
  OBVIOUS
<1>3. SeiNumber(d, i) = [v |-> 255 * (Min(last) - i) + d[Min(last)], next |-> Min(last) + 1]
  BY <1>1 DEF SeiNumber
<1>4. \A j \in last : d[j] \in Nat
  OBVIOUS
<1> HIDE DEF last
<1>5. Min(last) \in last
  BY <1>1, <1>2, MinExists
<1> DEFINE m == Min(last)
           v == 255 * (m - i) + d[m]
<1>6. m \in Nat /\ m >= i /\ m <= Len(d) /\ d[m] \in Nat
  BY <1>2, <1>4, <1>5
<1> HIDE DEF m
<1>7. v \in Nat /\ m + 1 \in Nat /\ m + 1 > i /\ m + 1 <= Len(d) + 1
  BY <1>2, <1>6
<1>8. SeiNumber(d, i) = [v |-> v, next |-> m + 1]
  BY <1>3 DEF m
<1> HIDE DEF v
<1> QED BY <1>7, <1>8

\* A number that can be read stays the same with more bytes.
LEMMA SeiNumberCut ==
  ASSUME NEW d \in Seq(Nat), NEW e \in Seq(Nat), Begins(d, e), NEW i \in Nat \ {0},
         SeiNumber(d, i) # Refused
  PROVE  SeiNumber(e, i) = SeiNumber(d, i)
<1> DEFINE last(x) == {j \in i .. Len(x) : x[j] # 255}
           number(x, l) == [v |-> 255 * (Min(l) - i) + x[Min(l)], next |-> Min(l) + 1]
<1>1. last(d) # {}
  BY DEF SeiNumber
<1>2. /\ Len(d) \in Nat /\ Len(e) \in Nat /\ Len(d) <= Len(e) /\ \A j \in 1 .. Len(d) : d[j] = e[j]
      /\ last(d) \in SUBSET Nat /\ last(e) \in SUBSET Nat
  BY DEF Begins
<1>3. last(d) \subseteq last(e) /\ \A j \in last(e) : j <= Len(d) => j \in last(d)
  BY <1>2
<1>4. \A j \in last(d) : j <= Len(d) /\ d[j] = e[j]
  BY <1>2
<1>5. SeiNumber(d, i) = number(d, last(d))
  BY <1>1 DEF SeiNumber
<1>6. SeiNumber(e, i) = number(e, last(e))
  BY <1>1, <1>3 DEF SeiNumber
<1> DEFINE p == last(d)
           q == last(e)
<1> HIDE DEF last
<1>7. p \in SUBSET Nat /\ q \in SUBSET Nat /\ p # {} /\ q # {}
  BY <1>1, <1>2, <1>3
<1> HIDE DEF p, q
<1>8. Min(p) \in p /\ (\A y \in p : Min(p) <= y) /\ Min(q) \in q /\ (\A y \in q : Min(q) <= y)
  BY <1>7, MinExists
<1>9. Min(p) \in Nat /\ Min(q) \in Nat
  BY <1>7, <1>8
<1>10. Min(p) = Min(q)
  <2>1. Min(p) \in q /\ Min(p) <= Len(d)
    BY <1>3, <1>4, <1>8 DEF p, q
  <2>2. Min(q) <= Min(p)
    BY <1>8, <2>1
  <2>3. Min(q) <= Len(d)
    BY <1>2, <1>9, <2>1, <2>2
  <2>4. Min(q) \in p
    BY <1>3, <1>8, <2>3 DEF p, q
  <2> QED BY <1>8, <1>9, <2>2, <2>4
<1>11. d[Min(p)] = e[Min(p)]
  BY <1>4, <1>8 DEF p
<1> QED BY <1>5, <1>6, <1>10, <1>11 DEF p, q

\* What h264_sei_is_recovery_point makes of the message at i, found being what it
\* makes of those behind it.
Found(d, found, i) ==
    LET type == SeiNumber(d, i)
        size == SeiNumber(d, type.next)
        cnt == h264_ue(h264_bits_init(SubSeq(d, size.next, Len(d))), "cnt")
    IN  IF type = Refused THEN FALSE
        ELSE IF size = Refused THEN FALSE
        ELSE IF type.v = 6 THEN cnt.got.cnt = 0 /\ ~cnt.err
        ELSE size.next + size.v <= Len(d) /\ found[size.next + size.v]

\* Only what lies behind i counts.
LEMMA FoundBehind ==
  ASSUME NEW d \in Seq(Nat), NEW i \in Nat \ {0}, NEW f, NEW g,
         \A j \in i + 1 .. Len(d) + 1 : f[j] = g[j]
  PROVE  Found(d, f, i) = Found(d, g, i)
<1> DEFINE type == SeiNumber(d, i)
           size == SeiNumber(d, type.next)
           j == size.next + size.v
           c == LET cnt == h264_ue(h264_bits_init(SubSeq(d, size.next, Len(d))), "cnt")
                IN  cnt.got.cnt = 0 /\ ~cnt.err
<1>1. \A h : Found(d, h, i) = IF type = Refused THEN FALSE
                              ELSE IF size = Refused THEN FALSE
                              ELSE IF type.v = 6 THEN c
                              ELSE j <= Len(d) /\ h[j]
  BY DEF Found
<1>2. CASE type = Refused \/ size = Refused \/ type.v = 6 \/ ~(j <= Len(d))
  <2> HIDE DEF type, size, c, j
  <2> QED BY <1>1, <1>2
<1>3. CASE type # Refused /\ size # Refused /\ j <= Len(d)
  <2>1. type.next \in Nat \ {0} /\ type.next > i
    BY <1>3, SeiNumberType
  <2> HIDE DEF type
  <2>2. size.next \in Nat /\ size.v \in Nat /\ size.next > type.next
    BY <1>3, <2>1, SeiNumberType
  <2> HIDE DEF size
  <2>3. j \in i + 1 .. Len(d) + 1
    BY <1>3, <2>1, <2>2
  <2>4. f[j] = g[j]
    BY <2>3
  <2> HIDE DEF j, c
  <2> QED BY <1>1, <2>4
<1> QED BY <1>2, <1>3

\* The recursion of h264_sei_is_recovery_point, unfolded.
LEMMA FoundSteps ==
  ASSUME NEW nal, NEW d \in Seq(Nat), d = h264_rbsp(nal, Buf["sei"])
  PROVE  \E f : /\ f = [i \in 1 .. Len(d) + 1 |-> Found(d, f, i)]
                /\ h264_sei_is_recovery_point(nal) = f[1]
<1> DEFINE n == Len(d)
           Def(m, f) == f = [i \in n + 1 - m .. n + 1 |-> Found(d, f, i)]
           S == {m \in 0..n : \E f : Def(m, f)}
           found[i \in 1 .. n + 1] == Found(d, found, i)
<1>0. n \in Nat
  OBVIOUS
<1>1. 0 \in S
  <2> DEFINE g == [i \in n + 1 - 0 .. n + 1 |-> Found(d, <<>>, i)]
  <2>1. \A i \in n + 1 - 0 .. n + 1 : g[i] = Found(d, g, i)
    <3> SUFFICES ASSUME NEW i \in n + 1 - 0 .. n + 1 PROVE g[i] = Found(d, g, i)
      OBVIOUS
    <3>1. i \in Nat \ {0} /\ g[i] = Found(d, <<>>, i) /\ i + 1 .. n + 1 = {}
      BY <1>0
    <3> HIDE DEF g
    <3>2. \A j \in i + 1 .. n + 1 : <<>>[j] = g[j]
      BY <3>1
    <3> QED BY <3>1, <3>2, FoundBehind
  <2>2. Def(0, g)
    <3> DEFINE F(i) == Found(d, g, i)
    <3>1. \A i \in n + 1 - 0 .. n + 1 : g[i] = F(i)
      BY <2>1
    <3>2. g = [i \in n + 1 - 0 .. n + 1 |-> g[i]]
      OBVIOUS
    <3> HIDE DEF g, F
    <3>3. g = [i \in n + 1 - 0 .. n + 1 |-> F(i)]
      BY <3>1, <3>2
    <3> QED BY <3>3 DEF F
  <2> HIDE DEF g
  <2>3. \E f : Def(0, f)
    BY <2>2, Zenon
  <2> HIDE DEF Def
  <2> QED BY <1>0, <2>3
<1>2. ASSUME NEW k \in 1..n, k - 1 \in S PROVE k \in S
  <2>1. PICK f : Def(k - 1, f)
    BY <1>2
  <2> DEFINE low == n + 1 - k
             g == [i \in low .. n + 1 |-> IF i = low THEN Found(d, f, i) ELSE f[i]]
  <2>2. low \in Nat \ {0} /\ n + 1 - (k - 1) = low + 1 /\ low \in low .. n + 1
    BY <1>0
  <2>3. \A j \in low + 1 .. n + 1 : f[j] = Found(d, f, j)
    BY <2>1, <2>2
  <2> HIDE DEF low
  <2>4. g[low] = Found(d, f, low) /\ \A j \in low + 1 .. n + 1 : g[j] = f[j]
    BY <1>0, <2>2
  <2> HIDE DEF g
  <2>5. \A i \in low .. n + 1 : g[i] = Found(d, g, i)
    <3> SUFFICES ASSUME NEW i \in low .. n + 1 PROVE g[i] = Found(d, g, i)
      OBVIOUS
    <3>1. i \in Nat \ {0} /\ \A j \in i + 1 .. n + 1 : j \in low + 1 .. n + 1
      BY <1>0, <2>2
    <3>2. Found(d, f, i) = Found(d, g, i)
      BY <2>4, <3>1, FoundBehind
    <3>3. CASE i = low
      BY <2>4, <3>2, <3>3
    <3>4. CASE i # low
      <4>1. i \in low + 1 .. n + 1
        BY <1>0, <2>2, <3>4
      <4> QED BY <2>3, <2>4, <3>2, <4>1
    <3> QED BY <3>3, <3>4
  <2>6. Def(k, g)
    <3> DEFINE F(i) == Found(d, g, i)
    <3>1. \A i \in low .. n + 1 : g[i] = F(i)
      BY <2>5
    <3>2. g = [i \in low .. n + 1 |-> g[i]]
      BY DEF g
    <3> HIDE DEF F
    <3>3. g = [i \in low .. n + 1 |-> F(i)]
      BY <3>1, <3>2
    <3> QED BY <3>3 DEF F, low
  <2>7. \E h : Def(k, h)
    BY <2>6, Zenon
  <2> HIDE DEF Def
  <2> QED BY <2>7
<1>3. n \in S
  <2> HIDE DEF S, n
  <2>1. \A k \in 0..n : k \in S
    BY <1>0, <1>1, <1>2, Reached
  <2> QED BY <1>0, <2>1
<1>4. PICK f : Def(n, f)
  BY <1>3
<1>5. n + 1 - n = 1
  BY <1>0
<1>6. found = [i \in 1 .. n + 1 |-> Found(d, found, i)]
  BY <1>4, <1>5 DEF found
<1>7. h264_sei_is_recovery_point(nal) = found[1]
  BY DEF h264_sei_is_recovery_point, Found
<1> HIDE DEF found
<1> QED BY <1>6, <1>7, Zenon

LEMMA SeiCut ==
  ASSUME NEW a, NEW b, CutFrom(a, b), h264_sei_is_recovery_point(a)
  PROVE  h264_sei_is_recovery_point(b)
<1> DEFINE d == h264_rbsp(a, Buf["sei"])
           e == h264_rbsp(b, Buf["sei"])
<1>1. d \in Seq(Nat) /\ e \in Seq(Nat) /\ Begins(d, e)
  BY RbspBegins DEF CutFrom
<1>2. PICK f : f = [i \in 1 .. Len(d) + 1 |-> Found(d, f, i)] /\ h264_sei_is_recovery_point(a) = f[1]
  BY <1>1, FoundSteps
<1>3. PICK g : g = [i \in 1 .. Len(e) + 1 |-> Found(e, g, i)] /\ h264_sei_is_recovery_point(b) = g[1]
  BY <1>1, FoundSteps
<1> HIDE DEF d, e
<1> DEFINE n == Len(d)
<1>4. n \in Nat /\ Len(e) \in Nat /\ n <= Len(e) /\ \A i \in 1 .. n : d[i] = e[i]
  BY <1>1 DEF Begins
<1>5. \A i \in 1 .. n + 1 : f[i] <=> Found(d, f, i)
  BY <1>2
<1>6. \A i \in 1 .. Len(e) + 1 : g[i] <=> Found(e, g, i)
  BY <1>3
<1> DEFINE S == {k \in 0..n : \A i \in n + 1 - k .. n + 1 : f[i] => g[i]}
<1>7. ASSUME NEW i \in 1 .. n + 1, \A j \in i + 1 .. n + 1 : f[j] => g[j], f[i]
      PROVE  g[i]
  <2> DEFINE type == SeiNumber(d, i)
             size == SeiNumber(d, type.next)
             j == size.next + size.v
             q == h264_bits_init(SubSeq(d, size.next, Len(d)))
             t == h264_bits_init(SubSeq(e, size.next, Len(e)))
             x == h264_ue(q, "cnt")
             y == h264_ue(t, "cnt")
  <2>1. Found(d, f, i)
    BY <1>5, <1>7
  <2>2. /\ type # Refused /\ size # Refused
        /\ type.v = 6 => x.got.cnt = 0 /\ ~x.err
        /\ type.v # 6 => j <= Len(d) /\ f[j]
    BY <2>1 DEF Found
  <2>3. i \in Nat \ {0}
    BY <1>4
  <2>4. SeiNumber(e, i) = type /\ type.next \in Nat \ {0} /\ type.next > i
    BY <1>1, <2>2, <2>3, SeiNumberCut, SeiNumberType
  <2>5. /\ SeiNumber(e, type.next) = size /\ size.next \in Nat /\ size.v \in Nat
        /\ size.next > type.next /\ size.next <= Len(d) + 1
    <3> HIDE DEF type
    <3> QED BY <1>1, <2>2, <2>4, SeiNumberCut, SeiNumberType
  <2>6. Found(e, g, i) = IF type.v = 6 THEN y.got.cnt = 0 /\ ~y.err ELSE j <= Len(e) /\ g[j]
    BY <2>2, <2>4, <2>5 DEF Found
  <2>7. CASE type.v = 6
    <3>1. Behind(q, t)
      <4> HIDE DEF type, size
      <4>1. size.next \in 1 .. Len(d) + 1
        BY <1>4, <2>4, <2>5
      <4> QED BY <1>1, <4>1, RestBehind
    <3>2. Behind(x, y)
      BY <3>1, UeBehind
    <3> HIDE DEF x, y
    <3>3. y.got.cnt = 0 /\ ~y.err
      BY <2>2, <2>7, <3>2 DEF Behind
    <3>4. Found(e, g, i)
      BY <2>6, <2>7, <3>3
    <3> QED BY <1>4, <1>6, <3>4
  <2>8. CASE type.v # 6
    <3> HIDE DEF type, size
    <3>1. j \in i + 1 .. n + 1 /\ j <= Len(e)
      BY <1>4, <2>2, <2>3, <2>4, <2>5, <2>8
    <3>2. g[j]
      BY <1>7, <2>2, <2>8, <3>1
    <3> HIDE DEF j
    <3>3. Found(e, g, i)
      BY <2>6, <2>8, <3>1, <3>2
    <3> QED BY <1>4, <1>6, <3>3
  <2> QED BY <2>7, <2>8
<1>8. 0 \in S
  <2>1. ASSUME NEW i \in n + 1 - 0 .. n + 1, f[i] PROVE g[i]
    <3>1. i \in 1 .. n + 1 /\ \A j \in i + 1 .. n + 1 : f[j] => g[j]
      BY <1>4
    <3> QED BY <1>7, <2>1, <3>1
  <2> QED BY <1>4, <2>1
<1>9. ASSUME NEW k \in 1..n, k - 1 \in S PROVE k \in S
  <2>1. \A j \in n + 1 - (k - 1) .. n + 1 : f[j] => g[j]
    BY <1>9
  <2>2. ASSUME NEW i \in n + 1 - k .. n + 1, f[i] PROVE g[i]
    <3>1. i \in 1 .. n + 1 /\ \A j \in i + 1 .. n + 1 : j \in n + 1 - (k - 1) .. n + 1
      BY <1>4
    <3> QED BY <1>7, <2>1, <2>2, <3>1
  <2> QED BY <1>4, <2>2
<1>10. n \in S
  <2> HIDE DEF S, n
  <2>1. \A k \in 0..n : k \in S
    BY <1>4, <1>8, <1>9, Reached
  <2> QED BY <1>4, <2>1
<1>11. f[1] => g[1]
  <2>1. 1 \in n + 1 - n .. n + 1
    BY <1>4
  <2> QED BY <1>10, <2>1
<1> QED BY <1>2, <1>3, <1>11

-----------------------------------------------------------------------------
(* The sets in force *)

\* The NALs before the n-th that carry a set of this type.
Carriers(s, type, n) == {i \in 1 .. n - 1 : s[i].type = type /\ s[i].told.set # Refused}
Carrying(s, type, n, id) == {i \in Carriers(s, type, n) : s[i].told.set.id = id}

\* By id, the sets that were written last.
LastSets(s, type, n) ==
    [id \in {s[i].told.set.id : i \in Carriers(s, type, n)} |->
        s[Max(Carrying(s, type, n, id))].told.set]

\* What a parser that has lost nothing knows at the n-th NAL.
Context(s, n) == [sps |-> LastSets(s, 7, n), pps |-> LastSets(s, 8, n)]

LEMMA LastCarrier ==
  ASSUME NEW s, NEW type, NEW n \in Nat \ {0}, NEW id \in DOMAIN LastSets(s, type, n)
  PROVE  LET m == Max(Carrying(s, type, n, id))
         IN  /\ m \in Carrying(s, type, n, id)
             /\ \A i \in Carrying(s, type, n, id) : m >= i
             /\ LastSets(s, type, n)[id] = s[m].told.set
<1> DEFINE C == Carrying(s, type, n, id)
<1>1. id \in {s[i].told.set.id : i \in Carriers(s, type, n)}
  BY DEF LastSets
<1>2. C # {}
  BY <1>1 DEF Carrying
<1>3. C \in SUBSET (0 .. n)
  BY DEF Carrying, Carriers
<1>4. LastSets(s, type, n)[id] = s[Max(C)].told.set
  BY <1>1 DEF LastSets
<1> HIDE DEF C
<1>5. Max(C) \in C /\ \A i \in C : Max(C) >= i
  BY <1>2, <1>3, MaxExists
<1> QED BY <1>4, <1>5 DEF C

LEMMA NoSets ==
  ASSUME NEW s, NEW type
  PROVE  LastSets(s, type, 1) = <<>>
<1>1. Carriers(s, type, 1) = {}
  BY DEF Carriers
<1> DEFINE f == LastSets(s, type, 1)
<1>2. f = [x \in DOMAIN f |-> f[x]] /\ DOMAIN f = {}
  BY <1>1 DEF LastSets
<1> HIDE DEF f
<1>3. f = [x \in {} |-> f[x]]
  BY <1>2
<1>4. f = <<>>
  BY <1>3
<1> QED BY <1>4 DEF f

\* A NAL that carries no set of the type changes nothing.
LEMMA SameSets ==
  ASSUME NEW s, NEW type, NEW n \in Nat \ {0}, ~(s[n].type = type /\ s[n].told.set # Refused)
  PROVE  LastSets(s, type, n + 1) = LastSets(s, type, n)
<1>1. Carriers(s, type, n + 1) = Carriers(s, type, n)
  BY DEF Carriers
<1> QED BY <1>1 DEF LastSets, Carrying

\* One that does replaces the set of its id.
LEMMA NewSet ==
  ASSUME NEW s, NEW type, NEW n \in Nat \ {0}, s[n].type = type, s[n].told.set # Refused
  PROVE  LastSets(s, type, n + 1) = With(LastSets(s, type, n), s[n].told.set.id, s[n].told.set)
<1> DEFINE set == s[n].told.set
           old == LastSets(s, type, n)
           new == LastSets(s, type, n + 1)
           D == {s[i].told.set.id : i \in Carriers(s, type, n)}
           E == {s[i].told.set.id : i \in Carriers(s, type, n + 1)}
<1>1. Carriers(s, type, n + 1) = Carriers(s, type, n) \cup {n}
  BY DEF Carriers
<1>2. E = D \cup {set.id}
  BY <1>1
<1>3. DOMAIN old = D /\ DOMAIN new = E
  BY DEF LastSets
<1> HIDE DEF D, E
<1>4. new[set.id] = set
  <2>1. set.id \in DOMAIN new
    BY <1>2, <1>3
  <2> DEFINE C == Carrying(s, type, n + 1, set.id)
  <2>2. n \in C /\ \A i \in C : i <= n /\ i \in Nat
    BY <1>1 DEF Carrying, Carriers
  <2>3. Max(C) \in C /\ (\A i \in C : Max(C) >= i) /\ new[set.id] = s[Max(C)].told.set
    BY <2>1, LastCarrier
  <2> HIDE DEF C
  <2>4. Max(C) = n
    BY <2>2, <2>3
  <2> QED BY <2>3, <2>4
<1>5. ASSUME NEW id \in D, id # set.id PROVE new[id] = old[id]
  <2>1. Carrying(s, type, n + 1, id) = Carrying(s, type, n, id)
    BY <1>1, <1>5 DEF Carrying
  <2>2. id \in E
    BY <1>2
  <2>3. new[id] = s[Max(Carrying(s, type, n + 1, id))].told.set
    BY <2>2 DEF LastSets, E
  <2>4. old[id] = s[Max(Carrying(s, type, n, id))].told.set
    BY DEF LastSets, D
  <2> QED BY <2>1, <2>3, <2>4
<1>6. new = [x \in DOMAIN new |-> new[x]]
  BY DEF LastSets
<1> DEFINE with == With(old, set.id, set)
<1>7. DOMAIN with = DOMAIN old \cup {set.id} /\ with = [x \in DOMAIN with |-> with[x]]
  BY DEF With
<1>8. \A x \in DOMAIN with : with[x] = IF x = set.id THEN set ELSE old[x]
  BY DEF With
<1> HIDE DEF set, old, new, with
<1>9. DOMAIN new = DOMAIN with
  BY <1>2, <1>3, <1>7
<1>10. \A x \in DOMAIN with : new[x] = with[x]
  BY <1>2, <1>3, <1>4, <1>5, <1>7, <1>8
<1>11. new = with
  BY <1>6, <1>7, <1>9, <1>10
<1> QED BY <1>11 DEF set, old, new, with

Within(f, g) == \A x \in DOMAIN f : x \in DOMAIN g /\ f[x] = g[x]

\* A parser that has lost some sets and then loses another, or does not.
LEMMA WithinStep ==
  ASSUME NEW s, NEW type, NEW n \in Nat \ {0}, s[n].type = type,
         NEW f, Within(f, LastSets(s, type, n)),
         NEW set, set = Refused \/ set = s[n].told.set,
         set = Refused /\ s[n].told.set # Refused =>
             \A k \in Carriers(s, type, n) : s[k].told.set.id # s[n].told.set.id
  PROVE  Within(IF set = Refused THEN f ELSE With(f, set.id, set), LastSets(s, type, n + 1))
<1> DEFINE tells == s[n].told.set
           old == LastSets(s, type, n)
           new == LastSets(s, type, n + 1)
<1>1. tells = Refused => new = old
  BY SameSets
<1>2. tells # Refused => new = With(old, tells.id, tells)
  BY NewSet
<1>3. CASE set = Refused /\ tells = Refused
  BY <1>1, <1>3
<1>4. CASE set = Refused /\ tells # Refused
  <2>1. tells.id \notin DOMAIN old
    BY <1>4 DEF LastSets
  <2>2. new = With(old, tells.id, tells)
    BY <1>2, <1>4
  <2>3. Within(f, old)
    OBVIOUS
  <2> HIDE DEF tells, old, new
  <2>4. Within(f, new)
    BY <2>1, <2>2, <2>3 DEF Within, With
  <2> QED BY <1>4, <2>4 DEF new
<1>5. CASE set # Refused
  <2>1. set = tells /\ tells # Refused
    BY <1>5
  <2>2. new = With(old, set.id, set)
    BY <1>2, <2>1
  <2>3. Within(f, old)
    OBVIOUS
  <2> HIDE DEF tells, old, new
  <2>4. Within(With(f, set.id, set), new)
    BY <2>2, <2>3 DEF Within, With
  <2> QED BY <1>5, <2>4 DEF new
<1> QED BY <1>3, <1>4, <1>5

-----------------------------------------------------------------------------
(* The pass over the stream *)

\* What a NAL of this type and with these bytes tells a parser with these sets.
Told(c, type, bytes) ==
    CASE type = 7 -> [id |-> h264_param_set_id(bytes, type), set |-> SpsIn(bytes)]
      [] type = 8 -> [id |-> h264_param_set_id(bytes, type), set |-> PpsIn(bytes)]
      [] type \in {13, 15} -> [id |-> h264_param_set_id(bytes, type), set |-> Refused]
      [] type = 6 -> [exact |-> h264_sei_is_recovery_point(bytes)]
      [] type \in {1, 5} -> [first |-> nal_is_pic_start(bytes, NalType(bytes)), header |-> PictureIn(c, bytes)]
      [] type = 20 -> [first |-> nal_is_pic_start(bytes, 20), anchor |-> nal20_anchor_flag(bytes)]

Types == {1, 5, 6, 7, 8, 13, 15, 20}

LEMMA Nothings ==
    /\ Nothing("set") = Refused /\ Nothing("header") = Refused
    /\ Nothing("id") = -1 /\ Nothing("anchor") = -1
    /\ Nothing("first") = FALSE /\ Nothing("exact") = FALSE
BY DEF Nothing

LEMMA TruthValues ==
  ASSUME NEW a, NEW b, CutFrom(a, b), NEW type
  PROVE  /\ nal_is_pic_start(a, type) = nal_is_pic_start(b, type) \/ nal_is_pic_start(a, type) = FALSE
         /\ \/ h264_sei_is_recovery_point(a) = h264_sei_is_recovery_point(b)
            \/ h264_sei_is_recovery_point(a) = FALSE
<1>1. nal_is_pic_start(a, type) \in BOOLEAN /\ nal_is_pic_start(b, type) \in BOOLEAN
  BY DEF nal_is_pic_start
<1>2. ASSUME NEW x, NEW y, CutFrom(x, y) \/ CutFrom(y, x) PROVE h264_sei_is_recovery_point(x) \in BOOLEAN
  <2> DEFINE d == h264_rbsp(x, Buf["sei"])
  <2>1. d \in Seq(Nat)
    BY <1>2, RbspBegins DEF CutFrom
  <2>2. PICK f : f = [i \in 1 .. Len(d) + 1 |-> Found(d, f, i)] /\ h264_sei_is_recovery_point(x) = f[1]
    BY <2>1, FoundSteps
  <2> HIDE DEF d
  <2>3. f[1] = Found(d, f, 1)
    BY <2>1, <2>2
  <2>4. Found(d, f, 1) \in BOOLEAN
    BY DEF Found
  <2> QED BY <2>2, <2>3, <2>4
<1>3. h264_sei_is_recovery_point(a) \in BOOLEAN /\ h264_sei_is_recovery_point(b) \in BOOLEAN
  BY <1>2
<1>4. nal_is_pic_start(a, type) => nal_is_pic_start(b, type)
  BY PicStartCut
<1>5. h264_sei_is_recovery_point(a) => h264_sei_is_recovery_point(b)
  BY SeiCut
<1> QED BY <1>1, <1>3, <1>4, <1>5

\* For any bytes and any sets: what is left of a NAL tells what the whole of it
\* tells, or nothing, field by field; and so if sets were lost before it.
THEOREM CutTells ==
  ASSUME NEW a, NEW b, CutFrom(a, b), NEW c, NEW w, SetsWithin(c, w), NEW type \in Types
  PROVE  \A f \in DOMAIN Told(c, type, a) :
             Told(c, type, a)[f] = Told(w, type, b)[f] \/ Told(c, type, a)[f] = Nothing(f)
<1> DEFINE t == Told(c, type, a)
           v == Told(w, type, b)
<1>1. CASE type = 7
  <2> DEFINE x == h264_param_set_id(a, type)
             y == SpsIn(a)
             p == h264_param_set_id(b, type)
             q == SpsIn(b)
  <2>1. t = [id |-> x, set |-> y] /\ v = [id |-> p, set |-> q]
    BY <1>1 DEF Told
  <2>2. (x = p \/ x = -1) /\ (y = q \/ y = Refused)
    BY IdCut, SpsCut
  <2> HIDE DEF x, y, p, q
  <2> HIDE DEF t, v
  <2>8. DOMAIN t = {"id", "set"}
    BY <2>1
  <2>9. /\ t.id = x /\ t.set = y
        /\ v.id = p /\ v.set = q
    BY <2>1
  <2> QED BY <2>2, <2>8, <2>9, Nothings DEF t, v
<1>2. CASE type = 8
  <2> DEFINE x == h264_param_set_id(a, type)
             y == PpsIn(a)
             p == h264_param_set_id(b, type)
             q == PpsIn(b)
  <2>1. t = [id |-> x, set |-> y] /\ v = [id |-> p, set |-> q]
    BY <1>2 DEF Told
  <2>2. (x = p \/ x = -1) /\ (y = q \/ y = Refused)
    BY IdCut, PpsCut
  <2> HIDE DEF x, y, p, q
  <2> HIDE DEF t, v
  <2>8. DOMAIN t = {"id", "set"}
    BY <2>1
  <2>9. /\ t.id = x /\ t.set = y
        /\ v.id = p /\ v.set = q
    BY <2>1
  <2> QED BY <2>2, <2>8, <2>9, Nothings DEF t, v
<1>3. CASE type \in {13, 15}
  <2> DEFINE x == h264_param_set_id(a, type)
             p == h264_param_set_id(b, type)
  <2>1. t = [id |-> x, set |-> Refused] /\ v = [id |-> p, set |-> Refused]
    BY <1>3 DEF Told
  <2>2. x = p \/ x = -1
    BY IdCut
  <2> HIDE DEF x, p
  <2> HIDE DEF t, v
  <2>8. DOMAIN t = {"id", "set"}
    BY <2>1
  <2>9. /\ t.id = x /\ t.set = Refused
        /\ v.id = p /\ v.set = Refused
    BY <2>1
  <2> QED BY <2>2, <2>8, <2>9, Nothings DEF t, v
<1>4. CASE type = 6
  <2> DEFINE x == h264_sei_is_recovery_point(a)
             p == h264_sei_is_recovery_point(b)
  <2>1. t = [exact |-> x] /\ v = [exact |-> p]
    BY <1>4 DEF Told
  <2>2. x = p \/ x = FALSE
    BY TruthValues
  <2> HIDE DEF x, p
  <2> HIDE DEF t, v
  <2>8. DOMAIN t = {"exact"}
    BY <2>1
  <2>9. /\ t.exact = x
        /\ v.exact = p
    BY <2>1
  <2> QED BY <2>2, <2>8, <2>9, Nothings DEF t, v
<1>5. CASE type \in {1, 5}
  <2> DEFINE x == nal_is_pic_start(a, NalType(a))
             y == PictureIn(c, a)
             p == nal_is_pic_start(b, NalType(b))
             q == PictureIn(w, b)
  <2>1. t = [first |-> x, header |-> y] /\ v = [first |-> p, header |-> q]
    BY <1>5 DEF Told
  <2>2. NalType(a) = NalType(b)
    BY DEF CutFrom, Begins, NalType
  <2>3. (x = p \/ x = FALSE) /\ (y = q \/ y = Refused)
    <3>1. nal_is_pic_start(a, NalType(a)) = nal_is_pic_start(b, NalType(a)) \/ nal_is_pic_start(a, NalType(a)) = FALSE
      BY TruthValues
    <3>2. x = p \/ x = FALSE
      BY <2>2, <3>1
    <3>3. y = q \/ y = Refused
      BY PictureCut
    <3> HIDE DEF x, y, p, q
    <3> QED BY <3>2, <3>3
  <2> HIDE DEF x, y, p, q
  <2> HIDE DEF t, v
  <2>8. DOMAIN t = {"first", "header"}
    BY <2>1
  <2>9. /\ t.first = x /\ t.header = y
        /\ v.first = p /\ v.header = q
    BY <2>1
  <2> QED BY <2>3, <2>8, <2>9, Nothings DEF t, v
<1>6. CASE type = 20
  <2> DEFINE x == nal_is_pic_start(a, 20)
             y == nal20_anchor_flag(a)
             p == nal_is_pic_start(b, 20)
             q == nal20_anchor_flag(b)
  <2>1. t = [first |-> x, anchor |-> y] /\ v = [first |-> p, anchor |-> q]
    BY <1>6 DEF Told
  <2>2. (x = p \/ x = FALSE) /\ (y = q \/ y = -1)
    BY TruthValues, AnchorCut
  <2> HIDE DEF x, y, p, q
  <2> HIDE DEF t, v
  <2>8. DOMAIN t = {"first", "anchor"}
    BY <2>1
  <2>9. /\ t.first = x /\ t.anchor = y
        /\ v.first = p /\ v.anchor = q
    BY <2>1
  <2> QED BY <2>2, <2>8, <2>9, Nothings DEF t, v
<1> QED BY <1>1, <1>2, <1>3, <1>4, <1>5, <1>6 DEF Types

\* What a parser with the sets c has once it has read such a NAL.
After(c, type, bytes) ==
    LET add(f, set) == IF set = Refused THEN f ELSE With(f, set.id, set)
    IN  [sps |-> IF type = 7 THEN add(c.sps, SpsIn(bytes)) ELSE c.sps,
         pps |-> IF type = 8 THEN add(c.pps, PpsIn(bytes)) ELSE c.pps]

TwoKinds(c) == c = [sps |-> c.sps, pps |-> c.pps]

LEMMA LearnStep ==
  ASSUME NEW c, TwoKinds(c), NEW bytes
  PROVE  /\ After(c, 7, bytes) = IF SpsIn(bytes) = Refused THEN c
                                 ELSE [c EXCEPT !["sps"] = With(@, SpsIn(bytes).id, SpsIn(bytes))]
         /\ After(c, 8, bytes) = IF PpsIn(bytes) = Refused THEN c
                                 ELSE [c EXCEPT !["pps"] = With(@, PpsIn(bytes).id, PpsIn(bytes))]
         /\ \A type : type \notin {7, 8} => After(c, type, bytes) = c
<1>1. ASSUME NEW x, NEW y, c = [sps |-> x, pps |-> y], NEW v
      PROVE  /\ [c EXCEPT !["sps"] = v] = [sps |-> v, pps |-> y]
             /\ [c EXCEPT !["pps"] = v] = [sps |-> x, pps |-> v]
  <2>1. [c EXCEPT !["sps"] = v] = [sps |-> v, pps |-> y]
    BY <1>1
  <2>2. [c EXCEPT !["pps"] = v] = [sps |-> x, pps |-> v]
    BY <1>1
  <2> QED BY <2>1, <2>2
<1>2. c = [sps |-> c.sps, pps |-> c.pps]
  BY DEF TwoKinds
<1> DEFINE set7 == SpsIn(bytes)
           set8 == PpsIn(bytes)
           new7 == With(c.sps, set7.id, set7)
           new8 == With(c.pps, set8.id, set8)
<1>3. /\ After(c, 7, bytes) = [sps |-> IF set7 = Refused THEN c.sps ELSE new7, pps |-> c.pps]
      /\ After(c, 8, bytes) = [sps |-> c.sps, pps |-> IF set8 = Refused THEN c.pps ELSE new8]
      /\ \A type : type \notin {7, 8} => After(c, type, bytes) = [sps |-> c.sps, pps |-> c.pps]
  BY DEF After
<1>4. /\ [c EXCEPT !["sps"] = new7] = [sps |-> new7, pps |-> c.pps]
      /\ [c EXCEPT !["pps"] = new8] = [sps |-> c.sps, pps |-> new8]
  <2> HIDE DEF new7, new8
  <2> QED BY <1>1, <1>2
<1>5. /\ [c EXCEPT !["sps"] = With(@, set7.id, set7)] = [c EXCEPT !["sps"] = new7]
      /\ [c EXCEPT !["pps"] = With(@, set8.id, set8)] = [c EXCEPT !["pps"] = new8]
  BY Zenon
<1> HIDE DEF new7, new8, set7, set8
<1>6. After(c, 7, bytes) = IF set7 = Refused THEN c ELSE [c EXCEPT !["sps"] = With(@, set7.id, set7)]
  BY <1>2, <1>3, <1>4, <1>5, Zenon
<1>7. After(c, 8, bytes) = IF set8 = Refused THEN c ELSE [c EXCEPT !["pps"] = With(@, set8.id, set8)]
  BY <1>2, <1>3, <1>4, <1>5, Zenon
<1>8. \A type : type \notin {7, 8} => After(c, type, bytes) = c
  BY <1>2, <1>3
<1> QED BY <1>6, <1>7, <1>8 DEF set7, set8

\* A step reads the NAL at pos, or changes nothing.
LEMMA ReadStep ==
  ASSUME [Next]_vars, TwoKinds(ctx)
  PROVE  \/ UNCHANGED vars
         \/ /\ pos <= Len(stream) /\ stream' = stream /\ pos' = pos + 1
            /\ stream[pos].type \in Types
            /\ told' = Told(ctx, stream[pos].type, stream[pos].bytes)
            /\ ctx' = After(ctx, stream[pos].type, stream[pos].bytes)
<1> DEFINE type == stream[pos].type
           bytes == stream[pos].bytes
<1>1. CASE ReadSps
  <2>1. type = 7 /\ pos <= Len(stream) /\ stream' = stream /\ pos' = pos + 1
    BY <1>1 DEF ReadSps, Reading
  <2>2. /\ told' = [id |-> h264_param_set_id(bytes, 7), set |-> SpsIn(bytes)]
        /\ ctx' = IF SpsIn(bytes) = Refused THEN ctx
                  ELSE [ctx EXCEPT !["sps"] = With(@, SpsIn(bytes).id, SpsIn(bytes))]
    BY <1>1 DEF ReadSps, Learn, Nal
  <2>3. ctx' = After(ctx, 7, bytes)
    BY <2>2, LearnStep
  <2> QED BY <2>1, <2>2, <2>3 DEF Told, Types
<1>2. CASE ReadPps
  <2>1. type = 8 /\ pos <= Len(stream) /\ stream' = stream /\ pos' = pos + 1
    BY <1>2 DEF ReadPps, Reading
  <2>2. /\ told' = [id |-> h264_param_set_id(bytes, 8), set |-> PpsIn(bytes)]
        /\ ctx' = IF PpsIn(bytes) = Refused THEN ctx
                  ELSE [ctx EXCEPT !["pps"] = With(@, PpsIn(bytes).id, PpsIn(bytes))]
    BY <1>2 DEF ReadPps, Learn, Nal
  <2>3. ctx' = After(ctx, 8, bytes)
    BY <2>2, LearnStep
  <2> QED BY <2>1, <2>2, <2>3 DEF Told, Types
<1>3. CASE ReadOtherSet
  <2>1. type \in {13, 15} /\ pos <= Len(stream) /\ stream' = stream /\ pos' = pos + 1
    BY <1>3 DEF ReadOtherSet, Reading
  <2>2. told' = [id |-> h264_param_set_id(bytes, type), set |-> Refused] /\ ctx' = ctx
    BY <1>3 DEF ReadOtherSet, Learn, Nal
  <2>3. After(ctx, type, bytes) = ctx
    <3>1. type \notin {7, 8}
      BY <2>1
    <3> HIDE DEF type, bytes
    <3> QED BY <3>1, LearnStep
  <2> QED BY <2>1, <2>2, <2>3 DEF Told, Types
<1>4. CASE ReadSei
  <2>1. type = 6 /\ pos <= Len(stream) /\ stream' = stream /\ pos' = pos + 1
    BY <1>4 DEF ReadSei, Reading
  <2>2. told' = [exact |-> h264_sei_is_recovery_point(bytes)] /\ ctx' = ctx
    BY <1>4 DEF ReadSei, Nal
  <2>3. After(ctx, type, bytes) = ctx
    <3>1. type \notin {7, 8}
      BY <2>1
    <3> HIDE DEF type, bytes
    <3> QED BY <3>1, LearnStep
  <2> QED BY <2>1, <2>2, <2>3 DEF Told, Types
<1>5. CASE ReadPicture
  <2>1. type \in {1, 5} /\ pos <= Len(stream) /\ stream' = stream /\ pos' = pos + 1
    BY <1>5 DEF ReadPicture, Reading
  <2>2. /\ told' = [first |-> nal_is_pic_start(bytes, NalType(bytes)), header |-> PictureIn(ctx, bytes)]
        /\ ctx' = ctx
    BY <1>5 DEF ReadPicture, Nal
  <2>3. After(ctx, type, bytes) = ctx
    <3>1. type \notin {7, 8}
      BY <2>1
    <3> HIDE DEF type, bytes
    <3> QED BY <3>1, LearnStep
  <2> QED BY <2>1, <2>2, <2>3 DEF Told, Types
<1>6. CASE ReadDependent
  <2>1. type = 20 /\ pos <= Len(stream) /\ stream' = stream /\ pos' = pos + 1
    BY <1>6 DEF ReadDependent, Reading
  <2>2. told' = [first |-> nal_is_pic_start(bytes, 20), anchor |-> nal20_anchor_flag(bytes)] /\ ctx' = ctx
    BY <1>6 DEF ReadDependent, Nal
  <2>3. After(ctx, type, bytes) = ctx
    <3>1. type \notin {7, 8}
      BY <2>1
    <3> HIDE DEF type, bytes
    <3> QED BY <3>1, LearnStep
  <2> QED BY <2>1, <2>2, <2>3 DEF Told, Types
<1>7. CASE Over
  BY <1>7 DEF Over
<1>8. CASE UNCHANGED vars
  BY <1>8
<1> QED BY <1>1, <1>2, <1>3, <1>4, <1>5, <1>6, <1>7, <1>8 DEF Next

Slice(s, i) == s[i].type \in {1, 5}

\* The NALs of s are what is left of the bytes w, which tell what is told of them
\* to a parser that has lost nothing; and before a slice no set gets lost that was
\* to replace one of its id.
Legible(s, w) ==
    /\ Len(s) \in Nat
    /\ \A i \in 1 .. Len(s) : /\ CutFrom(s[i].bytes, w[i])
                              /\ s[i].told = Told(Context(s, i), s[i].type, w[i])
                              /\ s[i].type = 7 /\ s[i].told.set # Refused =>
                                     /\ s[i].told.set.log2_max_frame_num \in Int
                                     /\ s[i].told.set.log2_max_poc_lsb \in Int
    /\ \A j \in 1 .. Len(s) : Slice(s, j) =>
           \A i \in 1 .. j - 1 : s[i].type \in {7, 8} /\ s[i].bytes # w[i] /\ s[i].told.set # Refused =>
               \A k \in Carriers(s, s[i].type, i) : s[k].told.set.id # s[i].told.set.id

SliceAhead == \E j \in pos .. Len(stream) : Slice(stream, j)

\* As written, or nothing: field by field, of the last NAL.
TellsNoMore ==
    pos > 1 => \A f \in DOMAIN told : told[f] = Written[f] \/ told[f] = Nothing(f)

\* Between the NALs, as long as a slice is to come: the parser's sets are some of
\* those in force.
CutInv ==
    /\ stream \in Streams /\ pos \in 1 .. Len(stream) + 1 /\ TwoKinds(ctx)
    /\ SliceAhead => SetsWithin(ctx, Context(stream, pos))
    /\ TellsNoMore

\* The sets a parser may have kept stay among those in force.
LEMMA SetsWithinStep ==
  ASSUME NEW s, NEW w, Legible(s, w), NEW n \in 1 .. Len(s), NEW c, TwoKinds(c),
         SetsWithin(c, Context(s, n)), NEW j \in n + 1 .. Len(s), Slice(s, j)
  PROVE  SetsWithin(After(c, s[n].type, s[n].bytes), Context(s, n + 1))
<1> DEFINE type == s[n].type
           a == s[n].bytes
           b == w[n]
           cs == After(c, type, a)
<1>1. n \in Nat \ {0} /\ CutFrom(a, b) /\ Len(s) \in Nat
  BY DEF Legible
<1>2. /\ type = 7 => s[n].told.set = SpsIn(b)
      /\ type = 8 => s[n].told.set = PpsIn(b)
  <2>1. s[n].told = Told(Context(s, n), type, b)
    BY DEF Legible
  <2> HIDE DEF type, b
  <2>2. type = 7 => Told(Context(s, n), type, b) = [id |-> h264_param_set_id(b, 7), set |-> SpsIn(b)]
    BY DEF Told
  <2>3. type = 8 => Told(Context(s, n), type, b) = [id |-> h264_param_set_id(b, 8), set |-> PpsIn(b)]
    BY DEF Told
  <2> QED BY <2>1, <2>2, <2>3
<1>3. a # b /\ type \in {7, 8} /\ s[n].told.set # Refused =>
          \A k \in Carriers(s, type, n) : s[k].told.set.id # s[n].told.set.id
  <2>1. j \in 1 .. Len(s) /\ n \in 1 .. j - 1
    BY <1>1
  <2> QED BY <2>1 DEF Legible
<1>4. /\ Within(c.sps, LastSets(s, 7, n)) /\ Within(c.pps, LastSets(s, 8, n))
      /\ \A x \in DOMAIN c.sps : c.sps[x].log2_max_frame_num \in Int /\ c.sps[x].log2_max_poc_lsb \in Int
  BY DEF SetsWithin, Context, Within
<1>5. Within(cs.sps, LastSets(s, 7, n + 1)) /\ Within(cs.pps, LastSets(s, 8, n + 1))
  <2>1. CASE type = 7
    <3> DEFINE set == SpsIn(a)
    <3>1. set = Refused \/ set = s[n].told.set
      BY <1>1, <1>2, <2>1, SpsCut
    <3>2. set = Refused /\ s[n].told.set # Refused => a # b
      BY <1>2, <2>1
    <3>3. cs.sps = (IF set = Refused THEN c.sps ELSE With(c.sps, set.id, set)) /\ cs.pps = c.pps
      BY <2>1 DEF After
    <3> HIDE DEF set, cs
    <3>4. Within(cs.sps, LastSets(s, 7, n + 1))
      BY <1>1, <1>3, <1>4, <2>1, <3>1, <3>2, <3>3, WithinStep
    <3>5. LastSets(s, 8, n + 1) = LastSets(s, 8, n)
      BY <1>1, <2>1, SameSets
    <3> QED BY <1>4, <3>3, <3>4, <3>5
  <2>2. CASE type = 8
    <3> DEFINE set == PpsIn(a)
    <3>1. set = Refused \/ set = s[n].told.set
      BY <1>1, <1>2, <2>2, PpsCut
    <3>2. set = Refused /\ s[n].told.set # Refused => a # b
      BY <1>2, <2>2
    <3>3. cs.pps = (IF set = Refused THEN c.pps ELSE With(c.pps, set.id, set)) /\ cs.sps = c.sps
      BY <2>2 DEF After
    <3> HIDE DEF set, cs
    <3>4. Within(cs.pps, LastSets(s, 8, n + 1))
      BY <1>1, <1>3, <1>4, <2>2, <3>1, <3>2, <3>3, WithinStep
    <3>5. LastSets(s, 7, n + 1) = LastSets(s, 7, n)
      BY <1>1, <2>2, SameSets
    <3> QED BY <1>4, <3>3, <3>4, <3>5
  <2>3. CASE type \notin {7, 8}
    <3>1. cs.sps = c.sps /\ cs.pps = c.pps
      BY <2>3 DEF After
    <3>2. LastSets(s, 7, n + 1) = LastSets(s, 7, n) /\ LastSets(s, 8, n + 1) = LastSets(s, 8, n)
      BY <1>1, <2>3, SameSets
    <3> HIDE DEF cs
    <3> QED BY <1>4, <3>1, <3>2
  <2> QED BY <2>1, <2>2, <2>3
<1>6. \A x \in DOMAIN cs.sps : cs.sps[x].log2_max_frame_num \in Int /\ cs.sps[x].log2_max_poc_lsb \in Int
  <2>1. CASE type = 7 /\ SpsIn(a) # Refused
    <3> DEFINE set == SpsIn(a)
    <3>1. set = s[n].told.set
      BY <1>1, <1>2, <2>1, SpsCut
    <3>2. set.log2_max_frame_num \in Int /\ set.log2_max_poc_lsb \in Int
      BY <2>1, <3>1 DEF Legible
    <3>3. cs.sps = With(c.sps, set.id, set)
      BY <2>1 DEF After
    <3> HIDE DEF set, cs
    <3> QED BY <1>4, <3>2, <3>3 DEF With
  <2>2. CASE ~(type = 7 /\ SpsIn(a) # Refused)
    <3>1. cs.sps = c.sps
      BY <2>2 DEF After
    <3> QED BY <1>4, <3>1
  <2> QED BY <2>1, <2>2
<1> HIDE DEF cs
<1>7. SetsWithin(cs, Context(s, n + 1))
  BY <1>5, <1>6 DEF SetsWithin, Context, Within
<1> QED BY <1>7 DEF cs

\* CutRefused holds of every stream whose bytes, were they all there, would tell
\* what is told of them.
THEOREM CutHeadersRefused ==
  ASSUME \A s \in Streams : \E w : Legible(s, w)
  PROVE  Spec => []CutRefused
<1>1. Init => CutInv
  <2> SUFFICES ASSUME Init PROVE CutInv
    OBVIOUS
  <2>1. stream \in Streams /\ pos = 1 /\ ctx = [sps |-> <<>>, pps |-> <<>>]
    BY DEF Init
  <2>2. Len(stream) \in Nat
    BY <2>1 DEF Legible
  <2>3. ctx.sps = <<>> /\ ctx.pps = <<>> /\ TwoKinds(ctx)
    BY <2>1 DEF TwoKinds
  <2>4. SetsWithin(ctx, Context(stream, pos))
    BY <2>3 DEF SetsWithin
  <2> QED BY <2>1, <2>2, <2>3, <2>4 DEF CutInv, TellsNoMore
<1>2. CutInv /\ [Next]_vars => CutInv'
  <2> SUFFICES ASSUME CutInv, [Next]_vars PROVE CutInv'
    OBVIOUS
  <2> DEFINE type == stream[pos].type
             bytes == stream[pos].bytes
  <2>1. /\ stream \in Streams /\ pos \in 1 .. Len(stream) + 1 /\ TwoKinds(ctx)
        /\ SliceAhead => SetsWithin(ctx, Context(stream, pos))
    BY DEF CutInv
  <2>2. PICK w : Legible(stream, w)
    BY <2>1
  <2>3. Len(stream) \in Nat /\ pos \in Nat \ {0}
    BY <2>1, <2>2 DEF Legible
  <2>4. CASE UNCHANGED vars
    BY <2>4 DEF CutInv, SliceAhead, TellsNoMore, Written, vars
  <2>5. CASE /\ pos <= Len(stream) /\ stream' = stream /\ pos' = pos + 1 /\ type \in Types
             /\ told' = Told(ctx, type, bytes) /\ ctx' = After(ctx, type, bytes)
    <3>1. pos' \in 1 .. Len(stream') + 1 /\ pos \in 1 .. Len(stream)
      BY <2>3, <2>5
    <3>2. TwoKinds(ctx')
      BY <2>5 DEF TwoKinds, After
    <3>3. ASSUME SliceAhead' PROVE SetsWithin(ctx', Context(stream', pos'))
      <4>1. PICK j \in pos + 1 .. Len(stream) : Slice(stream, j)
        BY <2>5, <3>3 DEF SliceAhead
      <4>2. SliceAhead
        BY <2>3, <4>1 DEF SliceAhead
      <4>3. SetsWithin(After(ctx, type, bytes), Context(stream, pos + 1))
        BY <2>1, <2>2, <3>1, <4>1, <4>2, SetsWithinStep
      <4> QED BY <2>5, <4>3
    <3>4. CutFrom(bytes, w[pos]) /\ stream[pos].told = Told(Context(stream, pos), type, w[pos])
      BY <2>2, <3>1 DEF Legible
    <3>5. Written' = stream[pos].told
      BY <2>3, <2>5 DEF Written
    <3>6. \A f \in DOMAIN told' : told'[f] = Written'[f] \/ told'[f] = Nothing(f)
      <4>1. CASE Slice(stream, pos)
        <5>1. SetsWithin(ctx, Context(stream, pos))
          BY <2>1, <2>3, <3>1, <4>1 DEF SliceAhead
        <5> HIDE DEF type, bytes
        <5> QED BY <2>5, <3>4, <3>5, <5>1, CutTells
      <4>2. CASE ~Slice(stream, pos)
        <5>1. type \notin {1, 5}
          BY <4>2 DEF Slice
        <5>2. Told(ctx, type, bytes) = Told(Context(stream, pos), type, bytes)
          BY <2>5, <5>1 DEF Told, Types
        <5>3. Told(Context(stream, pos), type, w[pos]) = Told(ctx, type, w[pos])
          BY <2>5, <5>1 DEF Told, Types
        <5> DEFINE none == [sps |-> <<>>, pps |-> <<>>]
        <5>4. /\ Told(ctx, type, bytes) = Told(none, type, bytes)
              /\ Told(ctx, type, w[pos]) = Told(none, type, w[pos])
          BY <2>5, <5>1 DEF Told, Types
        <5>5. SetsWithin(none, none)
          BY DEF SetsWithin
        <5> HIDE DEF type, bytes, none
        <5> QED BY <2>5, <3>4, <3>5, <5>3, <5>4, <5>5, CutTells
      <4> QED BY <4>1, <4>2
    <3>7. TellsNoMore'
      BY <3>6 DEF TellsNoMore
    <3> QED BY <2>1, <2>5, <3>1, <3>2, <3>3, <3>7 DEF CutInv
  <2> QED BY <2>1, <2>4, <2>5, ReadStep
<1>3. CutInv => CutRefused
  BY DEF CutInv, CutRefused, TellsNoMore
<1> QED BY <1>1, <1>2, <1>3, PTL DEF Spec

-----------------------------------------------------------------------------
(* A pass that loses nothing *)

\* The sets of s that have all their bytes are read as they were written, and their
\* ids are the ones they are known by.
SetsReadBack(s) ==
    /\ Len(s) \in Nat
    /\ \A i \in 1 .. Len(s) :
           /\ s[i].whole /\ s[i].type = 7 => s[i].told.set = SpsIn(s[i].bytes)
           /\ s[i].whole /\ s[i].type = 8 => s[i].told.set = PpsIn(s[i].bytes)
           /\ s[i].type \in {7, 8} /\ s[i].told.set # Refused => s[i].told.id = s[i].told.set.id

\* The i-th NAL carries a set that none before the n-th replaces.
InForceAt(s, type, n, i) ==
    /\ s[i].type = type /\ s[i].told.set # Refused
    /\ \A j \in i + 1 .. n - 1 :
           s[j].type = type /\ s[j].told.set # Refused => s[j].told.id # s[i].told.id

LEMMA LastInForce ==
  ASSUME NEW s, SetsReadBack(s), NEW type \in {7, 8}, NEW n \in 1 .. Len(s) + 1
  PROVE  Range(LastSets(s, type, n)) = {s[i].told.set : i \in {j \in 1 .. n - 1 : InForceAt(s, type, n, j)}}
<1> DEFINE f == LastSets(s, type, n)
           InForce == {j \in 1 .. n - 1 : InForceAt(s, type, n, j)}
<1>1. Len(s) \in Nat /\ n \in Nat \ {0}
  BY DEF SetsReadBack
<1>2. \A i \in Carriers(s, type, n) : i \in 1 .. n - 1 /\ s[i].told.id = s[i].told.set.id
  BY <1>1 DEF Carriers, SetsReadBack
<1>3. ASSUME NEW id \in DOMAIN f PROVE \E i \in InForce : f[id] = s[i].told.set
  <2> DEFINE m == Max(Carrying(s, type, n, id))
  <2>1. /\ m \in Carrying(s, type, n, id) /\ f[id] = s[m].told.set
        /\ \A i \in Carrying(s, type, n, id) : m >= i
    BY <1>1, LastCarrier
  <2> HIDE DEF m, f
  <2>2. m \in Carriers(s, type, n) /\ s[m].told.set.id = id
    BY <2>1 DEF Carrying
  <2>3. ASSUME NEW j \in m + 1 .. n - 1, s[j].type = type, s[j].told.set # Refused
        PROVE  s[j].told.id # s[m].told.id
    <3>1. m \in Nat /\ j \in Carriers(s, type, n) /\ ~(m >= j)
      BY <1>1, <1>2, <2>2, <2>3 DEF Carriers
    <3>2. j \notin Carrying(s, type, n, id)
      BY <2>1, <3>1
    <3>3. s[j].told.set.id # id
      BY <3>1, <3>2 DEF Carrying
    <3> QED BY <1>2, <2>2, <3>1, <3>3
  <2>4. m \in InForce
    BY <1>2, <2>2, <2>3 DEF InForceAt, Carriers
  <2> QED BY <2>1, <2>4
<1>4. ASSUME NEW i \in InForce PROVE s[i].told.set \in Range(f)
  <2> DEFINE id == s[i].told.set.id
             m == Max(Carrying(s, type, n, id))
  <2>1. i \in Carriers(s, type, n) /\ i \in Nat
    BY <1>1 DEF InForceAt, Carriers
  <2>2. id \in DOMAIN f
    BY <2>1 DEF LastSets
  <2>3. i \in Carrying(s, type, n, id)
    BY <2>1 DEF Carrying
  <2>4. /\ m \in Carrying(s, type, n, id) /\ f[id] = s[m].told.set /\ m >= i
    BY <1>1, <2>2, <2>3, LastCarrier
  <2> HIDE DEF m, f
  <2>5. m \in Carriers(s, type, n) /\ s[m].told.set.id = id /\ m \in 1 .. n - 1
    BY <1>2, <2>4 DEF Carrying
  <2>6. s[m].told.id = s[i].told.id
    BY <1>2, <2>1, <2>5
  <2>7. m = i
    <3> SUFFICES ASSUME m # i PROVE FALSE
      OBVIOUS
    <3>1. m \in i + 1 .. n - 1 /\ s[m].type = type /\ s[m].told.set # Refused
      BY <1>1, <2>1, <2>4, <2>5 DEF Carriers
    <3> QED BY <2>6, <3>1 DEF InForceAt
  <2> QED BY <2>2, <2>4, <2>7 DEF Range
<1> HIDE DEF f, InForce
<1>5. Range(f) = {s[i].told.set : i \in InForce}
  BY <1>3, <1>4 DEF Range
<1> QED BY <1>5 DEF f, InForce

ForceInv ==
    /\ stream \in Streams /\ pos \in 1 .. Len(stream) + 1 /\ TwoKinds(ctx)
    /\ Intact => ctx.sps = LastSets(stream, 7, pos) /\ ctx.pps = LastSets(stream, 8, pos)

\* SetsInForce holds of every stream whose sets are read as they were written:
\* however often they are sent again, changed or refused in between.
THEOREM SetsStayInForce ==
  ASSUME \A s \in Streams : SetsReadBack(s)
  PROVE  Spec => []SetsInForce
<1>1. Init => ForceInv
  <2> SUFFICES ASSUME Init PROVE ForceInv
    OBVIOUS
  <2>1. stream \in Streams /\ pos = 1 /\ ctx = [sps |-> <<>>, pps |-> <<>>]
    BY DEF Init
  <2>2. Len(stream) \in Nat
    BY <2>1 DEF SetsReadBack
  <2>3. ctx.sps = <<>> /\ ctx.pps = <<>> /\ TwoKinds(ctx)
    BY <2>1 DEF TwoKinds
  <2>4. ctx.sps = LastSets(stream, 7, pos) /\ ctx.pps = LastSets(stream, 8, pos)
    BY <2>1, <2>3, NoSets
  <2> QED BY <2>1, <2>2, <2>3, <2>4 DEF ForceInv
<1>2. ForceInv /\ [Next]_vars => ForceInv'
  <2> SUFFICES ASSUME ForceInv, [Next]_vars PROVE ForceInv'
    OBVIOUS
  <2> DEFINE type == stream[pos].type
             bytes == stream[pos].bytes
             set == stream[pos].told.set
  <2>1. /\ stream \in Streams /\ pos \in 1 .. Len(stream) + 1 /\ TwoKinds(ctx)
        /\ Intact => ctx.sps = LastSets(stream, 7, pos) /\ ctx.pps = LastSets(stream, 8, pos)
    BY DEF ForceInv
  <2>2. SetsReadBack(stream) /\ Len(stream) \in Nat /\ pos \in Nat \ {0}
    BY <2>1 DEF SetsReadBack
  <2>3. CASE UNCHANGED vars
    BY <2>3 DEF ForceInv, Intact, vars
  <2>4. CASE /\ pos <= Len(stream) /\ stream' = stream /\ pos' = pos + 1
             /\ ctx' = After(ctx, type, bytes)
    <3>1. pos' \in 1 .. Len(stream') + 1 /\ pos \in 1 .. Len(stream)
      BY <2>2, <2>4
    <3>2. TwoKinds(ctx')
      BY <2>4 DEF TwoKinds, After
    <3>3. ASSUME Intact'
          PROVE  ctx'.sps = LastSets(stream, 7, pos + 1) /\ ctx'.pps = LastSets(stream, 8, pos + 1)
      <4>1. Intact /\ stream[pos].whole
        BY <2>2, <2>4, <3>3 DEF Intact
      <4>2. ctx.sps = LastSets(stream, 7, pos) /\ ctx.pps = LastSets(stream, 8, pos)
        BY <2>1, <4>1
      <4>3. (type = 7 => set = SpsIn(bytes)) /\ (type = 8 => set = PpsIn(bytes))
        BY <2>2, <3>1, <4>1 DEF SetsReadBack
      <4>4. /\ ctx'.sps = IF type = 7 /\ set # Refused THEN With(ctx.sps, set.id, set) ELSE ctx.sps
            /\ ctx'.pps = IF type = 8 /\ set # Refused THEN With(ctx.pps, set.id, set) ELSE ctx.pps
        <5> HIDE DEF type, bytes, set
        <5> QED BY <2>4, <4>3 DEF After
      <4>5. LastSets(stream, 7, pos + 1) = IF type = 7 /\ set # Refused
                                           THEN With(LastSets(stream, 7, pos), set.id, set)
                                           ELSE LastSets(stream, 7, pos)
        BY <2>2, SameSets, NewSet
      <4>6. LastSets(stream, 8, pos + 1) = IF type = 8 /\ set # Refused
                                           THEN With(LastSets(stream, 8, pos), set.id, set)
                                           ELSE LastSets(stream, 8, pos)
        BY <2>2, SameSets, NewSet
      <4> HIDE DEF type, bytes, set
      <4> QED BY <4>2, <4>4, <4>5, <4>6
    <3> QED BY <2>1, <2>4, <3>1, <3>2, <3>3 DEF ForceInv
  <2> QED BY <2>1, <2>3, <2>4, ReadStep
<1>3. ForceInv => SetsInForce
  <2> SUFFICES ASSUME ForceInv, Intact
               PROVE  /\ Range(ctx.sps) = {stream[i].told.set :
                                               i \in {j \in 1 .. pos - 1 : InForceAt(stream, 7, pos, j)}}
                      /\ Range(ctx.pps) = {stream[i].told.set :
                                               i \in {j \in 1 .. pos - 1 : InForceAt(stream, 8, pos, j)}}
    BY DEF SetsInForce, InForceAt
  <2>1. /\ SetsReadBack(stream) /\ pos \in 1 .. Len(stream) + 1
        /\ ctx.sps = LastSets(stream, 7, pos) /\ ctx.pps = LastSets(stream, 8, pos)
    BY DEF ForceInv
  <2> QED BY <2>1, LastInForce
<1> QED BY <1>1, <1>2, <1>3, PTL DEF Spec
=============================================================================
