--------------------------- MODULE SidecarProofs ---------------------------
(***************************************************************************)
(* Theorems about FilterLife, for any number of processes, any contents of *)
(* a sidecar and any sequence of crashes, failures and replaced sources.   *)
(***************************************************************************)
EXTENDS FilterLife, Minima, FiniteSetTheorems

-----------------------------------------------------------------------------
(* Cells *)

LEMMA ElementType ==
  ASSUME NEW S, NEW s \in Seq(S)
  PROVE  /\ Len(s) \in Nat /\ DOMAIN s = 1..Len(s)
         /\ \A i \in 1..Len(s) : s[i] \in S
  OBVIOUS

LEMMA DivBound ==
  ASSUME NEW n \in Nat \ {0}, NEW w \in Nat, NEW k \in 0..w * n - 1
  PROVE  k \div n \in 0..w - 1 /\ k % n \in 0..n - 1
<1>1. k % n \in 0..n - 1 /\ k = n * (k \div n) + (k % n) /\ k \div n \in Int
  OBVIOUS
<1>2. ASSUME NEW q \in Int, q >= w PROVE n * q >= n * w
  BY <1>2
<1>3. ASSUME NEW q \in Int, q <= -1 PROVE n * q <= -n
  BY <1>3
<1>4. n * w = w * n
  OBVIOUS
<1> DEFINE q == k \div n
           a == n * q
           b == n * w
           r == k % n
<1>5. /\ r \in 0..n - 1 /\ k = a + r /\ q \in Int /\ k \in 0..b - 1
      /\ q >= w => a >= b
      /\ q <= -1 => a <= -n
      /\ a \in Int /\ b \in Int
  BY <1>1, <1>2, <1>3, <1>4
<1> HIDE DEF q, a, b, r
<1>6. q \in 0..w - 1 /\ r \in 0..n - 1
  BY <1>5
<1> QED BY <1>6 DEF q, r

\* The columns of a list of rows are a sequence of cells.
LEMMA ColumnsType ==
  ASSUME NEW w \in Nat, NEW rows \in Seq([1..w -> Int])
  PROVE  Columns(rows, w) \in Seq(Int)
<1> DEFINE n == Len(rows)
           Cell(i) == rows[((i - 1) % n) + 1][((i - 1) \div n) + 1]
<1>1. n \in Nat /\ \A k \in 1..n : rows[k] \in [1..w -> Int]
  OBVIOUS
<1>2. ASSUME NEW i \in 1..w * n PROVE Cell(i) \in Int
  <2>1. n # 0
    <3>1. n = 0 => w * n = 0
      BY <1>1
    <3> QED BY <1>2, <3>1
  <2>2. w * n \in Int
    BY <1>1
  <2>3. n \in Nat \ {0} /\ i - 1 \in 0..w * n - 1
    <3> HIDE DEF n
    <3> DEFINE m == w * n
    <3>1. i \in 1..m /\ m \in Int
      BY <1>2, <2>2
    <3> HIDE DEF m
    <3>2. i - 1 \in 0..m - 1
      BY <3>1
    <3> QED BY <1>1, <2>1, <3>2 DEF m
  <2>4. (i - 1) \div n \in 0..w - 1 /\ (i - 1) % n \in 0..n - 1
    <3> HIDE DEF n
    <3> QED BY <2>3, DivBound
  <2>5. ((i - 1) % n) + 1 \in 1..n /\ ((i - 1) \div n) + 1 \in 1..w
    <3> DEFINE q == (i - 1) \div n
               r == (i - 1) % n
    <3>1. q \in 0..w - 1 /\ r \in 0..n - 1
      BY <2>4
    <3> HIDE DEF q, r, n
    <3>2. r + 1 \in 1..n /\ q + 1 \in 1..w
      BY <1>1, <3>1
    <3> QED BY <3>2 DEF q, r
  <2> HIDE DEF n
  <2> QED BY <1>1, <2>5
<1>3. w * n \in Nat
  BY <1>1
<1>4. Columns(rows, w) = [i \in 1..w * n |-> Cell(i)]
  BY DEF Columns
<1> HIDE DEF n, Cell
<1>5. [i \in 1..w * n |-> Cell(i)] \in Seq(Int)
  <2> DEFINE m == w * n
  <2>1. m \in Nat /\ \A i \in 1..m : Cell(i) \in Int
    BY <1>2, <1>3
  <2> HIDE DEF m
  <2>2. [i \in 1..m |-> Cell(i)] \in Seq(Int)
    BY <2>1
  <2> QED BY <2>2 DEF m
<1> QED BY <1>4, <1>5

\* The rows of a list that lies within a file.
LEMMA RowsType ==
  ASSUME NEW f \in Seq(Int), NEW at \in Nat, NEW n \in Nat, NEW w \in {3, 4},
         at + w * n <= Len(f)
  PROVE  Rows(f, at, n, w) \in Seq([1..w -> Int]) /\ Len(Rows(f, at, n, w)) = n
<1>1. ASSUME NEW i \in 1..n, NEW c \in 1..w PROVE f[at + (c - 1) * n + i] \in Int
  <2>1. at + (c - 1) * n + i \in 1..Len(f)
    <3>1. CASE w = 3 /\ c \in {1, 2, 3}
      BY <3>1
    <3>2. CASE w = 4 /\ c \in {1, 2, 3, 4}
      BY <3>2
    <3> QED BY <3>1, <3>2
  <2> QED BY <2>1
<1>2. \A i \in 1..n : [c \in 1..w |-> f[at + (c - 1) * n + i]] \in [1..w -> Int]
  BY <1>1
<1> DEFINE R(i) == [c \in 1..w |-> f[at + (c - 1) * n + i]]
<1>3. Rows(f, at, n, w) = [i \in 1..n |-> R(i)]
  BY DEF Rows
<1>4. \A i \in 1..n : R(i) \in [1..w -> Int]
  BY <1>2
<1> HIDE DEF R
<1> QED BY <1>3, <1>4

\* What grows from each place to the next grows altogether.
LEMMA GrowsThroughout ==
  ASSUME NEW n \in Nat, NEW g \in [1..n -> Int], \A i \in 2..n : g[i - 1] < g[i]
  PROVE  \A i, j \in 1..n : i < j => g[i] < g[j]
<1> SUFFICES ASSUME NEW i \in 1..n PROVE \A j \in 1..n : i < j => g[i] < g[j]
  OBVIOUS
<1> DEFINE Bad == {j \in 1..n : i < j /\ ~(g[i] < g[j])}
<1>1. Bad = {}
  <2> SUFFICES ASSUME Bad # {} PROVE FALSE
    OBVIOUS
  <2>1. Bad \in SUBSET Nat
    OBVIOUS
  <2>2. Min(Bad) \in Bad /\ \A y \in Bad : Min(Bad) <= y
    <3> HIDE DEF Bad
    <3> QED BY <2>1, MinExists
  <2>3. PICK m \in Bad : \A y \in Bad : m <= y
    BY <2>2
  <2>4. m \in 2..n /\ m - 1 \in 1..n /\ i <= m - 1 /\ g[m - 1] < g[m]
    OBVIOUS
  <2>5. m - 1 \notin Bad
    BY <2>3, <2>4
  <2>6. g[i] <= g[m - 1]
    BY <2>4, <2>5
  <2> QED BY <2>4, <2>6
<1> QED BY <1>1

LEMMA FormatParts ==
  /\ Magic["single"] = 1 /\ Magic["double"] = 2
  /\ PsWidth["single"] = 4 /\ PsWidth["double"] = 3
  /\ FrameColumn["single"] = 2 /\ FrameColumn["double"] = 1
  /\ PlaceColumn["single"] = 1 /\ PlaceColumn["double"] = 3
  BY DEF Magic, PsWidth, FrameColumn, PlaceColumn

KeyLength(fmt) == IF fmt = "single" THEN 2 ELSE 4

LEMMA SavedType ==
  ASSUME NEW fmt \in Formats, NEW key \in Seq(Int), NEW x \in IndexType(fmt)
  PROVE  Saved(fmt, key, x) \in Seq(Int)
<1>1. Magic[fmt] \in Int /\ PsWidth[fmt] \in Nat
  BY FormatParts DEF Formats
<1>2. /\ x.num_pics \in Int /\ x.is_mvc \in Int
      /\ x.spans \in Seq([1..3 -> Int]) /\ x.idx \in Seq([1..3 -> Int])
      /\ x.ps \in Seq([1..PsWidth[fmt] -> Int])
  BY DEF IndexType
<1>3. /\ Columns(x.spans, 3) \in Seq(Int) /\ Columns(x.idx, 3) \in Seq(Int)
      /\ Columns(x.ps, PsWidth[fmt]) \in Seq(Int)
  BY <1>1, <1>2, ColumnsType
<1>4. Len(x.spans) \in Int /\ Len(x.idx) \in Int /\ Len(x.ps) \in Int
  BY <1>2
<1>5. /\ <<Magic[fmt]>> \in Seq(Int)
      /\ <<x.num_pics, x.is_mvc, Len(x.spans), Len(x.idx), Len(x.ps)>> \in Seq(Int)
  BY <1>1, <1>2, <1>4
<1>6. \A s, t \in Seq(Int) : s \o t \in Seq(Int)
  OBVIOUS
<1> QED BY <1>3, <1>5, <1>6 DEF Saved

SizesIn(fmt, key) == IF fmt = "single" THEN <<key[1]>> ELSE <<key[1], key[3]>>

\* Whatever the cells of a file are: if they are taken for an index at all, its
\* seek points can be searched and it stays inside the source.
THEOREM AcceptedIsSound ==
  ASSUME NEW fmt \in Formats, NEW key \in Seq(Int), Len(key) = KeyLength(fmt),
         NEW f \in Seq(Int), Accepts(f, fmt, key)
  PROVE  /\ IndexIn(f, fmt, key) \in IndexType(fmt)
         /\ Searchable(IndexIn(f, fmt, key), fmt)
         /\ Inside(IndexIn(f, fmt, key), fmt, SizesIn(fmt, key))
<1> DEFINE h == Len(key) + 1
           n == HeaderSize(key)
           w == PsWidth[fmt]
           ns == f[h + 3]
           ni == f[h + 4]
           np == f[h + 5]
           x == IndexIn(f, fmt, key)
           F == FrameColumn[fmt]
           P == PlaceColumn[fmt]
<1>1. /\ h \in Nat /\ n \in Nat /\ n = h + 5 /\ w \in {3, 4}
      /\ F \in {1, 2} /\ P \in {1, 3} /\ key[1] \in Int
      /\ fmt = "double" => key[3] \in Int
  <2>1. Len(key) \in {2, 4}
    BY DEF KeyLength
  <2> QED BY <2>1, FormatParts DEF HeaderSize, Formats, KeyLength
<1>2. /\ n <= Len(f) /\ Len(f) \in Nat
      /\ f[h + 1] \in Int /\ f[h + 2] \in Int
      /\ ns \in Nat /\ ni \in Nat /\ np \in Nat
      /\ n + ns * 3 + ni * 3 + np * w <= Len(f)
  <2>1. HeaderFits(f, fmt, key)
    BY DEF Accepts
  <2>2. n <= Len(f) /\ Len(f) \in Nat
    BY <2>1 DEF HeaderFits
  <2>3. \A i \in 1..5 : h + i \in 1..Len(f) /\ f[h + i] \in Int
    <3> HIDE DEF h, n
    <3>1. \A i \in 1..5 : h + i \in 1..Len(f)
      BY <1>1, <2>2
    <3> QED BY <3>1, ElementType
  <2>4. ns \in Int /\ ni \in Int /\ np \in Int /\ f[h + 1] \in Int /\ f[h + 2] \in Int
    BY <2>3
  <2>5. (IF fmt = "double" THEN ns > 0 ELSE ns = 0) /\ ni >= 0 /\ np >= 0
        /\ n + ns * 3 + ni * 3 + np * w <= Len(f)
    BY <2>1 DEF HeaderFits
  <2> HIDE DEF h, n, w, ns, ni, np
  <2>6. ns >= 0
    BY <2>4, <2>5
  <2> QED BY <2>2, <2>4, <2>5, <2>6
<1>3. /\ x.num_pics = f[h + 1] /\ x.is_mvc = f[h + 2]
      /\ x.spans = Rows(f, n, ns, 3) /\ x.idx = Rows(f, n + 3 * ns, ni, 3)
      /\ x.ps = Rows(f, n + 3 * (ns + ni), np, w)
      /\ x = [num_pics |-> x.num_pics, is_mvc |-> x.is_mvc, spans |-> x.spans,
              idx |-> x.idx, ps |-> x.ps]
  BY DEF IndexIn
<1>4. SeekPointsFit(x, fmt) /\ PlacesFit(x, fmt, key)
  BY DEF Accepts
<1> HIDE DEF h, n, w, ns, ni, np, x, F, P
<1>5. /\ x.spans \in Seq([1..3 -> Int]) /\ Len(x.spans) = ns
      /\ x.idx \in Seq([1..3 -> Int]) /\ Len(x.idx) = ni
      /\ x.ps \in Seq([1..w -> Int]) /\ Len(x.ps) = np
  <2>1. n + 3 * ns <= Len(f)
    BY <1>1, <1>2, SMTT(30)
  <2>2. n + 3 * ns \in Nat /\ n + 3 * ns + 3 * ni <= Len(f)
    BY <1>1, <1>2
  <2>3. n + 3 * (ns + ni) \in Nat /\ n + 3 * (ns + ni) + w * np <= Len(f)
    BY <1>1, <1>2
  <2>4. /\ Rows(f, n, ns, 3) \in Seq([1..3 -> Int]) /\ Len(Rows(f, n, ns, 3)) = ns
    BY <1>1, <1>2, <2>1, RowsType, ZenonT(30)
  <2>5. LET rows == Rows(f, n + 3 * ns, ni, 3) IN rows \in Seq([1..3 -> Int]) /\ Len(rows) = ni
    BY <1>2, <2>2, RowsType
  <2>6. LET rows == Rows(f, n + 3 * (ns + ni), np, w) IN rows \in Seq([1..w -> Int]) /\ Len(rows) = np
    <3> DEFINE at == n + 3 * (ns + ni)
    <3>1. at \in Nat /\ at + w * np <= Len(f)
      BY <2>3
    <3> HIDE DEF at
    <3>2. Rows(f, at, np, w) \in Seq([1..w -> Int]) /\ Len(Rows(f, at, np, w)) = np
      <4>1. np \in Nat /\ w \in {3, 4}
        BY <1>1, <1>2
      <4>2. CASE w = 3
        BY <3>1, <4>1, <4>2, RowsType
      <4>3. CASE w = 4
        BY <3>1, <4>1, <4>3, RowsType
      <4> QED BY <4>1, <4>2, <4>3
    <3> QED BY <3>2 DEF at
  <2> QED BY <1>3, <2>4, <2>5, <2>6
<1>6. x \in IndexType(fmt)
  BY <1>2, <1>3, <1>5 DEF IndexType, w
<1>7. Searchable(x, fmt)
  <2>1. \A i \in 1..ni : x.idx[i] \in [1..3 -> Int] /\ x.idx[i][F] \in Int /\ x.idx[i][F + 1] \in Int
    <3>1. \A i \in 1..ni : x.idx[i] \in [1..3 -> Int]
      BY <1>5
    <3>2. F \in 1..3 /\ F + 1 \in 1..3
      BY <1>1
    <3> QED BY <3>1, <3>2
  <2>2. DOMAIN x.idx = 1..ni
    BY <1>5
  <2>3. \A i \in 1..ni :
           /\ x.idx[i][F] > (IF i = 1 THEN -1 ELSE x.idx[i - 1][F])
           /\ x.idx[i][F + 1] > (IF i = 1 THEN -1 ELSE x.idx[i - 1][F + 1])
           /\ x.idx[i][F + 1] >= x.idx[i][F] /\ x.idx[i][F + 1] < x.num_pics
    BY <1>4, <2>2 DEF SeekPointsFit, F
  <2> DEFINE a == [i \in 1..ni |-> x.idx[i][F]]
             b == [i \in 1..ni |-> x.idx[i][F + 1]]
  <2>4. a \in [1..ni -> Int] /\ b \in [1..ni -> Int]
    BY <2>1
  <2>5. \A i \in 2..ni : i \in 1..ni /\ i - 1 \in 1..ni /\ i # 1
    BY <1>2
  <2>6. (\A i \in 2..ni : a[i - 1] < a[i]) /\ (\A i \in 2..ni : b[i - 1] < b[i])
    BY <2>1, <2>3, <2>5
  <2>7. \A i, j \in 1..ni : i < j => a[i] < a[j]
    <3> HIDE DEF a, b
    <3> QED BY <1>2, <2>4, <2>6, GrowsThroughout
  <2>8. \A i, j \in 1..ni : i < j => b[i] < b[j]
    <3> HIDE DEF a, b
    <3> QED BY <1>2, <2>4, <2>6, GrowsThroughout
  <2>9. \A i \in 1..ni : a[i] >= 0
    <3> SUFFICES ASSUME NEW i \in 1..ni PROVE a[i] >= 0
      OBVIOUS
    <3>1. 1 \in 1..ni /\ a[1] >= 0
      <4>1. 1 \in 1..ni
        BY <1>2
      <4>2. x.idx[1][F] > -1 /\ x.idx[1][F] \in Int
        BY <2>1, <2>3, <4>1
      <4> QED BY <4>1, <4>2
    <3>2. i = 1 \/ 1 < i
      BY <1>2
    <3>3. a[i] \in Int /\ a[1] \in Int
      BY <2>4, <3>1
    <3>4. i # 1 => a[1] < a[i]
      <4> HIDE DEF a
      <4> QED BY <2>7, <3>1, <3>2
    <3> HIDE DEF a
    <3> QED BY <3>1, <3>3, <3>4
  <2>10. \A i, j \in 1..ni : i < j => x.idx[i][F] < x.idx[j][F] /\ x.idx[i][F + 1] < x.idx[j][F + 1]
    BY <2>7, <2>8
  <2>11. \A i \in 1..ni : 0 <= x.idx[i][F] /\ x.idx[i][F] <= x.idx[i][F + 1]
                           /\ x.idx[i][F + 1] < x.num_pics
    BY <2>1, <2>3, <2>9
  <2> HIDE DEF a, b
  <2> QED BY <2>2, <2>10, <2>11 DEF Searchable, F
<1>8. Inside(x, fmt, SizesIn(fmt, key))
  <2>1. CASE fmt = "single"
    <3>1. /\ \A i \in DOMAIN x.idx : x.idx[i][1] \in 0..key[1] - 1
          /\ \A i \in DOMAIN x.ps : /\ x.ps[i][1] >= 0 /\ x.ps[i][2] >= 0
                                    /\ x.ps[i][1] + x.ps[i][2] <= key[1]
      BY <1>4, <2>1, FormatParts DEF PlacesFit
    <3>2. \A i \in DOMAIN x.ps : x.ps[i][1] \in Int /\ x.ps[i][2] \in Int
      <4>1. \A i \in DOMAIN x.ps : x.ps[i] \in [1..w -> Int]
        BY <1>5, ElementType
      <4>2. 1 \in 1..w /\ 2 \in 1..w
        BY <1>1
      <4> QED BY <4>1, <4>2
    <3>3. SizesIn(fmt, key)[1] = key[1]
      BY <2>1 DEF SizesIn
    <3> QED BY <2>1, <3>1, <3>2, <3>3 DEF Inside
  <2>2. CASE fmt = "double"
    <3>1. /\ \A i \in DOMAIN x.idx : x.idx[i][3] \in 0..ns - 1
          /\ \A i \in DOMAIN x.ps : x.ps[i][3] \in 0..ns - 1
          /\ \A i \in DOMAIN x.spans :
                /\ x.spans[i][1] \in {0, 1} /\ 0 <= x.spans[i][2] /\ x.spans[i][2] <= x.spans[i][3]
                /\ x.spans[i][3] <= (IF x.spans[i][1] = 1 THEN key[3] ELSE key[1])
      BY <1>4, <1>5, <2>2, FormatParts DEF PlacesFit
    <3>2. \A i \in DOMAIN x.spans : x.spans[i][2] \in Int /\ x.spans[i][3] \in Int
      <4>1. \A i \in DOMAIN x.spans : x.spans[i] \in [1..3 -> Int]
        BY <1>5, ElementType
      <4> QED BY <4>1
    <3>3. SizesIn(fmt, key)[1] = key[1] /\ SizesIn(fmt, key)[2] = key[3]
      BY <2>2 DEF SizesIn
    <3>4. \A i \in DOMAIN x.spans :
             x.spans[i][3] <= SizesIn(fmt, key)[x.spans[i][1] + 1]
      BY <3>1, <3>3, SMTT(30)
    <3>5. DOMAIN x.spans = 1..ns /\ \A k \in 0..ns - 1 : k + 1 \in 1..ns
      BY <1>2, <1>5
    <3> QED BY <2>2, <3>1, <3>2, <3>4, <3>5 DEF Inside
  <2> QED BY <2>1, <2>2 DEF Formats
<1> QED BY <1>6, <1>7, <1>8 DEF x

-----------------------------------------------------------------------------
(* What an instance holds at each point of its life *)

PCs == {"idle", "map", "map2", "find", "load", "scan", "save", "write", "decode", "node", "live"}

\* A process has all its fields, and outside of "idle" a request it serves.
Whole(p) ==
    /\ DOMAIN proc[p] = DOMAIN Idle /\ proc[p].pc \in PCs /\ proc[p].calls \in {0, 1}
    /\ ~At(p, "live") => proc[p].calls = 0
    /\ ~At(p, "idle") => proc[p].req \in scene.requests /\ proc[p].req.source # ""

Holding(p) ==
    LET own == proc[p].own
    IN  /\ At(p, "idle") => own = {}
        /\ At(p, "map") => own = {"source"}
        /\ At(p, "map2") => own = {"source", "map"}
        /\ proc[p].pc \in {"find", "decode", "node"} => own \subseteq SourceParts
        /\ proc[p].pc \in {"scan", "save"} => own \subseteq SourceParts \cup {"path"}
        /\ proc[p].pc \in {"load", "write"} => own \subseteq SourceParts \cup {"path", "file"}
        /\ At(p, "live") => own \subseteq SourceParts \cup {"node"}

\* An inode is held open exactly while the file is owned.
Opened(p) ==
    /\ proc[p].ino \in Inodes \cup {NoFile}
    /\ ("file" \in proc[p].own) <=> (proc[p].ino # NoFile)
    /\ proc[p].pc \in {"load", "write"} <=> (proc[p].ino # NoFile)

ProcsInv == DOMAIN proc = Procs /\ \A p \in Procs : Whole(p) /\ Holding(p) /\ Opened(p)

FilesInv ==
    /\ DOMAIN version = DOMAIN Contents
    /\ \A f \in DOMAIN Contents : version[f] \in DOMAIN Contents[f]
    /\ entry \in [DOMAIN Contents -> Inodes \cup {NoFile}]
    /\ DOMAIN disk = Inodes
    /\ DOMAIN stained = Inodes \cup {NoFile}
    /\ \A i \in Inodes : stained[i] \subseteq {"shared", "died", "left"}

TypeInv == scene \in Scenes /\ ProcsInv /\ FilesInv

\* A step of one process leaves the others what they hold.
LEMMA OneMoves ==
  ASSUME ProcsInv, NEW p \in Procs, NEW r, proc' = [proc EXCEPT ![p] = r], UNCHANGED scene,
         (Whole(p) /\ Holding(p) /\ Opened(p))'
  PROVE  ProcsInv'
<1>1. DOMAIN proc' = Procs /\ \A q \in Procs : q # p => proc'[q] = proc[q]
  BY DEF ProcsInv
<1>2. \A q \in Procs : q # p => (Whole(q) /\ Holding(q) /\ Opened(q))'
  BY <1>1, ZenonT(30) DEF ProcsInv, Whole, Holding, Opened, At
<1> QED BY <1>1, <1>2 DEF ProcsInv

\* The end of an instance.
LEMMA LeaveHolds ==
  ASSUME ProcsInv, NEW p \in Procs, Leave(p, {}), UNCHANGED scene
  PROVE  ProcsInv'
<1> DEFINE r == With(proc[p], [Idle EXCEPT !.own = {}, !.opens = proc[p].opens])
<1>1. proc' = [proc EXCEPT ![p] = r]
  BY DEF Leave, Step
<1>2. /\ proc'[p] = r /\ DOMAIN r = DOMAIN Idle
      /\ r.pc = "idle" /\ r.own = {} /\ r.ino = NoFile /\ r.calls = 0
  BY <1>1 DEF ProcsInv, With, Idle
<1> HIDE DEF r
<1>3. (Whole(p) /\ Holding(p) /\ Opened(p))'
  BY <1>2 DEF Whole, Holding, Opened, At, PCs
<1> QED BY <1>1, <1>3, OneMoves

LEMMA CloseHolds ==
  ASSUME ProcsInv, NEW p \in Procs, NEW besides, Close(p, besides), UNCHANGED scene,
         proc[p].own \subseteq SourceParts \cup besides
  PROVE  ProcsInv' /\ FilesKept
<1>1. Less(p, SourceParts \cup besides) = {}
  BY DEF Less
<1> QED BY <1>1, LeaveHolds DEF Close

\* There are more inodes than paths and processes can be at.
LEMMA FreeInode ==
  ASSUME TypeInv, NEW p \in Procs, At(p, "save")
  PROVE  Min(Unused) \in Inodes /\ Min(Unused) # NoFile /\ Min(Unused) \in Unused
<1> DEFINE E == {entry[f] : f \in DOMAIN Contents}
           H == {proc[q].ino : q \in Procs}
           a == Cardinality(Procs)
           b == Cardinality(DOMAIN Contents)
<1>1. IsFiniteSet(E) /\ Cardinality(E) <= b
  <2> DEFINE e == [f \in DOMAIN Contents |-> entry[f]]
  <2>1. e \in Surjection(DOMAIN Contents, E)
    BY DEF Surjection
  <2> HIDE DEF e, E
  <2> QED BY <2>1, FS_Surjection, LifeAssumption
<1>2. IsFiniteSet(H) /\ Cardinality(H) <= a
  <2> DEFINE e == [q \in Procs |-> proc[q].ino]
  <2>1. e \in Surjection(Procs, H)
    BY DEF Surjection
  <2> HIDE DEF e, H
  <2> QED BY <2>1, FS_Surjection, LifeAssumption
<1>3. a \in Nat /\ b \in Nat /\ Inodes = 1..a + b + 1
  BY FS_CardinalityType, LifeAssumption DEF Inodes
<1>4. IsFiniteSet(Inodes) /\ Cardinality(Inodes) = a + b + 1
  <2> HIDE DEF a, b
  <2>1. 1 \in Int /\ a + b + 1 \in Int /\ ~(1 > a + b + 1) /\ a + b + 1 - 1 + 1 = a + b + 1
    BY <1>3
  <2> QED BY <1>3, <2>1, FS_Interval
<1>5. Inodes \ (E \cup H) # {}
  <2> SUFFICES ASSUME Inodes \ (E \cup H) = {} PROVE FALSE
    OBVIOUS
  <2> HIDE DEF E, H, a, b
  <2>1. /\ IsFiniteSet(E \cup H)
        /\ Cardinality(E \cup H) = Cardinality(E) + Cardinality(H) - Cardinality(E \cap H)
    BY <1>1, <1>2, FS_Union
  <2>2. Cardinality(E) \in Nat /\ Cardinality(H) \in Nat /\ Cardinality(E \cap H) \in Nat
    BY <1>1, <1>2, FS_CardinalityType, FS_Intersection
  <2>3. Cardinality(Inodes) <= Cardinality(E \cup H)
    <3>1. Inodes \in SUBSET (E \cup H)
      OBVIOUS
    <3> QED BY <2>1, <3>1, FS_Subset
  <2> QED BY <1>1, <1>2, <1>3, <1>4, <2>1, <2>2, <2>3
<1>6. Unused # {} /\ Unused \subseteq Inodes
  <2>1. Range(entry) = E
    BY DEF TypeInv, FilesInv, Range
  <2>2. \A i : i \notin H => \A q \in Procs : ~Holds(q, i)
    BY DEF Holds
  <2> HIDE DEF E, H
  <2> QED BY <1>5, <2>1, <2>2 DEF Unused
<1>7. Unused \in SUBSET Nat /\ NoFile \notin Unused
  BY <1>3, <1>6 DEF NoFile
<1> QED BY <1>6, <1>7, MinExists

\* Steps that move one process and none of the files.
LEMMA MoveHolds ==
  ASSUME TypeInv, NEW p \in Procs, NEW r, Step(p, r), UNCHANGED scene, FilesKept,
         (Whole(p) /\ Holding(p) /\ Opened(p))'
  PROVE  TypeInv'
<1>1. ProcsInv'
  BY OneMoves DEF TypeInv, Step
<1>2. FilesInv'
  BY DEF TypeInv, FilesInv, FilesKept
<1> QED BY <1>1, <1>2 DEF TypeInv

LEMMA CloseKeeps ==
  ASSUME TypeInv, NEW p \in Procs, NEW besides, Close(p, besides), UNCHANGED scene,
         proc[p].own \subseteq SourceParts \cup besides
  PROVE  TypeInv'
<1>1. ProcsInv' /\ FilesKept
  BY CloseHolds DEF TypeInv
<1>2. FilesInv'
  BY <1>1 DEF TypeInv, FilesInv, FilesKept
<1> QED BY <1>1, <1>2 DEF TypeInv

\* The sidecar's path is that of a source.
LEMMA SidecarNamed ==
  ASSUME TypeInv, NEW p \in Procs, ~At(p, "idle")
  PROVE  /\ proc[p].req.source \in DOMAIN Contents
         /\ Fmt(p) = "double" => proc[p].req.dependent \in DOMAIN Contents
         /\ Fmt(p) \in Formats /\ Sidecar(p) \in DOMAIN Contents
<1>1. /\ {proc[p].req.source, proc[p].req.dependent} \subseteq {""} \cup DOMAIN Contents
      /\ proc[p].req.source # ""
  BY FilesAssumption DEF TypeInv, ProcsInv, Whole
<1>2. Fmt(p) = "double" => proc[p].req.dependent # ""
  BY DEF Fmt
<1>3. Fmt(p) \in {"single", "double"}
  BY DEF Fmt
<1>4. Sidecar(p) = IF Fmt(p) = "single" THEN proc[p].req.source ELSE proc[p].req.dependent
  BY DEF Sidecar, Named, Last
<1> QED BY <1>1, <1>2, <1>3, <1>4 DEF Formats

LEMMA MappingHolds ==
  ASSUME TypeInv, UNCHANGED scene, NEW p \in Procs, MapBase(p) \/ MapDependent(p)
  PROVE  TypeInv'
<1>0. ProcsInv /\ Whole(p) /\ Holding(p) /\ Opened(p)
  BY DEF TypeInv, ProcsInv
<1>1. CASE MapBase(p)
  <2>1. At(p, "map") /\ proc[p].own = {"source"} /\ FilesKept
    BY <1>0, <1>1 DEF MapBase, Holding, At
  <2>2. CASE Leave(p, Less(p, {"source"})) \/ Leave(p, Own(p, {"map"}) \ SourceParts)
    <3>1. Leave(p, {})
      <4>1. Less(p, {"source"}) = {} /\ Own(p, {"map"}) \ SourceParts = {}
        BY <2>1 DEF Less, Own, SourceParts
      <4> QED BY <2>2, <4>1
    <3>2. ProcsInv'
      BY <1>0, <3>1, LeaveHolds
    <3> QED BY <2>1, <3>2 DEF TypeInv, FilesInv, FilesKept
  <2>3. ASSUME NEW v, Step(p, [pc |-> IF Fmt(p) = "single" THEN "find" ELSE "map2",
                               own |-> Own(p, {"map"}), seen |-> <<v>>])
        PROVE  TypeInv'
    <3>1. /\ proc'[p].pc = IF Fmt(p) = "single" THEN "find" ELSE "map2"
          /\ proc'[p].own = {"source", "map"} /\ proc'[p].ino = proc[p].ino
          /\ proc'[p].calls = proc[p].calls /\ proc'[p].req = proc[p].req /\ DOMAIN proc'[p] = DOMAIN Idle
      BY <1>0, <2>1, <2>3 DEF Step, With, Idle, Own, ProcsInv
    <3>2. (Whole(p) /\ Holding(p) /\ Opened(p))'
      BY <1>0, <2>1, <3>1 DEF Whole, Holding, Opened, At, PCs, SourceParts
    <3> QED BY <2>1, <2>3, <3>2, MoveHolds
  <2> QED BY <1>1, <2>2, <2>3 DEF MapBase
<1>2. CASE MapDependent(p)
  <2>1. At(p, "map2") /\ proc[p].own = {"source", "map"}
    BY <1>0, <1>2 DEF MapDependent, Holding, At
  <2>2. CASE Close(p, {})
    BY <2>1, <2>2, CloseKeeps DEF SourceParts
  <2>3. ASSUME NEW v, FilesKept, Step(p, [pc |-> "find", own |-> Own(p, {"map2"}), seen |-> v])
        PROVE  TypeInv'
    <3>1. /\ proc'[p].pc = "find"
          /\ proc'[p].own = {"source", "map", "map2"} /\ proc'[p].ino = proc[p].ino
          /\ proc'[p].calls = proc[p].calls /\ proc'[p].req = proc[p].req /\ DOMAIN proc'[p] = DOMAIN Idle
      BY <1>0, <2>1, <2>3 DEF Step, With, Idle, Own, ProcsInv
    <3>2. (Whole(p) /\ Holding(p) /\ Opened(p))'
      BY <1>0, <2>1, <3>1 DEF Whole, Holding, Opened, At, PCs, SourceParts
    <3> QED BY <2>3, <3>2, MoveHolds
  <2> QED BY <1>2, <2>2, <2>3 DEF MapDependent
<1> QED BY <1>1, <1>2

LEMMA LoadHolds ==
  ASSUME TypeInv, UNCHANGED scene, NEW p \in Procs, FindSidecar(p) \/ Read(p) \/ Judge(p)
  PROVE  TypeInv'
<1>0. ProcsInv /\ Whole(p) /\ Holding(p) /\ Opened(p)
  BY DEF TypeInv, ProcsInv
<1>1. CASE FindSidecar(p)
  <2>1. /\ At(p, "find") /\ FilesKept /\ proc[p].own \subseteq SourceParts
        /\ proc[p].ino = NoFile /\ "file" \notin proc[p].own
    BY <1>0, <1>1 DEF FindSidecar, Holding, Opened, At
  <2>2. CASE Step(p, [pc |-> "scan"])
    <3>1. /\ proc'[p].pc = "scan" /\ proc'[p].own = proc[p].own
          /\ proc'[p].ino = proc[p].ino
          /\ proc'[p].calls = proc[p].calls /\ proc'[p].req = proc[p].req /\ DOMAIN proc'[p] = DOMAIN Idle
      BY <1>0, <2>2 DEF Step, With, Idle, ProcsInv
    <3>2. (Whole(p) /\ Holding(p) /\ Opened(p))'
      BY <1>0, <2>1, <3>1 DEF Whole, Holding, Opened, At, PCs
    <3> QED BY <2>1, <2>2, <3>2, MoveHolds
  <2>3. CASE Step(p, [pc |-> "scan", own |-> Own(p, {"path"})])
    <3>1. /\ proc'[p].pc = "scan" /\ proc'[p].own = proc[p].own \cup {"path"}
          /\ proc'[p].ino = proc[p].ino
          /\ proc'[p].calls = proc[p].calls /\ proc'[p].req = proc[p].req /\ DOMAIN proc'[p] = DOMAIN Idle
      BY <1>0, <2>3 DEF Step, With, Idle, Own, ProcsInv
    <3>2. (Whole(p) /\ Holding(p) /\ Opened(p))'
      BY <1>0, <2>1, <3>1 DEF Whole, Holding, Opened, At, PCs
    <3> QED BY <2>1, <2>3, <3>2, MoveHolds
  <2>4. CASE /\ entry[Sidecar(p)] # NoFile
             /\ Step(p, [pc |-> "load", own |-> Own(p, {"path", "file"}), ino |-> entry[Sidecar(p)]])
    <3>1. /\ proc'[p].pc = "load" /\ proc'[p].own = proc[p].own \cup {"path", "file"}
          /\ proc'[p].ino = entry[Sidecar(p)]
          /\ proc'[p].calls = proc[p].calls /\ proc'[p].req = proc[p].req /\ DOMAIN proc'[p] = DOMAIN Idle
      BY <1>0, <2>4 DEF Step, With, Idle, Own, ProcsInv
    <3>2. entry[Sidecar(p)] \in Inodes
      <4>1. Sidecar(p) \in DOMAIN Contents
        BY <2>1, SidecarNamed DEF At
      <4> QED BY <2>4, <4>1 DEF TypeInv, FilesInv
    <3>3. (Whole(p) /\ Holding(p) /\ Opened(p))'
      BY <1>0, <2>1, <2>4, <3>1, <3>2 DEF Whole, Holding, Opened, At, PCs
    <3> QED BY <2>1, <2>4, <3>3, MoveHolds
  <2> QED BY <1>1, <2>2, <2>3, <2>4 DEF FindSidecar
<1>2. CASE Read(p)
  <2>1. At(p, "load") /\ FilesKept
    BY <1>2 DEF Read
  <2>2. ASSUME NEW b, Step(p, [buf |-> b]) PROVE TypeInv'
    <3>1. /\ proc'[p].pc = proc[p].pc /\ proc'[p].own = proc[p].own
          /\ proc'[p].ino = proc[p].ino
          /\ proc'[p].calls = proc[p].calls /\ proc'[p].req = proc[p].req /\ DOMAIN proc'[p] = DOMAIN Idle
      BY <1>0, <2>2 DEF Step, With, Idle, ProcsInv
    <3>2. (Whole(p) /\ Holding(p) /\ Opened(p))'
      BY <1>0, <3>1 DEF Whole, Holding, Opened, At
    <3> QED BY <2>1, <2>2, <3>2, MoveHolds
  <2> QED BY <1>2, <2>2 DEF Read
<1>3. CASE Judge(p)
  <2>1. /\ At(p, "load") /\ FilesKept
        /\ proc[p].own \subseteq SourceParts \cup {"path", "file"}
    BY <1>0, <1>3 DEF Judge, Holding, At
  <2>2. ASSUME NEW x, NEW t,
               Step(p, [pc |-> "decode", index |-> x,
                        own |-> Less(p, {"file", "path"}) \cup {"index"},
                        torn |-> t, ino |-> NoFile, buf |-> <<>>])
        PROVE  TypeInv'
    <3>1. /\ proc'[p].pc = "decode" /\ proc'[p].own = (proc[p].own \ {"file", "path"}) \cup {"index"}
          /\ proc'[p].ino = NoFile
          /\ proc'[p].calls = proc[p].calls /\ proc'[p].req = proc[p].req /\ DOMAIN proc'[p] = DOMAIN Idle
      BY <1>0, <2>2 DEF Step, With, Idle, Less, ProcsInv
    <3>2. proc'[p].own \subseteq SourceParts /\ "file" \notin proc'[p].own
      BY <2>1, <3>1 DEF SourceParts
    <3>3. (Whole(p) /\ Holding(p) /\ Opened(p))'
      BY <1>0, <2>1, <3>1, <3>2 DEF Whole, Holding, Opened, At, PCs
    <3> QED BY <2>1, <2>2, <3>3, MoveHolds
  <2>3. CASE Step(p, [pc |-> "scan", own |-> Less(p, {"file"}), ino |-> NoFile, buf |-> <<>>])
    <3>1. /\ proc'[p].pc = "scan" /\ proc'[p].own = proc[p].own \ {"file"}
          /\ proc'[p].ino = NoFile
          /\ proc'[p].calls = proc[p].calls /\ proc'[p].req = proc[p].req /\ DOMAIN proc'[p] = DOMAIN Idle
      BY <1>0, <2>3 DEF Step, With, Idle, Less, ProcsInv
    <3>2. proc'[p].own \subseteq SourceParts \cup {"path"} /\ "file" \notin proc'[p].own
      BY <2>1, <3>1
    <3>3. (Whole(p) /\ Holding(p) /\ Opened(p))'
      BY <1>0, <2>1, <3>1, <3>2 DEF Whole, Holding, Opened, At, PCs
    <3> QED BY <2>1, <2>3, <3>3, MoveHolds
  <2> QED BY <1>3, <2>2, <2>3 DEF Judge
<1> QED BY <1>1, <1>2, <1>3

LEMMA ScanHolds ==
  ASSUME TypeInv, UNCHANGED scene, NEW p \in Procs, Scan(p)
  PROVE  TypeInv'
<1>0. ProcsInv /\ Whole(p) /\ Holding(p) /\ Opened(p)
  BY DEF TypeInv, ProcsInv
<1>1. /\ At(p, "scan") /\ proc[p].own \subseteq SourceParts \cup {"path"}
      /\ proc[p].ino = NoFile /\ "file" \notin proc[p].own
  BY <1>0 DEF Scan, Holding, Opened, At
<1>2. CASE Close(p, {"path"})
  BY <1>1, <1>2, CloseKeeps
<1>3. ASSUME NEW x, FilesKept,
             Step(p, [pc |-> IF "path" \in proc[p].own THEN "save" ELSE "decode",
                      own |-> Own(p, {"index"}), index |-> x])
      PROVE  TypeInv'
  <2>1. /\ proc'[p].pc = IF "path" \in proc[p].own THEN "save" ELSE "decode"
        /\ proc'[p].own = proc[p].own \cup {"index"}
        /\ proc'[p].ino = proc[p].ino
          /\ proc'[p].calls = proc[p].calls /\ proc'[p].req = proc[p].req /\ DOMAIN proc'[p] = DOMAIN Idle
    BY <1>0, <1>3 DEF Step, With, Idle, Own, ProcsInv
  <2>2. CASE "path" \in proc[p].own
    <3>1. proc'[p].own \subseteq SourceParts \cup {"path"} /\ "file" \notin proc'[p].own
      BY <1>1, <2>1 DEF SourceParts
    <3>2. (Whole(p) /\ Holding(p) /\ Opened(p))'
      BY <1>0, <1>1, <2>1, <2>2, <3>1 DEF Whole, Holding, Opened, At, PCs
    <3> QED BY <1>3, <3>2, MoveHolds
  <2>3. CASE "path" \notin proc[p].own
    <3>1. proc'[p].own \subseteq SourceParts /\ "file" \notin proc'[p].own
      BY <1>1, <2>1, <2>3 DEF SourceParts
    <3>2. (Whole(p) /\ Holding(p) /\ Opened(p))'
      BY <1>0, <1>1, <2>1, <2>3, <3>1 DEF Whole, Holding, Opened, At, PCs
    <3> QED BY <1>3, <3>2, MoveHolds
  <2> QED BY <2>2, <2>3
<1> QED BY <1>2, <1>3 DEF Scan

LEMMA SavingHolds ==
  ASSUME TypeInv, UNCHANGED scene, NEW p \in Procs, At(p, "write"), Saving(p)
  PROVE  ProcsInv'
<1>0. ProcsInv /\ Whole(p) /\ Holding(p) /\ Opened(p)
  BY DEF TypeInv, ProcsInv
<1>1. proc[p].own \subseteq SourceParts \cup {"path", "file"}
  BY <1>0 DEF Holding, At
<1>2. /\ proc'[p].pc = "decode" /\ proc'[p].own = proc[p].own \ {"file", "path"}
      /\ proc'[p].ino = NoFile
          /\ proc'[p].calls = proc[p].calls /\ proc'[p].req = proc[p].req /\ DOMAIN proc'[p] = DOMAIN Idle
  BY <1>0 DEF Saving, Step, With, Idle, Less, ProcsInv
<1>3. proc'[p].own \subseteq SourceParts /\ "file" \notin proc'[p].own
  BY <1>1, <1>2
<1>4. (Whole(p) /\ Holding(p) /\ Opened(p))'
  BY <1>0, <1>2, <1>3 DEF Whole, Holding, Opened, At, PCs
<1> QED BY <1>0, <1>4, OneMoves DEF Saving, Step

LEMMA SaveHolds ==
  ASSUME TypeInv, UNCHANGED scene, NEW p \in Procs,
         StartSave(p) \/ Write(p) \/ EndSave(p) \/ SpoilSave(p)
  PROVE  TypeInv'
<1>0. ProcsInv /\ Whole(p) /\ Holding(p) /\ Opened(p) /\ FilesInv
  BY DEF TypeInv, ProcsInv
<1>1. CASE StartSave(p)
  <2>1. /\ At(p, "save") /\ proc[p].own \subseteq SourceParts \cup {"path"}
        /\ proc[p].ino = NoFile /\ "file" \notin proc[p].own
    BY <1>0, <1>1 DEF StartSave, Holding, Opened, At
  <2>2. CASE /\ UNCHANGED <<version, entry, disk, stained>>
             /\ Step(p, [pc |-> "decode", own |-> Less(p, {"path"})])
    <3>1. /\ proc'[p].pc = "decode" /\ proc'[p].own = proc[p].own \ {"path"}
          /\ proc'[p].ino = NoFile
          /\ proc'[p].calls = proc[p].calls /\ proc'[p].req = proc[p].req /\ DOMAIN proc'[p] = DOMAIN Idle
      BY <1>0, <2>1, <2>2 DEF Step, With, Idle, Less, ProcsInv
    <3>2. proc'[p].own \subseteq SourceParts /\ "file" \notin proc'[p].own
      BY <2>1, <3>1
    <3>3. (Whole(p) /\ Holding(p) /\ Opened(p))'
      BY <1>0, <2>1, <3>1, <3>2 DEF Whole, Holding, Opened, At, PCs
    <3> QED BY <2>2, <3>3, MoveHolds DEF FilesKept
  <2>3. ASSUME NEW ino,
               ino = IF entry[Sidecar(p)] # NoFile THEN entry[Sidecar(p)] ELSE Min(Unused),
               Step(p, [pc |-> "write", own |-> Own(p, {"file"}), ino |-> ino, pos |-> 0]),
               UNCHANGED version, entry' = [entry EXCEPT ![Sidecar(p)] = ino],
               disk' = [disk EXCEPT ![ino] = <<>>],
               stained' = [stained EXCEPT ![ino] =
                   IF \E q \in Procs \ {p} : Holds(q, ino) THEN {"shared"} ELSE {}]
        PROVE  TypeInv'
    <3>1. Sidecar(p) \in DOMAIN Contents
      BY <2>1, SidecarNamed DEF At
    <3>2. ino \in Inodes /\ ino # NoFile
      <4>1. CASE entry[Sidecar(p)] # NoFile
        BY <1>0, <2>3, <3>1, <4>1 DEF FilesInv
      <4>2. CASE entry[Sidecar(p)] = NoFile
        <5>1. ino = Min(Unused)
          BY <2>3, <4>2
        <5> QED BY <2>1, <5>1, FreeInode
      <4> QED BY <4>1, <4>2
    <3>3. /\ proc'[p].pc = "write" /\ proc'[p].own = proc[p].own \cup {"file"}
          /\ proc'[p].ino = ino
          /\ proc'[p].calls = proc[p].calls /\ proc'[p].req = proc[p].req /\ DOMAIN proc'[p] = DOMAIN Idle
      BY <1>0, <2>3 DEF Step, With, Idle, Own, ProcsInv
    <3>4. proc'[p].own \subseteq SourceParts \cup {"path", "file"} /\ "file" \in proc'[p].own
      BY <2>1, <3>3
    <3>5. (Whole(p) /\ Holding(p) /\ Opened(p))'
      BY <1>0, <2>1, <3>2, <3>3, <3>4 DEF Whole, Holding, Opened, At, PCs
    <3>6. ProcsInv'
      BY <1>0, <2>3, <3>5, OneMoves DEF Step
    <3>7. FilesInv'
      BY <1>0, <2>3, <3>2 DEF FilesInv
    <3> QED BY <3>6, <3>7 DEF TypeInv
  <2> QED BY <1>1, <2>2, <2>3 DEF StartSave
<1>2. CASE Write(p)
  <2>1. PICK to, cells :
           /\ At(p, "write") /\ Step(p, [pos |-> to])
           /\ disk' = [disk EXCEPT ![proc[p].ino] = cells]
           /\ UNCHANGED <<version, entry, stained>>
    BY <1>2 DEF Write
  <2>2. /\ proc'[p].pc = proc[p].pc /\ proc'[p].own = proc[p].own
        /\ proc'[p].ino = proc[p].ino
          /\ proc'[p].calls = proc[p].calls /\ proc'[p].req = proc[p].req /\ DOMAIN proc'[p] = DOMAIN Idle
    BY <1>0, <2>1 DEF Step, With, Idle, ProcsInv
  <2>3. (Whole(p) /\ Holding(p) /\ Opened(p))'
    BY <1>0, <2>2 DEF Whole, Holding, Opened, At
  <2>4. ProcsInv'
    BY <1>0, <2>1, <2>3, OneMoves DEF Step
  <2>5. FilesInv'
    BY <1>0, <2>1 DEF FilesInv
  <2> QED BY <2>4, <2>5 DEF TypeInv
<1>3. CASE EndSave(p) \/ SpoilSave(p)
  <2>1. At(p, "write") /\ Saving(p)
    BY <1>3 DEF EndSave, SpoilSave
  <2>2. ProcsInv'
    BY <2>1, SavingHolds
  <2>3. /\ UNCHANGED <<version, disk, stained>>
        /\ \/ entry' = entry
           \/ entry' = [entry EXCEPT ![Sidecar(p)] = NoFile]
    BY <1>3 DEF EndSave, SpoilSave, FilesKept
  <2>4. FilesInv'
    BY <1>0, <2>3 DEF FilesInv
  <2> QED BY <2>2, <2>4 DEF TypeInv
<1> QED BY <1>1, <1>2, <1>3

LEMMA OpenedHolds ==
  ASSUME TypeInv, UNCHANGED scene, NEW p \in Procs, FirstFrame(p) \/ NewFilter(p) \/ NewClip(p)
  PROVE  TypeInv'
<1>0. ProcsInv /\ Whole(p) /\ Holding(p) /\ Opened(p)
  BY DEF TypeInv, ProcsInv
<1>1. /\ proc[p].pc \in {"decode", "node"} /\ proc[p].own \subseteq SourceParts
      /\ proc[p].ino = NoFile /\ "file" \notin proc[p].own
  BY <1>0 DEF FirstFrame, NewFilter, NewClip, Holding, Opened, At
<1>2. ASSUME NEW besides, Close(p, besides) PROVE TypeInv'
  BY <1>1, <1>2, CloseKeeps
<1>3. ASSUME NEW n, NEW views, FilesKept,
             Step(p, [pc |-> "node", own |-> Own(p, {"decoder", "ring"}), first |-> views, ring |-> n])
      PROVE  TypeInv'
  <2>1. /\ proc'[p].pc = "node" /\ proc'[p].own = proc[p].own \cup {"decoder", "ring"}
        /\ proc'[p].ino = proc[p].ino
          /\ proc'[p].calls = proc[p].calls /\ proc'[p].req = proc[p].req /\ DOMAIN proc'[p] = DOMAIN Idle
    BY <1>0, <1>3 DEF Step, With, Idle, Own, ProcsInv
  <2>2. proc'[p].own \subseteq SourceParts /\ "file" \notin proc'[p].own
    BY <1>1, <2>1 DEF SourceParts
  <2>3. (Whole(p) /\ Holding(p) /\ Opened(p))'
    BY <1>0, <1>1, <2>1, <2>2 DEF Whole, Holding, Opened, At, PCs
  <2> QED BY <1>3, <2>3, MoveHolds
<1>4. ASSUME NEW i, NEW own, own \subseteq SourceParts \cup {"node"}, FilesKept,
             Step(p, [pc |-> "live", info |-> i, own |-> own])
      PROVE  TypeInv'
  <2>1. /\ proc'[p].pc = "live" /\ proc'[p].own = own
        /\ proc'[p].ino = proc[p].ino
          /\ proc'[p].calls = proc[p].calls /\ proc'[p].req = proc[p].req /\ DOMAIN proc'[p] = DOMAIN Idle
    BY <1>0, <1>4 DEF Step, With, Idle, ProcsInv
  <2>2. "file" \notin proc'[p].own
    BY <1>4, <2>1 DEF SourceParts
  <2>3. (Whole(p) /\ Holding(p) /\ Opened(p))'
    BY <1>0, <1>1, <1>4, <2>1, <2>2 DEF Whole, Holding, Opened, At, PCs
  <2> QED BY <1>4, <2>3, MoveHolds
<1>5. CASE FirstFrame(p)
  BY <1>2, <1>3, <1>5 DEF FirstFrame
<1>6. CASE NewFilter(p)
  <2>1. Own(p, {"node"}) \subseteq SourceParts \cup {"node"}
    BY <1>1 DEF Own
  <2> QED BY <1>2, <1>4, <1>6, <2>1 DEF NewFilter
<1>7. CASE NewClip(p)
  <2>1. CASE "host" \in scene.faults /\ Close(p, {})
    BY <1>2, <2>1
  <2>2. CASE Step(p, [pc |-> "live", info |-> VideoInfo(p)]) /\ FilesKept
    <3>1. /\ proc'[p].pc = "live" /\ proc'[p].own = proc[p].own
          /\ proc'[p].ino = proc[p].ino
          /\ proc'[p].calls = proc[p].calls /\ proc'[p].req = proc[p].req /\ DOMAIN proc'[p] = DOMAIN Idle
      BY <1>0, <2>2 DEF Step, With, Idle, ProcsInv
    <3>2. (Whole(p) /\ Holding(p) /\ Opened(p))'
      BY <1>0, <1>1, <3>1 DEF Whole, Holding, Opened, At, PCs
    <3> QED BY <2>2, <3>2, MoveHolds
  <2> QED BY <1>7, <2>1, <2>2 DEF NewClip
<1> QED BY <1>5, <1>6, <1>7

LEMMA ServingHolds ==
  ASSUME TypeInv, UNCHANGED scene, NEW p \in Procs, Serving(p)
  PROVE  TypeInv'
<1>0. ProcsInv /\ Whole(p) /\ Holding(p) /\ Opened(p)
  BY DEF TypeInv, ProcsInv
<1>1. CASE Create(p)
  <2>1. PICK a, b, n :
           /\ a \in scene.requests /\ At(p, "idle") /\ ~ArgError(a, Host[p]) /\ FilesKept
           /\ Step(p, [pc |-> "map", own |-> {"source"}, req |-> a, budget |-> b, opens |-> n])
    BY <1>1 DEF Create
  <2>2. /\ proc'[p].pc = "map" /\ proc'[p].own = {"source"} /\ proc'[p].req = a
        /\ proc'[p].ino = proc[p].ino
        /\ proc'[p].calls = proc[p].calls /\ DOMAIN proc'[p] = DOMAIN Idle
    BY <1>0, <2>1 DEF Step, With, Idle, ProcsInv
  <2>3. a.source # ""
    BY <2>1 DEF ArgError
  <2>4. proc[p].ino = NoFile
    BY <1>0, <2>1 DEF Opened, At
  <2>5. (Whole(p) /\ Holding(p) /\ Opened(p))'
    BY <1>0, <2>1, <2>2, <2>3, <2>4 DEF Whole, Holding, Opened, At, PCs
  <2> QED BY <2>1, <2>5, MoveHolds
<1>2. ASSUME NEW more, FilesKept, Step(p, more), At(p, "live"),
             more.calls \in {0, 1}, "calls" \in DOMAIN more, DOMAIN more \subseteq {"calls", "frame"}
      PROVE  TypeInv'
  <2>1. /\ proc'[p].pc = proc[p].pc /\ proc'[p].own = proc[p].own
        /\ proc'[p].ino = proc[p].ino /\ proc'[p].calls \in {0, 1}
        /\ proc'[p].req = proc[p].req /\ DOMAIN proc'[p] = DOMAIN Idle
    BY <1>0, <1>2 DEF Step, With, Idle, ProcsInv
  <2>2. (Whole(p) /\ Holding(p) /\ Opened(p))'
    BY <1>0, <1>2, <2>1 DEF Whole, Holding, Opened, At
  <2> QED BY <1>2, <2>2, MoveHolds
<1>3. CASE BeginCall(p)
  <2>1. FilterMode(Host[p]) \in {"fmUnordered", "MT_SERIALIZED"}
    BY LifeAssumption DEF FilterMode, mvc_cb_set_cache_hints
  <2>2. proc[p].calls = 0
    BY <1>3, <2>1 DEF BeginCall
  <2> DEFINE more == [calls |-> proc[p].calls + 1, frame |-> <<>>]
  <2>3. /\ more.calls = 1 /\ DOMAIN more = {"calls", "frame"}
        /\ FilesKept /\ Step(p, more) /\ At(p, "live")
    BY <1>3, <2>2 DEF BeginCall
  <2> HIDE DEF more
  <2> QED BY <1>2, <2>3
<1>4. CASE EndCall(p)
  <2>1. proc[p].calls > 0 /\ FilesKept
    BY <1>4 DEF EndCall
  <2>2. proc[p].calls = 1 /\ At(p, "live") /\ proc[p].calls - 1 = 0
    <3>1. proc[p].calls \in {0, 1} /\ (~At(p, "live") => proc[p].calls = 0)
      BY <1>0 DEF Whole
    <3>2. proc[p].calls # 0
      BY <2>1, <3>1
    <3> QED BY <3>1, <3>2
  <2>4. CASE Step(p, [calls |-> proc[p].calls - 1])
    <3> DEFINE more == [calls |-> proc[p].calls - 1]
    <3>1. more.calls \in {0, 1} /\ DOMAIN more = {"calls"} /\ Step(p, more) /\ At(p, "live")
      BY <2>2, <2>4
    <3> HIDE DEF more
    <3> QED BY <1>2, <2>1, <3>1
  <2>5. ASSUME NEW f, Step(p, [calls |-> proc[p].calls - 1, frame |-> f]) PROVE TypeInv'
    <3> DEFINE more == [calls |-> proc[p].calls - 1, frame |-> f]
    <3>1. more.calls \in {0, 1} /\ DOMAIN more = {"calls", "frame"} /\ Step(p, more) /\ At(p, "live")
      BY <2>2, <2>5
    <3> HIDE DEF more
    <3> QED BY <1>2, <2>1, <3>1
  <2> QED BY <1>4, <2>4, <2>5 DEF EndCall
<1>5. CASE FreeNode(p)
  <2>1. At(p, "live") /\ Close(p, {"node"}) /\ proc[p].own \subseteq SourceParts \cup {"node"}
    BY <1>0, <1>5 DEF FreeNode, Holding
  <2> QED BY <2>1, CloseKeeps
<1> QED BY <1>1, <1>3, <1>4, <1>5 DEF Serving

LEMMA CrashHolds ==
  ASSUME TypeInv, UNCHANGED scene, NEW p \in Procs, Crash(p)
  PROVE  TypeInv'
<1>0. ProcsInv /\ FilesInv /\ proc[p].ino \in Inodes \cup {NoFile}
  BY DEF TypeInv, ProcsInv, Opened
<1>1. ProcsInv'
  BY <1>0, LeaveHolds DEF Crash
<1>2. /\ UNCHANGED <<version, entry, disk>>
      /\ stained' = [stained EXCEPT ![proc[p].ino] =
                        IF At(p, "write") THEN stained[proc[p].ino] \cup {"died"}
                        ELSE stained[proc[p].ino]]
  BY DEF Crash
<1>3. \A i \in Inodes : stained'[i] \subseteq {"shared", "died", "left"}
  BY <1>0, <1>2 DEF FilesInv
<1>4. FilesInv'
  BY <1>0, <1>2, <1>3 DEF FilesInv
<1> QED BY <1>1, <1>4 DEF TypeInv

\* The smaller of two.
LEMMA Smaller ==
  ASSUME NEW a \in Int, NEW b \in Int
  PROVE  Min({a, b}) = IF a <= b THEN a ELSE b
<1>1. CASE a <= b
  BY <1>1 DEF Min
<1>2. CASE a > b
  BY <1>2 DEF Min
<1> QED BY <1>1, <1>2

LEMMA Versions ==
  ASSUME NEW f \in DOMAIN Contents
  PROVE  Len(Contents[f]) \in Nat \ {0} /\ DOMAIN Contents[f] = 1..Len(Contents[f])
<1> DEFINE s == Contents[f]
           S == [size : Nat, mtime : Int, annexb : BOOLEAN]
<1>1. s \in Seq(S) /\ s # <<>>
  BY FilesAssumption
<1> HIDE DEF s, S
<1>2. Len(s) \in Nat \ {0} /\ DOMAIN s = 1..Len(s)
  BY <1>1
<1> QED BY <1>2 DEF s

LEMMA ReplaceHolds ==
  ASSUME TypeInv, UNCHANGED scene, NEW f \in DOMAIN Contents, Replace(f)
  PROVE  TypeInv'
<1>1. /\ scene.first + 1 \in Int /\ Len(Contents[f]) \in Nat \ {0}
      /\ DOMAIN Contents[f] = 1..Len(Contents[f]) /\ version[f] \in DOMAIN Contents[f]
  BY LifeAssumption, Versions DEF TypeInv, FilesInv
<1>2. version[f] < Len(Contents[f])
  <2> DEFINE a == scene.first + 1
             n == Len(Contents[f])
  <2>1. a \in Int /\ n \in Int /\ version[f] \in Int /\ version[f] < Min({a, n})
    BY <1>1 DEF Replace
  <2> HIDE DEF a, n
  <2>2. version[f] < n
    BY <2>1, Smaller
  <2> QED BY <2>2 DEF n
<1>3. version'[f] \in DOMAIN Contents[f]
  BY <1>1, <1>2 DEF Replace, TypeInv, FilesInv
<1>4. FilesInv'
  BY <1>3 DEF TypeInv, FilesInv, Replace
<1>5. ProcsInv'
  <2>1. UNCHANGED proc /\ ProcsInv
    BY DEF Replace, TypeInv
  <2>2. \A p : Whole(p)' <=> Whole(p)
    BY <2>1 DEF Whole, At
  <2>3. \A p : Holding(p)' <=> Holding(p)
    BY <2>1 DEF Holding, At
  <2>4. \A p : Opened(p)' <=> Opened(p)
    BY <2>1 DEF Opened
  <2> QED BY <2>1, <2>2, <2>3, <2>4 DEF ProcsInv
<1> QED BY <1>4, <1>5 DEF TypeInv

LEMMA InitHolds == Init => TypeInv
<1> SUFFICES ASSUME Init PROVE TypeInv
  OBVIOUS
<1>1. 1 \in Inodes
  <2>1. Cardinality(Procs) \in Nat /\ Cardinality(DOMAIN Contents) \in Nat
    BY FS_CardinalityType, LifeAssumption
  <2> QED BY <2>1 DEF Inodes
<1>2. FilesInv
  <2>1. ASSUME NEW f \in DOMAIN Contents PROVE version[f] \in DOMAIN Contents[f]
    <3>1. scene.first \in Nat \ {0}
      BY LifeAssumption DEF Init
    <3>2. Len(Contents[f]) \in Nat \ {0} /\ DOMAIN Contents[f] = 1..Len(Contents[f])
      BY Versions
    <3>3. version[f] = Min({scene.first, Len(Contents[f])})
      BY DEF Init
    <3> DEFINE a == scene.first
               n == Len(Contents[f])
    <3>4. a \in Nat \ {0} /\ n \in Nat \ {0} /\ version[f] = Min({a, n})
      BY <3>1, <3>2, <3>3
    <3> HIDE DEF a, n
    <3>5. Min({a, n}) = IF a <= n THEN a ELSE n
      BY <3>4, Smaller
    <3>6. version[f] \in 1..n
      BY <3>4, <3>5
    <3> QED BY <3>2, <3>6 DEF n
  <2> QED BY <1>1, <2>1 DEF Init, FilesInv
<1>3. ProcsInv
  BY DEF Init, ProcsInv, Whole, Holding, Opened, At, Idle, PCs
<1> QED BY <1>2, <1>3 DEF TypeInv, Init

LEMMA StepHolds == TypeInv /\ [Next]_vars => TypeInv'
<1> SUFFICES ASSUME TypeInv, [Next]_vars PROVE TypeInv'
  OBVIOUS
<1>1. ASSUME UNCHANGED scene, NEW p \in Procs, Opening(p) PROVE TypeInv'
  BY <1>1, MappingHolds, LoadHolds, ScanHolds, SaveHolds, OpenedHolds DEF Opening
<1>2. ASSUME UNCHANGED scene, NEW p \in Procs, Serving(p) \/ Crash(p) PROVE TypeInv'
  BY <1>2, ServingHolds, CrashHolds
<1>3. ASSUME UNCHANGED scene, NEW f \in DOMAIN Contents, Replace(f) PROVE TypeInv'
  BY <1>3, ReplaceHolds
<1>4. CASE UNCHANGED vars
  BY <1>4, ZenonT(30) DEF vars, TypeInv, ProcsInv, FilesInv, Whole, Holding, Opened, At
<1> QED BY <1>1, <1>2, <1>3, <1>4 DEF Next

LEMMA TypesKept == Spec => []TypeInv
<1> QED BY InitHolds, StepHolds, PTL DEF Spec

\* The types of the state, through every step, crash and failure; and no two
\* calls are ever in one source, though it has no lock.
THEOREM FilterTypeCorrect == Spec => []TypeOK
<1>1. TypeInv => TypeOK
  <2> SUFFICES ASSUME TypeInv PROVE TypeOK
    OBVIOUS
  <2>1. /\ \A f \in DOMAIN Contents : version[f] \in DOMAIN Contents[f]
        /\ entry \in [DOMAIN Contents -> Inodes \cup {NoFile}]
        /\ \A i \in Inodes : stained[i] \subseteq {"shared", "died", "left"}
    BY DEF TypeInv, FilesInv
  <2>2. ASSUME NEW p \in Procs
        PROVE  /\ proc[p].calls \in {0, 1}
               /\ DOMAIN proc[p] = DOMAIN Idle
               /\ proc[p].ino \in Inodes \cup {NoFile}
               /\ ("file" \in proc[p].own) <=> (proc[p].ino # NoFile)
    BY <2>2 DEF TypeInv, ProcsInv, Whole, Opened
  <2>3. ASSUME NEW p \in Procs
        PROVE  proc[p].own \subseteq SourceParts \cup {"path", "file", "node"}
    <3>1. Whole(p) /\ Holding(p)
      BY <2>3 DEF TypeInv, ProcsInv
    <3> QED BY <3>1 DEF Whole, Holding, At, PCs, SourceParts
  <2> QED BY <2>1, <2>2, <2>3 DEF TypeOK
<1> QED BY <1>1, TypesKept, PTL

\* Every way out of an instance gives back all it had acquired, and a live one
\* keeps no file: on each of the error paths, in any combination.
THEOREM NothingEverLeaks == Spec => []NothingLeaks
<1>1. TypeInv => NothingLeaks
  BY DEF TypeInv, ProcsInv, Holding, At, NothingLeaks, SourceParts
<1> QED BY <1>1, TypesKept, PTL

-----------------------------------------------------------------------------
(* What is in the index at hand *)

Searching == {"find", "load", "scan"}
Indexed == {"save", "write", "decode", "node", "live"}

\* The versions mapped are of the files named.
Mappings(p) ==
    LET v == proc[p].seen
        a == proc[p].req
    IN  /\ At(p, "map2") =>
               Fmt(p) = "double" /\ \E i \in DOMAIN Contents[a.source] : v = <<i>>
        /\ proc[p].pc \in Searching \cup Indexed =>
               IF Fmt(p) = "single" THEN \E i \in DOMAIN Contents[a.source] : v = <<i>>
               ELSE \E i \in DOMAIN Contents[a.source], j \in DOMAIN Contents[a.dependent] :
                        v = <<i, j>>

Sizes(p) == [i \in DOMAIN proc[p].seen |-> Mapped(p, i).size]

Good(x, fmt, sizes) == x \in IndexType(fmt) /\ Searchable(x, fmt) /\ Inside(x, fmt, sizes)

Data(p) ==
    /\ Mappings(p)
    /\ proc[p].buf \in Seq(Int) /\ proc[p].pos \in Nat
    /\ IF proc[p].pc \in Indexed THEN Good(proc[p].index, Fmt(p), Sizes(p))
       ELSE proc[p].index = <<>>

Cells == \A i \in Inodes : disk[i] \in Seq(Int)

DataInv == (\A p \in Procs : Data(p)) /\ Cells

\* A process that goes on to where the same is asked of its data.
LEMMA GoesOn ==
  ASSUME NEW p, Data(p),
         proc'[p].req = proc[p].req, proc'[p].seen = proc[p].seen,
         proc'[p].index = proc[p].index, proc'[p].buf \in Seq(Int), proc'[p].pos \in Nat,
         \E C \in {Searching, Indexed} : proc[p].pc \in C /\ proc'[p].pc \in C
  PROVE  Data(p)'
<1>1. /\ ~At(p, "map2")' /\ proc[p].pc \in Searching \cup Indexed
      /\ (proc'[p].pc \in Indexed) = (proc[p].pc \in Indexed)
  BY DEF Searching, Indexed, At
<1>2. Fmt(p)' = Fmt(p)
  BY DEF Fmt
<1>3. Named(p)' = Named(p)
  BY <1>2 DEF Named
<1>4. Sizes(p)' = Sizes(p)
  BY <1>3 DEF Sizes, Mapped
<1>5. Mappings(p)'
  BY <1>1, <1>2 DEF Data, Mappings
<1> QED BY <1>1, <1>2, <1>4, <1>5 DEF Data

LEMMA OthersData ==
  ASSUME DataInv, ProcsInv, NEW p \in Procs, NEW r, Step(p, r), Data(p)'
  PROVE  \A q \in Procs : Data(q)'
<1>1. \A q \in Procs : q # p => proc'[q] = proc[q]
  BY DEF Step, ProcsInv
<1>2. ASSUME NEW q \in Procs, q # p PROVE Data(q)'
  <2>1. proc'[q] = proc[q] /\ Data(q)
    BY <1>1, <1>2 DEF DataInv
  <2>2. Fmt(q)' = Fmt(q)
    BY <2>1 DEF Fmt
  <2>3. Sizes(q)' = Sizes(q)
    BY <2>1, <2>2 DEF Sizes, Mapped, Named
  <2> QED BY <2>1, <2>2, <2>3 DEF Data, Mappings, At
<1> QED BY <1>2

LEMMA DataMoves ==
  ASSUME DataInv, ProcsInv, NEW p \in Procs, NEW r, Step(p, r), Data(p)', UNCHANGED disk
  PROVE  DataInv'
BY OthersData DEF DataInv, Cells

LEMMA LeaveData ==
  ASSUME DataInv, ProcsInv, NEW p \in Procs, NEW held, Leave(p, held), UNCHANGED disk
  PROVE  DataInv'
<1> DEFINE r == [Idle EXCEPT !.own = held, !.opens = proc[p].opens]
<1>1. /\ proc'[p].pc = "idle" /\ proc'[p].index = <<>>
      /\ proc'[p].buf = <<>> /\ proc'[p].pos = 0
  BY DEF Leave, Step, ProcsInv, With, Idle
<1>2. Data(p)'
  BY <1>1 DEF Data, Mappings, At, Searching, Indexed
<1> QED BY <1>2, DataMoves DEF Leave

LEMMA MappedSizes ==
  ASSUME TypeInv, DataInv, NEW p \in Procs, proc[p].pc \in Searching \cup Indexed
  PROVE  /\ Key(p) \in Seq(Int) /\ Len(Key(p)) = KeyLength(Fmt(p))
         /\ SizesIn(Fmt(p), Key(p)) = Sizes(p)
         /\ IF Fmt(p) = "single"
            THEN \E v \in DOMAIN Contents[proc[p].req.source] :
                     /\ proc[p].seen = <<v>>
                     /\ Sizes(p) = <<Contents[proc[p].req.source][v].size>>
            ELSE \E v \in DOMAIN Contents[proc[p].req.source],
                    w \in DOMAIN Contents[proc[p].req.dependent] :
                     /\ proc[p].seen = <<v, w>>
                     /\ Sizes(p) = <<Contents[proc[p].req.source][v].size,
                                     Contents[proc[p].req.dependent][w].size>>
<1> DEFINE a == proc[p].req
           seen == proc[p].seen
<1>1. /\ a.source \in DOMAIN Contents /\ Fmt(p) \in Formats
      /\ Fmt(p) = "double" => a.dependent \in DOMAIN Contents
  <2>1. ~At(p, "idle")
    BY DEF At, Searching, Indexed
  <2> QED BY <2>1, SidecarNamed
<1>2. \A f \in DOMAIN Contents : \A v \in DOMAIN Contents[f] :
          Contents[f][v].size \in Int /\ Contents[f][v].mtime \in Int
  <2> SUFFICES ASSUME NEW f \in DOMAIN Contents, NEW v \in DOMAIN Contents[f]
               PROVE  Contents[f][v] \in [size : Nat, mtime : Int, annexb : BOOLEAN]
    OBVIOUS
  <2>1. Contents[f] \in Seq([size : Nat, mtime : Int, annexb : BOOLEAN])
    BY FilesAssumption
  <2> QED BY <2>1, ElementType
<1>3. Mappings(p)
  BY DEF DataInv, Data
<1>4. CASE Fmt(p) = "single"
  <2>1. PICK v \in DOMAIN Contents[a.source] : seen = <<v>>
    BY <1>3, <1>4 DEF Mappings
  <2>2. Named(p) = <<a.source>>
    BY <1>4 DEF Named
  <2>3. Mapped(p, 1) = Contents[a.source][v]
    BY <2>1, <2>2 DEF Mapped
  <2> DEFINE c == Contents[a.source][v]
  <2>4. c.size \in Int /\ c.mtime \in Int
    BY <1>1, <1>2
  <2>5. Key(p) = <<c.size, c.mtime>>
    BY <1>4, <2>3 DEF Key, KeyOf
  <2>6. Sizes(p) = <<c.size>>
    <3>1. DOMAIN seen = {1}
      BY <2>1
    <3>2. Sizes(p) = [i \in {1} |-> c.size]
      BY <2>3, <3>1 DEF Sizes
    <3> HIDE DEF c
    <3>3. [i \in {1} |-> c.size] = <<c.size>>
      OBVIOUS
    <3> QED BY <3>2, <3>3
  <2> HIDE DEF c
  <2>7. /\ Key(p) \in Seq(Int) /\ Len(Key(p)) = 2 /\ Key(p)[1] = c.size
    BY <2>4, <2>5
  <2> QED BY <1>4, <2>1, <2>6, <2>7 DEF KeyLength, SizesIn, c
<1>5. CASE Fmt(p) = "double"
  <2>1. PICK v \in DOMAIN Contents[a.source], w \in DOMAIN Contents[a.dependent] : seen = <<v, w>>
    BY <1>3, <1>5 DEF Mappings
  <2>2. Named(p) = <<a.source, a.dependent>>
    BY <1>5 DEF Named
  <2>3. Mapped(p, 1) = Contents[a.source][v] /\ Mapped(p, 2) = Contents[a.dependent][w]
    BY <2>1, <2>2 DEF Mapped
  <2> DEFINE c == Contents[a.source][v]
             d == Contents[a.dependent][w]
  <2>4. c.size \in Int /\ c.mtime \in Int /\ d.size \in Int /\ d.mtime \in Int
    BY <1>1, <1>2, <1>5
  <2>5. Key(p) = <<c.size, c.mtime>> \o <<d.size, d.mtime>>
    BY <1>5, <2>3 DEF Key, KeyOf
  <2>6. Sizes(p) = <<c.size, d.size>>
    <3>1. DOMAIN seen = {1, 2}
      BY <2>1
    <3>2. Sizes(p) = [i \in {1, 2} |-> Mapped(p, i).size]
      BY <3>1 DEF Sizes
    <3>3. Mapped(p, 1).size = c.size /\ Mapped(p, 2).size = d.size
      BY <2>3
    <3> HIDE DEF c, d
    <3>4. [i \in {1, 2} |-> Mapped(p, i).size] = <<c.size, d.size>>
      BY <3>3
    <3> QED BY <3>2, <3>4
  <2> HIDE DEF c, d
  <2>7. /\ Key(p) \in Seq(Int) /\ Len(Key(p)) = 4 /\ Key(p)[1] = c.size /\ Key(p)[3] = d.size
    BY <2>4, <2>5
  <2> QED BY <1>5, <2>1, <2>6, <2>7 DEF KeyLength, SizesIn, c, d
<1> QED BY <1>1, <1>4, <1>5 DEF Formats

\* A scan, though it may run out of memory, finds what can be relied upon.
LEMMA CutShort ==
  ASSUME NEW fmt \in Formats, NEW sizes, NEW x, Good(x, fmt, sizes), NEW n \in 0..Len(x.idx)
  PROVE  Good([x EXCEPT !.idx = SubSeq(x.idx, 1, n)], fmt, sizes)
<1> DEFINE idx == x.idx
           cut == SubSeq(x.idx, 1, n)
           y == [x EXCEPT !.idx = cut]
<1>1. x \in IndexType(fmt) /\ idx \in Seq([1..3 -> Int])
  BY DEF Good, IndexType
<1>2. /\ cut \in Seq([1..3 -> Int]) /\ DOMAIN cut \subseteq DOMAIN idx
      /\ \A i \in DOMAIN cut : cut[i] = idx[i]
  <2> HIDE DEF idx
  <2>1. idx \in Seq([1..3 -> Int]) /\ n \in 0..Len(idx) /\ cut = SubSeq(idx, 1, n)
    BY <1>1 DEF idx
  <2> HIDE DEF cut
  <2> QED BY <2>1, SMTT(30)
<1>3. /\ y.num_pics = x.num_pics /\ y.spans = x.spans /\ y.ps = x.ps /\ y.idx = cut
      /\ y \in IndexType(fmt)
  <2> HIDE DEF cut
  <2> QED BY <1>1, <1>2 DEF IndexType
<1> HIDE DEF cut, y
<1>4. Searchable(y, fmt)
  BY <1>2, <1>3 DEF Good, Searchable
<1>5. Inside(y, fmt, sizes)
  BY <1>2, <1>3 DEF Good, Inside
<1> QED BY <1>3, <1>4, <1>5 DEF Good, y, cut

LEMMA ScanIsGood ==
  ASSUME TypeInv, DataInv, NEW p \in Procs, At(p, "scan"),
         NEW x \in ScanResults(Fmt(p), proc[p].seen), x.num_pics > 0
  PROVE  Good(x, Fmt(p), Sizes(p))
<1> DEFINE a == proc[p].req
           whole == ScanOf(Fmt(p), proc[p].seen)
<1>1. /\ a \in scene.requests /\ a.source # "" /\ scene \in Scenes
      /\ Fmt(p) \in Formats
  <2>1. ~At(p, "idle")
    BY DEF At
  <2> QED BY <2>1, SidecarNamed DEF TypeInv, ProcsInv, Whole
<1>2. proc[p].pc \in Searching \cup Indexed
  BY DEF At, Searching
<1>3. Sound(whole, Fmt(p), Sizes(p))
  <2>1. CASE Fmt(p) = "single"
    <3>1. PICK v \in DOMAIN Contents[a.source] :
             proc[p].seen = <<v>> /\ Sizes(p) = <<Contents[a.source][v].size>>
      BY <1>2, <2>1, MappedSizes
    <3>2. a.dependent = ""
      BY <2>1 DEF Fmt
    <3>3. Sound(ScanOf("single", <<v>>), "single", <<Contents[a.source][v].size>>)
      BY <1>1, <3>2, ScanAssumption
    <3> QED BY <2>1, <3>1, <3>3
  <2>2. CASE Fmt(p) = "double"
    <3>1. PICK v \in DOMAIN Contents[a.source], w \in DOMAIN Contents[a.dependent] :
             /\ proc[p].seen = <<v, w>>
             /\ Sizes(p) = <<Contents[a.source][v].size, Contents[a.dependent][w].size>>
      BY <1>2, <2>2, MappedSizes
    <3>2. a.dependent # ""
      BY <2>2 DEF Fmt
    <3>3. Sound(ScanOf("double", <<v, w>>), "double",
                <<Contents[a.source][v].size, Contents[a.dependent][w].size>>)
      BY <1>1, <3>2, ScanAssumption
    <3> QED BY <2>2, <3>1, <3>3
  <2> QED BY <1>1, <2>1, <2>2 DEF Formats
<1>4. x.num_pics = whole.num_pics
  <2>1. CASE x = whole
    BY <2>1
  <2>2. CASE \E n \in 0..Len(whole.idx) : x = [whole EXCEPT !.idx = SubSeq(whole.idx, 1, n)]
    <3>1. whole \in IndexType(Fmt(p))
      BY <1>3 DEF Sound
    <3> HIDE DEF whole
    <3> QED BY <2>2, <3>1 DEF IndexType
  <2> QED BY <2>1, <2>2 DEF ScanResults
<1>5. Good(whole, Fmt(p), Sizes(p))
  BY <1>3, <1>4 DEF Sound, Good
<1>6. CASE x = whole
  BY <1>5, <1>6
<1>7. CASE \E n \in 0..Len(whole.idx) : x = [whole EXCEPT !.idx = SubSeq(whole.idx, 1, n)]
  <2>1. PICK n \in 0..Len(whole.idx) : x = [whole EXCEPT !.idx = SubSeq(whole.idx, 1, n)]
    BY <1>7
  <2>2. \A fmt \in Formats : \A sizes, y : Good(y, fmt, sizes) /\ n \in 0..Len(y.idx)
             => Good([y EXCEPT !.idx = SubSeq(y.idx, 1, n)], fmt, sizes)
    BY CutShort
  <2> HIDE DEF whole
  <2>3. Good([whole EXCEPT !.idx = SubSeq(whole.idx, 1, n)], Fmt(p), Sizes(p))
    BY <1>1, <1>5, <2>2
  <2> QED BY <2>1, <2>3
<1> QED BY <1>6, <1>7 DEF ScanResults

LEMMA Larger ==
  ASSUME NEW a \in Int, NEW b \in Int
  PROVE  Max({a, b}) = IF a >= b THEN a ELSE b
<1>1. CASE a >= b
  BY <1>1 DEF Max
<1>2. CASE a < b
  BY <1>2 DEF Max
<1> QED BY <1>1, <1>2

LEMMA WrittenType ==
  ASSUME NEW f \in Seq(Int), NEW pos \in Nat, NEW cells \in Seq(Int)
  PROVE  WriteAt(f, pos, cells) \in Seq(Int)
<1> DEFINE n == Max({Len(f), pos + Len(cells)})
           Cell(i) == IF i - pos \in DOMAIN cells THEN cells[i - pos]
                      ELSE IF i <= Len(f) THEN f[i] ELSE 0
<1>1. n \in Nat
  <2>1. Len(f) \in Nat /\ pos + Len(cells) \in Nat
    OBVIOUS
  <2> QED BY <2>1, Larger
<1>2. \A i \in 1..n : Cell(i) \in Int
  <2> HIDE DEF n
  <2> QED BY <1>1
<1>3. WriteAt(f, pos, cells) = [i \in 1..n |-> Cell(i)]
  BY DEF WriteAt
<1> HIDE DEF n, Cell
<1> QED BY <1>1, <1>2, <1>3

LEMMA OpeningData ==
  ASSUME TypeInv, DataInv, UNCHANGED scene, NEW p \in Procs, MapBase(p) \/ MapDependent(p)
  PROVE  DataInv'
<1>0. ProcsInv /\ FilesInv /\ Data(p) /\ Whole(p)
  BY DEF TypeInv, DataInv, ProcsInv
<1>1. UNCHANGED disk /\ proc[p].pc \in {"map", "map2"}
  BY DEF MapBase, MapDependent, Close, FilesKept, At
<1>2. ASSUME NEW held, Leave(p, held) PROVE DataInv'
  BY <1>0, <1>1, <1>2, LeaveData
<1>3. ~At(p, "idle") /\ proc[p].index = <<>>
  BY <1>0, <1>1 DEF At, Data, Indexed
<1>4. CASE MapBase(p)
  <2>1. CASE Step(p, [pc |-> IF Fmt(p) = "single" THEN "find" ELSE "map2",
                      own |-> Own(p, {"map"}), seen |-> <<version[proc[p].req.source]>>])
    <3>1. /\ proc'[p].pc = IF Fmt(p) = "single" THEN "find" ELSE "map2"
          /\ proc'[p].seen = <<version[proc[p].req.source]>>
          /\ proc'[p].req = proc[p].req /\ proc'[p].index = proc[p].index
          /\ proc'[p].buf = proc[p].buf /\ proc'[p].pos = proc[p].pos
      BY <1>0, <2>1 DEF Step, With, Idle, ProcsInv
    <3>2. version[proc[p].req.source] \in DOMAIN Contents[proc[p].req.source]
      BY <1>0, <1>3, SidecarNamed DEF FilesInv
    <3>3. Fmt(p)' = Fmt(p) /\ Fmt(p) \in Formats
      BY <1>3, <3>1, SidecarNamed DEF Fmt
    <3>4. Mappings(p)'
      BY <3>1, <3>2, <3>3 DEF Mappings, At, Formats, Searching, Indexed
    <3>5. Data(p)'
      BY <1>0, <1>3, <3>1, <3>4 DEF Data, Indexed
    <3> QED BY <1>0, <1>1, <2>1, <3>5, DataMoves
  <2> QED BY <1>2, <1>4, <2>1 DEF MapBase
<1>5. CASE MapDependent(p)
  <2>1. CASE Close(p, {})
    BY <1>2, <2>1 DEF Close
  <2>2. CASE Step(p, [pc |-> "find", own |-> Own(p, {"map2"}),
                      seen |-> <<proc[p].seen[1], version[proc[p].req.dependent]>>])
    <3>1. /\ proc'[p].pc = "find"
          /\ proc'[p].seen = <<proc[p].seen[1], version[proc[p].req.dependent]>>
          /\ proc'[p].req = proc[p].req /\ proc'[p].index = proc[p].index
          /\ proc'[p].buf = proc[p].buf /\ proc'[p].pos = proc[p].pos
      BY <1>0, <2>2 DEF Step, With, Idle, ProcsInv
    <3>2. PICK i \in DOMAIN Contents[proc[p].req.source] : proc[p].seen = <<i>>
      BY <1>0, <1>5 DEF MapDependent, Data, Mappings
    <3>3. Fmt(p) = "double" /\ Fmt(p)' = Fmt(p)
      BY <1>0, <1>5, <3>1 DEF MapDependent, Data, Mappings, Fmt
    <3>4. version[proc[p].req.dependent] \in DOMAIN Contents[proc[p].req.dependent]
      BY <1>0, <1>3, <3>3, SidecarNamed DEF FilesInv
    <3>5. proc'[p].seen = <<i, version[proc[p].req.dependent]>>
      BY <3>1, <3>2
    <3>6. Mappings(p)'
      BY <3>1, <3>3, <3>4, <3>5 DEF Mappings, At, Searching, Indexed
    <3>7. Data(p)'
      BY <1>0, <1>3, <3>1, <3>6 DEF Data, Indexed
    <3> QED BY <1>0, <1>1, <2>2, <3>7, DataMoves
  <2> QED BY <1>5, <2>1, <2>2 DEF MapDependent
<1> QED BY <1>4, <1>5

LEMMA LoadData ==
  ASSUME TypeInv, DataInv, UNCHANGED scene, NEW p \in Procs, FindSidecar(p) \/ Read(p) \/ Judge(p)
  PROVE  DataInv'
<1>0. ProcsInv /\ FilesInv /\ Data(p) /\ Cells /\ Opened(p)
  BY DEF TypeInv, DataInv, ProcsInv
<1>1. UNCHANGED disk /\ proc[p].pc \in Searching
  BY DEF FindSidecar, Read, Judge, FilesKept, At, Searching
<1>2. CASE FindSidecar(p)
  <2>1. PICK new : Step(p, new) /\ DOMAIN new \subseteq {"pc", "own", "ino"}
                   /\ "pc" \in DOMAIN new /\ new.pc \in Searching
    <3>1. CASE Step(p, [pc |-> "scan"])
      BY <3>1 DEF Searching
    <3>2. CASE Step(p, [pc |-> "scan", own |-> Own(p, {"path"})])
      BY <3>2 DEF Searching
    <3>3. CASE Step(p, [pc |-> "load", own |-> Own(p, {"path", "file"}), ino |-> entry[Sidecar(p)]])
      BY <3>3 DEF Searching
    <3> QED BY <1>2, <3>1, <3>2, <3>3 DEF FindSidecar
  <2>2. /\ proc'[p].pc \in Searching /\ proc'[p].seen = proc[p].seen
        /\ proc'[p].req = proc[p].req /\ proc'[p].index = proc[p].index
        /\ proc'[p].buf = proc[p].buf /\ proc'[p].pos = proc[p].pos
    BY <1>0, <2>1 DEF Step, With, Idle, ProcsInv
  <2>3. Data(p)'
    BY <1>0, <1>1, <2>2, GoesOn DEF Data
  <2> QED BY <1>0, <1>1, <2>1, <2>3, DataMoves
<1>3. CASE Read(p)
  <2> DEFINE f == disk[proc[p].ino]
             n == Len(proc[p].buf)
             m == Min({n + Block, Len(f)})
             more == proc[p].buf \o SubSeq(f, n + 1, m)
  <2>1. Step(p, [buf |-> more]) /\ n < Len(f)
    <3>1. ~(n >= Len(f)) /\ Step(p, [buf |-> more])
      BY <1>3 DEF Read, AtEof
    <3>2. f \in Seq(Int) /\ proc[p].buf \in Seq(Int)
      BY <1>0, <1>3 DEF Read, At, Opened, Cells, Data
    <3> HIDE DEF f
    <3> QED BY <3>1, <3>2
  <2>2. /\ proc'[p].pc = proc[p].pc /\ proc'[p].seen = proc[p].seen
        /\ proc'[p].req = proc[p].req /\ proc'[p].index = proc[p].index
        /\ proc'[p].buf = more /\ proc'[p].pos = proc[p].pos
    <3> HIDE DEF more
    <3> QED BY <1>0, <2>1 DEF Step, With, Idle, ProcsInv
  <2>3. f \in Seq(Int) /\ proc[p].buf \in Seq(Int)
    BY <1>0, <1>3 DEF Read, At, Opened, Cells, Data
  <2>4. more \in Seq(Int)
    <3>1. n \in Nat /\ Len(f) \in Nat /\ Block \in Nat
      BY <2>3, LifeAssumption
    <3>2. m \in 0..Len(f)
      <4> HIDE DEF f, n
      <4> QED BY <3>1, Smaller
    <3>3. n + 1 \in 1..Len(f)
      BY <2>1, <3>1
    <3> HIDE DEF f, n, m
    <3>4. SubSeq(f, n + 1, m) \in Seq(Int)
      BY <2>3, <3>2, <3>3
    <3> QED BY <2>3, <3>4
  <2>5. Data(p)'
    <3> HIDE DEF more
    <3>1. proc'[p].buf \in Seq(Int) /\ proc'[p].pos \in Nat /\ proc'[p].pc \in Searching
      BY <1>0, <1>1, <2>2, <2>4 DEF Data
    <3> QED BY <1>0, <1>1, <2>2, <3>1, GoesOn
  <2> QED BY <1>0, <1>1, <2>1, <2>5, DataMoves
<1>4. CASE Judge(p)
  <2>1. CASE Step(p, [pc |-> "scan", own |-> Less(p, {"file"}), ino |-> NoFile, buf |-> <<>>])
    <3>1. /\ proc'[p].pc = "scan" /\ proc'[p].seen = proc[p].seen
          /\ proc'[p].req = proc[p].req /\ proc'[p].index = proc[p].index
          /\ proc'[p].buf = <<>> /\ proc'[p].pos = proc[p].pos
      BY <1>0, <2>1 DEF Step, With, Idle, ProcsInv
    <3>2. Data(p)'
      <4>1. proc'[p].buf \in Seq(Int) /\ proc'[p].pos \in Nat /\ proc'[p].pc \in Searching
        BY <1>0, <3>1 DEF Data, Searching
      <4> QED BY <1>0, <1>1, <3>1, <4>1, GoesOn
    <3> QED BY <1>0, <1>1, <2>1, <3>2, DataMoves
  <2>2. ASSUME NEW own, NEW torn, Accepts(proc[p].buf, Fmt(p), Key(p)),
               Step(p, [pc |-> "decode", index |-> IndexIn(proc[p].buf, Fmt(p), Key(p)),
                        own |-> own, torn |-> torn, ino |-> NoFile, buf |-> <<>>])
        PROVE  DataInv'
    <3> DEFINE x == IndexIn(proc[p].buf, Fmt(p), Key(p))
    <3>1. /\ proc'[p].pc = "decode" /\ proc'[p].seen = proc[p].seen
          /\ proc'[p].req = proc[p].req /\ proc'[p].index = x
          /\ proc'[p].buf = <<>> /\ proc'[p].pos = proc[p].pos
      <4> HIDE DEF x
      <4> QED BY <1>0, <2>2 DEF Step, With, Idle, ProcsInv, x
    <3>2. /\ Key(p) \in Seq(Int) /\ Len(Key(p)) = KeyLength(Fmt(p))
          /\ SizesIn(Fmt(p), Key(p)) = Sizes(p)
      BY <1>1, MappedSizes
    <3>3. Fmt(p) \in Formats /\ proc[p].buf \in Seq(Int)
      BY <1>0, <1>1, SidecarNamed DEF At, Searching, Data
    <3>4. Good(x, Fmt(p), Sizes(p))
      BY <2>2, <3>2, <3>3, AcceptedIsSound DEF Good
    <3>5. Fmt(p)' = Fmt(p)
      BY <3>1 DEF Fmt
    <3>6. Sizes(p)' = Sizes(p)
      BY <3>1, <3>5 DEF Sizes, Mapped, Named
    <3>7. Mappings(p)'
      BY <1>0, <1>1, <3>1, <3>5 DEF Data, Mappings, At, Indexed
    <3> HIDE DEF x
    <3>8. Data(p)'
      BY <1>0, <3>1, <3>4, <3>5, <3>6, <3>7 DEF Data, Indexed
    <3> QED BY <1>0, <1>1, <2>2, <3>8, DataMoves
  <2> QED BY <1>4, <2>1, <2>2 DEF Judge
<1> QED BY <1>2, <1>3, <1>4

LEMMA ScanData ==
  ASSUME TypeInv, DataInv, UNCHANGED scene, NEW p \in Procs, Scan(p)
  PROVE  DataInv'
<1>0. ProcsInv /\ Data(p)
  BY DEF TypeInv, DataInv
<1>1. UNCHANGED disk /\ At(p, "scan") /\ proc[p].pc \in Searching
  BY DEF Scan, Close, FilesKept, At, Searching
<1>2. CASE Close(p, {"path"})
  BY <1>0, <1>1, <1>2, LeaveData DEF Close
<1>3. ASSUME NEW x \in ScanResults(Fmt(p), proc[p].seen), x.num_pics > 0,
             NEW pc \in {"save", "decode"}, NEW own,
             Step(p, [pc |-> pc, own |-> own, index |-> x])
      PROVE  DataInv'
  <2>1. /\ proc'[p].pc = pc /\ proc'[p].seen = proc[p].seen
        /\ proc'[p].req = proc[p].req /\ proc'[p].index = x
        /\ proc'[p].buf = proc[p].buf /\ proc'[p].pos = proc[p].pos
    BY <1>0, <1>3 DEF Step, With, Idle, ProcsInv
  <2>2. Good(x, Fmt(p), Sizes(p))
    BY <1>1, <1>3, ScanIsGood
  <2>3. Fmt(p)' = Fmt(p)
    BY <2>1 DEF Fmt
  <2>4. Sizes(p)' = Sizes(p)
    BY <2>1, <2>3 DEF Sizes, Mapped, Named
  <2>5. Mappings(p)'
    BY <1>0, <1>1, <1>3, <2>1, <2>3 DEF Data, Mappings, At, Indexed
  <2>6. Data(p)'
    BY <1>0, <1>3, <2>1, <2>2, <2>3, <2>4, <2>5 DEF Data, Indexed
  <2> QED BY <1>0, <1>1, <1>3, <2>6, DataMoves
<1> QED BY <1>2, <1>3 DEF Scan

LEMMA ToWriteType ==
  ASSUME TypeInv, DataInv, NEW p \in Procs, proc[p].pc \in Indexed
  PROVE  ToWrite(p) \in Seq(Int) /\ Len(ToWrite(p)) \in Nat
<1>1. Key(p) \in Seq(Int)
  BY MappedSizes
<1>2. proc[p].index \in IndexType(Fmt(p))
  BY DEF DataInv, Data, Good
<1>3. Fmt(p) \in Formats
  BY SidecarNamed DEF At, Indexed
<1>4. ToWrite(p) \in Seq(Int)
  BY <1>1, <1>2, <1>3, SavedType DEF ToWrite
<1> QED BY <1>4, ElementType

LEMMA SaveData ==
  ASSUME TypeInv, DataInv, UNCHANGED scene, NEW p \in Procs,
         StartSave(p) \/ Write(p) \/ EndSave(p) \/ SpoilSave(p)
  PROVE  DataInv'
<1>0. ProcsInv /\ FilesInv /\ Data(p) /\ Cells /\ Opened(p)
  BY DEF TypeInv, DataInv, ProcsInv
<1>1. proc[p].pc \in {"save", "write"} /\ proc[p].pc \in Indexed
  BY DEF StartSave, Write, EndSave, SpoilSave, At, Indexed
<1>2. PICK new : Step(p, new) /\ DOMAIN new \subseteq {"pc", "own", "ino", "pos"}
                 /\ ("pc" \in DOMAIN new => new.pc \in Indexed)
                 /\ ("pos" \in DOMAIN new => new.pos \in Nat)
  <2>1. CASE Step(p, [pc |-> "decode", own |-> Less(p, {"path"})])
    BY <2>1 DEF Indexed
  <2>2. ASSUME NEW i, Step(p, [pc |-> "write", own |-> Own(p, {"file"}), ino |-> i, pos |-> 0])
        PROVE  \E r : Step(p, r) /\ DOMAIN r \subseteq {"pc", "own", "ino", "pos"}
                      /\ ("pc" \in DOMAIN r => r.pc \in Indexed)
                      /\ ("pos" \in DOMAIN r => r.pos \in Nat)
    BY <2>2 DEF Indexed
  <2>3. CASE Saving(p)
    BY <2>3 DEF Indexed, Saving
  <2>4. CASE Write(p)
    <3> DEFINE to == Min({proc[p].pos + Block, Len(ToWrite(p))})
    <3>1. Step(p, [pos |-> to])
      BY <2>4 DEF Write
    <3>2. to \in Nat
      <4> DEFINE k == proc[p].pos
                 n == Len(ToWrite(p))
      <4>1. k + Block \in Nat /\ n \in Nat
        <5>1. k \in Nat /\ Block \in Nat
          BY <1>0, LifeAssumption DEF Data
        <5>2. n \in Nat
          BY <1>1, ToWriteType
        <5> QED BY <5>1, <5>2
      <4> HIDE DEF k, n
      <4>2. Min({k + Block, n}) \in Nat
        BY <4>1, Smaller
      <4> QED BY <4>2 DEF k, n
    <3> HIDE DEF to
    <3> QED BY <3>1, <3>2
  <2> QED BY <2>1, <2>2, <2>3, <2>4 DEF StartSave, EndSave, SpoilSave
<1>3. /\ proc'[p].pc \in Indexed /\ proc'[p].seen = proc[p].seen
      /\ proc'[p].req = proc[p].req /\ proc'[p].index = proc[p].index
      /\ proc'[p].buf = proc[p].buf /\ proc'[p].pos \in Nat
  BY <1>0, <1>1, <1>2 DEF Step, With, Idle, ProcsInv, Data
<1>4. Data(p)'
  BY <1>0, <1>1, <1>3, GoesOn DEF Data
<1>5. \A q \in Procs : Data(q)'
  BY <1>0, <1>2, <1>4, OthersData
<1>6. Cells'
  <2>1. CASE UNCHANGED disk
    BY <1>0, <2>1 DEF Cells
  <2>2. ASSUME NEW i, disk' = [disk EXCEPT ![i] = <<>>] PROVE Cells'
    BY <1>0, <2>2 DEF Cells, FilesInv
  <2>3. CASE Write(p)
    <3> DEFINE to == Min({proc[p].pos + Block, Len(ToWrite(p))})
               cells == SubSeq(ToWrite(p), proc[p].pos + 1, to)
               f == disk[proc[p].ino]
    <3>1. /\ proc[p].pos < Len(ToWrite(p))
          /\ disk' = [disk EXCEPT ![proc[p].ino] = WriteAt(f, proc[p].pos, cells)]
      BY <2>3 DEF Write
    <3>2. f \in Seq(Int) /\ proc[p].pos \in Nat /\ ToWrite(p) \in Seq(Int)
      BY <1>0, <1>1, <2>3, ToWriteType DEF Write, At, Opened, Cells, Data
    <3>3. cells \in Seq(Int)
      <4> DEFINE w == ToWrite(p)
                 k == proc[p].pos
      <4>1. k \in Nat /\ Len(w) \in Nat /\ k < Len(w) /\ w \in Seq(Int) /\ Block \in Nat
        BY <3>1, <3>2, LifeAssumption
      <4>2. to \in 0..Len(w)
        <5> HIDE DEF w, k
        <5>1. Min({k + Block, Len(w)}) \in 0..Len(w)
          BY <4>1, Smaller
        <5> QED BY <5>1 DEF w, k
      <4> HIDE DEF w, k, to
      <4>3. SubSeq(w, k + 1, to) \in Seq(Int)
        BY <4>1, <4>2
      <4> QED BY <4>3 DEF w, k
    <3> HIDE DEF cells, f
    <3>4. WriteAt(f, proc[p].pos, cells) \in Seq(Int)
      BY <3>2, <3>3, WrittenType
    <3> QED BY <1>0, <3>1, <3>4 DEF Cells, FilesInv
  <2> QED BY <2>1, <2>2, <2>3 DEF StartSave, EndSave, SpoilSave, FilesKept
<1> QED BY <1>5, <1>6 DEF DataInv

LEMMA LaterData ==
  ASSUME TypeInv, DataInv, UNCHANGED scene, NEW p \in Procs,
         FirstFrame(p) \/ NewFilter(p) \/ NewClip(p) \/ BeginCall(p) \/ EndCall(p) \/ FreeNode(p)
  PROVE  DataInv'
<1>0. ProcsInv /\ Data(p) /\ Whole(p)
  BY DEF TypeInv, DataInv, ProcsInv
<1>1. proc[p].pc \in Indexed
  <2>1. CASE EndCall(p)
    <3>1. proc[p].calls > 0
      BY <2>1 DEF EndCall
    <3>2. proc[p].calls # 0
      BY <3>1
    <3>3. At(p, "live")
      BY <1>0, <3>2 DEF Whole
    <3> QED BY <3>3 DEF At, Indexed
  <2> QED BY <2>1 DEF FirstFrame, NewFilter, NewClip, BeginCall, FreeNode, At, Indexed
<1>2. UNCHANGED disk
  BY DEF FirstFrame, NewFilter, NewClip, BeginCall, EndCall, FreeNode, Close, FilesKept
<1>3. ASSUME NEW besides, Close(p, besides) PROVE DataInv'
  BY <1>0, <1>2, <1>3, LeaveData DEF Close
<1>4. ASSUME NEW new, Step(p, new),
             DOMAIN new \subseteq {"pc", "own", "first", "ring", "info", "calls", "frame"},
             "pc" \in DOMAIN new => new.pc \in Indexed
      PROVE  DataInv'
  <2>1. /\ proc'[p].pc \in Indexed /\ proc'[p].seen = proc[p].seen
        /\ proc'[p].req = proc[p].req /\ proc'[p].index = proc[p].index
        /\ proc'[p].buf = proc[p].buf /\ proc'[p].pos = proc[p].pos
    BY <1>0, <1>1, <1>4 DEF Step, With, Idle, ProcsInv
  <2>2. Data(p)'
    BY <1>0, <1>1, <2>1, GoesOn DEF Data
  <2> QED BY <1>0, <1>2, <1>4, <2>2, DataMoves
<1>5. CASE FirstFrame(p)
  <2>1. ASSUME NEW own, NEW views, NEW n,
               Step(p, [pc |-> "node", own |-> own, first |-> views, ring |-> n])
        PROVE  DataInv'
    <3>1. PICK new : new = [pc |-> "node", own |-> own, first |-> views, ring |-> n]
      OBVIOUS
    <3>2. DOMAIN new = {"pc", "own", "first", "ring"} /\ new.pc \in Indexed /\ Step(p, new)
      BY <2>1, <3>1 DEF Indexed
    <3> QED BY <1>4, <3>2
  <2> QED BY <1>3, <1>5, <2>1 DEF FirstFrame
<1>6. CASE NewFilter(p)
  <2>1. ASSUME NEW i, NEW own, Step(p, [pc |-> "live", info |-> i, own |-> own]) PROVE DataInv'
    <3>1. PICK new : new = [pc |-> "live", info |-> i, own |-> own]
      OBVIOUS
    <3>2. DOMAIN new = {"pc", "info", "own"} /\ new.pc \in Indexed /\ Step(p, new)
      BY <2>1, <3>1 DEF Indexed
    <3> QED BY <1>4, <3>2
  <2> QED BY <1>3, <1>6, <2>1 DEF NewFilter
<1>7. CASE NewClip(p)
  <2>1. ASSUME NEW i, Step(p, [pc |-> "live", info |-> i]) PROVE DataInv'
    <3>1. PICK new : new = [pc |-> "live", info |-> i]
      OBVIOUS
    <3>2. DOMAIN new = {"pc", "info"} /\ new.pc \in Indexed /\ Step(p, new)
      BY <2>1, <3>1 DEF Indexed
    <3> QED BY <1>4, <3>2
  <2> QED BY <1>3, <1>7, <2>1 DEF NewClip
<1>8. ASSUME NEW n, NEW f, \/ Step(p, [calls |-> n, frame |-> f])
                           \/ Step(p, [calls |-> n])
      PROVE  DataInv'
  <2>1. PICK new : Step(p, new) /\ DOMAIN new \subseteq {"calls", "frame"}
    BY <1>8
  <2> QED BY <1>4, <2>1
<1>9. CASE BeginCall(p)
  BY <1>8, <1>9 DEF BeginCall
<1>10. CASE EndCall(p)
  BY <1>8, <1>10 DEF EndCall
<1>11. CASE FreeNode(p)
  BY <1>3, <1>11 DEF FreeNode
<1> QED BY <1>5, <1>6, <1>7, <1>9, <1>10, <1>11

LEMMA CreateData ==
  ASSUME TypeInv, DataInv, NEW p \in Procs, Create(p)
  PROVE  DataInv'
<1>0. ProcsInv /\ Data(p)
  BY DEF TypeInv, DataInv
<1>1. PICK a, b, n : /\ At(p, "idle") /\ UNCHANGED disk
                     /\ Step(p, [pc |-> "map", own |-> {"source"}, req |-> a,
                                 budget |-> b, opens |-> n])
  BY DEF Create, FilesKept
<1>2. /\ proc'[p].pc = "map" /\ proc'[p].index = proc[p].index
      /\ proc'[p].buf = proc[p].buf /\ proc'[p].pos = proc[p].pos
  BY <1>0, <1>1 DEF Step, With, Idle, ProcsInv
<1>3. Data(p)'
  BY <1>0, <1>1, <1>2 DEF Data, Mappings, At, Searching, Indexed
<1> QED BY <1>0, <1>1, <1>3, DataMoves

LEMMA InitData == Init => DataInv
<1> SUFFICES ASSUME Init PROVE DataInv
  OBVIOUS
<1>1. \A p \in Procs : Data(p)
  <2>1. \A p \in Procs : /\ proc[p].pc = "idle" /\ proc[p].index = <<>>
                         /\ proc[p].buf = <<>> /\ proc[p].pos = 0
    BY DEF Init, Idle
  <2>2. 0 \in Nat /\ <<>> \in Seq(Int) /\ "idle" \notin Searching \cup Indexed \cup {"map2"}
    BY DEF Searching, Indexed
  <2> QED BY <2>1, <2>2 DEF Data, Mappings, At
<1>2. Cells
  <2>1. PICK left \in scene.leftovers : disk = [i \in Inodes |-> IF i = 1 THEN left ELSE <<>>]
    BY DEF Init
  <2>2. left \in Seq(Int)
    BY <2>1, FilesAssumption DEF Init
  <2> QED BY <2>1, <2>2 DEF Cells
<1> QED BY <1>1, <1>2 DEF DataInv

LEMMA DataKept == TypeInv /\ DataInv /\ [Next]_vars => DataInv'
<1> SUFFICES ASSUME TypeInv, DataInv, [Next]_vars PROVE DataInv'
  OBVIOUS
<1>1. ASSUME UNCHANGED scene, NEW p \in Procs, Opening(p) PROVE DataInv'
  BY <1>1, OpeningData, LoadData, ScanData, SaveData, LaterData DEF Opening
<1>2. ASSUME UNCHANGED scene, NEW p \in Procs, Serving(p) PROVE DataInv'
  BY <1>2, CreateData, LaterData DEF Serving
<1>3. ASSUME NEW p \in Procs, Crash(p) PROVE DataInv'
  BY <1>3, LeaveData DEF Crash, TypeInv
<1>4. CASE UNCHANGED <<proc, disk>>
  BY <1>4 DEF DataInv, Cells, Data, Mappings, Sizes, Mapped, Named, Fmt, At
<1>5. ASSUME NEW f \in DOMAIN Contents, Replace(f) PROVE DataInv'
  BY <1>4, <1>5 DEF Replace
<1>6. CASE UNCHANGED vars
  BY <1>4, <1>6 DEF vars
<1> QED BY <1>1, <1>2, <1>3, <1>5, <1>6 DEF Next

\* Whatever lies in a sidecar's place, whoever wrote it and however far, what an
\* instance works with points nowhere outside of its source, and its seek
\* points can be searched.
THEOREM LoadedAlwaysSafe == Spec => []LoadedSafe
<1>1. TypeInv /\ DataInv => LoadedSafe
  BY DEF DataInv, Data, Good, Sizes, LoadedSafe
<1> QED BY <1>1, InitHolds, StepHolds, InitData, DataKept, PTL DEF Spec
============================================================================
