----------------------------- MODULE LifeProofs -----------------------------
(***************************************************************************)
(* Theorems about FilterLife beyond its types.  What an inode holds while  *)
(* processes write, read, fail and die over it: what is loaded is what was *)
(* scanned, and no part of a sidecar is left to be taken for the whole.    *)
(* The numbers of an instance: the size of its cache, and what its host is *)
(* told of the clip.  And the frames a host is handed: views of any size,  *)
(* whose planes do not overlap in a slot, and of which every byte a frame  *)
(* is to show is written with the sample meant.                            *)
(***************************************************************************)
EXTENDS SidecarProofs

-----------------------------------------------------------------------------
(* Addresses *)

\* A row and the place in it are found back from an address.
LEMMA Quotient ==
  ASSUME NEW n \in Nat \ {0}, NEW q \in Nat, NEW r \in 0..n - 1
  PROVE  (q * n + r) % n = r /\ (q * n + r) \div n = q
<1> DEFINE k == q * n + r
           d == k \div n
           m == k % n
<1>1. k \in Nat
  BY SMT
<1>2. m \in 0..n - 1 /\ k = n * d + m /\ d \in Int
  <2> HIDE DEF k
  <2> QED BY <1>1
<1>3. n * (d - q) = r - m
  <2>1. n * (d - q) = n * d - n * q /\ n * q = q * n
    <3> HIDE DEF d
    <3> QED BY <1>2
  <2> HIDE DEF d, m
  <2> DEFINE a == n * d
             b == n * q
             e == n * (d - q)
  <2>2. /\ k = b + r /\ k = a + m /\ e = a - b /\ a \in Int /\ b \in Int
    BY <1>2, <2>1
  <2> HIDE DEF a, b, e, k
  <2>3. e = r - m
    BY <1>2, <2>2
  <2> QED BY <2>3 DEF e
<1>4. ASSUME NEW z \in Int, z >= 1 PROVE n * z >= n
  BY <1>4
<1>5. ASSUME NEW z \in Int, z <= -1 PROVE n * z <= -n
  BY <1>5
<1>6. d - q = 0
  <2> DEFINE z == d - q
             y == n * z
  <2>1. z \in Int /\ y \in Int /\ y = r - m /\ (z >= 1 => y >= n) /\ (z <= -1 => y <= -n)
    BY <1>2, <1>3, <1>4, <1>5
  <2> HIDE DEF y, z, m
  <2>2. z = 0
    BY <1>2, <2>1
  <2> QED BY <2>2 DEF z
<1>7. d = q
  <2> HIDE DEF d
  <2> QED BY <1>2, <1>6
<1>8. m = r
  <2>1. n * (d - q) = 0
    <3> HIDE DEF d
    <3> QED BY <1>6
  <2> HIDE DEF m
  <2> QED BY <1>2, <1>3, <2>1
<1> QED BY <1>7, <1>8

\* The last byte of h rows of w.
LEMMA InRows ==
  ASSUME NEW w \in Nat, NEW h \in Nat, NEW x \in 0..w - 1, NEW y \in 0..h - 1
  PROVE  y * w + x \in 0..w * h - 1
<1>1. y * w + x \in Nat
  BY SMT
<1>2. w * h = w * (h - 1 - y) + w * y + w
  BY SMT
<1>3. w * (h - 1 - y) >= 0 /\ w * y = y * w
  BY SMT
<1> DEFINE a == w * (h - 1 - y)
           b == y * w
           c == w * h
<1>4. /\ a \in Int /\ b \in Int /\ c \in Int
      /\ c = a + b + w /\ a >= 0 /\ b + x >= 0
  BY <1>1, <1>2, <1>3, SMT
<1> HIDE DEF a, b, c
<1>5. b + x \in 0..c - 1
  BY <1>4
<1> QED BY <1>5 DEF b, c

LEMMA OverHas ==
  ASSUME NEW f, NEW g
  PROVE  /\ DOMAIN Over(f, g) = DOMAIN f \cup DOMAIN g
         /\ \A a \in DOMAIN f : Over(f, g)[a] = f[a]
         /\ \A a \in DOMAIN g : a \notin DOMAIN f => Over(f, g)[a] = g[a]
BY DEF Over

-----------------------------------------------------------------------------
(* Planes *)

LEMMA PlaneTypes ==
  ASSUME NEW plane \in Planes
  PROVE  /\ PlaneWidth(plane) \in Nat /\ PlaneHeight(plane) \in Nat
         /\ Bytes(plane) \in Nat
<1>1. /\ Width \in Nat /\ Height \in Nat
      /\ Width \div 2 \in Nat /\ Height \div 2 \in Nat
  BY ViewAssumption
<1>2. PlaneWidth(plane) \in Nat /\ PlaneHeight(plane) \in Nat
  BY <1>1 DEF PlaneWidth, PlaneHeight
<1>3. \A m, n \in Nat : m * n \in Nat
  BY SMT
<1> QED BY <1>2, <1>3 DEF Bytes

\* Memory c is the samples that read gives for the places of R, and nothing else.
Written(c, R, to, stride, read) ==
    /\ \A a : a \in DOMAIN c <=> \E at \in R : a = to + at[2] * stride + at[1]
    /\ \A at \in R : c[to + at[2] * stride + at[1]] = read[at]

LEMMA PlaneCopied ==
  ASSUME NEW plane \in Planes, NEW to \in Nat, NEW stride \in Nat,
         PlaneWidth(plane) <= stride, NEW read
  PROVE  Written(copy_plane(to, stride, plane, read), At2D(plane), to, stride, read)
<1> DEFINE c == copy_plane(to, stride, plane, read)
<1>1. DOMAIN c = {to + at[2] * stride + at[1] : at \in At2D(plane)}
  BY DEF copy_plane
<1>2. ASSUME NEW at \in At2D(plane) PROVE c[to + at[2] * stride + at[1]] = read[at]
  <2> DEFINE x == at[1]
             y == at[2]
             a == to + y * stride + x
  <2>1. /\ x \in 0..PlaneWidth(plane) - 1 /\ y \in 0..PlaneHeight(plane) - 1
        /\ at = <<x, y>>
    BY DEF At2D
  <2>2. x \in 0..stride - 1 /\ stride \in Nat \ {0} /\ y \in Nat
    <3> HIDE DEF x, y
    <3> QED BY <2>1, PlaneTypes
  <2>3. a - to = y * stride + x
    <3> DEFINE z == y * stride
    <3>1. z \in Int
      BY <2>2, SMT
    <3> HIDE DEF x, y, z
    <3>2. (to + z + x) - to = z + x
      BY <2>2, <3>1
    <3> QED BY <3>2 DEF z
  <2>4. (a - to) % stride = x /\ (a - to) \div stride = y
    <3> DEFINE b == y * stride + x
    <3>1. b % stride = x /\ b \div stride = y
      <4> HIDE DEF x, y
      <4> QED BY <2>2, Quotient
    <3>2. a - to = b
      BY <2>3
    <3> HIDE DEF a, b
    <3> QED BY <3>1, <3>2
  <2>5. a \in {to + p[2] * stride + p[1] : p \in At2D(plane)}
    OBVIOUS
  <2>6. c[a] = read[<<(a - to) % stride, (a - to) \div stride>>]
    <3> HIDE DEF a
    <3> QED BY <2>5 DEF copy_plane
  <2> QED BY <2>1, <2>4, <2>6
<1> HIDE DEF c
<1>3. Written(c, At2D(plane), to, stride, read)
  BY <1>1, <1>2 DEF Written
<1> QED BY <1>3 DEF c

-----------------------------------------------------------------------------
(* A slot *)

Views == {"base", "dependent"}

\* The views a picture has: the second may be missing.
Shots == {{"base"}, {"base", "dependent"}}

AddressOf(view, plane, at) == PlaceOf(view, plane) + at[2] * PlaneWidth(plane) + at[1]

\* The planes of a slot lie one behind the other.
LEMMA PlacesApart ==
  ASSUME NEW v \in Views, NEW p \in Planes, NEW w \in Views, NEW q \in Planes
  PROVE  /\ PlaceOf(v, p) \in Nat
         /\ v # w \/ p # q => \/ PlaceOf(v, p) + Bytes(p) <= PlaceOf(w, q)
                              \/ PlaceOf(w, q) + Bytes(q) <= PlaceOf(v, p)
<1> DEFINE y == Bytes("Y")
           u == Bytes("U")
<1>1. y \in Nat /\ u \in Nat /\ Bytes("V") = u
  <2>1. y \in Nat /\ u \in Nat
    BY PlaneTypes DEF Planes
  <2>2. Bytes("V") = u
    BY DEF Bytes, PlaneWidth, PlaneHeight
  <2> QED BY <2>1, <2>2
<1>2. \A a \in Views, b \in Planes :
          PlaceOf(a, b) = (IF a = "base" THEN 0 ELSE y + 2 * u)
                          + (IF b = "Y" THEN 0 ELSE IF b = "U" THEN y ELSE y + u)
  BY DEF PlaceOf
<1>3. \A b \in Planes : Bytes(b) = (IF b = "Y" THEN y ELSE u)
  BY <1>1 DEF Planes
<1> HIDE DEF y, u
<1> QED BY <1>1, <1>2, <1>3 DEF Views, Planes

LEMMA AddressFits ==
  ASSUME NEW v \in Views, NEW p \in Planes, NEW at \in At2D(p)
  PROVE  AddressOf(v, p, at) \in PlaceOf(v, p)..PlaceOf(v, p) + Bytes(p) - 1
<1> DEFINE x == at[1]
           y == at[2]
           w == PlaneWidth(p)
           h == PlaneHeight(p)
           to == PlaceOf(v, p)
<1>1. x \in 0..w - 1 /\ y \in 0..h - 1
  BY DEF At2D
<1>2. w \in Nat /\ h \in Nat /\ to \in Nat
  BY PlaneTypes, PlacesApart
<1>3. y * w + x \in 0..w * h - 1
  <2> HIDE DEF x, y, w, h
  <2> QED BY <1>1, <1>2, InRows
<1>4. y * w \in Int /\ w * h \in Int
  <2> HIDE DEF x, y, w, h
  <2> QED BY <1>1, <1>2, SMT
<1> DEFINE a == y * w
           b == w * h
<1>5. AddressOf(v, p, at) = to + a + x /\ Bytes(p) = b
  BY DEF AddressOf, Bytes
<1>6. a \in Int /\ b \in Int /\ a + x \in 0..b - 1 /\ x \in Int
  <2>1. x \in Int
    BY <1>1, <1>2
  <2> QED BY <1>3, <1>4, <2>1
<1> HIDE DEF x, y, w, h, to, a, b
<1>7. to + a + x \in to..to + b - 1
  BY <1>2, <1>6
<1> QED BY <1>5, <1>7 DEF to

\* What is copied of a picture is found where the slot's pointers say, none of
\* its planes overwritten by another.
LEMMA CopiesHold ==
  ASSUME NEW k, NEW views \in Shots, NEW v \in views, NEW p \in Planes, NEW at \in At2D(p)
  PROVE  /\ AddressOf(v, p, at) \in DOMAIN Copies(k, views)
         /\ Copies(k, views)[AddressOf(v, p, at)] = <<k, v, at[1], at[2]>>
<1> DEFINE copy(w, q) == copy_plane(PlaceOf(w, q), PlaneWidth(q), q, Decoded(k, w, q))
           view(w) == Over(copy(w, "V"), Over(copy(w, "U"), copy(w, "Y")))
<1>1. ASSUME NEW w \in Views, NEW q \in Planes
      PROVE  /\ \A a : a \in DOMAIN copy(w, q) <=> \E b \in At2D(q) : a = AddressOf(w, q, b)
             /\ \A b \in At2D(q) : copy(w, q)[AddressOf(w, q, b)] = <<k, w, b[1], b[2]>>
  <2>1. PlaceOf(w, q) \in Nat /\ PlaneWidth(q) \in Nat /\ PlaneWidth(q) <= PlaneWidth(q)
    BY PlacesApart, PlaneTypes
  <2> DEFINE to == PlaceOf(w, q)
             s == PlaneWidth(q)
             r == Decoded(k, w, q)
             c == copy_plane(to, s, q, r)
  <2>2. Written(c, At2D(q), to, s, r)
    <3>1. to \in Nat /\ s \in Nat /\ PlaneWidth(q) <= s
      BY <2>1
    <3> HIDE DEF to, s, r
    <3> QED BY <3>1, PlaneCopied
  <2>3. \A b \in At2D(q) : r[b] = <<k, w, b[1], b[2]>>
    BY DEF Decoded
  <2>4. \A b \in At2D(q) : AddressOf(w, q, b) = to + b[2] * s + b[1]
    BY DEF AddressOf
  <2>5. copy(w, q) = c
    OBVIOUS
  <2> HIDE DEF copy, to, s, r, c
  <2> QED BY <2>2, <2>3, <2>4, <2>5 DEF Written
<1> HIDE DEF copy
<1>2. ASSUME NEW w \in Views, NEW q \in Planes, NEW a \in DOMAIN copy(w, q),
             NEW w2 \in Views, NEW q2 \in Planes, a \in DOMAIN copy(w2, q2)
      PROVE  w2 = w /\ q2 = q
  <2>1. PICK b \in At2D(q) : a = AddressOf(w, q, b)
    BY <1>1, <1>2
  <2>2. PICK b2 \in At2D(q2) : a = AddressOf(w2, q2, b2)
    BY <1>1, <1>2
  <2>3. /\ a \in PlaceOf(w, q)..PlaceOf(w, q) + Bytes(q) - 1
        /\ a \in PlaceOf(w2, q2)..PlaceOf(w2, q2) + Bytes(q2) - 1
    BY <2>1, <2>2, AddressFits
  <2>4. /\ PlaceOf(w, q) \in Nat /\ PlaceOf(w2, q2) \in Nat
        /\ Bytes(q) \in Nat /\ Bytes(q2) \in Nat
    BY PlacesApart, PlaneTypes
  <2>5. ~(PlaceOf(w, q) + Bytes(q) <= PlaceOf(w2, q2)) /\ ~(PlaceOf(w2, q2) + Bytes(q2) <= PlaceOf(w, q))
    <3> DEFINE m == PlaceOf(w, q)
               n == PlaceOf(w2, q2)
               c == Bytes(q)
               d == Bytes(q2)
    <3> HIDE DEF m, n, c, d
    <3>1. a \in m..m + c - 1 /\ a \in n..n + d - 1 /\ m \in Nat /\ n \in Nat /\ c \in Nat /\ d \in Nat
      BY <2>3, <2>4 DEF m, n, c, d
    <3>2. ~(m + c <= n) /\ ~(n + d <= m)
      BY <3>1
    <3> QED BY <3>2 DEF m, n, c, d
  <2> QED BY <2>5, PlacesApart
<1>3. ASSUME NEW w \in Views
      PROVE  /\ DOMAIN view(w) = UNION {DOMAIN copy(w, q) : q \in Planes}
             /\ \A q \in Planes : \A a \in DOMAIN copy(w, q) : view(w)[a] = copy(w, q)[a]
  <2> DEFINE two == Over(copy(w, "U"), copy(w, "Y"))
  <2>1. /\ DOMAIN two = DOMAIN copy(w, "U") \cup DOMAIN copy(w, "Y")
        /\ \A a \in DOMAIN copy(w, "U") : two[a] = copy(w, "U")[a]
        /\ \A a \in DOMAIN copy(w, "Y") : a \notin DOMAIN copy(w, "U") => two[a] = copy(w, "Y")[a]
    BY OverHas
  <2> HIDE DEF two
  <2>2. /\ DOMAIN view(w) = DOMAIN copy(w, "V") \cup DOMAIN two
        /\ \A a \in DOMAIN copy(w, "V") : view(w)[a] = copy(w, "V")[a]
        /\ \A a \in DOMAIN two : a \notin DOMAIN copy(w, "V") => view(w)[a] = two[a]
    BY OverHas DEF two
  <2> HIDE DEF view
  <2>3. /\ \A a \in DOMAIN copy(w, "Y") : a \notin DOMAIN copy(w, "U") /\ a \notin DOMAIN copy(w, "V")
        /\ \A a \in DOMAIN copy(w, "U") : a \notin DOMAIN copy(w, "V")
    BY <1>2 DEF Planes
  <2> QED BY <2>1, <2>2, <2>3 DEF Planes
<1> DEFINE a == AddressOf(v, p, at)
<1>4. v \in Views /\ a \in DOMAIN copy(v, p) /\ copy(v, p)[a] = <<k, v, at[1], at[2]>>
  <2>1. v \in Views
    BY DEF Views, Shots
  <2> QED BY <1>1, <2>1
<1>5. a \in DOMAIN view(v) /\ view(v)[a] = copy(v, p)[a]
  BY <1>3, <1>4
<1>6. v = "base" => a \notin DOMAIN view("dependent")
  <2>1. \A q \in Planes : v = "base" => a \notin DOMAIN copy("dependent", q)
    BY <1>2, <1>4 DEF Views
  <2> HIDE DEF view, a
  <2> QED BY <1>3, <2>1 DEF Views
<1>7. Copies(k, views) =
        IF "dependent" \in views THEN Over(view("dependent"), view("base")) ELSE view("base")
  BY DEF Copies, copy
<1> HIDE DEF view, a
<1>8. CASE "dependent" \in views
  <2> DEFINE both == Over(view("dependent"), view("base"))
  <2>1. /\ DOMAIN both = DOMAIN view("dependent") \cup DOMAIN view("base")
        /\ \A b \in DOMAIN view("dependent") : both[b] = view("dependent")[b]
        /\ \A b \in DOMAIN view("base") : b \notin DOMAIN view("dependent") => both[b] = view("base")[b]
    BY OverHas
  <2> HIDE DEF both
  <2>2. Copies(k, views) = both
    BY <1>7, <1>8 DEF both
  <2> QED BY <1>4, <1>5, <1>6, <2>1, <2>2 DEF Views, a
<1>9. CASE "dependent" \notin views
  <2>1. v = "base" /\ Copies(k, views) = view("base")
    BY <1>7, <1>9 DEF Shots
  <2> QED BY <1>4, <1>5, <2>1 DEF a
<1> QED BY <1>8, <1>9

\* Whatever a slot held before, what is read of it is the picture put into it
\* last, and the base view in place of one that the picture lacks: the pointers
\* to a second view that an earlier picture had do not outlive it.
THEOREM LastPictureRead ==
  ASSUME NEW slot, NEW k, NEW views \in Shots, NEW view \in Views, NEW plane \in Planes
  PROVE  PlaneIn(ring_store(slot, k, views), view, plane)
             = Decoded(k, IF view \in views THEN view ELSE "base", plane)
<1> DEFINE filled == ring_store(slot, k, views)
           v == IF view \in views THEN view ELSE "base"
<1>1. v \in views /\ v \in Views
  BY DEF Shots, Views
<1>2. /\ filled.buf = Over(Copies(k, views), slot.buf)
      /\ filled.samples = [at \in views \X Planes |-> PlaceOf(at[1], at[2])]
  BY DEF ring_store
<1>3. /\ <<view, plane>> \in DOMAIN filled.samples <=> view \in views
      /\ filled.samples[<<v, plane>>] = PlaceOf(v, plane)
  BY <1>1, <1>2
<1> HIDE DEF filled
<1>4. PlaneIn(filled, view, plane) =
        [at \in At2D(plane) |->
            filled.buf[filled.samples[<<v, plane>>] + at[2] * PlaneWidth(plane) + at[1]]]
  BY <1>3 DEF PlaneIn
<1> HIDE DEF v
<1>5. ASSUME NEW at \in At2D(plane)
      PROVE  filled.buf[filled.samples[<<v, plane>>] + at[2] * PlaneWidth(plane) + at[1]]
                 = <<k, v, at[1], at[2]>>
  <2> DEFINE a == AddressOf(v, plane, at)
             c == Copies(k, views)
  <2>1. a \in DOMAIN c /\ c[a] = <<k, v, at[1], at[2]>>
    BY <1>1, CopiesHold
  <2>2. filled.buf[a] = c[a]
    <3> HIDE DEF a, c
    <3>1. \A b \in DOMAIN c : Over(c, slot.buf)[b] = c[b]
      BY OverHas
    <3> QED BY <1>2, <2>1, <3>1 DEF c
  <2>3. a = filled.samples[<<v, plane>>] + at[2] * PlaneWidth(plane) + at[1]
    BY <1>3 DEF AddressOf
  <2> QED BY <2>1, <2>2, <2>3
<1>6. Decoded(k, v, plane) = [at \in At2D(plane) |-> <<k, v, at[1], at[2]>>]
  BY DEF Decoded
<1>7. PlaneIn(filled, view, plane) = Decoded(k, v, plane)
  BY <1>4, <1>5, <1>6
<1> QED BY <1>7 DEF filled, v

-----------------------------------------------------------------------------
(* Two views in a plane *)

Rect(w, h) == (0..w - 1) \X (0..h - 1)

\* One over the other, in the same columns.
LEMMA Stacked ==
  ASSUME NEW w \in Nat, NEW h \in Nat, NEW s \in Nat, w <= s,
         NEW upper, NEW lower, NEW left, NEW right,
         Written(upper, Rect(w, h), 0, s, left), Written(lower, Rect(w, h), h * s, s, right)
  PROVE  Written(Over(lower, upper), Rect(w, 2 * h), 0, s,
                 [at \in Rect(w, 2 * h) |->
                     IF at[2] < h THEN left[at] ELSE right[<<at[1], at[2] - h>>]])
<1> DEFINE R == Rect(w, 2 * h)
           c == Over(lower, upper)
           read == [at \in R |-> IF at[2] < h THEN left[at] ELSE right[<<at[1], at[2] - h>>]]
           top == h * s
<1>0. top \in Nat
  BY SMT
<1>1. /\ DOMAIN c = DOMAIN lower \cup DOMAIN upper
      /\ \A a \in DOMAIN lower : c[a] = lower[a]
      /\ \A a \in DOMAIN upper : a \notin DOMAIN lower => c[a] = upper[a]
  BY OverHas
<1>2. ASSUME NEW at \in Rect(w, h)
      PROVE  /\ 0 + at[2] * s + at[1] \in 0..top - 1
             /\ top + at[2] * s + at[1] = 0 + (at[2] + h) * s + at[1]
             /\ top + at[2] * s + at[1] >= top
  <2> DEFINE x == at[1]
             y == at[2]
             z == y * s
  <2>1. x \in 0..w - 1 /\ y \in 0..h - 1
    BY DEF Rect
  <2>2. x \in 0..s - 1 /\ x \in Nat /\ y \in Nat
    <3> HIDE DEF x, y
    <3> QED BY <2>1
  <2>3. z + x \in 0..s * h - 1 /\ s * h = top
    <3>1. s * h = h * s
      OBVIOUS
    <3> HIDE DEF x, y
    <3> QED BY <2>1, <2>2, <3>1, InRows
  <2>4. z \in Nat /\ (y + h) * s = z + top
    <3> HIDE DEF x, y
    <3> QED BY <2>2, SMT
  <2> HIDE DEF top, z
  <2>5. 0 + z + x \in 0..top - 1 /\ top + z + x = 0 + (z + top) + x /\ top + z + x >= top
    <3> HIDE DEF x
    <3> QED BY <1>0, <2>2, <2>3, <2>4
  <2> QED BY <2>4, <2>5 DEF z
<1>3. ASSUME NEW at \in R, at[2] < h PROVE at \in Rect(w, h)
  BY <1>3 DEF Rect
<1>4. ASSUME NEW at \in R, ~(at[2] < h)
      PROVE  /\ <<at[1], at[2] - h>> \in Rect(w, h)
             /\ <<at[1], at[2] - h>>[2] + h = at[2]
  BY <1>4 DEF Rect
<1>5. ASSUME NEW at \in Rect(w, h)
      PROVE  /\ at \in R /\ at[2] < h
             /\ <<at[1], at[2] + h>> \in R
  BY <1>5 DEF Rect
<1> HIDE DEF R, c, top
<1>6. ASSUME NEW a \in DOMAIN lower PROVE a \notin DOMAIN upper
  <2>1. PICK at \in Rect(w, h) : a = top + at[2] * s + at[1]
    BY <1>6 DEF Written, top
  <2>2. a >= top
    BY <1>2, <2>1
  <2>3. ASSUME a \in DOMAIN upper PROVE FALSE
    <3>1. PICK b \in Rect(w, h) : a = 0 + b[2] * s + b[1]
      BY <2>3 DEF Written
    <3>2. a \in 0..top - 1
      BY <1>2, <3>1
    <3> QED BY <1>0, <2>2, <3>2
  <2> QED BY <2>3
<1>7. ASSUME NEW at \in R
      PROVE  /\ 0 + at[2] * s + at[1] \in DOMAIN c
             /\ c[0 + at[2] * s + at[1]] = read[at]
  <2>1. CASE at[2] < h
    <3>1. at \in Rect(w, h)
      BY <1>3, <2>1
    <3> DEFINE a == 0 + at[2] * s + at[1]
    <3>2. a \in DOMAIN upper /\ upper[a] = left[at]
      BY <3>1 DEF Written
    <3>3. read[at] = left[at]
      BY <2>1
    <3> HIDE DEF a, read
    <3>4. a \in DOMAIN c /\ c[a] = read[at]
      BY <1>1, <1>6, <3>2, <3>3
    <3> QED BY <3>4 DEF a
  <2>2. CASE ~(at[2] < h)
    <3> DEFINE b == <<at[1], at[2] - h>>
               a == top + b[2] * s + b[1]
    <3>1. b \in Rect(w, h) /\ b[2] + h = at[2] /\ b[1] = at[1]
      BY <1>4, <2>2
    <3>2. read[at] = right[b]
      BY <2>2
    <3> HIDE DEF b, read
    <3>3. a \in DOMAIN lower /\ lower[a] = right[b]
      BY <3>1 DEF Written, top
    <3>4. a = 0 + at[2] * s + at[1]
      BY <1>2, <3>1
    <3> HIDE DEF a
    <3>5. a \in DOMAIN c /\ c[a] = read[at]
      BY <1>1, <3>2, <3>3
    <3> QED BY <3>4, <3>5
  <2> QED BY <2>1, <2>2
<1>8. ASSUME NEW a \in DOMAIN c PROVE \E at \in R : a = 0 + at[2] * s + at[1]
  <2>1. CASE a \in DOMAIN upper
    <3>1. PICK at \in Rect(w, h) : a = 0 + at[2] * s + at[1]
      BY <2>1 DEF Written
    <3> QED BY <1>5, <3>1
  <2>2. CASE a \in DOMAIN lower
    <3>1. PICK at \in Rect(w, h) : a = top + at[2] * s + at[1]
      BY <2>2 DEF Written, top
    <3> DEFINE b == <<at[1], at[2] + h>>
    <3>2. b \in R /\ b[1] = at[1] /\ b[2] = at[2] + h
      BY <1>5
    <3> HIDE DEF b
    <3>3. a = 0 + b[2] * s + b[1]
      BY <1>2, <3>1, <3>2
    <3> QED BY <3>2, <3>3
  <2> QED BY <1>1, <1>8, <2>1, <2>2
<1> HIDE DEF read
<1>9. Written(c, R, 0, s, read)
  BY <1>7, <1>8 DEF Written
<1> QED BY <1>9 DEF R, c, read

\* One beside the other, in the same rows.
LEMMA Beside ==
  ASSUME NEW w \in Nat, NEW h \in Nat, NEW s \in Nat, 2 * w <= s,
         NEW near, NEW far, NEW left, NEW right,
         Written(near, Rect(w, h), 0, s, left), Written(far, Rect(w, h), w, s, right)
  PROVE  Written(Over(far, near), Rect(2 * w, h), 0, s,
                 [at \in Rect(2 * w, h) |->
                     IF at[1] < w THEN left[at] ELSE right[<<at[1] - w, at[2]>>]])
<1> DEFINE R == Rect(2 * w, h)
           c == Over(far, near)
           read == [at \in R |-> IF at[1] < w THEN left[at] ELSE right[<<at[1] - w, at[2]>>]]
<1>1. /\ DOMAIN c = DOMAIN far \cup DOMAIN near
      /\ \A a \in DOMAIN far : c[a] = far[a]
      /\ \A a \in DOMAIN near : a \notin DOMAIN far => c[a] = near[a]
  BY OverHas
<1>2. ASSUME NEW at \in Rect(w, h)
      PROVE  /\ (0 + at[2] * s + at[1]) % s = at[1]
             /\ (w + at[2] * s + at[1]) % s = at[1] + w
             /\ w + at[2] * s + at[1] = 0 + at[2] * s + (at[1] + w)
             /\ at[1] \in 0..w - 1
  <2> DEFINE x == at[1]
             y == at[2]
             z == y * s
  <2>1. x \in 0..w - 1 /\ y \in 0..h - 1
    BY DEF Rect
  <2> HIDE DEF x, y
  <2>2. x \in 0..s - 1 /\ x + w \in 0..s - 1 /\ s \in Nat \ {0} /\ y \in Nat
    BY <2>1
  <2>3. (z + x) % s = x /\ (z + (x + w)) % s = x + w
    BY <2>2, Quotient
  <2>4. z \in Int
    BY <2>2, SMT
  <2> HIDE DEF z
  <2>5. 0 + z + x = z + x /\ w + z + x = z + (x + w) /\ 0 + z + (x + w) = z + (x + w)
    BY <2>2, <2>4
  <2>6. (0 + z + x) % s = x /\ (w + z + x) % s = x + w /\ w + z + x = 0 + z + (x + w)
    BY <2>3, <2>5
  <2> QED BY <2>1, <2>6 DEF x, y, z
<1>3. ASSUME NEW at \in R, at[1] < w PROVE at \in Rect(w, h)
  BY <1>3 DEF Rect
<1>4. ASSUME NEW at \in R, ~(at[1] < w)
      PROVE  /\ <<at[1] - w, at[2]>> \in Rect(w, h)
             /\ <<at[1] - w, at[2]>>[1] + w = at[1]
  BY <1>4 DEF Rect
<1>5. ASSUME NEW at \in Rect(w, h)
      PROVE  at \in R /\ <<at[1] + w, at[2]>> \in R
  BY <1>5 DEF Rect
<1> HIDE DEF R, c
<1>6. ASSUME NEW a \in DOMAIN far PROVE a \notin DOMAIN near
  <2>1. PICK at \in Rect(w, h) : a = w + at[2] * s + at[1]
    BY <1>6 DEF Written
  <2>2. a % s = at[1] + w /\ at[1] \in 0..w - 1
    BY <1>2, <2>1
  <2>3. ASSUME a \in DOMAIN near PROVE FALSE
    <3>1. PICK b \in Rect(w, h) : a = 0 + b[2] * s + b[1]
      BY <2>3 DEF Written
    <3>2. a % s = b[1] /\ b[1] \in 0..w - 1
      BY <1>2, <3>1
    <3> QED BY <2>2, <3>2
  <2> QED BY <2>3
<1>7. ASSUME NEW at \in R
      PROVE  /\ 0 + at[2] * s + at[1] \in DOMAIN c
             /\ c[0 + at[2] * s + at[1]] = read[at]
  <2>1. CASE at[1] < w
    <3>1. at \in Rect(w, h)
      BY <1>3, <2>1
    <3> DEFINE a == 0 + at[2] * s + at[1]
    <3>2. a \in DOMAIN near /\ near[a] = left[at]
      BY <3>1 DEF Written
    <3>3. read[at] = left[at]
      BY <2>1
    <3> HIDE DEF a, read
    <3>4. a \in DOMAIN c /\ c[a] = read[at]
      BY <1>1, <1>6, <3>2, <3>3
    <3> QED BY <3>4 DEF a
  <2>2. CASE ~(at[1] < w)
    <3> DEFINE b == <<at[1] - w, at[2]>>
               a == w + b[2] * s + b[1]
    <3>1. b \in Rect(w, h) /\ b[1] + w = at[1] /\ b[2] = at[2]
      BY <1>4, <2>2
    <3>2. read[at] = right[b]
      BY <2>2
    <3> HIDE DEF b, read
    <3>3. a \in DOMAIN far /\ far[a] = right[b]
      BY <3>1 DEF Written
    <3>4. a = 0 + at[2] * s + at[1]
      BY <1>2, <3>1
    <3> HIDE DEF a
    <3>5. a \in DOMAIN c /\ c[a] = read[at]
      BY <1>1, <3>2, <3>3
    <3> QED BY <3>4, <3>5
  <2> QED BY <2>1, <2>2
<1>8. ASSUME NEW a \in DOMAIN c PROVE \E at \in R : a = 0 + at[2] * s + at[1]
  <2>1. CASE a \in DOMAIN near
    <3>1. PICK at \in Rect(w, h) : a = 0 + at[2] * s + at[1]
      BY <2>1 DEF Written
    <3> QED BY <1>5, <3>1
  <2>2. CASE a \in DOMAIN far
    <3>1. PICK at \in Rect(w, h) : a = w + at[2] * s + at[1]
      BY <2>2 DEF Written
    <3> DEFINE b == <<at[1] + w, at[2]>>
    <3>2. b \in R /\ b[1] = at[1] + w /\ b[2] = at[2]
      BY <1>5
    <3> HIDE DEF b
    <3>3. a = 0 + b[2] * s + b[1]
      BY <1>2, <3>1, <3>2
    <3> QED BY <3>2, <3>3
  <2> QED BY <1>1, <1>8, <2>1, <2>2
<1> HIDE DEF read
<1>9. Written(c, R, 0, s, read)
  BY <1>7, <1>8 DEF Written
<1> QED BY <1>9 DEF R, c, read

-----------------------------------------------------------------------------
(* A frame *)

Layouts == {"base", "right", "tab", "sbs", "alt"}

\* The size of a frame's plane.
ShownWidth(layout, plane) == IF plane = "Y" THEN FrameWidth(layout) ELSE FrameWidth(layout) \div 2
ShownHeight(layout, plane) == IF plane = "Y" THEN FrameHeight(layout) ELSE FrameHeight(layout) \div 2

\* The first eye's view is the base view, the second's the dependent one, the
\* other way round with swaplr; the base view stands in for a missing one.
EyeView(eye, swaplr, views) ==
    LET eyes == IF swaplr THEN <<"dependent", "base">> ELSE <<"base", "dependent">>
    IN  IF eyes[eye] \in views THEN eyes[eye] ELSE "base"

\* Which eye a layout shows at a place of frame n, views being w by h.
EyeAt(layout, n, w, h, at) ==
    CASE layout = "base" -> 1
      [] layout = "right" -> 2
      [] layout = "tab" -> 1 + at[2] \div h
      [] layout = "sbs" -> 1 + at[1] \div w
      [] layout = "alt" -> 1 + (n % 2)

SampleAt(layout, n, swaplr, views, w, h, at) ==
    <<SourceOf(layout, n), EyeView(EyeAt(layout, n, w, h, at), swaplr, views), at[1] % w, at[2] % h>>

\* 4:2:0 halves both sides of a view.
EvenSize == Width % 2 = 0 /\ Height % 2 = 0

LEMMA ShownSize ==
  ASSUME EvenSize, NEW layout \in Layouts, NEW plane \in Planes
  PROVE  /\ ShownWidth(layout, plane) = (IF layout = "sbs" THEN 2 ELSE 1) * PlaneWidth(plane)
         /\ ShownHeight(layout, plane) = (IF layout = "tab" THEN 2 ELSE 1) * PlaneHeight(plane)
<1>1. ASSUME NEW n \in Nat, n % 2 = 0 PROVE (2 * n) \div 2 = n /\ 2 * (n \div 2) = n /\ n \div 2 \in Nat
  BY <1>1
<1>2. Width \in Nat /\ Height \in Nat
  BY ViewAssumption
<1> QED BY <1>1, <1>2 DEF EvenSize, ShownWidth, ShownHeight, FrameWidth, FrameHeight,
        PlaneWidth, PlaneHeight

LEMMA InOne ==
  ASSUME NEW n \in Nat, NEW i \in 0..n - 1
  PROVE  i % n = i /\ i \div n = 0
<1>1. (0 * n + i) % n = i /\ (0 * n + i) \div n = 0
  BY Quotient
<1>2. 0 * n + i = i
  OBVIOUS
<1> QED BY <1>1, <1>2

LEMMA Halves ==
  ASSUME NEW n \in Nat, NEW i \in 0..2 * n - 1
  PROVE  /\ i < n => i % n = i /\ i \div n = 0
         /\ ~(i < n) => i % n = i - n /\ i \div n = 1
<1>1. CASE i < n
  BY <1>1, InOne
<1>2. CASE ~(i < n)
  <2> DEFINE r == i - n
  <2>1. r \in 0..n - 1 /\ n \in Nat \ {0}
    BY <1>2
  <2>2. 1 * n + r = i
    BY <1>2
  <2> HIDE DEF r
  <2>3. (1 * n + r) % n = r /\ (1 * n + r) \div n = 1
    BY <2>1, Quotient
  <2>4. i % n = r /\ i \div n = 1
    BY <2>2, <2>3
  <2> QED BY <1>2, <2>4 DEF r
<1> QED BY <1>1, <1>2

LEMMA WrittenSame ==
  ASSUME NEW c, NEW R, NEW to, NEW s, NEW read, NEW other,
         Written(c, R, to, s, read), \A at \in R : other[at] = read[at]
  PROVE  Written(c, R, to, s, other)
BY DEF Written

\* Every byte of the host's planes that a frame is to show, and none between
\* its rows, is written, with the sample that the layout promises there
\* (assemble_plane, mvcsource.h): for every size of a view, whatever the slot
\* held before and whether or not the picture has a second view.
THEOREM FrameShown ==
  ASSUME EvenSize, NEW slot, NEW n \in Nat, NEW views \in Shots, NEW layout \in Layouts,
         NEW swaplr, NEW strides, NEW plane \in Planes,
         strides[plane] \in Nat, ShownWidth(layout, plane) <= strides[plane]
  PROVE  LET R == Rect(ShownWidth(layout, plane), ShownHeight(layout, plane))
         IN  Written(mvc_get_frame(slot, n, views, layout, swaplr, strides)[plane],
                     R, 0, strides[plane],
                     [at \in R |-> SampleAt(layout, n, swaplr, views,
                                            PlaneWidth(plane), PlaneHeight(plane), at)])
<1> DEFINE w == PlaneWidth(plane)
           h == PlaneHeight(plane)
           s == strides[plane]
           k == SourceOf(layout, n)
           filled == ring_store(slot, k, views)
           R == Rect(ShownWidth(layout, plane), ShownHeight(layout, plane))
           view(eye) == EyeView(eye, swaplr, views)
           told == [at \in R |-> SampleAt(layout, n, swaplr, views, w, h, at)]
           left == Decoded(k, view(1), plane)
           right == Decoded(k, view(2), plane)
           Fill(to, read) == copy_plane(to, s, plane, read)
           shown == mvc_get_frame(slot, n, views, layout, swaplr, strides)[plane]
<1>1. w \in Nat /\ h \in Nat /\ s \in Nat /\ At2D(plane) = Rect(w, h)
  BY PlaneTypes DEF At2D, Rect
<1>2. shown = CASE Shown(layout, n) = "right" -> Fill(0, right)
                [] Shown(layout, n) = "tab" -> Over(Fill(h * s, right), Fill(0, left))
                [] Shown(layout, n) = "sbs" -> Over(Fill(w, right), Fill(0, left))
                [] OTHER -> Fill(0, left)
  <2> DEFINE base == PlaneIn(filled, "base", plane)
             dep == PlaneIn(filled, "dependent", plane)
  <2>1. /\ base = Decoded(k, "base", plane)
        /\ dep = Decoded(k, IF "dependent" \in views THEN "dependent" ELSE "base", plane)
    <3>1. "base" \in Views /\ "dependent" \in Views /\ "base" \in views
      BY DEF Views, Shots
    <3>2. base = Decoded(k, IF "base" \in views THEN "base" ELSE "base", plane)
      BY <3>1, LastPictureRead
    <3>3. dep = Decoded(k, IF "dependent" \in views THEN "dependent" ELSE "base", plane)
      BY <3>1, LastPictureRead
    <3> QED BY <3>2, <3>3
  <2>2. /\ (IF swaplr THEN dep ELSE base) = left
        /\ (IF swaplr THEN base ELSE dep) = right
    <3>1. "base" \in views
      BY DEF Shots
    <3>2. /\ view(1) = (IF swaplr THEN IF "dependent" \in views THEN "dependent" ELSE "base" ELSE "base")
          /\ view(2) = (IF swaplr THEN "base" ELSE IF "dependent" \in views THEN "dependent" ELSE "base")
      BY <3>1 DEF EyeView
    <3> HIDE DEF base, dep, view
    <3> QED BY <2>1, <3>2
  <2>3. shown = assemble_plane(filled, plane, Shown(layout, n), swaplr, s)
    BY DEF mvc_get_frame
  <2> HIDE DEF shown, left, right, filled
  <2> QED BY <2>2, <2>3 DEF assemble_plane
<1>3. w <= s /\ ShownWidth(layout, plane) = (IF layout = "sbs" THEN 2 ELSE 1) * w
      /\ ShownHeight(layout, plane) = (IF layout = "tab" THEN 2 ELSE 1) * h
  BY <1>1, ShownSize
<1>4. ASSUME NEW at \in Rect(w, h)
      PROVE  /\ left[at] = <<k, view(1), at[1], at[2]>>
             /\ right[at] = <<k, view(2), at[1], at[2]>>
  BY <1>1 DEF Decoded
<1>5. ASSUME NEW at \in R
      PROVE  told[at] = <<k, view(EyeAt(layout, n, w, h, at)), at[1] % w, at[2] % h>>
  BY DEF SampleAt
<1>6. ASSUME NEW to \in Nat, NEW read PROVE Written(Fill(to, read), Rect(w, h), to, s, read)
  BY <1>1, <1>3, PlaneCopied
<1> SUFFICES Written(shown, R, 0, s, told)
  OBVIOUS
<1> HIDE DEF w, h, s, k, filled, view, left, right, Fill, shown, told
<1>7. ASSUME NEW eye \in {1, 2}, NEW read, layout \notin {"tab", "sbs"},
             \A at \in Rect(w, h) : EyeAt(layout, n, w, h, at) = eye,
             \A at \in Rect(w, h) : read[at] = <<k, view(eye), at[1], at[2]>>,
             shown = Fill(0, read)
      PROVE  Written(shown, R, 0, s, told)
  <2>1. R = Rect(w, h)
    BY <1>1, <1>3, <1>7
  <2>2. ASSUME NEW at \in Rect(w, h) PROVE told[at] = read[at]
    <3>1. at[1] \in 0..w - 1 /\ at[2] \in 0..h - 1
      BY DEF Rect
    <3>2. at[1] % w = at[1] /\ at[2] % h = at[2]
      BY <1>1, <3>1, InOne
    <3> QED BY <1>5, <1>7, <2>1, <3>2
  <2>3. Written(shown, Rect(w, h), 0, s, read)
    BY <1>6, <1>7
  <2> HIDE DEF R
  <2> QED BY <2>1, <2>2, <2>3, WrittenSame
<1>8. CASE layout = "base" \/ (layout = "alt" /\ n % 2 # 1)
  <2>1. shown = Fill(0, left)
    BY <1>2, <1>8 DEF Shown
  <2>2. \A at \in Rect(w, h) : EyeAt(layout, n, w, h, at) = 1
    BY <1>8 DEF EyeAt
  <2> QED BY <1>4, <1>7, <1>8, <2>1, <2>2
<1>9. CASE layout = "right" \/ (layout = "alt" /\ n % 2 = 1)
  <2>1. shown = Fill(0, right)
    BY <1>2, <1>9 DEF Shown
  <2>2. \A at \in Rect(w, h) : EyeAt(layout, n, w, h, at) = 2
    BY <1>9 DEF EyeAt
  <2> QED BY <1>4, <1>7, <1>9, <2>1, <2>2
<1>10. CASE layout = "tab"
  <2> DEFINE read == [at \in Rect(w, 2 * h) |->
                         IF at[2] < h THEN left[at] ELSE right[<<at[1], at[2] - h>>]]
  <2>1. shown = Over(Fill(h * s, right), Fill(0, left))
    BY <1>2, <1>10 DEF Shown
  <2>2. R = Rect(w, 2 * h)
    BY <1>1, <1>3, <1>10
  <2>3. ASSUME NEW at \in Rect(w, 2 * h) PROVE told[at] = read[at]
    <3>1. at[1] \in 0..w - 1 /\ at[2] \in 0..2 * h - 1 /\ at = <<at[1], at[2]>>
      BY DEF Rect
    <3>2. /\ at[1] % w = at[1]
          /\ at[2] < h => at[2] % h = at[2] /\ at[2] \div h = 0
          /\ ~(at[2] < h) => at[2] % h = at[2] - h /\ at[2] \div h = 1
      <4>1. at[1] % w = at[1]
        BY <1>1, <3>1, InOne
      <4> DEFINE y == at[2]
      <4>2. y \in 0..2 * h - 1
        BY <3>1
      <4> HIDE DEF y
      <4>3. (y < h => y % h = y /\ y \div h = 0) /\ (~(y < h) => y % h = y - h /\ y \div h = 1)
        BY <1>1, <4>2, Halves
      <4> QED BY <4>1, <4>3 DEF y
    <3>3. EyeAt(layout, n, w, h, at) = 1 + at[2] \div h
      BY <1>10 DEF EyeAt
    <3>4. told[at] = <<k, view(1 + at[2] \div h), at[1], at[2] % h>>
      BY <1>5, <2>2, <3>2, <3>3
    <3>5. CASE at[2] < h
      <4>1. at \in Rect(w, h)
        BY <1>1, <3>1, <3>5 DEF Rect
      <4>2. read[at] = left[at]
        BY <3>5
      <4> QED BY <1>4, <3>2, <3>4, <3>5, <4>1, <4>2
    <3>6. CASE ~(at[2] < h)
      <4> DEFINE b == <<at[1], at[2] - h>>
      <4>1. b \in Rect(w, h) /\ b[1] = at[1] /\ b[2] = at[2] - h
        BY <1>1, <3>1, <3>6 DEF Rect
      <4>2. read[at] = right[b]
        BY <3>6
      <4> HIDE DEF b, read
      <4>3. right[b] = <<k, view(2), at[1], at[2] - h>>
        BY <1>4, <4>1
      <4>4. told[at] = <<k, view(2), at[1], at[2] - h>>
        BY <3>2, <3>4, <3>6
      <4> QED BY <4>2, <4>3, <4>4
    <3> QED BY <3>5, <3>6
  <2>4. Written(shown, Rect(w, 2 * h), 0, s, read)
    <3>1. h * s \in Nat
      BY <1>1, SMT
    <3>2. /\ Written(Fill(0, left), Rect(w, h), 0, s, left)
          /\ Written(Fill(h * s, right), Rect(w, h), h * s, s, right)
      BY <1>6, <3>1
    <3> QED BY <1>1, <1>3, <2>1, <3>2, Stacked
  <2> HIDE DEF R, read
  <2> QED BY <2>2, <2>3, <2>4, WrittenSame
<1>11. CASE layout = "sbs"
  <2> DEFINE read == [at \in Rect(2 * w, h) |->
                         IF at[1] < w THEN left[at] ELSE right[<<at[1] - w, at[2]>>]]
  <2>1. shown = Over(Fill(w, right), Fill(0, left))
    BY <1>2, <1>11 DEF Shown
  <2>2. R = Rect(2 * w, h) /\ 2 * w <= s
    BY <1>1, <1>3, <1>11 DEF s
  <2>3. ASSUME NEW at \in Rect(2 * w, h) PROVE told[at] = read[at]
    <3>1. at[1] \in 0..2 * w - 1 /\ at[2] \in 0..h - 1 /\ at = <<at[1], at[2]>>
      BY DEF Rect
    <3>2. /\ at[2] % h = at[2]
          /\ at[1] < w => at[1] % w = at[1] /\ at[1] \div w = 0
          /\ ~(at[1] < w) => at[1] % w = at[1] - w /\ at[1] \div w = 1
      <4>1. at[2] % h = at[2]
        BY <1>1, <3>1, InOne
      <4> DEFINE x == at[1]
      <4>2. x \in 0..2 * w - 1
        BY <3>1
      <4> HIDE DEF x
      <4>3. (x < w => x % w = x /\ x \div w = 0) /\ (~(x < w) => x % w = x - w /\ x \div w = 1)
        BY <1>1, <4>2, Halves
      <4> QED BY <4>1, <4>3 DEF x
    <3>3. EyeAt(layout, n, w, h, at) = 1 + at[1] \div w
      BY <1>11 DEF EyeAt
    <3>4. told[at] = <<k, view(1 + at[1] \div w), at[1] % w, at[2]>>
      BY <1>5, <2>2, <3>2, <3>3
    <3>5. CASE at[1] < w
      <4>1. at \in Rect(w, h)
        BY <1>1, <3>1, <3>5 DEF Rect
      <4>2. read[at] = left[at]
        BY <3>5
      <4> QED BY <1>4, <3>2, <3>4, <3>5, <4>1, <4>2
    <3>6. CASE ~(at[1] < w)
      <4> DEFINE b == <<at[1] - w, at[2]>>
      <4>1. b \in Rect(w, h) /\ b[1] = at[1] - w /\ b[2] = at[2]
        BY <1>1, <3>1, <3>6 DEF Rect
      <4>2. read[at] = right[b]
        BY <3>6
      <4> HIDE DEF b, read
      <4>3. right[b] = <<k, view(2), at[1] - w, at[2]>>
        BY <1>4, <4>1
      <4>4. told[at] = <<k, view(2), at[1] - w, at[2]>>
        BY <3>2, <3>4, <3>6
      <4> QED BY <4>2, <4>3, <4>4
    <3> QED BY <3>5, <3>6
  <2>4. Written(shown, Rect(2 * w, h), 0, s, read)
    <3>1. /\ Written(Fill(0, left), Rect(w, h), 0, s, left)
          /\ Written(Fill(w, right), Rect(w, h), w, s, right)
      BY <1>1, <1>6
    <3> QED BY <1>1, <2>1, <2>2, <3>1, Beside
  <2> HIDE DEF R, read
  <2> QED BY <2>2, <2>3, <2>4, WrittenSame
<1> HIDE DEF R
<1> QED BY <1>8, <1>9, <1>10, <1>11 DEF Layouts

-----------------------------------------------------------------------------
(* What was saved is read back *)

\* Where each entry of a list of rows is stored.
LEMMA ColumnsCells ==
  ASSUME NEW w \in Nat, NEW rows \in Seq([1..w -> Int])
  PROVE  /\ Len(Columns(rows, w)) = w * Len(rows)
         /\ \A i \in 1..Len(rows), c \in 1..w :
               /\ (c - 1) * Len(rows) + i \in 1..w * Len(rows)
               /\ Columns(rows, w)[(c - 1) * Len(rows) + i] = rows[i][c]
<1> DEFINE n == Len(rows)
           Cell(i) == rows[((i - 1) % n) + 1][((i - 1) \div n) + 1]
<1>1. n \in Nat /\ w * n \in Nat
  BY SMT
<1>2. Columns(rows, w) = [i \in 1..w * n |-> Cell(i)]
  BY DEF Columns
<1>3. Len(Columns(rows, w)) = w * n
  <2> HIDE DEF n, Cell
  <2> QED BY <1>1, <1>2
<1>4. ASSUME NEW i \in 1..n, NEW c \in 1..w
      PROVE  /\ (c - 1) * n + i \in 1..w * n
             /\ Cell((c - 1) * n + i) = rows[i][c]
  <2> DEFINE q == c - 1
             r == i - 1
             k == q * n + i
  <2>1. n \in Nat \ {0} /\ q \in 0..w - 1 /\ r \in 0..n - 1 /\ i = r + 1 /\ c = q + 1
    <3> HIDE DEF n
    <3> QED BY <1>1, <1>4
  <2>2. (q * n + r) % n = r /\ (q * n + r) \div n = q
    <3> HIDE DEF n, q, r
    <3> QED BY <2>1, Quotient
  <2>3. q * n \in Int /\ q * n >= 0 /\ q * n <= (w - 1) * n /\ (w - 1) * n = w * n - n
    <3> HIDE DEF n, q, r
    <3>1. q \in Nat /\ w - 1 - q \in Nat
      BY <2>1
    <3>2. \A x \in Nat, y \in Nat : x * y \in Nat
      OBVIOUS
    <3>3. q * n \in Nat /\ (w - 1 - q) * n \in Nat
      BY <2>1, <3>1, <3>2
    <3>4. (w - 1 - q) * n = (w - 1) * n - q * n /\ (w - 1) * n = w * n - n
      BY <2>1
    <3> QED BY <2>1, <3>3, <3>4
  <2>4. k - 1 = q * n + r /\ k \in 1..w * n
    <3> DEFINE a == q * n
               b == w * n
    <3>1. a \in Int /\ a >= 0 /\ a <= b - n /\ b \in Int
      BY <1>1, <2>3
    <3> HIDE DEF n, q, r, a, b
    <3>2. (a + i) - 1 = a + r /\ a + i \in 1..b
      BY <2>1, <3>1
    <3> QED BY <3>2 DEF a, b
  <2>5. Cell(k) = rows[r + 1][q + 1]
    BY <2>2, <2>4
  <2> QED BY <2>1, <2>4, <2>5
<1>5. \A k \in 1..w * n : Columns(rows, w)[k] = Cell(k)
  <2> HIDE DEF Cell
  <2> QED BY <1>2
<1> HIDE DEF Cell
<1> QED BY <1>3, <1>4, <1>5

\* The columns of a list, wherever they lie, are read back as that list.
LEMMA RowsOfColumns ==
  ASSUME NEW w \in {3, 4}, NEW rows \in Seq([1..w -> Int]), NEW f \in Seq(Int), NEW at \in Nat,
         \A k \in 1..w * Len(rows) : f[at + k] = Columns(rows, w)[k]
  PROVE  Rows(f, at, Len(rows), w) = rows
<1> DEFINE n == Len(rows)
           Row(i) == [c \in 1..w |-> f[at + (c - 1) * n + i]]
<1>1. n \in Nat /\ rows \in [1..n -> [1..w -> Int]] /\ w \in Nat
  OBVIOUS
<1>2. ASSUME NEW i \in 1..n, NEW c \in 1..w PROVE f[at + (c - 1) * n + i] = rows[i][c]
  <2> DEFINE k == (c - 1) * n + i
  <2>1. k \in 1..w * n /\ Columns(rows, w)[k] = rows[i][c]
    BY <1>1, <1>2, ColumnsCells
  <2>2. f[at + k] = rows[i][c]
    BY <2>1
  <2>3. at + (c - 1) * n + i = at + k
    BY <1>1
  <2> QED BY <2>2, <2>3
<1>3. \A i \in 1..n : Row(i) = rows[i]
  <2> SUFFICES ASSUME NEW i \in 1..n PROVE Row(i) = rows[i]
    OBVIOUS
  <2>1. rows[i] \in [1..w -> Int]
    BY <1>1
  <2>2. \A c \in 1..w : Row(i)[c] = rows[i][c]
    BY <1>2
  <2> QED BY <2>1, <2>2
<1>4. Rows(f, at, n, w) = [i \in 1..n |-> Row(i)]
  BY DEF Rows
<1> HIDE DEF Row
<1>5. [i \in 1..n |-> Row(i)] = rows
  BY <1>1, <1>3
<1> QED BY <1>4, <1>5

\* One sequence followed by another.
Follows(s, t, u, m, n) ==
    /\ u \in Seq(Int) /\ Len(u) = m + n
    /\ \A k \in 1..m : u[k] = s[k]
    /\ \A k \in 1..n : u[m + k] = t[k]

LEMMA Joined ==
  ASSUME NEW s \in Seq(Int), NEW t \in Seq(Int)
  PROVE  Follows(s, t, s \o t, Len(s), Len(t))
  BY DEF Follows

\* Where a sidecar has what.
Laid(s, fmt, key, x) ==
    LET h == Len(key) + 1
        n == h + 5
        ns == Len(x.spans)
        ni == Len(x.idx)
        np == Len(x.ps)
        w == PsWidth[fmt]
    IN  /\ s \in Seq(Int) /\ Len(s) = n + 3 * ns + 3 * ni + w * np
        /\ s[1] = Magic[fmt] /\ \A k \in 1..Len(key) : s[1 + k] = key[k]
        /\ s[h + 1] = x.num_pics /\ s[h + 2] = x.is_mvc
        /\ s[h + 3] = ns /\ s[h + 4] = ni /\ s[h + 5] = np
        /\ \A k \in 1..3 * ns : s[n + k] = Columns(x.spans, 3)[k]
        /\ \A k \in 1..3 * ni : s[n + 3 * ns + k] = Columns(x.idx, 3)[k]
        /\ \A k \in 1..w * np : s[n + 3 * ns + 3 * ni + k] = Columns(x.ps, w)[k]

LEMMA SavedParts ==
  ASSUME NEW fmt \in Formats, NEW key \in Seq(Int), NEW x \in IndexType(fmt)
  PROVE  Laid(Saved(fmt, key, x), fmt, key, x)
<1> DEFINE h == Len(key) + 1
           n == h + 5
           ns == Len(x.spans)
           ni == Len(x.idx)
           np == Len(x.ps)
           w == PsWidth[fmt]
           a == <<Magic[fmt]>>
           c == <<x.num_pics, x.is_mvc, ns, ni, np>>
           d == Columns(x.spans, 3)
           e == Columns(x.idx, 3)
           g == Columns(x.ps, w)
           ab == a \o key
           abc == ab \o c
           abcd == abc \o d
           abcde == abcd \o e
           s == abcde \o g
<1>1. s = Saved(fmt, key, x)
  BY DEF Saved
<1>2. w \in {3, 4} /\ w \in Nat /\ Magic[fmt] \in Int
  BY FormatParts DEF Formats
<1>3. /\ x.num_pics \in Int /\ x.is_mvc \in Int
      /\ x.spans \in Seq([1..3 -> Int]) /\ x.idx \in Seq([1..3 -> Int]) /\ x.ps \in Seq([1..w -> Int])
  BY DEF IndexType
<1>4. ns \in Nat /\ ni \in Nat /\ np \in Nat /\ Len(key) \in Nat
  BY <1>3
<1>5. /\ d \in Seq(Int) /\ Len(d) = 3 * ns
      /\ e \in Seq(Int) /\ Len(e) = 3 * ni
      /\ g \in Seq(Int) /\ Len(g) = w * np
  <2> HIDE DEF w
  <2> QED BY <1>2, <1>3, ColumnsType, ColumnsCells
<1>6. /\ a \in Seq(Int) /\ Len(a) = 1 /\ a[1] = Magic[fmt]
  BY <1>2
<1>7. /\ c \in Seq(Int) /\ Len(c) = 5
      /\ c[1] = x.num_pics /\ c[2] = x.is_mvc /\ c[3] = ns /\ c[4] = ni /\ c[5] = np
  <2> HIDE DEF ns, ni, np
  <2> QED BY <1>3, <1>4
<1> HIDE DEF a, c, d, e, g, w, ns, ni, np
<1> DEFINE l3 == n + 3 * ns
           l4 == l3 + 3 * ni
           l5 == l4 + w * np
           n3 == 3 * ns
           n4 == 3 * ni
           n5 == w * np
<1>8. ab \in Seq(Int) /\ Len(ab) = h /\ ab[1] = Magic[fmt] /\ \A k \in 1..Len(key) : ab[1 + k] = key[k]
  <2>1. Follows(a, key, ab, Len(a), Len(key))
    BY <1>6, Joined
  <2> HIDE DEF ab
  <2> QED BY <1>4, <1>6, <2>1 DEF Follows
<1> HIDE DEF ab
<1>9. /\ abc \in Seq(Int) /\ Len(abc) = n
      /\ \A k \in 1..h : abc[k] = ab[k]
      /\ \A k \in 1..5 : abc[h + k] = c[k]
  <2>1. Follows(ab, c, abc, Len(ab), Len(c))
    BY <1>7, <1>8, Joined
  <2> HIDE DEF abc, h
  <2> QED BY <1>7, <1>8, <2>1 DEF Follows
<1> HIDE DEF abc
<1>10. /\ abcd \in Seq(Int) /\ Len(abcd) = l3
       /\ \A k \in 1..n : abcd[k] = abc[k]
       /\ \A k \in 1..n3 : abcd[n + k] = d[k]
  <2>1. Follows(abc, d, abcd, Len(abc), Len(d))
    BY <1>5, <1>9, Joined
  <2> HIDE DEF abcd, n
  <2> QED BY <1>5, <1>9, <2>1 DEF Follows
<1> HIDE DEF abcd
<1>11. /\ abcde \in Seq(Int) /\ Len(abcde) = l4
       /\ \A k \in 1..l3 : abcde[k] = abcd[k]
       /\ \A k \in 1..n4 : abcde[l3 + k] = e[k]
  <2>1. Follows(abcd, e, abcde, Len(abcd), Len(e))
    BY <1>5, <1>10, Joined
  <2> HIDE DEF abcde, l3
  <2> QED BY <1>5, <1>10, <2>1 DEF Follows
<1> HIDE DEF abcde
<1>12. /\ s \in Seq(Int) /\ Len(s) = l5
       /\ \A k \in 1..l4 : s[k] = abcde[k]
       /\ \A k \in 1..n5 : s[l4 + k] = g[k]
  <2>1. Follows(abcde, g, s, Len(abcde), Len(g))
    BY <1>5, <1>11, Joined
  <2> HIDE DEF s, l4
  <2> QED BY <1>5, <1>11, <2>1 DEF Follows
<1>13. \A k \in 1..n : k \in 1..n + 3 * ns /\ k \in 1..n + 3 * ns + 3 * ni
  BY <1>4
<1>14. \A k \in 1..n : s[k] = abc[k]
  BY <1>10, <1>11, <1>12, <1>13
<1>15. /\ s[1] = Magic[fmt] /\ \A k \in 1..Len(key) : s[1 + k] = key[k]
  <2>1. 1 \in 1..h /\ 1 \in 1..n /\ \A k \in 1..Len(key) : 1 + k \in 1..h /\ 1 + k \in 1..n
    BY <1>4
  <2> QED BY <1>8, <1>9, <1>14, <2>1
<1>16. \A k \in 1..5 : s[h + k] = c[k]
  <2>1. \A k \in 1..5 : h + k \in 1..n
    BY <1>4
  <2> QED BY <1>9, <1>14, <2>1
<1>17. \A k \in 1..3 * ns : s[n + k] = d[k]
  <2>1. \A k \in 1..3 * ns : n + k \in 1..n + 3 * ns /\ n + k \in 1..n + 3 * ns + 3 * ni
    BY <1>4
  <2> QED BY <1>10, <1>11, <1>12, <2>1
<1>18. \A k \in 1..3 * ni : s[n + 3 * ns + k] = e[k]
  <2>1. \A k \in 1..3 * ni : n + 3 * ns + k \in 1..n + 3 * ns + 3 * ni
    BY <1>4
  <2> QED BY <1>11, <1>12, <2>1
<1> HIDE DEF s
<1>19. /\ s[h + 1] = x.num_pics /\ s[h + 2] = x.is_mvc
       /\ s[h + 3] = ns /\ s[h + 4] = ni /\ s[h + 5] = np
  BY <1>7, <1>16
<1> QED BY <1>1, <1>12, <1>15, <1>17, <1>18, <1>19 DEF Laid, d, e, g, w, ns, ni, np

\* load_index_cache(_2f) undoes save_index_cache(_2f).
LEMMA ReadBack ==
  ASSUME NEW fmt \in Formats, NEW key \in Seq(Int), NEW x \in IndexType(fmt)
  PROVE  IndexIn(Saved(fmt, key, x), fmt, key) = x
<1> DEFINE s == Saved(fmt, key, x)
           h == Len(key) + 1
           n == h + 5
           ns == Len(x.spans)
           ni == Len(x.idx)
           np == Len(x.ps)
           w == PsWidth[fmt]
           y == IndexIn(s, fmt, key)
<1>1. HeaderSize(key) = n /\ n \in Nat
  BY DEF HeaderSize
<1>2. w \in {3, 4}
  BY FormatParts DEF Formats
<1>3. /\ x.spans \in Seq([1..3 -> Int]) /\ x.idx \in Seq([1..3 -> Int]) /\ x.ps \in Seq([1..w -> Int])
      /\ x = [num_pics |-> x.num_pics, is_mvc |-> x.is_mvc, spans |-> x.spans,
              idx |-> x.idx, ps |-> x.ps]
  BY DEF IndexType
<1>4. ns \in Nat /\ ni \in Nat /\ np \in Nat
  BY <1>3
<1>5. /\ s \in Seq(Int)
      /\ s[h + 1] = x.num_pics /\ s[h + 2] = x.is_mvc
      /\ s[h + 3] = ns /\ s[h + 4] = ni /\ s[h + 5] = np
      /\ \A k \in 1..3 * ns : s[n + k] = Columns(x.spans, 3)[k]
      /\ \A k \in 1..3 * ni : s[n + 3 * ns + k] = Columns(x.idx, 3)[k]
      /\ \A k \in 1..w * np : s[n + 3 * ns + 3 * ni + k] = Columns(x.ps, w)[k]
  <2>1. Laid(s, fmt, key, x)
    BY SavedParts
  <2> HIDE DEF s, w
  <2> QED BY <2>1 DEF Laid, w
<1>6. /\ y = [num_pics |-> s[h + 1], is_mvc |-> s[h + 2],
              spans |-> Rows(s, n, s[h + 3], 3),
              idx |-> Rows(s, n + 3 * s[h + 3], s[h + 4], 3),
              ps |-> Rows(s, n + 3 * (s[h + 3] + s[h + 4]), s[h + 5], w)]
  <2> HIDE DEF s
  <2> QED BY <1>1 DEF IndexIn
<1> HIDE DEF s, y, w
<1>7. Rows(s, n, ns, 3) = x.spans
  BY <1>1, <1>3, <1>5, RowsOfColumns
<1>8. Rows(s, n + 3 * ns, ni, 3) = x.idx
  <2> DEFINE at == n + 3 * ns
  <2>1. at \in Nat
    <3> HIDE DEF n, ns
    <3> QED BY <1>1, <1>4
  <2>2. \A k \in 1..3 * ni : s[at + k] = Columns(x.idx, 3)[k]
    BY <1>5
  <2> HIDE DEF at
  <2>3. Rows(s, at, ni, 3) = x.idx
    BY <1>3, <1>5, <2>1, <2>2, RowsOfColumns
  <2> QED BY <2>3 DEF at
<1>9. Rows(s, n + 3 * (ns + ni), np, w) = x.ps
  <2> DEFINE at == n + 3 * ns + 3 * ni
  <2>1. at \in Nat /\ n + 3 * (ns + ni) = at
    <3> HIDE DEF n, ns, ni
    <3> QED BY <1>1, <1>4
  <2>2. \A k \in 1..w * np : s[at + k] = Columns(x.ps, w)[k]
    BY <1>5
  <2> HIDE DEF at
  <2>3. Rows(s, at, np, w) = x.ps
    BY <1>2, <1>3, <1>5, <2>1, <2>2, RowsOfColumns, ZenonT(30)
  <2> QED BY <2>1, <2>3
<1> QED BY <1>3, <1>5, <1>6, <1>7, <1>8, <1>9 DEF s, y

-----------------------------------------------------------------------------
(* What an inode may hold *)

\* A request's format, sidecar, possible mappings, and the key they make.
FmtOf(a) == IF a.dependent = "" THEN "single" ELSE "double"
PathOf(a) == IF a.dependent = "" THEN a.source ELSE a.dependent
IsMap(a, seen) ==
    IF a.dependent = "" THEN \E v \in DOMAIN Contents[a.source] : seen = <<v>>
    ELSE \E v \in DOMAIN Contents[a.source], w \in DOMAIN Contents[a.dependent] : seen = <<v, w>>
KeyFor(a, seen) ==
    IF a.dependent = "" THEN KeyOf(Contents[a.source][seen[1]])
    ELSE KeyOf(Contents[a.source][seen[1]]) \o KeyOf(Contents[a.dependent][seen[2]])

Asked == {a \in scene.requests : a.source # ""}

\* What an instance may save under a path, all of it.
IsSaved(s, f) ==
    \E a \in Asked : PathOf(a) = f /\ \E seen : IsMap(a, seen) /\
        \E x \in ScanResults(FmtOf(a), seen) :
            x.num_pics > 0 /\ s = Saved(FmtOf(a), KeyFor(a, seen), x)

Begins(c, s) == Len(c) <= Len(s) /\ \A i \in 1..Len(c) : c[i] = s[i]

\* A dependent file belongs to one base file: the sidecar of the two has no
\* more of the base file than its size and time.
OneBase ==
    \A s \in Scenes : \A a, b \in s.requests :
        a.dependent # "" /\ a.dependent = b.dependent => a.source = b.source

LEMMA AskedTypes ==
  ASSUME scene \in Scenes, NEW a \in Asked
  PROVE  /\ a.source \in DOMAIN Contents /\ PathOf(a) \in DOMAIN Contents
         /\ a.dependent # "" => a.dependent \in DOMAIN Contents
         /\ FmtOf(a) \in Formats /\ (FmtOf(a) = "single" <=> a.dependent = "")
<1>1. /\ {a.source, a.dependent} \subseteq {""} \cup DOMAIN Contents
      /\ a.source # ""
  BY FilesAssumption DEF Asked
<1> QED BY <1>1 DEF PathOf, FmtOf, Formats

LEMMA FileCells ==
  ASSUME NEW f \in DOMAIN Contents, NEW v \in DOMAIN Contents[f]
  PROVE  /\ Contents[f][v].size \in Int /\ Contents[f][v].mtime \in Int
         /\ KeyOf(Contents[f][v]) = <<Contents[f][v].size, Contents[f][v].mtime>>
<1>1. Contents[f] \in Seq([size : Nat, mtime : Int, annexb : BOOLEAN])
  BY FilesAssumption
<1>2. Contents[f][v] \in [size : Nat, mtime : Int, annexb : BOOLEAN]
  BY <1>1, ElementType
<1> QED BY <1>2 DEF KeyOf

LEMMA KeyForType ==
  ASSUME scene \in Scenes, NEW a \in Asked, NEW seen, IsMap(a, seen)
  PROVE  /\ KeyFor(a, seen) \in Seq(Int) /\ Len(KeyFor(a, seen)) = KeyLength(FmtOf(a))
<1>1. CASE a.dependent = ""
  <2>1. PICK v \in DOMAIN Contents[a.source] : seen = <<v>>
    BY <1>1 DEF IsMap
  <2> DEFINE m == Contents[a.source][v].size
             t == Contents[a.source][v].mtime
  <2>2. m \in Int /\ t \in Int /\ KeyOf(Contents[a.source][v]) = <<m, t>>
    BY AskedTypes, FileCells
  <2>3. KeyFor(a, seen) = <<m, t>>
    BY <1>1, <2>1, <2>2 DEF KeyFor
  <2>4. FmtOf(a) = "single" /\ KeyLength("single") = 2
    BY <1>1 DEF KeyLength, FmtOf
  <2> HIDE DEF m, t
  <2>5. <<m, t>> \in Seq(Int) /\ Len(<<m, t>>) = 2
    BY <2>2
  <2> QED BY <2>3, <2>4, <2>5
<1>2. CASE a.dependent # ""
  <2>1. PICK v \in DOMAIN Contents[a.source], w \in DOMAIN Contents[a.dependent] : seen = <<v, w>>
    BY <1>2 DEF IsMap
  <2> DEFINE m == Contents[a.source][v].size
             t == Contents[a.source][v].mtime
             n == Contents[a.dependent][w].size
             u == Contents[a.dependent][w].mtime
  <2>2. /\ m \in Int /\ t \in Int /\ KeyOf(Contents[a.source][v]) = <<m, t>>
        /\ n \in Int /\ u \in Int /\ KeyOf(Contents[a.dependent][w]) = <<n, u>>
    BY <1>2, AskedTypes, FileCells
  <2>3. KeyFor(a, seen) = <<m, t>> \o <<n, u>>
    BY <1>2, <2>1, <2>2 DEF KeyFor
  <2>4. FmtOf(a) = "double" /\ KeyLength("double") = 4
    BY <1>2 DEF KeyLength, FmtOf
  <2> HIDE DEF m, t, n, u
  <2>5. <<m, t>> \o <<n, u>> \in Seq(Int) /\ Len(<<m, t>> \o <<n, u>>) = 4
    BY <2>2
  <2> QED BY <2>3, <2>4, <2>5
<1> QED BY <1>1, <1>2

\* The key tells what was mapped (KeysDiffer).
LEMMA KeyTells ==
  ASSUME scene \in Scenes, OneBase, NEW a \in Asked, NEW b \in Asked, PathOf(a) = PathOf(b),
         FmtOf(a) = FmtOf(b), NEW seen, NEW maps, IsMap(a, seen), IsMap(b, maps),
         KeyFor(a, seen) = KeyFor(b, maps)
  PROVE  seen = maps
<1>1. CASE a.dependent = ""
  <2>1. b.dependent = "" /\ a.source = b.source
    BY <1>1 DEF FmtOf, PathOf
  <2>2. PICK v \in DOMAIN Contents[a.source], w \in DOMAIN Contents[a.source] :
           seen = <<v>> /\ maps = <<w>>
    BY <1>1, <2>1 DEF IsMap
  <2> DEFINE c == Contents[a.source]
  <2>3. KeyOf(c[v]) = KeyOf(c[w])
    BY <1>1, <2>1, <2>2 DEF KeyFor
  <2>4. <<c[v].size, c[v].mtime>> = <<c[w].size, c[w].mtime>>
    BY <2>3 DEF KeyOf
  <2>5. v = w
    BY <2>4, AskedTypes, KeysDiffer
  <2> QED BY <2>2, <2>5
<1>2. CASE a.dependent # ""
  <2>1. b.dependent = a.dependent /\ b.dependent # ""
    BY <1>2 DEF FmtOf, PathOf
  <2>2. b.source = a.source
    BY <1>2, <2>1 DEF OneBase, Asked
  <2>3. PICK v \in DOMAIN Contents[a.source], w \in DOMAIN Contents[a.dependent],
             i \in DOMAIN Contents[a.source], j \in DOMAIN Contents[a.dependent] :
           seen = <<v, w>> /\ maps = <<i, j>>
    BY <1>2, <2>1, <2>2 DEF IsMap
  <2> DEFINE c == Contents[a.source]
             d == Contents[a.dependent]
  <2>4. KeyOf(c[v]) \o KeyOf(d[w]) = KeyOf(c[i]) \o KeyOf(d[j])
    BY <1>2, <2>1, <2>2, <2>3 DEF KeyFor
  <2>5. /\ c[v].size \in Int /\ c[v].mtime \in Int /\ KeyOf(c[v]) = <<c[v].size, c[v].mtime>>
        /\ d[w].size \in Int /\ d[w].mtime \in Int /\ KeyOf(d[w]) = <<d[w].size, d[w].mtime>>
        /\ c[i].size \in Int /\ c[i].mtime \in Int /\ KeyOf(c[i]) = <<c[i].size, c[i].mtime>>
        /\ d[j].size \in Int /\ d[j].mtime \in Int /\ KeyOf(d[j]) = <<d[j].size, d[j].mtime>>
    BY <1>2, AskedTypes, FileCells
  <2>6. /\ <<c[v].size, c[v].mtime>> = <<c[i].size, c[i].mtime>>
        /\ <<d[w].size, d[w].mtime>> = <<d[j].size, d[j].mtime>>
    <3> DEFINE q == c[v].size
               r == c[v].mtime
               s == d[w].size
               t == d[w].mtime
               k == c[i].size
               l == c[i].mtime
               m == d[j].size
               n == d[j].mtime
    <3>1. q \in Int /\ r \in Int /\ s \in Int /\ t \in Int
      BY <2>5
    <3>2. k \in Int /\ l \in Int /\ m \in Int /\ n \in Int
      BY <2>5
    <3>3. <<q, r>> \o <<s, t>> = <<k, l>> \o <<m, n>>
      BY <2>4, <2>5
    <3> HIDE DEF q, r, s, t, k, l, m, n
    <3> DEFINE y == <<q, r>> \o <<s, t>>
               z == <<k, l>> \o <<m, n>>
    <3>4. y[1] = q /\ y[2] = r /\ y[3] = s /\ y[4] = t
      BY <3>1
    <3>5. z[1] = k /\ z[2] = l /\ z[3] = m /\ z[4] = n
      BY <3>2
    <3>6. y = z
      BY <3>3
    <3> HIDE DEF y, z
    <3>7. q = k /\ r = l /\ s = m /\ t = n
      BY <3>4, <3>5, <3>6
    <3>8. <<q, r>> = <<k, l>> /\ <<s, t>> = <<m, n>>
      BY <3>7
    <3> QED BY <3>8 DEF q, r, s, t, k, l, m, n
  <2>7. v = i /\ w = j
    BY <1>2, <2>6, AskedTypes, KeysDiffer
  <2> QED BY <2>3, <2>7
<1> QED BY <1>1, <1>2

-----------------------------------------------------------------------------
(* What is recognised *)

LEMMA HeaderCells ==
  ASSUME NEW fmt \in Formats, NEW key \in Seq(Int), NEW f \in Seq(Int), HeaderFits(f, fmt, key)
  PROVE  /\ f[1] = Magic[fmt] /\ \A k \in 1..Len(key) : f[1 + k] = key[k]
         /\ Len(f) >= Len(key) + 6
         /\ Len(f) >= Len(key) + 6 + f[Len(key) + 4] * 3 + f[Len(key) + 5] * 3
                      + f[Len(key) + 6] * PsWidth[fmt]
<1> DEFINE h == Len(key) + 1
           start == <<Magic[fmt]>> \o key
<1>1. /\ Len(f) >= HeaderSize(key) /\ SubSeq(f, 1, h) = start
      /\ Len(f) >= HeaderSize(key) + f[h + 3] * 3 + f[h + 4] * 3 + f[h + 5] * PsWidth[fmt]
  BY DEF HeaderFits
<1>2. HeaderSize(key) = Len(key) + 6 /\ Len(key) \in Nat /\ Len(f) \in Nat
  BY DEF HeaderSize
<1>3. h + 3 = Len(key) + 4 /\ h + 4 = Len(key) + 5 /\ h + 5 = Len(key) + 6
  BY <1>2
<1>4. ASSUME NEW k \in 1..h PROVE f[k] = start[k]
  <2>1. SubSeq(f, 1, h)[k] = f[k]
    BY <1>1, <1>2
  <2> HIDE DEF start, h
  <2> QED BY <1>1, <2>1
<1>5. Magic[fmt] \in Int
  BY FormatParts DEF Formats
<1>6. start[1] = Magic[fmt] /\ \A k \in 1..Len(key) : start[1 + k] = key[k]
  BY <1>2, <1>5
<1>7. f[1] = Magic[fmt]
  <2> HIDE DEF start
  <2> QED BY <1>2, <1>4, <1>6
<1>8. ASSUME NEW k \in 1..Len(key) PROVE f[1 + k] = key[k]
  <2> HIDE DEF start
  <2> QED BY <1>2, <1>4, <1>6
<1> QED BY <1>1, <1>2, <1>3, <1>7, <1>8

LEMMA WholeType ==
  ASSUME scene \in Scenes, NEW a \in Asked, NEW seen, IsMap(a, seen)
  PROVE  ScanOf(FmtOf(a), seen) \in IndexType(FmtOf(a))
<1>0. a \in scene.requests /\ a.source # ""
  BY DEF Asked
<1>1. CASE a.dependent = ""
  <2>1. PICK v \in DOMAIN Contents[a.source] : seen = <<v>>
    BY <1>1 DEF IsMap
  <2>2. Sound(ScanOf("single", <<v>>), "single", <<Contents[a.source][v].size>>)
    BY <1>0, <1>1, ScanAssumption
  <2>3. FmtOf(a) = "single"
    BY <1>1 DEF FmtOf
  <2> QED BY <2>1, <2>2, <2>3 DEF Sound
<1>2. CASE a.dependent # ""
  <2>1. PICK v \in DOMAIN Contents[a.source], w \in DOMAIN Contents[a.dependent] : seen = <<v, w>>
    BY <1>2 DEF IsMap
  <2>2. Sound(ScanOf("double", <<v, w>>), "double",
              <<Contents[a.source][v].size, Contents[a.dependent][w].size>>)
    BY <1>0, <1>2, ScanAssumption
  <2>3. FmtOf(a) = "double"
    BY <1>2 DEF FmtOf
  <2> QED BY <2>1, <2>2, <2>3 DEF Sound
<1> QED BY <1>1, <1>2

\* What a scan found, all of it or cut short, has an index's parts.
LEMMA ScannedType ==
  ASSUME scene \in Scenes, NEW a \in Asked, NEW seen, IsMap(a, seen),
         NEW x \in ScanResults(FmtOf(a), seen)
  PROVE  x \in IndexType(FmtOf(a))
<1> DEFINE fmt == FmtOf(a)
           whole == ScanOf(FmtOf(a), seen)
<1>1. whole \in IndexType(fmt)
  BY WholeType
<1> HIDE DEF whole, fmt
<1>2. whole.idx \in Seq([1..3 -> Int])
  BY <1>1 DEF IndexType
<1>3. \A n \in 0..Len(whole.idx) : SubSeq(whole.idx, 1, n) \in Seq([1..3 -> Int])
  BY <1>2
<1>4. \A cut \in Seq([1..3 -> Int]) : [whole EXCEPT !.idx = cut] \in IndexType(fmt)
  BY <1>1 DEF IndexType
<1>5. x = whole \/ \E n \in 0..Len(whole.idx) : x = [whole EXCEPT !.idx = SubSeq(whole.idx, 1, n)]
  BY DEF ScanResults, whole
<1> QED BY <1>1, <1>3, <1>4, <1>5 DEF fmt

\* An accepted reading of what was saved for the same sidecar is of the same
\* sources, and is complete.
LEMMA Recognised ==
  ASSUME scene \in Scenes, OneBase, NEW a \in Asked, NEW maps, IsMap(a, maps),
         NEW buf \in Seq(Int), NEW s, IsSaved(s, PathOf(a)), Begins(buf, s),
         Accepts(buf, FmtOf(a), KeyFor(a, maps))
  PROVE  IndexIn(buf, FmtOf(a), KeyFor(a, maps)) \in ScanResults(FmtOf(a), maps)
<1>1. PICK b \in Asked : PathOf(b) = PathOf(a) /\ \E seen : IsMap(b, seen) /\
         \E x \in ScanResults(FmtOf(b), seen) :
            x.num_pics > 0 /\ s = Saved(FmtOf(b), KeyFor(b, seen), x)
  BY DEF IsSaved
<1>2. PICK seen : IsMap(b, seen) /\ \E x \in ScanResults(FmtOf(b), seen) :
            x.num_pics > 0 /\ s = Saved(FmtOf(b), KeyFor(b, seen), x)
  BY <1>1
<1>3. PICK x \in ScanResults(FmtOf(b), seen) : s = Saved(FmtOf(b), KeyFor(b, seen), x)
  BY <1>2
<1> DEFINE key == KeyFor(a, maps)
           was == KeyFor(b, seen)
<1>4. /\ FmtOf(a) \in Formats /\ FmtOf(b) \in Formats
      /\ key \in Seq(Int) /\ Len(key) = KeyLength(FmtOf(a))
      /\ was \in Seq(Int) /\ Len(was) = KeyLength(FmtOf(b))
      /\ x \in IndexType(FmtOf(b))
  BY <1>2, AskedTypes, KeyForType, ScannedType
<1>5. /\ buf[1] = Magic[FmtOf(a)] /\ \A k \in 1..Len(key) : buf[1 + k] = key[k]
      /\ Len(buf) >= Len(key) + 6
      /\ Len(buf) >= Len(key) + 6 + buf[Len(key) + 4] * 3 + buf[Len(key) + 5] * 3
                      + buf[Len(key) + 6] * PsWidth[FmtOf(a)]
  <2>1. HeaderFits(buf, FmtOf(a), key)
    BY DEF Accepts
  <2> HIDE DEF key
  <2> QED BY <1>4, <2>1, HeaderCells
<1>6. Laid(s, FmtOf(b), was, x)
  BY <1>3, <1>4, SavedParts
<1> HIDE DEF key, was
<1>7. /\ Len(buf) <= Len(s) /\ \A i \in 1..Len(buf) : buf[i] = s[i]
      /\ Len(buf) \in Nat /\ Len(key) \in Nat /\ Len(was) \in Nat
  BY <1>4 DEF Begins
<1>8. FmtOf(a) = FmtOf(b)
  <2>1. s[1] = Magic[FmtOf(b)]
    BY <1>6 DEF Laid
  <2>2. Len(buf) >= 1 => buf[1] = s[1]
    BY <1>7
  <2>3. Len(buf) >= Len(key) + 6 /\ buf[1] = Magic[FmtOf(a)]
    BY <1>5
  <2>4. Len(buf) >= 1
    BY <1>7, <2>3
  <2>5. Magic[FmtOf(a)] = Magic[FmtOf(b)]
    BY <2>1, <2>2, <2>3, <2>4
  <2>6. Magic["single"] = 1 /\ Magic["double"] = 2
    BY FormatParts
  <2>7. FmtOf(a) \in {"single", "double"} /\ FmtOf(b) \in {"single", "double"}
    BY <1>4 DEF Formats
  <2> QED BY <2>5, <2>6, <2>7
<1>9. key = was
  <2>1. Len(key) = Len(was)
    BY <1>4, <1>8
  <2>2. ASSUME NEW k \in 1..Len(key) PROVE key[k] = was[k]
    <3>1. buf[1 + k] = s[1 + k]
      BY <1>5, <1>7
    <3>2. s[1 + k] = was[k]
      BY <1>6, <2>1 DEF Laid
    <3> QED BY <1>5, <3>1, <3>2
  <2> QED BY <1>4, <2>1, <2>2
<1>10. maps = seen
  BY <1>1, <1>2, <1>8, <1>9, KeyTells DEF key, was
<1>11. buf = s
  <2> DEFINE n == Len(key)
             w == PsWidth[FmtOf(a)]
             ns == Len(x.spans)
             ni == Len(x.idx)
             np == Len(x.ps)
  <2>1. /\ s \in Seq(Int) /\ Len(s) = n + 6 + 3 * ns + 3 * ni + w * np
        /\ s[n + 4] = ns /\ s[n + 5] = ni /\ s[n + 6] = np
    <3>1. Laid(s, FmtOf(a), key, x)
      BY <1>6, <1>8, <1>9
    <3>2. n + 1 + 5 = n + 6 /\ n + 1 + 3 = n + 4 /\ n + 1 + 4 = n + 5
      BY <1>7
    <3> HIDE DEF w
    <3> QED BY <3>1, <3>2 DEF Laid, w
  <2>2. ns \in Nat /\ ni \in Nat /\ np \in Nat /\ w \in Nat
    BY <1>4, FormatParts DEF IndexType, Formats
  <2> HIDE DEF n, w, ns, ni, np
  <2>3. buf[n + 4] = ns /\ buf[n + 5] = ni /\ buf[n + 6] = np
    <3>1. n \in Nat /\ Len(buf) >= n + 6
      BY <1>5, <1>7 DEF n
    <3>2. n + 4 \in 1..Len(buf) /\ n + 5 \in 1..Len(buf) /\ n + 6 \in 1..Len(buf)
      BY <1>7, <3>1
    <3>3. buf[n + 4] = s[n + 4] /\ buf[n + 5] = s[n + 5] /\ buf[n + 6] = s[n + 6]
      BY <1>7, <3>2
    <3> QED BY <2>1, <3>3
  <2>4. Len(buf) >= Len(s)
    <3>1. Len(buf) >= n + 6 + ns * 3 + ni * 3 + np * w
      BY <1>5, <2>3 DEF n, w
    <3>2. ns * 3 = 3 * ns /\ ni * 3 = 3 * ni /\ np * w = w * np
      BY <2>2
    <3> QED BY <2>1, <3>1, <3>2
  <2>5. s \in Seq(Int) /\ Len(s) \in Nat
    BY <2>1
  <2>6. Len(buf) = Len(s)
    BY <1>7, <2>4, <2>5
  <2> QED BY <1>7, <2>5, <2>6
<1>12. IndexIn(s, FmtOf(b), was) = x
  BY <1>3, <1>4, ReadBack DEF was
<1> QED BY <1>8, <1>9, <1>10, <1>11, <1>12 DEF key

-----------------------------------------------------------------------------
(* Who has an inode, and what is in it *)

Clean(i) == "shared" \notin stained[i] /\ "left" \notin stained[i]

\* A path leads to an inode by its name, or through a process that has it open.
Reached(i, f) == entry[f] = i \/ \E p \in Procs : Holds(p, i) /\ Sidecar(p) = f

OnePath ==
    \A i \in Inodes : \A f, g \in DOMAIN Contents : Reached(i, f) /\ Reached(i, g) => f = g

\* As long as no second process has its file, a writer has put there what is
\* to be in front of its position, and nothing else.
Writer(p) ==
    At(p, "write") /\ Clean(proc[p].ino) =>
        /\ Len(disk[proc[p].ino]) = proc[p].pos /\ Begins(disk[proc[p].ino], ToWrite(p))
        /\ \A q \in Procs : At(q, "write") /\ Holds(q, proc[p].ino) => q = p

Reader(p) ==
    /\ ~At(p, "load") => proc[p].buf = <<>>
    /\ At(p, "load") /\ Clean(proc[p].ino) => Begins(proc[p].buf, disk[proc[p].ino])

Scanned(p) == proc[p].index \in ScanResults(Fmt(p), proc[p].seen) /\ proc[p].index.num_pics > 0

Author(p) == proc[p].pc \in {"save", "write"} => Scanned(p)

Content ==
    \A i \in Inodes : \A f \in DOMAIN Contents : Clean(i) /\ Reached(i, f) =>
        \E s : IsSaved(s, f) /\ Begins(disk[i], s)

\* A file no writer died over, and none is at work on, is complete.
Settled(f) ==
    /\ entry[f] # NoFile /\ stained[entry[f]] = {}
    /\ \A p \in Procs : At(p, "write") => ~Holds(p, entry[f])

Complete == \A f \in DOMAIN Contents : Settled(f) => IsSaved(disk[entry[f]], f)

Roles == \A p \in Procs : Writer(p) /\ Reader(p) /\ Author(p)

InodesInv == OnePath /\ Roles /\ Content /\ Complete

\* What a process opened and found stays what it is.
LEMMA SameJob ==
  ASSUME NEW p, UNCHANGED scene,
         proc'[p].req = proc[p].req, proc'[p].seen = proc[p].seen, proc'[p].index = proc[p].index
  PROVE  /\ Fmt(p)' = Fmt(p) /\ Sidecar(p)' = Sidecar(p) /\ Key(p)' = Key(p)
         /\ ToWrite(p)' = ToWrite(p) /\ (Scanned(p)' <=> Scanned(p))
<1>1. Fmt(p)' = Fmt(p)
  BY DEF Fmt
<1>2. Named(p)' = Named(p)
  BY <1>1 DEF Named
<1>3. Sidecar(p)' = Sidecar(p)
  BY <1>2 DEF Sidecar
<1>4. \A i : Mapped(p, i)' = Mapped(p, i)
  BY <1>2 DEF Mapped
<1>5. Key(p)' = Key(p)
  BY <1>1, <1>4 DEF Key
<1>6. ToWrite(p)' = ToWrite(p)
  BY <1>1, <1>5 DEF ToWrite
<1>7. Scanned(p)' <=> Scanned(p)
  BY <1>1 DEF Scanned, ScanResults
<1> QED BY <1>1, <1>3, <1>5, <1>6, <1>7

LEMMA SavedStays ==
  ASSUME UNCHANGED scene
  PROVE  \A s, f : IsSaved(s, f)' <=> IsSaved(s, f)
<1>1. Asked' = Asked
  BY DEF Asked
<1>2. \A fmt, seen : ScanResults(fmt, seen)' = ScanResults(fmt, seen)
  BY DEF ScanResults
<1> QED BY <1>1, <1>2 DEF IsSaved

LEMMA HoldersOpen ==
  ASSUME TypeInv, NEW p \in Procs
  PROVE  /\ \A i \in Inodes : Holds(p, i) => proc[p].pc \in {"load", "write"} /\ ~At(p, "idle")
         /\ proc[p].pc \in {"load", "write"} => proc[p].ino \in Inodes /\ ~At(p, "idle")
<1>1. /\ proc[p].ino \in Inodes \cup {NoFile}
      /\ proc[p].pc \in {"load", "write"} <=> proc[p].ino # NoFile
  BY DEF TypeInv, ProcsInv, Opened
<1>2. \A i \in Inodes : i # NoFile
  BY DEF Inodes, NoFile
<1>3. proc[p].pc \in {"load", "write"} => ~At(p, "idle")
  BY DEF At
<1> QED BY <1>1, <1>2, <1>3 DEF Holds

\* A step of a process that does not write leaves the others their parts.
LEMMA OthersRoles ==
  ASSUME TypeInv, Roles, UNCHANGED <<scene, disk>>, NEW p \in Procs,
         \A q \in Procs : q # p => proc'[q] = proc[q], ~At(p, "write")',
         \A i \in Inodes : Clean(i)' <=> Clean(i)
  PROVE  \A q \in Procs : q # p => (Writer(q) /\ Reader(q) /\ Author(q))'
<1> SUFFICES ASSUME NEW q \in Procs, q # p PROVE (Writer(q) /\ Reader(q) /\ Author(q))'
  OBVIOUS
<1>1. /\ proc'[q] = proc[q] /\ ToWrite(q)' = ToWrite(q) /\ (Scanned(q)' <=> Scanned(q))
  BY SameJob
<1>2. Writer(q) /\ Reader(q) /\ Author(q)
  BY DEF Roles
<1>3. (At(q, "write") \/ At(q, "load")) => (Clean(proc[q].ino)' <=> Clean(proc[q].ino))
  <2>1. proc[q].pc \in {"load", "write"} => proc[q].ino \in Inodes
    BY HoldersOpen
  <2> QED BY <1>1, <2>1 DEF At, Clean
<1>4. Author(q)'
  BY <1>1, <1>2 DEF Author
<1>5. Reader(q)'
  BY <1>1, <1>2, <1>3 DEF Reader, At, Clean
<1>6. ASSUME NEW r \in Procs, (At(r, "write") /\ Holds(r, proc[q].ino))'
      PROVE  r # p /\ At(r, "write") /\ Holds(r, proc[q].ino)
  BY <1>1, <1>6 DEF At, Holds
<1>7. Writer(q)'
  BY <1>1, <1>2, <1>3, <1>6 DEF Writer, At, Clean
<1> QED BY <1>4, <1>5, <1>7

\* A process that holds no file any more disturbs nobody.
LEMMA LetsGo ==
  ASSUME TypeInv, TypeInv', InodesInv, UNCHANGED <<scene, disk>>, NEW p \in Procs,
         \A q \in Procs : q # p => proc'[q] = proc[q],
         proc'[p].pc \notin {"load", "write"}, proc'[p].buf = <<>>, Author(p)',
         \A f \in DOMAIN Contents : entry'[f] \in {entry[f], NoFile},
         \A i \in Inodes : Clean(i)' <=> Clean(i),
         Complete'
  PROVE  InodesInv'
<1>1. ASSUME NEW q \in Procs, q # p
      PROVE  proc'[q] = proc[q] /\ Sidecar(q)' = Sidecar(q)
  BY <1>1, SameJob
<1>2. ASSUME NEW i \in Inodes PROVE ~Holds(p, i)'
  <2>1. proc'[p].ino = NoFile
    BY DEF TypeInv, ProcsInv, Opened
  <2> QED BY <2>1 DEF Holds, Inodes, NoFile
<1>3. ASSUME NEW i \in Inodes, NEW f \in DOMAIN Contents, Reached(i, f)' PROVE Reached(i, f)
  <2>1. CASE entry'[f] = i
    <3>1. i # NoFile
      BY DEF Inodes, NoFile
    <3> QED BY <2>1, <3>1 DEF Reached
  <2>2. CASE \E q \in Procs : Holds(q, i)' /\ Sidecar(q)' = f
    BY <1>1, <1>2, <2>2 DEF Reached, Holds
  <2> QED BY <1>3, <2>1, <2>2 DEF Reached
<1>4. OnePath'
  BY <1>3 DEF OnePath, InodesInv
<1>5. Content'
  BY <1>3, SavedStays DEF Content, InodesInv
<1>6. Roles'
  <2>1. Writer(p)' /\ Reader(p)'
    BY DEF Writer, Reader, At
  <2>2. ~At(p, "write")'
    BY DEF At
  <2>3. \A q \in Procs : q # p => (Writer(q) /\ Reader(q) /\ Author(q))'
    BY <2>2, OthersRoles DEF InodesInv
  <2> QED BY <2>1, <2>3 DEF Roles
<1> QED BY <1>4, <1>5, <1>6 DEF InodesInv

LEMMA Released ==
  ASSUME TypeInv, TypeInv', InodesInv, UNCHANGED scene, FilesKept, NEW p \in Procs,
         \A q \in Procs : q # p => proc'[q] = proc[q],
         ~At(p, "write"), proc'[p].pc \notin {"load", "write"}, proc'[p].buf = <<>>, Author(p)'
  PROVE  InodesInv'
<1>1. \A i : Clean(i)' <=> Clean(i)
  BY DEF FilesKept, Clean
<1>2. ASSUME NEW f \in DOMAIN Contents, Settled(f)' PROVE Settled(f)
  <2>1. ASSUME NEW q \in Procs, At(q, "write") PROVE ~Holds(q, entry[f])
    <3>1. q # p
      BY <2>1 DEF At
    <3> QED BY <1>2, <2>1, <3>1 DEF Settled, At, Holds, FilesKept
  <2> QED BY <1>2, <2>1 DEF Settled, FilesKept
<1>3. Complete'
  BY <1>2, SavedStays DEF Complete, InodesInv, FilesKept
<1> QED BY <1>1, <1>3, LetsGo DEF FilesKept

LEMMA Unheld ==
  ASSUME TypeInv, TypeInv', InodesInv, UNCHANGED scene, FilesKept, NEW p \in Procs,
         \A q \in Procs : q # p => proc'[q] = proc[q],
         proc[p].pc \notin {"load", "write"}, proc'[p].pc \notin {"load", "write"},
         proc'[p].buf \in {proc[p].buf, <<>>}, Author(p)'
  PROVE  InodesInv'
<1>1. proc'[p].buf = <<>>
  <2>1. ~At(p, "load") => proc[p].buf = <<>>
    BY DEF InodesInv, Roles, Reader
  <2> QED BY <2>1 DEF At
<1>2. ~At(p, "write")
  BY DEF At
<1> QED BY <1>1, <1>2, Released

LEMMA Moved ==
  ASSUME TypeInv, NEW p \in Procs, NEW new, Step(p, new)
  PROVE  (\A q \in Procs : q # p => proc'[q] = proc[q]) /\ proc'[p] = With(proc[p], new)
  BY DEF TypeInv, ProcsInv, Step

LEMMA Left ==
  ASSUME TypeInv, NEW p \in Procs, NEW held, Leave(p, held)
  PROVE  (\A q \in Procs : q # p => proc'[q] = proc[q])
         /\ proc'[p].pc = "idle" /\ proc'[p].buf = <<>> /\ Author(p)'
<1> DEFINE new == [Idle EXCEPT !.own = held, !.opens = proc[p].opens]
<1>1. new.pc = "idle" /\ new.buf = <<>> /\ DOMAIN new = DOMAIN Idle
      /\ "pc" \in DOMAIN Idle /\ "buf" \in DOMAIN Idle
  BY DEF Idle
<1>2. Step(p, new)
  BY DEF Leave
<1> HIDE DEF new
<1>3. (\A q \in Procs : q # p => proc'[q] = proc[q]) /\ proc'[p] = With(proc[p], new)
  BY <1>2, Moved
<1> QED BY <1>1, <1>3 DEF With, Author

LEMMA QuietKeeps ==
  ASSUME TypeInv, TypeInv', InodesInv, UNCHANGED scene, NEW p \in Procs,
         \/ MapBase(p) \/ MapDependent(p) \/ Scan(p) \/ FirstFrame(p) \/ NewFilter(p) \/ NewClip(p)
         \/ Serving(p)
  PROVE  InodesInv'
<1>0. ProcsInv
  BY DEF TypeInv
<1> DEFINE Quiet == proc[p].pc \notin {"load", "write"} /\ FilesKept
<1>1. ASSUME NEW held, Leave(p, held), Quiet PROVE InodesInv'
  BY <1>1, Left, Unheld
<1>2. ASSUME NEW new, Step(p, new), Quiet, "buf" \notin DOMAIN new,
             proc'[p].pc \notin {"load", "save", "write"}
      PROVE  InodesInv'
  <2>1. (\A q \in Procs : q # p => proc'[q] = proc[q]) /\ proc'[p] = With(proc[p], new)
    BY <1>2, Moved
  <2>2. proc'[p].buf = proc[p].buf
    BY <1>2, <2>1 DEF With, Idle
  <2>3. Author(p)'
    BY <1>2 DEF Author
  <2> QED BY <1>2, <2>1, <2>2, <2>3, Unheld
<1>3. CASE MapBase(p) \/ MapDependent(p)
  <2>1. Quiet
    BY <1>3 DEF MapBase, MapDependent, FilesKept, Close, At
  <2>2. ASSUME NEW v, NEW own, NEW pc \in {"find", "map2"}, Step(p, [pc |-> pc, own |-> own, seen |-> v])
        PROVE  InodesInv'
    <3>1. proc'[p].pc = pc
      BY <2>2, <1>0 DEF Step, With, Idle, ProcsInv
    <3> QED BY <1>2, <2>1, <2>2, <3>1
  <2> QED BY <1>1, <1>3, <2>1, <2>2 DEF MapBase, MapDependent, Close
<1>4. CASE Scan(p)
  <2>1. At(p, "scan")
    BY <1>4 DEF Scan
  <2>2. CASE Close(p, {"path"})
    BY <1>1, <2>1, <2>2 DEF Close, At
  <2>3. ASSUME NEW x \in ScanResults(Fmt(p), proc[p].seen), x.num_pics > 0, FilesKept, NEW own,
               NEW pc \in {"save", "decode"}, Step(p, [pc |-> pc, own |-> own, index |-> x])
        PROVE  InodesInv'
    <3>1. (\A q \in Procs : q # p => proc'[q] = proc[q])
          /\ proc'[p] = With(proc[p], [pc |-> pc, own |-> own, index |-> x])
      BY <2>3, Moved
    <3>2. /\ proc'[p].pc = pc /\ proc'[p].index = x /\ proc'[p].req = proc[p].req
          /\ proc'[p].seen = proc[p].seen /\ proc'[p].buf = proc[p].buf
      BY <3>1 DEF With, Idle
    <3>3. Scanned(p)'
      BY <2>3, <3>2, ZenonT(40) DEF Scanned, ScanResults, Fmt
    <3> QED BY <2>1, <2>3, <3>1, <3>2, <3>3, Unheld DEF Author, At
  <2> QED BY <1>4, <2>2, <2>3 DEF Scan
<1>5. CASE FirstFrame(p)
  <2>1. At(p, "decode") /\ Quiet
    BY <1>5 DEF FirstFrame, FilesKept, Close, At
  <2>2. ASSUME NEW own, NEW views, NEW n,
               Step(p, [pc |-> "node", own |-> own, first |-> views, ring |-> n])
        PROVE  InodesInv'
    <3>1. proc'[p].pc = "node"
      BY <2>2, <1>0 DEF Step, With, Idle, ProcsInv
    <3> QED BY <1>2, <2>1, <2>2, <3>1
  <2> QED BY <1>1, <1>5, <2>1, <2>2 DEF FirstFrame, Close
<1>6. CASE NewFilter(p) \/ NewClip(p)
  <2>1. At(p, "node") /\ Quiet
    BY <1>6 DEF NewFilter, NewClip, FilesKept, Close, At
  <2>2. ASSUME NEW i, NEW own, Step(p, [pc |-> "live", info |-> i, own |-> own]) PROVE InodesInv'
    <3>1. proc'[p].pc = "live"
      BY <2>2, <1>0 DEF Step, With, Idle, ProcsInv
    <3> QED BY <1>2, <2>1, <2>2, <3>1
  <2>3. ASSUME NEW i, Step(p, [pc |-> "live", info |-> i]) PROVE InodesInv'
    <3>1. proc'[p].pc = "live"
      BY <2>3, <1>0 DEF Step, With, Idle, ProcsInv
    <3> QED BY <1>2, <2>1, <2>3, <3>1
  <2> QED BY <1>1, <1>6, <2>1, <2>2, <2>3 DEF NewFilter, NewClip, Close
<1>7. CASE Create(p)
  <2>1. At(p, "idle") /\ Quiet
    BY <1>7 DEF Create, FilesKept, At
  <2>2. ASSUME NEW own, NEW a, NEW b, NEW n,
               Step(p, [pc |-> "map", own |-> own, req |-> a, budget |-> b, opens |-> n])
        PROVE  InodesInv'
    <3>1. proc'[p].pc = "map"
      BY <2>2, <1>0 DEF Step, With, Idle, ProcsInv
    <3> QED BY <1>2, <2>1, <2>2, <3>1
  <2> QED BY <1>7, <2>2 DEF Create
<1>8. CASE BeginCall(p) \/ EndCall(p) \/ FreeNode(p)
  <2>1. At(p, "live") /\ Quiet
    <3>1. ~At(p, "live") => proc[p].calls = 0
      BY DEF TypeInv, ProcsInv, Whole
    <3>2. EndCall(p) => At(p, "live")
      BY <3>1 DEF EndCall
    <3> QED BY <1>8, <3>2 DEF BeginCall, EndCall, FreeNode, FilesKept, Close, At
  <2>2. ASSUME NEW n, NEW f, Step(p, [calls |-> n, frame |-> f]) PROVE InodesInv'
    <3>1. proc'[p].pc = proc[p].pc
      BY <2>2, <1>0 DEF Step, With, Idle, ProcsInv
    <3> QED BY <1>2, <2>1, <2>2, <3>1 DEF At
  <2>3. ASSUME NEW n, Step(p, [calls |-> n]) PROVE InodesInv'
    <3>1. proc'[p].pc = proc[p].pc
      BY <2>3, <1>0 DEF Step, With, Idle, ProcsInv
    <3> QED BY <1>2, <2>1, <2>3, <3>1 DEF At
  <2> QED BY <1>1, <1>8, <2>1, <2>2, <2>3 DEF BeginCall, EndCall, FreeNode, Close
<1> QED BY <1>3, <1>4, <1>5, <1>6, <1>7, <1>8 DEF Serving

\* Opening what a path names gives no file a second path.
LEMMA SamePaths ==
  ASSUME UNCHANGED <<scene, entry>>, NEW p \in Procs, \A q \in Procs : q # p => proc'[q] = proc[q],
         Sidecar(p)' = Sidecar(p), proc'[p].ino \in {proc[p].ino, entry[Sidecar(p)]}
  PROVE  \A i, f : Reached(i, f)' => Reached(i, f)
<1>1. \A q \in Procs : q # p => Sidecar(q)' = Sidecar(q)
  BY SameJob
<1>2. ASSUME NEW i, NEW f, NEW q \in Procs, Holds(q, i)', Sidecar(q)' = f PROVE Reached(i, f)
  <2>1. CASE q = p
    BY <1>2, <2>1 DEF Reached, Holds
  <2>2. CASE q # p
    BY <1>1, <1>2, <2>2 DEF Reached, Holds
  <2> QED BY <2>1, <2>2
<1> QED BY <1>2 DEF Reached

LEMMA FindKeeps ==
  ASSUME TypeInv, TypeInv', InodesInv, UNCHANGED scene, NEW p \in Procs, FindSidecar(p)
  PROVE  InodesInv'
<1>0. ProcsInv
  BY DEF TypeInv
<1>1. At(p, "find") /\ FilesKept
  BY DEF FindSidecar
<1>2. proc[p].buf = <<>>
  BY <1>1 DEF InodesInv, Roles, Reader, At
<1>3. CASE Step(p, [pc |-> "scan"]) \/ Step(p, [pc |-> "scan", own |-> Own(p, {"path"})])
  <2>1. proc'[p].pc = "scan" /\ proc'[p].buf = proc[p].buf
    BY <1>0, <1>3 DEF Step, With, Idle, ProcsInv
  <2>2. \A q \in Procs : q # p => proc'[q] = proc[q]
    BY <1>0, <1>3 DEF Step, ProcsInv
  <2> QED BY <1>1, <2>1, <2>2, Unheld DEF At, Author
<1>4. CASE Step(p, [pc |-> "load", own |-> Own(p, {"path", "file"}), ino |-> entry[Sidecar(p)]])
  <2>1. /\ proc'[p].pc = "load" /\ proc'[p].buf = <<>> /\ proc'[p].ino = entry[Sidecar(p)]
        /\ proc'[p].req = proc[p].req /\ proc'[p].seen = proc[p].seen
        /\ proc'[p].index = proc[p].index
    BY <1>0, <1>2, <1>4 DEF Step, With, Idle, ProcsInv
  <2>2. \A q \in Procs : q # p => proc'[q] = proc[q]
    BY <1>0, <1>4 DEF Step, ProcsInv
  <2>3. \A i, f : Reached(i, f)' => Reached(i, f)
    BY <1>1, <2>1, <2>2, SameJob, SamePaths DEF FilesKept
  <2>4. \A i : Clean(i)' <=> Clean(i)
    BY <1>1 DEF FilesKept, Clean
  <2>5. OnePath' /\ Content'
    BY <1>1, <2>3, <2>4, SavedStays DEF InodesInv, OnePath, Content, FilesKept
  <2>6. Roles'
    <3>1. (Writer(p) /\ Reader(p) /\ Author(p))'
      BY <2>1 DEF Writer, Reader, Author, At, Begins
    <3>2. \A q \in Procs : q # p => (Writer(q) /\ Reader(q) /\ Author(q))'
      BY <1>1, <2>1, <2>2, <2>4, OthersRoles DEF InodesInv, FilesKept, At
    <3> QED BY <3>1, <3>2 DEF Roles
  <2>7. ASSUME NEW f \in DOMAIN Contents, Settled(f)' PROVE Settled(f)
    <3>1. ASSUME NEW q \in Procs, At(q, "write") PROVE ~Holds(q, entry[f])
      <4>1. q # p
        BY <1>1, <3>1 DEF At
      <4> QED BY <1>1, <2>2, <2>7, <3>1, <4>1 DEF Settled, At, Holds, FilesKept
    <3> QED BY <1>1, <2>7, <3>1 DEF Settled, FilesKept
  <2>8. Complete'
    BY <1>1, <2>7, SavedStays DEF Complete, InodesInv, FilesKept
  <2> QED BY <2>5, <2>6, <2>8 DEF InodesInv
<1> QED BY <1>3, <1>4 DEF FindSidecar

LEMMA BeginsLonger ==
  ASSUME NEW f \in Seq(Int), NEW b \in Seq(Int), Begins(b, f), NEW m \in Len(b)..Len(f)
  PROVE  Begins(b \o SubSeq(f, Len(b) + 1, m), f)
<1> DEFINE n == Len(b)
           t == SubSeq(f, n + 1, m)
<1>1. /\ n \in Nat /\ m \in Nat /\ n <= m /\ m <= Len(f) /\ Len(f) \in Nat
      /\ \A i \in 1..n : b[i] = f[i]
  BY DEF Begins
<1>2. t \in Seq(Int) /\ Len(t) = m - n /\ \A i \in 1..m - n : t[i] = f[n + i]
  <2> HIDE DEF n
  <2> QED BY <1>1
<1>3. Follows(b, t, b \o t, n, m - n)
  BY <1>2, Joined
<1>4. \A i \in 1..m : (b \o t)[i] = f[i]
  <2> SUFFICES ASSUME NEW i \in 1..m PROVE (b \o t)[i] = f[i]
    OBVIOUS
  <2> DEFINE u == b \o t
  <2> HIDE DEF t, u
  <2>1. ASSUME i <= n PROVE u[i] = f[i]
    <3>1. i \in 1..n
      BY <1>1, <2>1
    <3> QED BY <1>1, <1>3, <3>1 DEF Follows, u
  <2>2. ASSUME i > n PROVE u[i] = f[i]
    <3> DEFINE k == i - n
    <3>1. k \in 1..m - n /\ i = n + k
      BY <1>1, <2>2
    <3> HIDE DEF k
    <3> QED BY <1>2, <1>3, <3>1 DEF Follows, u
  <2>3. i <= n \/ i > n
    BY <1>1
  <2> QED BY <2>1, <2>2, <2>3 DEF u
<1>5. Len(b \o t) = m
  <2> HIDE DEF t
  <2> QED BY <1>1, <1>3 DEF Follows
<1> QED BY <1>1, <1>4, <1>5 DEF Begins

LEMMA ReadKeeps ==
  ASSUME TypeInv, TypeInv', DataInv, InodesInv, UNCHANGED scene, NEW p \in Procs, Read(p)
  PROVE  InodesInv'
<1>0. ProcsInv
  BY DEF TypeInv
<1> DEFINE f == disk[proc[p].ino]
           n == Len(proc[p].buf)
           m == Min({n + Block, Len(f)})
           more == proc[p].buf \o SubSeq(f, n + 1, m)
<1>1. At(p, "load") /\ FilesKept /\ ~(n >= Len(f)) /\ Step(p, [buf |-> more])
  BY DEF Read, AtEof
<1>2. /\ proc'[p].pc = "load" /\ proc'[p].seen = proc[p].seen /\ proc'[p].req = proc[p].req
      /\ proc'[p].index = proc[p].index /\ proc'[p].buf = more /\ proc'[p].ino = proc[p].ino
  <2> HIDE DEF more
  <2> QED BY <1>0, <1>1 DEF Step, With, Idle, ProcsInv, At
<1>3. \A q \in Procs : q # p => proc'[q] = proc[q]
  BY <1>0, <1>1 DEF Step, ProcsInv
<1>4. \A i, g : Reached(i, g)' => Reached(i, g)
  BY <1>1, <1>2, <1>3, SameJob, SamePaths DEF FilesKept
<1>5. \A i : Clean(i)' <=> Clean(i)
  BY <1>1 DEF FilesKept, Clean
<1>6. OnePath' /\ Content'
  BY <1>1, <1>4, <1>5, SavedStays DEF InodesInv, OnePath, Content, FilesKept
<1>7. Roles'
  <2>1. f \in Seq(Int) /\ proc[p].buf \in Seq(Int)
    <3>1. proc[p].ino \in Inodes
      BY <1>1, HoldersOpen DEF At
    <3> QED BY <3>1 DEF DataInv, Data, Cells
  <2>2. m \in n..Len(f)
    <3>1. n \in Nat /\ Len(f) \in Nat /\ Block \in Nat \ {0}
      BY <2>1, LifeAssumption
    <3>2. n < Len(f)
      BY <1>1, <3>1
    <3> HIDE DEF f, n
    <3>3. m = IF n + Block <= Len(f) THEN n + Block ELSE Len(f)
      BY <3>1, Smaller
    <3> HIDE DEF m
    <3> QED BY <3>1, <3>2, <3>3
  <2>3. Clean(proc[p].ino) => Begins(more, f)
    <3>1. Clean(proc[p].ino) => Begins(proc[p].buf, f)
      BY <1>1 DEF InodesInv, Roles, Reader
    <3> HIDE DEF f, m
    <3> QED BY <2>1, <2>2, <3>1, BeginsLonger
  <2>4. (Writer(p) /\ Reader(p) /\ Author(p))'
    <3> HIDE DEF more
    <3>1. disk'[proc'[p].ino] = f /\ (Clean(proc[p].ino)' => Clean(proc[p].ino))
      BY <1>1, <1>2 DEF FilesKept, Clean
    <3>2. Reader(p)'
      BY <1>2, <2>3, <3>1 DEF Reader, At
    <3> QED BY <1>2, <3>2 DEF Writer, Author, At
  <2>5. \A q \in Procs : q # p => (Writer(q) /\ Reader(q) /\ Author(q))'
    BY <1>1, <1>2, <1>3, <1>5, OthersRoles DEF InodesInv, FilesKept, At
  <2> QED BY <2>4, <2>5 DEF Roles
<1>8. ASSUME NEW g \in DOMAIN Contents, Settled(g)' PROVE Settled(g)
  <2>1. ASSUME NEW q \in Procs, At(q, "write") PROVE ~Holds(q, entry[g])
    <3>1. q # p
      BY <1>1, <2>1 DEF At
    <3> QED BY <1>1, <1>3, <1>8, <2>1, <3>1 DEF Settled, At, Holds, FilesKept
  <2> QED BY <1>1, <1>8, <2>1 DEF Settled, FilesKept
<1>9. Complete'
  BY <1>1, <1>8, SavedStays DEF Complete, InodesInv, FilesKept
<1> QED BY <1>6, <1>7, <1>9 DEF InodesInv

LEMMA AsAsked ==
  ASSUME TypeInv, DataInv, NEW p \in Procs, proc[p].pc \in Searching \cup Indexed
  PROVE  /\ proc[p].req \in Asked /\ IsMap(proc[p].req, proc[p].seen)
         /\ FmtOf(proc[p].req) = Fmt(p) /\ PathOf(proc[p].req) = Sidecar(p)
         /\ KeyFor(proc[p].req, proc[p].seen) = Key(p)
<1> DEFINE a == proc[p].req
<1>1. a \in Asked
  <2>1. ~At(p, "idle")
    BY DEF At, Searching, Indexed
  <2> QED BY <2>1 DEF TypeInv, ProcsInv, Whole, Asked
<1>2. FmtOf(a) = Fmt(p) /\ (Fmt(p) = "single" <=> a.dependent = "")
  BY DEF FmtOf, Fmt
<1>3. Named(p) = IF a.dependent = "" THEN <<a.source>> ELSE <<a.source, a.dependent>>
  BY <1>2 DEF Named
<1>4. Sidecar(p) = PathOf(a)
  <2>1. Sidecar(p) = IF Fmt(p) = "single" THEN a.source ELSE a.dependent
    BY DEF Sidecar, Named, Last
  <2> QED BY <1>2, <2>1 DEF PathOf
<1>5. IsMap(a, proc[p].seen)
  <2>1. Mappings(p)
    BY DEF DataInv, Data
  <2> QED BY <1>2, <2>1 DEF Mappings, IsMap
<1>6. KeyFor(a, proc[p].seen) = Key(p)
  <2>1. CASE a.dependent = ""
    <3>1. Named(p) = <<a.source>> /\ Fmt(p) = "single"
      BY <1>2, <1>3, <2>1
    <3>2. Named(p)[1] = a.source
      BY <3>1
    <3> QED BY <2>1, <3>1, <3>2 DEF KeyFor, Key, Mapped
  <2>2. CASE a.dependent # ""
    <3>1. Named(p) = <<a.source, a.dependent>> /\ Fmt(p) # "single"
      BY <1>2, <1>3, <2>2
    <3>2. Named(p)[1] = a.source /\ Named(p)[2] = a.dependent
      BY <3>1
    <3> QED BY <2>2, <3>1, <3>2 DEF KeyFor, Key, Mapped
  <2> QED BY <2>1, <2>2
<1> QED BY <1>1, <1>2, <1>4, <1>5, <1>6

\* What is being saved is what such a sidecar is to hold.
LEMMA Saves ==
  ASSUME TypeInv, DataInv, Roles, NEW p \in Procs, proc[p].pc \in {"save", "write"}
  PROVE  IsSaved(ToWrite(p), Sidecar(p)) /\ ToWrite(p) \in Seq(Int) /\ Sidecar(p) \in DOMAIN Contents
<1>1. proc[p].pc \in Searching \cup Indexed /\ ~At(p, "idle")
  BY DEF Searching, Indexed, At
<1>2. /\ proc[p].req \in Asked /\ IsMap(proc[p].req, proc[p].seen)
      /\ FmtOf(proc[p].req) = Fmt(p) /\ PathOf(proc[p].req) = Sidecar(p)
      /\ KeyFor(proc[p].req, proc[p].seen) = Key(p)
  BY <1>1, AsAsked
<1>3. Scanned(p)
  BY DEF Roles, Author
<1>4. IsSaved(ToWrite(p), Sidecar(p))
  BY <1>2, <1>3 DEF IsSaved, ToWrite, Scanned
<1>5. Key(p) \in Seq(Int) /\ Fmt(p) \in Formats /\ proc[p].index \in IndexType(Fmt(p))
  BY <1>1, MappedSizes, SidecarNamed DEF DataInv, Data, Good, Indexed
<1> QED BY <1>1, <1>4, <1>5, SavedType, SidecarNamed DEF ToWrite

LEMMA JudgeKeeps ==
  ASSUME TypeInv, TypeInv', InodesInv, UNCHANGED scene, NEW p \in Procs, Judge(p)
  PROVE  InodesInv'
<1>0. ProcsInv
  BY DEF TypeInv
<1>1. At(p, "load") /\ FilesKept /\ ~At(p, "write")
  BY DEF Judge, At
<1>2. ASSUME NEW new, Step(p, new), DOMAIN new \subseteq DOMAIN Idle, {"pc", "buf"} \subseteq DOMAIN new,
             new.pc \in {"decode", "scan"}, new.buf = <<>>
      PROVE  InodesInv'
  <2>1. proc'[p].pc \in {"decode", "scan"} /\ proc'[p].buf = <<>>
    BY <1>0, <1>2 DEF Step, With, ProcsInv
  <2>2. \A q \in Procs : q # p => proc'[q] = proc[q]
    BY <1>0, <1>2 DEF Step, ProcsInv
  <2> QED BY <1>1, <2>1, <2>2, Released DEF Author
<1>3. ASSUME NEW x, NEW own, NEW t,
             Step(p, [pc |-> "decode", index |-> x, own |-> own, torn |-> t,
                      ino |-> NoFile, buf |-> <<>>])
      PROVE  InodesInv'
  BY <1>2, <1>3 DEF Idle
<1>4. CASE Step(p, [pc |-> "scan", own |-> Less(p, {"file"}), ino |-> NoFile, buf |-> <<>>])
  BY <1>2, <1>4 DEF Idle
<1> QED BY <1>3, <1>4 DEF Judge

LEMMA SavingParts ==
  ASSUME TypeInv, Roles, NEW p \in Procs, At(p, "write"), Saving(p)
  PROVE  /\ \A q \in Procs : q # p => proc'[q] = proc[q]
         /\ proc'[p].pc = "decode" /\ proc'[p].buf = <<>> /\ Author(p)'
<1>0. ProcsInv
  BY DEF TypeInv
<1>1. proc'[p].pc = "decode" /\ proc'[p].buf = proc[p].buf
  BY <1>0 DEF Saving, Step, With, Idle, ProcsInv
<1>2. proc[p].buf = <<>>
  BY DEF Roles, Reader, At
<1> QED BY <1>0, <1>1, <1>2 DEF Saving, Step, ProcsInv, Author

LEMMA EndKeeps ==
  ASSUME TypeInv, TypeInv', DataInv, InodesInv, UNCHANGED scene, NEW p \in Procs, EndSave(p)
  PROVE  InodesInv'
<1>1. At(p, "write") /\ proc[p].pos = Len(ToWrite(p)) /\ Saving(p) /\ FilesKept
  BY DEF EndSave
<1>2. /\ \A q \in Procs : q # p => proc'[q] = proc[q]
      /\ proc'[p].pc = "decode" /\ proc'[p].buf = <<>> /\ Author(p)'
  BY <1>1, SavingParts DEF InodesInv
<1>3. ASSUME NEW f \in DOMAIN Contents, Settled(f)' PROVE IsSaved(disk[entry[f]], f)
  <2> DEFINE i == proc[p].ino
  <2>1. CASE entry[f] = i
    <3>1. i \in Inodes
      BY <1>1, HoldersOpen DEF At
    <3>2. Clean(i)
      BY <1>1, <1>3, <2>1 DEF Settled, FilesKept, Clean
    <3>3. Len(disk[i]) = Len(ToWrite(p)) /\ Begins(disk[i], ToWrite(p))
      BY <1>1, <3>2 DEF InodesInv, Roles, Writer
    <3>4. IsSaved(ToWrite(p), Sidecar(p)) /\ ToWrite(p) \in Seq(Int) /\ Sidecar(p) \in DOMAIN Contents
      BY <1>1, Saves DEF InodesInv, At
    <3>5. disk[i] \in Seq(Int)
      BY <3>1 DEF DataInv, Cells
    <3>6. disk[i] = ToWrite(p)
      <4> DEFINE c == disk[i]
                 t == ToWrite(p)
      <4>1. /\ Len(c) = Len(t) /\ c \in Seq(Int) /\ t \in Seq(Int)
            /\ \A k \in 1..Len(c) : c[k] = t[k]
        BY <3>3, <3>4, <3>5 DEF Begins
      <4> HIDE DEF c, t
      <4>2. c = t
        BY <4>1
      <4> QED BY <4>2 DEF c, t
    <3>7. Reached(i, f) /\ Reached(i, Sidecar(p))
      BY <2>1 DEF Reached, Holds
    <3>8. f = Sidecar(p)
      BY <3>1, <3>4, <3>7 DEF InodesInv, OnePath
    <3> QED BY <2>1, <3>4, <3>6, <3>8
  <2>2. CASE entry[f] # i
    <3>1. ASSUME NEW q \in Procs, At(q, "write") PROVE ~Holds(q, entry[f])
      <4>1. CASE q = p
        BY <2>2, <4>1 DEF Holds
      <4>2. CASE q # p
        BY <1>1, <1>2, <1>3, <3>1, <4>2 DEF Settled, At, Holds, FilesKept
      <4> QED BY <4>1, <4>2
    <3>2. Settled(f)
      BY <1>1, <1>3, <3>1 DEF Settled, FilesKept
    <3> QED BY <3>2 DEF InodesInv, Complete
  <2> QED BY <2>1, <2>2
<1>4. Complete'
  BY <1>1, <1>3, SavedStays DEF Complete, FilesKept
<1>5. \A i : Clean(i)' <=> Clean(i)
  BY <1>1 DEF FilesKept, Clean
<1> QED BY <1>1, <1>2, <1>4, <1>5, LetsGo DEF FilesKept

LEMMA SpoilHolds ==
  ASSUME TypeInv, TypeInv', DataInv, InodesInv, UNCHANGED scene, NEW p \in Procs, SpoilSave(p)
  PROVE  InodesInv'
<1>1. /\ At(p, "write") /\ Saving(p) /\ UNCHANGED <<disk, stained>>
      /\ entry' = [entry EXCEPT ![Sidecar(p)] = NoFile]
  BY DEF SpoilSave
<1>2. /\ \A q \in Procs : q # p => proc'[q] = proc[q]
      /\ proc'[p].pc = "decode" /\ proc'[p].buf = <<>> /\ Author(p)'
  BY <1>1, SavingParts DEF InodesInv
<1>3. DOMAIN entry = DOMAIN Contents /\ Sidecar(p) \in DOMAIN Contents
  BY <1>1, Saves DEF TypeInv, FilesInv, InodesInv, At
<1>4. \A f \in DOMAIN Contents : entry'[f] = IF f = Sidecar(p) THEN NoFile ELSE entry[f]
  BY <1>1, <1>3
<1>5. ASSUME NEW f \in DOMAIN Contents, Settled(f)' PROVE Settled(f) /\ entry'[f] = entry[f]
  <2>1. f # Sidecar(p) /\ entry'[f] = entry[f] /\ entry[f] # NoFile
    BY <1>4, <1>5 DEF Settled
  <2>2. entry[f] \in Inodes
    BY <2>1 DEF TypeInv, FilesInv
  <2>3. ~Holds(p, entry[f])
    <3> SUFFICES ASSUME Holds(p, entry[f]) PROVE FALSE
      OBVIOUS
    <3>1. Reached(entry[f], f) /\ Reached(entry[f], Sidecar(p))
      BY DEF Reached
    <3> QED BY <1>3, <2>1, <2>2, <3>1 DEF InodesInv, OnePath
  <2>4. ASSUME NEW q \in Procs, At(q, "write") PROVE ~Holds(q, entry[f])
    <3>1. CASE q = p
      BY <2>3, <3>1
    <3>2. CASE q # p
      BY <1>2, <1>5, <2>1, <2>4, <3>2 DEF Settled, At, Holds
    <3> QED BY <3>1, <3>2
  <2> QED BY <1>1, <1>5, <2>1, <2>4 DEF Settled
<1>6. Complete'
  BY <1>1, <1>5, SavedStays DEF Complete, InodesInv
<1>7. \A i : Clean(i)' <=> Clean(i)
  BY <1>1 DEF Clean
<1> QED BY <1>1, <1>2, <1>4, <1>6, <1>7, LetsGo

LEMMA CrashKeeps ==
  ASSUME TypeInv, TypeInv', InodesInv, UNCHANGED scene, NEW p \in Procs, Crash(p)
  PROVE  InodesInv'
<1> DEFINE i == proc[p].ino
<1>1. /\ Leave(p, {}) /\ UNCHANGED <<entry, disk>>
      /\ stained' = [stained EXCEPT ![i] = IF At(p, "write") THEN @ \cup {"died"} ELSE @]
  BY DEF Crash
<1>2. /\ \A q \in Procs : q # p => proc'[q] = proc[q]
      /\ proc'[p].pc = "idle" /\ proc'[p].buf = <<>> /\ Author(p)'
  BY <1>1, Left
<1>3. DOMAIN stained = Inodes \cup {NoFile} /\ i \in Inodes \cup {NoFile}
  BY DEF TypeInv, FilesInv, ProcsInv, Opened
<1>4. \A j \in Inodes : stained'[j] = IF j = i /\ At(p, "write") THEN stained[j] \cup {"died"} ELSE stained[j]
  BY <1>1, <1>3
<1>5. \A j \in Inodes : Clean(j)' <=> Clean(j)
  <2> SUFFICES ASSUME NEW j \in Inodes PROVE Clean(j)' <=> Clean(j)
    OBVIOUS
  <2>1. stained'[j] = stained[j] \cup {"died"} \/ stained'[j] = stained[j]
    BY <1>4
  <2>2. \A old, new : new = old \cup {"died"} \/ new = old =>
           ("shared" \in new <=> "shared" \in old) /\ ("left" \in new <=> "left" \in old)
    OBVIOUS
  <2> QED BY <2>1, <2>2 DEF Clean
<1>6. ASSUME NEW f \in DOMAIN Contents, Settled(f)' PROVE Settled(f)
  <2>1. entry[f] \in Inodes
    BY <1>1, <1>6 DEF Settled, TypeInv, FilesInv
  <2>2. ~(entry[f] = i /\ At(p, "write")) /\ stained[entry[f]] = {}
    BY <1>1, <1>4, <1>6, <2>1 DEF Settled
  <2>3. ASSUME NEW q \in Procs, At(q, "write") PROVE ~Holds(q, entry[f])
    <3>1. CASE q = p
      BY <2>2, <2>3, <3>1 DEF Holds
    <3>2. CASE q # p
      BY <1>1, <1>2, <1>6, <2>3, <3>2 DEF Settled, At, Holds
    <3> QED BY <3>1, <3>2
  <2> QED BY <1>1, <1>6, <2>2, <2>3 DEF Settled
<1>7. Complete'
  BY <1>1, <1>6, SavedStays DEF Complete, InodesInv
<1> QED BY <1>1, <1>2, <1>5, <1>7, LetsGo

LEMMA WrittenOn ==
  ASSUME NEW t \in Seq(Int), NEW c \in Seq(Int), Begins(c, t), NEW m \in Len(c)..Len(t)
  PROVE  LET u == WriteAt(c, Len(c), SubSeq(t, Len(c) + 1, m))
         IN  Len(u) = m /\ Begins(u, t) /\ Begins(c, u)
<1> DEFINE n == Len(c)
           cells == SubSeq(t, n + 1, m)
           u == WriteAt(c, n, cells)
<1>1. /\ n \in Nat /\ m \in Nat /\ n <= m /\ m <= Len(t) /\ Len(t) \in Nat
      /\ \A i \in 1..n : c[i] = t[i]
  BY DEF Begins
<1>2. DOMAIN cells = 1..m - n /\ Len(cells) = m - n /\ \A i \in 1..m - n : cells[i] = t[n + i]
  <2> HIDE DEF n
  <2> QED BY <1>1
<1>3. Max({n, n + Len(cells)}) = m
  <2>1. n + Len(cells) = m
    <3> HIDE DEF n, cells
    <3> QED BY <1>1, <1>2
  <2>2. Max({n, m}) = IF n >= m THEN n ELSE m
    <3>1. n \in Int /\ m \in Int
      BY <1>1
    <3> HIDE DEF n
    <3> QED BY <3>1, Larger
  <2>3. n \in Int /\ m \in Int /\ n <= m
    BY <1>1
  <2> HIDE DEF n, cells
  <2>4. Max({n, m}) = m
    BY <2>2, <2>3
  <2> QED BY <2>1, <2>4
<1>4. u = [i \in 1..m |-> IF i - n \in DOMAIN cells THEN cells[i - n]
                          ELSE IF i <= n THEN c[i] ELSE 0]
  <2> HIDE DEF cells
  <2> QED BY <1>3 DEF WriteAt
<1> HIDE DEF cells, u, n
<1>5. Len(u) = m
  BY <1>1, <1>4
<1>6. ASSUME NEW i \in 1..m PROVE u[i] = t[i] /\ (i <= n => u[i] = c[i])
  <2>1. CASE i <= n
    <3>1. i - n \notin 1..m - n /\ i \in 1..n
      BY <1>1, <2>1
    <3>2. u[i] = c[i]
      BY <1>2, <1>4, <2>1, <3>1
    <3> QED BY <1>1, <3>1, <3>2
  <2>2. CASE ~(i <= n)
    <3> DEFINE k == i - n
    <3>1. k \in 1..m - n /\ n + k = i
      BY <1>1, <2>2
    <3>2. u[i] = cells[k]
      BY <1>2, <1>4, <3>1
    <3> HIDE DEF k
    <3>3. cells[k] = t[i]
      BY <1>2, <3>1
    <3> QED BY <2>2, <3>2, <3>3
  <2> QED BY <2>1, <2>2
<1>7. Begins(u, t)
  BY <1>1, <1>5, <1>6 DEF Begins
<1>8. Begins(c, u)
  <2>1. Len(c) = n
    BY DEF n
  <2>2. \A i \in 1..n : c[i] = u[i]
    BY <1>1, <1>6
  <2> QED BY <1>1, <1>5, <2>1, <2>2 DEF Begins
<1> QED BY <1>5, <1>7, <1>8 DEF u, cells, n

LEMMA BeginsOn ==
  ASSUME NEW b \in Seq(Int), NEW c \in Seq(Int), NEW d, Begins(b, c), Begins(c, d)
  PROVE  Begins(b, d)
<1>1. Len(b) \in Nat /\ Len(c) \in Nat /\ Len(b) <= Len(c) /\ Len(c) <= Len(d)
  BY DEF Begins
<1>2. \A i \in 1..Len(b) : i \in 1..Len(c)
  BY <1>1
<1>3. \A i \in 1..Len(b) : b[i] = d[i]
  BY <1>2 DEF Begins
<1> QED BY <1>1, <1>3 DEF Begins

LEMMA WriteKeeps ==
  ASSUME TypeInv, TypeInv', DataInv, InodesInv, UNCHANGED scene, NEW p \in Procs, Write(p)
  PROVE  InodesInv'
<1>0. ProcsInv
  BY DEF TypeInv
<1> DEFINE i == proc[p].ino
           t == ToWrite(p)
           to == Min({proc[p].pos + Block, Len(t)})
           c == disk[i]
           d == WriteAt(c, proc[p].pos, SubSeq(t, proc[p].pos + 1, to))
<1>1. /\ At(p, "write") /\ proc[p].pos < Len(t) /\ Step(p, [pos |-> to])
      /\ disk' = [disk EXCEPT ![i] = d] /\ UNCHANGED <<version, entry, stained>>
  BY DEF Write
<1>2. /\ proc'[p].pc = "write" /\ proc'[p].seen = proc[p].seen /\ proc'[p].req = proc[p].req
      /\ proc'[p].index = proc[p].index /\ proc'[p].buf = proc[p].buf /\ proc'[p].ino = i
      /\ proc'[p].pos = to
  <2> HIDE DEF to
  <2> QED BY <1>0, <1>1 DEF Step, With, Idle, ProcsInv, At
<1>3. \A q \in Procs : q # p => proc'[q] = proc[q]
  BY <1>0, <1>1 DEF Step, ProcsInv
<1>4. /\ t \in Seq(Int) /\ IsSaved(t, Sidecar(p)) /\ Sidecar(p) \in DOMAIN Contents
      /\ i \in Inodes /\ c \in Seq(Int) /\ proc[p].pos \in Nat
  <2>1. proc[p].pc \in {"save", "write"} /\ proc[p].pc \in {"load", "write"}
    BY <1>1 DEF At
  <2>2. i \in Inodes
    BY <2>1, HoldersOpen
  <2> QED BY <2>1, <2>2, Saves DEF InodesInv, DataInv, Data, Cells
<1> HIDE DEF t, c, d, i
<1>5. to \in proc[p].pos..Len(t)
  <2> DEFINE n == proc[p].pos
             l == Len(t)
  <2>1. n \in Nat /\ l \in Nat /\ Block \in Nat \ {0} /\ n < l
    BY <1>1, <1>4, LifeAssumption
  <2> HIDE DEF n, l
  <2>2. Min({n + Block, l}) = IF n + Block <= l THEN n + Block ELSE l
    BY <2>1, Smaller
  <2>3. Min({n + Block, l}) \in n..l
    BY <2>1, <2>2
  <2> QED BY <2>3 DEF n, l
<1> HIDE DEF to
<1>6. Clean(i) => Len(c) = proc[p].pos /\ Begins(c, t)
                  /\ \A q \in Procs : At(q, "write") /\ Holds(q, i) => q = p
  BY <1>1 DEF InodesInv, Roles, Writer, i, c, t
<1>7. Clean(i) => Len(d) = to /\ Begins(d, t) /\ Begins(c, d)
  BY <1>4, <1>5, <1>6, WrittenOn, SMTT(30) DEF d
<1>8. disk'[i] = d /\ \A j \in Inodes : j # i => disk'[j] = disk[j]
  BY <1>1, <1>4 DEF TypeInv, FilesInv
<1>9. /\ ToWrite(p)' = t /\ Sidecar(p)' = Sidecar(p) /\ (Scanned(p)' <=> Scanned(p))
  BY <1>2, SameJob DEF t
<1>10. \A j, f : Reached(j, f)' => Reached(j, f)
  BY <1>1, <1>2, <1>3, <1>9, SamePaths DEF i
<1>11. \A j : Clean(j)' <=> Clean(j)
  BY <1>1 DEF Clean
<1>12. OnePath'
  BY <1>10 DEF InodesInv, OnePath
<1>13. Content'
  <2> SUFFICES ASSUME NEW j \in Inodes, NEW f \in DOMAIN Contents, Clean(j)', Reached(j, f)'
               PROVE  \E s : IsSaved(s, f) /\ Begins(disk'[j], s)
    BY SavedStays DEF Content
  <2>1. Clean(j) /\ Reached(j, f)
    BY <1>10, <1>11
  <2>2. CASE j = i
    <3>1. Reached(i, Sidecar(p))
      BY DEF Reached, Holds, i
    <3>2. f = Sidecar(p)
      BY <1>4, <2>1, <2>2, <3>1 DEF InodesInv, OnePath
    <3> QED BY <1>4, <1>7, <1>8, <2>1, <2>2, <3>2
  <2>3. CASE j # i
    BY <1>8, <2>1, <2>3 DEF InodesInv, Content
  <2> QED BY <2>2, <2>3
<1>14. Writer(p)' /\ Reader(p)' /\ Author(p)'
  <2>1. Clean(i) => Len(disk'[i]) = to /\ Begins(disk'[i], t)
    BY <1>7, <1>8
  <2>2. ASSUME Clean(i), NEW q \in Procs, proc'[q].pc = "write", proc'[q].ino = i PROVE q = p
    BY <1>3, <1>6, <2>2 DEF At, Holds
  <2>3. Writer(p)'
    <3>1. Clean(proc[p].ino)' => Clean(i)
      BY <1>1, <1>2 DEF Clean
    <3> QED BY <1>2, <1>9, <2>1, <2>2, <3>1 DEF Writer, At, Holds
  <2>4. Reader(p) /\ Author(p) /\ ~At(p, "load")
    BY <1>1 DEF InodesInv, Roles, At
  <2> QED BY <1>1, <1>2, <1>9, <2>3, <2>4 DEF Reader, Author, At
<1>15. ASSUME NEW q \in Procs, q # p PROVE Writer(q)' /\ Reader(q)' /\ Author(q)'
  <2>1. /\ proc'[q] = proc[q] /\ ToWrite(q)' = ToWrite(q) /\ (Scanned(q)' <=> Scanned(q))
    BY <1>3, <1>15, SameJob
  <2>2. Writer(q) /\ Reader(q) /\ Author(q)
    BY DEF InodesInv, Roles
  <2>3. Author(q)'
    BY <2>1, <2>2 DEF Author
  <2>4. proc[q].pc \in {"load", "write"} => proc[q].ino \in Inodes
    BY HoldersOpen
  <2>5. Reader(q)'
    <3>1. ASSUME At(q, "load"), Clean(proc[q].ino) PROVE Begins(proc[q].buf, disk'[proc[q].ino])
      <4>1. Begins(proc[q].buf, disk[proc[q].ino])
        BY <2>2, <3>1 DEF Reader
      <4>2. CASE proc[q].ino = i
        <5>1. Begins(proc[q].buf, c) /\ Begins(c, d)
          BY <1>7, <3>1, <4>1, <4>2 DEF c
        <5>2. proc[q].buf \in Seq(Int) /\ c \in Seq(Int)
          BY <1>4 DEF DataInv, Data
        <5>3. Begins(proc[q].buf, d)
          BY <5>1, <5>2, BeginsOn
        <5> QED BY <1>8, <4>2, <5>3
      <4>3. CASE proc[q].ino # i
        BY <1>8, <2>4, <3>1, <4>1, <4>3 DEF At
      <4> QED BY <4>2, <4>3
    <3>2. Clean(proc[q].ino)' => Clean(proc[q].ino)
      BY <1>1, <2>1 DEF Clean
    <3> QED BY <2>1, <2>2, <3>1, <3>2 DEF Reader, At
  <2>6. Writer(q)'
    <3> SUFFICES ASSUME At(q, "write"), Clean(proc[q].ino)
                 PROVE  /\ Len(disk'[proc[q].ino]) = proc[q].pos
                        /\ Begins(disk'[proc[q].ino], ToWrite(q))
                        /\ \A r \in Procs : (At(r, "write") /\ Holds(r, proc[q].ino))' => r = q
      BY <1>1, <2>1 DEF Writer, At, Clean
    <3>1. /\ Len(disk[proc[q].ino]) = proc[q].pos /\ Begins(disk[proc[q].ino], ToWrite(q))
          /\ \A r \in Procs : At(r, "write") /\ Holds(r, proc[q].ino) => r = q
      BY <2>2 DEF Writer
    <3>2. Holds(p, i) /\ At(p, "write")
      BY <1>1 DEF Holds, i
    <3>3. proc[q].ino # i
      BY <1>15, <3>1, <3>2
    <3>4. disk'[proc[q].ino] = disk[proc[q].ino]
      BY <1>8, <2>4, <3>3 DEF At
    <3>5. ASSUME NEW r \in Procs, (At(r, "write") /\ Holds(r, proc[q].ino))' PROVE r = q
      <4>1. r # p
        BY <1>2, <2>1, <3>3, <3>5 DEF Holds
      <4>2. At(r, "write") /\ Holds(r, proc[q].ino)
        BY <1>3, <2>1, <3>5, <4>1 DEF At, Holds
      <4> QED BY <3>1, <4>2
    <3> QED BY <3>1, <3>4, <3>5
  <2> QED BY <2>3, <2>5, <2>6
<1>16. Complete'
  <2> SUFFICES ASSUME NEW f \in DOMAIN Contents, Settled(f)' PROVE IsSaved(disk'[entry[f]], f)
    BY <1>1, SavedStays DEF Complete
  <2>1. entry[f] # i /\ entry[f] \in Inodes
    BY <1>1, <1>2 DEF Settled, At, Holds, TypeInv, FilesInv
  <2>2. ASSUME NEW q \in Procs, At(q, "write") PROVE ~Holds(q, entry[f])
    <3>1. CASE q = p
      BY <2>1, <3>1 DEF Holds, i
    <3>2. CASE q # p
      BY <1>1, <1>3, <2>2, <3>2 DEF Settled, At, Holds
    <3> QED BY <3>1, <3>2
  <2>3. Settled(f)
    BY <1>1, <2>2 DEF Settled
  <2> QED BY <1>8, <2>1, <2>3 DEF InodesInv, Complete
<1> QED BY <1>12, <1>13, <1>14, <1>15, <1>16 DEF InodesInv, Roles

LEMMA StartKeeps ==
  ASSUME TypeInv, TypeInv', DataInv, InodesInv, UNCHANGED scene, NEW p \in Procs, StartSave(p)
  PROVE  InodesInv'
<1>0. ProcsInv
  BY DEF TypeInv
<1>1. At(p, "save") /\ UNCHANGED version
  BY DEF StartSave
<1>2. CASE /\ Step(p, [pc |-> "decode", own |-> Less(p, {"path"})])
           /\ UNCHANGED <<entry, disk, stained>>
  <2>1. /\ proc'[p].pc = "decode" /\ proc'[p].buf = proc[p].buf
        /\ \A q \in Procs : q # p => proc'[q] = proc[q]
    BY <1>0, <1>2 DEF Step, With, Idle, ProcsInv
  <2> QED BY <1>1, <1>2, <2>1, Unheld DEF At, Author, FilesKept
<1>3. ASSUME NEW ino,
             ino = IF entry[Sidecar(p)] # NoFile THEN entry[Sidecar(p)] ELSE Min(Unused),
             Step(p, [pc |-> "write", own |-> Own(p, {"file"}), ino |-> ino, pos |-> 0]),
             entry' = [entry EXCEPT ![Sidecar(p)] = ino],
             disk' = [disk EXCEPT ![ino] = <<>>],
             stained' = [stained EXCEPT ![ino] =
                 IF \E q \in Procs \ {p} : Holds(q, ino) THEN {"shared"} ELSE {}]
      PROVE  InodesInv'
  <2> DEFINE Alone == \A q \in Procs \ {p} : ~Holds(q, ino)
  <2>1. /\ IsSaved(ToWrite(p), Sidecar(p)) /\ ToWrite(p) \in Seq(Int) /\ Sidecar(p) \in DOMAIN Contents
        /\ proc[p].buf = <<>> /\ Scanned(p)
    BY <1>1, Saves DEF InodesInv, Roles, Reader, Author, At
  <2>2. ino \in Inodes /\ (entry[Sidecar(p)] = ino \/ ino \in Unused)
    <3>1. CASE entry[Sidecar(p)] # NoFile
      BY <1>3, <2>1, <3>1 DEF TypeInv, FilesInv
    <3>2. CASE entry[Sidecar(p)] = NoFile
      BY <1>1, <1>3, <3>2, FreeInode
    <3> QED BY <3>1, <3>2
  <2>3. /\ proc'[p].pc = "write" /\ proc'[p].buf = <<>> /\ proc'[p].ino = ino /\ proc'[p].pos = 0
        /\ proc'[p].req = proc[p].req /\ proc'[p].seen = proc[p].seen
        /\ proc'[p].index = proc[p].index
    BY <1>0, <1>3, <2>1 DEF Step, With, Idle, ProcsInv
  <2>4. \A q \in Procs : q # p => proc'[q] = proc[q]
    BY <1>0, <1>3 DEF Step, ProcsInv
  <2>5. /\ \A f \in DOMAIN Contents : entry'[f] = IF f = Sidecar(p) THEN ino ELSE entry[f]
        /\ disk'[ino] = <<>> /\ \A j \in Inodes : j # ino => disk'[j] = disk[j]
        /\ stained'[ino] = IF Alone THEN {} ELSE {"shared"}
        /\ \A j \in Inodes : j # ino => stained'[j] = stained[j]
    BY <1>3, <2>1, <2>2 DEF TypeInv, FilesInv
  <2>6. /\ Sidecar(p)' = Sidecar(p) /\ ToWrite(p)' = ToWrite(p) /\ (Scanned(p)' <=> Scanned(p))
    BY <2>3, SameJob
  <2>7. \A q \in Procs : q # p => Sidecar(q)' = Sidecar(q)
    BY <2>4, SameJob
  <2>8. ~At(p, "write") /\ \A j \in Inodes : ~Holds(p, j)
    <3>1. \A j \in Inodes : Holds(p, j) => proc[p].pc \in {"load", "write"}
      BY HoldersOpen
    <3> QED BY <1>1, <3>1 DEF At
  <2>9. ASSUME NEW f \in DOMAIN Contents, Reached(ino, f) PROVE f = Sidecar(p)
    <3>1. ino \notin Unused
      BY <2>9 DEF Reached, Unused, Range, TypeInv, FilesInv
    <3>2. Reached(ino, Sidecar(p))
      BY <2>2, <3>1 DEF Reached
    <3> QED BY <2>1, <2>2, <2>9, <3>2 DEF InodesInv, OnePath
  <2>10. ASSUME NEW f \in DOMAIN Contents, Reached(ino, f)' PROVE f = Sidecar(p)
    <3> SUFFICES ASSUME f # Sidecar(p) PROVE Reached(ino, f)
      BY <2>9
    <3>1. CASE entry'[f] = ino
      BY <2>5, <3>1 DEF Reached
    <3>2. ASSUME NEW q \in Procs, Holds(q, ino)', Sidecar(q)' = f PROVE Reached(ino, f)
      <4>1. q # p
        BY <2>6, <3>2
      <4> QED BY <2>4, <2>7, <3>2, <4>1 DEF Reached, Holds
    <3> QED BY <2>10, <3>1, <3>2 DEF Reached
  <2>11. ASSUME NEW j \in Inodes, j # ino, NEW f \in DOMAIN Contents, Reached(j, f)' PROVE Reached(j, f)
    <3>1. CASE entry'[f] = j
      BY <2>5, <2>11, <3>1 DEF Reached
    <3>2. ASSUME NEW q \in Procs, Holds(q, j)', Sidecar(q)' = f PROVE Reached(j, f)
      <4>1. q # p
        BY <2>3, <2>11, <3>2 DEF Holds
      <4> QED BY <2>4, <2>7, <3>2, <4>1 DEF Reached, Holds
    <3> QED BY <2>11, <3>1, <3>2 DEF Reached
  <2>12. OnePath'
    <3> SUFFICES ASSUME NEW j \in Inodes, NEW f \in DOMAIN Contents, NEW g \in DOMAIN Contents,
                        Reached(j, f)', Reached(j, g)'
                 PROVE  f = g
      BY DEF OnePath
    <3>1. CASE j = ino
      <4>1. Reached(ino, f)' /\ Reached(ino, g)'
        BY <3>1 DEF Reached, Holds
      <4> QED BY <2>10, <4>1
    <3>2. CASE j # ino
      BY <2>11, <3>2 DEF InodesInv, OnePath
    <3> QED BY <3>1, <3>2
  <2>13. Content'
    <3> SUFFICES ASSUME NEW j \in Inodes, NEW f \in DOMAIN Contents, Clean(j)', Reached(j, f)'
                 PROVE  \E s : IsSaved(s, f) /\ Begins(disk'[j], s)
      BY SavedStays DEF Content
    <3>1. CASE j = ino
      <4>1. Reached(ino, f)'
        BY <3>1 DEF Reached, Holds
      <4>2. f = Sidecar(p)
        BY <2>10, <4>1
      <4>3. Begins(<<>>, ToWrite(p))
        BY <2>1 DEF Begins
      <4> QED BY <2>1, <2>5, <3>1, <4>2, <4>3
    <3>2. CASE j # ino
      <4>1. Clean(j) /\ Reached(j, f)
        BY <2>5, <2>11, <3>2 DEF Clean
      <4> QED BY <2>5, <3>2, <4>1 DEF InodesInv, Content
    <3> QED BY <3>1, <3>2
  <2>14. Clean(ino)' => Alone
    BY <2>5 DEF Clean
  <2>15. (Writer(p) /\ Reader(p) /\ Author(p))'
    <3>1. Len(<<>>) = 0 /\ Begins(<<>>, ToWrite(p))
      BY <2>1 DEF Begins
    <3>2. ASSUME Alone, NEW q \in Procs, Holds(q, ino)' PROVE q = p
      BY <2>4, <3>2 DEF Holds
    <3>3. Clean(proc[p].ino)' => Alone
      BY <2>3, <2>14 DEF Clean
    <3>4. Writer(p)'
      BY <2>3, <2>5, <2>6, <3>1, <3>2, <3>3 DEF Writer, Holds
    <3> QED BY <2>1, <2>3, <2>6, <3>4 DEF Reader, Author, At
  <2>16. ASSUME NEW q \in Procs, q # p PROVE (Writer(q) /\ Reader(q) /\ Author(q))'
    <3>1. /\ proc'[q] = proc[q] /\ ToWrite(q)' = ToWrite(q) /\ (Scanned(q)' <=> Scanned(q))
      BY <2>4, <2>16, SameJob
    <3>2. Writer(q) /\ Reader(q) /\ Author(q)
      BY DEF InodesInv, Roles
    <3>3. Author(q)'
      BY <3>1, <3>2 DEF Author
    <3>4. proc[q].pc \in {"load", "write"} => proc[q].ino \in Inodes
      BY HoldersOpen
    <3>5. CASE proc[q].ino = ino
      <4>1. ~Alone
        BY <2>16, <3>5 DEF Holds
      <4>2. ~Clean(proc[q].ino)'
        BY <2>5, <3>1, <3>5, <4>1 DEF Clean
      <4> QED BY <3>1, <3>2, <3>3, <4>2 DEF Writer, Reader, At
    <3>6. CASE proc[q].ino # ino
      <4>1. proc[q].pc \in {"load", "write"} =>
               disk'[proc[q].ino] = disk[proc[q].ino] /\ stained'[proc[q].ino] = stained[proc[q].ino]
        BY <2>5, <3>4, <3>6
      <4>2. proc[q].pc \in {"load", "write"} => (Clean(proc[q].ino)' <=> Clean(proc[q].ino))
        BY <3>1, <4>1 DEF Clean
      <4>3. Reader(q)'
        BY <3>1, <3>2, <4>1, <4>2 DEF Reader, At
      <4>4. ASSUME NEW r \in Procs, proc'[r].pc = "write", proc'[r].ino = proc[q].ino
            PROVE  At(r, "write") /\ Holds(r, proc[q].ino)
        <5>1. r # p
          BY <2>3, <3>6, <4>4
        <5> QED BY <2>4, <4>4, <5>1 DEF At, Holds
      <4>5. Writer(q)'
        BY <3>1, <3>2, <4>1, <4>2, <4>4 DEF Writer, At, Holds
      <4> QED BY <3>3, <4>3, <4>5
    <3> QED BY <3>5, <3>6
  <2>17. Complete'
    <3> SUFFICES ASSUME NEW f \in DOMAIN Contents, Settled(f)' PROVE IsSaved(disk'[entry'[f]], f)
      BY SavedStays DEF Complete
    <3>1. entry'[f] # ino
      BY <2>3 DEF Settled, At, Holds
    <3>2. entry'[f] = entry[f] /\ entry[f] # NoFile
      BY <2>5, <3>1 DEF Settled
    <3>3. entry[f] \in Inodes
      BY <3>2 DEF TypeInv, FilesInv
    <3>4. disk'[entry[f]] = disk[entry[f]] /\ stained[entry[f]] = {}
      BY <2>5, <3>1, <3>2, <3>3 DEF Settled
    <3>5. ASSUME NEW q \in Procs, At(q, "write") PROVE ~Holds(q, entry[f])
      <4>1. q # p
        BY <2>8, <3>5
      <4> QED BY <2>4, <3>2, <3>5, <4>1 DEF Settled, At, Holds
    <3>6. Settled(f)
      BY <3>2, <3>4, <3>5 DEF Settled
    <3> QED BY <3>2, <3>4, <3>6 DEF InodesInv, Complete
  <2> QED BY <2>12, <2>13, <2>15, <2>16, <2>17 DEF InodesInv, Roles
<1> QED BY <1>2, <1>3 DEF StartSave

LEMMA InitInodes == Init => InodesInv
<1> SUFFICES ASSUME Init PROVE InodesInv
  OBVIOUS
<1>1. \A p \in Procs : proc[p] = Idle
  BY DEF Init
<1>2. PICK g \in DOMAIN Contents, left \in scene.leftovers :
         entry = [f \in DOMAIN Contents |-> IF f = g /\ left # <<>> THEN 1 ELSE NoFile]
  BY DEF Init
<1>3. stained = [i \in Inodes \cup {NoFile} |-> IF i = 1 THEN {"left"} ELSE {}]
  BY DEF Init
<1>4. ASSUME NEW i \in Inodes, NEW f \in DOMAIN Contents, Reached(i, f) PROVE f = g /\ i = 1
  <2>1. i # NoFile
    BY DEF Inodes, NoFile
  <2>2. \A p \in Procs : ~Holds(p, i)
    BY <1>1, <2>1 DEF Holds, Idle
  <2>3. entry[f] = i
    BY <1>4, <2>2 DEF Reached
  <2> QED BY <1>2, <2>1, <2>3
<1>5. OnePath
  BY <1>4 DEF OnePath
<1>6. Roles
  BY <1>1 DEF Roles, Writer, Reader, Author, At, Idle
<1>7. Content
  <2>1. 1 \in Inodes => ~Clean(1)
    BY <1>3 DEF Clean
  <2> QED BY <1>4, <2>1 DEF Content
<1>8. Complete
  <2> SUFFICES ASSUME NEW f \in DOMAIN Contents, Settled(f) PROVE FALSE
    BY DEF Complete
  <2>1. entry[f] = 1 /\ stained[1] = {}
    BY <1>2 DEF Settled
  <2>2. 1 \in Inodes
    <3>1. entry[f] \in Inodes \cup {NoFile}
      BY InitHolds DEF TypeInv, FilesInv
    <3> QED BY <2>1, <3>1 DEF NoFile
  <2> QED BY <1>3, <2>1, <2>2
<1> QED BY <1>5, <1>6, <1>7, <1>8 DEF InodesInv

LEMMA InodesKept ==
  TypeInv /\ TypeInv' /\ DataInv /\ InodesInv /\ [Next]_vars => InodesInv'
<1> SUFFICES ASSUME TypeInv, TypeInv', DataInv, InodesInv, [Next]_vars PROVE InodesInv'
  OBVIOUS
<1>1. ASSUME UNCHANGED scene, NEW p \in Procs, Opening(p) \/ Serving(p) \/ Crash(p) PROVE InodesInv'
  BY <1>1, QuietKeeps, FindKeeps, ReadKeeps, JudgeKeeps, StartKeeps, WriteKeeps, EndKeeps,
     SpoilHolds, CrashKeeps DEF Opening
<1>2. CASE UNCHANGED <<proc, entry, disk, stained, scene>>
  <2>1. \A p : Sidecar(p)' = Sidecar(p) /\ ToWrite(p)' = ToWrite(p) /\ (Scanned(p)' <=> Scanned(p))
    BY <1>2, SameJob
  <2>2. \A i, f : Reached(i, f)' <=> Reached(i, f)
    BY <1>2, <2>1 DEF Reached, Holds
  <2>3. OnePath' /\ Content'
    BY <1>2, <2>2, SavedStays DEF InodesInv, OnePath, Content, Clean
  <2>4. Roles'
    BY <1>2, <2>1 DEF InodesInv, Roles, Writer, Reader, Author, At, Clean, Holds
  <2>5. Complete'
    BY <1>2, SavedStays DEF InodesInv, Complete, Settled, At, Holds
  <2> QED BY <2>3, <2>4, <2>5 DEF InodesInv
<1>3. CASE UNCHANGED scene /\ \E f \in DOMAIN Contents : Replace(f)
  BY <1>2, <1>3 DEF Replace
<1>4. CASE UNCHANGED vars
  BY <1>2, <1>4 DEF vars
<1> QED BY <1>1, <1>3, <1>4 DEF Next

-----------------------------------------------------------------------------
(* What is loaded *)

Found(p) ==
    proc[p].index # <<>> => proc[p].torn \/ proc[p].index \in ScanResults(Fmt(p), proc[p].seen)

LEMMA FoundStays ==
  ASSUME UNCHANGED scene, NEW p, Found(p),
         proc'[p].index = proc[p].index, proc'[p].req = proc[p].req,
         proc'[p].seen = proc[p].seen, proc'[p].torn = proc[p].torn
  PROVE  Found(p)'
<1>1. Fmt(p)' = Fmt(p)
  BY DEF Fmt
<1>2. \A fmt, seen : ScanResults(fmt, seen)' = ScanResults(fmt, seen)
  BY DEF ScanResults
<1>3. ScanResults(Fmt(p), proc[p].seen)' = ScanResults(Fmt(p), proc[p].seen)
  BY <1>1, <1>2
<1> QED BY <1>3 DEF Found

LEMMA JudgedRight ==
  ASSUME TypeInv, DataInv, InodesInv, OneBase, NEW p \in Procs, At(p, "load"), AtEof(p),
         Accepts(proc[p].buf, Fmt(p), Key(p)), Clean(proc[p].ino)
  PROVE  IndexIn(proc[p].buf, Fmt(p), Key(p)) \in ScanResults(Fmt(p), proc[p].seen)
<1> DEFINE a == proc[p].req
           i == proc[p].ino
           b == proc[p].buf
<1>1. /\ a \in Asked /\ IsMap(a, proc[p].seen) /\ FmtOf(a) = Fmt(p) /\ PathOf(a) = Sidecar(p)
      /\ KeyFor(a, proc[p].seen) = Key(p)
  BY AsAsked DEF At, Searching
<1>2. i \in Inodes /\ Sidecar(p) \in DOMAIN Contents
  BY HoldersOpen, SidecarNamed DEF At
<1>3. PICK s : IsSaved(s, Sidecar(p)) /\ Begins(disk[i], s)
  <2>1. Reached(i, Sidecar(p))
    BY DEF Reached, Holds
  <2> QED BY <1>2, <2>1 DEF InodesInv, Content
<1>4. b \in Seq(Int) /\ disk[i] \in Seq(Int)
  BY <1>2 DEF DataInv, Data, Cells
<1>5. Begins(b, disk[i])
  BY DEF InodesInv, Roles, Reader
<1>6. Begins(b, s)
  BY <1>3, <1>4, <1>5, BeginsOn
<1>7. scene \in Scenes
  BY DEF TypeInv
<1> QED BY <1>1, <1>3, <1>4, <1>6, <1>7, Recognised

LEMMA FoundKept ==
  ASSUME TypeInv, DataInv, InodesInv, OneBase, UNCHANGED scene, NEW p \in Procs, Found(p),
         Opening(p) \/ Serving(p) \/ Crash(p)
  PROVE  Found(p)'
<1>0. ProcsInv
  BY DEF TypeInv
<1>1. ASSUME NEW new, Step(p, new), DOMAIN new \cap {"index", "req", "seen", "torn"} = {}
      PROVE  Found(p)'
  <2>1. /\ proc'[p].index = proc[p].index /\ proc'[p].req = proc[p].req
        /\ proc'[p].seen = proc[p].seen /\ proc'[p].torn = proc[p].torn
    BY <1>0, <1>1 DEF Step, With, Idle, ProcsInv
  <2> QED BY <2>1, FoundStays
<1>2. ASSUME NEW held, Leave(p, held) PROVE Found(p)'
  <2>1. proc'[p].index = <<>>
    BY <1>0, <1>2 DEF Leave, Step, ProcsInv, With, Idle
  <2> QED BY <2>1 DEF Found
<1>3. ASSUME NEW new, Step(p, new), "index" \notin DOMAIN new, proc[p].pc \notin Indexed
      PROVE  Found(p)'
  <2>1. proc'[p].index = proc[p].index
    BY <1>0, <1>3 DEF Step, With, Idle, ProcsInv
  <2>2. proc[p].index = <<>>
    BY <1>3 DEF DataInv, Data
  <2> QED BY <2>1, <2>2 DEF Found
<1>4. CASE MapBase(p) \/ MapDependent(p) \/ FindSidecar(p) \/ Read(p) \/ Create(p)
  <2>1. proc[p].pc \notin Indexed
    BY <1>4 DEF MapBase, MapDependent, FindSidecar, Read, Create, At, Indexed
  <2>2. CASE MapBase(p)
    BY <1>2, <1>3, <2>1, <2>2 DEF MapBase
  <2>3. CASE MapDependent(p)
    BY <1>2, <1>3, <2>1, <2>3 DEF MapDependent, Close
  <2>4. CASE FindSidecar(p)
    BY <1>3, <2>1, <2>4 DEF FindSidecar
  <2>5. CASE Read(p)
    BY <1>3, <2>1, <2>5 DEF Read
  <2>6. CASE Create(p)
    BY <1>3, <2>1, <2>6 DEF Create
  <2> QED BY <1>4, <2>2, <2>3, <2>4, <2>5, <2>6
<1>5. CASE StartSave(p) \/ Write(p) \/ EndSave(p) \/ SpoilSave(p)
  <2>1. CASE StartSave(p)
    BY <1>1, <2>1 DEF StartSave
  <2>2. CASE Write(p)
    BY <1>1, <2>2 DEF Write
  <2>3. CASE EndSave(p) \/ SpoilSave(p)
    BY <1>1, <2>3 DEF EndSave, SpoilSave, Saving
  <2> QED BY <1>5, <2>1, <2>2, <2>3
<1>8. CASE FirstFrame(p) \/ NewFilter(p) \/ NewClip(p) \/ BeginCall(p) \/ EndCall(p)
           \/ FreeNode(p) \/ Crash(p)
  <2>1. CASE FirstFrame(p)
    BY <1>1, <1>2, <2>1 DEF FirstFrame, Close
  <2>2. CASE NewFilter(p)
    BY <1>1, <1>2, <2>2 DEF NewFilter, Close
  <2>3. CASE NewClip(p)
    BY <1>1, <1>2, <2>3 DEF NewClip, Close
  <2>4. CASE BeginCall(p) \/ EndCall(p)
    BY <1>1, <2>4 DEF BeginCall, EndCall
  <2>5. CASE FreeNode(p) \/ Crash(p)
    BY <1>2, <2>5 DEF FreeNode, Crash, Close
  <2> QED BY <1>8, <2>1, <2>2, <2>3, <2>4, <2>5
<1>6. CASE Scan(p)
  <2>1. ASSUME NEW x \in ScanResults(Fmt(p), proc[p].seen), NEW pc, NEW own,
               Step(p, [pc |-> pc, own |-> own, index |-> x])
        PROVE  Found(p)'
    <3>1. proc'[p].index = x /\ proc'[p].req = proc[p].req /\ proc'[p].seen = proc[p].seen
      BY <1>0, <2>1 DEF Step, With, Idle, ProcsInv
    <3> QED BY <2>1, <3>1, ZenonT(30) DEF Found, ScanResults, Fmt
  <2> QED BY <1>2, <1>6, <2>1 DEF Scan, Close
<1>7. CASE Judge(p)
  <2>1. At(p, "load") /\ AtEof(p)
    BY <1>7 DEF Judge
  <2>2. CASE Step(p, [pc |-> "scan", own |-> Less(p, {"file"}), ino |-> NoFile, buf |-> <<>>])
    BY <1>3, <2>1, <2>2 DEF At, Indexed
  <2>3. ASSUME Accepts(proc[p].buf, Fmt(p), Key(p)), NEW own,
               Step(p, [pc |-> "decode", index |-> IndexIn(proc[p].buf, Fmt(p), Key(p)),
                        own |-> own, torn |-> stained[proc[p].ino] \cap {"shared", "left"} # {},
                        ino |-> NoFile, buf |-> <<>>])
        PROVE  Found(p)'
    <3> DEFINE x == IndexIn(proc[p].buf, Fmt(p), Key(p))
               torn == stained[proc[p].ino] \cap {"shared", "left"} # {}
    <3>1. torn \/ x \in ScanResults(Fmt(p), proc[p].seen)
      <4>1. ~torn => Clean(proc[p].ino)
        BY DEF Clean
      <4> QED BY <2>1, <2>3, <4>1, JudgedRight
    <3> HIDE DEF x, torn
    <3>2. /\ proc'[p].index = x /\ proc'[p].torn = torn
          /\ proc'[p].req = proc[p].req /\ proc'[p].seen = proc[p].seen
      BY <1>0, <2>3 DEF Step, With, Idle, ProcsInv, x, torn
    <3> QED BY <3>1, <3>2, ZenonT(40) DEF Found, ScanResults, Fmt
  <2> QED BY <1>7, <2>2, <2>3 DEF Judge
<1> QED BY <1>4, <1>5, <1>6, <1>7, <1>8 DEF Opening, Serving

LEMMA OneOnly ==
  ASSUME TypeInv, NEW p \in Procs, Opening(p) \/ Serving(p) \/ Crash(p)
  PROVE  \A q \in Procs : q # p => proc'[q] = proc[q]
<1>1. ASSUME NEW new, Step(p, new) PROVE \A q \in Procs : q # p => proc'[q] = proc[q]
  BY <1>1, Moved
<1> QED BY <1>1 DEF Opening, Serving, Crash, MapBase, MapDependent, FindSidecar, Read, Judge, Scan,
                    StartSave, Write, EndSave, SpoilSave, FirstFrame, NewFilter, NewClip, Create,
                    BeginCall, EndCall, FreeNode, Close, Leave, Saving

\* What an instance works with is what a scan of its very sources finds,
\* whether it scanned them or read a sidecar: one that was being written, that
\* its writer died over or failed to finish, or that was of another version of
\* a source, is not taken for theirs (load_index_cache, save_index_cache).  The
\* two exceptions are known when it is read: it was there before, or two had it
\* open at once.
THEOREM LoadedAlwaysTrue == OneBase => (Spec => []LoadedTrue)
<1> SUFFICES ASSUME OneBase PROVE Spec => []LoadedTrue
  OBVIOUS
<1> DEFINE FoundInv == \A p \in Procs : Found(p)
<1>1. Init => FoundInv
  BY DEF Init, Idle, Found
<1>2. TypeInv /\ DataInv /\ InodesInv /\ FoundInv /\ [Next]_vars => FoundInv'
  <2> SUFFICES ASSUME TypeInv, DataInv, InodesInv, FoundInv, [Next]_vars, NEW q \in Procs
               PROVE  Found(q)'
    OBVIOUS
  <2>1. Found(q)
    OBVIOUS
  <2>2. ASSUME UNCHANGED scene, NEW p \in Procs, Opening(p) \/ Serving(p) \/ Crash(p)
        PROVE  Found(q)'
    <3>1. CASE q = p
      BY <2>1, <2>2, <3>1, FoundKept
    <3>2. CASE q # p
      <4>1. proc'[q] = proc[q]
        BY <2>2, <3>2, OneOnly
      <4> QED BY <2>1, <2>2, <4>1, FoundStays
    <3> QED BY <3>1, <3>2
  <2>3. CASE UNCHANGED <<proc, scene>>
    BY <2>1, <2>3, FoundStays
  <2> QED BY <2>2, <2>3 DEF Next, Replace, vars
<1>3. FoundInv => LoadedTrue
  BY DEF Found, LoadedTrue
<1> HIDE DEF FoundInv
<1> QED BY <1>1, <1>2, <1>3, InitHolds, StepHolds, InitData, DataKept, InitInodes, InodesKept, PTL
        DEF Spec

-----------------------------------------------------------------------------
(* What a save leaves *)

MapSizes(a, seen) ==
    IF a.dependent = "" THEN <<Contents[a.source][seen[1]].size>>
    ELSE <<Contents[a.source][seen[1]].size, Contents[a.dependent][seen[2]].size>>

\* A source has no more pictures than a sidecar may claim; a span is of one of
\* the two files and not empty, and with two files there is one.
SourcesFit ==
    \A s \in Scenes : \A a \in s.requests : a.source # "" => \A seen : IsMap(a, seen) =>
        LET x == ScanOf(FmtOf(a), seen)
        IN  x.num_pics > 0 =>
            /\ x.num_pics <= MaxPics
            /\ x.spans = <<>> <=> FmtOf(a) = "single"
            /\ \A i \in DOMAIN x.spans : x.spans[i][1] \in {0, 1} /\ x.spans[i][2] < x.spans[i][3]

\* A scan's result keeps all but the end of its seek points (ScanResults).
LEMMA CutOnly ==
  ASSUME NEW fmt, NEW seen, NEW x \in ScanResults(fmt, seen),
         ScanOf(fmt, seen) \in IndexType(fmt)
  PROVE  /\ x.num_pics = ScanOf(fmt, seen).num_pics /\ x.is_mvc = ScanOf(fmt, seen).is_mvc
         /\ x.spans = ScanOf(fmt, seen).spans
<1> DEFINE whole == ScanOf(fmt, seen)
<1>1. x = whole \/ \E n \in 0..Len(whole.idx) : x = [whole EXCEPT !.idx = SubSeq(whole.idx, 1, n)]
  BY DEF ScanResults
<1> HIDE DEF whole
<1> QED BY <1>1 DEF IndexType, whole

LEMMA ScannedGood ==
  ASSUME scene \in Scenes, NEW a \in Asked, NEW seen, IsMap(a, seen),
         NEW x \in ScanResults(FmtOf(a), seen), x.num_pics > 0
  PROVE  Good(x, FmtOf(a), MapSizes(a, seen))
<1> DEFINE fmt == FmtOf(a)
           whole == ScanOf(FmtOf(a), seen)
           sizes == MapSizes(a, seen)
<1>1. a \in scene.requests /\ a.source # "" /\ fmt \in Formats
  BY AskedTypes DEF Asked
<1>2. Sound(whole, fmt, sizes)
  <2>1. CASE a.dependent = ""
    <3>1. PICK v \in DOMAIN Contents[a.source] : seen = <<v>>
      BY <2>1 DEF IsMap
    <3>2. Sound(ScanOf("single", <<v>>), "single", <<Contents[a.source][v].size>>)
      BY <1>1, <2>1, ScanAssumption
    <3>3. fmt = "single"
      BY <2>1 DEF FmtOf
    <3>4. sizes = <<Contents[a.source][v].size>>
      BY <2>1, <3>1 DEF MapSizes
    <3> QED BY <3>1, <3>2, <3>3, <3>4
  <2>2. CASE a.dependent # ""
    <3>1. PICK v \in DOMAIN Contents[a.source], w \in DOMAIN Contents[a.dependent] : seen = <<v, w>>
      BY <2>2 DEF IsMap
    <3>2. Sound(ScanOf("double", <<v, w>>), "double",
                <<Contents[a.source][v].size, Contents[a.dependent][w].size>>)
      BY <1>1, <2>2, ScanAssumption
    <3>3. fmt = "double"
      BY <2>2 DEF FmtOf
    <3>4. sizes = <<Contents[a.source][v].size, Contents[a.dependent][w].size>>
      BY <2>2, <3>1 DEF MapSizes
    <3> QED BY <3>1, <3>2, <3>3, <3>4
  <2> QED BY <2>1, <2>2
<1>3. x.num_pics = whole.num_pics
  BY <1>2, CutOnly DEF Sound
<1>4. Good(whole, fmt, sizes)
  BY <1>2, <1>3 DEF Sound, Good
<1>5. x = whole \/ \E n \in 0..Len(whole.idx) : x = [whole EXCEPT !.idx = SubSeq(whole.idx, 1, n)]
  BY DEF ScanResults
<1>6. ASSUME NEW n \in 0..Len(whole.idx), x = [whole EXCEPT !.idx = SubSeq(whole.idx, 1, n)]
      PROVE  Good(x, fmt, sizes)
  <2>1. \A f \in Formats : \A z, y : Good(y, f, z) /\ n \in 0..Len(y.idx)
             => Good([y EXCEPT !.idx = SubSeq(y.idx, 1, n)], f, z)
    BY CutShort
  <2> HIDE DEF whole, fmt, sizes
  <2>2. Good([whole EXCEPT !.idx = SubSeq(whole.idx, 1, n)], fmt, sizes)
    BY <1>1, <1>4, <2>1
  <2> QED BY <1>6, <2>2
<1> HIDE DEF whole, fmt, sizes
<1>7. Good(x, fmt, sizes)
  BY <1>4, <1>5, <1>6
<1> QED BY <1>7 DEF fmt, sizes

LEMMA KeySizes ==
  ASSUME scene \in Scenes, NEW a \in Asked, NEW seen, IsMap(a, seen)
  PROVE  /\ KeyFor(a, seen)[1] = MapSizes(a, seen)[1]
         /\ FmtOf(a) = "double" => KeyFor(a, seen)[3] = MapSizes(a, seen)[2]
<1>1. CASE a.dependent = ""
  <2>1. PICK v \in DOMAIN Contents[a.source] : seen = <<v>>
    BY <1>1 DEF IsMap
  <2>2. /\ KeyFor(a, seen) = <<Contents[a.source][v].size, Contents[a.source][v].mtime>>
        /\ MapSizes(a, seen) = <<Contents[a.source][v].size>> /\ FmtOf(a) = "single"
    BY <1>1, <2>1, AskedTypes, FileCells DEF KeyFor, MapSizes, FmtOf
  <2> QED BY <2>2
<1>2. CASE a.dependent # ""
  <2>1. PICK v \in DOMAIN Contents[a.source], w \in DOMAIN Contents[a.dependent] : seen = <<v, w>>
    BY <1>2 DEF IsMap
  <2> DEFINE m == Contents[a.source][v].size
             t == Contents[a.source][v].mtime
             n == Contents[a.dependent][w].size
             u == Contents[a.dependent][w].mtime
  <2>2. /\ m \in Int /\ t \in Int /\ KeyOf(Contents[a.source][v]) = <<m, t>>
        /\ n \in Int /\ u \in Int /\ KeyOf(Contents[a.dependent][w]) = <<n, u>>
    BY <1>2, AskedTypes, FileCells
  <2>3. KeyFor(a, seen) = <<m, t>> \o <<n, u>> /\ MapSizes(a, seen) = <<m, n>>
    BY <1>2, <2>1, <2>2 DEF KeyFor, MapSizes
  <2> HIDE DEF m, n, t, u
  <2>4. (<<m, t>> \o <<n, u>>)[1] = m /\ (<<m, t>> \o <<n, u>>)[3] = n
    BY <2>2
  <2> QED BY <2>3, <2>4
<1> QED BY <1>1, <1>2

LEMMA SearchableFits ==
  ASSUME NEW fmt \in Formats, NEW x \in IndexType(fmt), Searchable(x, fmt)
  PROVE  SeekPointsFit(x, fmt)
<1> DEFINE F == FrameColumn[fmt]
<1>1. F \in {1, 2} /\ F \in 1..3 /\ F + 1 \in 1..3
  BY FormatParts DEF Formats
<1>2. x.idx \in Seq([1..3 -> Int]) /\ x.num_pics \in Int
  BY DEF IndexType
<1>3. \A i \in DOMAIN x.idx : x.idx[i][F] \in Int /\ x.idx[i][F + 1] \in Int
  <2>1. \A i \in DOMAIN x.idx : x.idx[i] \in [1..3 -> Int]
    BY <1>2, ElementType
  <2> HIDE DEF F
  <2> QED BY <1>1, <2>1
<1>4. /\ \A i, j \in DOMAIN x.idx :
               i < j => x.idx[i][F] < x.idx[j][F] /\ x.idx[i][F + 1] < x.idx[j][F + 1]
      /\ \A i \in DOMAIN x.idx : 0 <= x.idx[i][F] /\ x.idx[i][F] <= x.idx[i][F + 1]
                                 /\ x.idx[i][F + 1] < x.num_pics
  BY DEF Searchable
<1> HIDE DEF F
<1>5. ASSUME NEW i \in DOMAIN x.idx
      PROVE  /\ x.idx[i][F] > (IF i = 1 THEN -1 ELSE x.idx[i - 1][F])
             /\ x.idx[i][F + 1] > (IF i = 1 THEN -1 ELSE x.idx[i - 1][F + 1])
             /\ x.idx[i][F + 1] >= x.idx[i][F]
             /\ x.idx[i][F + 1] < x.num_pics
  <2>1. CASE i = 1
    BY <1>3, <1>4, <2>1
  <2>2. CASE i # 1
    <3>1. i - 1 \in DOMAIN x.idx /\ i - 1 < i
      BY <1>2, <2>2, SMTT(30)
    <3>2. x.idx[i - 1][F] < x.idx[i][F] /\ x.idx[i - 1][F + 1] < x.idx[i][F + 1]
      BY <1>4, <3>1
    <3> QED BY <1>3, <1>4, <2>2, <3>1, <3>2
  <2> QED BY <2>1, <2>2
<1> QED BY <1>5 DEF SeekPointsFit, F

LEMMA InsideFits ==
  ASSUME NEW fmt \in Formats, NEW x \in IndexType(fmt), NEW key \in Seq(Int), NEW sizes,
         Len(key) = KeyLength(fmt), Inside(x, fmt, sizes),
         sizes[1] = key[1], fmt = "double" => sizes[2] = key[3],
         fmt = "single" => x.spans = <<>>,
         \A i \in DOMAIN x.spans : x.spans[i][1] \in {0, 1} /\ x.spans[i][2] < x.spans[i][3]
  PROVE  PlacesFit(x, fmt, key)
<1>1. /\ x.spans \in Seq([1..3 -> Int]) /\ x.idx \in Seq([1..3 -> Int])
      /\ x.ps \in Seq([1..PsWidth[fmt] -> Int])
  BY DEF IndexType
<1>2. CASE fmt = "single"
  <2>1. /\ \A i \in DOMAIN x.idx : x.idx[i][1] \in 0 .. key[1] - 1
        /\ \A i \in DOMAIN x.ps :
              LET end == x.ps[i][1] + x.ps[i][2]
              IN  x.ps[i][1] \in 0 .. end /\ end <= key[1]
    BY <1>2 DEF Inside
  <2>2. \A i \in DOMAIN x.ps : x.ps[i][1] \in Int /\ x.ps[i][2] \in Int
    <3>1. \A i \in DOMAIN x.ps : x.ps[i] \in [1..4 -> Int]
      BY <1>1, <1>2, FormatParts, ElementType
    <3> QED BY <3>1
  <2>3. \A i \in DOMAIN x.ps :
            x.ps[i][1] >= 0 /\ x.ps[i][2] >= 0 /\ x.ps[i][1] + x.ps[i][2] <= key[1]
    BY <2>1, <2>2
  <2>4. PlaceColumn[fmt] = 1 /\ DOMAIN x.spans = {}
    BY <1>2, FormatParts
  <2> QED BY <1>2, <2>1, <2>3, <2>4 DEF PlacesFit
<1>3. CASE fmt = "double"
  <2>1. /\ \A i \in DOMAIN x.idx : x.idx[i][3] + 1 \in DOMAIN x.spans
        /\ \A i \in DOMAIN x.ps : x.ps[i][3] + 1 \in DOMAIN x.spans
        /\ \A i \in DOMAIN x.spans :
              /\ x.spans[i][2] \in 0 .. x.spans[i][3]
              /\ x.spans[i][3] <= sizes[x.spans[i][1] + 1]
    BY <1>3 DEF Inside
  <2>2. /\ \A i \in DOMAIN x.spans : x.spans[i] \in [1..3 -> Int]
        /\ \A i \in DOMAIN x.idx : x.idx[i] \in [1..3 -> Int]
        /\ \A i \in DOMAIN x.ps : x.ps[i] \in [1..3 -> Int]
    BY <1>1, <1>3, FormatParts, ElementType
  <2>3. key[1] \in Int /\ key[3] \in Int
    <3>1. Len(key) = 4
      BY <1>3 DEF KeyLength
    <3>2. 1 \in DOMAIN key /\ 3 \in DOMAIN key
      BY <3>1
    <3> QED BY <3>2, ElementType
  <2>4. ASSUME NEW i \in DOMAIN x.spans
        PROVE  /\ x.spans[i][1] \in {0, 1} /\ 0 <= x.spans[i][2] /\ x.spans[i][2] <= x.spans[i][3]
               /\ x.spans[i][2] < (IF x.spans[i][1] = 1 THEN key[3] ELSE key[1])
               /\ x.spans[i][3] <= (IF x.spans[i][1] = 1 THEN key[3] ELSE key[1])
    <3>1. x.spans[i][2] \in Int /\ x.spans[i][3] \in Int
      BY <2>2
    <3>2. CASE x.spans[i][1] = 0
      BY <1>3, <2>1, <2>3, <3>1, <3>2
    <3>3. CASE x.spans[i][1] = 1
      BY <1>3, <2>1, <2>3, <3>1, <3>3
    <3> QED BY <3>2, <3>3
  <2>5. \A i \in DOMAIN x.idx : x.idx[i][3] \in 0 .. Len(x.spans) - 1
    <3>1. Len(x.spans) \in Nat /\ DOMAIN x.spans = 1..Len(x.spans)
      BY <1>1, ElementType
    <3> QED BY <2>1, <2>2, <3>1, SMTT(30)
  <2>6. \A i \in DOMAIN x.ps : x.ps[i][3] \in 0 .. Len(x.spans) - 1
    <3>1. Len(x.spans) \in Nat /\ DOMAIN x.spans = 1..Len(x.spans)
      BY <1>1, ElementType
    <3> QED BY <2>1, <2>2, <3>1, SMTT(30)
  <2>7. PlaceColumn[fmt] = 3 /\ fmt # "single"
    BY <1>3, FormatParts
  <2> QED BY <2>4, <2>5, <2>6, <2>7 DEF PlacesFit
<1> QED BY <1>2, <1>3 DEF Formats

\* The key follows the magic number.
LEMMA KeyCells ==
  ASSUME NEW fmt \in Formats, NEW key \in Seq(Int), NEW s \in Seq(Int),
         Len(s) >= Len(key) + 1, s[1] = Magic[fmt], \A k \in 1..Len(key) : s[1 + k] = key[k]
  PROVE  /\ SubSeq(s, 1, Len(key) + 1) = <<Magic[fmt]>> \o key
         /\ SubSeq(s, 2, Len(key) + 1) = key
<1> DEFINE t == SubSeq(s, 1, Len(key) + 1)
           u == <<Magic[fmt]>> \o key
           v == SubSeq(s, 2, Len(key) + 1)
<1>1. Len(key) \in Nat /\ Len(s) \in Nat /\ Magic[fmt] \in Int
  BY FormatParts DEF Formats
<1>2. u \in Seq(Int) /\ Len(u) = Len(key) + 1 /\ u[1] = Magic[fmt] /\ \A k \in 1..Len(key) : u[1 + k] = key[k]
  BY <1>1
<1>3. t \in Seq(Int) /\ Len(t) = Len(key) + 1 /\ \A k \in 1..Len(key) + 1 : t[k] = s[k]
  BY <1>1
<1>4. v \in Seq(Int) /\ Len(v) = Len(key) /\ \A k \in 1..Len(key) : v[k] = s[1 + k]
  BY <1>1
<1> HIDE DEF t, u, v
<1>5. ASSUME NEW k \in 1..Len(key) + 1 PROVE t[k] = u[k]
  <2>1. CASE k = 1
    BY <1>1, <1>2, <1>3, <2>1
  <2>2. CASE k # 1
    <3>1. k - 1 \in 1..Len(key) /\ 1 + (k - 1) = k
      BY <1>1, <2>2
    <3> QED BY <1>2, <1>3, <3>1
  <2> QED BY <2>1, <2>2
<1>6. t = u
  BY <1>1, <1>2, <1>3, <1>5
<1>7. v = key
  <2>1. \A k \in 1..Len(key) : v[k] = key[k]
    BY <1>4
  <2>2. /\ v = [k \in 1..Len(key) |-> v[k]] /\ key = [k \in 1..Len(key) |-> key[k]]
    BY <1>4
  <2> QED BY <2>1, <2>2
<1> QED BY <1>6, <1>7 DEF t, u, v

\* What is saved is accepted again for the same sources.
LEMMA SavedAccepted ==
  ASSUME scene \in Scenes, SourcesFit, NEW a \in Asked, NEW seen, IsMap(a, seen),
         NEW x \in ScanResults(FmtOf(a), seen), x.num_pics > 0
  PROVE  Accepts(Saved(FmtOf(a), KeyFor(a, seen), x), FmtOf(a), KeyFor(a, seen))
<1> DEFINE fmt == FmtOf(a)
           key == KeyFor(a, seen)
           s == Saved(fmt, key, x)
           h == Len(key) + 1
           w == PsWidth[fmt]
<1>1. /\ fmt \in Formats /\ key \in Seq(Int) /\ Len(key) = KeyLength(fmt)
      /\ x \in IndexType(fmt)
  BY AskedTypes, KeyForType, ScannedType
<1>2. Laid(s, fmt, key, x) /\ IndexIn(s, fmt, key) = x
  BY <1>1, SavedParts, ReadBack
<1>3. /\ x.num_pics <= MaxPics /\ (x.spans = <<>> <=> fmt = "single")
      /\ \A i \in DOMAIN x.spans : x.spans[i][1] \in {0, 1} /\ x.spans[i][2] < x.spans[i][3]
  <2> DEFINE whole == ScanOf(fmt, seen)
  <2>1. whole \in IndexType(fmt)
    BY WholeType
  <2>2. x.num_pics = whole.num_pics /\ x.spans = whole.spans
    BY <2>1, CutOnly
  <2>3. whole.num_pics > 0 =>
        /\ whole.num_pics <= MaxPics
        /\ whole.spans = <<>> <=> fmt = "single"
        /\ \A i \in DOMAIN whole.spans : whole.spans[i][1] \in {0, 1} /\ whole.spans[i][2] < whole.spans[i][3]
    BY DEF SourcesFit, Asked
  <2>4. x.num_pics \in Int
    BY <1>1 DEF IndexType
  <2> HIDE DEF whole, fmt
  <2> QED BY <2>2, <2>3, <2>4
<1>4. Good(x, fmt, MapSizes(a, seen))
  BY ScannedGood
<1>5. /\ MapSizes(a, seen)[1] = key[1] /\ (fmt = "double" => MapSizes(a, seen)[2] = key[3])
  BY KeySizes
<1> HIDE DEF fmt, key, s
<1>6. SeekPointsFit(x, fmt)
  BY <1>1, <1>4, SearchableFits DEF Good
<1>7. PlacesFit(x, fmt, key)
  BY <1>1, <1>3, <1>4, <1>5, InsideFits DEF Good
<1>8. HeaderFits(s, fmt, key)
  <2>1. /\ Len(x.spans) \in Nat /\ Len(x.idx) \in Nat /\ Len(x.ps) \in Nat /\ w \in Nat
        /\ Len(key) \in Nat /\ (Len(x.spans) = 0 <=> x.spans = <<>>)
    BY <1>1, FormatParts DEF IndexType, Formats
  <2>2. /\ s \in Seq(Int) /\ Len(s) = h + 5 + 3 * Len(x.spans) + 3 * Len(x.idx) + w * Len(x.ps)
        /\ s[1] = Magic[fmt] /\ \A k \in 1..Len(key) : s[1 + k] = key[k]
        /\ s[h + 1] = x.num_pics
        /\ s[h + 3] = Len(x.spans) /\ s[h + 4] = Len(x.idx) /\ s[h + 5] = Len(x.ps)
    BY <1>2 DEF Laid
  <2> DEFINE ns == Len(x.spans)
             ni == Len(x.idx)
             np == Len(x.ps)
  <2>3. w * np \in Nat /\ np * w = w * np
    BY <2>1
  <2>4. Len(s) >= Len(key) + 6 /\ Len(s) >= Len(key) + 6 + ns * 3 + ni * 3 + np * w
    <3>1. /\ ns \in Nat /\ ni \in Nat /\ Len(key) \in Nat
          /\ Len(s) = (Len(key) + 1) + 5 + 3 * ns + 3 * ni + w * np
      BY <2>1, <2>2
    <3> DEFINE rest == w * np
    <3>2. rest \in Nat /\ np * w = rest
      BY <2>3
    <3> HIDE DEF rest, w, ns, ni, np, h
    <3>3. Len(s) = (Len(key) + 1) + 5 + 3 * ns + 3 * ni + rest
      BY <3>1 DEF rest
    <3> QED BY <3>1, <3>2, <3>3
  <2> HIDE DEF ns, ni, np, w
  <2>5. SubSeq(s, 1, h) = <<Magic[fmt]>> \o key
    <3>1. Len(s) >= Len(key) + 1
      BY <2>1, <2>4
    <3> QED BY <1>1, <2>2, <3>1, KeyCells
  <2>6. x.num_pics \in 1..MaxPics
    <3>1. x.num_pics \in Int /\ x.num_pics > 0
      BY <1>1 DEF IndexType
    <3> QED BY <1>3, <3>1
  <2>7. IF fmt = "double" THEN ns > 0 ELSE ns = 0
    BY <1>1, <1>3, <2>1 DEF ns, Formats
  <2>8. ni >= 0 /\ np >= 0
    BY <2>1 DEF ni, np
  <2> QED BY <2>2, <2>4, <2>5, <2>6, <2>7, <2>8 DEF HeaderFits, HeaderSize, ns, ni, np, w
<1>9. Accepts(s, fmt, key)
  BY <1>2, <1>6, <1>7, <1>8 DEF Accepts
<1> QED BY <1>9 DEF fmt, key, s

\* A sidecar nobody is writing is a whole one, unless a writer died over it or
\* two had it open at once: after a failed write none is left
\* (save_index_cache, mvc_open2).  It is one its own sources are recognised by.
THEOREM NeverPartial == SourcesFit => (Spec => []NoPartialLeft)
<1> SUFFICES ASSUME SourcesFit PROVE Spec => []NoPartialLeft
  OBVIOUS
<1>1. ASSUME TypeInv, DataInv, InodesInv PROVE NoPartialLeft
  <2>1. scene \in Scenes
    BY <1>1 DEF TypeInv
  <2> SUFFICES ASSUME NEW f \in DOMAIN Contents, Settled(f)
               PROVE  \E fmt \in Formats, n \in {3, 5} :
                         n <= Len(disk[entry[f]])
                         /\ Accepts(disk[entry[f]], fmt, SubSeq(disk[entry[f]], 2, n))
    BY DEF NoPartialLeft, Settled
  <2> DEFINE s == disk[entry[f]]
  <2>2. IsSaved(s, f)
    BY <1>1 DEF InodesInv, Complete
  <2>3. PICK a \in Asked : \E seen : IsMap(a, seen) /\ \E x \in ScanResults(FmtOf(a), seen) :
            x.num_pics > 0 /\ s = Saved(FmtOf(a), KeyFor(a, seen), x)
    BY <2>2 DEF IsSaved
  <2>4. PICK seen : IsMap(a, seen) /\ \E x \in ScanResults(FmtOf(a), seen) :
            x.num_pics > 0 /\ s = Saved(FmtOf(a), KeyFor(a, seen), x)
    BY <2>3
  <2>5. PICK x \in ScanResults(FmtOf(a), seen) :
            x.num_pics > 0 /\ s = Saved(FmtOf(a), KeyFor(a, seen), x)
    BY <2>4
  <2> DEFINE fmt == FmtOf(a)
             key == KeyFor(a, seen)
  <2>6. fmt \in Formats /\ key \in Seq(Int) /\ Len(key) = KeyLength(fmt) /\ x \in IndexType(fmt)
    BY <2>1, <2>4, AskedTypes, KeyForType, ScannedType
  <2>7. Accepts(s, fmt, key)
    BY <2>1, <2>4, <2>5, SavedAccepted
  <2>8. Laid(s, fmt, key, x)
    BY <2>5, <2>6, SavedParts
  <2> HIDE DEF s, fmt, key
  <2>9. /\ s \in Seq(Int) /\ s[1] = Magic[fmt] /\ \A k \in 1..Len(key) : s[1 + k] = key[k]
    BY <2>8 DEF Laid
  <2>10. Len(key) + 1 \in {3, 5}
    BY <2>6 DEF KeyLength
  <2>11. Len(s) >= Len(key) + 1
    <3>1. Len(s) >= HeaderSize(key)
      BY <2>7 DEF Accepts, HeaderFits
    <3> QED BY <2>6, <2>9, <3>1 DEF HeaderSize
  <2>12. SubSeq(s, 2, Len(key) + 1) = key
    BY <2>6, <2>9, <2>11, KeyCells
  <2>13. Len(key) + 1 <= Len(s)
    BY <2>6, <2>9, <2>11
  <2> QED BY <2>6, <2>7, <2>10, <2>12, <2>13 DEF s
<1> QED BY <1>1, InitHolds, StepHolds, InitData, DataKept, InitInodes, InodesKept, PTL DEF Spec

-----------------------------------------------------------------------------
(* What a clip shows and what its cache takes *)

LEMMA Between ==
  ASSUME NEW a \in Int, NEW lo \in Int, NEW hi \in Int, lo <= hi
  PROVE  Min({Max({a, lo}), hi}) = IF a < lo THEN lo ELSE IF a > hi THEN hi ELSE a
<1>1. Max({a, lo}) = (IF a >= lo THEN a ELSE lo) /\ Max({a, lo}) \in Int
  BY Larger
<1> DEFINE m == Max({a, lo})
<1> HIDE DEF m
<1>2. m = (IF a >= lo THEN a ELSE lo) /\ m \in Int
  BY <1>1 DEF m
<1>3. Min({m, hi}) = IF m <= hi THEN m ELSE hi
  BY <1>2, Smaller
<1>4. Min({m, hi}) = IF a < lo THEN lo ELSE IF a > hi THEN hi ELSE a
  BY <1>2, <1>3
<1> QED BY <1>4 DEF m

LEMMA Products ==
  ASSUME NEW a \in Nat, NEW b \in Nat, NEW c \in Nat, a <= b
  PROVE  a * c <= b * c
<1>1. b = a + (b - a) /\ b - a \in Nat
  OBVIOUS
<1>2. \A d \in Nat : (a + d) * c = a * c + d * c /\ d * c \in Nat /\ a * c \in Nat
  OBVIOUS
<1> QED BY <1>1, <1>2

\* ring_init's slots: as many as the budget holds.
LEMMA CapLaw ==
  ASSUME NEW budget \in Nat, NEW bytes \in Nat \ {0}
  PROVE  LET n == RingCap(budget, bytes)
         IN  /\ n \in 2..MaxSlots
             /\ n > 2 => n * bytes <= budget
             /\ n < MaxSlots => (n + 1) * bytes > budget
<1> DEFINE q == budget \div bytes
           n == RingCap(budget, bytes)
<1>0. MaxSlots \in Nat /\ MaxSlots >= 2
  BY LifeAssumption
<1>1. q \in Int /\ budget = bytes * q + (budget % bytes) /\ budget % bytes \in 0..bytes - 1
  OBVIOUS
<1>2. n = IF q < 2 THEN 2 ELSE IF q > MaxSlots THEN MaxSlots ELSE q
  BY <1>0, <1>1, Between DEF RingCap
<1>3. bytes * q = q * bytes /\ (q + 1) * bytes = q * bytes + bytes
  BY <1>1
<1> DEFINE a == q * bytes
           r == budget % bytes
<1>4. a \in Int /\ a <= budget /\ a + bytes > budget
  <2>1. a \in Int /\ budget = a + r /\ r \in 0..bytes - 1
    BY <1>1, <1>3
  <2> HIDE DEF a, r
  <2> QED BY <2>1
<1> HIDE DEF q, n
<1>5. n \in 2..MaxSlots /\ n \in Nat
  BY <1>0, <1>1, <1>2
<1>6. n > 2 => n * bytes <= budget
  <2> SUFFICES ASSUME n > 2 PROVE n * bytes <= budget
    OBVIOUS
  <2>1. n <= q /\ q \in Nat
    BY <1>0, <1>1, <1>2
  <2>2. n * bytes <= a /\ n * bytes \in Int
    BY <1>5, <2>1, Products
  <2> DEFINE c == n * bytes
  <2>3. c \in Int /\ c <= a
    BY <2>2
  <2> HIDE DEF c, a
  <2>4. c <= budget
    BY <1>4, <2>3
  <2> QED BY <2>4 DEF c
<1>7. n < MaxSlots => (n + 1) * bytes > budget
  <2> SUFFICES ASSUME n < MaxSlots PROVE (n + 1) * bytes > budget
    OBVIOUS
  <2>1. CASE q >= 0
    <3>1. q + 1 \in Nat /\ n + 1 \in Nat /\ q + 1 <= n + 1
      BY <1>0, <1>1, <1>2, <2>1
    <3>2. (q + 1) * bytes <= (n + 1) * bytes
      BY <3>1, Products
    <3> DEFINE c == (n + 1) * bytes
               d == (q + 1) * bytes
    <3>3. c \in Int /\ d \in Int /\ d <= c /\ d > budget
      BY <1>3, <1>4, <1>5, <3>1, <3>2
    <3> HIDE DEF c, d
    <3>4. c > budget
      BY <3>3
    <3> QED BY <3>4 DEF c
  <2>2. CASE q < 0
    <3>1. q + 1 <= 0 /\ q + 1 \in Int
      BY <1>1, <2>2
    <3>2. \A z \in Int : z <= 0 => z * bytes <= 0
      OBVIOUS
    <3> DEFINE d == (q + 1) * bytes
    <3>3. d <= 0 /\ d > budget /\ d \in Int
      BY <1>3, <1>4, <3>1, <3>2
    <3> HIDE DEF d
    <3> QED BY <3>3
  <2> QED BY <1>1, <2>1, <2>2
<1> QED BY <1>5, <1>6, <1>7 DEF n

LEMMA BudgetLaw ==
  ASSUME NEW mb \in Int
  PROVE  LET b == cache_budget_bytes(mb)
             asked == Mib * (IF mb <= 0 THEN 512 ELSE IF mb > 16384 THEN 16384 ELSE mb)
         IN  b \in Nat /\ b <= Max({asked, 16 * Mib}) /\ Min({asked, SizeMax}) <= b
<1> DEFINE b == cache_budget_bytes(mb)
           want == IF mb <= 0 THEN 512 ELSE IF mb > 16384 THEN 16384 ELSE mb
           asked == Mib * want
           c == IF want < 16 THEN 16 ELSE want
           top == c * Mib
           least == 16 * Mib
<1>1. Mib \in Nat \ {0} /\ SizeMax \in Nat
  BY LifeAssumption
<1>2. Min({Max({IF mb > 0 THEN mb ELSE 512, 16}), 16384}) = c
  <2> DEFINE a == IF mb > 0 THEN mb ELSE 512
  <2>1. a \in Int
    OBVIOUS
  <2>2. c = IF a < 16 THEN 16 ELSE IF a > 16384 THEN 16384 ELSE a
    <3>1. CASE mb <= 0
      BY <3>1
    <3>2. CASE mb > 0
      BY <3>2
    <3> QED BY <3>1, <3>2
  <2> HIDE DEF a, c
  <2>3. Min({Max({a, 16}), 16384}) = c
    <3>1. PICK lo \in Int, hi \in Int : lo = 16 /\ hi = 16384
      OBVIOUS
    <3>2. Min({Max({a, lo}), hi}) = IF a < lo THEN lo ELSE IF a > hi THEN hi ELSE a
      BY <2>1, <3>1, Between
    <3> QED BY <2>2, <3>1, <3>2
  <2> QED BY <2>3 DEF a
<1>3. want \in Nat /\ c \in Nat /\ want <= c
  OBVIOUS
<1>4. asked = want * Mib /\ want * Mib <= top
  BY <1>1, <1>3, Products
<1>5. top = asked \/ top = least
  BY <1>1, <1>3
<1>6. asked \in Int /\ top \in Nat /\ least \in Int
  BY <1>1, <1>3
<1>7. b = Min({top, SizeMax})
  BY <1>2 DEF cache_budget_bytes
<1> HIDE DEF asked, top, least, want, c, b
<1>8. b = IF top <= SizeMax THEN top ELSE SizeMax
  BY <1>1, <1>6, <1>7, Smaller
<1>9. Max({asked, least}) = IF asked >= least THEN asked ELSE least
  BY <1>6, Larger
<1>10. Min({asked, SizeMax}) = IF asked <= SizeMax THEN asked ELSE SizeMax
  BY <1>1, <1>6, Smaller
<1>11. asked <= top
  BY <1>4
<1>12. b \in Nat /\ b <= Max({asked, least}) /\ Min({asked, SizeMax}) <= b
  BY <1>1, <1>5, <1>6, <1>8, <1>9, <1>10, <1>11
<1> QED BY <1>12 DEF b, asked, want, least

CacheAsked(n, bytes, mb) ==
    LET asked == Mib * (IF mb <= 0 THEN 512 ELSE IF mb > 16384 THEN 16384 ELSE mb)
    IN  /\ n > 2 => n * bytes <= Max({asked, 16 * Mib})
        /\ n < MaxSlots => (n + 1) * bytes > Min({asked, SizeMax})

\* The cache of an instance, from the argument and the size of a picture.
LEMMA CacheLaw ==
  ASSUME NEW mb \in Int, NEW bytes \in Nat \ {0}
  PROVE  CacheAsked(RingCap(cache_budget_bytes(mb), bytes), bytes, mb)
<1> DEFINE b == cache_budget_bytes(mb)
           n == RingCap(b, bytes)
           asked == Mib * (IF mb <= 0 THEN 512 ELSE IF mb > 16384 THEN 16384 ELSE mb)
           high == Max({asked, 16 * Mib})
           low == Min({asked, SizeMax})
<1>1. b \in Nat /\ b <= high /\ low <= b
  BY BudgetLaw
<1>2. high \in Int /\ low \in Int
  <2>1. Mib \in Nat /\ SizeMax \in Nat
    BY LifeAssumption
  <2>2. asked \in Int /\ 16 * Mib \in Int
    BY <2>1
  <2> HIDE DEF asked
  <2> QED BY <2>1, <2>2, Larger, Smaller
<1> HIDE DEF b
<1>3. /\ n \in 2..MaxSlots
      /\ n > 2 => n * bytes <= b
      /\ n < MaxSlots => (n + 1) * bytes > b
  BY <1>1, CapLaw
<1> HIDE DEF n, high, low
<1>4. n * bytes \in Int /\ (n + 1) * bytes \in Int
  BY <1>3
<1> DEFINE x == n * bytes
           y == (n + 1) * bytes
<1>5. x \in Int /\ y \in Int /\ (n > 2 => x <= b) /\ (n < MaxSlots => y > b)
  BY <1>3, <1>4
<1> HIDE DEF x, y
<1>6. (n > 2 => x <= high) /\ (n < MaxSlots => y > low)
  BY <1>1, <1>2, <1>5
<1> QED BY <1>6 DEF CacheAsked, n, b, high, low, x, y

Divides(d, n) == \E k \in Nat : n = d * k

LEMMA Divisor ==
  ASSUME NEW d \in Nat \ {0}, NEW n \in Nat
  PROVE  /\ n % d = 0 <=> Divides(d, n)
         /\ n % d = 0 => n = d * (n \div d) /\ n \div d \in Nat
<1>1. ASSUME NEW k \in Nat, n = d * k PROVE n % d = 0
  <2>1. (k * d + 0) % d = 0
    BY Quotient
  <2>2. n = k * d + 0
    BY <1>1
  <2> QED BY <2>1, <2>2
<1>2. n = d * (n \div d) + (n % d) /\ n \div d \in Int
  OBVIOUS
<1>3. ASSUME n % d = 0 PROVE n = d * (n \div d) /\ n \div d \in Nat
  <2> DEFINE k == n \div d
  <2>1. k \in Int /\ n = d * k
    BY <1>2, <1>3
  <2> HIDE DEF k
  <2>2. \A z \in Int : z <= -1 => d * z <= -1
    OBVIOUS
  <2>3. k \in Nat
    BY <2>1, <2>2
  <2> QED BY <2>1, <2>3 DEF k
<1> QED BY <1>1, <1>3 DEF Divides

\* Lowest terms: the same ratio, and nothing divides both (vsh_reduceRational).
LEMMA ReducedLaw ==
  ASSUME NEW a \in Nat \ {0}, NEW b \in Nat \ {0}
  PROVE  LET r == Reduced(<<a, b>>)
         IN  /\ r[1] * b = a * r[2]
             /\ \A d \in 2 .. r[2] : r[1] % d # 0 \/ r[2] % d # 0
<1> DEFINE S == {d \in 1 .. b : a % d = 0 /\ b % d = 0}
           g == Max(S)
           x == a \div g
           y == b \div g
<1>1. Reduced(<<a, b>>) = <<x, y>>
  BY DEF Reduced
<1>2. g \in S /\ \A d \in S : g >= d
  <2>1. 1 \in S
    <3>1. a = 1 * a /\ b = 1 * b
      OBVIOUS
    <3>2. a % 1 = 0 /\ b % 1 = 0
      BY <3>1, Divisor DEF Divides
    <3> QED BY <3>2
  <2>2. S \in SUBSET (0..b) /\ S # {}
    BY <2>1
  <2> HIDE DEF S
  <2> QED BY <2>2, MaxExists
<1>3. g \in Nat \ {0} /\ a % g = 0 /\ b % g = 0
  BY <1>2
<1> HIDE DEF g
<1>4. a = g * x /\ x \in Nat /\ b = g * y /\ y \in Nat
  BY <1>3, Divisor
<1> HIDE DEF x, y
<1>5. x * b = a * y
  <2>1. x * (g * y) = (g * x) * y
    BY <1>3, <1>4
  <2> QED BY <1>4, <2>1
<1>6. ASSUME NEW d \in 2..y, x % d = 0, y % d = 0 PROVE FALSE
  <2>1. d \in Nat \ {0}
    OBVIOUS
  <2>2. PICK k \in Nat : x = d * k
    BY <1>4, <1>6, <2>1, Divisor DEF Divides
  <2>3. PICK l \in Nat : y = d * l
    BY <1>4, <1>6, <2>1, Divisor DEF Divides
  <2> DEFINE e == g * d
  <2>4. e \in Nat \ {0} /\ e > g
    <3>1. e \in Nat /\ g * d >= g * 2
      <4>1. 2 * g <= d * g
        BY <1>3, Products
      <4>2. 2 * g = g * 2 /\ d * g = g * d /\ g * d \in Nat
        BY <1>3
      <4> QED BY <4>1, <4>2
    <3> HIDE DEF e
    <3>2. e >= g * 2
      BY <3>1 DEF e
    <3> QED BY <1>3, <3>1, <3>2
  <2>5. a = e * k /\ b = e * l
    <3>1. g * (d * k) = (g * d) * k /\ g * (d * l) = (g * d) * l
      BY <1>3
    <3> QED BY <1>4, <2>2, <2>3, <3>1
  <2> HIDE DEF e
  <2>6. a % e = 0 /\ b % e = 0
    BY <2>4, <2>5, Divisor DEF Divides
  <2>7. e <= b
    <3>1. l # 0
      BY <2>4, <2>5
    <3>2. 1 * e <= l * e
      BY <2>4, <3>1, Products
    <3>3. 1 * e = e /\ l * e = e * l
      BY <2>4
    <3> QED BY <2>5, <3>2, <3>3
  <2>8. e \in S
    BY <2>4, <2>6, <2>7
  <2> HIDE DEF S
  <2>9. g >= e
    BY <1>2, <2>8
  <2> QED BY <1>3, <2>4, <2>9
<1>7. \A d \in 2..y : x % d # 0 \/ y % d # 0
  BY <1>6
<1> DEFINE r == <<x, y>>
<1>8. r[1] = x /\ r[2] = y
  OBVIOUS
<1> HIDE DEF r
<1>9. r[1] * b = a * r[2] /\ \A d \in 2 .. r[2] : r[1] % d # 0 \/ r[2] % d # 0
  BY <1>5, <1>7, <1>8
<1> QED BY <1>1, <1>9 DEF r

Usable(a, host) ==
    /\ ~ArgError(a, host)
    /\ host = "avisynth" => Range(a.num \o a.den) \subseteq 0 .. IntMax

RateOf(a) == IF a.num = <<>> THEN DefaultRate ELSE a.num \o a.den

\* A rate that passed the checks can be doubled.
LEMMA RateLaw ==
  ASSUME NEW s \in Scenes, NEW a \in s.requests, NEW p \in Procs, Usable(a, Host[p])
  PROVE  /\ RateOf(a)[1] \in Nat \ {0} /\ RateOf(a)[2] \in Nat \ {0}
         /\ 2 * RateOf(a)[1] <= Int64Max
<1> DEFINE both == a.num \o a.den
<1>1. /\ Len(a.num) = Len(a.den)
      /\ \A n \in Range(both) : ~(n <= 0) /\ ~(Host[p] = "vapoursynth" /\ n > Int64Max \div 2)
  BY Zenon DEF Usable, ArgError
<1>2. /\ a.num \in Seq(Int) /\ Len(a.num) <= 1 /\ a.den \in Seq(Int)
      /\ IntMax \in Nat /\ Int64Max \in Nat /\ 2 * IntMax <= Int64Max
      /\ DefaultRate \in Seq(Nat \ {0}) /\ Len(DefaultRate) = 2 /\ 2 * DefaultRate[1] <= Int64Max
  BY ArgsAssumption
<1>3. CASE a.num = <<>>
  <2>1. DefaultRate[1] \in Nat \ {0} /\ DefaultRate[2] \in Nat \ {0}
    <3>1. 1 \in 1..Len(DefaultRate) /\ 2 \in 1..Len(DefaultRate)
      BY <1>2
    <3> QED BY <1>2, <3>1, ElementType
  <2> QED BY <1>2, <1>3, <2>1 DEF RateOf
<1>4. CASE a.num # <<>>
  <2>1. Len(a.num) = 1
    <3>1. \A q \in Seq(Int) : Len(q) \in Nat /\ (Len(q) = 0 => q = <<>>)
      OBVIOUS
    <3>2. Len(a.num) \in Nat /\ Len(a.num) # 0
      BY <1>2, <1>4, <3>1
    <3> DEFINE m == Len(a.num)
    <3>3. m \in Nat /\ m # 0 /\ m <= 1
      BY <1>2, <3>2
    <3> HIDE DEF m
    <3>4. m = 1
      BY <3>3
    <3> QED BY <3>4 DEF m
  <2>2. /\ both \in Seq(Int) /\ Len(both) = 2 /\ both[1] \in Int /\ both[2] \in Int
    <3>1. Follows(a.num, a.den, both, 1, 1)
      BY <1>1, <1>2, <2>1, Joined
    <3> HIDE DEF both
    <3>2. Len(both) = 2 /\ both \in Seq(Int)
      BY <3>1 DEF Follows
    <3>3. 1 \in 1..Len(both) /\ 2 \in 1..Len(both)
      BY <3>2
    <3> QED BY <3>2, <3>3, ElementType
  <2> HIDE DEF both
  <2>3. both[1] \in Range(both) /\ both[2] \in Range(both)
    BY <2>2 DEF Range
  <2>4. both[1] > 0 /\ both[2] > 0
    BY <1>1, <2>2, <2>3
  <2>5. 2 * both[1] <= Int64Max
    <3>1. CASE Host[p] = "vapoursynth"
      <4>1. both[1] <= Int64Max \div 2
        BY <1>1, <1>2, <2>2, <2>3, <3>1
      <4> QED BY <1>2, <2>2, <4>1
    <3>2. CASE Host[p] = "avisynth"
      <4>1. both[1] \in 0..IntMax
        BY <2>3, <3>2 DEF Usable, both
      <4> QED BY <1>2, <4>1
    <3> QED BY <3>1, <3>2, LifeAssumption
  <2>6. RateOf(a) = both
    BY <1>4 DEF RateOf, both
  <2> QED BY <2>2, <2>4, <2>5, <2>6
<1> QED BY <1>3, <1>4

\* What is known of an instance's numbers on its way to a clip.
Numbers(p) ==
    /\ ~At(p, "idle") => Usable(proc[p].req, Host[p])
                         /\ proc[p].budget = cache_budget_bytes(proc[p].req.cachesize)
    /\ proc[p].pc \in Indexed => proc[p].index.num_pics \in 1..MaxPics
    /\ proc[p].pc \in {"node", "live"} =>
           proc[p].ring = RingCap(proc[p].budget, slot_bytes(proc[p].first))
    /\ At(p, "live") => proc[p].info = VideoInfo(p)

LEMMA BudgetOfClip ==
  ASSUME TypeInv, NEW p \in Procs, At(p, "live"), Numbers(p)
  PROVE  CacheAsked(proc[p].ring, slot_bytes(proc[p].first), proc[p].req.cachesize)
<1> DEFINE mb == proc[p].req.cachesize
           bytes == slot_bytes(proc[p].first)
           n == proc[p].ring
<1>1. mb \in Int
  <2>1. proc[p].req \in scene.requests /\ scene \in Scenes
    BY DEF TypeInv, ProcsInv, Whole, At
  <2> QED BY <2>1, ArgsAssumption
<1>2. bytes \in Nat \ {0}
  <2>1. scene.bytes \in Nat \ {0}
    BY LifeAssumption DEF TypeInv
  <2> QED BY <2>1 DEF slot_bytes
<1>3. n = RingCap(cache_budget_bytes(mb), bytes)
  BY DEF Numbers, At
<1> HIDE DEF mb, bytes, n
<1>4. CacheAsked(n, bytes, mb)
  BY <1>1, <1>2, <1>3, CacheLaw
<1> QED BY <1>4 DEF mb, bytes, n

LEMMA RateOfClip ==
  ASSUME NEW host, NEW times \in {1, 2}, NEW x \in Nat \ {0}, NEW y \in Nat \ {0}
  PROVE  LET timed == <<times * x, y>>
             rate == IF host = "vapoursynth" THEN Reduced(timed) ELSE timed
         IN  /\ rate[1] * y = times * x * rate[2]
             /\ host = "vapoursynth" => \A d \in 2 .. rate[2] : rate[1] % d # 0 \/ rate[2] % d # 0
<1> DEFINE a == times * x
<1>1. a \in Nat \ {0}
  OBVIOUS
<1>2. CASE host = "vapoursynth"
  <2> HIDE DEF a
  <2> DEFINE r == Reduced(<<a, y>>)
  <2>1. r[1] * y = a * r[2] /\ \A d \in 2 .. r[2] : r[1] % d # 0 \/ r[2] % d # 0
    BY <1>1, ReducedLaw
  <2> HIDE DEF r
  <2> QED BY <1>2, <2>1 DEF a, r
<1>3. CASE host # "vapoursynth"
  <2> HIDE DEF a
  <2> DEFINE r == <<a, y>>
  <2>1. r[1] = a /\ r[2] = y
    BY <1>1
  <2> HIDE DEF r
  <2> QED BY <1>3, <2>1 DEF a, r
<1> QED BY <1>2, <1>3

LEMMA InfoOfClip ==
  ASSUME TypeInv, NEW p \in Procs, At(p, "live"), Numbers(p)
  PROVE  LET i == proc[p].info
             r == proc[p].req
             times == IF i.layout = "alt" THEN 2 ELSE 1
             asked == IF r.num = <<>> THEN DefaultRate ELSE r.num \o r.den
         IN  /\ i.frames = times * proc[p].index.num_pics /\ i.frames \in 1 .. IntMax
             /\ i.layout \in TwoView => proc[p].index.is_mvc # 0
             /\ i.rate[1] * asked[2] = times * asked[1] * i.rate[2]
             /\ times * asked[1] <= Int64Max
             /\ Host[p] = "vapoursynth" =>
                    \A d \in 2 .. i.rate[2] : i.rate[1] % d # 0 \/ i.rate[2] % d # 0
<1> DEFINE r == proc[p].req
           i == proc[p].info
           layout == CHOOSE l \in parse_layout(r.stack) : TRUE
           shown == IF layout \in TwoView /\ proc[p].index.is_mvc = 0 THEN "base" ELSE layout
           times == IF shown = "alt" THEN 2 ELSE 1
           asked == RateOf(r)
           timed == <<times * asked[1], asked[2]>>
<1>1. /\ r \in scene.requests /\ scene \in Scenes /\ Usable(r, Host[p])
      /\ proc[p].index.num_pics \in 1..MaxPics /\ i = VideoInfo(p)
  BY DEF TypeInv, ProcsInv, Whole, At, Numbers, Indexed
<1>2. /\ i.layout = shown /\ i.frames = times * proc[p].index.num_pics
      /\ i.rate = (IF Host[p] = "vapoursynth" THEN Reduced(timed) ELSE timed)
  <2>1. i = [layout |-> shown, width |-> FrameWidth(shown), height |-> FrameHeight(shown),
             frames |-> times * proc[p].index.num_pics,
             rate |-> IF Host[p] = "vapoursynth" THEN Reduced(timed) ELSE timed]
    BY <1>1 DEF VideoInfo, RateOf
  <2> HIDE DEF i, timed, times, shown, layout
  <2> QED BY <2>1
<1>3. /\ asked[1] \in Nat \ {0} /\ asked[2] \in Nat \ {0} /\ 2 * asked[1] <= Int64Max
  BY <1>1, RateLaw
<1>4. i.layout \in TwoView => proc[p].index.is_mvc # 0
  BY <1>2 DEF TwoView
<1>5. times \in {1, 2} /\ times = IF i.layout = "alt" THEN 2 ELSE 1
  BY <1>2
<1> HIDE DEF asked, times, layout, shown
<1>6. /\ i.rate[1] * asked[2] = times * asked[1] * i.rate[2]
      /\ Host[p] = "vapoursynth" =>
             \A d \in 2 .. i.rate[2] : i.rate[1] % d # 0 \/ i.rate[2] % d # 0
  <2> DEFINE x == asked[1]
             y == asked[2]
             rate == i.rate
  <2>1. /\ x \in Nat \ {0} /\ y \in Nat \ {0}
        /\ rate = (IF Host[p] = "vapoursynth" THEN Reduced(<<times * x, y>>) ELSE <<times * x, y>>)
    BY <1>2, <1>3
  <2> HIDE DEF x, y, rate
  <2>2. /\ rate[1] * y = times * x * rate[2]
        /\ Host[p] = "vapoursynth" => \A d \in 2 .. rate[2] : rate[1] % d # 0 \/ rate[2] % d # 0
    BY <1>5, <2>1, RateOfClip, ZenonT(30)
  <2> QED BY <2>2 DEF x, y, rate
<1>7. times * asked[1] <= Int64Max
  <2>1. Int64Max \in Nat
    BY ArgsAssumption
  <2> QED BY <1>3, <1>5, <2>1
<1>8. i.frames \in 1..IntMax
  <2> DEFINE n == proc[p].index.num_pics
             f == i.frames
  <2>1. MaxPics \in Nat /\ IntMax \in Nat /\ 2 * MaxPics <= IntMax
    BY ArgsAssumption, LifeAssumption
  <2>2. n \in 1..MaxPics /\ (f = n \/ f = 2 * n)
    BY <1>1, <1>2, <1>5
  <2> HIDE DEF n, f
  <2>3. f \in 1..IntMax
    BY <2>1, <2>2
  <2> QED BY <2>3 DEF f
<1> QED BY <1>2, <1>4, <1>5, <1>6, <1>7, <1>8 DEF asked, RateOf

\* A step that goes on with the same numbers.
LEMMA NumbersStay ==
  ASSUME UNCHANGED scene, NEW p, Numbers(p),
         proc'[p].req = proc[p].req, proc'[p].budget = proc[p].budget,
         proc'[p].index = proc[p].index, proc'[p].first = proc[p].first,
         proc'[p].ring = proc[p].ring, proc'[p].info = proc[p].info,
         proc'[p].pc = "idle" <=> proc[p].pc = "idle",
         proc'[p].pc \in Indexed => proc[p].pc \in Indexed,
         proc'[p].pc \in {"node", "live"} => proc[p].pc \in {"node", "live"},
         proc'[p].pc = "live" => proc[p].pc = "live"
  PROVE  Numbers(p)'
<1>1. VideoInfo(p)' = VideoInfo(p)
  BY DEF VideoInfo
<1>2. Usable(proc[p].req, Host[p])' <=> Usable(proc[p].req, Host[p])
  <2> DEFINE a == proc[p].req
             b == proc'[p].req
  <2>1. a = b
    OBVIOUS
  <2> HIDE DEF a, b
  <2>2. Usable(b, Host[p]) <=> Usable(a, Host[p])
    BY <2>1
  <2> QED BY <2>2 DEF a, b
<1>3. slot_bytes(proc[p].first)' = slot_bytes(proc[p].first)
  BY DEF slot_bytes
<1> QED BY <1>1, <1>2, <1>3 DEF Numbers, At

LEMMA ScannedPictures ==
  ASSUME SourcesFit, TypeInv, DataInv, NEW p \in Procs, At(p, "scan"),
         NEW x \in ScanResults(Fmt(p), proc[p].seen), x.num_pics > 0
  PROVE  x.num_pics \in 1..MaxPics
<1> DEFINE a == proc[p].req
           seen == proc[p].seen
<1>1. /\ a \in Asked /\ IsMap(a, seen) /\ FmtOf(a) = Fmt(p) /\ scene \in Scenes
  BY AsAsked DEF At, Searching, TypeInv
<1>2. x \in IndexType(Fmt(p)) /\ ScanOf(Fmt(p), seen) \in IndexType(Fmt(p))
  BY <1>1, ScannedType, WholeType
<1>3. x.num_pics = ScanOf(Fmt(p), seen).num_pics
  BY <1>2, CutOnly
<1>4. ScanOf(FmtOf(a), seen).num_pics <= MaxPics
  BY <1>1, <1>3 DEF SourcesFit, Asked
<1>5. x.num_pics \in Int
  BY <1>2 DEF IndexType
<1> DEFINE n == x.num_pics
<1>6. n \in Int /\ n > 0 /\ n <= MaxPics
  BY <1>1, <1>3, <1>4, <1>5
<1> HIDE DEF n
<1>7. n \in 1..MaxPics
  BY <1>6, ArgsAssumption
<1> QED BY <1>7 DEF n

LEMMA NumbersKept ==
  ASSUME SourcesFit, TypeInv, DataInv, UNCHANGED scene, NEW p \in Procs, Numbers(p),
         Opening(p) \/ Serving(p) \/ Crash(p)
  PROVE  Numbers(p)'
<1>0. ProcsInv
  BY DEF TypeInv
<1>1. ASSUME NEW new, Step(p, new), DOMAIN new \cap {"req", "budget", "index", "first", "ring", "info"} = {},
             proc'[p].pc = "idle" <=> proc[p].pc = "idle",
             proc'[p].pc \in Indexed => proc[p].pc \in Indexed,
             proc'[p].pc \in {"node", "live"} => proc[p].pc \in {"node", "live"},
             proc'[p].pc = "live" => proc[p].pc = "live"
      PROVE  Numbers(p)'
  <2>1. /\ proc'[p].req = proc[p].req /\ proc'[p].budget = proc[p].budget
        /\ proc'[p].index = proc[p].index /\ proc'[p].first = proc[p].first
        /\ proc'[p].ring = proc[p].ring /\ proc'[p].info = proc[p].info
    BY <1>0, <1>1 DEF Step, With, Idle, ProcsInv
  <2> QED BY <1>1, <2>1, NumbersStay
<1>2. ASSUME NEW held, Leave(p, held) PROVE Numbers(p)'
  <2>1. proc'[p].pc = "idle"
    BY <1>0, <1>2 DEF Leave, Step, ProcsInv, With, Idle
  <2> QED BY <2>1 DEF Numbers, At, Indexed
<1>3. CASE MapBase(p) \/ MapDependent(p)
  <2>1. ASSUME NEW v, NEW own, NEW pc \in {"find", "map2"},
               Step(p, [pc |-> pc, own |-> own, seen |-> v]), proc[p].pc # "idle"
        PROVE  Numbers(p)'
    <3>1. proc'[p].pc = pc
      BY <1>0, <2>1 DEF Step, With, Idle, ProcsInv
    <3> QED BY <1>1, <2>1, <3>1 DEF Indexed
  <2>2. proc[p].pc # "idle"
    BY <1>3 DEF MapBase, MapDependent, At
  <2>3. CASE MapBase(p)
    BY <1>2, <2>1, <2>2, <2>3 DEF MapBase
  <2>4. CASE MapDependent(p)
    BY <1>2, <2>1, <2>2, <2>4 DEF MapDependent, Close
  <2> QED BY <1>3, <2>3, <2>4
<1>4. CASE FindSidecar(p)
  <2>1. proc[p].pc = "find"
    BY <1>4 DEF FindSidecar, At
  <2>2. ASSUME Step(p, [pc |-> "scan"]) PROVE Numbers(p)'
    <3>1. proc'[p].pc = "scan"
      BY <1>0, <2>2 DEF Step, With, Idle, ProcsInv
    <3> QED BY <1>1, <2>1, <2>2, <3>1 DEF Indexed
  <2>3. ASSUME NEW own, Step(p, [pc |-> "scan", own |-> own]) PROVE Numbers(p)'
    <3>1. proc'[p].pc = "scan"
      BY <1>0, <2>3 DEF Step, With, Idle, ProcsInv
    <3> QED BY <1>1, <2>1, <2>3, <3>1 DEF Indexed
  <2>4. ASSUME NEW own, NEW i, Step(p, [pc |-> "load", own |-> own, ino |-> i]) PROVE Numbers(p)'
    <3>1. proc'[p].pc = "load"
      BY <1>0, <2>4 DEF Step, With, Idle, ProcsInv
    <3> QED BY <1>1, <2>1, <2>4, <3>1 DEF Indexed
  <2> QED BY <1>4, <2>2, <2>3, <2>4 DEF FindSidecar
<1>5. CASE Read(p)
  <2>1. ASSUME NEW b, Step(p, [buf |-> b]) PROVE Numbers(p)'
    <3>1. proc'[p].pc = proc[p].pc
      BY <1>0, <2>1 DEF Step, With, Idle, ProcsInv
    <3> QED BY <1>1, <2>1, <3>1
  <2> QED BY <1>5, <2>1 DEF Read
<1>6. CASE Judge(p)
  <2>1. proc[p].pc = "load"
    BY <1>6 DEF Judge, At
  <2>2. ASSUME NEW own, Step(p, [pc |-> "scan", own |-> own, ino |-> NoFile, buf |-> <<>>])
        PROVE  Numbers(p)'
    <3>1. proc'[p].pc = "scan"
      BY <1>0, <2>2 DEF Step, With, Idle, ProcsInv
    <3> QED BY <1>1, <2>1, <2>2, <3>1 DEF Indexed
  <2>3. ASSUME Accepts(proc[p].buf, Fmt(p), Key(p)), NEW own, NEW torn,
               Step(p, [pc |-> "decode", index |-> IndexIn(proc[p].buf, Fmt(p), Key(p)),
                        own |-> own, torn |-> torn, ino |-> NoFile, buf |-> <<>>])
        PROVE  Numbers(p)'
    <3> DEFINE x == IndexIn(proc[p].buf, Fmt(p), Key(p))
    <3>1. x.num_pics \in 1..MaxPics
      BY <2>3 DEF Accepts, HeaderFits, IndexIn
    <3> HIDE DEF x
    <3>2. /\ proc'[p].pc = "decode" /\ proc'[p].index = x
          /\ proc'[p].req = proc[p].req /\ proc'[p].budget = proc[p].budget
      BY <1>0, <2>3 DEF Step, With, Idle, ProcsInv, x
    <3>3. Usable(proc[p].req, Host[p]) /\ proc[p].budget = cache_budget_bytes(proc[p].req.cachesize)
      BY <2>1 DEF Numbers, At
    <3> QED BY <3>1, <3>2, <3>3 DEF Numbers, At
  <2> QED BY <1>6, <2>2, <2>3 DEF Judge
<1>7. CASE Scan(p)
  <2>1. proc[p].pc = "scan"
    BY <1>7 DEF Scan, At
  <2>2. ASSUME NEW x \in ScanResults(Fmt(p), proc[p].seen), x.num_pics > 0,
               NEW pc \in {"save", "decode"}, NEW own, Step(p, [pc |-> pc, own |-> own, index |-> x])
        PROVE  Numbers(p)'
    <3>1. x.num_pics \in 1..MaxPics
      BY <2>1, <2>2, ScannedPictures DEF At
    <3>2. /\ proc'[p].pc = pc /\ proc'[p].index = x
          /\ proc'[p].req = proc[p].req /\ proc'[p].budget = proc[p].budget
      BY <1>0, <2>2 DEF Step, With, Idle, ProcsInv
    <3>3. Usable(proc[p].req, Host[p]) /\ proc[p].budget = cache_budget_bytes(proc[p].req.cachesize)
      BY <2>1 DEF Numbers, At
    <3> QED BY <3>1, <3>2, <3>3 DEF Numbers, At
  <2> QED BY <1>2, <1>7, <2>2 DEF Scan, Close
<1>8. CASE StartSave(p) \/ Write(p) \/ EndSave(p) \/ SpoilSave(p)
  <2>1. proc[p].pc \in Indexed /\ proc[p].pc \in {"save", "write"}
    BY <1>8 DEF StartSave, Write, EndSave, SpoilSave, At, Indexed
  <2>2. ASSUME NEW own, NEW i, NEW n, NEW pc \in {"write", "decode"},
               Step(p, [pc |-> pc, own |-> own, ino |-> i, pos |-> n])
        PROVE  Numbers(p)'
    <3>1. proc'[p].pc = pc
      BY <1>0, <2>2 DEF Step, With, Idle, ProcsInv
    <3> QED BY <1>1, <2>1, <2>2, <3>1
  <2>3. ASSUME NEW own, Step(p, [pc |-> "decode", own |-> own]) PROVE Numbers(p)'
    <3>1. proc'[p].pc = "decode"
      BY <1>0, <2>3 DEF Step, With, Idle, ProcsInv
    <3> QED BY <1>1, <2>1, <2>3, <3>1
  <2>4. ASSUME NEW n, Step(p, [pos |-> n]) PROVE Numbers(p)'
    <3>1. proc'[p].pc = proc[p].pc
      BY <1>0, <2>4 DEF Step, With, Idle, ProcsInv
    <3> QED BY <1>1, <2>4, <3>1
  <2>5. CASE StartSave(p)
    BY <2>2, <2>3, <2>5 DEF StartSave
  <2>6. CASE Write(p)
    BY <2>4, <2>6 DEF Write
  <2>7. CASE EndSave(p) \/ SpoilSave(p)
    BY <2>2, <2>7 DEF EndSave, SpoilSave, Saving
  <2> QED BY <1>8, <2>5, <2>6, <2>7
<1>9. CASE FirstFrame(p)
  <2>1. proc[p].pc = "decode"
    BY <1>9 DEF FirstFrame, At
  <2>2. ASSUME NEW own, NEW views, Step(p, [pc |-> "node", own |-> own, first |-> views,
                 ring |-> RingCap(proc[p].budget, slot_bytes(views))])
        PROVE  Numbers(p)'
    <3> DEFINE n == RingCap(proc[p].budget, slot_bytes(views))
    <3> HIDE DEF n
    <3>1. /\ proc'[p].pc = "node" /\ proc'[p].first = views
          /\ proc'[p].ring = n /\ proc'[p].index = proc[p].index
          /\ proc'[p].req = proc[p].req /\ proc'[p].budget = proc[p].budget
      BY <1>0, <2>2 DEF Step, With, Idle, ProcsInv, n
    <3>2. /\ Usable(proc[p].req, Host[p]) /\ proc[p].budget = cache_budget_bytes(proc[p].req.cachesize)
          /\ proc[p].index.num_pics \in 1..MaxPics
      BY <2>1 DEF Numbers, At, Indexed
    <3>3. slot_bytes(proc[p].first)' = slot_bytes(views)
      BY <3>1 DEF slot_bytes
    <3> QED BY <3>1, <3>2, <3>3 DEF Numbers, At, n
  <2> QED BY <1>2, <1>9, <2>2 DEF FirstFrame, Close
<1>10. CASE NewFilter(p) \/ NewClip(p)
  <2>1. proc[p].pc = "node"
    BY <1>10 DEF NewFilter, NewClip, At
  <2>2. ASSUME proc'[p].pc = "live", proc'[p].info = VideoInfo(p), proc'[p].ring = proc[p].ring,
               proc'[p].index = proc[p].index, proc'[p].req = proc[p].req,
               proc'[p].budget = proc[p].budget, proc'[p].first = proc[p].first
        PROVE  Numbers(p)'
    <3>1. VideoInfo(p)' = VideoInfo(p)
      <4>1. proc'[p].index = proc[p].index /\ proc'[p].req = proc[p].req
        BY <2>2
      <4> QED BY <4>1, SMTT(90) DEF VideoInfo
    <3>2. /\ Usable(proc[p].req, Host[p]) /\ proc[p].budget = cache_budget_bytes(proc[p].req.cachesize)
          /\ proc[p].index.num_pics \in 1..MaxPics
          /\ proc[p].ring = RingCap(proc[p].budget, slot_bytes(proc[p].first))
      BY <2>1 DEF Numbers, At, Indexed
    <3>3. slot_bytes(proc[p].first)' = slot_bytes(proc[p].first)
      BY <2>2 DEF slot_bytes
    <3> QED BY <2>2, <3>1, <3>2, <3>3 DEF Numbers, At
  <2> DEFINE i == VideoInfo(p)
  <2> HIDE DEF i
  <2>3. ASSUME NEW own, Step(p, [pc |-> "live", info |-> i, own |-> own]) PROVE Numbers(p)'
    <3>1. /\ proc'[p].pc = "live" /\ proc'[p].info = i /\ proc'[p].ring = proc[p].ring
          /\ proc'[p].index = proc[p].index /\ proc'[p].req = proc[p].req
          /\ proc'[p].budget = proc[p].budget /\ proc'[p].first = proc[p].first
      BY <1>0, <2>3 DEF Step, With, Idle, ProcsInv
    <3> QED BY <2>2, <3>1 DEF i
  <2>4. ASSUME Step(p, [pc |-> "live", info |-> i]) PROVE Numbers(p)'
    <3>1. /\ proc'[p].pc = "live" /\ proc'[p].info = i /\ proc'[p].ring = proc[p].ring
          /\ proc'[p].index = proc[p].index /\ proc'[p].req = proc[p].req
          /\ proc'[p].budget = proc[p].budget /\ proc'[p].first = proc[p].first
      BY <1>0, <2>4 DEF Step, With, Idle, ProcsInv
    <3> QED BY <2>2, <3>1 DEF i
  <2> QED BY <1>2, <1>10, <2>3, <2>4 DEF NewFilter, NewClip, Close, i
<1>11. CASE Create(p)
  <2>1. PICK a \in scene.requests :
            /\ ~ArgError(a, Host[p])
            /\ Host[p] = "avisynth" => Range(a.num \o a.den) \subseteq 0 .. IntMax
            /\ Step(p, [pc |-> "map", own |-> {"source"}, req |-> a,
                        budget |-> cache_budget_bytes(a.cachesize), opens |-> proc[p].opens + 1])
    BY <1>11 DEF Create
  <2> DEFINE b == cache_budget_bytes(a.cachesize)
  <2> HIDE DEF b
  <2>2. proc'[p].pc = "map" /\ proc'[p].req = a /\ proc'[p].budget = b
    BY <1>0, <2>1 DEF Step, With, Idle, ProcsInv, b
  <2>3. Usable(a, Host[p])
    BY <2>1 DEF Usable
  <2> QED BY <2>2, <2>3 DEF Numbers, At, Indexed, b
<1>12. CASE BeginCall(p) \/ EndCall(p)
  <2>1. ASSUME NEW n, NEW f, Step(p, [calls |-> n, frame |-> f]) PROVE Numbers(p)'
    <3>1. proc'[p].pc = proc[p].pc
      BY <1>0, <2>1 DEF Step, With, Idle, ProcsInv
    <3> QED BY <1>1, <2>1, <3>1
  <2>2. ASSUME NEW n, Step(p, [calls |-> n]) PROVE Numbers(p)'
    <3>1. proc'[p].pc = proc[p].pc
      BY <1>0, <2>2 DEF Step, With, Idle, ProcsInv
    <3> QED BY <1>1, <2>2, <3>1
  <2> QED BY <1>12, <2>1, <2>2 DEF BeginCall, EndCall
<1>13. CASE FreeNode(p) \/ Crash(p)
  BY <1>2, <1>13 DEF FreeNode, Crash, Close
<1> QED BY <1>3, <1>4, <1>5, <1>6, <1>7, <1>8, <1>9, <1>10, <1>11, <1>12, <1>13
        DEF Opening, Serving

NumbersInv == \A p \in Procs : Numbers(p)

LEMMA NumbersAlways == SourcesFit => (Spec => [](TypeInv /\ DataInv /\ NumbersInv))
<1> SUFFICES ASSUME SourcesFit PROVE Spec => [](TypeInv /\ DataInv /\ NumbersInv)
  OBVIOUS
<1>1. Init => NumbersInv
  BY DEF Init, Idle, NumbersInv, Numbers, At, Indexed
<1>2. TypeInv /\ DataInv /\ NumbersInv /\ [Next]_vars => NumbersInv'
  <2> SUFFICES ASSUME TypeInv, DataInv, NumbersInv, [Next]_vars, NEW q \in Procs
               PROVE  Numbers(q)'
    BY DEF NumbersInv
  <2>1. Numbers(q)
    BY DEF NumbersInv
  <2>2. ASSUME UNCHANGED scene, NEW p \in Procs, Opening(p) \/ Serving(p) \/ Crash(p)
        PROVE  Numbers(q)'
    <3>1. CASE q = p
      BY <2>1, <2>2, <3>1, NumbersKept
    <3>2. CASE q # p
      <4>1. proc'[q] = proc[q]
        BY <2>2, <3>2, OneOnly
      <4> QED BY <2>1, <2>2, <4>1, NumbersStay
    <3> QED BY <3>1, <3>2
  <2>3. CASE UNCHANGED <<proc, scene>>
    BY <2>1, <2>3, NumbersStay
  <2> QED BY <2>2, <2>3 DEF Next, Replace, vars
<1> QED BY <1>1, <1>2, InitHolds, StepHolds, InitData, DataKept, PTL DEF Spec

\* The cache an instance lives with is as large as was asked for, or within a
\* picture of it (cache_budget_bytes, ring_init), whatever is_mvc a sidecar
\* claims, and whatever the first picture's size and number of views.
THEOREM BudgetAlwaysKept == SourcesFit => (Spec => []BudgetKept)
<1> SUFFICES ASSUME SourcesFit PROVE Spec => []BudgetKept
  OBVIOUS
<1>1. ASSUME TypeInv, DataInv, NumbersInv PROVE BudgetKept
  <2>1. ASSUME NEW p \in Procs, At(p, "live")
        PROVE  CacheAsked(proc[p].ring, slot_bytes(proc[p].first), proc[p].req.cachesize)
    BY <1>1, <2>1, BudgetOfClip DEF NumbersInv
  <2> QED BY <2>1 DEF BudgetKept, CacheAsked
<1> QED BY <1>1, NumbersAlways, PTL

\* The clip a host is shown has the source's frames and the rate asked for,
\* both twice for alt, in integers that do not overflow on the way, and for
\* VapourSynth in lowest terms (vs_source_create, Create_MVCSource).
THEOREM ClipAlwaysTrue == SourcesFit => (Spec => []ClipTrue)
<1> SUFFICES ASSUME SourcesFit PROVE Spec => []ClipTrue
  OBVIOUS
<1>1. ASSUME TypeInv, DataInv, NumbersInv PROVE ClipTrue
  BY <1>1, InfoOfClip, Zenon DEF ClipTrue, NumbersInv
<1> QED BY <1>1, NumbersAlways, PTL

-----------------------------------------------------------------------------
(* What a host is handed *)

\* The clip's frames are numbered from 0, and a picture has its base view.
PicturesFit == EvenSize /\ \A s \in Scenes : s.frames \subseteq Nat /\ s.pictures \subseteq Shots

\* A live instance's last frame was made in a slot by mvc_get_frame.
Drawn(p) ==
    /\ ~At(p, "live") => proc[p].frame = <<>>
    /\ proc[p].frame # <<>> =>
           \E slot \in Slots, n \in Nat, views \in Shots :
               proc[p].frame = [n |-> n, views |-> views, planes |->
                   mvc_get_frame(slot, n, views, proc[p].info.layout, proc[p].req.swaplr,
                                 Stride(proc[p].info))]

\* What FrameTrue asks of a process.
Handed(p) ==
    LET i == proc[p].info
        f == proc[p].frame
        eyes == IF proc[p].req.swaplr THEN <<"dependent", "base">> ELSE <<"base", "dependent">>
        View(eye) == IF eyes[eye] \in f.views THEN eyes[eye] ELSE "base"
        Promised(w, h, x, y) ==
            LET eye == CASE i.layout = "base" -> 1
                         [] i.layout = "right" -> 2
                         [] i.layout = "tab" -> 1 + y \div h
                         [] i.layout = "sbs" -> 1 + x \div w
                         [] i.layout = "alt" -> 1 + (f.n % 2)
            IN  <<IF i.layout = "alt" THEN f.n \div 2 ELSE f.n, View(eye), x % w, y % h>>
    IN  \A plane \in Planes :
            LET w == IF plane = "Y" THEN i.width ELSE i.width \div 2
                h == IF plane = "Y" THEN i.height ELSE i.height \div 2
                places == (0 .. w - 1) \X (0 .. h - 1)
                Address(at) == at[2] * Stride(i)[plane] + at[1]
            IN  /\ DOMAIN f.planes[plane] = {Address(at) : at \in places}
                /\ \A at \in places : f.planes[plane][Address(at)] =
                       Promised(PlaneWidth(plane), PlaneHeight(plane), at[1], at[2])

\* Its layout is one of those there are, and its size goes with it.
LEMMA InfoShape ==
  ASSUME TypeInv, NEW p \in Procs, At(p, "live"), Numbers(p)
  PROVE  /\ proc[p].info.layout \in Layouts
         /\ proc[p].info.width = FrameWidth(proc[p].info.layout)
         /\ proc[p].info.height = FrameHeight(proc[p].info.layout)
<1> DEFINE r == proc[p].req
           l == CHOOSE x \in parse_layout(r.stack) : TRUE
           shown == IF l \in TwoView /\ proc[p].index.is_mvc = 0 THEN "base" ELSE l
<1>1. parse_layout(r.stack) # {}
  BY Zenon DEF Numbers, Usable, ArgError, At
<1>2. l \in parse_layout(r.stack)
  BY <1>1
<1>3. l \in Layouts
  BY <1>2 DEF parse_layout, Spellings, Layouts
<1>4. shown \in Layouts
  BY <1>3 DEF Layouts
<1>5. proc[p].info = VideoInfo(p)
  BY DEF Numbers
<1>6. /\ VideoInfo(p).layout = shown
      /\ VideoInfo(p).width = FrameWidth(shown) /\ VideoInfo(p).height = FrameHeight(shown)
  BY DEF VideoInfo
<1> HIDE DEF shown
<1> QED BY <1>4, <1>5, <1>6

LEMMA DrawnIsTrue ==
  ASSUME PicturesFit, TypeInv, NEW p \in Procs, Numbers(p), Drawn(p), proc[p].frame # <<>>
  PROVE  Handed(p)
<1> DEFINE i == proc[p].info
           f == proc[p].frame
           swaplr == proc[p].req.swaplr
<1>1. At(p, "live")
  BY DEF Drawn
<1>2. i.layout \in Layouts /\ i.width = FrameWidth(i.layout) /\ i.height = FrameHeight(i.layout)
  BY <1>1, InfoShape
<1>3. PICK slot \in Slots, n \in Nat, views \in Shots :
          f = [n |-> n, views |-> views,
               planes |-> mvc_get_frame(slot, n, views, i.layout, swaplr, Stride(i))]
  BY DEF Drawn
<1>4. f.n = n /\ f.views = views
      /\ f.planes = mvc_get_frame(slot, n, views, i.layout, swaplr, Stride(i))
  BY <1>3
<1> HIDE DEF f, swaplr
<1>5. ASSUME NEW plane \in Planes
      PROVE  LET w == IF plane = "Y" THEN i.width ELSE i.width \div 2
                 h == IF plane = "Y" THEN i.height ELSE i.height \div 2
             IN  /\ w = ShownWidth(i.layout, plane) /\ h = ShownHeight(i.layout, plane)
                 /\ Stride(i)[plane] \in Nat /\ w <= Stride(i)[plane]
  <2>1. /\ (IF plane = "Y" THEN i.width ELSE i.width \div 2) = ShownWidth(i.layout, plane)
        /\ (IF plane = "Y" THEN i.height ELSE i.height \div 2) = ShownHeight(i.layout, plane)
    BY <1>2 DEF ShownWidth, ShownHeight
  <2>2. Stride(i)[plane] = ShownWidth(i.layout, plane) + 1
    BY <2>1 DEF Stride
  <2>3. ShownWidth(i.layout, plane) \in Nat
    <3>1. ShownWidth(i.layout, plane) = (IF i.layout = "sbs" THEN 2 ELSE 1) * PlaneWidth(plane)
      BY <1>2, ShownSize DEF PicturesFit
    <3>2. PlaneWidth(plane) \in Nat
      BY PlaneTypes
    <3> QED BY <3>1, <3>2
  <2> HIDE DEF i
  <2> QED BY <2>1, <2>2, <2>3
<1>6. ASSUME NEW plane \in Planes
      PROVE  LET R == Rect(ShownWidth(i.layout, plane), ShownHeight(i.layout, plane))
             IN  Written(f.planes[plane], R, 0, Stride(i)[plane],
                         [at \in R |-> SampleAt(i.layout, n, swaplr, views,
                                                PlaneWidth(plane), PlaneHeight(plane), at)])
  <2> DEFINE strides == Stride(i)
  <2>1. strides[plane] \in Nat /\ ShownWidth(i.layout, plane) <= strides[plane]
    BY <1>5
  <2> HIDE DEF strides
  <2>2. f.planes = mvc_get_frame(slot, n, views, i.layout, swaplr, strides)
    BY <1>4 DEF strides
  <2> HIDE DEF i
  <2>3. i.layout \in Layouts
    BY <1>2
  <2> DEFINE l == i.layout
  <2> HIDE DEF l
  <2>4. LET R == Rect(ShownWidth(l, plane), ShownHeight(l, plane))
        IN  Written(mvc_get_frame(slot, n, views, l, swaplr, strides)[plane], R, 0, strides[plane],
                    [at \in R |-> SampleAt(l, n, swaplr, views,
                                           PlaneWidth(plane), PlaneHeight(plane), at)])
    BY <2>1, <2>3, FrameShown DEF l, PicturesFit
  <2> QED BY <2>2, <2>4 DEF l, strides

<1>7. ASSUME NEW plane \in Planes
      PROVE  LET w == IF plane = "Y" THEN i.width ELSE i.width \div 2
                 h == IF plane = "Y" THEN i.height ELSE i.height \div 2
                 places == (0 .. w - 1) \X (0 .. h - 1)
                 Address(at) == at[2] * Stride(i)[plane] + at[1]
             IN  /\ DOMAIN f.planes[plane] = {Address(at) : at \in places}
                 /\ \A at \in places : f.planes[plane][Address(at)] =
                        SampleAt(i.layout, f.n, swaplr, f.views,
                                 PlaneWidth(plane), PlaneHeight(plane), at)
  <2> DEFINE w == ShownWidth(i.layout, plane)
             h == ShownHeight(i.layout, plane)
             R == Rect(w, h)
             s == Stride(i)[plane]
             c == f.planes[plane]
             told(at) == SampleAt(i.layout, n, swaplr, views, PlaneWidth(plane), PlaneHeight(plane), at)
             read == [at \in R |-> told(at)]
  <2>1. Written(c, R, 0, s, read) /\ \A at \in R : read[at] = told(at)
    BY <1>6
  <2>2. s \in Nat
    BY <1>5
  <2>3. R = (0 .. w - 1) \X (0 .. h - 1)
    BY DEF Rect
  <2>4. w \in Nat /\ h \in Nat
    <3>1. /\ w = (IF i.layout = "sbs" THEN 2 ELSE 1) * PlaneWidth(plane)
          /\ h = (IF i.layout = "tab" THEN 2 ELSE 1) * PlaneHeight(plane)
      BY <1>2, ShownSize DEF PicturesFit
    <3>2. PlaneWidth(plane) \in Nat /\ PlaneHeight(plane) \in Nat
      BY PlaneTypes
    <3> HIDE DEF w, h, i
    <3> QED BY <3>1, <3>2
  <2> HIDE DEF R, s, c, told, read, w, h
  <2>5. \A at \in R : 0 + at[2] * s + at[1] = at[2] * s + at[1]
    <3> TAKE at \in R
    <3> DEFINE z == at[2] * s
    <3>1. at[1] \in Int /\ at[2] \in Int
      BY <2>3, <2>4
    <3>2. z \in Int
      BY <2>2, <3>1, SMT
    <3> HIDE DEF z
    <3>3. 0 + z + at[1] = z + at[1]
      BY <3>1, <3>2
    <3> QED BY <3>3 DEF z
  <2>6. \A a : a \in DOMAIN c <=> \E at \in R : a = at[2] * s + at[1]
    BY <2>1, <2>5 DEF Written
  <2>7. DOMAIN c = {at[2] * s + at[1] : at \in R}
    BY <2>6
  <2>8. \A at \in R : c[at[2] * s + at[1]] = told(at)
    BY <2>1, <2>5 DEF Written
  <2>9. /\ (IF plane = "Y" THEN i.width ELSE i.width \div 2) = w
        /\ (IF plane = "Y" THEN i.height ELSE i.height \div 2) = h
    BY <1>5 DEF w, h
  <2>10. \A at : told(at) = SampleAt(i.layout, f.n, swaplr, f.views,
                                     PlaneWidth(plane), PlaneHeight(plane), at)
    BY <1>4 DEF told
  <2> HIDE DEF i
  <2> QED BY <2>3, <2>7, <2>8, <2>9, <2>10 DEF s, c
<1> QED BY <1>7, Zenon DEF Handed, SampleAt, EyeAt, EyeView, SourceOf, f, swaplr

\* A step that draws nothing keeps or drops the frame.
LEMMA DrawnStays ==
  ASSUME UNCHANGED scene, NEW p, Drawn(p),
         \/ proc'[p].frame = <<>>
         \/ /\ proc'[p].frame = proc[p].frame
            /\ proc'[p].req = proc[p].req /\ proc'[p].info = proc[p].info
            /\ proc'[p].pc = "live" <=> proc[p].pc = "live"
         \/ proc'[p].frame = proc[p].frame /\ proc[p].pc # "live"
  PROVE  Drawn(p)'
<1>1. Slots' = Slots
  BY DEF Slots
<1>2. CASE proc'[p].frame = <<>>
  BY <1>2 DEF Drawn
<1>3. CASE proc'[p].frame = proc[p].frame /\ proc[p].pc # "live"
  BY <1>3 DEF Drawn, At
<1>4. CASE /\ proc'[p].frame = proc[p].frame
           /\ proc'[p].req = proc[p].req /\ proc'[p].info = proc[p].info
           /\ proc'[p].pc = "live" <=> proc[p].pc = "live"
  BY <1>1, <1>4, Zenon DEF Drawn, At
<1> QED BY <1>2, <1>3, <1>4

LEMMA DrawnKept ==
  ASSUME PicturesFit, TypeInv, UNCHANGED scene, NEW p \in Procs, Drawn(p),
         Opening(p) \/ Serving(p) \/ Crash(p)
  PROVE  Drawn(p)'
<1>0. ProcsInv /\ scene \in Scenes
  BY DEF TypeInv
<1>1. ASSUME NEW new, Step(p, new), "frame" \notin DOMAIN new, proc[p].pc # "live"
      PROVE  Drawn(p)'
  <2>1. proc'[p].frame = proc[p].frame
    BY <1>0, <1>1 DEF Step, With, Idle, ProcsInv
  <2> QED BY <1>1, <2>1, DrawnStays
<1>2. ASSUME NEW held, Leave(p, held) PROVE Drawn(p)'
  <2>1. proc'[p].frame = <<>>
    BY <1>0, <1>2 DEF Leave, Step, ProcsInv, With, Idle
  <2> QED BY <2>1, DrawnStays
<1>3. CASE Opening(p) \/ Create(p)
  <2>1. CASE MapBase(p) \/ MapDependent(p)
    <3>1. proc[p].pc # "live"
      BY <2>1 DEF MapBase, MapDependent, At
    <3> QED BY <1>1, <1>2, <2>1, <3>1 DEF MapBase, MapDependent, Close
  <2>2. CASE FindSidecar(p) \/ Read(p) \/ Judge(p)
    <3>1. proc[p].pc # "live"
      BY <2>2 DEF FindSidecar, Read, Judge, At
    <3> QED BY <1>1, <2>2, <3>1 DEF FindSidecar, Read, Judge
  <2>3. CASE Scan(p) \/ FirstFrame(p)
    <3>1. proc[p].pc # "live"
      BY <2>3 DEF Scan, FirstFrame, At
    <3> QED BY <1>1, <1>2, <2>3, <3>1 DEF Scan, FirstFrame, Close
  <2>4. CASE StartSave(p) \/ Write(p) \/ EndSave(p) \/ SpoilSave(p)
    <3>1. proc[p].pc # "live"
      BY <2>4 DEF StartSave, Write, EndSave, SpoilSave, At
    <3> QED BY <1>1, <2>4, <3>1 DEF StartSave, Write, EndSave, SpoilSave, Saving
  <2>5. CASE NewFilter(p) \/ NewClip(p)
    <3>1. proc[p].pc # "live"
      BY <2>5 DEF NewFilter, NewClip, At
    <3> QED BY <1>1, <1>2, <2>5, <3>1 DEF NewFilter, NewClip, Close
  <2>6. CASE Create(p)
    <3>1. proc[p].pc # "live"
      BY <2>6 DEF Create, At
    <3> QED BY <1>1, <2>6, <3>1 DEF Create
  <2> QED BY <1>3, <2>1, <2>2, <2>3, <2>4, <2>5, <2>6 DEF Opening
<1>4. CASE FreeNode(p) \/ Crash(p)
  BY <1>2, <1>4 DEF FreeNode, Crash, Close
<1>5. CASE BeginCall(p)
  <2>1. PICK n : Step(p, [calls |-> n, frame |-> <<>>])
    BY <1>5 DEF BeginCall
  <2>2. proc'[p].frame = <<>>
    BY <1>0, <2>1 DEF Step, With, Idle, ProcsInv
  <2> QED BY <2>2, DrawnStays
<1>6. CASE EndCall(p)
  <2>1. ASSUME NEW m, Step(p, [calls |-> m]) PROVE Drawn(p)'
    <3>1. /\ proc'[p].frame = proc[p].frame /\ proc'[p].req = proc[p].req
          /\ proc'[p].info = proc[p].info /\ proc'[p].pc = proc[p].pc
      BY <1>0, <2>1 DEF Step, With, Idle, ProcsInv
    <3> QED BY <3>1, DrawnStays
  <2>2. ASSUME NEW m, NEW n \in scene.frames, NEW views \in scene.pictures, NEW slot \in Slots,
               proc[p].calls > 0,
               Step(p, [calls |-> m, frame |-> [n |-> n, views |-> views, planes |->
                   mvc_get_frame(slot, n, views, proc[p].info.layout, proc[p].req.swaplr,
                                 Stride(proc[p].info))]])
        PROVE  Drawn(p)'
    <3> DEFINE planes == mvc_get_frame(slot, n, views, proc[p].info.layout, proc[p].req.swaplr,
                                       Stride(proc[p].info))
               f == [n |-> n, views |-> views, planes |-> planes]
    <3>1. At(p, "live")
      <4>1. proc[p].calls \in {0, 1} /\ (~At(p, "live") => proc[p].calls = 0)
        BY <1>0 DEF TypeInv, ProcsInv, Whole
      <4> QED BY <2>2, <4>1
    <3> HIDE DEF f
    <3>2. /\ proc'[p].frame = f /\ proc'[p].req = proc[p].req
          /\ proc'[p].info = proc[p].info /\ proc'[p].pc = proc[p].pc
      BY <1>0, <2>2 DEF Step, With, Idle, ProcsInv, f
    <3>3. n \in Nat /\ views \in Shots /\ slot \in Slots'
      BY <1>0, <2>2 DEF PicturesFit, Slots
    <3>4. proc'[p].frame = [n |-> n, views |-> views, planes |->
              mvc_get_frame(slot, n, views, proc'[p].info.layout, proc'[p].req.swaplr,
                            Stride(proc'[p].info))]
      <4>1. planes = mvc_get_frame(slot, n, views, proc'[p].info.layout, proc'[p].req.swaplr,
                                   Stride(proc'[p].info))
        BY <3>2, Zenon
      <4> HIDE DEF planes
      <4> QED BY <3>2, <4>1, Zenon DEF f
    <3>5. At(p, "live")'
      BY <3>1, <3>2 DEF At
    <3> QED BY <3>3, <3>4, <3>5, Zenon DEF Drawn
  <2>3. PicturesOf(p) \subseteq scene.pictures
    BY DEF PicturesOf
  <2> QED BY <1>6, <2>1, <2>2, <2>3 DEF EndCall
<1> QED BY <1>3, <1>4, <1>5, <1>6, Zenon DEF Serving

\* Each frame handed to a host has the sample promised at each place of each of
\* its planes, and between its rows nothing (mvc_get_frame, assemble_plane),
\* whatever was in the slot, and in every layout that its glue accepts.
THEOREM FrameAlwaysTrue == SourcesFit /\ PicturesFit => (Spec => []FrameTrue)
<1> SUFFICES ASSUME SourcesFit, PicturesFit PROVE Spec => []FrameTrue
  OBVIOUS
<1> DEFINE DrawnInv == \A p \in Procs : Drawn(p)
<1>1. Init => DrawnInv
  BY DEF Init, Idle, Drawn, At
<1>2. ASSUME TypeInv, DrawnInv, [Next]_vars PROVE DrawnInv'
  <2> SUFFICES ASSUME NEW q \in Procs PROVE Drawn(q)'
    OBVIOUS
  <2>1. Drawn(q)
    BY <1>2
  <2>2. ASSUME UNCHANGED scene, NEW p \in Procs, Opening(p) \/ Serving(p) \/ Crash(p)
        PROVE  Drawn(q)'
    <3>1. CASE q = p
      BY <1>2, <2>1, <2>2, <3>1, DrawnKept
    <3>2. CASE q # p
      <4>1. proc'[q] = proc[q]
        BY <1>2, <2>2, <3>2, OneOnly
      <4> QED BY <2>1, <2>2, <4>1, DrawnStays
    <3> QED BY <3>1, <3>2
  <2>3. CASE UNCHANGED <<proc, scene>>
    BY <2>1, <2>3, DrawnStays
  <2> QED BY <1>2, <2>2, <2>3 DEF Next, Replace, vars
<1>3. ASSUME TypeInv, NumbersInv, DrawnInv PROVE FrameTrue
  <2>1. ASSUME NEW p \in Procs, proc[p].frame # <<>> PROVE Handed(p)
    BY <1>3, <2>1, DrawnIsTrue DEF NumbersInv
  <2> QED BY <2>1, Zenon DEF FrameTrue, Handed
<1> HIDE DEF DrawnInv
<1> QED BY <1>1, <1>2, <1>3, NumbersAlways, PTL DEF Spec

=============================================================================
